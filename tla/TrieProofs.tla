----------------------------- MODULE TrieProofs -----------------------------
(***************************************************************************)
(* Proofs about the trie, for any finite set of keys and any values.       *)
(***************************************************************************)
EXTENDS Trie, ListTheorems, FiniteSetTheorems, TLAPS

-----------------------------------------------------------------------------
(* The bits of a key in the order in which the tree looks at them: byte by  *)
(* byte, each from its highest bit down.                                    *)

Bytes == Seq(1 .. 255)

KeyBit(k, n) == Bit(ByteAt(k, n \div 8), 7 - (n % 8))

PosOf(byte, bit) == 8 * byte + (7 - bit)

Pos(node) == PosOf(node.byte, node.bit)

(* The two keys have the same first n bits. *)
Agree(k, l, n) == \A m \in 0 .. n - 1 : KeyBit(k, m) = KeyBit(l, m)

LEMMA KeysAreBytes ==
  /\ \A k \in Keys : k \in Bytes
  /\ \A p \in Asked : p \in Bytes
  BY TrieAssumption DEF Bytes

LEMMA ElementsOf ==
  ASSUME NEW S, NEW s \in Seq(S)
  PROVE  Len(s) \in Nat /\ DOMAIN s = 1 .. Len(s) /\ \A j \in 1 .. Len(s) : s[j] \in S
  OBVIOUS

(* The bytes of a key. *)
LEMMA KeyElements ==
  ASSUME NEW k \in Bytes
  PROVE  Len(k) \in Nat /\ DOMAIN k = 1 .. Len(k) /\ \A j \in 1 .. Len(k) : k[j] \in 1 .. 255
<1> DEFINE S == 1 .. 255
<1>1. k \in Seq(S)
  BY DEF Bytes
<1> HIDE DEF S
<1>2. Len(k) \in Nat /\ DOMAIN k = 1 .. Len(k) /\ \A j \in 1 .. Len(k) : k[j] \in S
  BY <1>1, ElementsOf
<1> QED
  BY <1>2 DEF S

LEMMA ByteType ==
  ASSUME NEW k \in Bytes, NEW i \in Nat
  PROVE  ByteAt(k, i) \in 0 .. 255
<1>1. Len(k) \in Nat /\ \A j \in 1 .. Len(k) : k[j] \in 1 .. 255
  BY KeyElements
<1>2. CASE i < Len(k)
  <2>1. i + 1 \in 1 .. Len(k)
    BY <1>1, <1>2
  <2> QED
    BY <2>1, <1>1, <1>2 DEF ByteAt
<1>3. CASE ~(i < Len(k))
  BY <1>3 DEF ByteAt
<1> QED
  BY <1>2, <1>3

LEMMA BitType ==
  ASSUME NEW a \in 0 .. 255, NEW i \in 0 .. 7
  PROVE  Bit(a, i) \in {0, 1}
  BY DEF Bit

(* A byte is determined by its bits. *)
LEMMA ByteBits ==
  ASSUME NEW a \in 0 .. 255, NEW b \in 0 .. 255,
         \A i \in 0 .. 7 : Bit(a, i) = Bit(b, i)
  PROVE  a = b
<1>1. \A x, y \in Nat : x % 2 = y % 2 /\ x \div 2 = y \div 2 => x = y
  OBVIOUS
<1>2. /\ 2^0 = 1 /\ 2^1 = 2 /\ 2^2 = 4 /\ 2^3 = 8
      /\ 2^4 = 16 /\ 2^5 = 32 /\ 2^6 = 64 /\ 2^7 = 128
  OBVIOUS
<1>3. /\ Bit(a, 0) = Bit(b, 0) /\ Bit(a, 1) = Bit(b, 1)
      /\ Bit(a, 2) = Bit(b, 2) /\ Bit(a, 3) = Bit(b, 3)
      /\ Bit(a, 4) = Bit(b, 4) /\ Bit(a, 5) = Bit(b, 5)
      /\ Bit(a, 6) = Bit(b, 6) /\ Bit(a, 7) = Bit(b, 7)
  OBVIOUS
<1>4. /\ a % 2 = b % 2
      /\ (a \div 2) % 2 = (b \div 2) % 2
      /\ (a \div 4) % 2 = (b \div 4) % 2
      /\ (a \div 8) % 2 = (b \div 8) % 2
      /\ (a \div 16) % 2 = (b \div 16) % 2
      /\ (a \div 32) % 2 = (b \div 32) % 2
      /\ (a \div 64) % 2 = (b \div 64) % 2
      /\ (a \div 128) % 2 = (b \div 128) % 2
  BY <1>2, <1>3 DEF Bit
<1>5. \A x \in {a, b} :
        /\ x \in Nat /\ x \div 2 \in Nat /\ x \div 4 \in Nat /\ x \div 8 \in Nat
        /\ x \div 16 \in Nat /\ x \div 32 \in Nat /\ x \div 64 \in Nat
        /\ (x \div 128) % 2 = x \div 128
  OBVIOUS
<1>6. \A x \in {a, b} :
        /\ (x \div 2) \div 2 = x \div 4
        /\ (x \div 4) \div 2 = x \div 8
        /\ (x \div 8) \div 2 = x \div 16
        /\ (x \div 16) \div 2 = x \div 32
        /\ (x \div 32) \div 2 = x \div 64
        /\ (x \div 64) \div 2 = x \div 128
  OBVIOUS
<1>7. a \div 64 = b \div 64
  BY <1>1, <1>4, <1>5, <1>6
<1>8. a \div 32 = b \div 32
  BY <1>1, <1>4, <1>5, <1>6, <1>7
<1>9. a \div 16 = b \div 16
  BY <1>1, <1>4, <1>5, <1>6, <1>8
<1>10. a \div 8 = b \div 8
  BY <1>1, <1>4, <1>5, <1>6, <1>9
<1>11. a \div 4 = b \div 4
  BY <1>1, <1>4, <1>5, <1>6, <1>10
<1>12. a \div 2 = b \div 2
  BY <1>1, <1>4, <1>5, <1>6, <1>11
<1> QED
  BY <1>1, <1>4, <1>5, <1>12

(* Positions and the bytes and bits they are made of. *)
LEMMA Positions ==
  ASSUME NEW byte \in Nat, NEW bit \in 0 .. 7
  PROVE  /\ PosOf(byte, bit) \in Nat
         /\ PosOf(byte, bit) \div 8 = byte
         /\ 7 - (PosOf(byte, bit) % 8) = bit
  BY DEF PosOf

LEMMA KeyBitAt ==
  ASSUME NEW k, NEW byte \in Nat, NEW bit \in 0 .. 7
  PROVE  KeyBit(k, PosOf(byte, bit)) = Bit(ByteAt(k, byte), bit)
  BY Positions DEF KeyBit

LEMMA KeyBitType ==
  ASSUME NEW k \in Bytes, NEW n \in Nat
  PROVE  KeyBit(k, n) \in {0, 1}
<1>1. n \div 8 \in Nat /\ 7 - (n % 8) \in 0 .. 7
  OBVIOUS
<1> QED
  BY <1>1, ByteType, BitType DEF KeyBit

(* Two keys with the same bytes are the same. *)
LEMMA SameBytes ==
  ASSUME NEW k \in Bytes, NEW l \in Bytes,
         \A i \in 0 .. Len(k) : ByteAt(k, i) = ByteAt(l, i)
  PROVE  k = l
<1>1. /\ Len(k) \in Nat /\ Len(l) \in Nat
      /\ \A j \in 1 .. Len(k) : k[j] \in 1 .. 255
      /\ \A j \in 1 .. Len(l) : l[j] \in 1 .. 255
  BY KeyElements
<1>2. ~(Len(k) < Len(l))
  <2> SUFFICES ASSUME Len(k) < Len(l) PROVE FALSE
    OBVIOUS
  <2>1. ByteAt(k, Len(k)) = 0
    BY <1>1 DEF ByteAt
  <2>2. ByteAt(l, Len(k)) = l[Len(k) + 1] /\ Len(k) + 1 \in 1 .. Len(l)
    BY <1>1 DEF ByteAt
  <2>3. ByteAt(k, Len(k)) = ByteAt(l, Len(k))
    <3>1. Len(k) \in 0 .. Len(k)
      BY <1>1
    <3> QED
      BY <3>1
  <2>4. l[Len(k) + 1] \in 1 .. 255
    BY <1>1, <2>2
  <2>5. l[Len(k) + 1] = 0
    BY <2>1, <2>2, <2>3, Zenon
  <2> QED
    BY <2>4, <2>5
<1>3. ~(Len(l) < Len(k))
  <2> SUFFICES ASSUME Len(l) < Len(k) PROVE FALSE
    OBVIOUS
  <2>1. ByteAt(l, Len(l)) = 0 /\ Len(l) \in 0 .. Len(k)
    BY <1>1 DEF ByteAt
  <2>2. ByteAt(k, Len(l)) = k[Len(l) + 1] /\ Len(l) + 1 \in 1 .. Len(k)
    BY <1>1 DEF ByteAt
  <2>3. ByteAt(k, Len(l)) = ByteAt(l, Len(l))
    BY <2>1
  <2>4. k[Len(l) + 1] \in 1 .. 255
    BY <1>1, <2>2
  <2> QED
    BY <2>1, <2>2, <2>3, <2>4
<1>4. Len(k) = Len(l)
  BY <1>1, <1>2, <1>3
<1>5. ASSUME NEW j \in 1 .. Len(k) PROVE k[j] = l[j]
  <2>1. j - 1 \in 0 .. Len(k) /\ j - 1 < Len(k) /\ j - 1 < Len(l) /\ (j - 1) + 1 = j
    BY <1>1, <1>4
  <2>2. ByteAt(k, j - 1) = k[j] /\ ByteAt(l, j - 1) = l[j]
    BY <2>1 DEF ByteAt
  <2> QED
    BY <2>1, <2>2
<1> QED
  BY <1>4, <1>5, SeqEqual DEF Bytes

(* The least element of a set of numbers, and the greatest of one that is  *)
(* bounded.                                                                *)
LEMMA MinOf ==
  ASSUME NEW T, T \subseteq Nat, T # {}
  PROVE  Min(T) \in T /\ \A y \in T : Min(T) <= y
<1>1. \E x \in T : \A y \in T : x <= y
  BY FirstPosition
<1> QED
  BY <1>1 DEF Min

LEMMA MaxOf ==
  ASSUME NEW T, NEW b \in Nat, T \subseteq 0 .. b, T # {}
  PROVE  Max(T) \in T /\ \A y \in T : y <= Max(T)
<1> DEFINE U == {n \in Nat : \E x \in T : n = b - x}
<1>1. U # {}
  <2>1. PICK x \in T : TRUE
    OBVIOUS
  <2>2. b - x \in U
    BY <2>1
  <2> QED
    BY <2>2
<1>2. PICK n \in U : \A y \in U : n <= y
  <2>1. U \subseteq Nat
    OBVIOUS
  <2> HIDE DEF U
  <2> QED
    BY <1>1, <2>1, FirstPosition
<1>3. PICK x \in T : n = b - x
  BY <1>2
<1>4. ASSUME NEW y \in T PROVE y <= x
  <2>1. b - y \in U
    OBVIOUS
  <2>2. b - x <= b - y
    BY <1>2, <1>3, <2>1
  <2>3. x \in 0 .. b /\ y \in 0 .. b
    OBVIOUS
  <2> QED
    BY <2>2, <2>3
<1>5. \E z \in T : \A y \in T : y <= z
  BY <1>4
<1> QED
  BY <1>5 DEF Max

(* Keys that agree up to a position agree on the bytes before its byte and  *)
(* on the higher bits of that byte.                                         *)
LEMMA AgreeBytes ==
  ASSUME NEW k \in Bytes, NEW l \in Bytes, NEW byte \in Nat, NEW bit \in 0 .. 7
  PROVE  Agree(k, l, PosOf(byte, bit)) <=>
           /\ \A i \in 0 .. byte - 1 : ByteAt(k, i) = ByteAt(l, i)
           /\ \A i \in bit + 1 .. 7 : Bit(ByteAt(k, byte), i) = Bit(ByteAt(l, byte), i)
<1> DEFINE n == PosOf(byte, bit)
<1>1. n \in Nat
  BY Positions
<1>2. ASSUME Agree(k, l, n), NEW i \in 0 .. byte - 1
      PROVE  ByteAt(k, i) = ByteAt(l, i)
  <2>1. i \in Nat /\ ByteAt(k, i) \in 0 .. 255 /\ ByteAt(l, i) \in 0 .. 255
    BY ByteType
  <2>2. ASSUME NEW b \in 0 .. 7
        PROVE  Bit(ByteAt(k, i), b) = Bit(ByteAt(l, i), b)
    <3>1. PosOf(i, b) \in 0 .. n - 1
      BY DEF PosOf
    <3>2. KeyBit(k, PosOf(i, b)) = KeyBit(l, PosOf(i, b))
      BY <1>2, <3>1 DEF Agree
    <3> QED
      BY <2>1, <3>2, KeyBitAt
  <2> QED
    BY <2>1, <2>2, ByteBits
<1>3. ASSUME Agree(k, l, n), NEW i \in bit + 1 .. 7
      PROVE  Bit(ByteAt(k, byte), i) = Bit(ByteAt(l, byte), i)
  <2>1. PosOf(byte, i) \in 0 .. n - 1 /\ i \in 0 .. 7
    BY DEF PosOf
  <2>2. KeyBit(k, PosOf(byte, i)) = KeyBit(l, PosOf(byte, i))
    BY <1>3, <2>1 DEF Agree
  <2> QED
    BY <2>1, <2>2, KeyBitAt
<1>4. ASSUME \A i \in 0 .. byte - 1 : ByteAt(k, i) = ByteAt(l, i),
             \A i \in bit + 1 .. 7 : Bit(ByteAt(k, byte), i) = Bit(ByteAt(l, byte), i),
             NEW m \in 0 .. n - 1
      PROVE  KeyBit(k, m) = KeyBit(l, m)
  <2>1. m \div 8 \in Nat /\ 7 - (m % 8) \in 0 .. 7
    BY <1>1
  <2>2. m \div 8 < byte \/ (m \div 8 = byte /\ 7 - (m % 8) > bit)
    BY <1>1 DEF PosOf
  <2>3. CASE m \div 8 < byte
    <3>1. m \div 8 \in 0 .. byte - 1
      BY <2>1, <2>3
    <3> QED
      BY <3>1, <1>4 DEF KeyBit
  <2>4. CASE m \div 8 = byte /\ 7 - (m % 8) > bit
    <3>1. 7 - (m % 8) \in bit + 1 .. 7
      BY <2>1, <2>4
    <3> QED
      BY <3>1, <2>4, <1>4 DEF KeyBit
  <2> QED
    BY <2>2, <2>3, <2>4
<1> QED
  BY <1>2, <1>3, <1>4 DEF Agree

(* dict_set: the byte and the bit it computes are those of the first bit    *)
(* in which the two keys differ.                                            *)
LEMMA FirstDifference ==
  ASSUME NEW k \in Bytes, NEW l \in Bytes, k # l,
         NEW byte, byte = DiffByte(k, l),
         NEW bit, bit = DiffBit(ByteAt(k, byte), ByteAt(l, byte))
  PROVE  /\ byte \in Nat /\ bit \in 0 .. 7
         /\ Bit(ByteAt(k, byte), bit) # Bit(ByteAt(l, byte), bit)
         /\ Agree(k, l, PosOf(byte, bit))
<1> DEFINE T == {i \in 0 .. Len(k) : ByteAt(k, i) # ByteAt(l, i)}
<1>1. T # {} /\ T \subseteq Nat
  <2>1. Len(k) \in Nat
    BY KeyElements
  <2> QED
    BY <2>1, SameBytes
<1>2. byte = Min(T)
  BY DEF DiffByte
<1>3. byte \in T /\ \A i \in T : byte <= i
  <2> HIDE DEF T
  <2> QED
    BY <1>1, <1>2, MinOf
<1>4. Len(k) \in Nat /\ byte \in 0 .. Len(k) /\ byte \in Nat
  BY <1>3, KeyElements
<1>5. \A i \in 0 .. byte - 1 : ByteAt(k, i) = ByteAt(l, i)
  <2> SUFFICES ASSUME NEW i \in 0 .. byte - 1, ByteAt(k, i) # ByteAt(l, i) PROVE FALSE
    OBVIOUS
  <2>1. i \in 0 .. Len(k) /\ ~(byte <= i)
    BY <1>4
  <2> QED
    BY <1>3, <2>1
<1> DEFINE a == ByteAt(k, byte)
           b == ByteAt(l, byte)
           U == {i \in 0 .. 7 : Bit(a, i) # Bit(b, i)}
<1>6. a \in 0 .. 255 /\ b \in 0 .. 255 /\ a # b
  BY <1>3, <1>4, ByteType
<1>7. U # {} /\ U \subseteq 0 .. 7
  <2> HIDE DEF a, b
  <2> QED
    BY <1>6, ByteBits
<1>8. bit \in U /\ \A i \in U : i <= bit
  <2>1. bit = Max(U)
    BY DEF DiffBit
  <2> HIDE DEF U
  <2> QED
    BY <1>7, <2>1, MaxOf
<1>9. bit \in 0 .. 7 /\ Bit(a, bit) # Bit(b, bit)
  BY <1>8
<1>10. \A i \in bit + 1 .. 7 : Bit(a, i) = Bit(b, i)
  <2> SUFFICES ASSUME NEW i \in bit + 1 .. 7, Bit(a, i) # Bit(b, i) PROVE FALSE
    OBVIOUS
  <2>1. i \in 0 .. 7 /\ ~(i <= bit)
    BY <1>9
  <2> QED
    BY <1>8, <2>1
<1>11. Agree(k, l, PosOf(byte, bit))
  BY <1>4, <1>5, <1>9, <1>10, AgreeBytes
<1> QED
  BY <1>4, <1>9, <1>11

-----------------------------------------------------------------------------
(* Paths.                                                                   *)

Paths == Seq({0, 1})

LEMMA PathElements ==
  ASSUME NEW p \in Paths
  PROVE  Len(p) \in Nat /\ DOMAIN p = 1 .. Len(p) /\ \A i \in 1 .. Len(p) : p[i] \in {0, 1}
<1> DEFINE S == {0, 1}
<1>1. p \in Seq(S)
  BY DEF Paths
<1> HIDE DEF S
<1>2. Len(p) \in Nat /\ DOMAIN p = 1 .. Len(p) /\ \A i \in 1 .. Len(p) : p[i] \in S
  BY <1>1, ElementsOf
<1> QED
  BY <1>2 DEF S

LEMMA PathEqual ==
  ASSUME NEW p \in Paths, NEW q \in Paths, Len(p) = Len(q),
         \A i \in 1 .. Len(p) : p[i] = q[i]
  PROVE  p = q
  BY SeqEqual DEF Paths

LEMMA PathMade ==
  ASSUME NEW n \in Nat, NEW f \in [1 .. n -> {0, 1}]
  PROVE  f \in Paths /\ Len(f) = n
  BY DEF Paths

LEMMA UpFacts ==
  ASSUME NEW p \in Paths, NEW i \in 0 .. Len(p)
  PROVE  /\ Up(p, i) \in Paths
         /\ Len(Up(p, i)) = i
         /\ \A j \in 1 .. i : Up(p, i)[j] = p[j]
<1>1. Len(p) \in Nat /\ \A j \in 1 .. Len(p) : p[j] \in {0, 1}
  BY PathElements
<1>2. 1 \in 1 .. Len(p) + 1 /\ i \in 1 - 1 .. Len(p)
  BY <1>1
<1>3. IF 1 <= i THEN Len(Up(p, i)) = (i - 1) + 1 ELSE Len(Up(p, i)) = 0
  BY <1>1, <1>2, SubSeqProperties DEF Paths, Up
<1>4. Up(p, i) \in Paths /\ \A j \in 1 .. (i - 1) + 1 : Up(p, i)[j] = p[(1 + j) - 1]
  BY <1>1, <1>2, SubSeqProperties DEF Paths, Up
<1>5. Len(Up(p, i)) = i
  BY <1>1, <1>3
<1>6. ASSUME NEW j \in 1 .. i PROVE Up(p, i)[j] = p[j]
  <2>1. j \in 1 .. (i - 1) + 1 /\ (1 + j) - 1 = j
    BY <1>1
  <2> QED
    BY <2>1, <1>4
<1> QED
  BY <1>4, <1>5, <1>6

LEMMA UpUp ==
  ASSUME NEW p \in Paths, NEW i \in 0 .. Len(p), NEW j \in 0 .. i
  PROVE  Up(Up(p, i), j) = Up(p, j)
<1>1. Len(p) \in Nat /\ j \in 0 .. Len(p)
  BY PathElements
<1>2. /\ Up(p, i) \in Paths /\ Len(Up(p, i)) = i
      /\ \A n \in 1 .. i : Up(p, i)[n] = p[n]
      /\ Up(p, j) \in Paths /\ Len(Up(p, j)) = j
      /\ \A n \in 1 .. j : Up(p, j)[n] = p[n]
  BY <1>1, UpFacts
<1>3. /\ Up(Up(p, i), j) \in Paths /\ Len(Up(Up(p, i), j)) = j
      /\ \A n \in 1 .. j : Up(Up(p, i), j)[n] = Up(p, i)[n]
  BY <1>2, UpFacts
<1>4. \A n \in 1 .. j : n \in 1 .. i
  BY <1>1
<1> QED
  BY <1>2, <1>3, <1>4, PathEqual

LEMMA UpAll ==
  ASSUME NEW p \in Paths
  PROVE  Up(p, Len(p)) = p
<1>1. Len(p) \in 0 .. Len(p)
  BY PathElements
<1> QED
  BY <1>1, UpFacts, PathEqual

(* Paths with the same first i steps. *)
LEMMA UpEqual ==
  ASSUME NEW p \in Paths, NEW q \in Paths, NEW i \in 0 .. Len(p), i \in 0 .. Len(q)
  PROVE  Up(p, i) = Up(q, i) <=> \A j \in 1 .. i : p[j] = q[j]
<1>1. /\ Up(p, i) \in Paths /\ Len(Up(p, i)) = i
      /\ \A n \in 1 .. i : Up(p, i)[n] = p[n]
      /\ Up(q, i) \in Paths /\ Len(Up(q, i)) = i
      /\ \A n \in 1 .. i : Up(q, i)[n] = q[n]
  BY UpFacts
<1>2. ASSUME \A j \in 1 .. i : p[j] = q[j] PROVE Up(p, i) = Up(q, i)
  BY <1>1, <1>2, PathEqual
<1>3. ASSUME Up(p, i) = Up(q, i), NEW j \in 1 .. i PROVE p[j] = q[j]
  BY <1>1, <1>3
<1> QED
  BY <1>2, <1>3

(* The prefixes of a path are its first steps. *)
LEMMA PrefixIsUp ==
  ASSUME NEW p \in Paths, NEW q \in Paths
  PROVE  IsPrefix(p, q) <=> Len(p) \in 0 .. Len(q) /\ Up(q, Len(p)) = p
<1>1. Len(p) \in Nat /\ Len(q) \in Nat
  BY PathElements
<1>2. SubSeq(p, 1, Len(p)) = p
  BY UpAll DEF Up
<1> QED
  BY <1>1, <1>2 DEF IsPrefix, Up

LEMMA AppendPath ==
  ASSUME NEW p \in Paths, NEW d \in {0, 1}
  PROVE  /\ Append(p, d) \in Paths
         /\ Len(Append(p, d)) = Len(p) + 1
         /\ \A i \in 1 .. Len(p) : Append(p, d)[i] = p[i]
         /\ Append(p, d)[Len(p) + 1] = d
         /\ \A i \in 0 .. Len(p) : Up(Append(p, d), i) = Up(p, i)
<1>1. Len(p) \in Nat
  BY PathElements
<1>2. /\ Append(p, d) \in Paths
      /\ Len(Append(p, d)) = Len(p) + 1
      /\ \A i \in 1 .. Len(p) : Append(p, d)[i] = p[i]
      /\ Append(p, d)[Len(p) + 1] = d
  BY AppendProperties DEF Paths
<1>3. ASSUME NEW i \in 0 .. Len(p) PROVE Up(Append(p, d), i) = Up(p, i)
  <2>1. i \in 0 .. Len(Append(p, d)) /\ \A j \in 1 .. i : j \in 1 .. Len(p)
    BY <1>1, <1>2
  <2> QED
    BY <1>2, <2>1, UpEqual
<1> QED
  BY <1>2, <1>3

(* Two paths part at a first step, or one of them goes on where the other   *)
(* ends.                                                                    *)
LEMMA Parting ==
  ASSUME NEW p \in Paths, NEW q \in Paths
  PROVE  \/ p = q
         \/ Len(p) < Len(q) /\ Up(q, Len(p)) = p
         \/ Len(q) < Len(p) /\ Up(p, Len(q)) = q
         \/ \E i \in 0 .. Len(p) - 1 :
              i < Len(q) /\ Up(p, i) = Up(q, i) /\ p[i + 1] # q[i + 1]
<1>1. Len(p) \in Nat /\ Len(q) \in Nat
  BY PathElements
<1> DEFINE T == {i \in 1 .. Len(p) : i <= Len(q) /\ p[i] # q[i]}
<1>2. CASE T # {}
  <2>1. T \subseteq Nat
    BY <1>1
  <2>2. PICK x \in T : \A y \in T : x <= y
    <3> HIDE DEF T
    <3> QED
      BY <1>2, <2>1, FirstPosition
  <2>3. x \in 1 .. Len(p) /\ x <= Len(q) /\ p[x] # q[x]
    BY <2>2
  <2>4. /\ x - 1 \in 0 .. Len(p) - 1 /\ x - 1 < Len(q) /\ (x - 1) + 1 = x
        /\ x - 1 \in 0 .. Len(p) /\ x - 1 \in 0 .. Len(q)
    BY <1>1, <2>3
  <2>5. \A j \in 1 .. x - 1 : p[j] = q[j]
    <3> SUFFICES ASSUME NEW j \in 1 .. x - 1, p[j] # q[j] PROVE FALSE
      OBVIOUS
    <3>1. j \in 1 .. Len(p) /\ j <= Len(q) /\ ~(x <= j)
      BY <1>1, <2>3
    <3> QED
      BY <2>2, <3>1
  <2>6. Up(p, x - 1) = Up(q, x - 1)
    BY <2>4, <2>5, UpEqual
  <2> QED
    BY <2>3, <2>4, <2>6
<1>3. CASE T = {}
  <2>1. \A i \in 1 .. Len(p) : i <= Len(q) => p[i] = q[i]
    BY <1>3
  <2> HIDE DEF T
  <2>2. CASE Len(p) = Len(q)
    <3>1. \A i \in 1 .. Len(p) : p[i] = q[i]
      BY <1>1, <2>1, <2>2
    <3> QED
      BY <2>2, <3>1, PathEqual
  <2>3. CASE Len(p) < Len(q)
    <3>1. /\ Len(p) \in 0 .. Len(p) /\ Len(p) \in 0 .. Len(q)
          /\ \A i \in 1 .. Len(p) : p[i] = q[i]
      BY <1>1, <2>1, <2>3
    <3>2. Up(p, Len(p)) = Up(q, Len(p))
      BY <3>1, UpEqual
    <3> QED
      BY <2>3, <3>2, UpAll
  <2>4. CASE Len(q) < Len(p)
    <3>1. /\ Len(q) \in 0 .. Len(p) /\ Len(q) \in 0 .. Len(q)
          /\ \A i \in 1 .. Len(q) : p[i] = q[i]
      BY <1>1, <2>1, <2>4
    <3>2. Up(p, Len(q)) = Up(q, Len(q))
      BY <3>1, UpEqual
    <3> QED
      BY <2>4, <3>2, UpAll
  <2> QED
    BY <1>1, <2>2, <2>3, <2>4
<1> QED
  BY <1>2, <1>3

-----------------------------------------------------------------------------
(* The inductive invariant: what makes a function from paths a crit-bit     *)
(* tree.                                                                    *)

LeafRec == [kind : {"leaf"}, key : Keys, val : Values]

NodeRec == [kind : {"node"}, byte : Nat, bit : 0 .. 7]

LeafSet(t) == {p \in DOMAIN t : t[p] \in LeafRec}

(* Every proper prefix of a path is an inner node, and every inner node has *)
(* both its children.                                                       *)
Shape(t) ==
  /\ t \in [DOMAIN t -> LeafRec \cup NodeRec]
  /\ DOMAIN t \subseteq Paths
  /\ IsFiniteSet(DOMAIN t)
  /\ \A p \in DOMAIN t : \A i \in 0 .. Len(p) - 1 :
       Up(p, i) \in DOMAIN t /\ t[Up(p, i)] \in NodeRec
  /\ \A p \in DOMAIN t : t[p] \in NodeRec => \A d \in {0, 1} : Append(p, d) \in DOMAIN t

(* The bits that nodes look at come later further down. *)
Ordered(t) ==
  \A p \in DOMAIN t : t[p] \in NodeRec =>
    \A i \in 0 .. Len(p) - 1 : Pos(t[Up(p, i)]) < Pos(t[p])

(* The bits of the key choose every step of the path. *)
Follows(t, k, p) == \A i \in 0 .. Len(p) - 1 : p[i + 1] = KeyBit(k, Pos(t[Up(p, i)]))

(* Every key is where its bits lead. *)
OnPath(t) == \A p \in LeafSet(t) : Follows(t, t[p].key, p)

(* The keys below a node agree on the bits before the node's. *)
Sharing(t) ==
  \A p, q \in LeafSet(t) : \A i \in 0 .. Len(p) - 1 :
    i < Len(q) /\ Up(p, i) = Up(q, i) => Agree(t[p].key, t[q].key, Pos(t[Up(p, i)]))

CritBitTree(t) == Shape(t) /\ Ordered(t) /\ OnPath(t) /\ Sharing(t)

LEMMA LeafFields ==
  ASSUME NEW r \in LeafRec
  PROVE  /\ r.kind = "leaf" /\ r.key \in Keys /\ r.key \in Bytes /\ r.val \in Values
         /\ r \notin NodeRec
<1>1. r.kind = "leaf" /\ r.key \in Keys /\ r.val \in Values
  BY DEF LeafRec
<1>2. r \notin NodeRec
  BY <1>1 DEF NodeRec
<1> QED
  BY <1>1, <1>2, KeysAreBytes

LEMMA NodeFields ==
  ASSUME NEW r \in NodeRec
  PROVE  /\ r.kind = "node" /\ r.byte \in Nat /\ r.bit \in 0 .. 7
         /\ Pos(r) \in Nat
         /\ r \notin LeafRec
<1>1. r.kind = "node" /\ r.byte \in Nat /\ r.bit \in 0 .. 7
  BY DEF NodeRec
<1>2. r \notin LeafRec
  BY <1>1 DEF LeafRec
<1> QED
  BY <1>1, <1>2, Positions DEF Pos

(* The pieces of a well-formed tree at one of its paths. *)
LEMMA At ==
  ASSUME NEW t, Shape(t), NEW p \in DOMAIN t
  PROVE  /\ p \in Paths /\ Len(p) \in Nat
         /\ p \in LeafSet(t) \/ t[p] \in NodeRec
         /\ p \in LeafSet(t) <=> t[p] \notin NodeRec
         /\ \A i \in 0 .. Len(p) - 1 : Up(p, i) \in DOMAIN t /\ t[Up(p, i)] \in NodeRec
         /\ \A i \in 0 .. Len(p) : Up(p, i) \in DOMAIN t
         /\ t[p] \in NodeRec => \A d \in {0, 1} : Append(p, d) \in DOMAIN t
<1>1. /\ p \in Paths
      /\ t[p] \in LeafRec \cup NodeRec
      /\ \A i \in 0 .. Len(p) - 1 : Up(p, i) \in DOMAIN t /\ t[Up(p, i)] \in NodeRec
      /\ t[p] \in NodeRec => \A d \in {0, 1} : Append(p, d) \in DOMAIN t
  BY DEF Shape
<1>2. Len(p) \in Nat
  BY <1>1, PathElements
<1>3. p \in LeafSet(t) <=> t[p] \in LeafRec
  BY DEF LeafSet
<1>4. \A i \in 0 .. Len(p) : i \in 0 .. Len(p) - 1 \/ i = Len(p)
  BY <1>2
<1>5. \A i \in 0 .. Len(p) : Up(p, i) \in DOMAIN t
  BY <1>1, <1>4, UpAll
<1> QED
  BY <1>1, <1>2, <1>3, <1>5, LeafFields, NodeFields

(* A path is no longer than the tree is large. *)
LEMMA Depth ==
  ASSUME NEW t, Shape(t), NEW p \in DOMAIN t
  PROVE  Cardinality(DOMAIN t) \in Nat /\ Len(p) <= Cardinality(DOMAIN t)
<1> DEFINE f == [i \in 0 .. Len(p) |-> Up(p, i)]
           D == DOMAIN t
           I == 0 .. Len(p)
<1>1. p \in Paths /\ Len(p) \in Nat /\ \A i \in I : Up(p, i) \in D
  BY At
<1>2. \A i \in I : Len(Up(p, i)) = i
  BY <1>1, UpFacts
<1>3. f \in [I -> D]
  BY <1>1
<1>4. ASSUME NEW i \in I, NEW j \in I, f[i] = f[j] PROVE i = j
  <2>1. Up(p, i) = Up(p, j)
    BY <1>4
  <2> QED
    BY <2>1, <1>2
<1>5. f \in Injection(I, D)
  <2>1. DOMAIN f = I
    OBVIOUS
  <2> HIDE DEF f, I, D
  <2> QED
    BY <1>3, <1>4, <2>1 DEF Injection, IsInjective
<1>6. IsFiniteSet(D)
  BY DEF Shape
<1>7. Cardinality(I) <= Cardinality(D) /\ Cardinality(D) \in Nat
  <2> HIDE DEF f, I, D
  <2> QED
    BY <1>5, <1>6, FS_Injection, FS_CardinalityType
<1>8. Cardinality(I) = Len(p) + 1
  BY <1>1, FS_Interval
<1> QED
  BY <1>1, <1>7, <1>8

LEMMA RootInTree ==
  ASSUME NEW t, Shape(t), DOMAIN t # {}
  PROVE  Root \in DOMAIN t /\ Root \in Paths /\ Len(Root) = 0
<1>1. PICK p \in DOMAIN t : TRUE
  OBVIOUS
<1>2. p \in Paths /\ Len(p) \in Nat /\ 0 \in 0 .. Len(p) /\ Up(p, 0) \in DOMAIN t
  BY At
<1>3. Root \in Paths /\ Len(Root) = 0
  BY DEF Root, Paths
<1>4. Up(p, 0) \in Paths /\ Len(Up(p, 0)) = 0
  BY <1>2, UpFacts
<1>5. Up(p, 0) = Root
  BY <1>3, <1>4, PathEqual
<1> QED
  BY <1>2, <1>3, <1>5

(* A path that a key follows can be extended by the key's next bit. *)
LEMMA FollowOn ==
  ASSUME NEW t, Shape(t), NEW p \in DOMAIN t, t[p] \in NodeRec,
         NEW k \in Bytes, Follows(t, k, p)
  PROVE  LET q == Append(p, KeyBit(k, Pos(t[p])))
         IN  q \in DOMAIN t /\ Len(q) = Len(p) + 1 /\ Follows(t, k, q)
<1> DEFINE d == KeyBit(k, Pos(t[p]))
           q == Append(p, d)
<1>1. d \in {0, 1}
  BY NodeFields, KeyBitType
<1>2. p \in Paths /\ Len(p) \in Nat /\ q \in DOMAIN t
  BY <1>1, At
<1> HIDE DEF d
<1>3. /\ Len(q) = Len(p) + 1
      /\ \A i \in 1 .. Len(p) : q[i] = p[i]
      /\ q[Len(p) + 1] = d
      /\ \A i \in 0 .. Len(p) : Up(q, i) = Up(p, i)
  BY <1>1, <1>2, AppendPath
<1>4. Up(q, Len(p)) = p
  BY <1>2, <1>3, UpAll
<1> HIDE DEF q
<1>5. ASSUME NEW i \in 0 .. Len(q) - 1
      PROVE  q[i + 1] = KeyBit(k, Pos(t[Up(q, i)]))
  <2>1. CASE i = Len(p)
    BY <2>1, <1>3, <1>4 DEF d
  <2>2. CASE i # Len(p)
    <3>1. i \in 0 .. Len(p) - 1 /\ i \in 0 .. Len(p) /\ i + 1 \in 1 .. Len(p)
      BY <1>2, <1>3, <2>2
    <3>2. p[i + 1] = KeyBit(k, Pos(t[Up(p, i)]))
      BY <3>1 DEF Follows
    <3> QED
      BY <3>1, <3>2, <1>3
  <2> QED
    BY <2>1, <2>2
<1>6. Follows(t, k, q)
  BY <1>5 DEF Follows
<1> QED
  BY <1>2, <1>3, <1>6 DEF q, d

(* Every key's bits lead to a leaf. *)
LEMMA LeafReached ==
  ASSUME NEW t, Shape(t), DOMAIN t # {}, NEW k \in Bytes
  PROVE  \E p \in LeafSet(t) : Follows(t, k, p)
<1> DEFINE W == {p \in DOMAIN t : Follows(t, k, p)}
           L == {n \in Nat : \E p \in W : n = Len(p)}
           b == Cardinality(DOMAIN t)
<1>1. Root \in W /\ Len(Root) = 0
  <2>1. Root \in DOMAIN t /\ Len(Root) = 0
    BY RootInTree
  <2>2. Follows(t, k, Root)
    BY <2>1 DEF Follows
  <2> QED
    BY <2>1, <2>2
<1>2. L # {} /\ L \subseteq 0 .. b /\ b \in Nat
  <2>1. \A p \in W : Len(p) \in Nat /\ Len(p) <= b /\ b \in Nat
    BY At, Depth
  <2>2. 0 \in L
    BY <1>1
  <2> HIDE DEF b, W
  <2> QED
    BY <1>1, <2>1, <2>2
<1>3. PICK n \in L : \A m \in L : m <= n
  <2> HIDE DEF L, b
  <2> QED
    BY <1>2, MaxOf
<1>4. PICK p \in W : n = Len(p)
  BY <1>3
<1>5. p \in DOMAIN t /\ Follows(t, k, p)
  BY <1>4
<1>6. CASE t[p] \in NodeRec
  <2>1. PICK q \in DOMAIN t : Len(q) = Len(p) + 1 /\ Follows(t, k, q)
    BY <1>5, <1>6, FollowOn
  <2>2. Len(q) \in L
    BY <2>1, At
  <2>3. Len(q) <= Len(p) /\ Len(p) \in Nat
    BY <1>3, <1>4, <2>2, At
  <2> QED
    BY <2>1, <2>3
<1>7. CASE t[p] \notin NodeRec
  BY <1>5, <1>7, At
<1> QED
  BY <1>6, <1>7

(* Two leaves whose paths follow the same bits are one. *)
LEMMA OneLeaf ==
  ASSUME NEW t, Shape(t), NEW k, NEW p \in LeafSet(t), NEW q \in LeafSet(t),
         Follows(t, k, p), Follows(t, k, q)
  PROVE  p = q
<1>1. /\ p \in DOMAIN t /\ p \in Paths /\ Len(p) \in Nat
      /\ q \in DOMAIN t /\ q \in Paths /\ Len(q) \in Nat
      /\ t[p] \notin NodeRec /\ t[q] \notin NodeRec
  BY At DEF LeafSet
<1>2. ~(Len(p) < Len(q) /\ Up(q, Len(p)) = p)
  <2> SUFFICES ASSUME Len(p) < Len(q), Up(q, Len(p)) = p PROVE FALSE
    OBVIOUS
  <2>1. Len(p) \in 0 .. Len(q) - 1
    BY <1>1
  <2> QED
    BY <1>1, <2>1, At
<1>3. ~(Len(q) < Len(p) /\ Up(p, Len(q)) = q)
  <2> SUFFICES ASSUME Len(q) < Len(p), Up(p, Len(q)) = q PROVE FALSE
    OBVIOUS
  <2>1. Len(q) \in 0 .. Len(p) - 1
    BY <1>1
  <2> QED
    BY <1>1, <2>1, At
<1>4. ASSUME NEW i \in 0 .. Len(p) - 1, i < Len(q), Up(p, i) = Up(q, i)
      PROVE  p[i + 1] = q[i + 1]
  <2>1. i \in 0 .. Len(q) - 1
    BY <1>1, <1>4
  <2> QED
    BY <1>4, <2>1 DEF Follows
<1> QED
  BY <1>1, <1>2, <1>3, <1>4, Parting

-----------------------------------------------------------------------------
(* What the operators of the model find in such a tree.                     *)

LEMMA EmptyTree ==
  ASSUME NEW t, Shape(t)
  PROVE  t = NoTree <=> DOMAIN t = {}
<1>1. t = [p \in DOMAIN t |-> t[p]]
  BY DEF Shape
<1>2. DOMAIN NoTree = {}
  BY DEF NoTree
<1>3. ASSUME DOMAIN t = {} PROVE t = NoTree
  BY <1>1, <1>3 DEF NoTree
<1> QED
  BY <1>2, <1>3

LEMMA LeavesAre ==
  ASSUME Shape(tree)
  PROVE  Leaves = LeafSet(tree)
<1>1. \A p \in DOMAIN tree : tree[p] \in LeafRec \cup NodeRec
  BY DEF Shape
<1> QED
  BY <1>1, LeafFields, NodeFields DEF Leaves, IsLeaf, LeafSet

LEMMA DirectionIs ==
  ASSUME NEW k, NEW p, tree[p] \in NodeRec
  PROVE  Direction(k, p) = KeyBit(k, Pos(tree[p]))
  BY NodeFields, KeyBitAt DEF Direction, Pos

(* closest ends at the one leaf on the path of the key. *)
LEMMA ClosestIs ==
  ASSUME Shape(tree), tree # NoTree, NEW k \in Bytes
  PROVE  /\ Closest(k) \in LeafSet(tree)
         /\ Follows(tree, k, Closest(k))
         /\ \A p \in LeafSet(tree) : Follows(tree, k, p) => p = Closest(k)
<1> DEFINE Led(p) == \A i \in DOMAIN p : p[i] = Direction(k, Up(p, i - 1))
<1>1. ASSUME NEW p \in LeafSet(tree)
      PROVE  Led(p) <=> Follows(tree, k, p)
  <2>1. /\ p \in Paths /\ Len(p) \in Nat /\ DOMAIN p = 1 .. Len(p)
        /\ \A i \in 0 .. Len(p) - 1 : tree[Up(p, i)] \in NodeRec
    BY At, PathElements DEF LeafSet
  <2>2. \A i \in 0 .. Len(p) - 1 : Direction(k, Up(p, i)) = KeyBit(k, Pos(tree[Up(p, i)]))
    BY <2>1, DirectionIs
  <2>3. /\ \A i \in 1 .. Len(p) : i - 1 \in 0 .. Len(p) - 1 /\ (i - 1) + 1 = i
        /\ \A i \in 0 .. Len(p) - 1 : i + 1 \in 1 .. Len(p) /\ (i + 1) - 1 = i
    BY <2>1
  <2>4. ASSUME Led(p), NEW i \in 0 .. Len(p) - 1
        PROVE  p[i + 1] = KeyBit(k, Pos(tree[Up(p, i)]))
    <3>1. p[i + 1] = Direction(k, Up(p, (i + 1) - 1))
      BY <2>1, <2>3, <2>4
    <3> QED
      BY <2>2, <2>3, <3>1
  <2>5. ASSUME Follows(tree, k, p), NEW i \in DOMAIN p
        PROVE  p[i] = Direction(k, Up(p, i - 1))
    <3>1. i - 1 \in 0 .. Len(p) - 1 /\ (i - 1) + 1 = i
      BY <2>1, <2>3
    <3>2. p[(i - 1) + 1] = KeyBit(k, Pos(tree[Up(p, i - 1)]))
      BY <2>5, <3>1 DEF Follows
    <3> QED
      BY <2>2, <3>1, <3>2
  <2> QED
    BY <2>4, <2>5 DEF Follows
<1>2. Leaves = LeafSet(tree)
  BY LeavesAre
<1>3. DOMAIN tree # {}
  BY EmptyTree
<1>4. \E p \in LeafSet(tree) : Led(p)
  BY <1>1, <1>3, LeafReached
<1>5. Closest(k) = CHOOSE p \in LeafSet(tree) : Led(p)
  BY <1>2 DEF Closest
<1>6. Closest(k) \in LeafSet(tree) /\ Led(Closest(k))
  <2> HIDE DEF Led
  <2> QED
    BY <1>4, <1>5
<1>7. Follows(tree, k, Closest(k))
  BY <1>1, <1>6
<1> QED
  BY <1>6, <1>7, OneLeaf

(* Every key is found where it is. *)
LEMMA OwnLeaf ==
  ASSUME CritBitTree(tree), NEW p \in LeafSet(tree)
  PROVE  tree # NoTree /\ tree[p].key \in Bytes /\ Closest(tree[p].key) = p
<1>1. Shape(tree) /\ Follows(tree, tree[p].key, p)
  BY DEF CritBitTree, OnPath
<1>2. p \in DOMAIN tree /\ tree[p] \in LeafRec
  BY DEF LeafSet
<1>3. tree # NoTree
  BY <1>1, <1>2, EmptyTree
<1>4. tree[p].key \in Bytes
  BY <1>2, LeafFields
<1> QED
  BY <1>1, <1>3, <1>4, ClosestIs

LEMMA DistinctKeys ==
  ASSUME NEW t, CritBitTree(t), NEW p \in LeafSet(t), NEW q \in LeafSet(t),
         t[p].key = t[q].key
  PROVE  p = q
<1>1. Shape(t) /\ Follows(t, t[p].key, p) /\ Follows(t, t[q].key, q)
  BY DEF CritBitTree, OnPath
<1> QED
  BY <1>1, OneLeaf

(* dict_get: the value of the leaf with the key, or NULL if there is none. *)
LEMMA GetIs ==
  ASSUME CritBitTree(tree), NEW k \in Keys
  PROVE  /\ \A p \in LeafSet(tree) : tree[p].key = k => Get(k) = tree[p].val /\ Closest(k) = p
         /\ (\A p \in LeafSet(tree) : tree[p].key # k) => Get(k) = NoValue
         /\ Get(k) # NoValue => Get(k) \in Values /\ tree # NoTree
                             /\ Closest(k) \in LeafSet(tree) /\ tree[Closest(k)].key = k
                             /\ Get(k) = tree[Closest(k)].val
<1>1. Shape(tree) /\ k \in Bytes
  BY KeysAreBytes DEF CritBitTree
<1>2. ASSUME NEW p \in LeafSet(tree), tree[p].key = k
      PROVE  Get(k) = tree[p].val /\ Closest(k) = p
  BY <1>2, OwnLeaf DEF Get
<1>3. ASSUME Get(k) # NoValue
      PROVE  /\ tree # NoTree
             /\ Closest(k) \in LeafSet(tree) /\ tree[Closest(k)].key = k
             /\ Get(k) = tree[Closest(k)].val
  BY <1>1, <1>3, ClosestIs DEF Get
<1>4. \A p \in LeafSet(tree) : tree[p].val \in Values
  BY LeafFields DEF LeafSet
<1> QED
  BY <1>2, <1>3, <1>4

(* The map that a tree stands for. *)
Contents(t) ==
  [k \in {t[p].key : p \in LeafSet(t)} |-> t[CHOOSE p \in LeafSet(t) : t[p].key = k].val]

LEMMA ContentsAt ==
  ASSUME NEW t, CritBitTree(t)
  PROVE  /\ DOMAIN Contents(t) = {t[p].key : p \in LeafSet(t)}
         /\ DOMAIN Contents(t) \subseteq Keys
         /\ IsFiniteSet(DOMAIN Contents(t))
         /\ \A p \in LeafSet(t) : Contents(t)[t[p].key] = t[p].val
         /\ \A k \in DOMAIN Contents(t) : Contents(t)[k] \in Values
<1>1. DOMAIN Contents(t) = {t[p].key : p \in LeafSet(t)}
  BY DEF Contents
<1>2. \A p \in LeafSet(t) : t[p].key \in Keys /\ t[p].val \in Values
  BY LeafFields DEF LeafSet
<1>3. ASSUME NEW p \in LeafSet(t) PROVE Contents(t)[t[p].key] = t[p].val
  <2> DEFINE k == t[p].key
             q == CHOOSE r \in LeafSet(t) : t[r].key = k
  <2>1. q \in LeafSet(t) /\ t[q].key = k
    OBVIOUS
  <2>2. q = p
    <3> HIDE DEF q
    <3> QED
      BY <2>1, DistinctKeys
  <2>3. k \in {t[r].key : r \in LeafSet(t)}
    OBVIOUS
  <2>4. Contents(t)[k] = t[q].val
    BY <2>3 DEF Contents
  <2> QED
    BY <2>2, <2>4
<1>4. DOMAIN Contents(t) \subseteq Keys
  BY <1>1, <1>2
<1>5. IsFiniteSet(DOMAIN Contents(t))
  BY <1>4, TrieAssumption, FS_Subset
<1>6. ASSUME NEW k \in DOMAIN Contents(t) PROVE Contents(t)[k] \in Values
  <2>1. PICK p \in LeafSet(t) : k = t[p].key
    BY <1>1
  <2> QED
    BY <2>1, <1>2, <1>3
<1> QED
  BY <1>1, <1>3, <1>4, <1>5, <1>6

LEMMA ContentIs ==
  CritBitTree(tree) => content = Contents(tree)
<1> SUFFICES ASSUME CritBitTree(tree) PROVE content = Contents(tree)
  OBVIOUS
<1> DEFINE found == [k \in Keys |-> Get(k)]
           D == {k \in Keys : found[k] # NoValue}
<1>1. content = [k \in D |-> found[k]]
  BY DEF content, Restrict
<1>2. /\ DOMAIN Contents(tree) = {tree[p].key : p \in LeafSet(tree)}
      /\ DOMAIN Contents(tree) \subseteq Keys
      /\ \A p \in LeafSet(tree) : Contents(tree)[tree[p].key] = tree[p].val
      /\ \A k \in DOMAIN Contents(tree) : Contents(tree)[k] \in Values
  BY ContentsAt
<1>3. ASSUME NEW k \in DOMAIN Contents(tree)
      PROVE  k \in D /\ found[k] = Contents(tree)[k]
  <2>1. PICK p \in LeafSet(tree) : k = tree[p].key
    BY <1>2
  <2>2. k \in Keys /\ Get(k) = tree[p].val /\ Get(k) = Contents(tree)[k]
    BY <1>2, <2>1, GetIs
  <2>3. Get(k) \in Values
    BY <2>2, <1>2
  <2> QED
    BY <2>2, <2>3, TrieAssumption
<1>4. ASSUME NEW k \in D PROVE k \in DOMAIN Contents(tree)
  <2>1. k \in Keys /\ Get(k) # NoValue
    OBVIOUS
  <2>2. Closest(k) \in LeafSet(tree) /\ tree[Closest(k)].key = k
    BY <2>1, GetIs
  <2> QED
    BY <1>2, <2>2
<1>5. D = DOMAIN Contents(tree)
  BY <1>3, <1>4
<1>6. Contents(tree) = [k \in DOMAIN Contents(tree) |-> Contents(tree)[k]]
  BY DEF Contents
<1> HIDE DEF found, D
<1> QED
  BY <1>1, <1>3, <1>5, <1>6

LEMMA ContentPrime ==
  CritBitTree(tree)' => content' = Contents(tree')
<1>1. CritBitTree(tree)' => (content = Contents(tree))'
  BY ContentIs, PTL
<1> QED
  BY <1>1

-----------------------------------------------------------------------------
(* Adding a step to a path and taking one out, behind the first n steps.    *)

Ins(p, n, e) ==
  [i \in 1 .. Len(p) + 1 |-> IF i <= n THEN p[i] ELSE IF i = n + 1 THEN e ELSE p[i - 1]]

Cut(p, n) == [i \in 1 .. Len(p) - 1 |-> IF i <= n THEN p[i] ELSE p[i + 1]]

LEMMA InsSteps ==
  ASSUME NEW p \in Paths, NEW n \in 0 .. Len(p), NEW e \in {0, 1}
  PROVE  /\ Ins(p, n, e) \in Paths
         /\ Len(Ins(p, n, e)) = Len(p) + 1
         /\ \A i \in 1 .. n : Ins(p, n, e)[i] = p[i]
         /\ Ins(p, n, e)[n + 1] = e
         /\ \A i \in n + 1 .. Len(p) : Ins(p, n, e)[i + 1] = p[i]
<1> DEFINE q == Ins(p, n, e)
<1>1. Len(p) \in Nat /\ n \in Nat /\ n <= Len(p) /\ \A i \in 1 .. Len(p) : p[i] \in {0, 1}
  BY PathElements
<1>2. \A i \in 1 .. Len(p) + 1 :
        q[i] = IF i <= n THEN p[i] ELSE IF i = n + 1 THEN e ELSE p[i - 1]
  BY DEF Ins
<1>3. \A i \in 1 .. Len(p) + 1 : q[i] \in {0, 1}
  <2> SUFFICES ASSUME NEW i \in 1 .. Len(p) + 1 PROVE q[i] \in {0, 1}
    OBVIOUS
  <2>1. CASE i <= n
    <3>1. i \in 1 .. Len(p)
      BY <1>1, <2>1
    <3> QED
      BY <3>1, <2>1, <1>1, <1>2
  <2>2. CASE i = n + 1
    <3>1. ~(i <= n)
      BY <1>1, <2>2
    <3> QED
      BY <3>1, <2>2, <1>1, <1>2
  <2>3. CASE ~(i <= n) /\ i # n + 1
    <3>1. i - 1 \in 1 .. Len(p)
      BY <1>1, <2>3
    <3> QED
      BY <3>1, <2>3, <1>1, <1>2
  <2> QED
    BY <2>1, <2>2, <2>3
<1>4. q \in [1 .. Len(p) + 1 -> {0, 1}]
  <2>1. q = [i \in 1 .. Len(p) + 1 |-> q[i]]
    BY DEF Ins
  <2> HIDE DEF q
  <2> QED
    BY <2>1, <1>3
<1>5. q \in Paths /\ Len(q) = Len(p) + 1
  <2>1. Len(p) + 1 \in Nat
    BY <1>1
  <2> HIDE DEF q
  <2> QED
    BY <2>1, <1>4, PathMade
<1> HIDE DEF q
<1>6. ASSUME NEW i \in 1 .. n PROVE q[i] = p[i]
  <2>1. i \in 1 .. Len(p) + 1 /\ i <= n
    BY <1>1
  <2> QED
    BY <2>1, <1>2
<1>7. q[n + 1] = e
  <2>1. n + 1 \in 1 .. Len(p) + 1 /\ ~(n + 1 <= n)
    BY <1>1
  <2> QED
    BY <2>1, <1>2
<1>8. ASSUME NEW i \in n + 1 .. Len(p) PROVE q[i + 1] = p[i]
  <2>1. i + 1 \in 1 .. Len(p) + 1 /\ ~(i + 1 <= n) /\ i + 1 # n + 1 /\ (i + 1) - 1 = i
    BY <1>1
  <2> QED
    BY <2>1, <1>2
<1> QED
  BY <1>5, <1>6, <1>7, <1>8 DEF q

LEMMA CutSteps ==
  ASSUME NEW p \in Paths, NEW n \in 0 .. Len(p) - 1
  PROVE  /\ Cut(p, n) \in Paths
         /\ Len(Cut(p, n)) = Len(p) - 1
         /\ \A i \in 1 .. n : Cut(p, n)[i] = p[i]
         /\ \A i \in n + 1 .. Len(p) - 1 : Cut(p, n)[i] = p[i + 1]
<1> DEFINE q == Cut(p, n)
<1>1. Len(p) \in Nat /\ n \in Nat /\ n <= Len(p) - 1 /\ \A i \in 1 .. Len(p) : p[i] \in {0, 1}
  BY PathElements
<1>2. \A i \in 1 .. Len(p) - 1 : q[i] = IF i <= n THEN p[i] ELSE p[i + 1]
  BY DEF Cut
<1>3. \A i \in 1 .. Len(p) - 1 : q[i] \in {0, 1}
  <2> SUFFICES ASSUME NEW i \in 1 .. Len(p) - 1 PROVE q[i] \in {0, 1}
    OBVIOUS
  <2>1. i \in 1 .. Len(p) /\ i + 1 \in 1 .. Len(p)
    BY <1>1
  <2> QED
    BY <2>1, <1>1, <1>2
<1>4. q \in [1 .. Len(p) - 1 -> {0, 1}]
  <2>1. q = [i \in 1 .. Len(p) - 1 |-> q[i]]
    BY DEF Cut
  <2> HIDE DEF q
  <2> QED
    BY <2>1, <1>3
<1>5. q \in Paths /\ Len(q) = Len(p) - 1
  <2>1. Len(p) - 1 \in Nat
    BY <1>1
  <2> HIDE DEF q
  <2> QED
    BY <2>1, <1>4, PathMade
<1> HIDE DEF q
<1>6. ASSUME NEW i \in 1 .. n PROVE q[i] = p[i]
  <2>1. i \in 1 .. Len(p) - 1 /\ i <= n
    BY <1>1
  <2> QED
    BY <2>1, <1>2
<1>7. ASSUME NEW i \in n + 1 .. Len(p) - 1 PROVE q[i] = p[i + 1]
  <2>1. i \in 1 .. Len(p) - 1 /\ ~(i <= n)
    BY <1>1
  <2> QED
    BY <2>1, <1>2
<1> QED
  BY <1>5, <1>6, <1>7 DEF q

(* The prefixes of a path with a step added. *)
LEMMA InsUp ==
  ASSUME NEW p \in Paths, NEW n \in 0 .. Len(p), NEW e \in {0, 1}
  PROVE  /\ \A i \in 0 .. n : Up(Ins(p, n, e), i) = Up(p, i)
         /\ \A i \in n .. Len(p) : /\ Up(Ins(p, n, e), i + 1) = Ins(Up(p, i), n, e)
                                   /\ n \in 0 .. Len(Up(p, i))
         /\ Cut(Ins(p, n, e), n) = p
<1> DEFINE q == Ins(p, n, e)
<1>1. Len(p) \in Nat /\ n \in Nat /\ n <= Len(p)
  BY PathElements
<1>2. /\ q \in Paths /\ Len(q) = Len(p) + 1
      /\ \A i \in 1 .. n : q[i] = p[i]
      /\ q[n + 1] = e
      /\ \A i \in n + 1 .. Len(p) : q[i + 1] = p[i]
  BY InsSteps
<1> HIDE DEF q
<1>3. ASSUME NEW i \in 0 .. n PROVE Up(q, i) = Up(p, i)
  <2>1. i \in 0 .. Len(q) /\ i \in 0 .. Len(p) /\ \A j \in 1 .. i : j \in 1 .. n
    BY <1>1, <1>2
  <2> QED
    BY <1>2, <2>1, UpEqual
<1>4. ASSUME NEW i \in n .. Len(p)
      PROVE  Up(q, i + 1) = Ins(Up(p, i), n, e) /\ n \in 0 .. Len(Up(p, i))
  <2>1. i \in 0 .. Len(p) /\ i + 1 \in 0 .. Len(q)
    BY <1>1, <1>2
  <2>2. /\ Up(p, i) \in Paths /\ Len(Up(p, i)) = i
        /\ \A j \in 1 .. i : Up(p, i)[j] = p[j]
        /\ Up(q, i + 1) \in Paths /\ Len(Up(q, i + 1)) = i + 1
        /\ \A j \in 1 .. i + 1 : Up(q, i + 1)[j] = q[j]
    BY <1>2, <2>1, UpFacts
  <2>3. n \in 0 .. Len(Up(p, i))
    BY <1>1, <2>2
  <2> DEFINE u == Up(p, i)
             r == Ins(u, n, e)
  <2> HIDE DEF u
  <2>4. u \in Paths /\ Len(u) = i /\ n \in 0 .. Len(u) /\ \A j \in 1 .. i : u[j] = p[j]
    BY <2>2, <2>3 DEF u
  <2>5. /\ r \in Paths /\ Len(r) = i + 1
        /\ \A j \in 1 .. n : r[j] = u[j]
        /\ r[n + 1] = e
        /\ \A j \in n + 1 .. i : r[j + 1] = u[j]
    BY <2>4, InsSteps, ZenonT(40)
  <2> HIDE DEF r
  <2>6. ASSUME NEW j \in 1 .. i + 1 PROVE Up(q, i + 1)[j] = r[j]
    <3>1. CASE j <= n
      <4>1. j \in 1 .. n /\ j \in 1 .. i
        BY <1>1, <3>1
      <4> QED
        BY <4>1, <1>2, <2>2, <2>4, <2>5
    <3>2. CASE j = n + 1
      BY <3>2, <1>2, <2>2, <2>5
    <3>3. CASE j > n + 1
      <4>1. j - 1 \in n + 1 .. i /\ j - 1 \in n + 1 .. Len(p) /\ j - 1 \in 1 .. i /\ (j - 1) + 1 = j
        BY <1>1, <3>3
      <4>2. q[(j - 1) + 1] = p[j - 1]
        BY <4>1, <1>2
      <4>3. r[(j - 1) + 1] = u[j - 1] /\ u[j - 1] = p[j - 1]
        BY <4>1, <2>4, <2>5
      <4>4. Up(q, i + 1)[j] = q[j]
        BY <2>2
      <4> QED
        BY <4>1, <4>2, <4>3, <4>4
    <3> QED
      BY <1>1, <3>1, <3>2, <3>3
  <2>7. Up(q, i + 1) = r
    BY <2>2, <2>5, <2>6, PathEqual
  <2> QED
    BY <2>3, <2>7 DEF r, u
<1>5. Cut(q, n) = p
  <2>1. n \in 0 .. Len(q) - 1
    BY <1>1, <1>2
  <2>2. /\ Cut(q, n) \in Paths /\ Len(Cut(q, n)) = Len(p)
        /\ \A i \in 1 .. n : Cut(q, n)[i] = q[i]
        /\ \A i \in n + 1 .. Len(p) : Cut(q, n)[i] = q[i + 1]
    <3>1. Len(q) - 1 = Len(p)
      BY <1>1, <1>2
    <3> QED
      BY <1>2, <2>1, <3>1, CutSteps
  <2>3. \A i \in 1 .. Len(p) : i \in 1 .. n \/ i \in n + 1 .. Len(p)
    BY <1>1
  <2>4. \A i \in 1 .. Len(p) : Cut(q, n)[i] = p[i]
    BY <1>2, <2>2, <2>3
  <2> QED
    BY <2>2, <2>4, PathEqual
<1> QED
  BY <1>3, <1>4, <1>5 DEF q

(* The prefixes of a path with a step taken out. *)
LEMMA CutUp ==
  ASSUME NEW p \in Paths, NEW n \in 0 .. Len(p) - 1
  PROVE  /\ \A i \in 0 .. n : Up(Cut(p, n), i) = Up(p, i)
         /\ Ins(Cut(p, n), n, p[n + 1]) = p
<1> DEFINE q == Cut(p, n)
<1>1. Len(p) \in Nat /\ n \in Nat /\ n <= Len(p) - 1 /\ p[n + 1] \in {0, 1}
  <2>1. Len(p) \in Nat
    BY PathElements
  <2>2. n + 1 \in 1 .. Len(p)
    BY <2>1
  <2> QED
    BY <2>1, <2>2, PathElements
<1>2. /\ q \in Paths /\ Len(q) = Len(p) - 1
      /\ \A i \in 1 .. n : q[i] = p[i]
      /\ \A i \in n + 1 .. Len(p) - 1 : q[i] = p[i + 1]
  BY CutSteps
<1> HIDE DEF q
<1>3. ASSUME NEW i \in 0 .. n PROVE Up(q, i) = Up(p, i)
  <2>1. i \in 0 .. Len(q) /\ i \in 0 .. Len(p) /\ \A j \in 1 .. i : j \in 1 .. n
    BY <1>1, <1>2
  <2> QED
    BY <1>2, <2>1, UpEqual
<1>4. Ins(q, n, p[n + 1]) = p
  <2> DEFINE e == p[n + 1]
             r == Ins(q, n, e)
  <2>1. n \in 0 .. Len(q) /\ Len(q) + 1 = Len(p)
    BY <1>1, <1>2
  <2>2. /\ r \in Paths /\ Len(r) = Len(p)
        /\ \A i \in 1 .. n : r[i] = q[i]
        /\ r[n + 1] = e
        /\ \A i \in n + 1 .. Len(q) : r[i + 1] = q[i]
    <3> HIDE DEF e
    <3>1. e \in {0, 1}
      BY <1>1 DEF e
    <3> QED
      BY <1>2, <2>1, <3>1, InsSteps
  <2> HIDE DEF r
  <2>3. ASSUME NEW j \in 1 .. Len(p) PROVE r[j] = p[j]
    <3>1. CASE j <= n
      BY <3>1, <1>2, <2>2
    <3>2. CASE j = n + 1
      BY <3>2, <2>2
    <3>3. CASE j > n + 1
      <4>1. j - 1 \in n + 1 .. Len(q) /\ j - 1 \in n + 1 .. Len(p) - 1 /\ (j - 1) + 1 = j
        BY <1>1, <1>2, <3>3
      <4> QED
        BY <4>1, <1>2, <2>2, ZenonT(40)
    <3> QED
      BY <1>1, <3>1, <3>2, <3>3
  <2> QED
    BY <2>2, <2>3, PathEqual DEF r
<1> QED
  BY <1>3, <1>4 DEF q

(* What is behind the first m steps of a path. *)
LEMMA RestSteps ==
  ASSUME NEW p \in Paths, NEW m \in 0 .. Len(p)
  PROVE  /\ SubSeq(p, m + 1, Len(p)) \in Paths
         /\ Len(SubSeq(p, m + 1, Len(p))) = Len(p) - m
         /\ \A i \in 1 .. Len(p) - m : SubSeq(p, m + 1, Len(p))[i] = p[m + i]
<1>1. Len(p) \in Nat /\ m \in Nat /\ \A i \in 1 .. Len(p) : p[i] \in {0, 1}
  BY PathElements
<1> DEFINE S == {0, 1}
           a == m + 1
           b == Len(p)
<1>2. a \in Int /\ b \in Int /\ \A i \in a .. b : p[i] \in S
  BY <1>1
<1>3. /\ b - a + 1 = Len(p) - m
      /\ (IF a <= b THEN b - a + 1 ELSE 0) = Len(p) - m
      /\ \A i \in 1 .. Len(p) - m : (a + i) - 1 = m + i
  BY <1>1
<1> HIDE DEF S, a, b
<1>4. /\ SubSeq(p, a, b) \in Seq(S)
      /\ Len(SubSeq(p, a, b)) = IF a <= b THEN b - a + 1 ELSE 0
      /\ \A i \in 1 .. b - a + 1 : SubSeq(p, a, b)[i] = p[(a + i) - 1]
  BY <1>2, SubSeqProperties
<1>5. /\ SubSeq(p, a, b) \in Seq(S)
      /\ Len(SubSeq(p, a, b)) = Len(p) - m
      /\ \A i \in 1 .. Len(p) - m : SubSeq(p, a, b)[i] = p[m + i]
  BY <1>3, <1>4
<1> QED
  BY <1>5 DEF a, b, S, Paths

LEMMA ConcatSteps ==
  ASSUME NEW p \in Paths, NEW q \in Paths
  PROVE  /\ p \o q \in Paths
         /\ Len(p \o q) = Len(p) + Len(q)
         /\ \A i \in 1 .. Len(p) : (p \o q)[i] = p[i]
         /\ \A i \in Len(p) + 1 .. Len(p) + Len(q) : (p \o q)[i] = q[i - Len(p)]
<1> DEFINE S == {0, 1}
<1>1. p \in Seq(S) /\ q \in Seq(S)
  BY DEF Paths
<1> HIDE DEF S
<1>2. /\ p \o q \in Seq(S)
      /\ Len(p \o q) = Len(p) + Len(q)
      /\ \A i \in 1 .. Len(p) + Len(q) : (p \o q)[i] = IF i <= Len(p) THEN p[i] ELSE q[i - Len(p)]
  BY <1>1, ConcatProperties
<1>3. Len(p) \in Nat /\ Len(q) \in Nat
  BY PathElements
<1>4. \A i \in 1 .. Len(p) : i \in 1 .. Len(p) + Len(q) /\ i <= Len(p)
  BY <1>3
<1>5. \A i \in Len(p) + 1 .. Len(p) + Len(q) : i \in 1 .. Len(p) + Len(q) /\ ~(i <= Len(p))
  BY <1>3
<1> QED
  BY <1>2, <1>4, <1>5 DEF S, Paths

(* The prefixes of a path, step by step. *)
LEMMA PrefixSteps ==
  ASSUME NEW c \in Paths, NEW p \in Paths
  PROVE  IsPrefix(c, p) <=> Len(c) \in 0 .. Len(p) /\ \A i \in 1 .. Len(c) : c[i] = p[i]
<1>1. Len(c) \in Nat /\ Len(p) \in Nat /\ Len(c) \in 0 .. Len(c) /\ Up(c, Len(c)) = c
  BY PathElements, UpAll
<1>2. ASSUME Len(c) \in 0 .. Len(p)
      PROVE  Up(p, Len(c)) = c <=> \A i \in 1 .. Len(c) : c[i] = p[i]
  BY <1>1, <1>2, UpEqual
<1> QED
  BY <1>2, PrefixIsUp

LEMMA ChildPrefix ==
  ASSUME NEW c \in Paths, NEW e \in {0, 1}, NEW p \in Paths
  PROVE  IsPrefix(Append(c, e), p) <=> /\ IsPrefix(c, p)
                                       /\ Len(c) < Len(p) /\ p[Len(c) + 1] = e
<1>1. Len(c) \in Nat /\ Len(p) \in Nat
  BY PathElements
<1>2. /\ Append(c, e) \in Paths /\ Len(Append(c, e)) = Len(c) + 1
      /\ \A i \in 1 .. Len(c) : Append(c, e)[i] = c[i]
      /\ Append(c, e)[Len(c) + 1] = e
  BY AppendPath
<1> DEFINE a == Append(c, e)
<1> HIDE DEF a
<1>3. a \in Paths /\ Len(a) = Len(c) + 1 /\ (\A i \in 1 .. Len(c) : a[i] = c[i]) /\ a[Len(c) + 1] = e
  BY <1>2 DEF a
<1>4. Len(a) \in 0 .. Len(p) <=> Len(c) \in 0 .. Len(p) /\ Len(c) < Len(p)
  BY <1>1, <1>3
<1>5. (\A i \in 1 .. Len(a) : a[i] = p[i]) <=>
        (\A i \in 1 .. Len(c) : c[i] = p[i]) /\ p[Len(c) + 1] = e
  <2>1. 1 .. Len(a) = (1 .. Len(c)) \cup {Len(c) + 1}
    BY <1>1, <1>3
  <2> QED
    BY <1>3, <2>1
<1>6. IsPrefix(a, p) <=> IsPrefix(c, p) /\ Len(c) < Len(p) /\ p[Len(c) + 1] = e
  BY <1>3, <1>4, <1>5, PrefixSteps
<1> QED
  BY <1>6 DEF a

(* Going from below c to below a child of c adds a step, and going back     *)
(* takes one out.                                                           *)
LEMMA Regraft ==
  ASSUME NEW c \in Paths, NEW e \in {0, 1}, NEW p \in Paths
  PROVE  /\ IsPrefix(c, p) =>
              Append(c, e) \o SubSeq(p, Len(c) + 1, Len(p)) = Ins(p, Len(c), e)
         /\ IsPrefix(Append(c, e), p) =>
              c \o SubSeq(p, Len(Append(c, e)) + 1, Len(p)) = Cut(p, Len(c))
<1> DEFINE n == Len(c)
           a == Append(c, e)
<1>1. n \in Nat /\ Len(p) \in Nat
  BY PathElements
<1>2. a \in Paths /\ Len(a) = n + 1 /\ (\A i \in 1 .. n : a[i] = c[i]) /\ a[n + 1] = e
  BY AppendPath
<1>3. ASSUME IsPrefix(c, p)
      PROVE  a \o SubSeq(p, n + 1, Len(p)) = Ins(p, n, e)
  <2> DEFINE r == SubSeq(p, n + 1, Len(p))
             x == a \o r
             y == Ins(p, n, e)
  <2>1. n \in 0 .. Len(p) /\ \A i \in 1 .. n : c[i] = p[i]
    BY <1>3, PrefixSteps
  <2> HIDE DEF n, a
  <2>2. r \in Paths /\ Len(r) = Len(p) - n /\ \A i \in 1 .. Len(p) - n : r[i] = p[n + i]
    BY <2>1, RestSteps
  <2> HIDE DEF r
  <2>3. /\ x \in Paths
        /\ Len(x) = Len(a) + Len(r)
        /\ \A i \in 1 .. Len(a) : x[i] = a[i]
        /\ \A i \in Len(a) + 1 .. Len(a) + Len(r) : x[i] = r[i - Len(a)]
    BY <1>2, <2>2, ConcatSteps
  <2>4. /\ y \in Paths /\ Len(y) = Len(p) + 1
        /\ \A i \in 1 .. n : y[i] = p[i]
        /\ y[n + 1] = e
        /\ \A i \in n + 1 .. Len(p) : y[i + 1] = p[i]
    BY <2>1, InsSteps
  <2> HIDE DEF x, y
  <2>5. Len(x) = Len(p) + 1 /\ Len(a) + Len(r) = Len(p) + 1
    BY <1>1, <1>2, <2>1, <2>2, <2>3
  <2>6. ASSUME NEW i \in 1 .. Len(p) + 1 PROVE x[i] = y[i]
    <3>1. CASE i <= n
      <4>1. i \in 1 .. n /\ i \in 1 .. Len(a)
        BY <1>1, <1>2, <3>1
      <4> QED
        BY <4>1, <1>2, <2>1, <2>3, <2>4
    <3>2. CASE i = n + 1
      <4>1. i \in 1 .. Len(a)
        BY <1>1, <1>2, <3>2
      <4> QED
        BY <4>1, <3>2, <1>2, <2>3, <2>4
    <3>3. CASE i > n + 1
      <4>1. /\ i \in Len(a) + 1 .. Len(a) + Len(r)
            /\ i - Len(a) = i - (n + 1)
            /\ i - (n + 1) \in 1 .. Len(p) - n
            /\ n + (i - (n + 1)) = i - 1
            /\ i - 1 \in n + 1 .. Len(p) /\ (i - 1) + 1 = i
        BY <1>1, <1>2, <2>5, <3>3
      <4>2. x[i] = p[i - 1]
        BY <4>1, <2>2, <2>3
      <4>3. y[(i - 1) + 1] = p[i - 1]
        BY <4>1, <2>4
      <4> QED
        BY <4>1, <4>2, <4>3
    <3> QED
      BY <1>1, <3>1, <3>2, <3>3
  <2>7. x = y
    BY <2>3, <2>4, <2>5, <2>6, PathEqual
  <2> QED
    BY <2>7 DEF x, y, r
<1>4. ASSUME IsPrefix(a, p)
      PROVE  c \o SubSeq(p, Len(a) + 1, Len(p)) = Cut(p, n)
  <2> DEFINE m == Len(a)
             r == SubSeq(p, m + 1, Len(p))
             x == c \o r
             y == Cut(p, n)
  <2>1. m \in 0 .. Len(p) /\ \A i \in 1 .. m : a[i] = p[i]
    <3> HIDE DEF a
    <3> QED
      BY <1>2, <1>4, PrefixSteps
  <2> HIDE DEF n, a
  <2>2. m = n + 1 /\ n \in 0 .. Len(p) - 1 /\ \A i \in 1 .. n : c[i] = p[i]
    BY <1>1, <1>2, <2>1
  <2> HIDE DEF m
  <2>3. r \in Paths /\ Len(r) = Len(p) - m /\ \A i \in 1 .. Len(p) - m : r[i] = p[m + i]
    BY <2>1, RestSteps
  <2> HIDE DEF r
  <2>4. /\ x \in Paths
        /\ Len(x) = n + Len(r)
        /\ \A i \in 1 .. n : x[i] = c[i]
        /\ \A i \in n + 1 .. n + Len(r) : x[i] = r[i - n]
    BY <2>3, ConcatSteps DEF n
  <2>5. /\ y \in Paths /\ Len(y) = Len(p) - 1
        /\ \A i \in 1 .. n : y[i] = p[i]
        /\ \A i \in n + 1 .. Len(p) - 1 : y[i] = p[i + 1]
    BY <2>2, CutSteps
  <2> HIDE DEF x, y
  <2>6. Len(x) = Len(p) - 1 /\ n + Len(r) = Len(p) - 1
    BY <1>1, <2>2, <2>3, <2>4
  <2>7. ASSUME NEW i \in 1 .. Len(p) - 1 PROVE x[i] = y[i]
    <3>1. CASE i <= n
      <4>1. i \in 1 .. n
        BY <1>1, <3>1
      <4> QED
        BY <4>1, <2>2, <2>4, <2>5
    <3>2. CASE i > n
      <4>1. /\ i \in n + 1 .. n + Len(r) /\ i \in n + 1 .. Len(p) - 1
            /\ i - n \in 1 .. Len(p) - m
            /\ m + (i - n) = i + 1
        BY <1>1, <2>2, <2>6, <3>2
      <4>2. x[i] = p[i + 1]
        BY <4>1, <2>3, <2>4
      <4> QED
        BY <4>1, <4>2, <2>5
    <3> QED
      BY <1>1, <3>1, <3>2
  <2>8. x = y
    BY <2>4, <2>5, <2>6, <2>7, PathEqual
  <2> QED
    BY <2>8 DEF x, y, r, m
<1> QED
  BY <1>3, <1>4

LEMMA InsBelow ==
  ASSUME NEW c \in Paths, NEW e \in {0, 1}, NEW p \in Paths, IsPrefix(c, p)
  PROVE  /\ Len(c) \in 0 .. Len(p)
         /\ Ins(p, Len(c), e) \in Paths
         /\ IsPrefix(Append(c, e), Ins(p, Len(c), e))
         /\ Cut(Ins(p, Len(c), e), Len(c)) = p
<1> DEFINE n == Len(c)
           q == Ins(p, n, e)
<1>1. n \in Nat /\ Len(p) \in Nat /\ n \in 0 .. Len(p) /\ \A i \in 1 .. n : c[i] = p[i]
  BY PathElements, PrefixSteps
<1>2. /\ q \in Paths /\ Len(q) = Len(p) + 1
      /\ \A i \in 1 .. n : q[i] = p[i]
      /\ q[n + 1] = e
  BY <1>1, InsSteps
<1>3. Cut(q, n) = p
  BY <1>1, InsUp
<1> HIDE DEF q
<1>4. IsPrefix(c, q)
  <2>1. n \in 0 .. Len(q)
    BY <1>1, <1>2
  <2> QED
    BY <1>1, <1>2, <2>1, PrefixSteps
<1>5. n < Len(q)
  BY <1>1, <1>2
<1>6. IsPrefix(Append(c, e), q)
  BY <1>2, <1>4, <1>5, ChildPrefix
<1> QED
  BY <1>1, <1>2, <1>3, <1>6 DEF q

LEMMA CutBelow ==
  ASSUME NEW c \in Paths, NEW e \in {0, 1}, NEW p \in Paths, IsPrefix(Append(c, e), p)
  PROVE  /\ Len(c) \in 0 .. Len(p) - 1
         /\ Cut(p, Len(c)) \in Paths
         /\ IsPrefix(c, Cut(p, Len(c)))
         /\ Ins(Cut(p, Len(c)), Len(c), e) = p
<1> DEFINE n == Len(c)
           q == Cut(p, n)
<1>1. IsPrefix(c, p) /\ n < Len(p) /\ p[n + 1] = e
  BY ChildPrefix
<1>2. /\ n \in Nat /\ Len(p) \in Nat /\ n \in 0 .. Len(p) - 1
      /\ \A i \in 1 .. n : c[i] = p[i]
  BY <1>1, PathElements, PrefixSteps
<1>3. /\ q \in Paths /\ Len(q) = Len(p) - 1
      /\ \A i \in 1 .. n : q[i] = p[i]
      /\ Ins(q, n, e) = p
  BY <1>1, <1>2, CutSteps, CutUp
<1> HIDE DEF q
<1>4. IsPrefix(c, q)
  <2>1. n \in 0 .. Len(q)
    BY <1>2, <1>3
  <2> QED
    BY <1>2, <1>3, <2>1, PrefixSteps
<1> QED
  BY <1>2, <1>3, <1>4 DEF q

(* dict_set: what was at c and below it, one step further down. *)
LEMMA MovedDown ==
  ASSUME Shape(tree), NEW c \in Paths, NEW e \in {0, 1}
  PROVE  Moved(c, Append(c, e)) =
           [p \in {q \in Paths : IsPrefix(Append(c, e), q) /\ Cut(q, Len(c)) \in DOMAIN tree}
              |-> tree[Cut(p, Len(c))]]
<1> DEFINE n == Len(c)
           a == Append(c, e)
           D == {a \o SubSeq(q, Len(c) + 1, Len(q)) : q \in Below(c)}
           E == {q \in Paths : IsPrefix(a, q) /\ Cut(q, n) \in DOMAIN tree}
<1>1. Moved(c, a) = [p \in D |-> tree[c \o SubSeq(p, Len(a) + 1, Len(p))]]
  BY DEF Moved
<1>2. \A q \in Below(c) : q \in Paths /\ q \in DOMAIN tree /\ IsPrefix(c, q)
  BY DEF Below, Shape
<1>3. \A q \in Below(c) : a \o SubSeq(q, Len(c) + 1, Len(q)) = Ins(q, n, e)
  BY <1>2, Regraft
<1>4. ASSUME NEW p \in D PROVE p \in E
  <2>1. PICK q \in Below(c) : p = a \o SubSeq(q, Len(c) + 1, Len(q))
    BY <1>4
  <2>2. p = Ins(q, n, e)
    BY <1>3, <2>1
  <2>3. p \in Paths /\ IsPrefix(a, p) /\ Cut(p, n) = q
    BY <1>2, <2>2, InsBelow
  <2> QED
    BY <1>2, <2>3
<1>5. ASSUME NEW p \in E PROVE p \in D
  <2>1. p \in Paths /\ IsPrefix(a, p) /\ Cut(p, n) \in DOMAIN tree
    BY <1>5
  <2>2. IsPrefix(c, Cut(p, n)) /\ Ins(Cut(p, n), n, e) = p
    BY <2>1, CutBelow
  <2>3. Cut(p, n) \in Below(c)
    BY <2>1, <2>2 DEF Below
  <2>4. p = a \o SubSeq(Cut(p, n), Len(c) + 1, Len(Cut(p, n)))
    BY <1>3, <2>2, <2>3
  <2> QED
    BY <2>3, <2>4
<1>6. D = E
  BY <1>4, <1>5
<1>7. \A p \in E : c \o SubSeq(p, Len(a) + 1, Len(p)) = Cut(p, n)
  BY Regraft
<1> HIDE DEF D
<1>8. Moved(c, a) = [p \in E |-> tree[Cut(p, n)]]
  <2> HIDE DEF E
  <2> QED
    BY <1>1, <1>6, <1>7
<1> QED
  BY <1>8

(* dict_del: what was at a child of c and below it, put at c. *)
LEMMA MovedUp ==
  ASSUME Shape(tree), NEW c \in Paths, NEW e \in {0, 1}
  PROVE  Moved(Append(c, e), c) =
           [p \in {q \in Paths : IsPrefix(c, q) /\ Ins(q, Len(c), e) \in DOMAIN tree}
              |-> tree[Ins(p, Len(c), e)]]
<1> DEFINE n == Len(c)
           a == Append(c, e)
           D == {c \o SubSeq(q, Len(a) + 1, Len(q)) : q \in Below(a)}
           E == {q \in Paths : IsPrefix(c, q) /\ Ins(q, n, e) \in DOMAIN tree}
<1>1. Moved(a, c) = [p \in D |-> tree[a \o SubSeq(p, Len(c) + 1, Len(p))]]
  BY DEF Moved
<1>2. \A q \in Below(a) : q \in Paths /\ q \in DOMAIN tree /\ IsPrefix(a, q)
  BY DEF Below, Shape
<1>3. \A q \in Below(a) : c \o SubSeq(q, Len(a) + 1, Len(q)) = Cut(q, n)
  BY <1>2, Regraft
<1>4. ASSUME NEW p \in D PROVE p \in E
  <2>1. PICK q \in Below(a) : p = c \o SubSeq(q, Len(a) + 1, Len(q))
    BY <1>4
  <2>2. p = Cut(q, n)
    BY <1>3, <2>1
  <2>3. p \in Paths /\ IsPrefix(c, p) /\ Ins(p, n, e) = q
    BY <1>2, <2>2, CutBelow
  <2> QED
    BY <1>2, <2>3
<1>5. ASSUME NEW p \in E PROVE p \in D
  <2>1. p \in Paths /\ IsPrefix(c, p) /\ Ins(p, n, e) \in DOMAIN tree
    BY <1>5
  <2>2. IsPrefix(a, Ins(p, n, e)) /\ Cut(Ins(p, n, e), n) = p
    BY <2>1, InsBelow
  <2>3. Ins(p, n, e) \in Below(a)
    BY <2>1, <2>2 DEF Below
  <2>4. p = c \o SubSeq(Ins(p, n, e), Len(a) + 1, Len(Ins(p, n, e)))
    BY <1>3, <2>2, <2>3
  <2> QED
    BY <2>3, <2>4
<1>6. D = E
  BY <1>4, <1>5
<1>7. \A p \in E : a \o SubSeq(p, Len(c) + 1, Len(p)) = Ins(p, n, e)
  BY Regraft
<1> HIDE DEF D
<1>8. Moved(a, c) = [p \in E |-> tree[Ins(p, n, e)]]
  <2> HIDE DEF E
  <2> QED
    BY <1>1, <1>6, <1>7
<1> QED
  BY <1>8

-----------------------------------------------------------------------------
(* dict_del.                                                                *)

(* Where what is now at p was before the child e of c took the place of c. *)
Old(p, c, e) == IF IsPrefix(c, p) THEN Ins(p, Len(c), e) ELSE p

Pulled(t, c, e) == [p \in {q \in Paths : Old(q, c, e) \in DOMAIN t} |-> t[Old(p, c, e)]]

LEMMA UpPrefix ==
  ASSUME NEW c \in Paths, NEW p \in Paths, NEW i \in 0 .. Len(p)
  PROVE  IsPrefix(c, Up(p, i)) <=> IsPrefix(c, p) /\ Len(c) <= i
<1>1. Len(c) \in Nat /\ Len(p) \in Nat
  BY PathElements
<1>2. Up(p, i) \in Paths /\ Len(Up(p, i)) = i /\ \A j \in 1 .. i : Up(p, i)[j] = p[j]
  BY UpFacts
<1> DEFINE u == Up(p, i)
<1> HIDE DEF u
<1>3. u \in Paths /\ Len(u) = i /\ \A j \in 1 .. i : u[j] = p[j]
  BY <1>2 DEF u
<1>4. ASSUME Len(c) <= i
      PROVE  /\ Len(c) \in 0 .. Len(u) /\ Len(c) \in 0 .. Len(p)
             /\ \A j \in 1 .. Len(c) : u[j] = p[j]
  BY <1>1, <1>3, <1>4
<1>5. IsPrefix(c, u) <=> Len(c) \in 0 .. Len(u) /\ \A j \in 1 .. Len(c) : c[j] = u[j]
  BY <1>3, PrefixSteps
<1>6. IsPrefix(c, p) <=> Len(c) \in 0 .. Len(p) /\ \A j \in 1 .. Len(c) : c[j] = p[j]
  BY PrefixSteps
<1>7. IsPrefix(c, u) => Len(c) <= i
  BY <1>1, <1>3, <1>5
<1>8. Len(c) <= i => (IsPrefix(c, u) <=> IsPrefix(c, p))
  BY <1>4, <1>5, <1>6
<1> QED
  BY <1>7, <1>8 DEF u

(* Going back to the old path keeps the prefixes and the steps. *)
LEMMA OldUp ==
  ASSUME NEW c \in Paths, NEW e \in {0, 1}, NEW p \in Paths
  PROVE  /\ Old(p, c, e) \in Paths
         /\ \A i \in 0 .. Len(p) - 1 : \E j \in 0 .. Len(Old(p, c, e)) - 1 :
              /\ Up(Old(p, c, e), j) = Old(Up(p, i), c, e)
              /\ Old(p, c, e)[j + 1] = p[i + 1]
<1> DEFINE n == Len(c)
           m == Old(p, c, e)
<1>1. n \in Nat /\ Len(p) \in Nat
  BY PathElements
<1>2. CASE ~IsPrefix(c, p)
  <2>1. m = p
    BY <1>2 DEF Old
  <2>2. ASSUME NEW i \in 0 .. Len(p) - 1 PROVE Up(p, i) = Old(Up(p, i), c, e)
    <3>1. i \in 0 .. Len(p)
      BY <1>1
    <3> QED
      BY <1>2, <3>1, UpPrefix DEF Old
  <2> HIDE DEF m
  <2>3. ASSUME NEW i \in 0 .. Len(p) - 1
        PROVE  /\ i \in 0 .. Len(m) - 1
               /\ Up(m, i) = Old(Up(p, i), c, e) /\ m[i + 1] = p[i + 1]
    BY <2>1, <2>2
  <2> QED
    BY <2>1, <2>3 DEF m
<1>3. CASE IsPrefix(c, p)
  <2>1. n \in 0 .. Len(p)
    BY <1>3, InsBelow
  <2>2. m = Ins(p, n, e)
    BY <1>3 DEF Old
  <2>3. /\ m \in Paths /\ Len(m) = Len(p) + 1
        /\ \A i \in 1 .. n : m[i] = p[i]
        /\ \A i \in n + 1 .. Len(p) : m[i + 1] = p[i]
        /\ \A i \in 0 .. n : Up(m, i) = Up(p, i)
        /\ \A i \in n .. Len(p) : Up(m, i + 1) = Ins(Up(p, i), n, e)
    <3> DEFINE x == Ins(p, n, e)
    <3> HIDE DEF n
    <3>1. /\ x \in Paths /\ Len(x) = Len(p) + 1
          /\ \A i \in 1 .. n : x[i] = p[i]
          /\ \A i \in n + 1 .. Len(p) : x[i + 1] = p[i]
      BY <2>1, InsSteps
    <3>2. /\ \A i \in 0 .. n : Up(x, i) = Up(p, i)
          /\ \A i \in n .. Len(p) : Up(x, i + 1) = Ins(Up(p, i), n, e)
      BY <2>1, InsUp
    <3> HIDE DEF x
    <3>3. m = x
      BY <2>2 DEF x
    <3> QED
      BY <3>1, <3>2, <3>3
  <2> HIDE DEF m
  <2>4. ASSUME NEW i \in 0 .. Len(p) - 1
        PROVE  \E j \in 0 .. Len(m) - 1 :
                 Up(m, j) = Old(Up(p, i), c, e) /\ m[j + 1] = p[i + 1]
    <3>1. i \in 0 .. Len(p)
      BY <1>1
    <3>2. CASE i < n
      <4>1. ~IsPrefix(c, Up(p, i))
        BY <1>1, <3>1, <3>2, UpPrefix
      <4>2. Old(Up(p, i), c, e) = Up(p, i)
        BY <4>1 DEF Old
      <4>3. i \in 0 .. n /\ i + 1 \in 1 .. n /\ i \in 0 .. Len(m) - 1
        BY <1>1, <2>1, <2>3, <3>2
      <4> QED
        BY <2>3, <4>2, <4>3
    <3>3. CASE i >= n
      <4>1. IsPrefix(c, Up(p, i))
        BY <1>1, <1>3, <3>1, <3>3, UpPrefix
      <4>2. Old(Up(p, i), c, e) = Ins(Up(p, i), n, e)
        BY <4>1 DEF Old
      <4>3. i \in n .. Len(p) /\ i + 1 \in n + 1 .. Len(p) /\ i + 1 \in 0 .. Len(m) - 1
        BY <1>1, <2>1, <2>3, <3>3
      <4>4. Up(m, i + 1) = Old(Up(p, i), c, e) /\ m[(i + 1) + 1] = p[i + 1]
        BY <2>3, <4>2, <4>3
      <4> QED
        BY <4>3, <4>4
    <3> QED
      BY <1>1, <3>2, <3>3
  <2> QED
    BY <2>3, <2>4 DEF m
<1> QED
  BY <1>2, <1>3

LEMMA OldInjective ==
  ASSUME NEW c \in Paths, NEW e \in {0, 1}, NEW p \in Paths, NEW q \in Paths,
         Old(p, c, e) = Old(q, c, e)
  PROVE  p = q
<1>1. ASSUME NEW r \in Paths, IsPrefix(c, r)
      PROVE  IsPrefix(c, Old(r, c, e)) /\ Cut(Old(r, c, e), Len(c)) = r
  <2>1. Old(r, c, e) = Ins(r, Len(c), e)
    BY <1>1 DEF Old
  <2>2. /\ Ins(r, Len(c), e) \in Paths
        /\ IsPrefix(Append(c, e), Ins(r, Len(c), e))
        /\ Cut(Ins(r, Len(c), e), Len(c)) = r
    BY <1>1, InsBelow
  <2> QED
    BY <2>1, <2>2, ChildPrefix
<1>2. ASSUME NEW r \in Paths, ~IsPrefix(c, r)
      PROVE  Old(r, c, e) = r
  BY <1>2 DEF Old
<1> QED
  BY <1>1, <1>2

(* A step added behind a prefix, and a step at the end. *)
LEMMA InsAppend ==
  ASSUME NEW p \in Paths, NEW n \in 0 .. Len(p), NEW e \in {0, 1}, NEW d \in {0, 1}
  PROVE  Ins(Append(p, d), n, e) = Append(Ins(p, n, e), d)
<1> DEFINE a == Append(p, d)
           x == Ins(a, n, e)
           b == Ins(p, n, e)
           y == Append(b, d)
<1>1. Len(p) \in Nat /\ n \in Nat
  BY PathElements
<1>2. /\ a \in Paths /\ Len(a) = Len(p) + 1 /\ a[Len(p) + 1] = d
      /\ Up(a, Len(p)) = p
  <2>1. Len(p) \in 0 .. Len(p)
    BY <1>1
  <2> QED
    BY <2>1, AppendPath, UpAll
<1>3. b \in Paths /\ Len(b) = Len(p) + 1
  BY InsSteps
<1> HIDE DEF a
<1>4. /\ n \in 0 .. Len(a) /\ Len(p) \in n .. Len(a) /\ Len(p) + 1 \in n + 1 .. Len(a)
      /\ Len(a) + 1 = Len(p) + 2
  BY <1>1, <1>2
<1>5. x \in Paths /\ Len(x) = Len(p) + 2 /\ x[(Len(p) + 1) + 1] = d
  <2>1. /\ x \in Paths /\ Len(x) = Len(a) + 1
        /\ \A i \in n + 1 .. Len(a) : x[i + 1] = a[i]
    BY <1>2, <1>4, InsSteps
  <2> HIDE DEF x
  <2> QED
    BY <1>2, <1>4, <2>1
<1>6. Up(x, Len(p) + 1) = b
  BY <1>2, <1>4, InsUp
<1> HIDE DEF x, b
<1>7. /\ y \in Paths /\ Len(y) = Len(p) + 2
      /\ \A i \in 1 .. Len(p) + 1 : y[i] = b[i]
      /\ y[(Len(p) + 1) + 1] = d
  <2>1. (Len(p) + 1) + 1 = Len(p) + 2
    BY <1>1
  <2> QED
    BY <1>3, <2>1, AppendPath
<1> HIDE DEF y
<1>8. \A i \in 1 .. Len(p) + 1 : x[i] = b[i]
  <2>1. Len(p) + 1 \in 0 .. Len(x)
    BY <1>1, <1>5
  <2> QED
    BY <1>5, <1>6, <2>1, UpFacts
<1>9. \A i \in 1 .. Len(p) + 2 : i \in 1 .. Len(p) + 1 \/ i = (Len(p) + 1) + 1
  BY <1>1
<1>10. \A i \in 1 .. Len(p) + 2 : x[i] = y[i]
  BY <1>5, <1>7, <1>8, <1>9
<1>11. x = y
  BY <1>5, <1>7, <1>10, PathEqual
<1> QED
  BY <1>11 DEF x, y, a, b

LEMMA InsEnd ==
  ASSUME NEW c \in Paths, NEW e \in {0, 1}
  PROVE  Ins(c, Len(c), e) = Append(c, e)
<1> DEFINE n == Len(c)
           x == Ins(c, n, e)
           y == Append(c, e)
<1>1. n \in Nat /\ n \in 0 .. n
  BY PathElements
<1>2. x \in Paths /\ Len(x) = n + 1 /\ (\A i \in 1 .. n : x[i] = c[i]) /\ x[n + 1] = e
  BY <1>1, InsSteps
<1>3. y \in Paths /\ Len(y) = n + 1 /\ (\A i \in 1 .. n : y[i] = c[i]) /\ y[n + 1] = e
  BY AppendPath
<1> HIDE DEF x, y
<1>4. \A i \in 1 .. n + 1 : i \in 1 .. n \/ i = n + 1
  BY <1>1
<1>5. x = y
  BY <1>2, <1>3, <1>4, PathEqual
<1> QED
  BY <1>5 DEF x, y

LEMMA PulledLeaf ==
  ASSUME NEW t, NEW c, NEW e, NEW p
  PROVE  p \in LeafSet(Pulled(t, c, e)) <=> p \in Paths /\ Old(p, c, e) \in LeafSet(t)
<1> DEFINE u == Pulled(t, c, e)
<1>1. /\ DOMAIN u = {q \in Paths : Old(q, c, e) \in DOMAIN t}
      /\ \A q \in DOMAIN u : u[q] = t[Old(q, c, e)]
  BY DEF Pulled
<1> HIDE DEF u
<1>2. p \in LeafSet(u) <=> p \in Paths /\ Old(p, c, e) \in LeafSet(t)
  BY <1>1 DEF LeafSet
<1> QED
  BY <1>2 DEF u

(* The sibling of a leaf can take the place of their parent. *)
LEMMA PulledShape ==
  ASSUME NEW t, Shape(t), NEW c \in DOMAIN t, t[c] \in NodeRec, NEW e \in {0, 1}
  PROVE  Shape(Pulled(t, c, e))
<1> DEFINE u == Pulled(t, c, e)
           n == Len(c)
<1>1. /\ DOMAIN u = {q \in Paths : Old(q, c, e) \in DOMAIN t}
      /\ \A q \in DOMAIN u : q \in Paths /\ Old(q, c, e) \in DOMAIN t /\ u[q] = t[Old(q, c, e)]
  BY DEF Pulled
<1>2. c \in Paths /\ n \in Nat /\ \A d \in {0, 1} : Append(c, d) \in DOMAIN t
  BY At
<1>3. u \in [DOMAIN u -> LeafRec \cup NodeRec]
  <2>1. \A q \in DOMAIN u : u[q] \in LeafRec \cup NodeRec
    BY <1>1 DEF Shape
  <2>2. u = [q \in DOMAIN u |-> u[q]]
    BY DEF Pulled
  <2> HIDE DEF u
  <2> QED
    BY <2>1, <2>2
<1> HIDE DEF u
<1>4. DOMAIN u \subseteq Paths
  BY <1>1
<1>5. IsFiniteSet(DOMAIN u)
  <2> DEFINE f == [p \in DOMAIN u |-> Old(p, c, e)]
             D == DOMAIN u
             E == DOMAIN t
  <2>1. f \in [D -> E] /\ DOMAIN f = D
    BY <1>1
  <2>2. ASSUME NEW p \in D, NEW q \in D, f[p] = f[q] PROVE p = q
    BY <1>1, <1>2, <2>2, OldInjective
  <2> HIDE DEF f, D
  <2>3. f \in Injection(D, E)
    BY <2>1, <2>2 DEF Injection, IsInjective
  <2>4. IsFiniteSet(E)
    BY DEF Shape
  <2> HIDE DEF E
  <2>5. IsFiniteSet(D)
    BY <2>3, <2>4, FS_Injection
  <2> QED
    BY <2>5 DEF D
<1>6. ASSUME NEW p \in DOMAIN u, NEW i \in 0 .. Len(p) - 1
      PROVE  Up(p, i) \in DOMAIN u /\ u[Up(p, i)] \in NodeRec
  <2>1. p \in Paths /\ Old(p, c, e) \in DOMAIN t
    BY <1>1
  <2>2. PICK j \in 0 .. Len(Old(p, c, e)) - 1 : Up(Old(p, c, e), j) = Old(Up(p, i), c, e)
    BY <1>2, <2>1, OldUp
  <2>3. Old(Up(p, i), c, e) \in DOMAIN t /\ t[Old(Up(p, i), c, e)] \in NodeRec
    BY <2>1, <2>2, At
  <2>4. Up(p, i) \in Paths
    <3>1. Len(p) \in Nat
      BY <2>1, PathElements
    <3>2. i \in 0 .. Len(p)
      BY <3>1
    <3> QED
      BY <2>1, <3>2, UpFacts
  <2> QED
    BY <1>1, <2>3, <2>4
<1>7. ASSUME NEW p \in DOMAIN u, u[p] \in NodeRec, NEW d \in {0, 1}
      PROVE  Append(p, d) \in DOMAIN u
  <2>1. p \in Paths /\ Old(p, c, e) \in DOMAIN t /\ t[Old(p, c, e)] \in NodeRec /\ Len(p) \in Nat
    BY <1>1, <1>7, PathElements
  <2>2. Append(Old(p, c, e), d) \in DOMAIN t
    BY <2>1, At
  <2> DEFINE a == Append(p, d)
  <2>3. /\ a \in Paths /\ Len(a) = Len(p) + 1
        /\ Len(p) \in 0 .. Len(a) /\ Up(a, Len(p)) = p
    <3>1. a \in Paths /\ Len(a) = Len(p) + 1 /\ \A i \in 0 .. Len(p) : Up(a, i) = Up(p, i)
      BY <2>1, AppendPath
    <3>2. Len(p) \in 0 .. Len(p) /\ Len(p) \in 0 .. Len(a)
      BY <2>1, <3>1
    <3> QED
      BY <2>1, <3>1, <3>2, UpAll
  <2> HIDE DEF a
  <2>4. IsPrefix(c, p) <=> IsPrefix(c, a) /\ n <= Len(p)
    BY <1>2, <2>3, UpPrefix
  <2>5. Old(a, c, e) \in DOMAIN t
    <3>1. CASE IsPrefix(c, p)
      <4>1. n \in 0 .. Len(p)
        BY <1>2, <2>1, <3>1, InsBelow
      <4>2. Old(a, c, e) = Ins(a, n, e) /\ Old(p, c, e) = Ins(p, n, e)
        BY <2>4, <3>1 DEF Old
      <4>3. Ins(a, n, e) = Append(Ins(p, n, e), d)
        BY <2>1, <4>1, InsAppend DEF a
      <4> QED
        BY <2>2, <4>2, <4>3
    <3>2. CASE ~IsPrefix(c, a)
      <4>1. Old(a, c, e) = a /\ Old(p, c, e) = p
        BY <2>4, <3>2 DEF Old
      <4> QED
        BY <2>2, <4>1 DEF a
    <3>3. CASE ~IsPrefix(c, p) /\ IsPrefix(c, a)
      <4>1. n \in 0 .. Len(a) /\ Up(a, n) = c /\ n > Len(p)
        BY <1>2, <2>1, <2>3, <2>4, <3>3, PrefixIsUp
      <4>2. n = Len(a)
        BY <1>2, <2>1, <2>3, <4>1
      <4>3. a = c
        BY <2>3, <4>1, <4>2, UpAll
      <4>4. Old(a, c, e) = Ins(c, n, e)
        BY <3>3, <4>3 DEF Old
      <4> QED
        BY <1>2, <4>4, InsEnd
    <3> QED
      BY <3>1, <3>2, <3>3
  <2> QED
    BY <1>1, <2>3, <2>5 DEF a
<1>8. Shape(u)
  BY <1>3, <1>4, <1>5, <1>6, <1>7 DEF Shape
<1> QED
  BY <1>8 DEF u

LEMMA PulledTree ==
  ASSUME NEW t, CritBitTree(t), NEW c \in DOMAIN t, t[c] \in NodeRec, NEW e \in {0, 1}
  PROVE  CritBitTree(Pulled(t, c, e))
<1> DEFINE u == Pulled(t, c, e)
<1>1. Shape(t) /\ Ordered(t) /\ OnPath(t) /\ Sharing(t)
  BY DEF CritBitTree
<1>2. Shape(u)
  BY <1>1, PulledShape
<1>3. c \in Paths
  BY <1>1, At
<1>4. /\ \A p \in DOMAIN u : p \in Paths /\ Old(p, c, e) \in DOMAIN t /\ u[p] = t[Old(p, c, e)]
      /\ \A p \in LeafSet(u) : Old(p, c, e) \in LeafSet(t)
  <2>1. \A p \in DOMAIN u : p \in Paths /\ Old(p, c, e) \in DOMAIN t /\ u[p] = t[Old(p, c, e)]
    BY DEF Pulled
  <2> QED
    BY <2>1, PulledLeaf
<1> HIDE DEF u
<1>5. ASSUME NEW p \in DOMAIN u, NEW i \in 0 .. Len(p) - 1
      PROVE  \E j \in 0 .. Len(Old(p, c, e)) - 1 :
               /\ Up(Old(p, c, e), j) = Old(Up(p, i), c, e)
               /\ u[Up(p, i)] = t[Up(Old(p, c, e), j)]
               /\ Old(p, c, e)[j + 1] = p[i + 1]
  <2>a. p \in Paths
    BY <1>4
  <2>b. \A k \in 0 .. Len(p) - 1 : \E j \in 0 .. Len(Old(p, c, e)) - 1 :
          Up(Old(p, c, e), j) = Old(Up(p, k), c, e) /\ Old(p, c, e)[j + 1] = p[k + 1]
    BY <1>3, <2>a, OldUp
  <2>1. PICK j \in 0 .. Len(Old(p, c, e)) - 1 :
          Up(Old(p, c, e), j) = Old(Up(p, i), c, e) /\ Old(p, c, e)[j + 1] = p[i + 1]
    BY <2>b, Zenon
  <2>2. Up(p, i) \in DOMAIN u
    BY <1>2, At
  <2> QED
    BY <2>1, <2>2, <1>4
<1>6. Ordered(u)
  <2> SUFFICES ASSUME NEW p \in DOMAIN u, u[p] \in NodeRec, NEW i \in 0 .. Len(p) - 1
               PROVE  Pos(u[Up(p, i)]) < Pos(u[p])
    BY DEF Ordered
  <2>1. PICK j \in 0 .. Len(Old(p, c, e)) - 1 : u[Up(p, i)] = t[Up(Old(p, c, e), j)]
    BY <1>5
  <2> QED
    BY <1>1, <1>4, <2>1 DEF Ordered
<1>7. OnPath(u)
  <2> SUFFICES ASSUME NEW p \in LeafSet(u), NEW i \in 0 .. Len(p) - 1
               PROVE  p[i + 1] = KeyBit(u[p].key, Pos(u[Up(p, i)]))
    BY DEF OnPath, Follows
  <2>1. p \in DOMAIN u /\ Old(p, c, e) \in LeafSet(t) /\ u[p] = t[Old(p, c, e)]
    BY <1>4 DEF LeafSet
  <2>2. PICK j \in 0 .. Len(Old(p, c, e)) - 1 :
          u[Up(p, i)] = t[Up(Old(p, c, e), j)] /\ Old(p, c, e)[j + 1] = p[i + 1]
    BY <1>5, <2>1
  <2>3. Old(p, c, e)[j + 1] = KeyBit(t[Old(p, c, e)].key, Pos(t[Up(Old(p, c, e), j)]))
    BY <1>1, <2>1 DEF OnPath, Follows
  <2> QED
    BY <2>1, <2>2, <2>3
<1>8. Sharing(u)
  <2> SUFFICES ASSUME NEW p \in LeafSet(u), NEW q \in LeafSet(u), NEW i \in 0 .. Len(p) - 1,
                      i < Len(q), Up(p, i) = Up(q, i)
               PROVE  Agree(u[p].key, u[q].key, Pos(u[Up(p, i)]))
    BY DEF Sharing
  <2> DEFINE x == Old(p, c, e)
             y == Old(q, c, e)
  <2>1. /\ p \in DOMAIN u /\ x \in LeafSet(t) /\ u[p] = t[x] /\ p \in Paths
        /\ q \in DOMAIN u /\ y \in LeafSet(t) /\ u[q] = t[y] /\ q \in Paths
    BY <1>4 DEF LeafSet
  <2>2. i \in 0 .. Len(q) - 1
    BY <2>1, PathElements
  <2>3. PICK j \in 0 .. Len(x) - 1 : Up(x, j) = Old(Up(p, i), c, e) /\ u[Up(p, i)] = t[Up(x, j)]
    BY <1>5, <2>1
  <2>4. PICK m \in 0 .. Len(y) - 1 : Up(y, m) = Old(Up(q, i), c, e)
    BY <1>5, <2>1, <2>2
  <2>5. Up(x, j) = Up(y, m)
    BY <2>3, <2>4
  <2>6. x \in Paths /\ y \in Paths /\ Len(x) \in Nat /\ Len(y) \in Nat
    BY <1>1, <2>1, At DEF LeafSet
  <2> HIDE DEF x, y
  <2>7. j \in 0 .. Len(x) /\ m \in 0 .. Len(y)
    BY <2>6
  <2>8. j = m
    BY <2>5, <2>6, <2>7, UpFacts
  <2>9. j < Len(y)
    BY <2>6, <2>8
  <2>10. Agree(t[x].key, t[y].key, Pos(t[Up(x, j)]))
    BY <1>1, <2>1, <2>5, <2>8, <2>9 DEF Sharing
  <2> QED
    BY <2>1, <2>3, <2>10
<1> QED
  BY <1>2, <1>6, <1>7, <1>8 DEF CritBitTree, u

(* The other leaves are all still there. *)
LEMMA PulledLeaves ==
  ASSUME NEW t, Shape(t), NEW c \in Paths, NEW e \in {0, 1},
         Append(c, 1 - e) \in LeafSet(t)
  PROVE  /\ c \in DOMAIN t /\ t[c] \in NodeRec
         /\ \A p \in LeafSet(Pulled(t, c, e)) : Old(p, c, e) # Append(c, 1 - e)
         /\ \A q \in LeafSet(t) : q # Append(c, 1 - e) =>
              \E p \in LeafSet(Pulled(t, c, e)) : Old(p, c, e) = q
<1> DEFINE n == Len(c)
           a == Append(c, 1 - e)
<1>1. n \in Nat /\ 1 - e \in {0, 1} /\ e # 1 - e /\ n \in 0 .. n
  BY PathElements
<1>2. /\ a \in Paths /\ Len(a) = n + 1 /\ a[n + 1] = 1 - e
      /\ Up(a, n) = c
  BY <1>1, AppendPath, UpAll
<1>3. a \in DOMAIN t /\ t[a] \notin NodeRec
  BY At DEF LeafSet
<1>4. c \in DOMAIN t /\ t[c] \in NodeRec
  <2>1. n \in 0 .. Len(a) - 1
    BY <1>1, <1>2
  <2> QED
    BY <1>2, <1>3, <2>1, At
<1>5. ASSUME NEW p \in LeafSet(Pulled(t, c, e)) PROVE Old(p, c, e) # a
  <2>1. p \in Paths
    BY PulledLeaf
  <2>2. CASE IsPrefix(c, p)
    <3>1. Old(p, c, e) = Ins(p, n, e)
      BY <2>2 DEF Old
    <3>2. Ins(p, n, e)[n + 1] = e
      BY <2>1, <2>2, InsBelow, InsSteps
    <3> QED
      BY <1>1, <1>2, <3>1, <3>2
  <2>3. CASE ~IsPrefix(c, p)
    <3>1. Old(p, c, e) = p
      BY <2>3 DEF Old
    <3>2. n \in 0 .. Len(a)
      BY <1>1, <1>2
    <3>3. IsPrefix(c, a)
      BY <1>2, <3>2, PrefixIsUp
    <3> QED
      BY <2>3, <3>1, <3>3
  <2> QED
    BY <2>2, <2>3
<1>6. ASSUME NEW q \in LeafSet(t), q # a
      PROVE  \E p \in LeafSet(Pulled(t, c, e)) : Old(p, c, e) = q
  <2>1. q \in DOMAIN t /\ q \in Paths /\ Len(q) \in Nat /\ t[q] \notin NodeRec
    BY At DEF LeafSet
  <2>2. CASE ~IsPrefix(c, q)
    <3>1. Old(q, c, e) = q
      BY <2>2 DEF Old
    <3> QED
      BY <2>1, <3>1, PulledLeaf
  <2>3. CASE IsPrefix(c, q)
    <3>1. n \in 0 .. Len(q) /\ Up(q, n) = c
      BY <2>1, <2>3, PrefixIsUp
    <3>2. n # Len(q)
      BY <1>4, <2>1, <3>1, UpAll
    <3>3. n < Len(q) /\ n + 1 \in 1 .. Len(q) /\ n + 1 \in 0 .. Len(q)
      BY <1>1, <2>1, <3>1, <3>2
    <3>4. q[n + 1] \in {0, 1}
      BY <2>1, <3>3, PathElements
    <3>5. CASE q[n + 1] = 1 - e
      <4>1. IsPrefix(a, q)
        BY <1>1, <2>1, <2>3, <3>3, <3>5, ChildPrefix
      <4>2. Up(q, n + 1) = a
        BY <1>2, <2>1, <4>1, PrefixIsUp
      <4>3. n + 1 # Len(q)
        BY <1>6, <2>1, <4>2, UpAll
      <4>4. n + 1 \in 0 .. Len(q) - 1
        BY <1>1, <2>1, <3>3, <4>3
      <4> QED
        BY <1>3, <2>1, <4>2, <4>4, At
    <3>6. CASE q[n + 1] # 1 - e
      <4>1. q[n + 1] = e
        BY <3>4, <3>6
      <4>2. IsPrefix(Append(c, e), q)
        BY <2>1, <2>3, <3>3, <4>1, ChildPrefix
      <4>3. Cut(q, n) \in Paths /\ IsPrefix(c, Cut(q, n)) /\ Ins(Cut(q, n), n, e) = q
        BY <2>1, <4>2, CutBelow
      <4>4. Old(Cut(q, n), c, e) = q
        BY <4>3 DEF Old
      <4> QED
        BY <4>3, <4>4, PulledLeaf
    <3> QED
      BY <3>5, <3>6
  <2> QED
    BY <2>2, <2>3
<1> QED
  BY <1>4, <1>5, <1>6

-----------------------------------------------------------------------------
(* What a change of the leaves does to the map.                             *)

LEMMA ContentsLess ==
  ASSUME NEW t, NEW u, CritBitTree(t), CritBitTree(u), NEW k,
         \A p \in LeafSet(u) : \E q \in LeafSet(t) : t[q] = u[p] /\ t[q].key # k,
         \A q \in LeafSet(t) : t[q].key # k => \E p \in LeafSet(u) : u[p] = t[q]
  PROVE  Contents(u) = Without(Contents(t), k)
<1> DEFINE f == Contents(t)
           g == Contents(u)
<1>1. /\ DOMAIN f = {t[p].key : p \in LeafSet(t)}
      /\ \A p \in LeafSet(t) : f[t[p].key] = t[p].val
  BY ContentsAt
<1>2. /\ DOMAIN g = {u[p].key : p \in LeafSet(u)}
      /\ \A p \in LeafSet(u) : g[u[p].key] = u[p].val
  BY ContentsAt
<1>3. g = [x \in DOMAIN g |-> g[x]]
  BY DEF Contents
<1> HIDE DEF f, g
<1>4. ASSUME NEW x \in DOMAIN g PROVE x \in DOMAIN f /\ x # k /\ g[x] = f[x]
  <2>1. PICK p \in LeafSet(u) : x = u[p].key
    BY <1>2
  <2>2. PICK q \in LeafSet(t) : t[q] = u[p] /\ t[q].key # k
    OBVIOUS
  <2> QED
    BY <2>1, <2>2, <1>1, <1>2
<1>5. ASSUME NEW x \in DOMAIN f, x # k PROVE x \in DOMAIN g
  <2>1. PICK q \in LeafSet(t) : x = t[q].key
    BY <1>1
  <2>2. PICK p \in LeafSet(u) : u[p] = t[q]
    BY <1>5, <2>1
  <2> QED
    BY <2>1, <2>2, <1>2
<1>6. DOMAIN g = DOMAIN f \ {k}
  BY <1>4, <1>5
<1>7. g = [x \in DOMAIN f \ {k} |-> f[x]]
  BY <1>3, <1>4, <1>6
<1> QED
  BY <1>7 DEF Without, Restrict, f, g

LEMMA ContentsMore ==
  ASSUME NEW t, NEW u, CritBitTree(t), CritBitTree(u), NEW k, NEW v,
         \A p \in LeafSet(u) :
           u[p].key # k => \E q \in LeafSet(t) : t[q] = u[p],
         \A q \in LeafSet(t) : t[q].key # k => \E p \in LeafSet(u) : u[p] = t[q],
         \E p \in LeafSet(u) : u[p].key = k /\ u[p].val = v
  PROVE  Contents(u) = Assign(Contents(t), k, v)
<1> DEFINE f == Contents(t)
           g == Contents(u)
<1>1. /\ DOMAIN f = {t[p].key : p \in LeafSet(t)}
      /\ \A p \in LeafSet(t) : f[t[p].key] = t[p].val
  BY ContentsAt
<1>2. /\ DOMAIN g = {u[p].key : p \in LeafSet(u)}
      /\ \A p \in LeafSet(u) : g[u[p].key] = u[p].val
  BY ContentsAt
<1>3. g = [x \in DOMAIN g |-> g[x]]
  BY DEF Contents
<1> HIDE DEF f, g
<1>4. k \in DOMAIN g /\ g[k] = v
  <2>1. PICK p \in LeafSet(u) : u[p].key = k /\ u[p].val = v
    OBVIOUS
  <2> QED
    BY <2>1, <1>2
<1>5. ASSUME NEW x \in DOMAIN g, x # k PROVE x \in DOMAIN f /\ g[x] = f[x]
  <2>1. PICK p \in LeafSet(u) : x = u[p].key
    BY <1>2
  <2>2. PICK q \in LeafSet(t) : t[q] = u[p]
    BY <1>5, <2>1
  <2> QED
    BY <2>1, <2>2, <1>1, <1>2
<1>6. ASSUME NEW x \in DOMAIN f, x # k PROVE x \in DOMAIN g
  <2>1. PICK q \in LeafSet(t) : x = t[q].key
    BY <1>1
  <2>2. PICK p \in LeafSet(u) : u[p] = t[q]
    BY <1>6, <2>1
  <2> QED
    BY <2>1, <2>2, <1>2
<1>7. DOMAIN g = DOMAIN f \cup {k}
  BY <1>4, <1>5, <1>6
<1>8. g = [x \in DOMAIN f \cup {k} |-> IF x = k THEN v ELSE f[x]]
  BY <1>3, <1>4, <1>5, <1>7
<1> QED
  BY <1>8 DEF Assign, f, g

LEMMA EmptyIsTree ==
  CritBitTree(NoTree) /\ LeafSet(NoTree) = {} /\ Contents(NoTree) = << >>
<1>1. DOMAIN NoTree = {} /\ NoTree = [p \in {} |-> p]
  BY DEF NoTree
<1>2. LeafSet(NoTree) = {}
  BY <1>1 DEF LeafSet
<1>3. Shape(NoTree)
  <2>1. NoTree \in [DOMAIN NoTree -> LeafRec \cup NodeRec]
    BY <1>1
  <2> QED
    BY <1>1, <2>1, FS_EmptySet DEF Shape
<1>4. Ordered(NoTree) /\ OnPath(NoTree) /\ Sharing(NoTree)
  BY <1>1, <1>2 DEF Ordered, OnPath, Sharing
<1>5. Contents(NoTree) = << >>
  <2>1. {NoTree[p].key : p \in LeafSet(NoTree)} = {}
    BY <1>2
  <2>2. DOMAIN Contents(NoTree) = {}
    BY <2>1 DEF Contents
  <2>3. Contents(NoTree) = [k \in DOMAIN Contents(NoTree) |-> Contents(NoTree)[k]]
    BY DEF Contents
  <2> QED
    BY <2>2, <2>3
<1> QED
  BY <1>2, <1>3, <1>4, <1>5 DEF CritBitTree

(* dict_del of a key that is found removes that key and no other. *)
LEMMA DeleteStep ==
  ASSUME CritBitTree(tree), NEW k \in Keys, Get(k) # NoValue
  PROVE  /\ CritBitTree(Delete(k))
         /\ Contents(Delete(k)) = Without(Contents(tree), k)
<1> DEFINE path == Closest(k)
           u == Delete(k)
<1>1. Shape(tree)
  BY DEF CritBitTree
<1>2. path \in LeafSet(tree) /\ tree[path].key = k
  BY GetIs
<1>3. path \in DOMAIN tree /\ path \in Paths /\ Len(path) \in Nat /\ tree[path] \notin NodeRec
  BY <1>1, <1>2, At DEF LeafSet
<1>4. CASE path = Root
  <2>1. u = NoTree
    BY <1>4 DEF Delete
  <2>2. ASSUME NEW q \in LeafSet(tree) PROVE q = path
    <3>1. q \in DOMAIN tree /\ q \in Paths /\ Len(q) \in Nat
      BY <1>1, At DEF LeafSet
    <3>2. DOMAIN tree # {}
      BY <1>3
    <3>3. Len(path) = 0
      BY <1>1, <1>4, <3>2, RootInTree
    <3>4. CASE Len(q) = 0
      BY <1>3, <3>1, <3>3, <3>4, PathEqual
    <3>5. CASE Len(q) # 0
      <4>1. 0 \in 0 .. Len(q) - 1 /\ 0 \in 0 .. Len(q)
        BY <3>1, <3>5
      <4>2. tree[Up(q, 0)] \in NodeRec
        BY <1>1, <3>1, <4>1, At
      <4>3. Up(q, 0) \in Paths /\ Len(Up(q, 0)) = 0
        BY <3>1, <4>1, UpFacts
      <4>4. Up(q, 0) = path
        BY <1>3, <3>3, <4>3, PathEqual
      <4> QED
        BY <1>3, <4>2, <4>4
    <3> QED
      BY <3>4, <3>5
  <2> HIDE DEF u, path
  <2>3. Contents(u) = Without(Contents(tree), k)
    BY <1>2, <2>1, <2>2, EmptyIsTree, ContentsLess
  <2> QED
    BY <2>1, <2>3, EmptyIsTree DEF u
<1>5. CASE path # Root
  <2> DEFINE c == Front(path)
             e == 1 - Last(path)
  <2>1. Len(path) # 0
    <3>1. Root \in Paths /\ Len(Root) = 0
      BY DEF Root, Paths
    <3> QED
      BY <1>3, <1>5, <3>1, PathEqual
  <2>2. Len(path) - 1 \in 0 .. Len(path) /\ Len(path) \in 1 .. Len(path)
    BY <1>3, <2>1
  <2>3. /\ c \in Paths /\ Len(c) = Len(path) - 1
        /\ \A i \in 1 .. Len(path) - 1 : c[i] = path[i]
    BY <1>3, <2>2, UpFacts DEF Front, Up
  <2>4. path[Len(path)] \in {0, 1}
    BY <1>3, <2>2, PathElements
  <2>5. e \in {0, 1} /\ 1 - e = path[Len(path)]
    BY <2>4 DEF Last
  <2>6. Append(c, 1 - e) = path
    <3> HIDE DEF c, e
    <3>1. 1 - e \in {0, 1}
      BY <2>4, <2>5
    <3>2. /\ Append(c, 1 - e) \in Paths /\ Len(Append(c, 1 - e)) = Len(c) + 1
          /\ \A i \in 1 .. Len(c) : Append(c, 1 - e)[i] = c[i]
          /\ Append(c, 1 - e)[Len(c) + 1] = 1 - e
      BY <2>3, <3>1, AppendPath
    <3>3. Len(c) + 1 = Len(path) /\ \A i \in 1 .. Len(path) : i \in 1 .. Len(c) \/ i = Len(path)
      BY <1>3, <2>3
    <3>4. \A i \in 1 .. Len(path) : Append(c, 1 - e)[i] = path[i]
      BY <2>3, <2>5, <3>2, <3>3
    <3> QED
      BY <1>3, <3>2, <3>3, <3>4, PathEqual
  <2>7. u = Override(Restrict(tree, DOMAIN tree \ Below(c)), Moved(Append(c, e), c))
    BY <1>5 DEF Delete
  <2> HIDE DEF c, e, path
  <2>8. u = Pulled(tree, c, e)
    <3> DEFINE E == {q \in Paths : IsPrefix(c, q) /\ Ins(q, Len(c), e) \in DOMAIN tree}
               F == {q \in Paths : Old(q, c, e) \in DOMAIN tree}
               M == [p \in E |-> tree[Ins(p, Len(c), e)]]
               K == DOMAIN tree \ Below(c)
    <3>1. Moved(Append(c, e), c) = M
      BY <1>1, <2>3, <2>5, MovedUp
    <3>2. u = [p \in K \cup E |-> IF p \in E THEN M[p] ELSE tree[p]]
      <4>1. DOMAIN M = E
        OBVIOUS
      <4>2. DOMAIN Restrict(tree, K) = K /\ \A p \in K : Restrict(tree, K)[p] = tree[p]
        BY DEF Restrict
      <4> HIDE DEF M, K, E
      <4>3. u = Override(Restrict(tree, K), M)
        BY <2>7, <3>1 DEF K
      <4>4. u = [p \in DOMAIN Restrict(tree, K) \cup DOMAIN M |->
                   IF p \in DOMAIN M THEN M[p] ELSE Restrict(tree, K)[p]]
        BY <4>3 DEF Override
      <4> QED
        BY <4>1, <4>2, <4>4
    <3>3. \A p \in K : p \in Paths /\ p \in DOMAIN tree /\ ~IsPrefix(c, p)
      BY <1>1 DEF Below, Shape
    <3>4. \A p \in E : p \in F /\ Old(p, c, e) = Ins(p, Len(c), e)
      BY DEF Old
    <3>5. \A p \in K : p \notin E /\ p \in F /\ Old(p, c, e) = p
      BY <3>3 DEF Old
    <3>6. \A p \in F : p \in E \/ p \in K
      BY DEF Old, Below
    <3>7. K \cup E = F
      BY <3>4, <3>5, <3>6
    <3>8. \A p \in F : (IF p \in E THEN M[p] ELSE tree[p]) = tree[Old(p, c, e)]
      BY <3>4, <3>5, <3>6
    <3>9. u = [p \in F |-> tree[Old(p, c, e)]]
      <4> HIDE DEF E, F, K, M
      <4> QED
        BY <3>2, <3>7, <3>8
    <3> QED
      BY <3>9 DEF Pulled
  <2>9. /\ c \in DOMAIN tree /\ tree[c] \in NodeRec
        /\ \A p \in LeafSet(u) : Old(p, c, e) # path
        /\ \A q \in LeafSet(tree) : q # path => \E p \in LeafSet(u) : Old(p, c, e) = q
    <3>1. Append(c, 1 - e) \in LeafSet(tree)
      BY <1>2, <2>6
    <3> HIDE DEF u
    <3>2. /\ c \in DOMAIN tree /\ tree[c] \in NodeRec
          /\ \A p \in LeafSet(Pulled(tree, c, e)) : Old(p, c, e) # Append(c, 1 - e)
          /\ \A q \in LeafSet(tree) : q # Append(c, 1 - e) =>
               \E p \in LeafSet(Pulled(tree, c, e)) : Old(p, c, e) = q
      BY <1>1, <2>3, <2>5, <3>1, PulledLeaves
    <3> QED
      BY <2>6, <2>8, <3>2
  <2>10. CritBitTree(u)
    BY <2>5, <2>8, <2>9, PulledTree
  <2>11. \A p \in LeafSet(u) : Old(p, c, e) \in LeafSet(tree) /\ u[p] = tree[Old(p, c, e)]
    <3>1. \A p \in LeafSet(u) : Old(p, c, e) \in LeafSet(tree)
      BY <2>8, PulledLeaf
    <3>2. \A p \in LeafSet(u) : p \in DOMAIN u
      BY DEF LeafSet
    <3>3. \A p \in DOMAIN u : u[p] = tree[Old(p, c, e)]
      BY <2>8 DEF Pulled
    <3> QED
      BY <3>1, <3>2, <3>3
  <2>12. ASSUME NEW p \in LeafSet(u)
         PROVE  \E q \in LeafSet(tree) : tree[q] = u[p] /\ tree[q].key # k
    <3>1. Old(p, c, e) \in LeafSet(tree) /\ Old(p, c, e) # path /\ u[p] = tree[Old(p, c, e)]
      BY <2>9, <2>11
    <3> QED
      BY <1>2, <3>1, DistinctKeys
  <2>13. ASSUME NEW q \in LeafSet(tree), tree[q].key # k
         PROVE  \E p \in LeafSet(u) : u[p] = tree[q]
    <3>1. q # path
      BY <1>2, <2>13
    <3> QED
      BY <2>9, <2>11, <3>1
  <2> HIDE DEF u
  <2>14. Contents(u) = Without(Contents(tree), k)
    BY <2>10, <2>12, <2>13, ContentsLess
  <2> QED
    BY <2>10, <2>14 DEF u
<1> QED
  BY <1>4, <1>5

-----------------------------------------------------------------------------
(* dict_set of a new key.                                                   *)


(* What is not below c stays, and what is moves one step down: the new tree *)
(* has a node at c and the new leaf beside what moved.                      *)
Kept(t, c) == {p \in DOMAIN t : ~IsPrefix(c, p)}

Shifted(t, c, e) ==
  {p \in Paths : IsPrefix(Append(c, e), p) /\ Cut(p, Len(c)) \in DOMAIN t}

Was(p, c) == IF IsPrefix(c, p) THEN Cut(p, Len(c)) ELSE p

Grown(t, c, d, node, leaf) ==
  [p \in Kept(t, c) \cup Shifted(t, c, 1 - d) \cup {c, Append(c, d)} |->
     IF p = c THEN node ELSE IF p = Append(c, d) THEN leaf ELSE t[Was(p, c)]]

LEMMA AgreeSym ==
  ASSUME NEW k, NEW l, NEW n, Agree(k, l, n)
  PROVE  Agree(l, k, n)
  BY DEF Agree

LEMMA AgreeTrans ==
  ASSUME NEW k, NEW l, NEW m, NEW n \in Nat, NEW j \in Nat, j <= n,
         Agree(k, l, n), Agree(l, m, j)
  PROVE  Agree(k, m, j)
<1>1. \A i \in 0 .. j - 1 : i \in 0 .. n - 1
  OBVIOUS
<1> QED
  BY <1>1 DEF Agree

LEMMA PrefixSelf ==
  ASSUME NEW c \in Paths
  PROVE  IsPrefix(c, c)
<1>1. Len(c) \in 0 .. Len(c)
  BY PathElements
<1> QED
  BY <1>1, UpAll, PrefixIsUp

LEMMA ChildBelow ==
  ASSUME NEW c \in Paths, NEW d \in {0, 1}
  PROVE  IsPrefix(c, Append(c, d)) /\ Append(c, d) # c
<1>1. /\ Append(c, d) \in Paths /\ Len(Append(c, d)) = Len(c) + 1 /\ Len(c) \in Nat
      /\ IsPrefix(Append(c, d), Append(c, d))
  BY AppendPath, PathElements, PrefixSelf
<1>2. Append(c, d) # c
  BY <1>1
<1> QED
  BY <1>1, <1>2, ChildPrefix

LEMMA KeptAt ==
  ASSUME NEW t, Shape(t), NEW c \in Paths, NEW d \in {0, 1}, NEW p \in Kept(t, c)
  PROVE  /\ p \in Paths /\ p \in DOMAIN t /\ ~IsPrefix(c, p) /\ Was(p, c) = p
         /\ p # c /\ p # Append(c, d)
<1>1. p \in Paths /\ p \in DOMAIN t /\ ~IsPrefix(c, p) /\ Was(p, c) = p
  BY DEF Kept, Was, Shape
<1> QED
  BY <1>1, PrefixSelf, ChildBelow

LEMMA ShiftedAt ==
  ASSUME NEW t, NEW c \in Paths, NEW d \in {0, 1}, NEW p \in Shifted(t, c, 1 - d)
  PROVE  /\ p \in Paths /\ IsPrefix(c, p) /\ Len(c) < Len(p) /\ p[Len(c) + 1] = 1 - d
         /\ IsPrefix(Append(c, 1 - d), p)
         /\ Was(p, c) = Cut(p, Len(c)) /\ Was(p, c) \in Paths /\ Was(p, c) \in DOMAIN t
         /\ IsPrefix(c, Was(p, c)) /\ Ins(Was(p, c), Len(c), 1 - d) = p
         /\ p # c /\ p # Append(c, d)
<1>1. 1 - d \in {0, 1} /\ 1 - d # d
  OBVIOUS
<1>2. p \in Paths /\ IsPrefix(Append(c, 1 - d), p) /\ Cut(p, Len(c)) \in DOMAIN t
  BY DEF Shifted
<1>3. IsPrefix(c, p) /\ Len(c) < Len(p) /\ p[Len(c) + 1] = 1 - d
  BY <1>1, <1>2, ChildPrefix
<1>4. /\ Cut(p, Len(c)) \in Paths /\ IsPrefix(c, Cut(p, Len(c)))
      /\ Ins(Cut(p, Len(c)), Len(c), 1 - d) = p
  BY <1>1, <1>2, CutBelow
<1>5. Was(p, c) = Cut(p, Len(c))
  BY <1>3 DEF Was
<1>6. p # c
  BY <1>3, PathElements
<1>7. p # Append(c, d)
  BY <1>1, <1>3, AppendPath
<1> QED
  BY <1>2, <1>3, <1>4, <1>5, <1>6, <1>7

(* Going back to the old path keeps the prefixes and the steps, but for the *)
(* new node.                                                                *)
LEMMA WasUp ==
  ASSUME NEW t, Shape(t), NEW c \in Paths, NEW d \in {0, 1},
         NEW p \in Kept(t, c) \cup Shifted(t, c, 1 - d), NEW i \in 0 .. Len(p) - 1
  PROVE  \/ /\ p \in Shifted(t, c, 1 - d) /\ i = Len(c)
            /\ Up(p, i) = c /\ p[i + 1] = 1 - d
         \/ /\ Up(p, i) \in Kept(t, c) \cup Shifted(t, c, 1 - d)
            /\ \E j \in 0 .. Len(Was(p, c)) - 1 :
                 Up(Was(p, c), j) = Was(Up(p, i), c) /\ Was(p, c)[j + 1] = p[i + 1]
<1> DEFINE n == Len(c)
           e == 1 - d
           m == Was(p, c)
<1>1. e \in {0, 1} /\ n \in Nat
  BY PathElements
<1>2. CASE p \in Kept(t, c)
  <2>1. p \in Paths /\ p \in DOMAIN t /\ ~IsPrefix(c, p) /\ m = p
    BY <1>2, KeptAt
  <2>2. Len(p) \in Nat /\ Up(p, i) \in DOMAIN t
    BY <2>1, At
  <2>3. i \in 0 .. Len(p)
    BY <2>2
  <2>4. ~IsPrefix(c, Up(p, i))
    BY <2>1, <2>3, UpPrefix
  <2>5. Up(p, i) \in Kept(t, c) /\ Was(Up(p, i), c) = Up(p, i)
    BY <2>2, <2>4 DEF Kept, Was
  <2> QED
    BY <2>1, <2>5
<1>3. CASE p \in Shifted(t, c, e)
  <2>1. /\ p \in Paths /\ IsPrefix(c, p) /\ n < Len(p) /\ p[n + 1] = e
        /\ IsPrefix(Append(c, e), p) /\ m = Cut(p, n)
        /\ m \in Paths /\ m \in DOMAIN t /\ IsPrefix(c, m) /\ Ins(m, n, e) = p
    BY <1>3, ShiftedAt
  <2>2. Len(p) \in Nat /\ Len(m) \in Nat /\ n \in 0 .. Len(p) /\ Up(p, n) = c
    BY <2>1, PathElements, PrefixIsUp
  <2> HIDE DEF m, n, e
  <2>3. n \in 0 .. Len(p) - 1
    BY <1>1, <2>1, <2>2
  <2>4. /\ Len(m) = Len(p) - 1
        /\ \A j \in 1 .. n : m[j] = p[j]
        /\ \A j \in n + 1 .. Len(p) - 1 : m[j] = p[j + 1]
    BY <2>1, <2>3, CutSteps
  <2>5. i \in 0 .. Len(p) /\ Up(p, i) \in Paths
    BY <2>1, <2>2, UpFacts
  <2>6. CASE i = n
    BY <1>3, <2>1, <2>2, <2>6 DEF n, e
  <2>7. CASE i < n
    <3>1. ~IsPrefix(c, Up(p, i))
      BY <1>1, <2>1, <2>5, <2>7, UpPrefix DEF n
    <3>2. i \in 0 .. n /\ i + 1 \in 1 .. n /\ i \in 0 .. Len(m) - 1
      BY <1>1, <2>2, <2>3, <2>4, <2>7
    <3>3. Up(m, i) = Up(p, i) /\ m[i + 1] = p[i + 1]
      BY <2>1, <2>3, <2>4, <3>2, CutUp
    <3>4. Up(m, i) \in DOMAIN t
      BY <2>1, <3>2, At
    <3>5. Up(p, i) \in Kept(t, c) /\ Was(Up(p, i), c) = Up(p, i)
      BY <3>1, <3>3, <3>4 DEF Kept, Was
    <3> QED
      BY <3>2, <3>3, <3>5 DEF m
  <2>8. CASE i > n
    <3>1. /\ i - 1 \in n .. Len(m) /\ i - 1 \in 0 .. Len(m) - 1 /\ i \in n + 1 .. Len(p) - 1
          /\ (i - 1) + 1 = i /\ n \in 0 .. Len(m)
      BY <1>1, <2>2, <2>3, <2>4, <2>8
    <3>2. Up(Ins(m, n, e), (i - 1) + 1) = Ins(Up(m, i - 1), n, e) /\ n \in 0 .. Len(Up(m, i - 1))
      BY <1>1, <2>1, <3>1, InsUp
    <3>3. Up(p, i) = Ins(Up(m, i - 1), n, e)
      BY <2>1, <3>1, <3>2
    <3>4. Up(m, i - 1) \in DOMAIN t /\ Up(m, i - 1) \in Paths
      BY <2>1, <3>1, At
    <3>5. Cut(Up(p, i), n) = Up(m, i - 1)
      BY <1>1, <3>2, <3>3, <3>4, InsUp
    <3>6. IsPrefix(c, Up(p, i))
      BY <1>1, <2>1, <2>5, <2>8, UpPrefix DEF n
    <3>7. IsPrefix(Append(c, e), Up(p, i))
      <4>1. Append(c, e) \in Paths /\ Len(Append(c, e)) = n + 1
        BY <1>1, AppendPath DEF n
      <4>2. n + 1 <= i
        BY <1>1, <2>5, <2>8
      <4> QED
        BY <2>1, <2>5, <4>1, <4>2, UpPrefix
    <3>8. Up(p, i) \in Shifted(t, c, e) /\ Was(Up(p, i), c) = Up(m, i - 1)
      BY <2>5, <3>4, <3>5, <3>6, <3>7 DEF Shifted, Was, n
    <3>9. m[(i - 1) + 1] = p[i + 1]
      BY <2>4, <3>1
    <3> QED
      BY <3>1, <3>8, <3>9 DEF m, e
  <2> QED
    BY <1>1, <2>5, <2>6, <2>7, <2>8
<1> QED
  BY <1>2, <1>3

LEMMA WasInjective ==
  ASSUME NEW t, Shape(t), NEW c \in Paths, NEW d \in {0, 1},
         NEW p \in Kept(t, c) \cup Shifted(t, c, 1 - d),
         NEW q \in Kept(t, c) \cup Shifted(t, c, 1 - d), Was(p, c) = Was(q, c)
  PROVE  p = q
<1> DEFINE K == Kept(t, c)
           X == Shifted(t, c, 1 - d)
<1>1. \A r \in K : Was(r, c) = r /\ ~IsPrefix(c, Was(r, c))
  BY KeptAt
<1>2. \A r \in X : Ins(Was(r, c), Len(c), 1 - d) = r /\ IsPrefix(c, Was(r, c))
  BY ShiftedAt
<1> HIDE DEF K, X
<1>3. p \in K \cup X /\ q \in K \cup X
  BY DEF K, X
<1> QED
  BY <1>1, <1>2, <1>3

(* The prefixes of a path with a step at its end. *)
LEMMA AppendPrefix ==
  ASSUME NEW c \in Paths, NEW p \in Paths, NEW x \in {0, 1}
  PROVE  /\ IsPrefix(c, p) => IsPrefix(c, Append(p, x))
         /\ IsPrefix(c, Append(p, x)) => IsPrefix(c, p) \/ c = Append(p, x)
<1> DEFINE a == Append(p, x)
           n == Len(c)
<1>1. n \in Nat /\ Len(p) \in Nat
  BY PathElements
<1>2. a \in Paths /\ Len(a) = Len(p) + 1 /\ \A i \in 0 .. Len(p) : Up(a, i) = Up(p, i)
  BY AppendPath
<1> HIDE DEF a
<1>3. Len(p) \in 0 .. Len(p) /\ Len(p) \in 0 .. Len(a)
  BY <1>1, <1>2
<1>4. Up(a, Len(p)) = p
  BY <1>2, <1>3, UpAll
<1>5. IsPrefix(c, p) <=> IsPrefix(c, a) /\ n <= Len(p)
  BY <1>2, <1>3, <1>4, UpPrefix
<1>6. ASSUME IsPrefix(c, a), ~IsPrefix(c, p) PROVE c = a
  <2>1. n \in 0 .. Len(a) /\ Up(a, n) = c /\ n > Len(p)
    BY <1>1, <1>2, <1>5, <1>6, PrefixIsUp
  <2>2. n = Len(a)
    BY <1>1, <1>2, <2>1
  <2> QED
    BY <1>2, <2>1, <2>2, UpAll
<1>7. /\ IsPrefix(c, p) => IsPrefix(c, a)
      /\ IsPrefix(c, a) => IsPrefix(c, p) \/ c = a
  BY <1>5, <1>6
<1> QED
  BY <1>7 DEF a

LEMMA GrownShape ==
  ASSUME NEW t, Shape(t), NEW c \in DOMAIN t, NEW d \in {0, 1},
         NEW node \in NodeRec, NEW leaf \in LeafRec
  PROVE  Shape(Grown(t, c, d, node, leaf))
<1> DEFINE u == Grown(t, c, d, node, leaf)
           n == Len(c)
           e == 1 - d
           a == Append(c, d)
           K == Kept(t, c)
           X == Shifted(t, c, e)
           S == K \cup X
<1>1. /\ c \in Paths /\ n \in Nat
      /\ \A i \in 0 .. n - 1 : Up(c, i) \in DOMAIN t /\ t[Up(c, i)] \in NodeRec
  BY At
<1>2. e \in {0, 1} /\ \A x \in {0, 1} : x = d \/ x = e
  OBVIOUS
<1>3. /\ DOMAIN u = S \cup {c, a}
      /\ u[c] = node /\ u[a] = leaf
      /\ \A p \in S : u[p] = t[Was(p, c)] /\ Was(p, c) \in DOMAIN t /\ p \in Paths
  <2>1. DOMAIN u = S \cup {c, a} /\ u[c] = node
    BY DEF Grown
  <2>2. u[a] = leaf
    BY <1>1, ChildBelow DEF Grown
  <2>3. \A p \in S : p # c /\ p # a /\ Was(p, c) \in DOMAIN t /\ p \in Paths
    BY <1>1, KeptAt, ShiftedAt
  <2>4. \A p \in S : u[p] = t[Was(p, c)]
    BY <2>3 DEF Grown
  <2> QED
    BY <2>1, <2>2, <2>3, <2>4
<1>4. /\ a \in Paths /\ Len(a) = n + 1
      /\ \A i \in 0 .. n : Up(a, i) = Up(c, i)
  BY <1>1, AppendPath
<1>5. leaf \notin NodeRec
  BY LeafFields
<1>0. u = [p \in DOMAIN u |-> u[p]]
  BY DEF Grown
<1> HIDE DEF u
<1>6. ASSUME NEW i \in 0 .. n - 1
      PROVE  Up(c, i) \in DOMAIN u /\ u[Up(c, i)] \in NodeRec
  <2>1. i \in 0 .. n /\ ~(n <= i)
    BY <1>1
  <2>2. ~IsPrefix(c, Up(c, i))
    BY <1>1, <2>1, UpPrefix
  <2>3. Up(c, i) \in K /\ Was(Up(c, i), c) = Up(c, i)
    BY <1>1, <2>2 DEF Kept, Was
  <2> QED
    BY <1>1, <1>3, <2>3
<1> USE DEF K, X
<1>7. u \in [DOMAIN u -> LeafRec \cup NodeRec]
  <2>1. \A p \in DOMAIN t : t[p] \in LeafRec \cup NodeRec
    BY DEF Shape
  <2> HIDE DEF S, a
  <2>2. \A p \in DOMAIN u : u[p] \in LeafRec \cup NodeRec
    BY <1>3, <2>1
  <2> QED
    BY <1>0, <2>2
<1>8. DOMAIN u \subseteq Paths
  <2> HIDE DEF S, a
  <2> QED
    BY <1>1, <1>3, <1>4
<1>9. IsFiniteSet(DOMAIN u)
  <2> DEFINE f == [p \in S |-> Was(p, c)]
             E == DOMAIN t
  <2>1. f \in [S -> E] /\ DOMAIN f = S /\ \A p \in S : f[p] = Was(p, c)
    BY <1>3
  <2>2. ASSUME NEW p \in S, NEW q \in S, f[p] = f[q] PROVE p = q
    <3>1. Was(p, c) = Was(q, c)
      BY <2>2
    <3> HIDE DEF f
    <3> QED
      BY <1>1, <3>1, WasInjective
  <2> HIDE DEF f, S, a
  <2>3. f \in Injection(S, E)
    BY <2>1, <2>2 DEF Injection, IsInjective
  <2>4. IsFiniteSet(E)
    BY DEF Shape
  <2> HIDE DEF E
  <2>5. IsFiniteSet(S)
    BY <2>3, <2>4, FS_Injection
  <2>6. IsFiniteSet(S \cup {c}) /\ IsFiniteSet((S \cup {c}) \cup {a})
    BY <2>5, FS_AddElement
  <2>7. DOMAIN u = (S \cup {c}) \cup {a}
    BY <1>3
  <2> QED
    BY <2>6, <2>7
<1>10. ASSUME NEW p \in DOMAIN u, NEW i \in 0 .. Len(p) - 1
       PROVE  Up(p, i) \in DOMAIN u /\ u[Up(p, i)] \in NodeRec
  <2>1. CASE p = c
    BY <1>6, <2>1
  <2>2. CASE p = a
    <3>1. i \in 0 .. n /\ (i \in 0 .. n - 1 \/ i = n)
      BY <1>1, <1>4, <2>2
    <3>2. Up(p, i) = Up(c, i)
      BY <1>4, <2>2, <3>1
    <3>3. i = n => Up(c, i) = c
      BY <1>1, UpAll
    <3> QED
      BY <1>3, <1>6, <3>1, <3>2, <3>3
  <2>3. CASE p \in S
    <3>1. CASE Up(p, i) = c
      BY <1>3, <3>1
    <3>2. CASE Up(p, i) # c
      <4>1. /\ Up(p, i) \in S
            /\ \E j \in 0 .. Len(Was(p, c)) - 1 : Up(Was(p, c), j) = Was(Up(p, i), c)
        BY <1>1, <2>3, <3>2, WasUp
      <4>2. t[Was(Up(p, i), c)] \in NodeRec
        BY <1>3, <2>3, <4>1, At
      <4> QED
        BY <1>3, <4>1, <4>2
    <3> QED
      BY <3>1, <3>2
  <2> HIDE DEF S, a
  <2> QED
    BY <1>3, <2>1, <2>2, <2>3
<1>11. ASSUME NEW p \in DOMAIN u, u[p] \in NodeRec, NEW x \in {0, 1}
       PROVE  Append(p, x) \in DOMAIN u
  <2>1. CASE p = c
    <3>1. CASE x = d
      BY <1>3, <2>1, <3>1
    <3>2. CASE x = e
      <4>1. n \in 0 .. Len(c)
        BY <1>1
      <4>2. Append(c, e) \in Paths /\ Ins(c, n, e) = Append(c, e) /\ Cut(Ins(c, n, e), n) = c
        BY <1>1, <1>2, <4>1, AppendPath, InsEnd, InsUp
      <4>3. IsPrefix(Append(c, e), Append(c, e))
        BY <4>2, PrefixSelf
      <4>4. Append(c, e) \in X
        BY <4>2, <4>3 DEF Shifted
      <4> QED
        BY <1>3, <2>1, <3>2, <4>4
    <3> QED
      BY <1>2, <3>1, <3>2
  <2>2. p # a
    BY <1>3, <1>5, <1>11
  <2>3. CASE p \in K
    <3>1. p \in DOMAIN t /\ p \in Paths /\ ~IsPrefix(c, p) /\ Was(p, c) = p /\ u[p] = t[p]
      BY <1>1, <1>3, <2>3, KeptAt
    <3>2. Append(p, x) \in DOMAIN t
      BY <1>11, <3>1, At
    <3>3. IsPrefix(c, Append(p, x)) => Append(p, x) = c
      BY <1>1, <3>1, AppendPrefix
    <3>4. Append(p, x) \in K \/ Append(p, x) = c
      BY <3>2, <3>3 DEF Kept
    <3> QED
      BY <1>3, <3>4
  <2>4. CASE p \in X
    <3> DEFINE m == Was(p, c)
    <3>1. /\ m \in DOMAIN t /\ m \in Paths /\ IsPrefix(c, m) /\ Ins(m, n, e) = p
          /\ u[p] = t[m]
      BY <1>1, <1>3, <2>4, ShiftedAt
    <3> HIDE DEF m
    <3>2. Append(m, x) \in DOMAIN t /\ Append(m, x) \in Paths /\ IsPrefix(c, Append(m, x))
      BY <1>1, <1>11, <3>1, At, AppendPath, AppendPrefix
    <3>3. n \in 0 .. Len(m)
      BY <1>1, <1>2, <3>1, InsBelow
    <3>4. Append(p, x) = Ins(Append(m, x), n, e)
      BY <1>2, <3>1, <3>3, InsAppend
    <3>5. /\ Ins(Append(m, x), n, e) \in Paths
          /\ IsPrefix(Append(c, e), Ins(Append(m, x), n, e))
          /\ Cut(Ins(Append(m, x), n, e), n) = Append(m, x)
      BY <1>1, <1>2, <3>2, InsBelow
    <3>6. Append(p, x) \in X
      BY <3>2, <3>4, <3>5 DEF Shifted
    <3> QED
      BY <1>3, <3>6
  <2> HIDE DEF K, X, a
  <2> QED
    BY <1>3, <2>1, <2>2, <2>3, <2>4
<1>12. Shape(u)
  BY <1>7, <1>8, <1>9, <1>10, <1>11 DEF Shape
<1> QED
  BY <1>12 DEF u

(* The leaves of the new tree are the old ones and the new one. *)
LEMMA GrownLeaves ==
  ASSUME NEW t, Shape(t), NEW c \in DOMAIN t, NEW d \in {0, 1},
         NEW node \in NodeRec, NEW leaf \in LeafRec
  PROVE  LET u == Grown(t, c, d, node, leaf)
         IN  /\ Append(c, d) \in LeafSet(u) /\ u[Append(c, d)] = leaf
             /\ \A p \in LeafSet(u) : p # Append(c, d) =>
                  /\ p \in Kept(t, c) \cup Shifted(t, c, 1 - d)
                  /\ Was(p, c) \in LeafSet(t) /\ u[p] = t[Was(p, c)]
             /\ \A q \in LeafSet(t) : \E p \in LeafSet(u) : u[p] = t[q]
<1> DEFINE u == Grown(t, c, d, node, leaf)
           n == Len(c)
           e == 1 - d
           a == Append(c, d)
           S == Kept(t, c) \cup Shifted(t, c, e)
<1>1. c \in Paths /\ e \in {0, 1}
  BY At
<1>2. /\ DOMAIN u = S \cup {c, a}
      /\ u[c] = node /\ u[a] = leaf
      /\ \A p \in S : u[p] = t[Was(p, c)] /\ Was(p, c) \in DOMAIN t /\ p \in Paths
  <2>1. DOMAIN u = S \cup {c, a} /\ u[c] = node
    BY DEF Grown
  <2>2. u[a] = leaf
    BY <1>1, ChildBelow DEF Grown
  <2>3. \A p \in S : p # c /\ p # a /\ Was(p, c) \in DOMAIN t /\ p \in Paths
    BY <1>1, KeptAt, ShiftedAt
  <2>4. \A p \in S : u[p] = t[Was(p, c)]
    BY <2>3 DEF Grown
  <2> QED
    BY <2>1, <2>2, <2>3, <2>4
<1>3. node \notin LeafRec
  BY NodeFields
<1> HIDE DEF u
<1>4. a \in LeafSet(u)
  BY <1>2 DEF LeafSet
<1>5. ASSUME NEW p \in LeafSet(u), p # a
      PROVE  p \in S /\ Was(p, c) \in LeafSet(t) /\ u[p] = t[Was(p, c)]
  <2>1. p \in DOMAIN u /\ u[p] \in LeafRec
    BY DEF LeafSet
  <2> HIDE DEF S, a
  <2>2. p \in S
    BY <1>2, <1>3, <1>5, <2>1
  <2> QED
    BY <1>2, <2>1, <2>2 DEF LeafSet
<1>6. ASSUME NEW q \in LeafSet(t) PROVE \E p \in LeafSet(u) : u[p] = t[q]
  <2>1. q \in DOMAIN t /\ q \in Paths /\ t[q] \in LeafRec
    BY At DEF LeafSet
  <2>2. \E p \in S : Was(p, c) = q
    <3>1. CASE ~IsPrefix(c, q)
      BY <2>1, <3>1 DEF Kept, Was
    <3>2. CASE IsPrefix(c, q)
      <4>1. /\ Ins(q, n, e) \in Paths /\ IsPrefix(Append(c, e), Ins(q, n, e))
            /\ Cut(Ins(q, n, e), n) = q
        BY <1>1, <2>1, <3>2, InsBelow
      <4>2. Ins(q, n, e) \in Shifted(t, c, e)
        BY <2>1, <4>1 DEF Shifted
      <4>3. Was(Ins(q, n, e), c) = q
        BY <1>1, <4>1, <4>2, ShiftedAt
      <4> QED
        BY <4>2, <4>3
    <3> QED
      BY <3>1, <3>2
  <2>3. PICK p \in S : Was(p, c) = q
    BY <2>2
  <2>4. p \in DOMAIN u /\ u[p] = t[q]
    BY <1>2, <2>3
  <2> QED
    BY <2>1, <2>4 DEF LeafSet
<1> QED
  BY <1>2, <1>4, <1>5, <1>6 DEF u

(* The place for a new key: its path leads there, its first difference from *)
(* the keys below is the bit n, and the nodes above part before it, the     *)
(* ones below after it.                                                     *)
Fits(t, c, k, n) ==
  /\ Follows(t, k, c)
  /\ \A i \in 0 .. Len(c) - 1 : Pos(t[Up(c, i)]) < n
  /\ t[c] \in NodeRec => n < Pos(t[c])
  /\ \E q \in LeafSet(t) : IsPrefix(c, q)
  /\ \A q \in LeafSet(t) : IsPrefix(c, q) =>
       KeyBit(t[q].key, n) # KeyBit(k, n) /\ Agree(k, t[q].key, n)

LEMMA GrownTree ==
  ASSUME NEW t, CritBitTree(t), NEW c \in DOMAIN t,
         NEW node \in NodeRec, NEW leaf \in LeafRec,
         Fits(t, c, leaf.key, Pos(node))
  PROVE  CritBitTree(Grown(t, c, KeyBit(leaf.key, Pos(node)), node, leaf))
<1> DEFINE N == Pos(node)
           k == leaf.key
           d == KeyBit(k, N)
           e == 1 - d
           u == Grown(t, c, d, node, leaf)
           n == Len(c)
           a == Append(c, d)
           X == Shifted(t, c, e)
           S == Kept(t, c) \cup X
<1>1. Shape(t) /\ Ordered(t) /\ OnPath(t) /\ Sharing(t)
  BY DEF CritBitTree
<1>2. N \in Nat /\ k \in Bytes /\ leaf \notin NodeRec /\ node \notin LeafRec
  BY LeafFields, NodeFields
<1>3. d \in {0, 1}
  BY <1>2, KeyBitType
<1> HIDE DEF d, k, N
<1>4. e \in {0, 1} /\ e # d /\ \A x \in {0, 1} : x # d => x = e
  BY <1>3
<1>5. /\ c \in Paths /\ n \in Nat
      /\ \A i \in 0 .. n - 1 : Up(c, i) \in DOMAIN t /\ t[Up(c, i)] \in NodeRec
  BY <1>1, At
<1>6. Shape(u)
  BY <1>1, <1>3, GrownShape
<1>7. /\ DOMAIN u = S \cup {c, a}
      /\ u[c] = node /\ u[a] = leaf
      /\ \A p \in S : u[p] = t[Was(p, c)] /\ Was(p, c) \in DOMAIN t /\ p \in Paths
  <2>1. DOMAIN u = S \cup {c, a} /\ u[c] = node
    BY DEF Grown
  <2>2. u[a] = leaf
    BY <1>1, <1>3, <1>5, ChildBelow DEF Grown
  <2>3. \A p \in S : p # c /\ p # a /\ Was(p, c) \in DOMAIN t /\ p \in Paths
    BY <1>1, <1>3, <1>5, KeptAt, ShiftedAt
  <2>4. \A p \in S : u[p] = t[Was(p, c)]
    BY <2>3 DEF Grown
  <2> QED
    BY <2>1, <2>2, <2>3, <2>4
<1>8. /\ a \in LeafSet(u)
      /\ \A p \in LeafSet(u) : p # a =>
           p \in S /\ Was(p, c) \in LeafSet(t) /\ u[p] = t[Was(p, c)]
  BY <1>1, <1>3, GrownLeaves
<1>9. /\ Follows(t, k, c)
      /\ \A i \in 0 .. n - 1 : Pos(t[Up(c, i)]) < N
      /\ t[c] \in NodeRec => N < Pos(t[c])
      /\ \E q \in LeafSet(t) : IsPrefix(c, q)
      /\ \A q \in LeafSet(t) : IsPrefix(c, q) =>
           KeyBit(t[q].key, N) # d /\ Agree(k, t[q].key, N)
  BY DEF Fits, d, k, N
<1>10. /\ a \in Paths /\ Len(a) = n + 1 /\ a[n + 1] = d
       /\ \A i \in 1 .. n : a[i] = c[i]
       /\ \A i \in 0 .. n : Up(a, i) = Up(c, i)
  BY <1>3, <1>5, AppendPath
<1>11. c \notin S /\ Up(c, n) = c
  BY <1>1, <1>3, <1>5, KeptAt, ShiftedAt, UpAll
<1> HIDE DEF u
\* What was on the way to a path is still there.
<1>12. ASSUME NEW p \in S, NEW i \in 0 .. Len(p) - 1, Up(p, i) # c
       PROVE  \E j \in 0 .. Len(Was(p, c)) - 1 :
                /\ Up(Was(p, c), j) = Was(Up(p, i), c)
                /\ u[Up(p, i)] = t[Up(Was(p, c), j)]
                /\ Was(p, c)[j + 1] = p[i + 1]
  <2>1. /\ Up(p, i) \in S
        /\ \E j \in 0 .. Len(Was(p, c)) - 1 :
             Up(Was(p, c), j) = Was(Up(p, i), c) /\ Was(p, c)[j + 1] = p[i + 1]
    BY <1>1, <1>3, <1>5, <1>12, WasUp
  <2>2. u[Up(p, i)] = t[Was(Up(p, i), c)]
    BY <1>7, <2>1
  <2> HIDE DEF S
  <2> QED
    BY <2>1, <2>2
<1>13. ASSUME NEW p \in S, NEW i \in 0 .. Len(p) - 1, Up(p, i) = c
       PROVE  p[i + 1] = e /\ IsPrefix(c, Was(p, c))
  <2>1. p \in X /\ p[i + 1] = e
    BY <1>1, <1>3, <1>5, <1>11, <1>13, WasUp
  <2> QED
    BY <1>3, <1>5, <2>1, ShiftedAt
<1>14. ASSUME NEW i \in 0 .. n - 1
       PROVE  Up(c, i) \in S /\ u[Up(c, i)] = t[Up(c, i)] /\ Was(Up(c, i), c) = Up(c, i)
              /\ Up(c, i) # c
  <2>1. i \in 0 .. n /\ ~(n <= i)
    BY <1>5
  <2>2. ~IsPrefix(c, Up(c, i))
    BY <1>5, <2>1, UpPrefix
  <2>3. Up(c, i) \in Kept(t, c) /\ Was(Up(c, i), c) = Up(c, i)
    BY <1>5, <2>2 DEF Kept, Was
  <2> QED
    BY <1>5, <1>7, <1>11, <2>3
<1> HIDE DEF S, a, X, e
<1>15. Ordered(u)
  <2> SUFFICES ASSUME NEW p \in DOMAIN u, u[p] \in NodeRec, NEW i \in 0 .. Len(p) - 1
               PROVE  Pos(u[Up(p, i)]) < Pos(u[p])
    BY DEF Ordered
  <2>1. CASE p = c
    BY <1>7, <1>9, <1>14, <2>1 DEF N
  <2>2. CASE p \in S
    <3> DEFINE m == Was(p, c)
    <3>1. u[p] = t[m] /\ m \in DOMAIN t /\ m \in Paths /\ Len(m) \in Nat
      BY <1>1, <1>7, <2>2, At
    <3>2. CASE Up(p, i) = c
      <4>1. IsPrefix(c, m)
        BY <1>13, <2>2, <3>2
      <4>2. n \in 0 .. Len(m) /\ Up(m, n) = c
        BY <1>5, <3>1, <4>1, PrefixIsUp
      <4>3. N < Pos(t[m])
        <5>1. CASE n = Len(m)
          BY <1>9, <3>1, <4>2, <5>1, UpAll
        <5>2. CASE n # Len(m)
          <6>1. n \in 0 .. Len(m) - 1
            BY <3>1, <4>2, <5>2
          <6>2. t[c] \in NodeRec /\ Pos(t[c]) < Pos(t[m])
            BY <1>1, <3>1, <4>2, <6>1, At DEF Ordered
          <6>3. Pos(t[c]) \in Nat /\ Pos(t[m]) \in Nat /\ N < Pos(t[c])
            BY <1>9, <3>1, <6>2, NodeFields
          <6> QED
            BY <1>2, <6>2, <6>3
        <5> QED
          BY <5>1, <5>2
      <4> QED
        BY <1>7, <3>1, <3>2, <4>3 DEF N
    <3>3. CASE Up(p, i) # c
      <4>1. PICK j \in 0 .. Len(m) - 1 : u[Up(p, i)] = t[Up(m, j)]
        BY <1>12, <2>2, <3>3
      <4> QED
        BY <1>1, <3>1, <4>1 DEF Ordered
    <3> QED
      BY <3>2, <3>3
  <2> QED
    BY <1>2, <1>7, <2>1, <2>2
<1>16. OnPath(u)
  <2> SUFFICES ASSUME NEW p \in LeafSet(u), NEW i \in 0 .. Len(p) - 1
               PROVE  p[i + 1] = KeyBit(u[p].key, Pos(u[Up(p, i)]))
    BY DEF OnPath, Follows
  <2>1. CASE p = a
    <3>1. u[p].key = k /\ Up(p, i) = Up(c, i) /\ (i \in 0 .. n - 1 \/ i = n)
      <4>1. i \in 0 .. n /\ (i \in 0 .. n - 1 \/ i = n)
        BY <1>5, <1>10, <2>1
      <4> QED
        BY <1>7, <1>10, <2>1, <4>1 DEF k
    <3>2. CASE i = n
      BY <1>7, <1>10, <1>11, <2>1, <3>1, <3>2 DEF d, N
    <3>3. CASE i \in 0 .. n - 1
      <4>1. i + 1 \in 1 .. n
        BY <1>5, <3>3
      <4>2. p[i + 1] = c[i + 1] /\ c[i + 1] = KeyBit(k, Pos(t[Up(c, i)]))
        BY <1>9, <1>10, <2>1, <3>3, <4>1 DEF Follows
      <4> QED
        BY <1>14, <3>1, <3>3, <4>2
    <3> QED
      BY <3>1, <3>2, <3>3
  <2>2. CASE p # a
    <3> DEFINE m == Was(p, c)
    <3>1. p \in S /\ m \in LeafSet(t) /\ u[p] = t[m]
      BY <1>8, <2>2
    <3>2. CASE Up(p, i) = c
      <4>1. p[i + 1] = e /\ KeyBit(t[m].key, N) # d
        BY <1>9, <1>13, <3>1, <3>2
      <4>2. KeyBit(t[m].key, N) \in {0, 1}
        BY <1>2, <3>1, LeafFields, KeyBitType DEF LeafSet
      <4>3. KeyBit(t[m].key, N) = e
        BY <1>4, <4>1, <4>2
      <4> QED
        BY <1>7, <3>1, <3>2, <4>1, <4>3 DEF N
    <3>3. CASE Up(p, i) # c
      <4>1. PICK j \in 0 .. Len(m) - 1 : u[Up(p, i)] = t[Up(m, j)] /\ m[j + 1] = p[i + 1]
        BY <1>12, <3>1, <3>3
      <4>2. m[j + 1] = KeyBit(t[m].key, Pos(t[Up(m, j)]))
        BY <1>1, <3>1 DEF OnPath, Follows
      <4> QED
        BY <3>1, <4>1, <4>2
    <3> QED
      BY <3>2, <3>3
  <2> QED
    BY <2>1, <2>2
\* The new key agrees with the others below the nodes on its path.
<1>17. ASSUME NEW q \in LeafSet(u), q # a, NEW i \in 0 .. Len(q) - 1, i \in 0 .. n,
              Up(q, i) = Up(c, i)
       PROVE  Agree(k, u[q].key, Pos(u[Up(c, i)]))
  <2> DEFINE m == Was(q, c)
  <2>1. q \in S /\ m \in LeafSet(t) /\ u[q] = t[m]
    BY <1>8, <1>17
  <2>2. CASE i = n
    <3>1. Up(q, i) = c
      BY <1>11, <1>17, <2>2
    <3>2. Agree(k, t[m].key, N)
      BY <1>9, <1>13, <2>1, <3>1
    <3> QED
      BY <1>7, <1>17, <2>1, <3>1, <3>2 DEF N
  <2>3. CASE i # n
    <3> DEFINE z == Up(c, i)
    <3>1. i \in 0 .. n - 1 /\ i < n
      BY <1>5, <1>17, <2>3
    <3>2. u[z] = t[z] /\ z # c /\ Was(z, c) = z /\ t[z] \in NodeRec /\ Pos(t[z]) < N
      BY <1>5, <1>9, <1>14, <3>1
    <3>3. PICK j \in 0 .. Len(m) - 1 : Up(m, j) = z
      BY <1>12, <1>17, <2>1, <3>2
    <3>4. PICK w \in LeafSet(t) : IsPrefix(c, w)
      BY <1>9
    <3>5. /\ m \in Paths /\ w \in Paths /\ Len(m) \in Nat /\ Len(w) \in Nat
      BY <1>1, <2>1, At DEF LeafSet
    <3>6. n \in 0 .. Len(w) /\ Up(w, n) = c
      BY <1>5, <3>4, <3>5, PrefixIsUp
    <3>7. Up(w, i) = z
      BY <1>17, <3>5, <3>6, UpUp
    <3>8. Len(z) = i
      BY <1>5, <1>17, UpFacts
    <3>9. j \in 0 .. Len(m)
      BY <3>5
    <3>10. j = i
      BY <3>3, <3>5, <3>8, <3>9, UpFacts
    <3>11. i \in 0 .. Len(w) - 1 /\ i < Len(m)
      BY <1>5, <3>1, <3>5, <3>6, <3>10
    <3>12. Agree(t[w].key, t[m].key, Pos(t[z]))
      BY <1>1, <2>1, <3>3, <3>7, <3>10, <3>11 DEF Sharing
    <3>13. Agree(k, t[w].key, N)
      BY <1>9, <3>4
    <3>14. Pos(t[z]) \in Nat /\ Pos(t[z]) <= N
      BY <1>2, <3>2, NodeFields
    <3>15. Agree(k, t[m].key, Pos(t[z]))
      <4> HIDE DEF z, m
      <4> QED
        BY <1>2, <3>12, <3>13, <3>14, AgreeTrans
    <3> QED
      BY <2>1, <3>2, <3>15
  <2> QED
    BY <2>2, <2>3
<1>18. Sharing(u)
  <2> SUFFICES ASSUME NEW p \in LeafSet(u), NEW q \in LeafSet(u), NEW i \in 0 .. Len(p) - 1,
                      i < Len(q), Up(p, i) = Up(q, i)
               PROVE  Agree(u[p].key, u[q].key, Pos(u[Up(p, i)]))
    BY DEF Sharing
  <2>0. p \in Paths /\ q \in Paths /\ Len(p) \in Nat /\ Len(q) \in Nat
    BY <1>6, At DEF LeafSet
  <2>1. i \in 0 .. Len(q) - 1 /\ i \in 0 .. Len(p) - 1
    BY <2>0
  <2>2. CASE p = q
    BY <2>2 DEF Agree
  <2>3. CASE p = a /\ q # a
    <3>1. i \in 0 .. n
      BY <1>5, <1>10, <2>3
    <3>2. Up(p, i) = Up(c, i) /\ u[p].key = k
      BY <1>7, <1>10, <2>3, <3>1 DEF k
    <3> QED
      BY <1>17, <2>1, <2>3, <3>1, <3>2
  <2>4. CASE p # a /\ q = a
    <3>1. i \in 0 .. n
      BY <1>5, <1>10, <2>1, <2>4
    <3>2. Up(p, i) = Up(c, i) /\ u[q].key = k
      BY <1>7, <1>10, <2>4, <3>1 DEF k
    <3>3. Agree(k, u[p].key, Pos(u[Up(c, i)]))
      BY <1>17, <2>1, <2>4, <3>1, <3>2
    <3> QED
      BY <3>2, <3>3, AgreeSym
  <2>5. CASE p # a /\ q # a
    <3> DEFINE x == Was(p, c)
               y == Was(q, c)
    <3>1. /\ p \in S /\ x \in LeafSet(t) /\ u[p] = t[x]
          /\ q \in S /\ y \in LeafSet(t) /\ u[q] = t[y]
      BY <1>8, <2>5
    <3>2. CASE Up(p, i) = c
      <4>1. Agree(k, t[x].key, N) /\ Agree(k, t[y].key, N)
        BY <1>9, <1>13, <2>1, <3>1, <3>2
      <4>2. Agree(t[x].key, t[y].key, N)
        <5>1. Agree(t[x].key, k, N) /\ N <= N
          BY <1>2, <4>1, AgreeSym
        <5> HIDE DEF x, y
        <5> QED
          BY <1>2, <4>1, <5>1, AgreeTrans
      <4> QED
        BY <1>7, <3>1, <3>2, <4>2 DEF N
    <3>3. CASE Up(p, i) # c
      <4>1. PICK j \in 0 .. Len(x) - 1 :
              Up(x, j) = Was(Up(p, i), c) /\ u[Up(p, i)] = t[Up(x, j)]
        BY <1>12, <3>1, <3>3
      <4>2. PICK m \in 0 .. Len(y) - 1 : Up(y, m) = Was(Up(q, i), c)
        BY <1>12, <2>1, <3>1, <3>3
      <4>3. Up(x, j) = Up(y, m)
        BY <4>1, <4>2
      <4>4. x \in Paths /\ y \in Paths /\ Len(x) \in Nat /\ Len(y) \in Nat
        BY <1>1, <3>1, At DEF LeafSet
      <4> HIDE DEF x, y
      <4>5. j \in 0 .. Len(x) /\ m \in 0 .. Len(y)
        BY <4>4
      <4>6. j = m
        BY <4>3, <4>4, <4>5, UpFacts
      <4>7. j < Len(y)
        BY <4>4, <4>6
      <4>8. Agree(t[x].key, t[y].key, Pos(t[Up(x, j)]))
        BY <1>1, <3>1, <4>3, <4>6, <4>7 DEF Sharing
      <4> QED
        BY <3>1, <4>1, <4>8
    <3> QED
      BY <3>2, <3>3
  <2> QED
    BY <2>2, <2>3, <2>4, <2>5
<1>19. CritBitTree(u)
  BY <1>6, <1>15, <1>16, <1>18 DEF CritBitTree
<1> QED
  BY <1>19 DEF u, d, k, N

(* PartsBelow compares positions. *)
LEMMA PartsBelowIs ==
  ASSUME NEW p, tree[p] \in NodeRec, NEW byte \in Nat, NEW bit \in 0 .. 7
  PROVE  PartsBelow(p, byte, bit) <=> PosOf(byte, bit) < Pos(tree[p])
<1>1. tree[p].byte \in Nat /\ tree[p].bit \in 0 .. 7
  BY NodeFields
<1>2. ASSUME NEW x \in Nat, NEW y \in 0 .. 7
      PROVE  x > byte \/ (x = byte /\ y < bit) <=> 8 * byte + (7 - bit) < 8 * x + (7 - y)
  OBVIOUS
<1> QED
  BY <1>1, <1>2 DEF PartsBelow, Pos, PosOf

(* dict_set finds the place for the node that parts the new key from the    *)
(* one it is closest to.                                                    *)
LEMMA InsertFits ==
  ASSUME CritBitTree(tree), tree # NoTree, NEW k \in Keys, Get(k) = NoValue,
         NEW path, path = Closest(k), NEW near, near = tree[path].key,
         NEW byte, byte = DiffByte(k, near),
         NEW bit, bit = DiffBit(ByteAt(k, byte), ByteAt(near, byte)),
         NEW c, c = Up(path, Min({i \in 0 .. Len(path) :
                                    IsLeaf(Up(path, i)) \/ PartsBelow(Up(path, i), byte, bit)}))
  PROVE  /\ byte \in Nat /\ bit \in 0 .. 7
         /\ c \in DOMAIN tree
         /\ Fits(tree, c, k, PosOf(byte, bit))
<1> DEFINE N == PosOf(byte, bit)
           T == {i \in 0 .. Len(path) :
                   IsLeaf(Up(path, i)) \/ PartsBelow(Up(path, i), byte, bit)}
           x == Min(T)
<1>1. Shape(tree) /\ OnPath(tree) /\ Sharing(tree) /\ k \in Bytes
  BY KeysAreBytes DEF CritBitTree
<1>2. path \in LeafSet(tree) /\ Follows(tree, k, path)
  BY <1>1, ClosestIs
<1>3. /\ path \in DOMAIN tree /\ path \in Paths /\ Len(path) \in Nat
      /\ tree[path] \notin NodeRec /\ near \in Bytes
      /\ \A i \in 0 .. Len(path) - 1 : Up(path, i) \in DOMAIN tree /\ tree[Up(path, i)] \in NodeRec
      /\ \A i \in 0 .. Len(path) : Up(path, i) \in DOMAIN tree
  BY <1>1, <1>2, At, LeafFields DEF LeafSet
<1>4. near # k
  BY <1>2, LeafFields, TrieAssumption DEF Get, LeafSet
<1>5. /\ byte \in Nat /\ bit \in 0 .. 7
      /\ Bit(ByteAt(k, byte), bit) # Bit(ByteAt(near, byte), bit)
      /\ Agree(k, near, N)
  BY <1>1, <1>3, <1>4, FirstDifference
<1>6. N \in Nat /\ KeyBit(k, N) # KeyBit(near, N)
  <2>1. N \in Nat
    BY <1>5, Positions
  <2>2. KeyBit(k, N) = Bit(ByteAt(k, byte), bit) /\ KeyBit(near, N) = Bit(ByteAt(near, byte), bit)
    BY <1>5, KeyBitAt
  <2> QED
    BY <1>5, <2>1, <2>2
<1>7. \A i \in 0 .. Len(path) - 1 : IsLeaf(Up(path, i)) = FALSE
  BY <1>3, NodeFields DEF IsLeaf
<1>8. /\ x \in 0 .. Len(path)
      /\ IsLeaf(Up(path, x)) \/ PartsBelow(Up(path, x), byte, bit)
      /\ \A i \in 0 .. x - 1 : i \in 0 .. Len(path) - 1 /\ ~PartsBelow(Up(path, i), byte, bit)
  <2>1. Up(path, Len(path)) = path /\ Len(path) \in 0 .. Len(path)
    BY <1>3, UpAll
  <2>2. IsLeaf(path)
    BY <1>2, LeafFields DEF IsLeaf, LeafSet
  <2>3. Len(path) \in T /\ T \subseteq Nat
    BY <2>1, <2>2
  <2>4. T # {}
    BY <2>3
  <2>5. x \in T /\ \A y \in T : x <= y
    <3> HIDE DEF T
    <3> QED
      BY <2>3, <2>4, MinOf
  <2>6. /\ x \in 0 .. Len(path)
        /\ IsLeaf(Up(path, x)) \/ PartsBelow(Up(path, x), byte, bit)
    BY <2>5
  <2>7. ASSUME NEW i \in 0 .. x - 1
        PROVE  i \in 0 .. Len(path) - 1 /\ ~PartsBelow(Up(path, i), byte, bit)
    <3> HIDE DEF x
    <3>1. i \in 0 .. Len(path) - 1 /\ i \in 0 .. Len(path) /\ ~(x <= i)
      BY <1>3, <2>6
    <3>2. i \notin T
      BY <2>5, <3>1
    <3> QED
      BY <3>1, <3>2
  <2> QED
    BY <2>6, <2>7
<1>9. c = Up(path, x)
  OBVIOUS
<1> HIDE DEF T, x, N
<1>10. /\ c \in DOMAIN tree /\ c \in Paths /\ Len(c) = x /\ x \in Nat
       /\ \A i \in 1 .. x : c[i] = path[i]
  <2>1. x \in Nat /\ c \in DOMAIN tree
    BY <1>3, <1>8, <1>9
  <2>2. c \in Paths /\ Len(c) = x /\ \A i \in 1 .. x : c[i] = path[i]
    <3>1. path \in Paths /\ x \in 0 .. Len(path)
      BY <1>3, <1>8
    <3>2. /\ Up(path, x) \in Paths /\ Len(Up(path, x)) = x
          /\ \A i \in 1 .. x : Up(path, x)[i] = path[i]
      BY <3>1, UpFacts
    <3> QED
      BY <1>9, <3>2
  <2> QED
    BY <2>1, <2>2
<1>11. \A i \in 0 .. x : Up(c, i) = Up(path, i)
  BY <1>3, <1>8, <1>9, UpUp
<1>12. Follows(tree, k, c)
  <2>1. ASSUME NEW i \in 0 .. Len(c) - 1 PROVE c[i + 1] = KeyBit(k, Pos(tree[Up(c, i)]))
    <3>1. i \in 0 .. x /\ i + 1 \in 1 .. x /\ i \in 0 .. Len(path) - 1
      BY <1>3, <1>8, <1>10
    <3>2. path[i + 1] = KeyBit(k, Pos(tree[Up(path, i)]))
      BY <1>2, <3>1 DEF Follows
    <3> QED
      BY <1>10, <1>11, <3>1, <3>2
  <2> QED
    BY <2>1 DEF Follows
<1>13. ASSUME NEW i \in 0 .. Len(c) - 1 PROVE Pos(tree[Up(c, i)]) < N
  <2> DEFINE z == Up(path, i)
  <2>1. i \in 0 .. x /\ i \in 0 .. x - 1 /\ i \in 0 .. Len(path) - 1
    BY <1>3, <1>8, <1>10
  <2>2. Up(c, i) = z /\ tree[z] \in NodeRec /\ ~PartsBelow(z, byte, bit)
    BY <1>3, <1>8, <1>11, <2>1
  <2>3. Pos(tree[z]) \in Nat /\ ~(N < Pos(tree[z]))
    BY <1>5, <2>2, NodeFields, PartsBelowIs DEF N
  <2>4. KeyBit(k, Pos(tree[z])) = path[i + 1] /\ KeyBit(near, Pos(tree[z])) = path[i + 1]
    BY <1>1, <1>2, <2>1 DEF Follows, OnPath
  <2>5. Pos(tree[z]) # N
    BY <1>6, <2>4
  <2> QED
    BY <1>6, <2>2, <2>3, <2>5
<1>14. ASSUME tree[c] \in NodeRec PROVE N < Pos(tree[c])
  <2>1. PartsBelow(c, byte, bit)
    BY <1>8, <1>9, <1>14, NodeFields DEF IsLeaf
  <2> QED
    BY <1>5, <1>14, <2>1, PartsBelowIs DEF N
<1>15. IsPrefix(c, path)
  BY <1>3, <1>8, <1>9, <1>10, PrefixIsUp
<1>16. ASSUME NEW q \in LeafSet(tree), IsPrefix(c, q)
       PROVE  KeyBit(tree[q].key, N) # KeyBit(k, N) /\ Agree(k, tree[q].key, N)
  <2>1. q \in DOMAIN tree /\ q \in Paths /\ Len(q) \in Nat
    BY <1>1, At DEF LeafSet
  <2>2. x \in 0 .. Len(q) /\ Up(q, x) = c
    BY <1>10, <1>16, <2>1, PrefixIsUp
  <2>3. CASE tree[c] \notin NodeRec
    <3>1. ASSUME NEW r \in DOMAIN tree, r \in Paths, Len(r) \in Nat, x \in 0 .. Len(r), Up(r, x) = c
          PROVE  r = c
      <4>1. x \notin 0 .. Len(r) - 1
        BY <1>1, <2>3, <3>1, At
      <4>2. x = Len(r)
        BY <1>10, <3>1, <4>1
      <4> QED
        BY <3>1, <4>2, UpAll
    <3>2. q = path
      BY <1>3, <1>8, <1>9, <2>1, <2>2, <3>1
    <3> QED
      BY <1>5, <1>6, <3>2 DEF N
  <2>4. CASE tree[c] \in NodeRec
    <3>1. x # Len(q) \/ q = c
      BY <2>1, <2>2, UpAll
    <3>2. x # Len(path) \/ path = c
      BY <1>3, <1>9, UpAll
    <3>3. q # c /\ path # c
      BY <1>3, <2>1, <2>4, <1>1, At
    <3>4. x \in 0 .. Len(path) - 1 /\ x < Len(q)
      BY <1>3, <1>8, <1>10, <2>1, <2>2, <3>1, <3>2, <3>3
    <3>5. Agree(near, tree[q].key, Pos(tree[c]))
      BY <1>1, <1>2, <1>9, <2>2, <3>4 DEF Sharing
    <3>6. Pos(tree[c]) \in Nat /\ N < Pos(tree[c])
      BY <1>14, <2>4, NodeFields
    <3>7. N \in 0 .. Pos(tree[c]) - 1 /\ \A i \in 0 .. N - 1 : i \in 0 .. Pos(tree[c]) - 1
      <4>1. ASSUME NEW y \in Nat, N < y
            PROVE  N \in 0 .. y - 1 /\ \A i \in 0 .. N - 1 : i \in 0 .. y - 1
        BY <1>6, <4>1
      <4> QED
        BY <3>6, <4>1
    <3>8. KeyBit(near, N) = KeyBit(tree[q].key, N) /\ Agree(near, tree[q].key, N)
      BY <3>5, <3>7 DEF Agree
    <3>9. Agree(k, near, N)
      BY <1>5 DEF N
    <3>10. Agree(k, tree[q].key, N)
      BY <3>8, <3>9 DEF Agree
    <3> QED
      BY <1>6, <3>8, <3>10
  <2> QED
    BY <2>3, <2>4
<1>17. Fits(tree, c, k, N)
  BY <1>2, <1>12, <1>13, <1>14, <1>15, <1>16 DEF Fits
<1> QED
  BY <1>5, <1>10, <1>17 DEF N

LEMMA InsertIs ==
  ASSUME Shape(tree), NEW k, NEW v, NEW byte, NEW bit,
         NEW path, path = Closest(k),
         NEW c \in Paths, c = Up(path, Min({i \in 0 .. Len(path) :
                                    IsLeaf(Up(path, i)) \/ PartsBelow(Up(path, i), byte, bit)})),
         NEW d \in {0, 1}, d = Bit(ByteAt(k, byte), bit)
  PROVE  Insert(k, v, byte, bit) = Grown(tree, c, d, Node(byte, bit), Leaf(k, v))
<1> DEFINE u == Insert(k, v, byte, bit)
           e == 1 - d
           a == Append(c, d)
           K == Kept(tree, c)
           X == Shifted(tree, c, e)
           M == [p \in X |-> tree[Cut(p, Len(c))]]
           node == Node(byte, bit)
           leaf == Leaf(k, v)
           F == Restrict(tree, K)
           G == Assign(Assign(F, c, node), a, leaf)
<1>1. e \in {0, 1}
  OBVIOUS
<1>2. Moved(c, Append(c, e)) = M
  BY <1>1, MovedDown DEF Shifted
<1>3. DOMAIN tree \ Below(c) = K
  BY DEF Below, Kept
<1>4. u = Override(G, Moved(c, Append(c, e)))
  BY <1>3 DEF Insert
<1>5. DOMAIN M = X /\ \A p \in X : M[p] = tree[Cut(p, Len(c))]
  OBVIOUS
<1>6. DOMAIN F = K /\ \A p \in K : F[p] = tree[p]
  BY DEF Restrict
<1>7. /\ \A p \in K : p # c /\ p # a /\ p \notin X /\ Was(p, c) = p
      /\ \A p \in X : p # c /\ p # a /\ Was(p, c) = Cut(p, Len(c))
  <2>1. \A p \in K : p # c /\ p # a /\ ~IsPrefix(c, p) /\ Was(p, c) = p
    BY KeptAt
  <2>2. \A p \in X : p # c /\ p # a /\ IsPrefix(c, p) /\ Was(p, c) = Cut(p, Len(c))
    BY ShiftedAt
  <2> HIDE DEF K, X, a
  <2> QED
    BY <2>1, <2>2
<1> HIDE DEF M, F, K, X, node, leaf, a, u
<1>8. /\ DOMAIN G = (K \cup {c}) \cup {a}
      /\ G[a] = leaf
      /\ c # a => G[c] = node
      /\ \A p \in K : G[p] = tree[p]
  BY <1>6, <1>7 DEF Assign
<1>9. c # a
  BY ChildBelow DEF a
<1> HIDE DEF G
<1>10. u = [p \in DOMAIN G \cup DOMAIN M |-> IF p \in DOMAIN M THEN M[p] ELSE G[p]]
  BY <1>2, <1>4 DEF Override
<1>11. DOMAIN G \cup DOMAIN M = K \cup X \cup {c, a}
  BY <1>5, <1>8
<1>12. \A p \in K \cup X \cup {c, a} :
         (IF p \in DOMAIN M THEN M[p] ELSE G[p]) =
         (IF p = c THEN node ELSE IF p = a THEN leaf ELSE tree[Was(p, c)])
  BY <1>5, <1>7, <1>8, <1>9
<1>13. u = [p \in K \cup X \cup {c, a} |->
              IF p = c THEN node ELSE IF p = a THEN leaf ELSE tree[Was(p, c)]]
  BY <1>10, <1>11, <1>12
<1> QED
  BY <1>13 DEF Grown, K, X, a, u, node, leaf

(* dict_set of a new key adds that key and changes no other. *)
LEMMA InsertStep ==
  ASSUME CritBitTree(tree), tree # NoTree, NEW k \in Keys, NEW v \in Values, Get(k) = NoValue,
         NEW near, near = tree[Closest(k)].key,
         NEW byte, byte = DiffByte(k, near),
         NEW bit, bit = DiffBit(ByteAt(k, byte), ByteAt(near, byte))
  PROVE  /\ CritBitTree(Insert(k, v, byte, bit))
         /\ Contents(Insert(k, v, byte, bit)) = Assign(Contents(tree), k, v)
<1> DEFINE u == Insert(k, v, byte, bit)
           path == Closest(k)
           c == Up(path, Min({i \in 0 .. Len(path) :
                                IsLeaf(Up(path, i)) \/ PartsBelow(Up(path, i), byte, bit)}))
           d == Bit(ByteAt(k, byte), bit)
           N == PosOf(byte, bit)
           node == Node(byte, bit)
           leaf == Leaf(k, v)
           w == Grown(tree, c, d, node, leaf)
<1>1. Shape(tree) /\ k \in Bytes
  BY KeysAreBytes DEF CritBitTree
<1>2. byte \in Nat /\ bit \in 0 .. 7 /\ c \in DOMAIN tree /\ Fits(tree, c, k, N)
  <2>1. near = tree[path].key
    OBVIOUS
  <2> HIDE DEF path, c
  <2>2. path = Closest(k)
    BY DEF path
  <2>3. c = Up(path, Min({i \in 0 .. Len(path) :
                                IsLeaf(Up(path, i)) \/ PartsBelow(Up(path, i), byte, bit)}))
    BY DEF c
  <2> QED
    BY <2>1, <2>2, <2>3, InsertFits
<1>3. d = KeyBit(k, N) /\ d \in {0, 1} /\ c \in Paths
  <2>1. d = KeyBit(k, N) /\ N \in Nat
    <3>1. N \in Nat
      BY <1>2, Positions
    <3>2. d = KeyBit(k, N)
      BY <1>2, KeyBitAt
    <3> QED
      BY <3>1, <3>2
  <2>2. c \in Paths
    BY <1>1, <1>2, At
  <2> HIDE DEF d, N, c
  <2> QED
    BY <1>1, <2>1, <2>2, KeyBitType
<1>4. u = w
  <2>1. path = Closest(k) /\ d = Bit(ByteAt(k, byte), bit)
    OBVIOUS
  <2>2. c = Up(path, Min({i \in 0 .. Len(path) :
                                IsLeaf(Up(path, i)) \/ PartsBelow(Up(path, i), byte, bit)}))
    OBVIOUS
  <2> HIDE DEF path, c, d
  <2> QED
    BY <1>1, <1>3, <2>1, <2>2, InsertIs
<1>5. node \in NodeRec /\ leaf \in LeafRec /\ leaf.key = k /\ leaf.val = v /\ Pos(node) = N
  BY <1>2 DEF Node, Leaf, NodeRec, LeafRec, Pos
<1> HIDE DEF c, d, node, leaf, N, path
<1>6. CritBitTree(w)
  BY <1>2, <1>3, <1>5, GrownTree
<1>7. /\ Append(c, d) \in LeafSet(w) /\ w[Append(c, d)] = leaf
      /\ \A p \in LeafSet(w) : p # Append(c, d) =>
           Was(p, c) \in LeafSet(tree) /\ w[p] = tree[Was(p, c)]
      /\ \A q \in LeafSet(tree) : \E p \in LeafSet(w) : w[p] = tree[q]
  BY <1>1, <1>2, <1>3, <1>5, GrownLeaves
<1> HIDE DEF w, u
<1>8. ASSUME NEW p \in LeafSet(w), w[p].key # k PROVE \E q \in LeafSet(tree) : tree[q] = w[p]
  BY <1>5, <1>7, <1>8
<1>9. \E p \in LeafSet(w) : w[p].key = k /\ w[p].val = v
  BY <1>5, <1>7
<1>10. Contents(w) = Assign(Contents(tree), k, v)
  BY <1>6, <1>7, <1>8, <1>9, ContentsMore
<1> QED
  BY <1>4, <1>6, <1>10 DEF u

(* dict_set of the first key. *)
LEMMA FirstStep ==
  ASSUME NEW k \in Keys, NEW v \in Values
  PROVE  /\ CritBitTree(Single(Root, Leaf(k, v)))
         /\ Contents(Single(Root, Leaf(k, v))) = Assign(Contents(NoTree), k, v)
<1> DEFINE leaf == Leaf(k, v)
           u == Single(Root, leaf)
<1>1. leaf \in LeafRec /\ leaf.key = k /\ leaf.val = v /\ leaf \notin NodeRec
  <2>1. leaf \in LeafRec /\ leaf.key = k /\ leaf.val = v
    BY DEF Leaf, LeafRec
  <2> QED
    BY <2>1, LeafFields
<1> HIDE DEF leaf
<1>2. DOMAIN u = {Root} /\ u[Root] = leaf /\ u = [p \in DOMAIN u |-> u[p]]
  BY DEF Single
<1>3. Root \in Paths /\ Len(Root) = 0
  BY DEF Root, Paths
<1> HIDE DEF u
<1>4. \A p \in DOMAIN u : p = Root /\ u[p] = leaf /\ \A i \in 0 .. Len(p) - 1 : FALSE
  <2>1. \A i \in 0 .. Len(Root) - 1 : FALSE
    BY <1>3
  <2> QED
    BY <1>2, <2>1
<1>5. Shape(u)
  <2>1. u \in [DOMAIN u -> LeafRec \cup NodeRec]
    BY <1>1, <1>2, <1>4
  <2>2. IsFiniteSet(DOMAIN u)
    BY <1>2, FS_Singleton
  <2>3. DOMAIN u \subseteq Paths
    BY <1>3, <1>4
  <2> QED
    BY <1>1, <1>4, <2>1, <2>2, <2>3 DEF Shape
<1>6. \A p \in LeafSet(u) : p \in DOMAIN u
  BY DEF LeafSet
<1>7. Ordered(u) /\ OnPath(u) /\ Sharing(u)
  BY <1>1, <1>4, <1>6 DEF Ordered, OnPath, Sharing, Follows
<1>8. CritBitTree(u)
  BY <1>5, <1>7 DEF CritBitTree
<1>9. Root \in LeafSet(u)
  BY <1>1, <1>2 DEF LeafSet
<1>10. Contents(u) = Assign(Contents(NoTree), k, v)
  <2>1. \A p \in LeafSet(u) : u[p].key = k
    BY <1>1, <1>4, <1>6
  <2>2. \E p \in LeafSet(u) : u[p].key = k /\ u[p].val = v
    BY <1>1, <1>2, <1>9
  <2>3. \A q \in LeafSet(NoTree) : FALSE
    BY EmptyIsTree
  <2> QED
    BY <1>8, <2>1, <2>2, <2>3, EmptyIsTree, ContentsMore
<1> QED
  BY <1>8, <1>10 DEF u, leaf

(* dict_set of a key that is found replaces its value. *)
LEMMA OverwriteStep ==
  ASSUME CritBitTree(tree), NEW k \in Keys, NEW v \in Values, Get(k) # NoValue
  PROVE  LET u == [tree EXCEPT ![Closest(k)].val = v]
         IN  CritBitTree(u) /\ Contents(u) = Assign(Contents(tree), k, v)
<1> DEFINE c == Closest(k)
           u == [tree EXCEPT ![c].val = v]
<1>1. Shape(tree) /\ Ordered(tree) /\ OnPath(tree) /\ Sharing(tree)
  BY DEF CritBitTree
<1>2. c \in LeafSet(tree) /\ tree[c].key = k
  BY GetIs
<1> HIDE DEF c
<1>3. c \in DOMAIN tree /\ tree[c] \in LeafRec
  BY <1>2 DEF LeafSet
<1>4. /\ DOMAIN u = DOMAIN tree
      /\ \A p \in DOMAIN tree : p # c => u[p] = tree[p]
      /\ u[c] = [tree[c] EXCEPT !.val = v]
      /\ u = [p \in DOMAIN u |-> u[p]]
  <2>1. tree = [p \in DOMAIN tree |-> tree[p]]
    BY <1>1 DEF Shape
  <2> QED
    BY <1>3, <2>1
<1>5. u[c] \in LeafRec /\ u[c].key = k /\ u[c].val = v
  BY <1>2, <1>3, <1>4 DEF LeafRec
<1> HIDE DEF u
<1>6. /\ LeafSet(u) = LeafSet(tree)
      /\ \A p \in LeafSet(tree) : u[p].key = tree[p].key
      /\ \A p \in DOMAIN tree : u[p] \in NodeRec <=> tree[p] \in NodeRec
      /\ \A p \in DOMAIN tree : tree[p] \in NodeRec => u[p] = tree[p]
      /\ \A p \in LeafSet(tree) : p \in DOMAIN tree
  BY <1>2, <1>3, <1>4, <1>5, LeafFields DEF LeafSet
<1>7. Shape(u)
  <2>1. u \in [DOMAIN u -> LeafRec \cup NodeRec]
    <3>1. \A p \in DOMAIN tree : tree[p] \in LeafRec \cup NodeRec
      BY <1>1 DEF Shape
    <3>2. \A p \in DOMAIN u : u[p] \in LeafRec \cup NodeRec
      BY <1>4, <1>5, <3>1
    <3> QED
      BY <1>4, <3>2
  <2>2. /\ DOMAIN u \subseteq Paths /\ IsFiniteSet(DOMAIN u)
        /\ \A p \in DOMAIN tree : \A i \in 0 .. Len(p) - 1 :
             Up(p, i) \in DOMAIN tree /\ tree[Up(p, i)] \in NodeRec
        /\ \A p \in DOMAIN tree : tree[p] \in NodeRec =>
             \A x \in {0, 1} : Append(p, x) \in DOMAIN tree
    BY <1>1, <1>4 DEF Shape
  <2>3. \A p \in DOMAIN u : \A i \in 0 .. Len(p) - 1 :
          Up(p, i) \in DOMAIN u /\ u[Up(p, i)] \in NodeRec
    BY <1>4, <1>6, <2>2
  <2>4. \A p \in DOMAIN u : u[p] \in NodeRec => \A x \in {0, 1} : Append(p, x) \in DOMAIN u
    BY <1>4, <1>6, <2>2
  <2> QED
    BY <2>1, <2>2, <2>3, <2>4 DEF Shape
<1>8. \A p \in DOMAIN tree : \A i \in 0 .. Len(p) - 1 : u[Up(p, i)] = tree[Up(p, i)]
  <2>1. \A p \in DOMAIN tree : \A i \in 0 .. Len(p) - 1 :
          Up(p, i) \in DOMAIN tree /\ tree[Up(p, i)] \in NodeRec
    BY <1>1, At
  <2> QED
    BY <1>6, <2>1
<1>9. Ordered(u)
  BY <1>1, <1>4, <1>6, <1>8 DEF Ordered
<1>10. OnPath(u)
  BY <1>1, <1>6, <1>8 DEF OnPath, Follows
<1>11. Sharing(u)
  BY <1>1, <1>6, <1>8 DEF Sharing
<1>12. CritBitTree(u)
  BY <1>7, <1>9, <1>10, <1>11 DEF CritBitTree
<1>13. \A p \in LeafSet(u) : u[p].key # k => \E q \in LeafSet(tree) : tree[q] = u[p]
  BY <1>4, <1>5, <1>6
<1>14. \A q \in LeafSet(tree) : tree[q].key # k => \E p \in LeafSet(u) : u[p] = tree[q]
  BY <1>2, <1>4, <1>6
<1>15. \E p \in LeafSet(u) : u[p].key = k /\ u[p].val = v
  BY <1>2, <1>5, <1>6
<1>16. Contents(u) = Assign(Contents(tree), k, v)
  BY <1>12, <1>13, <1>14, <1>15, ContentsMore
<1> QED
  BY <1>12, <1>16 DEF u, c

-----------------------------------------------------------------------------
(* The references.                                                          *)

(* The keys with a value. *)
Holders(m, v) == {k \in DOMAIN m : m[k] = v}

RefsOf(m) == [v \in Values |-> Cardinality(Holders(m, v))]

LEMMA HoldersCount ==
  ASSUME NEW m, DOMAIN m \subseteq Keys, NEW v
  PROVE  /\ IsFiniteSet(DOMAIN m) /\ Cardinality(DOMAIN m) \in 0 .. Cardinality(Keys)
         /\ IsFiniteSet(Holders(m, v)) /\ Cardinality(Holders(m, v)) \in 0 .. Cardinality(Keys)
<1>1. IsFiniteSet(Keys) /\ Holders(m, v) \subseteq Keys
  BY TrieAssumption DEF Holders
<1>2. Cardinality(Keys) \in Nat
  BY <1>1, FS_CardinalityType
<1>3. ASSUME NEW S, S \subseteq Keys
      PROVE  IsFiniteSet(S) /\ Cardinality(S) \in 0 .. Cardinality(Keys)
  <2>1. IsFiniteSet(S) /\ Cardinality(S) <= Cardinality(Keys)
    BY <1>1, <1>3, FS_Subset
  <2>2. Cardinality(S) \in Nat
    BY <2>1, FS_CardinalityType
  <2> QED
    BY <1>2, <2>1, <2>2
<1> QED
  BY <1>1, <1>3

(* A key more, a key less. *)
LEMMA OneMore ==
  ASSUME NEW m, DOMAIN m \subseteq Keys, NEW k \in Keys, k \notin DOMAIN m, NEW v \in Values
  PROVE  LET n == Assign(m, k, v)
         IN  /\ Cardinality(DOMAIN n) = Cardinality(DOMAIN m) + 1
             /\ RefsOf(n) = [RefsOf(m) EXCEPT ![v] = @ + 1]
<1> DEFINE n == Assign(m, k, v)
<1>1. DOMAIN n = DOMAIN m \cup {k} /\ n[k] = v /\ \A x \in DOMAIN m : n[x] = m[x]
  BY DEF Assign
<1> HIDE DEF n
<1>2. Cardinality(DOMAIN n) = Cardinality(DOMAIN m) + 1
  BY <1>1, HoldersCount, FS_AddElement
<1>3. /\ Holders(n, v) = Holders(m, v) \cup {k} /\ k \notin Holders(m, v)
      /\ \A w : w # v => Holders(n, w) = Holders(m, w)
  BY <1>1 DEF Holders
<1>4. Cardinality(Holders(n, v)) = Cardinality(Holders(m, v)) + 1
  BY <1>3, HoldersCount, FS_AddElement
<1>5. RefsOf(n) = [RefsOf(m) EXCEPT ![v] = @ + 1]
  BY <1>3, <1>4 DEF RefsOf
<1> QED
  BY <1>2, <1>5 DEF n

LEMMA OneLess ==
  ASSUME NEW m, DOMAIN m \subseteq Keys, NEW k \in DOMAIN m, m[k] \in Values
  PROVE  LET n == Without(m, k)
         IN  /\ Cardinality(DOMAIN n) = Cardinality(DOMAIN m) - 1
             /\ RefsOf(n) = [RefsOf(m) EXCEPT ![m[k]] = @ - 1]
<1> DEFINE n == Without(m, k)
           v == m[k]
<1>1. DOMAIN n = DOMAIN m \ {k} /\ \A x \in DOMAIN n : n[x] = m[x]
  BY DEF Without, Restrict
<1> HIDE DEF n
<1>2. Cardinality(DOMAIN n) = Cardinality(DOMAIN m) - 1
  BY <1>1, HoldersCount, FS_RemoveElement
<1>3. /\ Holders(n, v) = Holders(m, v) \ {k} /\ k \in Holders(m, v)
      /\ \A w : w # v => Holders(n, w) = Holders(m, w)
  BY <1>1 DEF Holders
<1>4. Cardinality(Holders(n, v)) = Cardinality(Holders(m, v)) - 1
  BY <1>3, HoldersCount, FS_RemoveElement
<1>5. RefsOf(n) = [RefsOf(m) EXCEPT ![v] = @ - 1]
  BY <1>3, <1>4 DEF RefsOf
<1> QED
  BY <1>2, <1>5 DEF n

LEMMA Changed ==
  ASSUME NEW m, DOMAIN m \subseteq Keys, NEW k \in DOMAIN m, m[k] \in Values, NEW v \in Values
  PROVE  LET n == Assign(m, k, v)
         IN  /\ DOMAIN n = DOMAIN m
             /\ RefsOf(n) = [[RefsOf(m) EXCEPT ![m[k]] = @ - 1] EXCEPT ![v] = @ + 1]
<1> DEFINE n == Assign(m, k, v)
           w == m[k]
<1>1. /\ DOMAIN n = DOMAIN m /\ n[k] = v
      /\ \A x \in DOMAIN m : x # k => n[x] = m[x]
  BY DEF Assign
<1> HIDE DEF n
<1>2. \A x \in Values : Cardinality(Holders(m, x)) \in Nat
  BY HoldersCount
<1>3. CASE v = w
  <2>1. \A x : Holders(n, x) = Holders(m, x)
    BY <1>1, <1>3 DEF Holders
  <2>2. RefsOf(n) = RefsOf(m)
    BY <2>1 DEF RefsOf
  <2>3. RefsOf(m) = [[RefsOf(m) EXCEPT ![w] = @ - 1] EXCEPT ![v] = @ + 1]
    BY <1>2, <1>3 DEF RefsOf
  <2> QED
    BY <1>1, <2>2, <2>3 DEF n
<1>4. CASE v # w
  <2>1. /\ Holders(n, v) = Holders(m, v) \cup {k} /\ k \notin Holders(m, v)
        /\ Holders(n, w) = Holders(m, w) \ {k} /\ k \in Holders(m, w)
        /\ \A x : x # v /\ x # w => Holders(n, x) = Holders(m, x)
    BY <1>1, <1>4 DEF Holders
  <2>2. /\ Cardinality(Holders(n, v)) = Cardinality(Holders(m, v)) + 1
        /\ Cardinality(Holders(n, w)) = Cardinality(Holders(m, w)) - 1
    <3>1. IsFiniteSet(Holders(m, v)) /\ IsFiniteSet(Holders(m, w))
      BY HoldersCount
    <3>2. Cardinality(Holders(n, v)) = Cardinality(Holders(m, v)) + 1
      BY <2>1, <3>1, FS_AddElement
    <3>3. Cardinality(Holders(n, w)) = Cardinality(Holders(m, w)) - 1
      BY <2>1, <3>1, FS_RemoveElement
    <3> QED
      BY <3>2, <3>3
  <2>3. RefsOf(n) = [[RefsOf(m) EXCEPT ![w] = @ - 1] EXCEPT ![v] = @ + 1]
    BY <1>4, <2>1, <2>2 DEF RefsOf
  <2> QED
    BY <1>1, <2>3 DEF n
<1> QED
  BY <1>3, <1>4

(* There are as many leaves with a value as keys. *)
LEMMA LeavesCount ==
  ASSUME CritBitTree(tree), NEW v
  PROVE  Cardinality({p \in Leaves : tree[p].val = v}) = Cardinality(Holders(Contents(tree), v))
<1> DEFINE A == {p \in Leaves : tree[p].val = v}
           B == Holders(Contents(tree), v)
           f == [p \in A |-> tree[p].key]
<1>1. Shape(tree)
  BY DEF CritBitTree
<1>2. /\ DOMAIN Contents(tree) = {tree[p].key : p \in LeafSet(tree)}
      /\ DOMAIN Contents(tree) \subseteq Keys
      /\ \A p \in LeafSet(tree) : Contents(tree)[tree[p].key] = tree[p].val
  BY ContentsAt
<1>3. A = {p \in LeafSet(tree) : tree[p].val = v}
  BY <1>1, LeavesAre
<1>4. /\ \A p \in A : p \in LeafSet(tree) /\ tree[p].key \in B
      /\ \A k \in B : \E p \in A : tree[p].key = k
  <2> HIDE DEF A
  <2>1. \A p \in A : p \in LeafSet(tree) /\ tree[p].val = v
    BY <1>3
  <2>2. \A p \in A : tree[p].key \in B
    BY <1>2, <2>1 DEF Holders
  <2>3. ASSUME NEW k \in B PROVE \E p \in A : tree[p].key = k
    <3>1. k \in DOMAIN Contents(tree) /\ Contents(tree)[k] = v
      BY DEF Holders
    <3>2. PICK p \in LeafSet(tree) : k = tree[p].key
      BY <1>2, <3>1
    <3> QED
      BY <1>2, <1>3, <3>1, <3>2
  <2> QED
    BY <2>1, <2>2, <2>3
<1> HIDE DEF A, B
<1>5. f \in [A -> B] /\ DOMAIN f = A /\ \A p \in A : f[p] = tree[p].key
  BY <1>4
<1>6. ASSUME NEW p \in A, NEW q \in A, f[p] = f[q] PROVE p = q
  BY <1>4, <1>5, <1>6, DistinctKeys
<1>7. \A k \in B : \E p \in A : f[p] = k
  BY <1>4, <1>5
<1> HIDE DEF f
<1>8. f \in Injection(A, B)
  BY <1>5, <1>6 DEF Injection, IsInjective
<1>9. f \in Surjection(A, B)
  BY <1>5, <1>7 DEF Surjection
<1>10. IsFiniteSet(B)
  BY <1>2, HoldersCount DEF B
<1>11. Cardinality(A) = Cardinality(B)
  BY <1>8, <1>9, <1>10, FS_Injection
<1> QED
  BY <1>11 DEF A, B

-----------------------------------------------------------------------------
(* The inductive invariant of the dictionary: a crit-bit tree, with the     *)
(* size and the references of the map that it stands for.                   *)
DictInv ==
  /\ CritBitTree(tree)
  /\ size = Cardinality(DOMAIN Contents(tree))
  /\ refs = RefsOf(Contents(tree))

LEMMA InitDict ==
  ASSUME TrieInit
  PROVE  DictInv
<1>1. tree = NoTree /\ size = 0 /\ refs = [v \in Values |-> 0]
  BY DEF TrieInit
<1>2. CritBitTree(tree) /\ Contents(tree) = << >>
  BY <1>1, EmptyIsTree
<1>3. DOMAIN << >> = {}
  OBVIOUS
<1>4. Cardinality({}) = 0
  BY FS_EmptySet
<1>5. \A v : Holders(<< >>, v) = {}
  BY <1>3 DEF Holders
<1>6. RefsOf(<< >>) = [v \in Values |-> 0]
  BY <1>4, <1>5 DEF RefsOf
<1> QED
  BY <1>1, <1>2, <1>3, <1>4, <1>6 DEF DictInv

(* What the commands do to the tree and to the map. *)
LEMMA OverwriteMaps ==
  ASSUME DictInv, NEW k \in Keys, NEW v \in Values, RsetOverwrite(k, v)
  PROVE  DictInv' /\ Contents(tree') = Assign(Contents(tree), k, v)
<1> DEFINE m == Contents(tree)
<1>1. CritBitTree(tree)
  BY DEF DictInv
<1>2. CritBitTree(tree') /\ Contents(tree') = Assign(m, k, v)
  BY <1>1, OverwriteStep DEF RsetOverwrite
<1>3. /\ DOMAIN m \subseteq Keys /\ k \in DOMAIN m
      /\ m[k] = Get(k) /\ m[k] \in Values
  <2>1. /\ Closest(k) \in LeafSet(tree) /\ tree[Closest(k)].key = k
        /\ Get(k) = tree[Closest(k)].val /\ Get(k) \in Values
    BY <1>1, GetIs DEF RsetOverwrite
  <2> QED
    BY <1>1, <2>1, ContentsAt
<1>4. refs' = [[RefsOf(m) EXCEPT ![m[k]] = @ - 1] EXCEPT ![v] = @ + 1] /\ size' = size
  BY <1>3 DEF RsetOverwrite, DictInv
<1> HIDE DEF m
<1>5. DOMAIN Assign(m, k, v) = DOMAIN m /\ RefsOf(Assign(m, k, v)) = refs'
  BY <1>3, <1>4, Changed
<1>6. size' = Cardinality(DOMAIN Contents(tree')) /\ refs' = RefsOf(Contents(tree'))
  BY <1>2, <1>4, <1>5 DEF DictInv, m
<1> QED
  BY <1>2, <1>6 DEF DictInv, m

LEMMA NewMaps ==
  ASSUME DictInv, NEW k \in Keys, NEW v \in Values, RsetNew(k, v)
  PROVE  DictInv' /\ Contents(tree') = Assign(Contents(tree), k, v)
<1> DEFINE m == Contents(tree)
<1>1. CritBitTree(tree) /\ Get(k) = NoValue
  BY DEF DictInv, RsetNew
<1>2. CritBitTree(tree') /\ Contents(tree') = Assign(m, k, v)
  <2>1. CASE tree = NoTree
    <3>1. tree' = Single(Root, Leaf(k, v))
      BY <2>1 DEF RsetNew
    <3> QED
      BY <2>1, <3>1, FirstStep
  <2>2. CASE tree # NoTree
    <3> DEFINE near == tree[Closest(k)].key
               byte == DiffByte(k, near)
               bit  == DiffBit(ByteAt(k, byte), ByteAt(near, byte))
    <3>1. tree' = Insert(k, v, byte, bit)
      BY <2>2 DEF RsetNew
    <3>2. near = tree[Closest(k)].key
      OBVIOUS
    <3> HIDE DEF near
    <3>3. byte = DiffByte(k, near)
      OBVIOUS
    <3> HIDE DEF byte
    <3>4. bit = DiffBit(ByteAt(k, byte), ByteAt(near, byte))
      OBVIOUS
    <3> HIDE DEF bit
    <3>5. CritBitTree(Insert(k, v, byte, bit)) /\ Contents(Insert(k, v, byte, bit)) = Assign(m, k, v)
      BY <1>1, <2>2, <3>2, <3>3, <3>4, InsertStep
    <3> QED
      BY <3>1, <3>5
  <2> QED
    BY <2>1, <2>2
<1>3. DOMAIN m \subseteq Keys /\ k \notin DOMAIN m
  <2>1. DOMAIN m \subseteq Keys /\ DOMAIN m = {tree[p].key : p \in LeafSet(tree)}
    BY <1>1, ContentsAt
  <2>2. ASSUME NEW p \in LeafSet(tree), k = tree[p].key PROVE FALSE
    <3>1. Get(k) = tree[p].val /\ tree[p].val \in Values
      BY <1>1, <2>2, GetIs, LeafFields DEF LeafSet
    <3> QED
      BY <1>1, <3>1, TrieAssumption
  <2> HIDE DEF m
  <2> QED
    BY <2>1, <2>2
<1>4. refs' = [RefsOf(m) EXCEPT ![v] = @ + 1] /\ size' = Cardinality(DOMAIN m) + 1
  BY DEF RsetNew, DictInv
<1> HIDE DEF m
<1>5. /\ Cardinality(DOMAIN Assign(m, k, v)) = size'
      /\ RefsOf(Assign(m, k, v)) = refs'
  BY <1>3, <1>4, OneMore
<1>6. size' = Cardinality(DOMAIN Contents(tree')) /\ refs' = RefsOf(Contents(tree'))
  BY <1>2, <1>5
<1> QED
  BY <1>2, <1>6 DEF DictInv, m

LEMMA RdelMaps ==
  ASSUME DictInv, NEW k \in Keys, Rdel(k)
  PROVE  /\ DictInv' /\ Contents(tree') = Without(Contents(tree), k)
         /\ k \in DOMAIN Contents(tree)
<1> DEFINE m == Contents(tree)
<1>1. CritBitTree(tree) /\ Get(k) # NoValue /\ tree' = Delete(k)
  BY DEF DictInv, Rdel
<1>2. CritBitTree(tree') /\ Contents(tree') = Without(m, k)
  BY <1>1, DeleteStep
<1>3. /\ DOMAIN m \subseteq Keys /\ k \in DOMAIN m
      /\ m[k] = Get(k) /\ m[k] \in Values
  <2>1. /\ Closest(k) \in LeafSet(tree) /\ tree[Closest(k)].key = k
        /\ Get(k) = tree[Closest(k)].val /\ Get(k) \in Values
    BY <1>1, GetIs
  <2> QED
    BY <1>1, <2>1, ContentsAt
<1>4. refs' = [RefsOf(m) EXCEPT ![m[k]] = @ - 1] /\ size' = Cardinality(DOMAIN m) - 1
  BY <1>3 DEF Rdel, DictInv
<1> HIDE DEF m
<1>5. /\ Cardinality(DOMAIN Without(m, k)) = size'
      /\ RefsOf(Without(m, k)) = refs'
  BY <1>3, <1>4, OneLess
<1>6. size' = Cardinality(DOMAIN Contents(tree')) /\ refs' = RefsOf(Contents(tree'))
  BY <1>2, <1>5
<1> QED
  BY <1>2, <1>3, <1>6 DEF DictInv, m

LEMMA ClearMaps ==
  ASSUME DictInv, Clear
  PROVE  DictInv' /\ Contents(tree') = << >>
<1>1. CritBitTree(tree) /\ refs = RefsOf(Contents(tree)) /\ tree' = NoTree /\ size' = 0
  BY DEF DictInv, Clear
<1>2. CritBitTree(tree') /\ Contents(tree') = << >>
  BY <1>1, EmptyIsTree
<1>3. DOMAIN << >> = {} /\ Cardinality({}) = 0
  BY FS_EmptySet
<1>4. ASSUME NEW v \in Values
      PROVE  refs[v] - Cardinality({p \in Leaves : tree[p].val = v}) = 0
  <2>1. refs[v] = Cardinality(Holders(Contents(tree), v))
    BY <1>1 DEF RefsOf
  <2>2. Cardinality({p \in Leaves : tree[p].val = v}) = Cardinality(Holders(Contents(tree), v))
    BY <1>1, LeavesCount
  <2>3. Cardinality(Holders(Contents(tree), v)) \in Nat
    <3> DEFINE m == Contents(tree)
    <3>1. DOMAIN m \subseteq Keys
      BY <1>1, ContentsAt
    <3> HIDE DEF m
    <3>2. Cardinality(Holders(m, v)) \in Nat
      BY <3>1, HoldersCount
    <3> QED
      BY <3>2 DEF m
  <2> QED
    BY <2>1, <2>2, <2>3
<1>5. refs' = [v \in Values |-> 0]
  BY <1>4 DEF Clear
<1>6. RefsOf(<< >>) = [v \in Values |-> 0]
  <2>1. \A v : Holders(<< >>, v) = {}
    BY <1>3 DEF Holders
  <2> QED
    BY <1>3, <2>1 DEF RefsOf
<1>7. size' = Cardinality(DOMAIN Contents(tree')) /\ refs' = RefsOf(Contents(tree'))
  BY <1>1, <1>2, <1>3, <1>5, <1>6
<1> QED
  BY <1>2, <1>7 DEF DictInv

LEMMA DictKept ==
  ASSUME DictInv, UNCHANGED dictVars
  PROVE  DictInv' /\ Contents(tree') = Contents(tree)
  BY DEF DictInv, dictVars

LEMMA NextDict ==
  ASSUME DictInv, [TrieNext]_trieVars
  PROVE  DictInv'
<1>1. ASSUME NEW k \in Keys, NEW v \in Values, RsetOverwrite(k, v) PROVE DictInv'
  BY <1>1, OverwriteMaps
<1>2. ASSUME NEW k \in Keys, NEW v \in Values, RsetNew(k, v) PROVE DictInv'
  BY <1>2, NewMaps
<1>3. ASSUME NEW k \in Keys, Rdel(k) PROVE DictInv'
  BY <1>3, RdelMaps
<1>4. ASSUME NEW k \in Keys, RdelAbsent(k) PROVE DictInv'
  BY <1>4, DictKept DEF RdelAbsent
<1>5. CASE Clear
  BY <1>5, ClearMaps
<1>6. CASE Rgetall
  BY <1>6, DictKept DEF Rgetall
<1>7. ASSUME NEW p \in Asked, Rpget(p) PROVE DictInv'
  BY <1>7, DictKept DEF Rpget
<1>8. ASSUME NEW p \in Asked, RpgetAbsent(p) PROVE DictInv'
  BY <1>8, DictKept DEF RpgetAbsent
<1>9. CASE IterNext \/ ListDone
  BY <1>9, DictKept DEF IterNext, ListDone
<1>10. CASE UNCHANGED trieVars
  BY <1>10, DictKept DEF trieVars
<1> QED
  BY <1>1, <1>2, <1>3, <1>4, <1>5, <1>6, <1>7, <1>8, <1>9, <1>10 DEF TrieNext

(* The trie is a crit-bit tree all the time. *)
THEOREM AlwaysDictInv == TrieSpec => []DictInv
<1>1. TrieInit => DictInv
  BY InitDict
<1>2. DictInv /\ [TrieNext]_trieVars => DictInv'
  BY NextDict
<1> QED
  BY <1>1, <1>2, PTL DEF TrieSpec

-----------------------------------------------------------------------------
(* What the invariant says of the dictionary.                               *)

LEMMA SizeFollows ==
  ASSUME DictInv
  PROVE  SizeExact
  BY ContentIs DEF SizeExact, DictInv

LEMMA ReferencesFollow ==
  ASSUME DictInv
  PROVE  ValuesReferenced
<1>1. content = Contents(tree) /\ refs = RefsOf(Contents(tree))
  BY ContentIs DEF DictInv
<1>2. \A v \in Values : refs[v] = Cardinality(Holders(content, v))
  BY <1>1 DEF RefsOf
<1> QED
  BY <1>2 DEF ValuesReferenced, Holders

(* rlen, and the test for an empty tree, count the keys that can be found. *)
THEOREM SizeIsExact == TrieSpec => []SizeExact
<1>1. DictInv => SizeExact
  BY SizeFollows
<1> QED
  BY <1>1, AlwaysDictInv, PTL

(* Every value is referred to once for each key that has it. *)
THEOREM ReferencesAreExact == TrieSpec => []ValuesReferenced
<1>1. DictInv => ValuesReferenced
  BY ReferencesFollow
<1> QED
  BY <1>1, AlwaysDictInv, PTL

(* The variables outside the dictionary. *)
RestInv ==
  /\ prefix \in Asked
  /\ pc \in {"idle", "list", "no key", "no prefix"}

LEMMA NextRest ==
  ASSUME RestInv, [TrieNext]_trieVars
  PROVE  RestInv'
<1> USE DEF RestInv
<1>1. ASSUME NEW k \in Keys, NEW v \in Values, RsetOverwrite(k, v) PROVE RestInv'
  BY <1>1 DEF RsetOverwrite, iterVars
<1>2. ASSUME NEW k \in Keys, NEW v \in Values, RsetNew(k, v) PROVE RestInv'
  BY <1>2 DEF RsetNew, iterVars
<1>3. ASSUME NEW k \in Keys, Rdel(k) PROVE RestInv'
  BY <1>3 DEF Rdel, iterVars
<1>4. ASSUME NEW k \in Keys, RdelAbsent(k) PROVE RestInv'
  BY <1>4 DEF RdelAbsent, iterVars
<1>5. CASE Clear
  BY <1>5 DEF Clear, iterVars
<1>6. CASE Rgetall
  BY <1>6, TrieAssumption DEF Rgetall
<1>7. ASSUME NEW p \in Asked, Rpget(p) PROVE RestInv'
  BY <1>7 DEF Rpget
<1>8. ASSUME NEW p \in Asked, RpgetAbsent(p) PROVE RestInv'
  BY <1>8 DEF RpgetAbsent, iterVars
<1>9. CASE IterNext
  BY <1>9 DEF IterNext
<1>10. CASE ListDone
  BY <1>10, TrieAssumption DEF ListDone
<1>11. CASE UNCHANGED trieVars
  BY <1>11 DEF trieVars, iterVars
<1> QED
  BY <1>1, <1>2, <1>3, <1>4, <1>5, <1>6, <1>7, <1>8, <1>9, <1>10, <1>11 DEF TrieNext

LEMMA TypeFollows ==
  ASSUME DictInv, RestInv
  PROVE  TypeOK
<1> DEFINE m == Contents(tree)
<1>1. DOMAIN m \subseteq Keys
  BY ContentsAt DEF DictInv
<1>2. size = Cardinality(DOMAIN m) /\ refs = RefsOf(m)
  BY DEF DictInv
<1> HIDE DEF m
<1>3. size \in 0 .. Cardinality(Keys)
  BY <1>1, <1>2, HoldersCount
<1>4. \A v \in Values : Cardinality(Holders(m, v)) \in 0 .. Cardinality(Keys)
  BY <1>1, HoldersCount
<1>5. refs \in [Values -> 0 .. Cardinality(Keys)]
  BY <1>2, <1>4 DEF RefsOf
<1> QED
  BY <1>3, <1>5 DEF TypeOK, RestInv

(* The keys below a node are below its children, on the way their bits say. *)
LEMMA CritBitsFollow ==
  ASSUME DictInv, RestInv
  PROVE  CritBits
<1>1. Shape(tree) /\ OnPath(tree) /\ Sharing(tree)
  BY DEF DictInv, CritBitTree
<1>2. Leaves = LeafSet(tree)
  BY <1>1, LeavesAre
<1>3. ASSUME NEW p \in DOMAIN tree \ Leaves
      PROVE  /\ \A k, l \in KeysBelow(p) :
                  /\ \A i \in 0 .. tree[p].byte - 1 : ByteAt(k, i) = ByteAt(l, i)
                  /\ \A i \in tree[p].bit + 1 .. 7 :
                       Bit(ByteAt(k, tree[p].byte), i) = Bit(ByteAt(l, tree[p].byte), i)
             /\ \A d \in {0, 1} : \A k \in KeysBelow(Append(p, d)) : Direction(k, p) = d
  <2>1. p \in DOMAIN tree /\ p \in Paths /\ tree[p] \in NodeRec /\ Len(p) \in Nat
    BY <1>1, <1>2, At
  <2>2. /\ tree[p].byte \in Nat /\ tree[p].bit \in 0 .. 7
        /\ Pos(tree[p]) = PosOf(tree[p].byte, tree[p].bit)
    BY <2>1, NodeFields DEF Pos
  \* A leaf below the node is further down.
  <2>3. ASSUME NEW q \in LeafSet(tree), IsPrefix(p, q)
        PROVE  /\ q \in Paths /\ Len(q) \in Nat /\ tree[q].key \in Bytes
               /\ Len(p) \in 0 .. Len(q) - 1 /\ Up(q, Len(p)) = p
    <3>1. /\ q \in DOMAIN tree /\ q \in Paths /\ Len(q) \in Nat /\ tree[q] \notin NodeRec
          /\ tree[q].key \in Bytes
      BY <1>1, At, LeafFields DEF LeafSet
    <3>2. Len(p) \in 0 .. Len(q) /\ Up(q, Len(p)) = p
      BY <2>1, <2>3, <3>1, PrefixIsUp
    <3>3. Len(p) # Len(q)
      BY <2>1, <3>1, <3>2, UpAll
    <3>4. Len(p) \in 0 .. Len(q) - 1
      BY <2>1, <3>1, <3>2, <3>3
    <3> QED
      BY <3>1, <3>2, <3>4
  <2>4. ASSUME NEW k \in KeysBelow(p), NEW l \in KeysBelow(p)
        PROVE  /\ \A i \in 0 .. tree[p].byte - 1 : ByteAt(k, i) = ByteAt(l, i)
               /\ \A i \in tree[p].bit + 1 .. 7 :
                    Bit(ByteAt(k, tree[p].byte), i) = Bit(ByteAt(l, tree[p].byte), i)
    <3>1. PICK q \in LeafSet(tree) : IsPrefix(p, q) /\ k = tree[q].key
      BY <1>2 DEF KeysBelow, Below
    <3>2. PICK r \in LeafSet(tree) : IsPrefix(p, r) /\ l = tree[r].key
      BY <1>2 DEF KeysBelow, Below
    <3>3. /\ Len(p) \in 0 .. Len(q) - 1 /\ Up(q, Len(p)) = p /\ k \in Bytes
          /\ Len(p) \in 0 .. Len(r) - 1 /\ Up(r, Len(p)) = p /\ l \in Bytes /\ Len(r) \in Nat
      BY <2>3, <3>1, <3>2
    <3>4. Len(p) < Len(r)
      BY <2>1, <3>3
    <3>5. Agree(k, l, Pos(tree[p]))
      BY <1>1, <3>1, <3>2, <3>3, <3>4 DEF Sharing
    <3>6. Agree(k, l, PosOf(tree[p].byte, tree[p].bit))
      BY <2>2, <3>5
    <3> QED
      BY <2>2, <3>3, <3>6, AgreeBytes
  <2>5. ASSUME NEW d \in {0, 1}, NEW k \in KeysBelow(Append(p, d))
        PROVE  Direction(k, p) = d
    <3>1. PICK q \in LeafSet(tree) : IsPrefix(Append(p, d), q) /\ k = tree[q].key
      BY <1>2 DEF KeysBelow, Below
    <3>2. q \in Paths
      BY <1>1, At DEF LeafSet
    <3>3. IsPrefix(p, q) /\ q[Len(p) + 1] = d
      BY <2>1, <3>1, <3>2, ChildPrefix
    <3>4. Len(p) \in 0 .. Len(q) - 1 /\ Up(q, Len(p)) = p
      BY <2>3, <3>3
    <3>5. q[Len(p) + 1] = KeyBit(k, Pos(tree[Up(q, Len(p))]))
      BY <1>1, <3>1, <3>4 DEF OnPath, Follows
    <3> QED
      BY <2>1, <3>3, <3>4, <3>5, DirectionIs
  <2> QED
    BY <2>4, <2>5
<1> QED
  BY <1>3, TypeFollows DEF CritBits

LEMMA InitRest ==
  ASSUME TrieInit
  PROVE  RestInv
  BY TrieAssumption DEF TrieInit, RestInv

THEOREM AlwaysRestInv == TrieSpec => []RestInv
<1>1. TrieInit => RestInv
  BY InitRest
<1>2. RestInv /\ [TrieNext]_trieVars => RestInv'
  BY NextRest
<1> QED
  BY <1>1, <1>2, PTL DEF TrieSpec

(* Nodes part the keys below them at the first bit in which they differ.   *)
THEOREM NodesPartAtCritBits == TrieSpec => []CritBits
<1>1. DictInv /\ RestInv => CritBits
  BY CritBitsFollow
<1> QED
  BY <1>1, AlwaysDictInv, AlwaysRestInv, PTL

-----------------------------------------------------------------------------
(* The trie implements TrieMap.                                             *)

LEMMA NextMaps ==
  ASSUME DictInv, DictInv', [TrieNext]_trieVars
  PROVE  [Map!Next]_content
<1>1. content = Contents(tree) /\ content' = Contents(tree')
  BY ContentIs, ContentPrime DEF DictInv
<1>2. ASSUME NEW k \in Keys, NEW v \in Values, RsetOverwrite(k, v) \/ RsetNew(k, v) PROVE Map!Next
  <2>1. content' = Assign(content, k, v)
    BY <1>1, <1>2, OverwriteMaps, NewMaps
  <2>2. Map!Put(k, v)
    BY <2>1 DEF Map!Put, Map!Assign, Assign
  <2> QED
    BY <2>2 DEF Map!Next
<1>3. ASSUME NEW k \in Keys, Rdel(k) PROVE Map!Next
  <2>1. content' = Without(content, k) /\ k \in DOMAIN content
    BY <1>1, <1>3, RdelMaps
  <2>2. Map!Remove(k)
    BY <2>1 DEF Map!Remove, Map!Without, Without, Map!Restrict, Restrict
  <2> QED
    BY <2>2 DEF Map!Next
<1>4. CASE Clear
  <2>1. content' = << >>
    BY <1>1, <1>4, ClearMaps
  <2> QED
    BY <2>1 DEF Map!Next, Map!Clear
<1>5. ASSUME UNCHANGED dictVars PROVE content' = content
  BY <1>1, <1>5, DictKept
<1>6. ASSUME NEW k \in Keys, RdelAbsent(k) PROVE UNCHANGED dictVars
  BY <1>6 DEF RdelAbsent
<1>7. CASE Rgetall
  BY <1>5, <1>7 DEF Rgetall
<1>8. ASSUME NEW p \in Asked, Rpget(p) \/ RpgetAbsent(p) PROVE UNCHANGED dictVars
  BY <1>8 DEF Rpget, RpgetAbsent
<1>9. CASE IterNext \/ ListDone
  BY <1>5, <1>9 DEF IterNext, ListDone
<1>10. CASE UNCHANGED trieVars
  BY <1>5, <1>10 DEF trieVars
<1> QED
  BY <1>2, <1>3, <1>4, <1>5, <1>6, <1>7, <1>8, <1>9, <1>10 DEF TrieNext

(* The trie implements TrieMap: what dict_get finds changes at the key of  *)
(* the command and nowhere else.                                           *)
THEOREM TrieImplementsMap == TrieSpec => ImplementsMap
<1>1. TrieInit => Map!Init
  <2> HAVE TrieInit
  <2>1. tree = NoTree /\ CritBitTree(tree)
    BY InitDict DEF TrieInit, DictInv
  <2>2. content = Contents(tree)
    BY <2>1, ContentIs
  <2> QED
    BY <2>1, <2>2, EmptyIsTree DEF Map!Init
<1>2. DictInv /\ DictInv' /\ [TrieNext]_trieVars => [Map!Next]_content
  BY NextMaps
<1> QED
  BY <1>1, <1>2, AlwaysDictInv, PTL DEF TrieSpec, ImplementsMap, Map!Spec

-----------------------------------------------------------------------------
(* Prefixes.                                                                *)

(* A key has a prefix if it has its bytes. *)
LEMMA PrefixBytes ==
  ASSUME NEW p \in Bytes, NEW k \in Bytes
  PROVE  IsPrefix(p, k) <=> \A i \in 0 .. Len(p) - 1 : ByteAt(k, i) = ByteAt(p, i)
<1>1. /\ Len(p) \in Nat /\ \A j \in 1 .. Len(p) : p[j] \in 1 .. 255
      /\ Len(k) \in Nat /\ \A j \in 1 .. Len(k) : k[j] \in 1 .. 255
  BY KeyElements
<1>2. ASSUME IsPrefix(p, k), NEW i \in 0 .. Len(p) - 1
      PROVE  ByteAt(k, i) = ByteAt(p, i)
  <2>1. Len(p) <= Len(k) /\ SubSeq(p, 1, Len(p)) = SubSeq(k, 1, Len(p))
    BY <1>2 DEF IsPrefix
  <2>2. i + 1 \in 1 .. Len(p) /\ i < Len(p) /\ i < Len(k)
    BY <1>1, <2>1
  <2>3. SubSeq(p, 1, Len(p))[i + 1] = p[i + 1] /\ SubSeq(k, 1, Len(p))[i + 1] = k[i + 1]
    BY <1>1, <2>1, <2>2 DEF Bytes
  <2> QED
    BY <2>1, <2>2, <2>3 DEF ByteAt
<1>3. ASSUME \A i \in 0 .. Len(p) - 1 : ByteAt(k, i) = ByteAt(p, i)
      PROVE  IsPrefix(p, k)
  <2>1. ASSUME NEW j \in 1 .. Len(p) PROVE j <= Len(k) /\ k[j] = p[j]
    <3>1. j - 1 \in 0 .. Len(p) - 1 /\ j - 1 < Len(p) /\ (j - 1) + 1 = j
      BY <1>1
    <3>2. ByteAt(k, j - 1) = p[j] /\ p[j] # 0
      <4>1. ByteAt(k, j - 1) = ByteAt(p, j - 1)
        BY <1>3, <3>1
      <4>2. ByteAt(p, j - 1) = p[j]
        BY <3>1 DEF ByteAt
      <4>3. p[j] # 0
        <5>1. \A x \in 1 .. 255 : x # 0
          OBVIOUS
        <5>2. p[j] \in 1 .. 255
          BY <1>1
        <5> QED
          BY <5>1, <5>2, Zenon
      <4>4. ByteAt(k, j - 1) = p[j]
        BY <4>1, <4>2, Zenon
      <4> QED
        BY <4>3, <4>4
    <3>3. j - 1 < Len(k)
      BY <3>2 DEF ByteAt
    <3>4. ByteAt(k, j - 1) = k[j]
      BY <3>1, <3>3 DEF ByteAt
    <3> QED
      BY <1>1, <3>2, <3>3, <3>4
  <2>2. Len(p) <= Len(k)
    <3>1. CASE Len(p) = 0
      BY <1>1, <3>1
    <3>2. CASE Len(p) # 0
      <4>1. Len(p) \in 1 .. Len(p)
        BY <1>1, <3>2
      <4> QED
        BY <2>1, <4>1
    <3> QED
      BY <3>1, <3>2
  <2>3. SubSeq(p, 1, Len(p)) = SubSeq(k, 1, Len(p))
    <3>1. /\ SubSeq(p, 1, Len(p)) = [j \in 1 .. Len(p) |-> p[j]]
          /\ SubSeq(k, 1, Len(p)) = [j \in 1 .. Len(p) |-> k[j]]
      BY <1>1, <2>2 DEF Bytes
    <3> QED
      BY <2>1, <3>1
  <2> QED
    BY <2>2, <2>3 DEF IsPrefix
<1> QED
  BY <1>2, <1>3

(* Two leaves part at a node. *)
LEMMA LeavesPart ==
  ASSUME NEW t, Shape(t), NEW q \in LeafSet(t), NEW r \in LeafSet(t), q # r
  PROVE  \E i \in 0 .. Len(q) - 1 :
           i < Len(r) /\ Up(q, i) = Up(r, i) /\ q[i + 1] # r[i + 1]
<1>1. /\ q \in DOMAIN t /\ q \in Paths /\ Len(q) \in Nat /\ t[q] \notin NodeRec
      /\ r \in DOMAIN t /\ r \in Paths /\ Len(r) \in Nat /\ t[r] \notin NodeRec
  BY At DEF LeafSet
<1>2. ~(Len(q) < Len(r) /\ Up(r, Len(q)) = q)
  <2>1. Len(q) < Len(r) => Len(q) \in 0 .. Len(r) - 1
    BY <1>1
  <2> QED
    BY <1>1, <2>1, At
<1>3. ~(Len(r) < Len(q) /\ Up(q, Len(r)) = r)
  <2>1. Len(r) < Len(q) => Len(r) \in 0 .. Len(q) - 1
    BY <1>1
  <2> QED
    BY <1>1, <2>1, At
<1> QED
  BY <1>1, <1>2, <1>3, Parting

(* dict_has_prefix: the key that is closest to a prefix has it, if any does. *)
LEMMA PrefixFound ==
  ASSUME CritBitTree(tree), NEW p \in Bytes, NEW q \in LeafSet(tree), IsPrefix(p, tree[q].key)
  PROVE  HasPrefix(p)
<1> DEFINE r == Closest(p)
           k == tree[q].key
           l == tree[r].key
<1>1. Shape(tree) /\ OnPath(tree) /\ Sharing(tree) /\ tree # NoTree
  BY OwnLeaf DEF CritBitTree
<1>2. r \in LeafSet(tree) /\ Follows(tree, p, r)
  BY <1>1, ClosestIs
<1> HIDE DEF r
<1>3. /\ q \in DOMAIN tree /\ q \in Paths /\ Len(q) \in Nat /\ tree[q] \notin NodeRec /\ k \in Bytes
      /\ r \in DOMAIN tree /\ r \in Paths /\ Len(r) \in Nat /\ tree[r] \notin NodeRec /\ l \in Bytes
  BY <1>1, <1>2, At, LeafFields DEF LeafSet
<1> HIDE DEF k, l
<1>4. CASE q = r
  BY <1>1, <1>4 DEF HasPrefix, Matches, r, k
<1>5. CASE q # r
  <2>1. PICK i \in 0 .. Len(q) - 1 : i < Len(r) /\ Up(q, i) = Up(r, i) /\ q[i + 1] # r[i + 1]
    BY <1>1, <1>2, <1>5, LeavesPart
  <2> DEFINE z == Up(q, i)
             byte == tree[z].byte
             bit == tree[z].bit
             N == PosOf(byte, bit)
  <2>2. tree[z] \in NodeRec /\ byte \in Nat /\ bit \in 0 .. 7 /\ Pos(tree[z]) = N
    <3>1. tree[z] \in NodeRec
      BY <1>1, <1>3, At
    <3> QED
      BY <3>1, NodeFields DEF Pos
  <2>3. q[i + 1] = KeyBit(k, N) /\ r[i + 1] = KeyBit(p, N)
    <3>1. i \in 0 .. Len(r) - 1
      BY <1>3, <2>1
    <3>2. r[i + 1] = KeyBit(p, Pos(tree[Up(r, i)]))
      BY <1>2, <3>1 DEF Follows
    <3>3. q[i + 1] = KeyBit(k, Pos(tree[Up(q, i)]))
      BY <1>1 DEF OnPath, Follows, k
    <3> QED
      BY <2>1, <2>2, <3>2, <3>3
  <2>4. Agree(k, l, N)
    BY <1>1, <1>2, <2>1, <2>2 DEF Sharing, k, l
  <2> HIDE DEF z, byte, bit, N
  <2>5. \A j \in 0 .. Len(p) - 1 : ByteAt(k, j) = ByteAt(p, j)
    BY <1>3, PrefixBytes DEF k
  <2>6. Len(p) \in Nat /\ ~(byte < Len(p))
    <3>1. Len(p) \in Nat
      BY KeyElements
    <3>2. ASSUME byte < Len(p) PROVE FALSE
      <4>1. byte \in 0 .. Len(p) - 1
        BY <2>2, <3>1, <3>2
      <4>2. ByteAt(k, byte) = ByteAt(p, byte)
        BY <2>5, <4>1
      <4>3. KeyBit(k, N) = Bit(ByteAt(k, byte), bit)
        BY <2>2, KeyBitAt DEF N
      <4>4. KeyBit(p, N) = Bit(ByteAt(p, byte), bit)
        BY <2>2, KeyBitAt DEF N
      <4> QED
        BY <2>1, <2>3, <4>2, <4>3, <4>4
    <3> QED
      BY <3>1, <3>2
  <2>7. \A j \in 0 .. byte - 1 : ByteAt(k, j) = ByteAt(l, j)
    BY <1>3, <2>2, <2>4, AgreeBytes DEF N
  <2>8. \A j \in 0 .. Len(p) - 1 : ByteAt(l, j) = ByteAt(p, j)
    <3>1. \A j \in 0 .. Len(p) - 1 : j \in 0 .. byte - 1
      BY <2>2, <2>6
    <3> QED
      BY <2>5, <2>7, <3>1
  <2>9. IsPrefix(p, l)
    BY <1>3, <2>8, PrefixBytes
  <2> QED
    BY <1>1, <2>9 DEF HasPrefix, Matches, l, r
<1> QED
  BY <1>4, <1>5

LEMMA HasPrefixFollows ==
  ASSUME DictInv
  PROVE  HasPrefixExact
<1>1. CritBitTree(tree) /\ Shape(tree) /\ content = Contents(tree)
  BY ContentIs DEF DictInv, CritBitTree
<1>2. DOMAIN Contents(tree) = {tree[q].key : q \in LeafSet(tree)}
  BY <1>1, ContentsAt
<1> SUFFICES ASSUME NEW p \in Asked
             PROVE  HasPrefix(p) <=> \E k \in DOMAIN Contents(tree) : IsPrefix(p, k)
  BY <1>1 DEF HasPrefixExact
<1>3. p \in Bytes
  BY KeysAreBytes
<1>4. ASSUME HasPrefix(p) PROVE \E k \in DOMAIN Contents(tree) : IsPrefix(p, k)
  <2>1. tree # NoTree /\ IsPrefix(p, tree[Closest(p)].key)
    BY <1>4 DEF HasPrefix, Matches
  <2>2. Closest(p) \in LeafSet(tree)
    BY <1>1, <1>3, <2>1, ClosestIs
  <2> QED
    BY <1>2, <2>1, <2>2
<1>5. ASSUME NEW k \in DOMAIN Contents(tree), IsPrefix(p, k) PROVE HasPrefix(p)
  <2>1. PICK q \in LeafSet(tree) : k = tree[q].key
    BY <1>2
  <2> QED
    BY <1>1, <1>3, <1>5, <2>1, PrefixFound
<1> QED
  BY <1>4, <1>5

(* dict_has_prefix answers whether any key has the prefix. *)
THEOREM HasPrefixIsExact == TrieSpec => []HasPrefixExact
<1>1. DictInv => HasPrefixExact
  BY HasPrefixFollows
<1> QED
  BY <1>1, AlwaysDictInv, PTL

-----------------------------------------------------------------------------
(* The iterator.                                                            *)

(* The leaf q comes before r: where their paths part, q goes left. *)
LeftOf(q, r) ==
  \E i \in 0 .. Len(q) - 1 :
    i < Len(r) /\ Up(q, i) = Up(r, i) /\ q[i + 1] = 0 /\ r[i + 1] = 1

(* From the node x to y: to the left child, and then only to the right. *)
LeftThenRight(x, y) ==
  IsPrefix(Append(x, 0), y) /\ \A j \in Len(x) + 2 .. Len(y) : y[j] = 1

OnlyRight(x, y) ==
  IsPrefix(x, y) /\ \A j \in Len(x) + 1 .. Len(y) : y[j] = 1

(* The stack of an iterator below b: a leaf, and the nodes at which the way *)
(* to it turns left.                                                        *)
Walk(t, s, b) ==
  /\ s \in Seq(DOMAIN t)
  /\ \A i \in 1 .. Len(s) : IsPrefix(b, s[i])
  /\ \A i \in 1 .. Len(s) - 1 : LeftThenRight(s[i + 1], s[i])
  /\ s # << >> => s[1] \in LeafSet(t) /\ OnlyRight(b, s[Len(s)])

(* The leaves that the iterator has passed. *)
Passed(t, s, b) ==
  {q \in LeafSet(t) : IsPrefix(b, q) /\ (s = << >> \/ LeftOf(q, s[1]))}

Pair(t, q) == <<t[q].key, t[q].val>>

(* The listing: of the leaves below the top, which are those with the       *)
(* prefix, the ones that the iterator has passed are in the reply, in order. *)
Listing(t, s, ps, l, b) ==
  /\ \A q \in LeafSet(t) : IsPrefix(b, q) <=> IsPrefix(ps, t[q].key)
  /\ Walk(t, s, b)
  /\ \A i \in 1 .. Len(l) : \E q \in Passed(t, s, b) : l[i] = Pair(t, q)
  /\ \A q \in Passed(t, s, b) : \E i \in 1 .. Len(l) : l[i] = Pair(t, q)
  /\ \A i, j \in 1 .. Len(l) : i < j => Before(l[i][1], l[j][1])

ListInv ==
  /\ kvs \in Seq(Keys \X Values)
  /\ pc # "list" \/ tree = NoTree => stack = << >> /\ kvs = << >>
  /\ pc = "list" /\ tree # NoTree => \E b \in DOMAIN tree : Listing(tree, stack, prefix, kvs, b)

(* The order of the leaves is the order of strcmp.                          *)

(* A byte is the sum of its bits. *)
LEMMA ByteSum ==
  ASSUME NEW a \in 0 .. 255
  PROVE  a = Bit(a, 0) + 2 * Bit(a, 1) + 4 * Bit(a, 2) + 8 * Bit(a, 3)
               + 16 * Bit(a, 4) + 32 * Bit(a, 5) + 64 * Bit(a, 6) + 128 * Bit(a, 7)
<1>1. /\ 2^0 = 1 /\ 2^1 = 2 /\ 2^2 = 4 /\ 2^3 = 8
      /\ 2^4 = 16 /\ 2^5 = 32 /\ 2^6 = 64 /\ 2^7 = 128
  OBVIOUS
<1>2. \A x \in Nat : x = 2 * (x \div 2) + (x % 2)
  OBVIOUS
<1>3. /\ (a \div 2) \div 2 = a \div 4
      /\ (a \div 4) \div 2 = a \div 8
      /\ (a \div 8) \div 2 = a \div 16
      /\ (a \div 16) \div 2 = a \div 32
      /\ (a \div 32) \div 2 = a \div 64
      /\ (a \div 64) \div 2 = a \div 128
      /\ (a \div 128) % 2 = a \div 128
  <2>1. \A x \in {a} :
          /\ (x \div 2) \div 2 = x \div 4
          /\ (x \div 4) \div 2 = x \div 8
          /\ (x \div 8) \div 2 = x \div 16
          /\ (x \div 16) \div 2 = x \div 32
          /\ (x \div 32) \div 2 = x \div 64
          /\ (x \div 64) \div 2 = x \div 128
    OBVIOUS
  <2>2. (a \div 128) % 2 = a \div 128
    OBVIOUS
  <2> QED
    BY <2>1, <2>2, Zenon
<1> DEFINE a1 == a \div 2  a2 == a \div 4  a3 == a \div 8  a4 == a \div 16
           a5 == a \div 32  a6 == a \div 64  a7 == a \div 128
<1>4. /\ a \in Nat /\ a1 \in Nat /\ a2 \in Nat /\ a3 \in Nat
      /\ a4 \in Nat /\ a5 \in Nat /\ a6 \in Nat /\ a7 \in Nat
  OBVIOUS
<1>5. /\ Bit(a, 0) = a % 2 /\ Bit(a, 1) = a1 % 2
      /\ Bit(a, 2) = a2 % 2 /\ Bit(a, 3) = a3 % 2
      /\ Bit(a, 4) = a4 % 2 /\ Bit(a, 5) = a5 % 2
      /\ Bit(a, 6) = a6 % 2 /\ Bit(a, 7) = a7
  BY <1>1, <1>3 DEF Bit
<1>6. /\ a \div 2 = a1 /\ a1 \div 2 = a2 /\ a2 \div 2 = a3 /\ a3 \div 2 = a4
      /\ a4 \div 2 = a5 /\ a5 \div 2 = a6 /\ a6 \div 2 = a7
  BY <1>3
<1> HIDE DEF a1, a2, a3, a4, a5, a6, a7
<1>7. /\ a = 2 * a1 + Bit(a, 0) /\ a1 = 2 * a2 + Bit(a, 1)
      /\ a2 = 2 * a3 + Bit(a, 2) /\ a3 = 2 * a4 + Bit(a, 3)
      /\ a4 = 2 * a5 + Bit(a, 4) /\ a5 = 2 * a6 + Bit(a, 5)
      /\ a6 = 2 * a7 + Bit(a, 6)
  BY <1>2, <1>4, <1>5, <1>6
<1> DEFINE x0 == Bit(a, 0) x1 == Bit(a, 1) x2 == Bit(a, 2) x3 == Bit(a, 3)
           x4 == Bit(a, 4) x5 == Bit(a, 5) x6 == Bit(a, 6) x7 == Bit(a, 7)
<1>8. /\ x0 \in {0, 1} /\ x1 \in {0, 1} /\ x2 \in {0, 1} /\ x3 \in {0, 1}
      /\ x4 \in {0, 1} /\ x5 \in {0, 1} /\ x6 \in {0, 1} /\ x7 \in {0, 1}
  BY BitType
<1>9. /\ a = 2 * a1 + x0 /\ a1 = 2 * a2 + x1 /\ a2 = 2 * a3 + x2 /\ a3 = 2 * a4 + x3
      /\ a4 = 2 * a5 + x4 /\ a5 = 2 * a6 + x5 /\ a6 = 2 * a7 + x6 /\ a7 = x7
  BY <1>5, <1>7
<1> HIDE DEF x0, x1, x2, x3, x4, x5, x6, x7
<1>10. a = x0 + 2 * x1 + 4 * x2 + 8 * x3 + 16 * x4 + 32 * x5 + 64 * x6 + 128 * x7
  BY <1>4, <1>8, <1>9
<1> QED
  BY <1>10 DEF x0, x1, x2, x3, x4, x5, x6, x7

(* The first differing bit decides. *)
LEMMA LowerByte ==
  ASSUME NEW a \in 0 .. 255, NEW b \in 0 .. 255, NEW i \in 0 .. 7,
         \A j \in i + 1 .. 7 : Bit(a, j) = Bit(b, j), Bit(a, i) = 0, Bit(b, i) = 1
  PROVE  a < b
<1>1. \A j \in 0 .. 7 : Bit(a, j) \in {0, 1} /\ Bit(b, j) \in {0, 1}
  BY BitType
<1> DEFINE x0 == Bit(a, 0) x1 == Bit(a, 1) x2 == Bit(a, 2) x3 == Bit(a, 3)
           x4 == Bit(a, 4) x5 == Bit(a, 5) x6 == Bit(a, 6) x7 == Bit(a, 7)
           y0 == Bit(b, 0) y1 == Bit(b, 1) y2 == Bit(b, 2) y3 == Bit(b, 3)
           y4 == Bit(b, 4) y5 == Bit(b, 5) y6 == Bit(b, 6) y7 == Bit(b, 7)
<1>2. /\ a = x0 + 2 * x1 + 4 * x2 + 8 * x3 + 16 * x4 + 32 * x5 + 64 * x6 + 128 * x7
      /\ b = y0 + 2 * y1 + 4 * y2 + 8 * y3 + 16 * y4 + 32 * y5 + 64 * y6 + 128 * y7
  BY ByteSum
<1>3. /\ x0 \in {0, 1} /\ x1 \in {0, 1} /\ x2 \in {0, 1} /\ x3 \in {0, 1}
      /\ x4 \in {0, 1} /\ x5 \in {0, 1} /\ x6 \in {0, 1} /\ x7 \in {0, 1}
      /\ y0 \in {0, 1} /\ y1 \in {0, 1} /\ y2 \in {0, 1} /\ y3 \in {0, 1}
      /\ y4 \in {0, 1} /\ y5 \in {0, 1} /\ y6 \in {0, 1} /\ y7 \in {0, 1}
  BY <1>1
<1>4. /\ i = 7 => x7 = 0 /\ y7 = 1
      /\ i = 6 => x7 = y7 /\ x6 = 0 /\ y6 = 1
      /\ i = 5 => x7 = y7 /\ x6 = y6 /\ x5 = 0 /\ y5 = 1
      /\ i = 4 => x7 = y7 /\ x6 = y6 /\ x5 = y5 /\ x4 = 0 /\ y4 = 1
      /\ i = 3 => x7 = y7 /\ x6 = y6 /\ x5 = y5 /\ x4 = y4 /\ x3 = 0 /\ y3 = 1
      /\ i = 2 => x7 = y7 /\ x6 = y6 /\ x5 = y5 /\ x4 = y4 /\ x3 = y3 /\ x2 = 0 /\ y2 = 1
      /\ i = 1 => /\ x7 = y7 /\ x6 = y6 /\ x5 = y5 /\ x4 = y4 /\ x3 = y3 /\ x2 = y2
                  /\ x1 = 0 /\ y1 = 1
      /\ i = 0 => /\ x7 = y7 /\ x6 = y6 /\ x5 = y5 /\ x4 = y4 /\ x3 = y3 /\ x2 = y2 /\ x1 = y1
                  /\ x0 = 0 /\ y0 = 1
  OBVIOUS
<1>5. i = 0 \/ i = 1 \/ i = 2 \/ i = 3 \/ i = 4 \/ i = 5 \/ i = 6 \/ i = 7
  OBVIOUS
<1> HIDE DEF x0, x1, x2, x3, x4, x5, x6, x7, y0, y1, y2, y3, y4, y5, y6, y7
<1> QED
  BY <1>2, <1>3, <1>4, <1>5

LEMMA LeftBefore ==
  ASSUME NEW t, CritBitTree(t), NEW q \in LeafSet(t), NEW r \in LeafSet(t), LeftOf(q, r)
  PROVE  Before(t[q].key, t[r].key)
<1> DEFINE k == t[q].key
           l == t[r].key
<1>1. Shape(t) /\ OnPath(t) /\ Sharing(t)
  BY DEF CritBitTree
<1>2. /\ q \in DOMAIN t /\ q \in Paths /\ Len(q) \in Nat /\ k \in Bytes
      /\ r \in DOMAIN t /\ r \in Paths /\ Len(r) \in Nat /\ l \in Bytes
  BY <1>1, At, LeafFields DEF LeafSet
<1>3. PICK i \in 0 .. Len(q) - 1 :
        i < Len(r) /\ Up(q, i) = Up(r, i) /\ q[i + 1] = 0 /\ r[i + 1] = 1
  BY DEF LeftOf
<1> DEFINE z == Up(q, i)
           byte == t[z].byte
           bit == t[z].bit
           N == PosOf(byte, bit)
<1>4. t[z] \in NodeRec /\ byte \in Nat /\ bit \in 0 .. 7 /\ Pos(t[z]) = N
  <2>1. t[z] \in NodeRec
    BY <1>1, <1>2, At
  <2> QED
    BY <2>1, NodeFields DEF Pos
<1>5. KeyBit(k, N) = 0 /\ KeyBit(l, N) = 1
  <2>1. i \in 0 .. Len(r) - 1
    BY <1>2, <1>3
  <2>2. r[i + 1] = KeyBit(l, Pos(t[Up(r, i)])) /\ q[i + 1] = KeyBit(k, Pos(t[Up(q, i)]))
    BY <1>1, <2>1 DEF OnPath, Follows
  <2> QED
    BY <1>3, <1>4, <2>2
<1>6. Agree(k, l, N)
  BY <1>1, <1>3, <1>4 DEF Sharing
<1> HIDE DEF k, l, z, byte, bit, N
<1>7. /\ \A j \in 0 .. byte - 1 : ByteAt(k, j) = ByteAt(l, j)
      /\ \A j \in bit + 1 .. 7 : Bit(ByteAt(k, byte), j) = Bit(ByteAt(l, byte), j)
  BY <1>2, <1>4, <1>6, AgreeBytes DEF N
<1>8. Bit(ByteAt(k, byte), bit) = 0 /\ Bit(ByteAt(l, byte), bit) = 1
  <2>1. KeyBit(k, N) = Bit(ByteAt(k, byte), bit)
    BY <1>4, KeyBitAt DEF N
  <2>2. KeyBit(l, N) = Bit(ByteAt(l, byte), bit)
    BY <1>4, KeyBitAt DEF N
  <2> QED
    BY <1>5, <2>1, <2>2
<1>9. ByteAt(k, byte) \in 0 .. 255 /\ ByteAt(l, byte) \in 0 .. 255
  BY <1>2, <1>4, ByteType
<1>10. ByteAt(k, byte) < ByteAt(l, byte)
  BY <1>4, <1>7, <1>8, <1>9, LowerByte, ZenonT(40)
<1>11. byte \in 0 .. Len(k)
  <2>1. /\ Len(k) \in Nat /\ Len(l) \in Nat
        /\ \A j \in 1 .. Len(l) : l[j] \in 1 .. 255
    BY <1>2, KeyElements
  <2>2. byte < Len(l)
    <3>1. ByteAt(l, byte) # 0
      <4>1. \A x, y \in 0 .. 255 : x < y => y # 0
        OBVIOUS
      <4> QED
        BY <1>9, <1>10, <4>1, Zenon
    <3> QED
      BY <3>1 DEF ByteAt
  <2>3. ASSUME byte > Len(k) PROVE FALSE
    <3>1. Len(k) \in 0 .. byte - 1 /\ Len(k) < Len(l) /\ Len(k) + 1 \in 1 .. Len(l)
      BY <1>4, <2>1, <2>2, <2>3
    <3>2. ByteAt(k, Len(k)) = 0
      BY <2>1 DEF ByteAt
    <3>3. ByteAt(l, Len(k)) = l[Len(k) + 1]
      BY <3>1 DEF ByteAt
    <3>4. \A y \in 1 .. 255 : y # 0
      OBVIOUS
    <3>5. l[Len(k) + 1] # 0
      BY <2>1, <3>1, <3>4, Zenon
    <3>6. ByteAt(k, Len(k)) = ByteAt(l, Len(k))
      BY <1>7, <3>1
    <3> QED
      BY <3>2, <3>3, <3>5, <3>6
  <2> QED
    BY <1>4, <2>1, <2>3
<1>12. Before(k, l)
  BY <1>7, <1>10, <1>11 DEF Before
<1> QED
  BY <1>12 DEF k, l

-----------------------------------------------------------------------------
(* The order of the leaves, step by step.                                   *)

LEMMA LeftSteps ==
  ASSUME NEW q \in Paths, NEW r \in Paths
  PROVE  LeftOf(q, r) <=>
           \E i \in 0 .. Len(q) - 1 :
             /\ i < Len(r) /\ q[i + 1] = 0 /\ r[i + 1] = 1
             /\ \A m \in 1 .. i : q[m] = r[m]
<1>1. Len(q) \in Nat /\ Len(r) \in Nat
  BY PathElements
<1>2. ASSUME NEW i \in 0 .. Len(q) - 1, i < Len(r)
      PROVE  Up(q, i) = Up(r, i) <=> \A m \in 1 .. i : q[m] = r[m]
  <2>1. i \in 0 .. Len(q) /\ i \in 0 .. Len(r)
    BY <1>1, <1>2
  <2> QED
    BY <2>1, UpEqual
<1> QED
  BY <1>2 DEF LeftOf

(* Leaves that part, step by step. *)
LEMMA PartSteps ==
  ASSUME NEW t, Shape(t), NEW q \in LeafSet(t), NEW r \in LeafSet(t), q # r
  PROVE  \E i \in 0 .. Len(q) - 1 :
           /\ i < Len(r) /\ q[i + 1] # r[i + 1] /\ q[i + 1] \in {0, 1} /\ r[i + 1] \in {0, 1}
           /\ \A m \in 1 .. i : q[m] = r[m]
<1>1. q \in Paths /\ r \in Paths /\ Len(q) \in Nat /\ Len(r) \in Nat
  BY At DEF LeafSet
<1>2. PICK i \in 0 .. Len(q) - 1 : i < Len(r) /\ Up(q, i) = Up(r, i) /\ q[i + 1] # r[i + 1]
  BY LeavesPart
<1>3. /\ i \in 0 .. Len(q) /\ i \in 0 .. Len(r)
      /\ i + 1 \in 1 .. Len(q) /\ i + 1 \in 1 .. Len(r)
  BY <1>1, <1>2
<1>4. \A m \in 1 .. i : q[m] = r[m]
  BY <1>1, <1>2, <1>3, UpEqual
<1>5. q[i + 1] \in {0, 1} /\ r[i + 1] \in {0, 1}
  BY <1>1, <1>3, PathElements
<1> QED
  BY <1>2, <1>4, <1>5

(* From a leaf, at the end of the left child of x, to the first one of the  *)
(* right child: no leaf is in between.                                      *)
LEMMA NextLeaf ==
  ASSUME NEW t, Shape(t), NEW x \in Paths,
         NEW c \in LeafSet(t), LeftThenRight(x, c),
         NEW f \in LeafSet(t), IsPrefix(Append(x, 1), f),
         \A j \in Len(x) + 2 .. Len(f) : f[j] = 0,
         NEW q \in LeafSet(t)
  PROVE  LeftOf(q, f) <=> LeftOf(q, c) \/ q = c
<1> DEFINE n == Len(x)
<1>1. /\ q \in Paths /\ Len(q) \in Nat /\ c \in Paths /\ Len(c) \in Nat
      /\ f \in Paths /\ Len(f) \in Nat /\ n \in Nat
  BY At, PathElements DEF LeafSet
<1>2. /\ n < Len(c) /\ c[n + 1] = 0 /\ \A m \in 1 .. n : x[m] = c[m]
      /\ \A j \in n + 2 .. Len(c) : c[j] = 1
  BY <1>1, ChildPrefix, PrefixSteps DEF LeftThenRight
<1>3. /\ n < Len(f) /\ f[n + 1] = 1 /\ \A m \in 1 .. n : x[m] = f[m]
  BY <1>1, ChildPrefix, PrefixSteps
<1>4. \A m \in 1 .. n : c[m] = f[m]
  BY <1>2, <1>3
<1> HIDE DEF n
<1>5. ASSUME LeftOf(q, f), q # c PROVE LeftOf(q, c)
  <2>1. PICK i \in 0 .. Len(q) - 1 :
          /\ i < Len(f) /\ q[i + 1] = 0 /\ f[i + 1] = 1 /\ \A m \in 1 .. i : q[m] = f[m]
    BY <1>1, <1>5, LeftSteps
  <2>2. i <= n
    <3>1. i > n => i + 1 \in Len(x) + 2 .. Len(f)
      BY <1>1, <2>1 DEF n
    <3> QED
      BY <1>1, <2>1, <3>1
  <2>3. CASE i < n
    <3>1. i + 1 \in 1 .. n /\ i < Len(c) /\ \A m \in 1 .. i : m \in 1 .. n
      BY <1>1, <1>2, <2>3
    <3>2. c[i + 1] = 1 /\ \A m \in 1 .. i : q[m] = c[m]
      BY <1>4, <2>1, <3>1
    <3> QED
      BY <1>1, <2>1, <3>1, <3>2, LeftSteps
  <2>4. CASE i = n
    <3>1. PICK j \in 0 .. Len(q) - 1 :
            /\ j < Len(c) /\ q[j + 1] # c[j + 1] /\ q[j + 1] \in {0, 1}
            /\ \A m \in 1 .. j : q[m] = c[m]
      BY <1>5, PartSteps
    <3>2. j > n
      <4>1. ASSUME j <= n PROVE q[j + 1] = c[j + 1]
        <5>1. CASE j = n
          BY <1>2, <2>1, <2>4, <5>1
        <5>2. CASE j # n
          <6>1. j + 1 \in 1 .. n /\ j + 1 \in 1 .. i
            BY <1>1, <2>4, <4>1, <5>2
          <6> QED
            BY <1>4, <2>1, <6>1
        <5> QED
          BY <5>1, <5>2
      <4> QED
        BY <1>1, <3>1, <4>1
    <3>3. j + 1 \in n + 2 .. Len(c)
      BY <1>1, <3>1, <3>2
    <3>4. c[j + 1] = 1 /\ q[j + 1] = 0
      BY <1>2, <3>1, <3>3
    <3> QED
      BY <1>1, <3>1, <3>4, LeftSteps
  <2> QED
    BY <1>1, <2>2, <2>3, <2>4
<1>6. LeftOf(c, f)
  <2>1. n \in 0 .. Len(c) - 1
    BY <1>1, <1>2
  <2> QED
    BY <1>1, <1>2, <1>3, <1>4, <2>1, LeftSteps
<1>7. ASSUME LeftOf(q, c) PROVE LeftOf(q, f)
  <2>1. PICK i \in 0 .. Len(q) - 1 :
          /\ i < Len(c) /\ q[i + 1] = 0 /\ c[i + 1] = 1 /\ \A m \in 1 .. i : q[m] = c[m]
    BY <1>1, <1>7, LeftSteps
  <2>2. i # n
    BY <1>2, <2>1
  <2>3. CASE i < n
    <3>1. i + 1 \in 1 .. n /\ i < Len(f) /\ \A m \in 1 .. i : m \in 1 .. n
      BY <1>1, <1>3, <2>3
    <3>2. f[i + 1] = 1 /\ \A m \in 1 .. i : q[m] = f[m]
      BY <1>4, <2>1, <3>1
    <3> QED
      BY <1>1, <2>1, <3>1, <3>2, LeftSteps
  <2>4. CASE i > n
    <3>1. n \in 0 .. Len(q) - 1 /\ n + 1 \in 1 .. i /\ \A m \in 1 .. n : m \in 1 .. i
      BY <1>1, <2>1, <2>4
    <3>2. q[n + 1] = 0 /\ \A m \in 1 .. n : q[m] = f[m]
      BY <1>2, <1>4, <2>1, <3>1
    <3> QED
      BY <1>1, <1>3, <3>1, <3>2, LeftSteps
  <2> QED
    BY <1>1, <2>1, <2>2, <2>3, <2>4
<1> QED
  BY <1>5, <1>6, <1>7

(* The leaf at the right end comes last, the one at the left end first. *)
LEMMA LastLeaf ==
  ASSUME NEW t, Shape(t), NEW b \in Paths, NEW c \in LeafSet(t), OnlyRight(b, c),
         NEW q \in LeafSet(t), IsPrefix(b, q), q # c
  PROVE  LeftOf(q, c)
<1>1. /\ q \in Paths /\ Len(q) \in Nat /\ c \in Paths /\ Len(c) \in Nat /\ Len(b) \in Nat
  BY At, PathElements DEF LeafSet
<1>2. \A m \in 1 .. Len(b) : b[m] = c[m] /\ b[m] = q[m]
  BY <1>1, PrefixSteps DEF OnlyRight
<1>3. PICK j \in 0 .. Len(q) - 1 :
        /\ j < Len(c) /\ q[j + 1] # c[j + 1] /\ q[j + 1] \in {0, 1}
        /\ \A m \in 1 .. j : q[m] = c[m]
  BY PartSteps
<1>4. ~(j + 1 \in 1 .. Len(b))
  BY <1>2, <1>3
<1>5. j + 1 \in Len(b) + 1 .. Len(c)
  BY <1>1, <1>3, <1>4
<1>6. c[j + 1] = 1
  BY <1>5 DEF OnlyRight
<1>7. q[j + 1] = 0
  BY <1>3, <1>6
<1> QED
  BY <1>1, <1>3, <1>6, <1>7, LeftSteps

LEMMA FirstComes ==
  ASSUME NEW t, Shape(t), NEW b \in Paths, NEW f \in LeafSet(t), IsPrefix(b, f),
         \A j \in Len(b) + 1 .. Len(f) : f[j] = 0,
         NEW q \in LeafSet(t), IsPrefix(b, q)
  PROVE  ~LeftOf(q, f)
<1>1. /\ q \in Paths /\ Len(q) \in Nat /\ f \in Paths /\ Len(f) \in Nat /\ Len(b) \in Nat
  BY At, PathElements DEF LeafSet
<1>2. \A m \in 1 .. Len(b) : b[m] = f[m] /\ b[m] = q[m]
  BY <1>1, PrefixSteps
<1> SUFFICES ASSUME LeftOf(q, f) PROVE FALSE
  OBVIOUS
<1>3. PICK i \in 0 .. Len(q) - 1 : i < Len(f) /\ q[i + 1] = 0 /\ f[i + 1] = 1
  BY <1>1, LeftSteps
<1>4. i + 1 \in 1 .. Len(b) \/ i + 1 \in Len(b) + 1 .. Len(f)
  BY <1>1, <1>3
<1> QED
  BY <1>2, <1>3, <1>4

(* Going left all the way ends at a leaf. *)
LEMMA FirstLeaf ==
  ASSUME NEW t, Shape(t), NEW p \in DOMAIN t
  PROVE  \E f \in LeafSet(t) : IsPrefix(p, f) /\ \A j \in Len(p) + 1 .. Len(f) : f[j] = 0
<1> DEFINE Lefts(q) == IsPrefix(p, q) /\ \A j \in Len(p) + 1 .. Len(q) : q[j] = 0
           W == {q \in DOMAIN t : Lefts(q)}
           L == {n \in Nat : \E q \in W : n = Len(q)}
           b == Cardinality(DOMAIN t)
<1>1. p \in Paths /\ Len(p) \in Nat
  BY At
<1>2. p \in W
  <2>1. \A j \in Len(p) + 1 .. Len(p) : FALSE
    BY <1>1
  <2> QED
    BY <1>1, <2>1, PrefixSelf
<1>3. L # {} /\ L \subseteq 0 .. b /\ b \in Nat
  <2>1. \A q \in W : Len(q) \in Nat /\ Len(q) <= b /\ b \in Nat
    BY At, Depth
  <2>2. Len(p) \in L
    BY <1>1, <1>2
  <2> HIDE DEF b, W
  <2> QED
    BY <1>2, <2>1, <2>2
<1>4. PICK n \in L : \A m \in L : m <= n
  <2> HIDE DEF L, b
  <2> QED
    BY <1>3, MaxOf
<1>5. PICK q \in W : n = Len(q)
  BY <1>4
<1>6. q \in DOMAIN t /\ Lefts(q) /\ q \in Paths /\ Len(q) \in Nat
  BY <1>5, At
<1>7. CASE t[q] \in NodeRec
  <2> DEFINE a == Append(q, 0)
  <2>1. a \in DOMAIN t
    BY <1>6, <1>7, At
  <2>2. /\ a \in Paths /\ Len(a) = Len(q) + 1 /\ a[Len(q) + 1] = 0
        /\ \A i \in 1 .. Len(q) : a[i] = q[i]
    BY <1>6, AppendPath
  <2>3. IsPrefix(p, a)
    BY <1>1, <1>6, AppendPrefix
  <2> HIDE DEF a
  <2>4. ASSUME NEW j \in Len(p) + 1 .. Len(a) PROVE a[j] = 0
    <3>1. CASE j = Len(q) + 1
      BY <2>2, <3>1
    <3>2. CASE j # Len(q) + 1
      <4>1. j \in Len(p) + 1 .. Len(q) /\ j \in 1 .. Len(q)
        BY <1>1, <1>6, <2>2, <3>2
      <4> QED
        BY <1>6, <2>2, <4>1
    <3> QED
      BY <3>1, <3>2
  <2>5. a \in W
    BY <2>1, <2>3, <2>4
  <2>6. Len(a) \in L
    BY <1>6, <2>2, <2>5
  <2> HIDE DEF L, W
  <2> QED
    BY <1>4, <1>5, <1>6, <2>2, <2>6
<1>8. CASE t[q] \notin NodeRec
  BY <1>6, <1>8, At
<1> QED
  BY <1>7, <1>8

(* The stack that a descent makes: the prefixes of the first leaf. *)
LEMMA DescendIs ==
  ASSUME Shape(tree), NEW p \in DOMAIN tree
  PROVE  \E f \in LeafSet(tree) :
           /\ IsPrefix(p, f)
           /\ \A j \in Len(p) + 1 .. Len(f) : f[j] = 0
           /\ Descend(p) = [i \in 1 .. Len(f) - Len(p) + 1 |-> Up(f, Len(f) + 1 - i)]
<1> DEFINE Lefts(q) == \A j \in Len(p) + 1 .. Len(q) : q[j] = 0
           B == Below(p) \cap Leaves
           f == CHOOSE q \in B : Lefts(q)
<1>1. \A q : q \in B <=> q \in LeafSet(tree) /\ IsPrefix(p, q)
  BY LeavesAre DEF Below, LeafSet
<1>2. \E q \in B : Lefts(q)
  BY <1>1, FirstLeaf
<1>3. f \in B /\ Lefts(f)
  <2> HIDE DEF Lefts, B
  <2> QED
    BY <1>2
<1>4. Descend(p) = [i \in 1 .. Len(f) - Len(p) + 1 |-> Up(f, Len(f) + 1 - i)]
  BY DEF Descend
<1> HIDE DEF f, B
<1> QED
  BY <1>1, <1>3, <1>4

LEMMA LeftStep ==
  ASSUME NEW f \in Paths, NEW n \in 1 .. Len(f), f[n] = 0
  PROVE  LeftThenRight(Up(f, n - 1), Up(f, n))
<1> DEFINE x == Up(f, n - 1)
           y == Up(f, n)
<1>1. Len(f) \in Nat /\ n - 1 \in 0 .. Len(f) /\ n \in 0 .. Len(f) /\ n - 1 \in 0 .. n
  BY PathElements
<1>2. /\ x \in Paths /\ Len(x) = n - 1
      /\ y \in Paths /\ Len(y) = n /\ \A j \in 1 .. n : y[j] = f[j]
  BY <1>1, UpFacts
<1>3. Up(y, n - 1) = x
  BY <1>1, UpUp
<1> HIDE DEF x, y
<1>4. IsPrefix(x, y)
  BY <1>1, <1>2, <1>3, PrefixIsUp
<1>5. Len(x) < Len(y) /\ y[Len(x) + 1] = 0
  <2>1. Len(x) + 1 = n /\ n \in 1 .. n /\ Len(x) < Len(y)
    BY <1>1, <1>2
  <2> QED
    BY <1>2, <2>1
<1>6. \A j \in Len(x) + 2 .. Len(y) : FALSE
  BY <1>1, <1>2
<1>7. LeftThenRight(x, y)
  BY <1>2, <1>4, <1>5, <1>6, ChildPrefix DEF LeftThenRight
<1> QED
  BY <1>7 DEF x, y

(* A descent put on what is left of a stack makes a stack. *)
LEMMA DescendWalk ==
  ASSUME Shape(tree), NEW b \in Paths, NEW p \in DOMAIN tree, IsPrefix(b, p),
         NEW s \in Seq(DOMAIN tree),
         \A i \in 1 .. Len(s) : IsPrefix(b, s[i]),
         \A i \in 1 .. Len(s) - 1 : LeftThenRight(s[i + 1], s[i]),
         s # << >> => LeftThenRight(s[1], p) /\ OnlyRight(b, s[Len(s)]),
         s = << >> => OnlyRight(b, p)
  PROVE  \E f \in LeafSet(tree) :
           /\ IsPrefix(p, f)
           /\ \A j \in Len(p) + 1 .. Len(f) : f[j] = 0
           /\ Descend(p) \o s # << >> /\ (Descend(p) \o s)[1] = f
           /\ Walk(tree, Descend(p) \o s, b)
<1> DEFINE d == Descend(p)
           w == d \o s
           D == DOMAIN tree
<1>1. PICK f \in LeafSet(tree) :
        /\ IsPrefix(p, f)
        /\ \A j \in Len(p) + 1 .. Len(f) : f[j] = 0
        /\ d = [i \in 1 .. Len(f) - Len(p) + 1 |-> Up(f, Len(f) + 1 - i)]
  BY DescendIs
<1> DEFINE m == Len(f) - Len(p) + 1
<1>2. /\ f \in DOMAIN tree /\ f \in Paths /\ Len(f) \in Nat
      /\ p \in Paths /\ Len(p) \in Nat /\ Len(b) \in Nat
      /\ \A i \in 0 .. Len(f) : Up(f, i) \in D
  BY At, PathElements DEF LeafSet
<1>3. Len(p) \in 0 .. Len(f) /\ Up(f, Len(p)) = p
  BY <1>1, <1>2, PrefixIsUp
<1>4. m \in Nat /\ m >= 1 /\ 1 \in 1 .. m /\ m \in 1 .. m
  BY <1>2, <1>3
<1>5. \A i \in 1 .. m : Len(f) + 1 - i \in Len(p) .. Len(f) /\ Len(f) + 1 - i \in 0 .. Len(f)
  BY <1>2, <1>3
<1>6. d \in [1 .. m -> D] /\ \A i \in 1 .. m : d[i] = Up(f, Len(f) + 1 - i)
  BY <1>1, <1>2, <1>5
<1> HIDE DEF d, D
<1>7. d \in Seq(D) /\ Len(d) = m
  <2> HIDE DEF m
  <2> QED
    BY <1>4, <1>6
<1>8. d[1] = f
  <2>1. Len(f) + 1 - 1 = Len(f)
    BY <1>2
  <2> QED
    BY <1>2, <1>4, <1>6, <2>1, UpAll
<1>9. d[m] = p
  <2>1. Len(f) + 1 - m = Len(p)
    BY <1>2
  <2> QED
    BY <1>3, <1>4, <1>6, <2>1
<1>10. ASSUME NEW i \in 1 .. m PROVE IsPrefix(b, d[i])
  <2>1. Len(f) + 1 - i \in 0 .. Len(f) /\ Len(f) + 1 - i >= Len(p)
    BY <1>2, <1>5
  <2>2. Len(b) <= Len(p) /\ IsPrefix(b, f)
    <3>1. IsPrefix(b, Up(f, Len(p)))
      BY <1>3
    <3> QED
      BY <1>2, <1>3, <3>1, UpPrefix
  <2>3. Len(b) <= Len(f) + 1 - i
    BY <1>2, <2>1, <2>2
  <2>4. IsPrefix(b, Up(f, Len(f) + 1 - i))
    BY <1>2, <2>1, <2>2, <2>3, UpPrefix
  <2> QED
    BY <1>6, <2>4
<1>11. ASSUME NEW i \in 1 .. m - 1 PROVE LeftThenRight(d[i + 1], d[i])
  <2> DEFINE n == Len(f) + 1 - i
  <2>1. /\ n \in 1 .. Len(f) /\ n \in Len(p) + 1 .. Len(f)
        /\ Len(f) + 1 - (i + 1) = n - 1 /\ i \in 1 .. m /\ i + 1 \in 1 .. m
    BY <1>2, <1>3
  <2>2. d[i] = Up(f, n)
    BY <1>6, <2>1
  <2>3. d[i + 1] = Up(f, n - 1)
    BY <1>6, <2>1
  <2> HIDE DEF n
  <2>4. f[n] = 0
    BY <1>1, <2>1
  <2> QED
    BY <1>2, <2>1, <2>2, <2>3, <2>4, LeftStep
<1>12. /\ w \in Seq(D) /\ Len(w) = m + Len(s) /\ Len(s) \in Nat
       /\ \A i \in 1 .. m + Len(s) : w[i] = IF i <= m THEN d[i] ELSE s[i - m]
  <2>1. s \in Seq(D) /\ Len(s) \in Nat
    BY LenProperties DEF D
  <2> HIDE DEF m
  <2> QED
    BY <1>7, <2>1, ConcatProperties
<1> HIDE DEF m, w
<1>13. \A i \in 1 .. m : i \in 1 .. m + Len(s) /\ w[i] = d[i]
  <2>1. \A i \in 1 .. m : i \in 1 .. m + Len(s) /\ i <= m
    BY <1>4, <1>12
  <2> QED
    BY <1>12, <2>1
<1>14. \A i \in 1 .. Len(s) : m + i \in 1 .. m + Len(s) /\ w[m + i] = s[i]
  <2>1. \A i \in 1 .. Len(s) : m + i \in 1 .. m + Len(s) /\ ~(m + i <= m) /\ (m + i) - m = i
    BY <1>4, <1>12
  <2> QED
    BY <1>12, <2>1
<1>15. \A i \in 1 .. m + Len(s) : i \in 1 .. m \/ \E j \in 1 .. Len(s) : i = m + j
  <2>1. ASSUME NEW i \in 1 .. m + Len(s), ~(i \in 1 .. m)
        PROVE  i - m \in 1 .. Len(s) /\ i = m + (i - m)
    BY <1>4, <1>12, <2>1
  <2> QED
    BY <2>1
<1>16. s = << >> <=> Len(s) = 0
  BY EmptySeq
<1>17. \A i \in 1 .. Len(w) : IsPrefix(b, w[i])
  BY <1>10, <1>12, <1>13, <1>14, <1>15
<1>18. ASSUME NEW i \in 1 .. Len(w) - 1 PROVE LeftThenRight(w[i + 1], w[i])
  <2>1. CASE i < m
    <3>1. i \in 1 .. m - 1 /\ i \in 1 .. m /\ i + 1 \in 1 .. m
      BY <1>4, <2>1
    <3> QED
      BY <1>11, <1>13, <3>1
  <2>2. CASE i = m
    <3>1. 1 \in 1 .. Len(s) /\ Len(s) # 0
      BY <1>4, <1>12, <2>2
    <3>2. w[m] = p /\ w[m + 1] = s[1]
      BY <1>4, <1>9, <1>13, <1>14, <3>1
    <3> QED
      BY <1>16, <2>2, <3>1, <3>2
  <2>3. CASE i > m
    <3> DEFINE j == i - m
    <3>1. /\ j \in 1 .. Len(s) - 1 /\ j \in 1 .. Len(s) /\ j + 1 \in 1 .. Len(s)
          /\ i = m + j /\ i + 1 = m + (j + 1)
      BY <1>4, <1>12, <2>3
    <3> HIDE DEF j
    <3>2. w[i] = s[j] /\ w[i + 1] = s[j + 1]
      BY <1>14, <3>1
    <3> QED
      BY <3>1, <3>2
  <2> QED
    BY <1>4, <2>1, <2>2, <2>3
<1>19. OnlyRight(b, w[Len(w)])
  <2>1. CASE s = << >>
    <3>1. Len(w) = m
      BY <1>4, <1>12, <1>16, <2>1
    <3> QED
      BY <1>4, <1>9, <1>13, <2>1, <3>1
  <2>2. CASE s # << >>
    <3>1. Len(s) \in 1 .. Len(s) /\ Len(w) = m + Len(s)
      BY <1>12, <1>16, <2>2
    <3> QED
      BY <1>14, <2>2, <3>1
  <2> QED
    BY <2>1, <2>2
<1>20. w # << >> /\ w[1] = f
  <2>1. Len(w) # 0
    BY <1>4, <1>12
  <2> QED
    BY <1>4, <1>8, <1>12, <1>13, <2>1, EmptySeq
<1>21. Walk(tree, w, b)
  BY <1>1, <1>12, <1>17, <1>18, <1>19, <1>20 DEF Walk, D
<1> QED
  BY <1>1, <1>20, <1>21 DEF w, d

(* One more step to the right. *)
LEMMA RightStep ==
  ASSUME NEW x \in Paths, NEW a \in Paths
  PROVE  /\ LeftThenRight(x, a) => LeftThenRight(x, Append(a, 1))
         /\ OnlyRight(x, a) => OnlyRight(x, Append(a, 1))
<1> DEFINE y == Append(a, 1)
<1>1. /\ Len(a) \in Nat /\ Len(x) \in Nat /\ y \in Paths /\ Len(y) = Len(a) + 1
      /\ y[Len(a) + 1] = 1 /\ \A i \in 1 .. Len(a) : y[i] = a[i]
  BY AppendPath, PathElements
<1>2. IsPrefix(x, a) => IsPrefix(x, y)
  BY AppendPrefix
<1>3. IsPrefix(Append(x, 0), a) => IsPrefix(Append(x, 0), y)
  BY AppendPath, AppendPrefix
<1> HIDE DEF y
<1>4. ASSUME NEW n \in Nat, \A j \in n + 1 .. Len(a) : a[j] = 1, NEW j \in n + 1 .. Len(y)
      PROVE  y[j] = 1
  <2>1. CASE j = Len(a) + 1
    BY <1>1, <2>1
  <2>2. CASE j # Len(a) + 1
    <3>1. j \in n + 1 .. Len(a) /\ j \in 1 .. Len(a)
      BY <1>1, <2>2
    <3> QED
      BY <1>1, <1>4, <3>1
  <2> QED
    BY <2>1, <2>2
<1>5. Len(x) + 1 \in Nat /\ (Len(x) + 1) + 1 = Len(x) + 2
  BY <1>1
<1>6. ASSUME LeftThenRight(x, a) PROVE LeftThenRight(x, y)
  <2>1. \A j \in Len(x) + 2 .. Len(a) : a[j] = 1
    BY <1>6 DEF LeftThenRight
  <2>2. \A j \in Len(x) + 2 .. Len(y) : y[j] = 1
    BY <1>4, <1>5, <2>1
  <2> QED
    BY <1>3, <1>6, <2>2 DEF LeftThenRight
<1>7. ASSUME OnlyRight(x, a) PROVE OnlyRight(x, y)
  BY <1>1, <1>2, <1>4, <1>7 DEF OnlyRight
<1> QED
  BY <1>6, <1>7 DEF y

(* dict_iter_next passes one leaf, and no other. *)
LEMMA IterWalk ==
  ASSUME Shape(tree), NEW b \in DOMAIN tree, NEW s, Walk(tree, s, b), s # << >>
  PROVE  /\ s[1] \in LeafSet(tree) /\ Head(s) = s[1] /\ IsPrefix(b, s[1])
         /\ Walk(tree, Advance(Tail(s)), b)
         /\ \A q : q \in Passed(tree, Advance(Tail(s)), b) <=>
                     q \in Passed(tree, s, b) \/ q = s[1]
<1> DEFINE D == DOMAIN tree
           c == s[1]
           u == Tail(s)
<1>1. /\ s \in Seq(D) /\ Len(s) \in Nat /\ Len(s) >= 1 /\ 1 \in 1 .. Len(s)
      /\ \A i \in 1 .. Len(s) : IsPrefix(b, s[i])
      /\ \A i \in 1 .. Len(s) - 1 : LeftThenRight(s[i + 1], s[i])
      /\ c \in LeafSet(tree) /\ OnlyRight(b, s[Len(s)])
  <2>1. s \in Seq(D)
    BY DEF Walk
  <2>2. Len(s) \in Nat \ {0}
    BY <2>1, EmptySeq
  <2> QED
    BY <2>1, <2>2 DEF Walk
<1>2. b \in Paths /\ c \in DOMAIN tree /\ c \in Paths /\ IsPrefix(b, c)
  BY <1>1, At DEF LeafSet
<1>3. Head(s) = c
  BY <1>1
<1>4. u \in Seq(D) /\ Len(u) = Len(s) - 1 /\ \A i \in 1 .. Len(s) - 1 : u[i] = s[i + 1]
  <2> HIDE DEF D
  <2> QED
    BY <1>1
<1> HIDE DEF c, u
<1>5. \A q : q \in Passed(tree, s, b) <=> q \in LeafSet(tree) /\ IsPrefix(b, q) /\ LeftOf(q, c)
  BY DEF Passed, c
<1>6. CASE u = << >>
  <2>1. Advance(u) = << >>
    BY <1>6 DEF Advance
  <2>2. Len(s) = 1
    BY <1>1, <1>4, <1>6
  <2>3. OnlyRight(b, c)
    BY <1>1, <2>2 DEF c
  <2>4. Walk(tree, << >>, b)
    BY DEF Walk
  <2>5. \A q \in LeafSet(tree) : IsPrefix(b, q) => LeftOf(q, c) \/ q = c
    BY <1>1, <1>2, <2>3, LastLeaf
  <2>6. \A q : q \in Passed(tree, << >>, b) <=> q \in LeafSet(tree) /\ IsPrefix(b, q)
    BY DEF Passed
  <2>7. \A q : q \in Passed(tree, << >>, b) <=> q \in Passed(tree, s, b) \/ q = c
    BY <1>1, <1>2, <1>5, <2>5, <2>6
  <2> QED
    BY <1>1, <1>2, <1>3, <2>1, <2>4, <2>7 DEF c, u
<1>7. CASE u # << >>
  <2> DEFINE a == s[2]
             v == Tail(u)
             p == Append(a, 1)
  <2>1. Len(u) >= 1 /\ Len(u) \in Nat /\ Len(s) >= 2 /\ 1 \in 1 .. Len(s) - 1 /\ 2 \in 1 .. Len(s)
    <3>1. Len(u) \in Nat \ {0}
      BY <1>4, <1>7, EmptySeq
    <3> QED
      BY <1>1, <1>4, <3>1
  <2>2. Head(u) = a
    BY <1>4, <2>1
  <2>3. a \in D /\ IsPrefix(b, a) /\ LeftThenRight(a, c)
    <3>1. LeftThenRight(s[1 + 1], s[1])
      BY <1>1, <2>1
    <3> QED
      BY <1>1, <2>1, <3>1, ElementOfSeq DEF c
  <2>4. /\ v \in Seq(D) /\ Len(v) = Len(s) - 2 /\ Len(v) \in Nat
        /\ \A i \in 1 .. Len(s) - 2 : v[i] = s[i + 2]
    <3>1. v \in Seq(D) /\ Len(v) = Len(u) - 1 /\ \A i \in 1 .. Len(u) - 1 : v[i] = u[i + 1]
      <4> HIDE DEF D
      <4> QED
        BY <1>4, <2>1
    <3>2. \A i \in 1 .. Len(s) - 2 :
            i \in 1 .. Len(u) - 1 /\ i + 1 \in 1 .. Len(s) - 1 /\ (i + 1) + 1 = i + 2
      BY <1>1, <1>4
    <3>3. \A i \in 1 .. Len(s) - 2 : v[i] = s[i + 2]
      BY <1>4, <3>1, <3>2
    <3> HIDE DEF v
    <3> QED
      BY <1>1, <1>4, <2>1, <3>1, <3>3
  <2>5. Advance(u) = Descend(p) \o v
    BY <1>7, <2>2 DEF Advance
  <2> HIDE DEF v, a
  <2>6. a \in Paths /\ Len(a) \in Nat /\ p \in Paths /\ Len(p) = Len(a) + 1
    BY <2>3, At, AppendPath DEF D
  <2>7. p \in DOMAIN tree
    <3>1. IsPrefix(a, c) /\ Len(a) < Len(c)
      BY <1>2, <2>3, <2>6, ChildPrefix DEF LeftThenRight
    <3>2. Len(a) \in 0 .. Len(c) - 1 /\ Up(c, Len(a)) = a
      BY <1>2, <2>6, <3>1, PrefixIsUp, PathElements
    <3>3. tree[a] \in NodeRec
      BY <1>2, <3>2, At
    <3> QED
      BY <2>3, <3>3, At DEF D
  <2>8. IsPrefix(b, p)
    BY <1>2, <2>3, <2>6, AppendPrefix
  <2>9. \A i \in 1 .. Len(v) : IsPrefix(b, v[i])
    <3>1. \A i \in 1 .. Len(v) : i \in 1 .. Len(s) - 2 /\ i + 2 \in 1 .. Len(s)
      BY <1>1, <2>4
    <3> QED
      BY <1>1, <2>4, <3>1
  <2>10. \A i \in 1 .. Len(v) - 1 : LeftThenRight(v[i + 1], v[i])
    <3>1. ASSUME NEW i \in 1 .. Len(v) - 1 PROVE LeftThenRight(v[i + 1], v[i])
      <4>1. /\ i \in 1 .. Len(s) - 2 /\ i + 1 \in 1 .. Len(s) - 2
            /\ (i + 1) + 2 = (i + 2) + 1 /\ i + 2 \in 1 .. Len(s) - 1
        BY <1>1, <2>4
      <4>2. v[i] = s[i + 2] /\ v[i + 1] = s[(i + 2) + 1]
        BY <2>4, <4>1
      <4> QED
        BY <1>1, <4>1, <4>2
    <3> QED
      BY <3>1
  <2>11. ASSUME v # << >> PROVE LeftThenRight(v[1], p) /\ OnlyRight(b, v[Len(v)])
    <3>1. /\ Len(v) >= 1 /\ 1 \in 1 .. Len(s) - 2 /\ 2 \in 1 .. Len(s) - 1
          /\ Len(v) \in 1 .. Len(s) - 2 /\ Len(v) + 2 = Len(s) /\ 3 \in 1 .. Len(s)
      <4>1. Len(v) \in Nat \ {0}
        BY <2>4, <2>11, EmptySeq
      <4> QED
        BY <1>1, <2>4, <4>1
    <3>2. v[1] = s[2 + 1] /\ v[Len(v)] = s[Len(s)]
      BY <2>4, <3>1
    <3>3. LeftThenRight(v[1], a)
      BY <1>1, <3>1, <3>2 DEF a
    <3>4. v[1] \in Paths
      BY <1>1, <3>1, <3>2, ElementOfSeq, At DEF D
    <3> QED
      BY <1>1, <2>6, <3>2, <3>3, <3>4, RightStep
  <2>12. ASSUME v = << >> PROVE OnlyRight(b, p)
    <3>1. Len(s) = 2
      BY <1>1, <2>4, <2>12
    <3>2. OnlyRight(b, a)
      BY <1>1, <3>1 DEF a
    <3> QED
      BY <1>2, <2>6, <3>2, RightStep
  <2> HIDE DEF p
  <2>13. PICK f \in LeafSet(tree) :
           /\ IsPrefix(p, f)
           /\ \A j \in Len(p) + 1 .. Len(f) : f[j] = 0
           /\ Descend(p) \o v # << >> /\ (Descend(p) \o v)[1] = f
           /\ Walk(tree, Descend(p) \o v, b)
    BY <1>2, <2>4, <2>7, <2>8, <2>9, <2>10, <2>11, <2>12, DescendWalk DEF D
  <2> DEFINE w == Advance(u)
  <2>14. w # << >> /\ w[1] = f /\ Walk(tree, w, b)
    BY <2>5, <2>13
  <2>15. \A q \in LeafSet(tree) : LeftOf(q, f) <=> LeftOf(q, c) \/ q = c
    <3>1. Len(p) + 1 = Len(a) + 2
      BY <2>6
    <3>2. \A j \in Len(a) + 2 .. Len(f) : f[j] = 0
      BY <2>13, <3>1
    <3> QED
      BY <1>1, <2>3, <2>6, <2>13, <3>2, NextLeaf DEF p
  <2> HIDE DEF w
  <2>16. \A q : q \in Passed(tree, w, b) <=> q \in LeafSet(tree) /\ IsPrefix(b, q) /\ LeftOf(q, f)
    BY <2>14 DEF Passed
  <2>17. \A q : q \in Passed(tree, w, b) <=> q \in Passed(tree, s, b) \/ q = c
    BY <1>1, <1>2, <1>5, <2>15, <2>16
  <2> QED
    BY <1>1, <1>2, <1>3, <2>14, <2>17 DEF w, c, u
<1> QED
  BY <1>6, <1>7

(* iter_create: nothing is passed yet. *)
LEMMA StartListing ==
  ASSUME Shape(tree), NEW b \in DOMAIN tree, NEW ps,
         \A q \in LeafSet(tree) : IsPrefix(b, q) <=> IsPrefix(ps, tree[q].key)
  PROVE  Listing(tree, Descend(b), ps, << >>, b)
<1> DEFINE d == Descend(b)
           e == << >>
           D == DOMAIN tree
<1>1. b \in Paths /\ IsPrefix(b, b) /\ Len(b) \in Nat
  BY At, PrefixSelf
<1>2. OnlyRight(b, b)
  <2>1. \A j \in Len(b) + 1 .. Len(b) : FALSE
    BY <1>1
  <2> QED
    BY <1>1, <2>1 DEF OnlyRight
<1>3. e \in Seq(DOMAIN tree) /\ Len(e) = 0
  OBVIOUS
<1>4. PICK f \in LeafSet(tree) :
        /\ IsPrefix(b, f)
        /\ \A j \in Len(b) + 1 .. Len(f) : f[j] = 0
        /\ d \o e # << >> /\ (d \o e)[1] = f
        /\ Walk(tree, d \o e, b)
  <2>1. \A i \in 1 .. Len(e) : IsPrefix(b, e[i])
    BY <1>3
  <2>2. \A i \in 1 .. Len(e) - 1 : LeftThenRight(e[i + 1], e[i])
    BY <1>3
  <2>3. e # << >> => LeftThenRight(e[1], b) /\ OnlyRight(b, e[Len(e)])
    OBVIOUS
  <2>4. e = << >> => OnlyRight(b, b)
    BY <1>2
  <2> HIDE DEF e
  <2> QED
    BY <1>1, <1>3, <2>1, <2>2, <2>3, <2>4, DescendWalk
<1>5. d \o e = d
  <2>1. PICK g \in LeafSet(tree) :
          IsPrefix(b, g) /\ d = [i \in 1 .. Len(g) - Len(b) + 1 |-> Up(g, Len(g) + 1 - i)]
    BY DescendIs
  <2> DEFINE m == Len(g) - Len(b) + 1
  <2>2. /\ g \in Paths /\ Len(g) \in Nat /\ Len(b) \in 0 .. Len(g)
        /\ \A i \in 0 .. Len(g) : Up(g, i) \in D
    <3>1. g \in DOMAIN tree
      BY DEF LeafSet
    <3> QED
      BY <1>1, <2>1, <3>1, At, PrefixIsUp
  <2>3. m \in Nat /\ \A i \in 1 .. m : Len(g) + 1 - i \in 0 .. Len(g)
    BY <1>1, <2>2
  <2>4. d \in [1 .. m -> D]
    BY <2>1, <2>2, <2>3
  <2>5. d \in Seq(D)
    <3> HIDE DEF m, d, D
    <3> QED
      BY <2>3, <2>4
  <2> HIDE DEF d, D
  <2> QED
    BY <2>5, ConcatEmptySeq
<1>6. Passed(tree, d, b) = {}
  BY <1>1, <1>4, <1>5, FirstComes DEF Passed
<1>7. \A i \in 1 .. Len(e) : FALSE
  BY <1>3
<1> HIDE DEF d, e
<1>8. Listing(tree, d, ps, e, b)
  BY <1>4, <1>5, <1>6, <1>7 DEF Listing
<1> QED
  BY <1>8 DEF d, e

(* dict_iter_next: the next pair comes after the others. *)
LEMMA IterListing ==
  ASSUME CritBitTree(tree), NEW b \in DOMAIN tree, NEW s, s # << >>, NEW ps,
         NEW l \in Seq(Keys \X Values), Listing(tree, s, ps, l, b)
  PROVE  /\ Pair(tree, Head(s)) \in Keys \X Values
         /\ Listing(tree, Advance(Tail(s)), ps, Append(l, Pair(tree, Head(s))), b)
<1> DEFINE c == Head(s)
           w == Advance(Tail(s))
           e == Pair(tree, c)
           m == Append(l, e)
           Q == Keys \X Values
           n == Len(l)
<1>1. Shape(tree) /\ Walk(tree, s, b)
  BY DEF CritBitTree, Listing
<1>2. /\ c \in LeafSet(tree) /\ IsPrefix(b, c) /\ c = s[1]
      /\ Walk(tree, w, b)
      /\ \A q : q \in Passed(tree, w, b) <=> q \in Passed(tree, s, b) \/ q = c
  <2>1. s[1] \in LeafSet(tree) /\ Head(s) = s[1] /\ IsPrefix(b, s[1])
    BY <1>1, IterWalk
  <2> QED
    BY <1>1, <2>1, IterWalk
<1> HIDE DEF c, w
<1>3. e \in Q /\ e[1] = tree[c].key
  BY <1>2, LeafFields DEF Pair, LeafSet
<1>4. /\ n \in Nat /\ Len(m) = n + 1 /\ m[n + 1] = e
      /\ \A i \in 1 .. n : m[i] = l[i]
  <2> HIDE DEF Q, e
  <2> QED
    BY <1>3, AppendProperties, LenProperties DEF Q
<1> HIDE DEF e, m
<1>5. \A i \in 1 .. Len(m) : i \in 1 .. n \/ i = n + 1
  BY <1>4
<1>6. \A i \in 1 .. n : i \in 1 .. Len(m)
  BY <1>4
<1>7. n + 1 \in 1 .. Len(m)
  BY <1>4
<1> HIDE DEF n
<1>8. /\ \A i \in 1 .. n : \E q \in Passed(tree, s, b) : l[i] = Pair(tree, q)
      /\ \A q \in Passed(tree, s, b) : \E i \in 1 .. n : l[i] = Pair(tree, q)
      /\ \A i, j \in 1 .. n : i < j => Before(l[i][1], l[j][1])
      /\ \A q \in LeafSet(tree) : IsPrefix(b, q) <=> IsPrefix(ps, tree[q].key)
  BY DEF Listing, n
<1>9. ASSUME NEW i \in 1 .. Len(m) PROVE \E q \in Passed(tree, w, b) : m[i] = Pair(tree, q)
  <2>1. CASE i \in 1 .. n
    BY <1>2, <1>4, <1>8, <2>1
  <2>2. CASE i = n + 1
    BY <1>2, <1>4, <2>2 DEF e
  <2> QED
    BY <1>5, <2>1, <2>2
<1>10. ASSUME NEW q \in Passed(tree, w, b) PROVE \E i \in 1 .. Len(m) : m[i] = Pair(tree, q)
  <2>1. CASE q \in Passed(tree, s, b)
    BY <1>4, <1>6, <1>8, <2>1
  <2>2. CASE q = c
    BY <1>4, <1>7, <2>2 DEF e
  <2> QED
    BY <1>2, <2>1, <2>2
<1>11. ASSUME NEW i \in 1 .. Len(m), NEW j \in 1 .. Len(m), i < j
       PROVE  Before(m[i][1], m[j][1])
  <2>1. CASE j \in 1 .. n
    <3>1. i \in 1 .. n
      BY <1>4, <1>11, <2>1
    <3>2. m[i] = l[i] /\ m[j] = l[j]
      BY <1>4, <2>1, <3>1
    <3> QED
      BY <1>8, <1>11, <2>1, <3>1, <3>2
  <2>2. CASE j = n + 1
    <3>1. i \in 1 .. n
      BY <1>4, <1>11, <2>2
    <3>2. PICK q \in Passed(tree, s, b) : l[i] = Pair(tree, q)
      BY <1>8, <3>1
    <3>3. q \in LeafSet(tree) /\ LeftOf(q, c)
      BY <1>2, <3>2 DEF Passed
    <3>4. m[i][1] = tree[q].key
      BY <1>4, <3>1, <3>2 DEF Pair
    <3>5. m[j][1] = tree[c].key
      BY <1>3, <1>4, <2>2
    <3> QED
      BY <1>2, <3>3, <3>4, <3>5, LeftBefore
  <2> QED
    BY <1>5, <2>1, <2>2
<1>12. Listing(tree, w, ps, m, b)
  BY <1>2, <1>8, <1>9, <1>10, <1>11 DEF Listing
<1> QED
  BY <1>3, <1>12 DEF w, m, e, c

(* get_prefix: the leaves below the top are those whose keys have the       *)
(* prefix.                                                                  *)
LEMMA TopBelow ==
  ASSUME CritBitTree(tree), NEW p \in Bytes, HasPrefix(p)
  PROVE  /\ Top(p) \in DOMAIN tree
         /\ \A q \in LeafSet(tree) : IsPrefix(Top(p), q) <=> IsPrefix(p, tree[q].key)
<1> DEFINE r == Closest(p)
           l == tree[r].key
           S == {0} \cup {i \in DOMAIN r : tree[Up(r, i - 1)].byte < Len(p)}
           M == Max(S)
           b == Up(r, M)
<1>1. Shape(tree) /\ OnPath(tree) /\ Sharing(tree) /\ Ordered(tree) /\ tree # NoTree /\ IsPrefix(p, l)
  BY DEF CritBitTree, HasPrefix, Matches
<1>2. r \in LeafSet(tree)
  BY <1>1, ClosestIs
<1>3. Top(p) = b
  BY DEF Top
<1> HIDE DEF r
<1>4. /\ r \in DOMAIN tree /\ r \in Paths /\ Len(r) \in Nat /\ DOMAIN r = 1 .. Len(r)
      /\ l \in Bytes /\ Len(p) \in Nat
      /\ \A i \in 0 .. Len(r) : Up(r, i) \in DOMAIN tree
      /\ \A i \in 0 .. Len(r) - 1 : tree[Up(r, i)] \in NodeRec
  BY <1>1, <1>2, At, LeafFields, PathElements, KeyElements DEF LeafSet
<1>5. M \in S /\ (\A i \in S : i <= M) /\ M \in 0 .. Len(r)
  <2>1. S \subseteq 0 .. Len(r) /\ S # {}
    BY <1>4
  <2> HIDE DEF S
  <2>2. M \in S /\ \A i \in S : i <= M
    BY <1>4, <2>1, MaxOf
  <2> QED
    BY <2>1, <2>2
<1> HIDE DEF M
<1>6. /\ b \in DOMAIN tree /\ b \in Paths /\ Len(b) = M
      /\ \A j \in 1 .. M : b[j] = r[j]
  BY <1>4, <1>5, UpFacts
<1> HIDE DEF b
<1>7. IsPrefix(b, r)
  <2>1. \A j \in 1 .. Len(b) : b[j] = r[j]
    BY <1>6
  <2> QED
    BY <1>4, <1>5, <1>6, <2>1, PrefixSteps
<1>8. \A j \in 0 .. Len(p) - 1 : ByteAt(l, j) = ByteAt(p, j)
  BY <1>1, <1>4, PrefixBytes
<1> HIDE DEF l
<1>9. ASSUME NEW q \in LeafSet(tree)
      PROVE  IsPrefix(b, q) <=> IsPrefix(p, tree[q].key)
  <2> DEFINE k == tree[q].key
  <2>1. CASE q = r
    BY <1>1, <1>7, <2>1 DEF l
  <2>2. CASE q # r
    <3>1. PICK i \in 0 .. Len(q) - 1 :
            i < Len(r) /\ Up(q, i) = Up(r, i) /\ q[i + 1] # r[i + 1]
      BY <1>1, <1>2, <2>2, LeavesPart
    <3>2. q \in DOMAIN tree /\ q \in Paths /\ Len(q) \in Nat /\ k \in Bytes
      BY <1>1, At, LeafFields DEF LeafSet
    <3>3. /\ i \in Nat /\ i \in 0 .. Len(r) - 1 /\ i \in 0 .. Len(r) /\ i \in 0 .. Len(q)
          /\ i + 1 \in 1 .. Len(r)
      BY <1>4, <3>1, <3>2
    <3>4. \A m \in 1 .. i : q[m] = r[m]
      BY <1>4, <3>1, <3>2, <3>3, UpEqual
    <3> DEFINE z == Up(r, i)
               byte == tree[z].byte
               bit == tree[z].bit
               N == PosOf(byte, bit)
    <3>5. tree[z] \in NodeRec /\ byte \in Nat /\ bit \in 0 .. 7 /\ Pos(tree[z]) = N
      <4>1. tree[z] \in NodeRec
        BY <1>4, <3>3
      <4> QED
        BY <4>1, NodeFields DEF Pos
    <3>6. q[i + 1] = KeyBit(k, N) /\ r[i + 1] = KeyBit(l, N)
      <4>1. r[i + 1] = KeyBit(l, Pos(tree[Up(r, i)]))
        BY <1>1, <1>2, <3>3 DEF OnPath, Follows, l
      <4>2. q[i + 1] = KeyBit(k, Pos(tree[Up(q, i)]))
        BY <1>1, <3>1 DEF OnPath, Follows
      <4> QED
        BY <3>1, <3>5, <4>1, <4>2
    <3>7. Agree(k, l, N)
      BY <1>1, <1>2, <3>1, <3>5 DEF Sharing, l
    <3>8. i + 1 \in S <=> byte < Len(p)
      <4>1. (i + 1) - 1 = i /\ i + 1 # 0
        BY <3>3
      <4> QED
        BY <1>4, <3>3, <4>1
    <3> HIDE DEF k
    <3>9. ASSUME IsPrefix(b, q) PROVE IsPrefix(p, k)
      <4>1. ~(i + 1 \in 1 .. M)
        <5>1. \A m \in 1 .. M : b[m] = q[m]
          BY <1>6, <3>2, <3>9, PrefixSteps
        <5> QED
          BY <1>6, <3>1, <5>1
      <4>2. ~(i + 1 <= M)
        BY <1>5, <3>3, <4>1
      <4>3. ~(byte < Len(p))
        BY <1>5, <3>8, <4>2
      <4> HIDE DEF z, byte, bit, N
      <4>4. \A j \in 0 .. byte - 1 : ByteAt(k, j) = ByteAt(l, j)
        BY <1>4, <3>2, <3>5, <3>7, AgreeBytes DEF N
      <4>5. \A j \in 0 .. Len(p) - 1 : j \in 0 .. byte - 1
        BY <1>4, <3>5, <4>3
      <4>6. \A j \in 0 .. Len(p) - 1 : ByteAt(k, j) = ByteAt(p, j)
        BY <1>8, <4>4, <4>5
      <4> QED
        BY <3>2, <4>6, PrefixBytes
    <3>10. ASSUME IsPrefix(p, k) PROVE IsPrefix(b, q)
      <4>1. M <= i
        <5> SUFFICES ASSUME ~(M <= i) PROVE FALSE
          OBVIOUS
        <5>1. M # 0 /\ M - 1 \in 0 .. Len(r) - 1 /\ i <= M - 1
          BY <1>4, <1>5, <3>3
        <5> DEFINE y == Up(r, M - 1)
        <5>2. tree[y].byte < Len(p)
          BY <1>5, <5>1
        <5>3. tree[y] \in NodeRec /\ tree[y].byte \in Nat /\ tree[y].bit \in 0 .. 7
          BY <1>4, <5>1, NodeFields
        <5>4. Pos(tree[z]) <= Pos(tree[y])
          <6>1. CASE i = M - 1
            <7>1. Pos(tree[y]) \in Nat
              BY <5>3, NodeFields
            <7> QED
              BY <6>1, <7>1
          <6>2. CASE i # M - 1
            <7>1. i \in 0 .. M - 1 /\ M - 1 \in 0 .. Len(r)
              BY <1>4, <3>3, <5>1
            <7>2. y \in DOMAIN tree /\ Len(y) = M - 1 /\ Up(y, i) = z
              BY <1>4, <5>1, <7>1, UpFacts, UpUp
            <7>3. i \in 0 .. Len(y) - 1
              BY <1>5, <3>3, <5>1, <6>2, <7>2
            <7>4. Pos(tree[z]) < Pos(tree[y])
              BY <1>1, <5>3, <7>2, <7>3 DEF Ordered
            <7>5. Pos(tree[z]) \in Nat /\ Pos(tree[y]) \in Nat
              BY <3>5, <5>3, NodeFields
            <7> QED
              BY <7>4, <7>5
          <6> QED
            BY <6>1, <6>2
        <5>5. byte < Len(p)
          <6> DEFINE c == tree[y].byte
                     e == tree[y].bit
          <6>1. PosOf(byte, bit) <= PosOf(c, e)
            BY <3>5, <5>4 DEF Pos
          <6>2. c \in Nat /\ e \in 0 .. 7 /\ c < Len(p)
            BY <5>2, <5>3
          <6> HIDE DEF c, e, byte, bit
          <6>3. byte <= c
            BY <3>5, <6>1, <6>2 DEF PosOf
          <6> QED
            BY <1>4, <3>5, <6>2, <6>3
        <5> HIDE DEF z, byte, bit, N
        <5>6. byte \in 0 .. Len(p) - 1
          BY <1>4, <3>5, <5>5
        <5>7. ByteAt(k, byte) = ByteAt(p, byte)
          BY <3>2, <3>10, <5>6, PrefixBytes
        <5>8. ByteAt(l, byte) = ByteAt(p, byte)
          BY <1>8, <5>6
        <5>9. KeyBit(k, N) = Bit(ByteAt(k, byte), bit) /\ KeyBit(l, N) = Bit(ByteAt(l, byte), bit)
          BY <3>5, KeyBitAt DEF N
        <5> QED
          BY <3>1, <3>6, <5>7, <5>8, <5>9
      <4>2. \A m \in 1 .. Len(b) : m \in 1 .. M /\ m \in 1 .. i
        BY <1>5, <1>6, <3>3, <4>1
      <4>3. \A m \in 1 .. Len(b) : b[m] = q[m]
        BY <1>6, <3>4, <4>2
      <4>4. Len(b) \in 0 .. Len(q)
        BY <1>5, <1>6, <3>2, <3>3, <4>1
      <4> QED
        BY <1>6, <3>2, <4>3, <4>4, PrefixSteps
    <3> QED
      BY <3>9, <3>10 DEF k
  <2> QED
    BY <2>1, <2>2
<1> QED
  BY <1>3, <1>6, <1>9

(* The size that iter_create trusts. *)
LEMMA EmptySize ==
  ASSUME DictInv
  PROVE  size = 0 <=> tree = NoTree
<1> DEFINE D == DOMAIN Contents(tree)
<1>1. Shape(tree) /\ D = {tree[q].key : q \in LeafSet(tree)} /\ IsFiniteSet(D)
  BY ContentsAt DEF DictInv, CritBitTree
<1>2. size = Cardinality(D)
  BY DEF DictInv
<1>3. Cardinality(D) = 0 <=> D = {}
  <2> HIDE DEF D
  <2> QED
    BY <1>1, FS_EmptySet
<1>4. tree = NoTree => LeafSet(tree) = {}
  BY <1>1, EmptyTree DEF LeafSet
<1>5. tree # NoTree => LeafSet(tree) # {}
  <2>1. << >> \in Bytes
    BY DEF Bytes
  <2> QED
    BY <1>1, <2>1, EmptyTree, LeafReached
<1>6. D = {} <=> LeafSet(tree) = {}
  BY <1>1
<1> QED
  BY <1>2, <1>3, <1>4, <1>5, <1>6

(* rgetall: every key has the empty prefix. *)
LEMMA RootBelow ==
  ASSUME CritBitTree(tree), tree # NoTree
  PROVE  /\ Root \in DOMAIN tree
         /\ \A q \in LeafSet(tree) : IsPrefix(Root, q) <=> IsPrefix(<< >>, tree[q].key)
<1>1. Shape(tree) /\ Root \in DOMAIN tree /\ Root \in Paths /\ Len(Root) = 0
  BY EmptyTree, RootInTree DEF CritBitTree
<1>2. ASSUME NEW q \in LeafSet(tree)
      PROVE  IsPrefix(Root, q) /\ IsPrefix(<< >>, tree[q].key)
  <2>1. q \in Paths /\ Len(q) \in Nat /\ tree[q].key \in Bytes
    BY <1>1, At, LeafFields DEF LeafSet
  <2>2. IsPrefix(Root, q)
    <3>1. Len(Root) \in 0 .. Len(q) /\ \A i \in 1 .. Len(Root) : FALSE
      BY <1>1, <2>1
    <3> QED
      BY <1>1, <2>1, <3>1, PrefixSteps
  <2>3. IsPrefix(<< >>, tree[q].key)
    <3> DEFINE e == << >>
    <3>1. e \in Bytes /\ \A i \in 0 .. Len(e) - 1 : FALSE
      BY DEF Bytes
    <3> HIDE DEF e
    <3>2. IsPrefix(e, tree[q].key)
      BY <2>1, <3>1, PrefixBytes
    <3> QED
      BY <3>2 DEF e
  <2> QED
    BY <2>2, <2>3
<1> QED
  BY <1>1, <1>2

(* While no iterator runs, there is no stack and no reply. *)
LEMMA ListIdle ==
  ASSUME ListInv, pc # "list", UNCHANGED iterVars, pc' # "list"
  PROVE  ListInv'
  BY DEF ListInv, iterVars

(* iter_create at the top of the keys that have the prefix. *)
LEMMA ListStarts ==
  ASSUME DictInv, ListInv, pc # "list", NEW b,
         tree # NoTree => /\ b \in DOMAIN tree
                         /\ \A q \in LeafSet(tree) : IsPrefix(b, q) <=> IsPrefix(prefix', tree[q].key),
         stack' = IterCreate(b), pc' = "list", UNCHANGED <<dictVars, kvs>>
  PROVE  ListInv'
<1>1. tree' = tree /\ kvs = << >> /\ kvs' = << >> /\ Shape(tree)
  BY DEF ListInv, dictVars, DictInv, CritBitTree
<1>2. kvs' \in Seq(Keys \X Values)
  BY <1>1
<1>3. CASE tree = NoTree
  <2>1. stack' = << >>
    BY <1>3, EmptySize DEF IterCreate
  <2> QED
    BY <1>1, <1>2, <1>3, <2>1 DEF ListInv
<1>4. CASE tree # NoTree
  <2>1. stack' = Descend(b)
    BY <1>4, EmptySize DEF IterCreate
  <2>2. b \in DOMAIN tree /\ Listing(tree, stack', prefix', kvs', b)
    BY <1>1, <1>4, <2>1, StartListing
  <2> QED
    BY <1>1, <1>2, <1>4, <2>2 DEF ListInv
<1> QED
  BY <1>3, <1>4

LEMMA NextList ==
  ASSUME DictInv, RestInv, ListInv, [TrieNext]_trieVars
  PROVE  ListInv'
<1>1. ASSUME NEW k \in Keys, NEW v \in Values, RsetOverwrite(k, v) PROVE ListInv'
  BY <1>1, ListIdle DEF RsetOverwrite
<1>2. ASSUME NEW k \in Keys, NEW v \in Values, RsetNew(k, v) PROVE ListInv'
  BY <1>2, ListIdle DEF RsetNew
<1>3. ASSUME NEW k \in Keys, Rdel(k) PROVE ListInv'
  BY <1>3, ListIdle DEF Rdel
<1>4. ASSUME NEW k \in Keys, RdelAbsent(k) PROVE ListInv'
  BY <1>4, ListIdle DEF RdelAbsent
<1>5. CASE Clear
  BY <1>5, ListIdle DEF Clear
<1>6. CASE Rgetall
  <2>1. /\ pc # "list" /\ prefix' = << >> /\ stack' = IterCreate(Root)
        /\ pc' = "list" /\ UNCHANGED <<dictVars, kvs>>
    BY <1>6 DEF Rgetall
  <2>2. tree # NoTree =>
          /\ Root \in DOMAIN tree
          /\ \A q \in LeafSet(tree) : IsPrefix(Root, q) <=> IsPrefix(prefix', tree[q].key)
    BY <2>1, RootBelow DEF DictInv
  <2> QED
    BY <2>1, <2>2, ListStarts
<1>7. ASSUME NEW p \in Asked, Rpget(p) PROVE ListInv'
  <2>1. /\ pc # "list" /\ prefix' = p /\ stack' = IterCreate(Top(p))
        /\ pc' = "list" /\ UNCHANGED <<dictVars, kvs>>
        /\ size = 0 \/ HasPrefix(p)
    BY <1>7 DEF Rpget
  <2>2. p \in Bytes
    BY KeysAreBytes
  <2>3. tree # NoTree =>
          /\ Top(p) \in DOMAIN tree
          /\ \A q \in LeafSet(tree) : IsPrefix(Top(p), q) <=> IsPrefix(prefix', tree[q].key)
    BY <2>1, <2>2, EmptySize, TopBelow DEF DictInv
  <2> DEFINE b == Top(p)
  <2> HIDE DEF b
  <2>4. stack' = IterCreate(b)
    BY <2>1 DEF b
  <2>5. tree # NoTree =>
          /\ b \in DOMAIN tree
          /\ \A q \in LeafSet(tree) : IsPrefix(b, q) <=> IsPrefix(prefix', tree[q].key)
    BY <2>3 DEF b
  <2> QED
    BY <2>1, <2>4, <2>5, ListStarts
<1>8. ASSUME NEW p \in Asked, RpgetAbsent(p) PROVE ListInv'
  BY <1>8, ListIdle DEF RpgetAbsent
<1>9. CASE IterNext
  <2>1. /\ pc = "list" /\ pc' = "list" /\ stack # << >>
        /\ kvs' = Append(kvs, Pair(tree, Head(stack)))
        /\ stack' = Advance(Tail(stack)) /\ tree' = tree /\ prefix' = prefix
    BY <1>9 DEF IterNext, dictVars, Pair
  <2>2. tree # NoTree /\ kvs \in Seq(Keys \X Values)
    BY <2>1 DEF ListInv
  <2>3. PICK b \in DOMAIN tree : Listing(tree, stack, prefix, kvs, b)
    BY <2>1, <2>2 DEF ListInv
  <2>4. /\ Pair(tree, Head(stack)) \in Keys \X Values
        /\ Listing(tree, Advance(Tail(stack)), prefix, Append(kvs, Pair(tree, Head(stack))), b)
    BY <2>1, <2>2, <2>3, IterListing DEF DictInv
  <2>5. Listing(tree', stack', prefix', kvs', b) /\ b \in DOMAIN tree'
    BY <2>1, <2>3, <2>4
  <2>6. kvs' \in Seq(Keys \X Values)
    <3> DEFINE Q == Keys \X Values
               e == Pair(tree, Head(stack))
    <3>1. kvs \in Seq(Q) /\ e \in Q /\ kvs' = Append(kvs, e)
      BY <2>1, <2>2, <2>4
    <3> HIDE DEF Q, e
    <3>2. kvs' \in Seq(Q)
      BY <3>1, AppendProperties
    <3> QED
      BY <3>2 DEF Q
  <2> QED
    BY <2>1, <2>2, <2>5, <2>6 DEF ListInv
<1>10. CASE ListDone
  <2>1. pc' # "list" /\ stack' = << >> /\ kvs' = << >>
    BY <1>10 DEF ListDone
  <2> QED
    BY <2>1 DEF ListInv
<1>11. CASE UNCHANGED trieVars
  BY <1>11 DEF trieVars, dictVars, iterVars, ListInv
<1> QED
  BY <1>1, <1>2, <1>3, <1>4, <1>5, <1>6, <1>7, <1>8, <1>9, <1>10, <1>11 DEF TrieNext

(* The reply that is complete. *)
LEMMA ListFollows ==
  ASSUME DictInv, ListInv
  PROVE  ListsMatching
<1>1. CritBitTree(tree) /\ Shape(tree) /\ content = Contents(tree)
  BY ContentIs DEF DictInv, CritBitTree
<1>2. IteratorAsserts
  <2>1. CASE stack = << >>
    <3>1. DOMAIN stack = {}
      BY <2>1
    <3> QED
      BY <3>1 DEF IteratorAsserts
  <2>2. CASE stack # << >>
    <3>1. pc = "list" /\ tree # NoTree
      BY <2>2 DEF ListInv
    <3>2. PICK b \in DOMAIN tree : Walk(tree, stack, b)
      BY <3>1 DEF ListInv, Listing
    <3> DEFINE D == DOMAIN tree
    <3>3. /\ stack \in Seq(D) /\ stack[1] \in LeafSet(tree)
          /\ \A i \in 1 .. Len(stack) - 1 : LeftThenRight(stack[i + 1], stack[i])
      BY <2>2, <3>2 DEF Walk
    <3>4. /\ Len(stack) \in Nat /\ DOMAIN stack = 1 .. Len(stack)
          /\ \A i \in 1 .. Len(stack) : stack[i] \in D
      <4> HIDE DEF D
      <4> QED
        BY <3>3, LenProperties, ElementOfSeq
    <3>5. \A q \in DOMAIN tree : IsLeaf(q) <=> q \in LeafSet(tree)
      BY <1>1, LeavesAre DEF Leaves
    <3>6. ASSUME NEW i \in 1 .. Len(stack), i # 1 PROVE stack[i] \notin LeafSet(tree)
      <4> DEFINE x == stack[i]
                 y == stack[i - 1]
      <4>1. i - 1 \in 1 .. Len(stack) - 1 /\ i - 1 \in 1 .. Len(stack) /\ (i - 1) + 1 = i
        BY <3>4, <3>6
      <4>2. LeftThenRight(x, y)
        BY <3>3, <4>1
      <4>3. x \in DOMAIN tree /\ y \in DOMAIN tree
        BY <3>4, <4>1
      <4> HIDE DEF x, y
      <4>4. x \in Paths /\ y \in Paths /\ Len(x) \in Nat /\ Len(y) \in Nat
        BY <1>1, <4>3, At
      <4>5. IsPrefix(x, y) /\ Len(x) < Len(y)
        BY <4>2, <4>4, ChildPrefix DEF LeftThenRight
      <4>6. Len(x) \in 0 .. Len(y) - 1 /\ Up(y, Len(x)) = x
        BY <4>4, <4>5, PrefixIsUp
      <4>7. tree[x] \in NodeRec
        BY <1>1, <4>3, <4>6, At
      <4>8. x \notin LeafSet(tree)
        BY <1>1, <4>3, <4>7, At
      <4> QED
        BY <4>8 DEF x
    <3>7. ASSUME NEW i \in DOMAIN stack PROVE IsLeaf(stack[i]) <=> i = 1
      BY <3>3, <3>4, <3>5, <3>6
    <3> QED
      BY <3>7 DEF IteratorAsserts
  <2> QED
    BY <2>1, <2>2
<1>3. ASSUME pc = "list", stack = << >>
      PROVE  /\ ToSet(kvs) = {<<k, content[k]>> : k \in {x \in DOMAIN content : IsPrefix(prefix, x)}}
             /\ \A i, j \in DOMAIN kvs : i < j => Before(kvs[i][1], kvs[j][1])
  <2> DEFINE m == Contents(tree)
             E == {<<k, m[k]>> : k \in {x \in DOMAIN m : IsPrefix(prefix, x)}}
  <2>1. /\ DOMAIN m = {tree[q].key : q \in LeafSet(tree)}
        /\ \A q \in LeafSet(tree) : m[tree[q].key] = tree[q].val
    BY <1>1, ContentsAt
  <2> HIDE DEF m
  <2>2. DOMAIN kvs = 1 .. Len(kvs) /\ ToSet(kvs) = {kvs[i] : i \in DOMAIN kvs}
    BY LenProperties DEF ListInv, ToSet
  <2>3. CASE tree = NoTree
    <3>1. LeafSet(tree) = {}
      BY <1>1, <2>3, EmptyTree DEF LeafSet
    <3>2. kvs = << >>
      BY <2>3 DEF ListInv
    <3>3. DOMAIN kvs = {}
      BY <3>2
    <3>4. DOMAIN m = {}
      BY <2>1, <3>1
    <3> QED
      BY <1>1, <2>2, <3>3, <3>4 DEF m
  <2>4. CASE tree # NoTree
    <3>1. PICK b \in DOMAIN tree : Listing(tree, stack, prefix, kvs, b)
      BY <1>3, <2>4 DEF ListInv
    <3>2. \A q : q \in Passed(tree, stack, b) <=> q \in LeafSet(tree) /\ IsPrefix(prefix, tree[q].key)
      BY <1>3, <3>1 DEF Listing, Passed
    <3>3. ASSUME NEW e \in ToSet(kvs) PROVE e \in E
      <4>1. PICK i \in 1 .. Len(kvs) : e = kvs[i]
        BY <2>2
      <4>2. PICK q \in Passed(tree, stack, b) : kvs[i] = Pair(tree, q)
        BY <3>1 DEF Listing
      <4>3. /\ q \in LeafSet(tree) /\ tree[q].key \in DOMAIN m /\ IsPrefix(prefix, tree[q].key)
            /\ e = <<tree[q].key, m[tree[q].key]>>
        BY <2>1, <3>2, <4>1, <4>2 DEF Pair
      <4> QED
        BY <4>3
    <3>4. ASSUME NEW e \in E PROVE e \in ToSet(kvs)
      <4>1. PICK k \in DOMAIN m : IsPrefix(prefix, k) /\ e = <<k, m[k]>>
        OBVIOUS
      <4>2. PICK q \in LeafSet(tree) : k = tree[q].key
        BY <2>1
      <4>3. q \in Passed(tree, stack, b) /\ e = Pair(tree, q)
        BY <2>1, <3>2, <4>1, <4>2 DEF Pair
      <4>4. \E i \in 1 .. Len(kvs) : kvs[i] = Pair(tree, q)
        BY <3>1, <4>3 DEF Listing
      <4> QED
        BY <2>2, <4>3, <4>4
    <3>5. ToSet(kvs) = E
      BY <3>3, <3>4
    <3>6. \A i, j \in DOMAIN kvs : i < j => Before(kvs[i][1], kvs[j][1])
      BY <2>2, <3>1 DEF Listing
    <3> QED
      BY <1>1, <3>5, <3>6 DEF m
  <2> QED
    BY <2>3, <2>4
<1> QED
  BY <1>2, <1>3 DEF ListsMatching

LEMMA InitList ==
  TrieInit => ListInv
  BY DEF TrieInit, ListInv, NoTree

(* rpget and rgetall reply with exactly the keys that have the prefix, each *)
(* once and with its value, in the order of strcmp, and the assertions of   *)
(* dict_iter_next hold all the way.                                         *)
THEOREM ReplyListsMatching == TrieSpec => []ListsMatching
<1>1. TrieInit => ListInv
  BY InitList
<1>2. DictInv /\ RestInv /\ ListInv /\ [TrieNext]_trieVars => ListInv'
  BY NextList
<1>3. DictInv /\ ListInv => ListsMatching
  BY ListFollows
<1> QED
  BY <1>1, <1>2, <1>3, AlwaysDictInv, AlwaysRestInv, PTL DEF TrieSpec
=============================================================================
