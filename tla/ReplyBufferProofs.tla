-------------------------- MODULE ReplyBufferProofs --------------------------
(***************************************************************************)
(* Proofs about ReplyBuffer, for buffers, chunks and replies of any size.  *)
(* The bytes of a reply are known by their positions in the stream, so the *)
(* buffers hold intervals of positions that follow one another: what was   *)
(* sent, then c->buf, then one chunk of the list after the other, up to    *)
(* the last byte produced.                                                 *)
(***************************************************************************)
EXTENDS ReplyBuffer, ListTheorems, TLAPS

(* The bytes after position a up to position b. *)
Run(a, b) == [i \in 1 .. b - a |-> a + i]

-----------------------------------------------------------------------------
(* Intervals of the stream. *)

(* An interval is a sequence of positions. *)
LEMMA RunSeq ==
  ASSUME NEW M \in Nat, NEW a \in 0 .. M, NEW b \in a .. M
  PROVE  /\ Run(a, b) \in Seq(1 .. M)
         /\ Len(Run(a, b)) = b - a
         /\ \A i \in 1 .. b - a : Run(a, b)[i] = a + i
<1>1. /\ b - a \in Nat
      /\ \A i \in 1 .. b - a : a + i \in 1 .. M
  OBVIOUS
<1> QED
  BY <1>1 DEF Run

(* Only the interval that ends where it begins is empty. *)
LEMMA RunEmpty ==
  ASSUME NEW M \in Nat, NEW a \in 0 .. M, NEW b \in a .. M
  PROVE  Run(a, b) = << >> <=> a = b
<1>1. Run(a, b) \in Seq(1 .. M) /\ Len(Run(a, b)) = b - a
  BY RunSeq
<1>2. Run(a, b) = << >> <=> b - a = 0
  BY <1>1, EmptySeq, SeqEqual
<1> QED
  BY <1>2

(* Two intervals that follow one another are one. *)
LEMMA RunConcat ==
  ASSUME NEW M \in Nat, NEW a \in 0 .. M, NEW b \in a .. M, NEW c \in b .. M
  PROVE  Run(a, b) \o Run(b, c) = Run(a, c)
<1>1. /\ Run(a, b) \in Seq(1 .. M) /\ Len(Run(a, b)) = b - a
      /\ \A i \in 1 .. b - a : Run(a, b)[i] = a + i
  BY RunSeq
<1>0. b \in 0 .. M /\ c \in a .. M
  OBVIOUS
<1>2. /\ Run(b, c) \in Seq(1 .. M) /\ Len(Run(b, c)) = c - b
      /\ \A i \in 1 .. c - b : Run(b, c)[i] = b + i
  BY <1>0, RunSeq
<1>3. /\ Run(a, c) \in Seq(1 .. M) /\ Len(Run(a, c)) = c - a
      /\ \A i \in 1 .. c - a : Run(a, c)[i] = a + i
  BY <1>0, RunSeq
<1> DEFINE t == Run(a, b) \o Run(b, c)
<1>4. /\ t \in Seq(1 .. M) /\ Len(t) = (b - a) + (c - b)
      /\ \A i \in 1 .. (b - a) + (c - b) :
           t[i] = IF i <= b - a THEN Run(a, b)[i] ELSE Run(b, c)[i - (b - a)]
  <2>1. /\ t \in Seq(1 .. M) /\ Len(t) = Len(Run(a, b)) + Len(Run(b, c))
        /\ \A i \in 1 .. Len(Run(a, b)) + Len(Run(b, c)) :
             t[i] = IF i <= Len(Run(a, b)) THEN Run(a, b)[i]
                    ELSE Run(b, c)[i - Len(Run(a, b))]
    BY <1>1, <1>2, ConcatProperties
  <2> HIDE DEF t
  <2> QED
    BY <1>1, <1>2, <2>1
<1>5. ASSUME NEW i \in 1 .. c - a PROVE t[i] = Run(a, c)[i]
  <2>1. CASE i <= b - a
    BY <1>1, <1>3, <1>4, <2>1
  <2>2. CASE ~(i <= b - a)
    <3>1. i - (b - a) \in 1 .. c - b
      BY <2>2
    <3>2. Run(b, c)[i - (b - a)] = b + (i - (b - a)) /\ Run(a, c)[i] = a + i
      BY <1>2, <1>3, <3>1
    <3>3. t[i] = Run(b, c)[i - (b - a)]
      <4>1. i \in 1 .. (b - a) + (c - b)
        OBVIOUS
      <4> HIDE DEF t
      <4> QED
        BY <1>4, <2>2, <4>1
    <3>4. b + (i - (b - a)) = a + i
      OBVIOUS
    <3> HIDE DEF t
    <3> QED
      BY <3>2, <3>3, <3>4
  <2> QED
    BY <2>1, <2>2
<1>6. Len(t) = c - a
  BY <1>4
<1>7. t = Run(a, c)
  <2> HIDE DEF t
  <2> QED
    BY <1>3, <1>4, <1>5, <1>6, SeqEqual
<1> QED
  BY <1>7

(* A part of an interval is an interval. *)
LEMMA RunSub ==
  ASSUME NEW M \in Nat, NEW a \in 0 .. M, NEW b \in a .. M,
         NEW s \in Nat, NEW n \in Nat, s + n <= b - a
  PROVE  SubSeq(Run(a, b), s + 1, s + n) = Run(a + s, a + s + n)
<1> DEFINE r == Run(a, b)
           t == SubSeq(r, s + 1, s + n)
<1>1. /\ r \in Seq(1 .. M) /\ Len(r) = b - a
      /\ \A i \in 1 .. b - a : r[i] = a + i
  BY RunSeq
<1>2. \A i \in s + 1 .. s + n : r[i] \in 1 .. M
  BY <1>1
<1> HIDE DEF r
<1>3. /\ t \in Seq(1 .. M)
      /\ Len(t) = IF s + 1 <= s + n THEN s + n - (s + 1) + 1 ELSE 0
      /\ \A i \in 1 .. s + n - (s + 1) + 1 : t[i] = r[s + 1 + i - 1]
  <2>1. s + 1 \in Int /\ s + n \in Int
    OBVIOUS
  <2> QED
    BY <1>2, <2>1, SubSeqProperties
<1>4. Len(t) = n
  BY <1>3
<1> DEFINE c == a + s
           d == a + s + n
<1>5. /\ Run(c, d) \in Seq(1 .. M)
      /\ Len(Run(c, d)) = n
      /\ \A i \in 1 .. n : Run(c, d)[i] = c + i
  <2>1. c \in 0 .. M /\ d \in c .. M /\ d - c = n
    OBVIOUS
  <2> HIDE DEF c, d
  <2> QED
    BY <2>1, RunSeq
<1>6. ASSUME NEW i \in 1 .. n PROVE t[i] = c + i
  <2>1. s + n - (s + 1) + 1 = n /\ s + 1 + i - 1 = s + i /\ s + i \in 1 .. b - a
    OBVIOUS
  <2>2. t[i] = r[s + i]
    BY <1>3, <2>1
  <2>3. r[s + i] = a + (s + i)
    BY <1>1, <2>1
  <2> QED
    BY <2>2, <2>3
<1>7. t = Run(c, d)
  <2> HIDE DEF t, c, d
  <2> QED
    BY <1>3, <1>4, <1>5, <1>6, SeqEqual
<1> QED
  BY <1>7 DEF t, r, c, d

-----------------------------------------------------------------------------
(* Chunks that follow one another: chunk i holds the bytes after st[i] up   *)
(* to st[i + 1], from a to b.                                               *)
Tiled(st, chunks, a, b) ==
  /\ st \in [1 .. Len(chunks) + 1 -> 0 .. MaxBytes]
  /\ st[1] = a /\ st[Len(chunks) + 1] = b
  /\ \A i, j \in 1 .. Len(chunks) + 1 : i <= j => st[i] <= st[j]
  /\ \A i \in 1 .. Len(chunks) : chunks[i] = Run(st[i], st[i + 1])

(* Chunks that follow one another hold, glued together, the bytes from the  *)
(* first chunk's beginning to the last one's end.                           *)
LEMMA FlattenTiled ==
  ASSUME NEW chunks \in Seq(Seq(1 .. MaxBytes)), NEW st, NEW a, NEW b,
         Tiled(st, chunks, a, b)
  PROVE  FlattenSeq(chunks) = Run(a, b) /\ Len(FlattenSeq(chunks)) = b - a
<1> DEFINE n == Len(chunks)
<1>1. n \in Nat /\ MaxBytes \in Nat
  BY ReplyAssumption, LenProperties
<1>2. \A i \in 1 .. n + 1 : st[i] \in 0 .. MaxBytes
  BY DEF Tiled
<1>3. a \in 0 .. MaxBytes /\ b \in a .. MaxBytes /\ a = st[1] /\ b = st[n + 1]
  BY <1>1, <1>2 DEF Tiled
<1>4. Len(Run(a, b)) = b - a
  BY <1>1, <1>3, RunSeq
<1>5. CASE n = 0
  <2>1. chunks = << >> /\ a = b
    BY <1>3, <1>5, EmptySeq
  <2>2. Run(a, b) = << >>
    BY <1>1, <1>3, <2>1, RunEmpty
  <2> QED
    BY <1>4, <1>5, <2>1, <2>2 DEF FlattenSeq
<1>6. CASE n # 0
  <2> DEFINE F(f) == [i \in 1 .. n |-> IF i = 1 THEN chunks[i] ELSE f[i - 1] \o chunks[i]]
             w == [i \in 1 .. n |-> Run(a, st[i + 1])]
             g == CHOOSE f : f = F(f)
  <2>1. ASSUME NEW i \in 1 .. n, i # 1
        PROVE  Run(a, st[i]) \o chunks[i] = Run(a, st[i + 1])
    <3>1. /\ 1 \in 1 .. n + 1 /\ i \in 1 .. n + 1 /\ i + 1 \in 1 .. n + 1 /\ 1 <= i /\ i <= i + 1
      BY <1>1
    <3>2. st[1] <= st[i] /\ st[i] <= st[i + 1] /\ chunks[i] = Run(st[i], st[i + 1])
      BY <3>1 DEF Tiled
    <3>3. st[i] \in a .. MaxBytes /\ st[i + 1] \in st[i] .. MaxBytes
      BY <1>2, <1>3, <3>1, <3>2
    <3> QED
      BY <1>1, <1>3, <3>2, <3>3, RunConcat
  <2>2. 1 \in 1 .. n /\ chunks[1] = Run(a, st[2])
    BY <1>1, <1>3, <1>6 DEF Tiled
  <2>3. w = F(w)
    <3>1. ASSUME NEW i \in 1 .. n PROVE w[i] = F(w)[i]
      <4>1. CASE i = 1
        BY <2>2, <4>1
      <4>2. CASE i # 1
        <5>1. i - 1 \in 1 .. n /\ i - 1 + 1 = i
          BY <1>1, <4>2
        <5>2. w[i - 1] = Run(a, st[i])
          BY <5>1
        <5> QED
          BY <2>1, <4>2, <5>2
      <4> QED
        BY <4>1, <4>2
    <3> QED
      BY <3>1
  <2>4. g = F(g)
    <3> HIDE DEF w, F
    <3> QED
      BY <2>3
  <2>5. FlattenSeq(chunks) = g[n]
    BY <1>6 DEF FlattenSeq
  <2> DEFINE T == {i \in 1 .. n : g[i] # Run(a, st[i + 1])}
  <2>6. \A i \in 1 .. n : g[i] = IF i = 1 THEN chunks[i] ELSE g[i - 1] \o chunks[i]
    <3> HIDE DEF g
    <3> QED
      BY <2>4
  <2> HIDE DEF g
  <2>7. T = {}
    <3> SUFFICES ASSUME T # {} PROVE FALSE
      OBVIOUS
    <3>1. PICK i \in T : \A j \in T : i <= j
      <4>1. T \subseteq Nat
        BY <1>1
      <4> HIDE DEF T
      <4> QED
        BY <4>1, FirstPosition
    <3>2. i \in 1 .. n /\ g[i] # Run(a, st[i + 1])
      OBVIOUS
    <3>3. CASE i = 1
      BY <2>2, <2>6, <3>2, <3>3
    <3>4. CASE i # 1
      <4>1. i - 1 \in 1 .. n /\ ~(i <= i - 1) /\ i - 1 + 1 = i
        BY <1>1, <3>2, <3>4
      <4>2. g[i - 1] = Run(a, st[i])
        BY <3>1, <4>1
      <4> QED
        BY <2>1, <2>6, <3>2, <3>4, <4>2
    <3> QED
      BY <3>3, <3>4
  <2>8. g[n] = Run(a, st[n + 1])
    <3>1. n \in 1 .. n
      BY <1>1, <1>6
    <3> QED
      BY <2>7, <3>1
  <2> QED
    BY <1>3, <1>4, <2>5, <2>8
<1> QED
  BY <1>5, <1>6

(* What a tiling says of the places of its chunks. *)
LEMMA TiledPlaces ==
  ASSUME NEW c \in Seq(Seq(1 .. MaxBytes)), NEW st, NEW a, NEW b, Tiled(st, c, a, b)
  PROVE  /\ MaxBytes \in Nat /\ Len(c) \in Nat
         /\ a \in 0 .. MaxBytes /\ b \in a .. MaxBytes
         /\ (c = << >> => a = b)
         /\ \A i \in 1 .. Len(c) + 1 : st[i] \in 0 .. MaxBytes
<1>1. MaxBytes \in Nat /\ Len(c) \in Nat
  BY ReplyAssumption, LenProperties
<1>2. \A i \in 1 .. Len(c) + 1 : st[i] \in 0 .. MaxBytes
  BY DEF Tiled
<1>3. 1 \in 1 .. Len(c) + 1 /\ Len(c) + 1 \in 1 .. Len(c) + 1 /\ 1 <= Len(c) + 1
  BY <1>1
<1>4. st[1] <= st[Len(c) + 1] /\ a = st[1] /\ b = st[Len(c) + 1]
  BY <1>3 DEF Tiled
<1>5. a \in 0 .. MaxBytes /\ b \in a .. MaxBytes
  BY <1>1, <1>2, <1>3, <1>4
<1>6. ASSUME c = << >> PROVE a = b
  <2>1. Len(c) + 1 = 1
    BY <1>6
  <2> QED
    BY <1>4, <2>1
<1> QED
  BY <1>1, <1>2, <1>5, <1>6

(* A new chunk that goes on where the last one ended. *)
LEMMA TiledAppend ==
  ASSUME NEW c \in Seq(Seq(1 .. MaxBytes)), NEW st, NEW a, NEW b, Tiled(st, c, a, b),
         NEW e \in b .. MaxBytes
  PROVE  /\ Append(c, Run(b, e)) \in Seq(Seq(1 .. MaxBytes))
         /\ \E t : Tiled(t, Append(c, Run(b, e)), a, e)
<1> DEFINE n == Len(c)
           d == Append(c, Run(b, e))
           t == [i \in 1 .. n + 2 |-> IF i = n + 2 THEN e ELSE st[i]]
<1>1. /\ MaxBytes \in Nat /\ n \in Nat
      /\ a \in 0 .. MaxBytes /\ b \in a .. MaxBytes
      /\ \A i \in 1 .. n + 1 : st[i] \in 0 .. MaxBytes
  BY TiledPlaces
<1>2. b \in 0 .. MaxBytes /\ e \in 0 .. MaxBytes
  BY <1>1
<1>3. Run(b, e) \in Seq(1 .. MaxBytes)
  BY <1>1, <1>2, RunSeq
<1>4. /\ d \in Seq(Seq(1 .. MaxBytes)) /\ Len(d) = n + 1
      /\ \A i \in 1 .. n : d[i] = c[i]
      /\ d[n + 1] = Run(b, e)
  BY <1>3, AppendProperties
<1> HIDE DEF d
<1>5. t \in [1 .. n + 2 -> 0 .. MaxBytes]
  <2> SUFFICES ASSUME NEW i \in 1 .. n + 2, i # n + 2 PROVE st[i] \in 0 .. MaxBytes
    BY <1>2
  <2>1. i \in 1 .. n + 1
    BY <1>1
  <2> QED
    BY <1>1, <2>1
<1>6. st[n + 1] = b /\ st[1] = a
  BY DEF Tiled
<1>7. \A i \in 1 .. n + 1 : st[i] <= e
  <2> TAKE i \in 1 .. n + 1
  <2>1. n + 1 \in 1 .. n + 1 /\ i <= n + 1
    BY <1>1
  <2>2. st[i] <= st[n + 1]
    BY <2>1 DEF Tiled
  <2> QED
    BY <1>1, <1>6, <2>2
<1>8. ASSUME NEW i \in 1 .. n + 2, NEW j \in 1 .. n + 2, i <= j PROVE t[i] <= t[j]
  <2>1. CASE j = n + 2 /\ i = n + 2
    BY <1>2, <2>1
  <2>2. CASE j = n + 2 /\ i # n + 2
    <3>1. i \in 1 .. n + 1
      BY <1>1, <2>2
    <3> QED
      BY <1>7, <2>2, <3>1
  <2>3. CASE j # n + 2
    <3>1. i \in 1 .. n + 1 /\ j \in 1 .. n + 1 /\ i # n + 2
      BY <1>1, <1>8, <2>3
    <3>2. st[i] <= st[j]
      BY <1>8, <3>1 DEF Tiled
    <3> QED
      BY <2>3, <3>1, <3>2
  <2> QED
    BY <2>1, <2>2, <2>3
<1>9. ASSUME NEW i \in 1 .. n + 1 PROVE d[i] = Run(t[i], t[i + 1])
  <2>0. t[i] = st[i] /\ i \in 1 .. n + 2 /\ i + 1 \in 1 .. n + 2
    BY <1>1
  <2>1. CASE i = n + 1
    BY <1>4, <1>6, <2>0, <2>1, <1>1
  <2>2. CASE i # n + 1
    <3>1. i \in 1 .. n /\ i + 1 # n + 2
      BY <1>1, <2>2
    <3>2. c[i] = Run(st[i], st[i + 1])
      BY <3>1 DEF Tiled
    <3> QED
      BY <1>4, <2>0, <3>1, <3>2
  <2> QED
    BY <2>1, <2>2
<1>10. t[1] = a /\ t[n + 2] = e
  BY <1>1, <1>6
<1>11. Len(d) + 1 = n + 2
  BY <1>1, <1>4
<1>12. Tiled(t, d, a, e)
  <2> HIDE DEF t, n
  <2> QED
    BY <1>4, <1>5, <1>8, <1>9, <1>10, <1>11 DEF Tiled
<1> QED
  BY <1>4, <1>12 DEF d

(* Bytes glued to the last chunk. *)
LEMMA TiledGlue ==
  ASSUME NEW c \in Seq(Seq(1 .. MaxBytes)), NEW st, NEW a, NEW b, Tiled(st, c, a, b),
         c # << >>, NEW e \in b .. MaxBytes
  PROVE  /\ [c EXCEPT ![Len(c)] = @ \o Run(b, e)] \in Seq(Seq(1 .. MaxBytes))
         /\ \E t : Tiled(t, [c EXCEPT ![Len(c)] = @ \o Run(b, e)], a, e)
<1> DEFINE n == Len(c)
           g == c[n] \o Run(b, e)
           d == [c EXCEPT ![n] = g]
           t == [st EXCEPT ![n + 1] = e]
<1>1. /\ MaxBytes \in Nat /\ n \in Nat \ {0}
      /\ a \in 0 .. MaxBytes /\ b \in a .. MaxBytes
      /\ \A i \in 1 .. n + 1 : st[i] \in 0 .. MaxBytes
  BY TiledPlaces, EmptySeq
<1>2. b \in 0 .. MaxBytes /\ e \in 0 .. MaxBytes
  BY <1>1
<1>3. /\ n \in 1 .. n /\ n \in 1 .. n + 1 /\ n + 1 \in 1 .. n + 1 /\ n <= n + 1
      /\ 1 \in 1 .. n + 1 /\ 1 # n + 1
  BY <1>1
<1>4. /\ st[n + 1] = b /\ st[1] = a /\ c[n] = Run(st[n], b)
      /\ st[n] <= b /\ st \in [1 .. n + 1 -> 0 .. MaxBytes]
  BY <1>3 DEF Tiled
<1>5. g = Run(st[n], e) /\ st[n] \in 0 .. MaxBytes
  <2>1. st[n] \in 0 .. MaxBytes /\ b \in st[n] .. MaxBytes
    BY <1>1, <1>2, <1>3, <1>4
  <2>2. Run(st[n], b) \o Run(b, e) = Run(st[n], e)
    BY <1>1, <2>1, RunConcat
  <2> QED
    BY <1>4, <2>1, <2>2
<1>6. g \in Seq(1 .. MaxBytes)
  <2>1. e \in st[n] .. MaxBytes
    BY <1>1, <1>2, <1>4, <1>5
  <2> HIDE DEF g
  <2> QED
    BY <1>1, <1>5, <2>1, RunSeq
<1> HIDE DEF g
<1>7. /\ d \in Seq(Seq(1 .. MaxBytes)) /\ Len(d) = n
      /\ \A i \in 1 .. n : d[i] = IF i = n THEN g ELSE c[i]
  BY <1>3, <1>6, ExceptSeq
<1> HIDE DEF d
<1>8. t \in [1 .. n + 1 -> 0 .. MaxBytes]
  BY <1>2, <1>4
<1>9. \A i \in 1 .. n + 1 : t[i] = IF i = n + 1 THEN e ELSE st[i]
  BY <1>4
<1> HIDE DEF t
<1>10. ASSUME NEW i \in 1 .. n + 1, NEW j \in 1 .. n + 1, i <= j PROVE t[i] <= t[j]
  <2>1. st[i] <= st[j] /\ st[i] <= st[n + 1]
    <3>1. i <= n + 1
      BY <1>1
    <3> QED
      BY <1>3, <1>10, <3>1 DEF Tiled
  <2>2. st[i] <= e
    BY <1>1, <1>4, <2>1
  <2>3. j # n + 1 => i # n + 1
    BY <1>1, <1>10
  <2> QED
    BY <1>2, <1>9, <2>1, <2>2, <2>3
<1>11. ASSUME NEW i \in 1 .. n PROVE d[i] = Run(t[i], t[i + 1])
  <2>1. i \in 1 .. n + 1 /\ i + 1 \in 1 .. n + 1 /\ i # n + 1
    BY <1>1
  <2>2. CASE i = n
    BY <1>5, <1>7, <1>9, <2>1, <2>2
  <2>3. CASE i # n
    <3>1. i + 1 # n + 1
      BY <1>1, <2>3
    <3>2. c[i] = Run(st[i], st[i + 1])
      BY DEF Tiled
    <3> QED
      BY <1>7, <1>9, <2>1, <2>3, <3>1, <3>2
  <2> QED
    BY <2>2, <2>3
<1>12. Tiled(t, d, a, e)
  <2>1. t[1] = a /\ t[n + 1] = e
    BY <1>3, <1>4, <1>9
  <2> HIDE DEF n
  <2> QED
    BY <1>7, <1>8, <1>10, <1>11, <2>1 DEF Tiled
<1> QED
  BY <1>7, <1>12 DEF d, g

(* The list without its first chunk. *)
LEMMA TiledDrop ==
  ASSUME NEW c \in Seq(Seq(1 .. MaxBytes)), NEW st, NEW a, NEW b, Tiled(st, c, a, b),
         c # << >>
  PROVE  /\ Head(c) \in Seq(1 .. MaxBytes) /\ Len(Head(c)) \in Nat
         /\ a + Len(Head(c)) <= b
         /\ Head(c) = Run(a, a + Len(Head(c)))
         /\ DelNode(c, 1) = Tail(c) /\ DelNode(c, 1) \in Seq(Seq(1 .. MaxBytes))
         /\ \E t : Tiled(t, DelNode(c, 1), a + Len(Head(c)), b)
<1> DEFINE n == Len(c)
           m == st[2]
           d == Tail(c)
           t == [i \in 1 .. n |-> st[i + 1]]
<1>1. /\ MaxBytes \in Nat /\ n \in Nat \ {0}
      /\ a \in 0 .. MaxBytes /\ b \in a .. MaxBytes
      /\ \A i \in 1 .. n + 1 : st[i] \in 0 .. MaxBytes
  BY TiledPlaces, EmptySeq
<1>2. /\ Head(c) \in Seq(1 .. MaxBytes)
      /\ d \in Seq(Seq(1 .. MaxBytes))
      /\ Len(d) = n - 1
      /\ \A i \in 1 .. Len(d) : d[i] = c[i + 1]
  <2> DEFINE C == Seq(1 .. MaxBytes)
  <2> HIDE DEF C
  <2>1. c \in Seq(C)
    BY DEF C
  <2>2. /\ Head(c) \in C /\ d \in Seq(C) /\ Len(d) = n - 1
        /\ \A i \in 1 .. Len(d) : d[i] = c[i + 1]
    BY <2>1, HeadTailProperties
  <2> QED
    BY <2>2 DEF C
<1>3. /\ 1 \in 1 .. n /\ 1 \in 1 .. n + 1 /\ 2 \in 1 .. n + 1 /\ n + 1 \in 1 .. n + 1
      /\ 1 <= 2 /\ 2 <= n + 1
  BY <1>1
<1>4. /\ st[1] = a /\ st[n + 1] = b /\ a <= m /\ m <= b /\ m \in 0 .. MaxBytes
      /\ c[1] = Run(st[1], st[1 + 1])
  BY <1>1, <1>3 DEF Tiled
<1>5. Head(c) = Run(a, m)
  BY <1>1, <1>4
<1>6. Len(Head(c)) = m - a
  <2>1. m \in a .. MaxBytes
    BY <1>1, <1>4
  <2> HIDE DEF m
  <2> QED
    BY <1>1, <1>5, <2>1, RunSeq
<1>7. a + Len(Head(c)) = m
  <2>1. a \in Int /\ m \in Int
    BY <1>1, <1>4
  <2>2. a + (m - a) = m
    BY <2>1
  <2> QED
    BY <1>6, <2>2
<1>8. DelNode(c, 1) = d
  BY DelFirst
<1> HIDE DEF d
<1>9. Len(d) + 1 = n
  BY <1>1, <1>2
<1>10. t \in [1 .. n -> 0 .. MaxBytes]
  BY <1>1
<1>11. ASSUME NEW i \in 1 .. n, NEW j \in 1 .. n, i <= j PROVE t[i] <= t[j]
  <2>1. i + 1 \in 1 .. n + 1 /\ j + 1 \in 1 .. n + 1 /\ i + 1 <= j + 1
    BY <1>1, <1>11
  <2> QED
    BY <2>1 DEF Tiled
<1>12. ASSUME NEW i \in 1 .. Len(d) PROVE d[i] = Run(t[i], t[i + 1])
  <2>1. i + 1 \in 1 .. n /\ i \in 1 .. n
    BY <1>1, <1>9
  <2>2. c[i + 1] = Run(st[i + 1], st[i + 1 + 1])
    BY <2>1 DEF Tiled
  <2> QED
    BY <1>2, <2>1, <2>2
<1>13. t[1] = m /\ t[n] = b
  BY <1>1, <1>3, <1>4
<1>14. Tiled(t, d, m, b)
  <2> HIDE DEF t, n, m
  <2> QED
    BY <1>9, <1>10, <1>11, <1>12, <1>13 DEF Tiled
<1> HIDE DEF m, t
<1>15. /\ a + Len(Head(c)) <= b
       /\ Head(c) = Run(a, a + Len(Head(c)))
       /\ \E u : Tiled(u, DelNode(c, 1), a + Len(Head(c)), b)
  BY <1>4, <1>5, <1>7, <1>8, <1>14
<1>16. Len(Head(c)) \in Nat
  BY <1>2, LenProperties
<1> QED
  BY <1>2, <1>8, <1>15, <1>16 DEF d

-----------------------------------------------------------------------------
(* The position in the stream of the first byte of the buffer or chunk that *)
(* is being sent, and of the end of c->buf.                                 *)
Base == Len(wire) - sent

BufEnd == Base + Len(buf)

(* The cursor is inside the buffer or chunk that is being sent. *)
CursorInside ==
  /\ buf # << >> => sent < Len(buf)
  /\ buf = << >> /\ reply # << >> =>
       sent < Len(Head(reply)) \/ (sent = 0 /\ Head(reply) = << >>)
  /\ buf = << >> /\ reply = << >> => sent = 0

(* The inductive invariant: socket, buffer and list hold the stream, each   *)
(* going on where the one before it ends.                                   *)
IInv ==
  /\ TypeOK
  /\ CursorInside
  /\ written <= Len(wire)
  /\ 0 <= Base /\ BufEnd <= produced
  /\ wire = Run(0, Len(wire))
  /\ buf = Run(Base, BufEnd)
  /\ repliedLen = produced - BufEnd
  /\ \E st : Tiled(st, reply, BufEnd, produced)

(* Initially nothing was produced. *)
LEMMA InitIInv == Init => IInv
<1> SUFFICES ASSUME Init PROVE IInv
  OBVIOUS
<1>1. MaxBytes \in Nat /\ ReplyMaxLen \in Nat
  BY ReplyAssumption
<1>2. Len(<< >>) = 0 /\ << >> \in Seq(1 .. MaxBytes)
  BY EmptySeq
<1>3. TypeOK
  <2>1. buf \in Seq(1 .. MaxBytes) /\ Len(buf) <= ReplyMaxLen /\ wire \in Seq(1 .. MaxBytes)
    BY <1>1, <1>2 DEF Init
  <2>2. reply \in Seq(Seq(1 .. MaxBytes))
    <3> DEFINE C == Seq(1 .. MaxBytes)
    <3> HIDE DEF C
    <3>1. << >> \in Seq(C)
      BY EmptySeq
    <3>2. reply = << >>
      BY DEF Init
    <3>3. reply \in Seq(C)
      BY <3>1, <3>2
    <3> QED
      BY <3>3 DEF C
  <2>3. /\ sent \in 0 .. MaxBytes /\ repliedLen \in 0 .. MaxBytes
        /\ written \in 0 .. MaxBytes /\ produced \in 0 .. MaxBytes
    BY <1>1 DEF Init
  <2>4. closing \in BOOLEAN /\ pc \in {"idle", "write", "after", "closed", "failed"}
    BY DEF Init
  <2> QED
    BY <2>1, <2>2, <2>3, <2>4 DEF TypeOK
<1>4. Base = 0 /\ BufEnd = 0
  BY <1>2 DEF Init, Base, BufEnd
<1>5. Run(0, 0) = << >>
  BY <1>1, RunEmpty
<1>6. Tiled([i \in 1 .. 1 |-> 0], << >>, 0, 0)
  BY <1>1, <1>2 DEF Tiled
<1>7. \E st : Tiled(st, reply, BufEnd, produced)
  BY <1>4, <1>6 DEF Init
<1> QED
  BY <1>2, <1>3, <1>4, <1>5, <1>7 DEF Init, IInv, CursorInside

(* What the invariant says of the sizes. *)
LEMMA Sizes ==
  ASSUME IInv
  PROVE  /\ MaxBytes \in Nat
         /\ Len(buf) \in Nat /\ Len(wire) \in Nat /\ Len(reply) \in Nat
         /\ sent \in Nat /\ produced \in 0 .. MaxBytes /\ written \in Nat
         /\ Base \in Nat /\ BufEnd \in 0 .. MaxBytes /\ Base \in 0 .. BufEnd
         /\ BufEnd = Base + Len(buf) /\ Base = Len(wire) - sent
         /\ (buf = << >> <=> Len(buf) = 0)
         /\ (reply = << >> <=> Len(reply) = 0)
         /\ (reply = << >> => BufEnd = produced)
         /\ (buf = << >> /\ reply = << >> => Len(wire) = produced /\ sent = 0)
<1>1. /\ MaxBytes \in Nat /\ sent \in Nat /\ produced \in 0 .. MaxBytes /\ written \in Nat
      /\ buf \in Seq(1 .. MaxBytes) /\ wire \in Seq(1 .. MaxBytes)
      /\ reply \in Seq(Seq(1 .. MaxBytes))
  BY ReplyAssumption DEF IInv, TypeOK
<1>2. /\ Len(buf) \in Nat /\ Len(wire) \in Nat /\ Len(reply) \in Nat
      /\ (buf = << >> <=> Len(buf) = 0)
      /\ (reply = << >> <=> Len(reply) = 0)
  BY <1>1, EmptySeq
<1>3. /\ BufEnd = Base + Len(buf) /\ Base = Len(wire) - sent
      /\ 0 <= Base /\ BufEnd <= produced
  BY DEF IInv, Base, BufEnd
<1>4. ASSUME reply = << >> PROVE BufEnd = produced
  <2>1. PICK st : Tiled(st, reply, BufEnd, produced)
    BY DEF IInv
  <2> QED
    BY <1>1, <1>4, <2>1, TiledPlaces
<1>5. ASSUME buf = << >>, reply = << >> PROVE Len(wire) = produced /\ sent = 0
  <2>1. sent = 0
    BY <1>5 DEF IInv, CursorInside
  <2> QED
    BY <1>2, <1>3, <1>4, <1>5, <2>1
<1> QED
  BY <1>1, <1>2, <1>3, <1>4, <1>5

(* A turn that only begins, stops, fails or ends changes no byte.           *)
LEMMA QuietStep ==
  ASSUME IInv, UNCHANGED <<buf, reply, repliedLen, produced, wire>>,
         sent' = sent, written' \in {0, written},
         closing' \in BOOLEAN, pc' \in {"idle", "write", "after", "closed", "failed"}
  PROVE  IInv'
<1>1. TypeOK' /\ written' <= Len(wire)
  BY Sizes, SMTT(20) DEF IInv, TypeOK
<1>2. CursorInside' /\ Base' = Base /\ BufEnd' = BufEnd
  BY DEF IInv, CursorInside, Base, BufEnd
<1> QED
  BY <1>1, <1>2 DEF IInv

(* Of a write(2) that takes the next n bytes of the stream. *)
LEMMA SentBytes ==
  ASSUME IInv, NEW n \in Nat, NEW bytes, bytes = Run(Len(wire), Len(wire) + n),
         Len(wire) + n <= produced, Sent(bytes)
  PROVE  /\ wire' = Run(0, Len(wire)') /\ wire' \in Seq(1 .. MaxBytes)
         /\ Len(wire)' = Len(wire) + n
         /\ written' \in 0 .. MaxBytes /\ written' <= Len(wire)'
         /\ pc' \in {"write", "after"}
<1> DEFINE w == Len(wire)
<1>1. MaxBytes \in Nat /\ w \in Nat /\ produced \in 0 .. MaxBytes /\ written \in Nat
  BY Sizes
<1>2. wire = Run(0, w) /\ written <= w
  BY DEF IInv
<1>3. w \in 0 .. MaxBytes /\ w + n \in w .. MaxBytes /\ w + n \in 0 .. MaxBytes
      /\ 0 \in 0 .. MaxBytes /\ w + n - w = n /\ w + n - 0 = w + n
  BY <1>1
<1>4. Run(0, w) \o Run(w, w + n) = Run(0, w + n)
  <2> DEFINE e == w + n
  <2> HIDE DEF e, w
  <2> QED
    BY <1>1, <1>3, RunConcat DEF e
<1>5. wire' = Run(0, w + n)
  <2> HIDE DEF w
  <2>1. wire' = wire \o bytes
    BY DEF Sent
  <2> QED
    BY <1>2, <1>4, <2>1 DEF w
<1>6. Len(Run(0, w + n)) = w + n /\ Run(0, w + n) \in Seq(1 .. MaxBytes)
  <2> DEFINE e == w + n
  <2> HIDE DEF e, w
  <2>1. Len(Run(0, e)) = e - 0 /\ Run(0, e) \in Seq(1 .. MaxBytes)
    BY <1>1, <1>3, RunSeq DEF e
  <2> QED
    BY <1>3, <2>1 DEF e
<1>7. Len(bytes) = n
  <2> DEFINE e == w + n
  <2> HIDE DEF e, w
  <2>1. Len(Run(w, e)) = e - w
    BY <1>1, <1>3, RunSeq DEF e
  <2> QED
    BY <1>3, <2>1 DEF e, w
<1>8. written' = written + n
  BY <1>7 DEF Sent
<1>9. written' \in 0 .. MaxBytes /\ written' <= w + n
  BY <1>1, <1>2, <1>3, <1>8
<1>10. pc' \in {"write", "after"}
  BY DEF Sent
<1> QED
  BY <1>5, <1>6, <1>9, <1>10

(* A write(2) from the buffer. *)
LEMMA WriteBufStep ==
  ASSUME IInv, NEW n, WriteBuf(n)
  PROVE  /\ IInv'
         /\ n \in Nat \ {0} /\ Len(wire) + n <= produced /\ Len(wire)' = Len(wire) + n
<1> DEFINE w == Len(wire)
<1>1. /\ MaxBytes \in Nat /\ Len(buf) \in Nat /\ w \in Nat /\ sent \in Nat
      /\ produced \in 0 .. MaxBytes /\ Base \in Nat /\ BufEnd \in 0 .. MaxBytes
      /\ Base \in 0 .. BufEnd /\ BufEnd = Base + Len(buf) /\ Base = w - sent
      /\ BufEnd <= produced
  BY Sizes DEF IInv
<1>2. n \in 1 .. Len(buf) - sent /\ Sent(SubSeq(buf, sent + 1, sent + n))
      /\ UNCHANGED <<reply, repliedLen>>
  BY DEF WriteBuf
<1>3. /\ n \in Nat \ {0} /\ sent + n <= BufEnd - Base
      /\ Base + sent = w /\ Base + sent + n = w + n /\ w + n <= produced /\ w + n <= BufEnd
  BY <1>1, <1>2
<1>4. SubSeq(buf, sent + 1, sent + n) = Run(w, w + n)
  <2>1. buf = Run(Base, BufEnd)
    BY DEF IInv
  <2>2. /\ MaxBytes \in Nat /\ Base \in 0 .. MaxBytes /\ BufEnd \in Base .. MaxBytes
        /\ sent \in Nat /\ n \in Nat /\ sent + n <= BufEnd - Base
    BY <1>1, <1>3
  <2> HIDE DEF w
  <2>3. SubSeq(Run(Base, BufEnd), sent + 1, sent + n) = Run(Base + sent, Base + sent + n)
    BY <2>2, RunSub
  <2> QED
    BY <1>3, <2>1, <2>3
<1>5. /\ wire' = Run(0, Len(wire)') /\ wire' \in Seq(1 .. MaxBytes)
      /\ Len(wire)' = w + n
      /\ written' \in 0 .. MaxBytes /\ written' <= Len(wire)'
      /\ pc' \in {"write", "after"}
  BY <1>2, <1>3, <1>4, SentBytes
<1>6. closing' = closing /\ produced' = produced
  BY <1>2 DEF Sent
<1> HIDE DEF w
<1>7. PICK st : Tiled(st, reply, BufEnd, produced)
  BY DEF IInv
<1>8. CASE sent + n = Len(buf)
  <2>1. buf' = << >> /\ sent' = 0 /\ reply' = reply /\ repliedLen' = repliedLen
    BY <1>2, <1>8 DEF WriteBuf
  <2>2. Base' = w + n /\ Len(buf') = 0
    BY <1>1, <1>3, <1>5, <2>1 DEF Base
  <2>3. BufEnd' = w + n
    BY <1>1, <1>3, <2>2 DEF BufEnd
  <2>4. w + n = BufEnd
    BY <1>1, <1>3, <1>8
  <2>5. buf' = Run(BufEnd, BufEnd)
    BY <1>1, <2>1, RunEmpty
  <2>6. TypeOK'
    <3>1. buf' \in Seq(1 .. MaxBytes) /\ Len(buf') <= ReplyMaxLen
      BY <2>1, <2>2, EmptySeq, ReplyAssumption
    <3>2. sent' \in 0 .. MaxBytes
      BY <1>1, <2>1
    <3> QED
      BY <1>5, <1>6, <2>1, <3>1, <3>2 DEF IInv, TypeOK
  <2>7. CursorInside'
    <3>1. ASSUME reply # << >> PROVE 0 < Len(Head(reply)) \/ Head(reply) = << >>
      <4>1. Head(reply) \in Seq(1 .. MaxBytes) /\ Len(Head(reply)) \in Nat
        BY <1>7, <3>1, TiledDrop DEF IInv, TypeOK
      <4> QED
        BY <4>1, EmptySeq
    <3> QED
      BY <2>1, <3>1 DEF CursorInside
  <2>8. 0 <= Base' /\ BufEnd' <= produced' /\ buf' = Run(Base', BufEnd')
    BY <1>1, <1>6, <2>2, <2>3, <2>4, <2>5
  <2>9. repliedLen' = produced' - BufEnd'
    BY <1>6, <2>1, <2>3, <2>4 DEF IInv
  <2>10. \E t : Tiled(t, reply', BufEnd', produced')
    BY <1>6, <1>7, <2>1, <2>3, <2>4
  <2> QED
    BY <1>3, <1>5, <2>6, <2>7, <2>8, <2>9, <2>10 DEF IInv, w
<1>9. CASE sent + n # Len(buf)
  <2>1. buf' = buf /\ sent' = sent + n /\ reply' = reply /\ repliedLen' = repliedLen
    BY <1>2, <1>9 DEF WriteBuf
  <2>2. Base' = Base
    BY <1>1, <1>3, <1>5, <2>1 DEF Base
  <2>3. BufEnd' = BufEnd
    BY <2>1, <2>2 DEF BufEnd
  <2>4. TypeOK'
    <3>1. sent' \in 0 .. MaxBytes
      BY <1>1, <1>3, <2>1
    <3> QED
      BY <1>5, <1>6, <2>1, <3>1 DEF IInv, TypeOK
  <2>5. CursorInside'
    <3>1. buf # << >> /\ sent + n < Len(buf)
      BY <1>1, <1>2, <1>9 DEF WriteBuf
    <3> QED
      BY <2>1, <3>1 DEF CursorInside
  <2> QED
    BY <1>3, <1>5, <1>6, <2>1, <2>2, <2>3, <2>4, <2>5 DEF IInv, w
<1> QED
  BY <1>8, <1>9

(* The chunk at the head of the list, when c->buf is empty. *)
LEMMA HeadChunk ==
  ASSUME IInv, buf = << >>, reply # << >>
  PROVE  /\ Head(reply) \in Seq(1 .. MaxBytes) /\ Len(Head(reply)) \in Nat
         /\ (Head(reply) = << >> <=> Len(Head(reply)) = 0)
         /\ BufEnd = Base /\ Base + Len(Head(reply)) <= produced
         /\ Head(reply) = Run(Base, Base + Len(Head(reply)))
         /\ DelNode(reply, 1) \in Seq(Seq(1 .. MaxBytes))
         /\ \E t : Tiled(t, DelNode(reply, 1), Base + Len(Head(reply)), produced)
         /\ Base + Len(Head(reply)) \in 0 .. MaxBytes
<1>1. PICK st : Tiled(st, reply, BufEnd, produced)
  BY DEF IInv
<1>2. BufEnd = Base /\ Base \in Nat /\ MaxBytes \in Nat /\ produced \in 0 .. MaxBytes
  BY Sizes
<1>3. Tiled(st, reply, Base, produced)
  BY <1>1, <1>2
<1>4. reply \in Seq(Seq(1 .. MaxBytes))
  BY DEF IInv, TypeOK
<1> HIDE DEF IInv
<1>5. /\ Head(reply) \in Seq(1 .. MaxBytes) /\ Len(Head(reply)) \in Nat
      /\ Base + Len(Head(reply)) <= produced
      /\ Head(reply) = Run(Base, Base + Len(Head(reply)))
      /\ DelNode(reply, 1) \in Seq(Seq(1 .. MaxBytes))
      /\ \E t : Tiled(t, DelNode(reply, 1), Base + Len(Head(reply)), produced)
  BY <1>3, <1>4, TiledDrop
<1>6. Base + Len(Head(reply)) \in 0 .. MaxBytes
  BY <1>2, <1>5
<1>7. Head(reply) = << >> <=> Len(Head(reply)) = 0
  BY <1>5, EmptySeq
<1> QED
  BY <1>2, <1>5, <1>6, <1>7

(* The chunk at the head is dropped with its bytes sent. *)
LEMMA DropHead ==
  ASSUME IInv, buf = << >>, reply # << >>,
         UNCHANGED <<buf, closing, produced>>, reply' = DelNode(reply, 1), sent' = 0,
         repliedLen' = repliedLen - Len(Head(reply)),
         wire' = Run(0, Len(wire)'), wire' \in Seq(1 .. MaxBytes),
         Len(wire)' = Base + Len(Head(reply)),
         written' \in 0 .. MaxBytes, written' <= Len(wire)', pc' \in {"write", "after"}
  PROVE  IInv'
<1> DEFINE e == Base + Len(Head(reply))
<1>1. /\ Head(reply) \in Seq(1 .. MaxBytes) /\ Len(Head(reply)) \in Nat
      /\ BufEnd = Base /\ e <= produced
      /\ reply' \in Seq(Seq(1 .. MaxBytes))
      /\ e \in 0 .. MaxBytes
  BY HeadChunk
<1>2. PICK t : Tiled(t, reply', e, produced)
  BY HeadChunk
<1>3. MaxBytes \in Nat /\ produced \in 0 .. MaxBytes /\ Base \in Nat /\ Len(buf) = 0
  BY Sizes
<1>4. Base' = e /\ BufEnd' = e
  BY <1>1, <1>3 DEF Base, BufEnd
<1>5. buf' = Run(e, e)
  <2> HIDE DEF e
  <2>1. e \in e .. MaxBytes
    BY <1>1
  <2> QED
    BY <1>1, <1>3, <2>1, RunEmpty, ZenonT(40)
<1>6. repliedLen' = produced' - e
  <2>1. repliedLen = produced - Base
    BY <1>1 DEF IInv
  <2> QED
    BY <1>1, <1>3, <2>1
<1>7. TypeOK'
  <2>1. repliedLen' \in 0 .. MaxBytes
    BY <1>1, <1>3, <1>6
  <2> QED
    BY <1>1, <1>3, <2>1 DEF IInv, TypeOK
<1>8. CursorInside'
  <2>1. ASSUME reply' # << >> PROVE 0 < Len(Head(reply')) \/ Head(reply') = << >>
    <3>1. Head(reply') \in Seq(1 .. MaxBytes) /\ Len(Head(reply')) \in Nat
      BY <1>1, <1>2, <2>1, TiledDrop
    <3> QED
      BY <3>1, EmptySeq
  <2> QED
    BY <2>1 DEF CursorInside
<1> HIDE DEF e
<1>9. 0 <= Base' /\ BufEnd' <= produced' /\ buf' = Run(Base', BufEnd')
      /\ repliedLen' = produced' - BufEnd'
  BY <1>1, <1>3, <1>4, <1>5, <1>6
<1>10. \E st : Tiled(st, reply', BufEnd', produced')
  BY <1>2, <1>4
<1> QED
  BY <1>7, <1>8, <1>9, <1>10 DEF IInv

(* A write(2) from the chunk at the head of the list. *)
LEMMA WriteNodeStep ==
  ASSUME IInv, NEW n, WriteNode(n)
  PROVE  /\ IInv'
         /\ n \in Nat \ {0} /\ Len(wire) + n <= produced /\ Len(wire)' = Len(wire) + n
<1> DEFINE w == Len(wire)
           h == Len(Head(reply))
<1>1. /\ MaxBytes \in Nat /\ w \in Nat /\ sent \in Nat
      /\ produced \in 0 .. MaxBytes /\ Base \in Nat
      /\ Base = w - sent
  BY Sizes
<1>2. /\ buf = << >> /\ reply # << >> /\ n \in 1 .. h - sent
      /\ Sent(SubSeq(Head(reply), sent + 1, sent + n))
      /\ buf' = buf
  BY DEF WriteNode
<1>3. /\ h \in Nat /\ Base + h <= produced
      /\ Head(reply) = Run(Base, Base + h)
      /\ Base + h \in 0 .. MaxBytes
  BY <1>2, HeadChunk
<1>4. /\ n \in Nat \ {0} /\ sent + n <= Base + h - Base
      /\ Base + sent = w /\ Base + sent + n = w + n /\ w + n <= produced /\ w + n <= Base + h
  BY <1>1, <1>2, <1>3, SMTT(20)
<1>5. SubSeq(Head(reply), sent + 1, sent + n) = Run(w, w + n)
  <2> DEFINE e == Base + h
  <2>2. /\ MaxBytes \in Nat /\ Base \in 0 .. MaxBytes /\ e \in Base .. MaxBytes
        /\ sent \in Nat /\ n \in Nat /\ sent + n <= e - Base
    BY <1>1, <1>3, <1>4, SMTT(20)
  <2> HIDE DEF w, e
  <2>3. SubSeq(Run(Base, e), sent + 1, sent + n) = Run(Base + sent, Base + sent + n)
    BY <2>2, RunSub
  <2> QED
    BY <1>3, <1>4, <2>3 DEF e
<1>6. /\ wire' = Run(0, Len(wire)') /\ wire' \in Seq(1 .. MaxBytes)
      /\ Len(wire)' = w + n
      /\ written' \in 0 .. MaxBytes /\ written' <= Len(wire)'
      /\ pc' \in {"write", "after"}
  BY <1>2, <1>4, <1>5, SentBytes
<1>7. closing' = closing /\ produced' = produced
  BY <1>2 DEF Sent
<1>8. CASE sent + n = h
  <2>1. reply' = DelNode(reply, 1) /\ sent' = 0 /\ repliedLen' = repliedLen - h
    BY <1>8 DEF WriteNode
  <2>2. Len(wire)' = Base + h
    <3> HIDE DEF w, h
    <3>1. w + n = Base + h
      BY <1>1, <1>3, <1>4, <1>8
    <3> QED
      BY <1>6, <3>1
  <2>3. IInv'
    BY <1>2, <1>6, <1>7, <2>1, <2>2, DropHead
  <2> QED
    BY <1>4, <1>6, <2>3
<1>9. CASE sent + n # h
  <2>1. reply' = reply /\ sent' = sent + n /\ repliedLen' = repliedLen
    BY <1>9 DEF WriteNode
  <2> HIDE DEF w
  <2>2. Base' = Base
    BY <1>1, <1>4, <1>6, <2>1 DEF Base
  <2>3. BufEnd' = BufEnd
    BY <1>2, <2>2 DEF BufEnd
  <2>4. TypeOK'
    <3>1. sent' \in 0 .. MaxBytes
      BY <1>1, <1>3, <1>4, <2>1
    <3> QED
      BY <1>2, <1>6, <1>7, <2>1, <3>1 DEF IInv, TypeOK
  <2>5. CursorInside'
    <3>1. sent + n < h
      BY <1>1, <1>2, <1>3, <1>9
    <3> QED
      BY <1>2, <2>1, <3>1 DEF CursorInside
  <2> QED
    BY <1>2, <1>4, <1>6, <1>7, <2>1, <2>2, <2>3, <2>4, <2>5 DEF IInv, w
<1> QED
  BY <1>8, <1>9

(* An empty chunk is dropped. *)
LEMMA DropEmptyNodeStep ==
  ASSUME IInv, DropEmptyNode
  PROVE  IInv'
<1>1. /\ buf = << >> /\ reply # << >> /\ Head(reply) = << >>
      /\ reply' = DelNode(reply, 1) /\ pc' = "write"
      /\ UNCHANGED <<buf, sent, repliedLen, closing, written, produced, wire>>
  BY DEF DropEmptyNode
<1>2. Len(Head(reply)) = 0
  BY <1>1
<1>3. sent = 0
  BY <1>1, <1>2, Sizes DEF IInv, CursorInside
<1>4. Len(wire)' = Base + Len(Head(reply))
  BY <1>1, <1>2, <1>3, Sizes
<1>5. repliedLen' = repliedLen - Len(Head(reply))
  BY <1>1, <1>2 DEF IInv, TypeOK
<1>6. /\ wire' = Run(0, Len(wire)') /\ wire' \in Seq(1 .. MaxBytes)
      /\ written' \in 0 .. MaxBytes /\ written' <= Len(wire)'
  BY <1>1 DEF IInv, TypeOK
<1> QED
  BY <1>1, <1>3, <1>4, <1>5, <1>6, DropHead

(* n more bytes of reply, for the buffer or for the list. *)
LEMMA AddReplyStep ==
  ASSUME IInv, NEW n \in Nat, AddReply(n)
  PROVE  IInv'
<1> DEFINE e == produced + n
<1>1. /\ MaxBytes \in Nat /\ Len(buf) \in Nat /\ sent \in Nat /\ Len(wire) \in Nat
      /\ produced \in 0 .. MaxBytes /\ Base \in Nat /\ BufEnd \in 0 .. MaxBytes
      /\ Base \in 0 .. BufEnd /\ BufEnd = Base + Len(buf) /\ BufEnd <= produced
  BY Sizes DEF IInv
<1>2. /\ produced' = e /\ e <= MaxBytes
      /\ UNCHANGED <<sent, closing, pc, written, wire>>
  BY DEF AddReply
<1>3. e \in produced .. MaxBytes /\ e \in 0 .. MaxBytes /\ e - produced = n
  BY <1>1, <1>2
<1>4. NewBytes(n) = Run(produced, e)
  BY <1>3 DEF NewBytes, Run
<1>5. Base' = Base
  BY <1>2 DEF Base
<1>6. PICK st : Tiled(st, reply, BufEnd, produced)
  BY DEF IInv
<1>7. reply \in Seq(Seq(1 .. MaxBytes)) /\ buf = Run(Base, BufEnd) /\ repliedLen = produced - BufEnd
  BY DEF IInv, TypeOK
<1> HIDE DEF e
<1>8. CASE FitsBuffer(n)
  <2>1. /\ reply = << >> /\ Len(buf) + n <= ReplyMaxLen /\ buf' = buf \o NewBytes(n)
        /\ UNCHANGED <<reply, repliedLen>>
    BY <1>8 DEF AddReply, FitsBuffer
  <2>2. BufEnd = produced
    BY <2>1, Sizes
  <2>3. Base \in 0 .. MaxBytes /\ produced \in Base .. MaxBytes /\ e \in Base .. MaxBytes
    BY <1>1, <1>3, <2>2
  <2>4. buf' = Run(Base, e)
    <3>1. Run(Base, produced) \o Run(produced, e) = Run(Base, e)
      BY <1>1, <1>3, <2>3, RunConcat
    <3> QED
      BY <1>4, <1>7, <2>1, <2>2, <3>1
  <2>5. Run(Base, e) \in Seq(1 .. MaxBytes) /\ Len(Run(Base, e)) = e - Base
    BY <1>1, <2>3, RunSeq
  <2>6. BufEnd' = e
    <3>1. BufEnd' = Base + (e - Base)
      BY <1>5, <2>4, <2>5 DEF BufEnd
    <3> QED
      BY <1>1, <1>3, <3>1
  <2>7. Len(buf') = Len(buf) + n
    <3>1. Len(buf') = e - Base
      BY <2>4, <2>5
    <3>2. /\ Len(buf) \in Int /\ Base \in Int /\ e \in Int /\ produced \in Int
          /\ e - produced = n /\ produced = Base + Len(buf)
      BY <1>1, <1>3, <2>2
    <3>3. e - Base = Len(buf) + n
      BY <3>2
    <3> QED
      BY <3>1, <3>3
  <2>8. TypeOK'
    BY <1>2, <1>3, <2>1, <2>4, <2>5, <2>7 DEF IInv, TypeOK
  <2>9. CursorInside'
    <3>1. ASSUME buf' # << >> PROVE sent < Len(buf')
      <4>1. CASE buf # << >>
        BY <1>1, <2>7, <4>1 DEF IInv, CursorInside
      <4>2. CASE buf = << >>
        <5>1. sent = 0
          BY <2>1, <4>2, Sizes
        <5>2. Len(buf') # 0
          BY <2>4, <2>5, <3>1, EmptySeq
        <5> QED
          BY <1>1, <2>7, <5>1, <5>2
      <4> QED
        BY <4>1, <4>2
    <3>2. ASSUME buf' = << >> PROVE sent = 0
      <4>1. Len(buf') = 0
        BY <3>2
      <4>2. Len(buf) \in Nat /\ Len(buf) + n = 0
        BY <1>1, <2>7, <4>1
      <4>3. Len(buf) = 0
        BY <4>2
      <4> QED
        BY <2>1, <4>3, Sizes
    <3> QED
      BY <1>2, <2>1, <3>1, <3>2 DEF CursorInside
  <2>10. Tiled([i \in 1 .. 1 |-> e], reply', e, e)
    BY <1>3, <2>1 DEF Tiled
  <2>11. repliedLen' = produced' - BufEnd' /\ BufEnd' <= produced' /\ 0 <= Base'
    <3>1. produced \in Int /\ e \in Int /\ 0 <= Base
      BY <1>1, <1>3
    <3>2. produced - produced = 0 /\ e - e = 0 /\ e <= e
      BY <3>1
    <3> QED
      BY <1>2, <1>5, <1>7, <2>1, <2>2, <2>6, <3>1, <3>2
  <2>12. buf' = Run(Base', BufEnd') /\ \E t : Tiled(t, reply', BufEnd', produced')
    BY <1>2, <1>5, <2>4, <2>6, <2>10
  <2> QED
    BY <1>2, <2>8, <2>9, <2>11, <2>12 DEF IInv
<1>9. CASE ~FitsBuffer(n)
  <2>1. /\ reply' = AddToList(NewBytes(n)) /\ repliedLen' = repliedLen + n
        /\ buf' = buf
    BY <1>9 DEF AddReply
  <2>2. BufEnd' = BufEnd
    BY <1>5, <2>1 DEF BufEnd
  <2>3. repliedLen' = produced' - BufEnd' /\ BufEnd' <= produced' /\ 0 <= Base'
        /\ repliedLen' \in 0 .. MaxBytes
    <3>1. /\ produced \in Int /\ e \in Int /\ BufEnd \in Nat /\ MaxBytes \in Nat /\ 0 <= Base
          /\ BufEnd <= produced /\ produced <= e /\ e <= MaxBytes /\ e - produced = n
      BY <1>1, <1>3
    <3>2. (produced - BufEnd) + n = e - BufEnd /\ e - BufEnd \in 0 .. MaxBytes /\ BufEnd <= e
      BY <3>1
    <3> QED
      BY <1>2, <1>5, <1>7, <2>1, <2>2, <3>1, <3>2
  <2>4. /\ reply' \in Seq(Seq(1 .. MaxBytes))
        /\ \E t : Tiled(t, reply', BufEnd, e)
        /\ reply' # << >>
        /\ reply # << >> => Len(Head(reply)) <= Len(Head(reply'))
        /\ reply # << >> => Len(Head(reply)) \in Nat
    <3>0. Run(produced, e) \in Seq(1 .. MaxBytes) /\ Len(Run(produced, e)) \in Nat
      BY <1>1, <1>3, RunSeq
    <3>1. CASE reply' = Append(reply, Run(produced, e))
      <4>1. /\ Append(reply, Run(produced, e)) \in Seq(Seq(1 .. MaxBytes))
            /\ \E t : Tiled(t, Append(reply, Run(produced, e)), BufEnd, e)
        BY <1>3, <1>6, <1>7, TiledAppend
      <4>2. /\ Append(reply, Run(produced, e)) # << >>
            /\ reply # << >> => Head(Append(reply, Run(produced, e))) = Head(reply)
        <5> DEFINE C == Seq(1 .. MaxBytes)
        <5> HIDE DEF C
        <5>1. reply \in Seq(C) /\ Run(produced, e) \in C
          BY <1>7, <3>0 DEF C
        <5> QED
          BY <5>1, HeadTailAppend, AppendProperties
      <4>3. reply # << >> => Len(Head(reply)) \in Nat
        BY <1>6, <1>7, TiledDrop
      <4> QED
        BY <3>1, <4>1, <4>2, <4>3
    <3>2. CASE reply # << >> /\ reply' = [reply EXCEPT ![Len(reply)] = @ \o Run(produced, e)]
      <4> DEFINE d == [reply EXCEPT ![Len(reply)] = @ \o Run(produced, e)]
      <4>1. /\ d \in Seq(Seq(1 .. MaxBytes))
            /\ \E t : Tiled(t, d, BufEnd, e)
        BY <1>3, <1>6, <1>7, <3>2, TiledGlue
      <4>2. Len(reply) \in Nat \ {0} /\ 1 \in 1 .. Len(reply) /\ DOMAIN reply = 1 .. Len(reply)
        BY <1>7, <3>2, EmptySeq, LenProperties
      <4>3. Head(reply) = reply[1] /\ reply[1] \in Seq(1 .. MaxBytes)
        BY <1>7, <3>2, <4>2
      <4>4. Len(d) = Len(reply) /\ d # << >> /\ Head(d) = d[1]
        BY <1>7, <4>1, <4>2, LenProperties
      <4>5. CASE Len(reply) = 1
        <5>1. d[1] = reply[1] \o Run(produced, e)
          BY <4>2, <4>5
        <5>2. /\ Len(reply[1] \o Run(produced, e)) = Len(reply[1]) + Len(Run(produced, e))
              /\ Len(reply[1]) \in Nat
          BY <3>0, <4>3, ConcatProperties, LenProperties
        <5> QED
          BY <3>0, <3>2, <4>1, <4>3, <4>4, <5>1, <5>2
      <4>6. CASE Len(reply) # 1
        <5>1. d[1] = reply[1]
          BY <4>2, <4>6
        <5>2. Len(reply[1]) \in Nat
          BY <4>3, LenProperties
        <5> QED
          BY <3>2, <4>1, <4>3, <4>4, <5>1, <5>2
      <4> QED
        BY <4>5, <4>6
    <3> QED
      BY <1>4, <2>1, <3>1, <3>2 DEF AddToList, AddNodeTail
  <2>5. TypeOK'
    BY <1>2, <1>3, <2>1, <2>3, <2>4 DEF IInv, TypeOK
  <2>6. CursorInside'
    <3>1. CASE buf # << >>
      BY <1>2, <2>1, <3>1 DEF IInv, CursorInside
    <3>2. CASE buf = << >> /\ reply # << >>
      <4>1. Head(reply') \in Seq(1 .. MaxBytes) /\ Len(Head(reply')) \in Nat
        BY <2>4, TiledDrop
      <4>2. Len(Head(reply')) = 0 => Head(reply') = << >>
        BY <4>1, EmptySeq
      <4>3. sent < Len(Head(reply)) \/ sent = 0
        BY <3>2 DEF IInv, CursorInside
      <4>4. sent < Len(Head(reply')) \/ (sent = 0 /\ Head(reply') = << >>)
        BY <1>1, <2>4, <3>2, <4>1, <4>2, <4>3
      <4> QED
        BY <1>2, <2>1, <2>4, <3>2, <4>4 DEF CursorInside
    <3>3. CASE buf = << >> /\ reply = << >>
      <4>1. Head(reply') \in Seq(1 .. MaxBytes) /\ Len(Head(reply')) \in Nat
        BY <2>4, TiledDrop
      <4>2. Len(Head(reply')) = 0 => Head(reply') = << >>
        BY <4>1, EmptySeq
      <4>3. sent = 0
        BY <3>3, Sizes
      <4> QED
        BY <1>2, <2>1, <2>4, <3>3, <4>1, <4>2, <4>3 DEF CursorInside
    <3> QED
      BY <3>1, <3>2, <3>3
  <2>7. buf' = Run(Base', BufEnd') /\ \E t : Tiled(t, reply', BufEnd', produced')
    BY <1>2, <1>5, <1>7, <2>1, <2>2, <2>4
  <2> QED
    BY <1>2, <2>3, <2>5, <2>6, <2>7 DEF IInv
<1> QED
  BY <1>8, <1>9

-----------------------------------------------------------------------------
(* Every step keeps the invariant. *)
LEMMA NextIInv == IInv /\ [Next]_vars => IInv'
<1> SUFFICES ASSUME IInv, [Next]_vars PROVE IInv'
  OBVIOUS
<1>1. CASE UNCHANGED vars
  BY <1>1, QuietStep DEF vars, bufVars, IInv, TypeOK
<1>2. CASE WriteStart
  BY <1>2, QuietStep DEF WriteStart, bufVars, IInv, TypeOK
<1>3. ASSUME NEW n \in 1 .. MaxBytes, WriteBuf(n) PROVE IInv'
  BY <1>3, WriteBufStep
<1>4. ASSUME NEW n \in 1 .. MaxBytes, WriteNode(n) PROVE IInv'
  BY <1>4, WriteNodeStep
<1>5. CASE DropEmptyNode
  BY <1>5, DropEmptyNodeStep
<1>6. CASE WriteStop
  BY <1>6, QuietStep DEF WriteStop, bufVars, IInv, TypeOK
<1>7. CASE WriteError
  BY <1>7, QuietStep DEF WriteError, bufVars, IInv, TypeOK
<1>8. CASE WriteEnd
  <2>1. sent' = sent
    BY <1>8, Sizes DEF WriteEnd, Pending
  <2> QED
    BY <1>8, <2>1, QuietStep DEF WriteEnd, IInv, TypeOK
<1>9. CASE CloseAfterReply
  BY <1>9, QuietStep DEF CloseAfterReply, bufVars, IInv, TypeOK
<1>10. ASSUME NEW n \in 0 .. MaxReply, AddReply(n) PROVE IInv'
  <2>1. n \in Nat
    BY ReplyAssumption
  <2> QED
    BY <1>10, <2>1, AddReplyStep
<1> QED
  BY <1>1, <1>2, <1>3, <1>4, <1>5, <1>6, <1>7, <1>8, <1>9, <1>10
     DEF Next, WriteTurn, WriteSome

(* The invariant holds for ever. *)
LEMMA AlwaysIInv == Spec => []IInv
<1> QED
  BY InitIInv, NextIInv, PTL DEF Spec

(* However chunks are glued, split off, left empty and drained, and however *)
(* few bytes each write(2) takes, the one cursor c->buf_sent_len never      *)
(* reaches the end of the buffer or chunk it points into, so no write(2) is *)
(* asked for zero bytes, and c->buf is never filled past its end.           *)
THEOREM CursorStaysInside == Spec => []CursorInChunk
<1>1. IInv => CursorInChunk
  BY DEF IInv, CursorInside, CursorInChunk
<1> QED
  BY <1>1, AlwaysIInv, PTL

(* c->replied_len, which is counted up reply by reply and down chunk by     *)
(* chunk, is the number of bytes in the list at every moment.               *)
THEOREM RepliedLenIsExact == Spec => []RepliedLenExact
<1>1. ASSUME IInv PROVE RepliedLenExact
  <2>1. PICK st : Tiled(st, reply, BufEnd, produced)
    BY <1>1 DEF IInv
  <2>2. Len(FlattenSeq(reply)) = produced - BufEnd
    BY <1>1, <2>1, FlattenTiled DEF IInv, TypeOK
  <2> QED
    BY <1>1, <2>2 DEF IInv, RepliedLenExact
<1> QED
  BY <1>1, AlwaysIInv, PTL

(* Every step is a step of the stream, or invisible to the socket. *)
LEMMA StreamStep == IInv /\ [Next]_vars => [Stream!StreamNext]_(Stream!streamVars)
<1> SUFFICES ASSUME IInv, [Next]_vars PROVE [Stream!StreamNext]_(Stream!streamVars)
  OBVIOUS
<1> DEFINE st == IF pc \in {"closed", "failed"} THEN pc ELSE "open"
<1>0. ASSUME wire' = wire, produced' = produced, st' = st
      PROVE  UNCHANGED Stream!streamVars
  BY <1>0 DEF Stream!streamVars
<1>1. CASE UNCHANGED vars
  BY <1>0, <1>1 DEF vars, bufVars
<1>2. CASE WriteStart
  BY <1>0, <1>2 DEF WriteStart, bufVars
<1>3. ASSUME NEW n \in 1 .. MaxBytes, WriteBuf(n) \/ WriteNode(n)
      PROVE  Stream!Deliver
  <2>1. /\ IInv' /\ n \in Nat \ {0}
        /\ Len(wire) + n <= produced /\ Len(wire)' = Len(wire) + n
    BY <1>3, WriteBufStep, WriteNodeStep
  <2>2. /\ Len(wire) \in Nat /\ produced \in Nat
    BY Sizes
  <2>3. st = "open" /\ st' = st /\ produced' = produced
    BY <1>3 DEF WriteBuf, WriteNode, Sent
  <2>4. wire' = [i \in 1 .. Len(wire') |-> i]
    <3>1. wire' = Run(0, Len(wire'))
      BY <2>1 DEF IInv
    <3>2. Len(wire') \in Nat
      BY <2>1, <2>2
    <3> HIDE DEF IInv
    <3>3. Run(0, Len(wire')) = [i \in 1 .. Len(wire') |-> i]
      BY <3>2 DEF Run
    <3> QED
      BY <3>1, <3>3
  <2>5. Len(wire') \in Len(wire) + 1 .. produced
    BY <2>1, <2>2
  <2>6. \E k \in Len(wire) + 1 .. produced : wire' = [i \in 1 .. k |-> i]
    BY <2>4, <2>5
  <2> QED
    BY <2>3, <2>6 DEF Stream!Deliver
<1>4. CASE DropEmptyNode
  BY <1>0, <1>4 DEF DropEmptyNode
<1>5. CASE WriteStop
  BY <1>0, <1>5 DEF WriteStop
<1>6. CASE WriteError
  BY <1>6 DEF WriteError, Stream!StreamNext, Stream!Fail
<1>7. CASE WriteEnd
  <2>1. CASE ~Pending /\ closing
    <3>1. Len(wire) = produced
      BY <2>1, Sizes DEF Pending
    <3>2. st = "open" /\ st' = "closed" /\ produced' = produced /\ wire' = wire
      BY <1>7, <2>1 DEF WriteEnd
    <3> QED
      BY <3>1, <3>2 DEF Stream!StreamNext, Stream!Close
  <2>2. CASE ~(~Pending /\ closing)
    BY <1>0, <1>7, <2>2 DEF WriteEnd
  <2> QED
    BY <2>1, <2>2
<1>8. CASE CloseAfterReply
  BY <1>0, <1>8 DEF CloseAfterReply
<1>9. ASSUME NEW n \in 0 .. MaxReply, AddReply(n) PROVE Stream!Produce
  <2>1. /\ st = "open" /\ st' = st /\ wire' = wire
        /\ produced' = produced + n /\ produced + n <= MaxBytes
    BY <1>9 DEF AddReply
  <2>2. produced \in Nat /\ MaxBytes \in Nat /\ n \in Nat
    BY Sizes, ReplyAssumption
  <2>3. produced' \in produced .. MaxBytes
    BY <2>1, <2>2
  <2> QED
    BY <2>1, <2>3 DEF Stream!Produce
<1> QED
  BY <1>1, <1>2, <1>3, <1>4, <1>5, <1>6, <1>7, <1>8, <1>9
     DEF Next, WriteTurn, WriteSome, Stream!StreamNext

(* The two buffers implement one stream: the socket gets every byte of the  *)
(* replies once and in order, and a connection closed after its reply has   *)
(* got all of it.                                                           *)
THEOREM BuffersDeliverStream == Spec => DeliversStream
<1>1. Init => Stream!StreamInit
  BY DEF Init, Stream!StreamInit
<1> QED
  BY <1>1, AlwaysIInv, StreamStep, PTL DEF Spec, DeliversStream, Stream!StreamSpec
=============================================================================
