--------------------------- MODULE ProtocolProofs ---------------------------
(***************************************************************************)
(* Proofs about the request parser of Protocol, for sessions of any        *)
(* requests, well formed or not, and any limits.                           *)
(***************************************************************************)
EXTENDS Protocol, ListTheorems, TLAPS

Stream == Seq(STRING)

(* The parser's own state: where a request may be left half read.  The      *)
(* length of an argument is known only inside a multi bulk request; it is   *)
(* forgotten before an error or QUIT closes the connection; and the server  *)
(* returns to the socket only when the argument is not complete.            *)
Between ==
  /\ query \in Stream
  /\ input \in Stream
  /\ pc # "bulk" => pos = 0
  /\ pc = "bulk" => multibulk > 0 /\ ~closing
  /\ reqType # "multibulk" => multibulk = 0
  /\ multibulk = 0 => bulk = Unknown
  /\ pc = "run" => multibulk = 0
  /\ closing => bulk = Unknown
  /\ pc = "read" /\ bulk # Unknown => Len(query) < bulk + 2

IInv == TypeOK /\ Between

-----------------------------------------------------------------------------
(* The bytes of a session. *)

(* FlattenSeq glues sequences one by one: w has what it has glued.          *)
Glues(w, seqs, n) == w[0] = << >> /\ \A i \in 1 .. n : w[i] = w[i - 1] \o seqs[i]

LEMMA Gluing ==
  ASSUME NEW S, NEW C, C = Seq(S), NEW seqs \in Seq(C), NEW n \in 0 .. Len(seqs)
  PROVE  \E w \in [0 .. n -> C] : Glues(w, seqs, n)
<1> DEFINE T == {m \in 0 .. n : ~ \E w \in [0 .. m -> C] : Glues(w, seqs, m)}
<1>1. n \in Nat /\ \A i \in 1 .. n : seqs[i] \in C
  <2>1. Len(seqs) \in Nat /\ \A i \in 1 .. Len(seqs) : seqs[i] \in C
    BY LenProperties, ElementOfSeq
  <2> QED
    BY <2>1
<1>2. (\A s, t \in C : s \o t \in C) /\ << >> \in C
  BY ConcatProperties
<1>3. T = {}
  <2> SUFFICES ASSUME T # {} PROVE FALSE
    OBVIOUS
  <2>1. PICK m \in T : \A j \in T : m <= j
    <3>1. T \subseteq Nat
      BY <1>1
    <3> HIDE DEF T
    <3> QED
      BY <3>1, FirstPosition
  <2>2. m \in 0 .. n /\ ~ \E w \in [0 .. m -> C] : Glues(w, seqs, m)
    OBVIOUS
  <2>3. CASE m = 0
    <3> DEFINE w == [i \in 0 .. 0 |-> << >>]
    <3>1. w \in [0 .. 0 -> C] /\ w[0] = << >>
      BY <1>2
    <3>2. Glues(w, seqs, 0)
      BY <3>1 DEF Glues
    <3> QED
      BY <2>2, <2>3, <3>1, <3>2
  <2>4. CASE m # 0
    <3>1. m \in 1 .. n /\ m - 1 \in 0 .. n /\ m \in Nat /\ ~(m <= m - 1)
      BY <1>1, <2>2, <2>4
    <3>2. PICK w \in [0 .. m - 1 -> C] : Glues(w, seqs, m - 1)
      <4>1. m - 1 \notin T
        <5> HIDE DEF T
        <5> QED
          BY <2>1, <3>1
      <4> QED
        BY <3>1, <4>1
    <3> DEFINE x == w[m - 1] \o seqs[m]
               v == [i \in 0 .. m |-> IF i = m THEN x ELSE w[i]]
    <3>3. x \in C
      BY <1>1, <1>2, <3>1, <3>2
    <3>4. v \in [0 .. m -> C] /\ v[m] = x /\ \A i \in 0 .. m - 1 : v[i] = w[i]
      <4> HIDE DEF x
      <4> QED
        BY <3>1, <3>2, <3>3
    <3>5. Glues(v, seqs, m)
      <4> HIDE DEF v
      <4>1. v[0] = << >>
        BY <3>1, <3>2, <3>4 DEF Glues
      <4>2. ASSUME NEW i \in 1 .. m PROVE v[i] = v[i - 1] \o seqs[i]
        <5>1. CASE i = m
          <6>1. m - 1 \in 0 .. m - 1
            BY <3>1
          <6>2. v[m - 1] = w[m - 1]
            BY <3>4, <6>1
          <6> QED
            BY <3>4, <5>1, <6>2
        <5>2. CASE i # m
          <6>1. i \in 1 .. m - 1 /\ i \in 0 .. m - 1 /\ i - 1 \in 0 .. m - 1
            BY <3>1, <5>2
          <6> QED
            BY <3>2, <3>4, <6>1 DEF Glues
        <5> QED
          BY <5>1, <5>2
      <4> QED
        BY <4>1, <4>2 DEF Glues
    <3> QED
      BY <2>2, <3>4, <3>5
  <2> QED
    BY <2>3, <2>4
<1>4. n \in 0 .. n
  BY <1>1
<1>5. n \notin T
  BY <1>3
<1> QED
  BY <1>4, <1>5

LEMMA Glued ==
  ASSUME NEW S, NEW C, C = Seq(S), NEW seqs \in Seq(C),
         NEW w \in [0 .. Len(seqs) -> C], Glues(w, seqs, Len(seqs))
  PROVE  FlattenSeq(seqs) = w[Len(seqs)]
<1> DEFINE n == Len(seqs)
<1>1. n \in Nat /\ \A i \in 1 .. n : seqs[i] \in C
  BY LenProperties, ElementOfSeq
<1>2. CASE n = 0
  <2>1. seqs = << >> /\ FlattenSeq(seqs) = seqs
    BY <1>2, EmptySeq DEF FlattenSeq
  <2> QED
    BY <1>2, <2>1 DEF Glues
<1>3. CASE n # 0
  <2> DEFINE F(f) == [i \in 1 .. n |-> IF i = 1 THEN seqs[i] ELSE f[i - 1] \o seqs[i]]
             v == [i \in 1 .. n |-> w[i]]
             g == CHOOSE f : f = F(f)
  <2>1. n \in 1 .. n /\ 1 \in 1 .. n
    BY <1>1, <1>3
  <2>2. w[1] = seqs[1]
    <3>1. w[1] = w[0] \o seqs[1]
      <4>1. 1 \in 1 .. Len(seqs) /\ 1 - 1 = 0
        BY <2>1
      <4>2. w[1] = w[1 - 1] \o seqs[1]
        BY <4>1 DEF Glues
      <4> QED
        BY <4>1, <4>2
    <3>2. seqs[1] \in Seq(S) /\ w[0] = << >>
      BY <1>1, <2>1 DEF Glues
    <3>3. << >> \o seqs[1] = seqs[1]
      BY <3>2, ConcatEmptySeq
    <3> QED
      BY <3>1, <3>2, <3>3
  <2>3. v = F(v)
    <3>1. ASSUME NEW i \in 1 .. n PROVE v[i] = F(v)[i]
      <4>1. i # 1 => i - 1 \in 1 .. n
        BY <1>1
      <4> QED
        BY <2>2, <4>1 DEF Glues
    <3> QED
      BY <3>1
  <2>4. g = F(g)
    <3> HIDE DEF v, F
    <3> QED
      BY <2>3
  <2>5. FlattenSeq(seqs) = g[n]
    BY <1>3 DEF FlattenSeq
  <2>6. \A i \in 1 .. n : g[i] = IF i = 1 THEN seqs[i] ELSE g[i - 1] \o seqs[i]
    <3> HIDE DEF g
    <3> QED
      BY <2>4
  <2> HIDE DEF g
  <2> DEFINE U == {i \in 1 .. n : g[i] # w[i]}
  <2>7. U = {}
    <3> SUFFICES ASSUME U # {} PROVE FALSE
      OBVIOUS
    <3>1. PICK i \in U : \A j \in U : i <= j
      <4>1. U \subseteq Nat
        BY <1>1
      <4> HIDE DEF U
      <4> QED
        BY <4>1, FirstPosition
    <3>2. i \in 1 .. n /\ g[i] # w[i]
      OBVIOUS
    <3>3. CASE i = 1
      BY <2>2, <2>6, <3>2, <3>3
    <3>4. CASE i # 1
      <4>1. i - 1 \in 1 .. n /\ ~(i <= i - 1)
        BY <1>1, <3>2, <3>4
      <4>2. g[i - 1] = w[i - 1]
        BY <3>1, <4>1
      <4>3. w[i] = w[i - 1] \o seqs[i]
        BY <3>2 DEF Glues
      <4> QED
        BY <2>6, <3>2, <3>4, <4>2, <4>3
    <3> QED
      BY <3>3, <3>4
  <2> QED
    BY <2>1, <2>5, <2>7
<1> QED
  BY <1>2, <1>3

(* What FlattenSeq makes of the first i sequences. *)
Glue(seqs, i) == FlattenSeq(SubSeq(seqs, 1, i))

LEMMA GlueStep ==
  ASSUME NEW S, NEW C, C = Seq(S), NEW seqs \in Seq(C)
  PROVE  /\ Glue(seqs, 0) = << >>
         /\ Glue(seqs, Len(seqs)) = FlattenSeq(seqs)
         /\ \A i \in 0 .. Len(seqs) : Glue(seqs, i) \in C
         /\ \A i \in 1 .. Len(seqs) : Glue(seqs, i) = Glue(seqs, i - 1) \o seqs[i]
<1> DEFINE n == Len(seqs)
<1>1. n \in Nat /\ \A i \in 1 .. n : seqs[i] \in C
  BY LenProperties, ElementOfSeq
<1>2. PICK w \in [0 .. n -> C] : Glues(w, seqs, n)
  <2>1. n \in 0 .. Len(seqs)
    BY <1>1
  <2> HIDE DEF n
  <2> QED
    BY <2>1, Gluing
<1>3. ASSUME NEW m \in 0 .. n PROVE Glue(seqs, m) = w[m]
  <2> DEFINE t == SubSeq(seqs, 1, m)
             v == [i \in 0 .. m |-> w[i]]
  <2>1. m \in Nat /\ m <= n
    BY <1>1
  <2>2. t \in Seq(C) /\ Len(t) = m /\ \A i \in 1 .. m : t[i] = seqs[i]
    <3>1. \A i \in 1 .. m : seqs[i] \in C
      BY <1>1, <2>1
    <3> QED
      BY <1>1, <2>1, <3>1, SubSeqProperties
  <2>3. v \in [0 .. m -> C] /\ \A i \in 0 .. m : v[i] = w[i]
    BY <1>1, <2>1
  <2>4. Glues(v, t, m)
    <3> HIDE DEF v, t
    <3>1. v[0] = << >>
      BY <1>2, <2>1, <2>3 DEF Glues
    <3>2. ASSUME NEW i \in 1 .. m PROVE v[i] = v[i - 1] \o t[i]
      <4>1. i \in 1 .. n /\ i \in 0 .. m /\ i - 1 \in 0 .. m
        BY <1>1, <2>1
      <4> QED
        BY <1>2, <2>2, <2>3, <4>1 DEF Glues
    <3> QED
      BY <3>1, <3>2 DEF Glues
  <2>5. FlattenSeq(t) = v[m]
    <3> HIDE DEF v, t
    <3> QED
      BY <2>2, <2>3, <2>4, Glued, ZenonT(40)
  <2> QED
    BY <2>1, <2>3, <2>5 DEF Glue
<1>4. FlattenSeq(seqs) = w[n]
  BY <1>2, Glued
<1>5. 0 \in 0 .. n /\ n \in 0 .. n
  BY <1>1
<1>6. Glue(seqs, 0) = << >>
  BY <1>2, <1>3, <1>5 DEF Glues
<1>7. ASSUME NEW i \in 1 .. n PROVE Glue(seqs, i) = Glue(seqs, i - 1) \o seqs[i]
  <2>1. i \in 0 .. n /\ i - 1 \in 0 .. n
    BY <1>1
  <2> QED
    BY <1>2, <1>3, <2>1 DEF Glues
<1> QED
  BY <1>2, <1>3, <1>4, <1>5, <1>6, <1>7

LEMMA FlattenType ==
  ASSUME NEW S, NEW C, C = Seq(S), NEW seqs \in Seq(C)
  PROVE  FlattenSeq(seqs) \in C
<1>1. Len(seqs) \in Nat
  BY LenProperties
<1>2. Len(seqs) \in 0 .. Len(seqs)
  BY <1>1
<1> QED
  BY <1>2, GlueStep

(* A longer gluing begins with a shorter one. *)
LEMMA GlueGrows ==
  ASSUME NEW S, NEW C, C = Seq(S), NEW seqs \in Seq(C),
         NEW i \in 0 .. Len(seqs), NEW m \in i .. Len(seqs)
  PROVE  /\ Len(Glue(seqs, i)) \in Nat /\ Len(Glue(seqs, i)) <= Len(Glue(seqs, m))
         /\ \A p \in 1 .. Len(Glue(seqs, i)) : Glue(seqs, m)[p] = Glue(seqs, i)[p]
<1> DEFINE n == Len(seqs)
           G(k) == Glue(seqs, k)
           l == Len(G(i))
           Begins(k) == l <= Len(G(k)) /\ \A p \in 1 .. l : G(k)[p] = G(i)[p]
           T == {k \in i .. n : ~Begins(k)}
<1>1. n \in Nat /\ i \in Nat /\ \A k \in 1 .. n : seqs[k] \in C
  <2>1. n \in Nat /\ \A k \in 1 .. n : seqs[k] \in C
    BY LenProperties, ElementOfSeq
  <2> QED
    BY <2>1
<1>2. /\ \A k \in 0 .. n : G(k) \in C
      /\ \A k \in 1 .. n : G(k) = G(k - 1) \o seqs[k]
  BY GlueStep
<1> HIDE DEF G
<1>3. l \in Nat
  BY <1>2, LenProperties
<1>4. T = {}
  <2> SUFFICES ASSUME T # {} PROVE FALSE
    OBVIOUS
  <2>1. PICK k \in T : \A j \in T : k <= j
    <3>1. T \subseteq Nat
      BY <1>1
    <3> HIDE DEF T
    <3> QED
      BY <3>1, FirstPosition
  <2>2. k \in i .. n /\ ~Begins(k)
    OBVIOUS
  <2>3. k # i
    BY <1>3, <2>2
  <2>4. k - 1 \in i .. n /\ k - 1 \in 0 .. n /\ k \in 1 .. n /\ ~(k <= k - 1)
    BY <1>1, <2>2, <2>3
  <2>5. Begins(k - 1)
    <3>1. k - 1 \notin T
      <4> HIDE DEF T
      <4> QED
        BY <2>1, <2>4
    <3> HIDE DEF Begins
    <3> QED
      BY <2>4, <3>1
  <2> DEFINE s == G(k - 1)
  <2>6. s \in Seq(S) /\ seqs[k] \in Seq(S) /\ G(k) = s \o seqs[k]
    BY <1>1, <1>2, <2>4
  <2>7. Len(s) \in Nat /\ Len(seqs[k]) \in Nat /\ Len(G(k)) = Len(s) + Len(seqs[k])
        /\ \A p \in 1 .. Len(s) : G(k)[p] = s[p]
    <3> HIDE DEF s
    <3>1. Len(s) \in Nat /\ Len(seqs[k]) \in Nat
      BY <2>6, LenProperties
    <3>2. Len(s \o seqs[k]) = Len(s) + Len(seqs[k])
          /\ \A p \in 1 .. Len(s) + Len(seqs[k]) :
               (s \o seqs[k])[p] = IF p <= Len(s) THEN s[p] ELSE seqs[k][p - Len(s)]
      BY <2>6, ConcatProperties
    <3> QED
      BY <2>6, <3>1, <3>2
  <2>8. Begins(k)
    <3>1. l <= Len(s) /\ \A p \in 1 .. l : s[p] = G(i)[p]
      BY <2>5
    <3> HIDE DEF s, l
    <3>2. l <= Len(G(k)) /\ \A p \in 1 .. l : G(k)[p] = G(i)[p]
      BY <1>3, <2>7, <3>1
    <3> QED
      BY <3>2
  <2> QED
    BY <2>2, <2>8
<1>5. m \in i .. n /\ m \notin T
  BY <1>4
<1>6. Begins(m)
  <2> HIDE DEF Begins
  <2> QED
    BY <1>5
<1> QED
  BY <1>3, <1>6 DEF G

(* t stands in s behind the first n elements. *)
Stands(t, s, n) == \A j \in 1 .. Len(t) : s[n + j] = t[j]

(* The i-th sequence comes behind those before it. *)
LEMMA GlueAt ==
  ASSUME NEW S, NEW C, C = Seq(S), NEW seqs \in Seq(C), NEW i \in 1 .. Len(seqs)
  PROVE  /\ Len(Glue(seqs, i - 1)) \in Nat /\ Len(seqs[i]) \in Nat
         /\ Len(Glue(seqs, i)) = Len(Glue(seqs, i - 1)) + Len(seqs[i])
         /\ Len(Glue(seqs, i)) <= Len(FlattenSeq(seqs))
         /\ Stands(seqs[i], FlattenSeq(seqs), Len(Glue(seqs, i - 1)))
<1> DEFINE n == Len(seqs)
           s == Glue(seqs, i - 1)
           t == seqs[i]
           f == FlattenSeq(seqs)
<1>1. n \in Nat /\ i \in Nat /\ i \in 0 .. n /\ i - 1 \in 0 .. n /\ n \in i .. n
  <2>1. n \in Nat
    BY LenProperties
  <2> QED
    BY <2>1
<1>2. s \in Seq(S) /\ t \in Seq(S) /\ Glue(seqs, i) = s \o t /\ Glue(seqs, n) = f
  <2>1. t \in C
    BY ElementOfSeq
  <2> QED
    BY <1>1, <2>1, GlueStep
<1>3. /\ Len(Glue(seqs, i)) \in Nat /\ Len(Glue(seqs, i)) <= Len(f)
      /\ \A p \in 1 .. Len(Glue(seqs, i)) : f[p] = Glue(seqs, i)[p]
  <2>1. /\ Len(Glue(seqs, i)) \in Nat /\ Len(Glue(seqs, i)) <= Len(Glue(seqs, n))
        /\ \A p \in 1 .. Len(Glue(seqs, i)) : Glue(seqs, n)[p] = Glue(seqs, i)[p]
    BY <1>1, GlueGrows
  <2> HIDE DEF f, n
  <2> QED
    BY <1>2, <2>1
<1> HIDE DEF s, t, f
<1>4. Len(s) \in Nat /\ Len(t) \in Nat /\ Len(s \o t) = Len(s) + Len(t)
      /\ \A p \in 1 .. Len(s) + Len(t) : (s \o t)[p] = IF p <= Len(s) THEN s[p] ELSE t[p - Len(s)]
  <2>1. Len(s) \in Nat /\ Len(t) \in Nat
    BY <1>2, LenProperties
  <2> QED
    BY <1>2, <2>1, ConcatProperties
<1>5. ASSUME NEW j \in 1 .. Len(t) PROVE f[Len(s) + j] = t[j]
  <2> DEFINE p == Len(s) + j
  <2>1. p \in 1 .. Len(s) + Len(t) /\ ~(p <= Len(s)) /\ p - Len(s) = j
    BY <1>4
  <2> HIDE DEF p
  <2>2. f[p] = (s \o t)[p] /\ (s \o t)[p] = t[p - Len(s)]
    BY <1>2, <1>3, <1>4, <2>1
  <2> QED
    BY <2>1, <2>2 DEF p
<1>6. Stands(t, f, Len(s))
  BY <1>5 DEF Stands
<1> QED
  BY <1>2, <1>3, <1>4, <1>6 DEF s, t, f

(* The bytes of the messages of a session, and where each message ends. *)
BytesOf(s) == [i \in DOMAIN s |-> s[i].bytes]

EndOf(s, i) == Len(Bytes(SubSeq(s, 1, i)))

LEMMA SessionType ==
  ASSUME NEW s \in Sessions
  PROVE  /\ s \in Seq(Message) /\ Len(s) \in Nat /\ DOMAIN s = 1 .. Len(s)
         /\ \A i \in 1 .. Len(s) : /\ s[i].bytes \in Stream
                                   /\ s[i].argv \in Seq(Stream)
                                   /\ s[i].ok \in BOOLEAN
         /\ BytesOf(s) \in Seq(Stream) /\ Len(BytesOf(s)) = Len(s)
         /\ \A i \in 1 .. Len(s) : BytesOf(s)[i] = s[i].bytes
<1>1. s \in Seq(Message)
  BY ProtocolAssumption
<1>2. DOMAIN s = 1 .. Len(s) /\ Len(s) \in Nat /\ \A i \in 1 .. Len(s) : s[i] \in Message
  BY <1>1, LenProperties, ElementOfSeq
<1>3. \A r \in Message : r.bytes \in Stream /\ r.argv \in Seq(Stream) /\ r.ok \in BOOLEAN
  BY DEF Message, Stream
<1> DEFINE b == BytesOf(s)
           C == Stream
<1>4. b \in [1 .. Len(s) -> C] /\ \A i \in 1 .. Len(s) : b[i] = s[i].bytes
  <2> HIDE DEF C
  <2>1. \A r \in Message : r.bytes \in C
    BY <1>3 DEF C
  <2> QED
    BY <1>2, <2>1 DEF BytesOf
<1>5. b \in Seq(C) /\ Len(b) = Len(s)
  <2> HIDE DEF b, C
  <2> QED
    BY <1>2, <1>4
<1> QED
  BY <1>1, <1>2, <1>3, <1>4, <1>5

LEMMA BytesUpto ==
  ASSUME NEW s \in Sessions
  PROVE  /\ Bytes(s) = FlattenSeq(BytesOf(s))
         /\ \A i \in 0 .. Len(s) : Bytes(SubSeq(s, 1, i)) = Glue(BytesOf(s), i)
<1>1. Bytes(s) = FlattenSeq(BytesOf(s))
  BY DEF Bytes, BytesOf
<1>2. ASSUME NEW i \in 0 .. Len(s) PROVE Bytes(SubSeq(s, 1, i)) = Glue(BytesOf(s), i)
  <2> DEFINE t == SubSeq(s, 1, i)
             b == BytesOf(s)
             u == [k \in DOMAIN t |-> t[k].bytes]
  <2>1. s \in Seq(Message) /\ Len(s) \in Nat /\ i \in Nat /\ i <= Len(s)
        /\ b \in Seq(Stream) /\ Len(b) = Len(s) /\ \A k \in 1 .. Len(s) : b[k] = s[k].bytes
    BY SessionType
  <2>2. \A k \in 1 .. i : k \in 1 .. Len(s) /\ s[k] \in Message /\ b[k] \in Stream
    <3>1. \A k \in 1 .. i : k \in 1 .. Len(s)
      BY <2>1
    <3> HIDE DEF b
    <3> QED
      BY <2>1, <3>1, ElementOfSeq
  <2>3. t \in Seq(Message) /\ Len(t) = i /\ DOMAIN t = 1 .. i /\ \A k \in 1 .. i : t[k] = s[k]
    <3>1. t \in Seq(Message) /\ Len(t) = i /\ \A k \in 1 .. i : t[k] = s[k]
      BY <2>1, <2>2, SubSeqProperties
    <3> HIDE DEF t
    <3> QED
      BY <3>1, LenProperties
  <2>4. SubSeq(b, 1, i) \in Seq(Stream) /\ Len(SubSeq(b, 1, i)) = i
        /\ \A k \in 1 .. i : SubSeq(b, 1, i)[k] = b[k]
    <3> HIDE DEF b
    <3> QED
      BY <2>1, <2>2, SubSeqProperties
  <2>5. SubSeq(b, 1, i) = u
    <3> HIDE DEF t, b
    <3>1. u \in Seq(Stream) /\ Len(u) = i /\ \A k \in 1 .. i : u[k] = b[k]
      <4>1. u \in [1 .. i -> Stream] /\ \A k \in 1 .. i : u[k] = b[k]
        BY <2>1, <2>2, <2>3
      <4> HIDE DEF u
      <4> QED
        BY <2>1, <4>1
    <3> HIDE DEF u
    <3> QED
      BY <2>4, <3>1, SeqEqual
  <2> QED
    BY <2>5 DEF Bytes, Glue
<1> QED
  BY <1>1, <1>2

LEMMA Ends ==
  ASSUME NEW s \in Sessions
  PROVE  /\ EndOf(s, 0) = 0 /\ EndOf(s, Len(s)) = Len(Bytes(s)) /\ Len(Bytes(s)) \in Nat
         /\ \A i \in 0 .. Len(s) : EndOf(s, i) \in Nat
         /\ \A i \in 0 .. Len(s) : \A k \in i .. Len(s) : EndOf(s, i) <= EndOf(s, k)
         /\ \A i \in 1 .. Len(s) : EndOf(s, i) = EndOf(s, i - 1) + Len(s[i].bytes)
         /\ \A i \in 1 .. Len(s) : Stands(s[i].bytes, Bytes(s), EndOf(s, i - 1))
<1> DEFINE b == BytesOf(s)
           n == Len(s)
           C == Stream
<1>1. b \in Seq(C) /\ Len(b) = n /\ n \in Nat /\ \A i \in 1 .. n : b[i] = s[i].bytes
  BY SessionType
<1>2. C = Seq(STRING)
  BY DEF Stream
<1>3. \A i \in 0 .. n : EndOf(s, i) = Len(Glue(b, i))
  BY BytesUpto DEF EndOf
<1>4. Bytes(s) = FlattenSeq(b)
  BY BytesUpto
<1> HIDE DEF b, C, n
<1>5. Glue(b, 0) = << >> /\ Glue(b, n) = FlattenSeq(b)
  BY <1>1, <1>2, GlueStep
<1>6. ASSUME NEW i \in 0 .. n, NEW k \in i .. n
      PROVE  Len(Glue(b, i)) \in Nat /\ Len(Glue(b, i)) <= Len(Glue(b, k))
  BY <1>1, <1>2, GlueGrows
<1>7. ASSUME NEW i \in 1 .. n
      PROVE  /\ Len(Glue(b, i)) = Len(Glue(b, i - 1)) + Len(b[i])
             /\ Stands(b[i], FlattenSeq(b), Len(Glue(b, i - 1)))
  <2>1. i \in 1 .. Len(b)
    BY <1>1
  <2> QED
    BY <1>1, <1>2, <2>1, GlueAt
<1>8. 0 \in 0 .. n /\ n \in 0 .. n /\ \A i \in 1 .. n : i \in 0 .. n /\ i - 1 \in 0 .. n
  BY <1>1
<1>9. \A i \in 0 .. n : i \in i .. n
  BY <1>1
<1>10. EndOf(s, 0) = 0 /\ EndOf(s, n) = Len(Bytes(s)) /\ Len(Bytes(s)) \in Nat
  <2>1. Len(<< >>) = 0
    OBVIOUS
  <2> QED
    BY <1>3, <1>4, <1>5, <1>6, <1>8, <1>9, <2>1
<1>11. ASSUME NEW i \in 0 .. n PROVE EndOf(s, i) \in Nat
  BY <1>3, <1>6, <1>9
<1>12. ASSUME NEW i \in 0 .. n, NEW k \in i .. n PROVE EndOf(s, i) <= EndOf(s, k)
  <2>1. k \in 0 .. n
    BY <1>1
  <2> QED
    BY <1>3, <1>6, <2>1
<1>13. ASSUME NEW i \in 1 .. n
       PROVE  /\ EndOf(s, i) = EndOf(s, i - 1) + Len(s[i].bytes)
              /\ Stands(s[i].bytes, Bytes(s), EndOf(s, i - 1))
  <2>1. EndOf(s, i) = Len(Glue(b, i)) /\ EndOf(s, i - 1) = Len(Glue(b, i - 1)) /\ b[i] = s[i].bytes
    BY <1>1, <1>3, <1>8
  <2> QED
    BY <1>4, <1>7, <2>1
<1> QED
  BY <1>10, <1>11, <1>12, <1>13 DEF n

LEMMA InitialInput ==
  ASSUME NEW s \in Sessions
  PROVE  Bytes(s) \in Stream
BY SessionType, FlattenType DEF Bytes, BytesOf, Stream

-----------------------------------------------------------------------------
(* The messages, by the positions of their bytes.                           *)

LEMMA ConcatStands ==
  ASSUME NEW S, NEW s \in Seq(S), NEW t \in Seq(S)
  PROVE  /\ s \o t \in Seq(S) /\ Len(s \o t) = Len(s) + Len(t)
         /\ Len(s) \in Nat /\ Len(t) \in Nat
         /\ Stands(s, s \o t, 0) /\ Stands(t, s \o t, Len(s))
<1>1. Len(s) \in Nat /\ Len(t) \in Nat
  BY LenProperties
<1> DEFINE u == s \o t
<1>2. u \in Seq(S) /\ Len(u) = Len(s) + Len(t)
      /\ \A p \in 1 .. Len(s) + Len(t) : u[p] = IF p <= Len(s) THEN s[p] ELSE t[p - Len(s)]
  BY <1>1, ConcatProperties
<1> HIDE DEF u
<1>3. ASSUME NEW j \in 1 .. Len(s) PROVE u[0 + j] = s[j]
  <2>1. j \in 1 .. Len(s) + Len(t) /\ j <= Len(s) /\ 0 + j = j
    BY <1>1
  <2> QED
    BY <1>2, <2>1
<1>4. ASSUME NEW j \in 1 .. Len(t) PROVE u[Len(s) + j] = t[j]
  <2> DEFINE p == Len(s) + j
  <2>1. p \in 1 .. Len(s) + Len(t) /\ ~(p <= Len(s)) /\ p - Len(s) = j
    BY <1>1
  <2> HIDE DEF p
  <2>2. u[p] = t[p - Len(s)]
    BY <1>2, <2>1
  <2> QED
    BY <2>1, <2>2 DEF p
<1> QED
  BY <1>1, <1>2, <1>3, <1>4 DEF Stands, u

LEMMA DigitIs ==
  ASSUME NEW n \in Range(Numeral)
  PROVE  Digit(n) \in DOMAIN Numeral /\ Numeral[Digit(n)] = n
<1>1. \E b \in DOMAIN Numeral : Numeral[b] = n
  BY DEF Range
<1> QED
  BY <1>1 DEF Digit

LEMMA NumeralBytes ==
  ASSUME NEW b \in DOMAIN Numeral
  PROVE  b # CR /\ Numeral[b] \in Int
BY ProtocolAssumption

Char == STRING \cup DOMAIN Numeral \cup {CR, LF, "$", "*"}

LEMMA StreamChars ==
  ASSUME NEW s \in Stream
  PROVE  s \in Seq(Char) /\ Len(s) \in Nat
<1>1. Len(s) \in Nat /\ s \in Seq(STRING)
  BY LenProperties DEF Stream
<1>2. s \in [1 .. Len(s) -> STRING]
  BY <1>1, LenProperties
<1> DEFINE C == Char
<1>3. \A x \in STRING : x \in C
  BY DEF Char
<1> HIDE DEF C
<1>4. s \in [1 .. Len(s) -> C]
  BY <1>2, <1>3
<1>5. s \in Seq(C)
  BY <1>1, <1>4
<1> QED
  BY <1>1, <1>5 DEF C

(* The four bytes of a count or length line. *)
LEMMA FourBytes ==
  ASSUME NEW a \in {"$", "*"}, NEW d \in DOMAIN Numeral
  PROVE  /\ EndOfLine \in Seq(Char) /\ Len(EndOfLine) = 2 /\ EndOfLine[1] = CR /\ EndOfLine[2] = LF
         /\ <<a, d>> \o EndOfLine \in Seq(Char) /\ Len(<<a, d>> \o EndOfLine) = 4
         /\ (<<a, d>> \o EndOfLine)[1] = a /\ (<<a, d>> \o EndOfLine)[2] = d
         /\ (<<a, d>> \o EndOfLine)[3] = CR /\ (<<a, d>> \o EndOfLine)[4] = LF
<1> DEFINE C == Char
           cr == CR
           lf == LF
           b == <<a, d>>
           e == <<cr, lf>>
           h == b \o e
<1>1. a \in C /\ d \in C /\ cr \in C /\ lf \in C
  BY DEF Char
<1> HIDE DEF C, cr, lf
<1>2. b \in Seq(C) /\ Len(b) = 2 /\ b[1] = a /\ b[2] = d
      /\ e \in Seq(C) /\ Len(e) = 2 /\ e[1] = cr /\ e[2] = lf
  BY <1>1
<1> HIDE DEF b, e
<1>3. h \in Seq(C) /\ Len(h) = Len(b) + Len(e) /\ Stands(b, h, 0) /\ Stands(e, h, Len(b))
  BY <1>2, ConcatStands
<1> HIDE DEF h
<1>4. h[0 + 1] = b[1] /\ h[0 + 2] = b[2]
  BY <1>2, <1>3 DEF Stands
<1>5. h[2 + 1] = e[1] /\ h[2 + 2] = e[2]
  BY <1>2, <1>3 DEF Stands
<1>6. Len(h) = 4 /\ h[1] = a /\ h[2] = d /\ h[3] = cr /\ h[4] = lf
  BY <1>2, <1>3, <1>4, <1>5
<1>7. e = EndOfLine /\ h = <<a, d>> \o EndOfLine /\ cr = CR /\ lf = LF /\ C = Char
  BY DEF e, h, b, cr, lf, C, EndOfLine
<1> QED
  BY <1>2, <1>3, <1>6, <1>7

(* One argument with its length line. *)
Framed(s, n, arg) ==
  /\ s[n + 1] = "$"
  /\ s[n + 2] \in DOMAIN Numeral /\ Numeral[s[n + 2]] = Len(arg)
  /\ s[n + 3] = CR /\ s[n + 4] = LF
  /\ Stands(arg, s, n + 4)

LEMMA BulkFramed ==
  ASSUME NEW arg \in Stream, Len(arg) \in Range(Numeral)
  PROVE  /\ BulkBytes(arg) \in Seq(Char)
         /\ Len(arg) \in Nat /\ Len(BulkBytes(arg)) = 6 + Len(arg)
         /\ Framed(BulkBytes(arg), 0, arg)
<1> DEFINE d == Digit(Len(arg))
           e == EndOfLine
           h == <<"$", d>> \o e
           C == Seq(Char)
<1>1. d \in DOMAIN Numeral /\ Numeral[d] = Len(arg)
  BY DigitIs
<1>2. arg \in C /\ Len(arg) \in Nat
  BY StreamChars
<1>3. /\ e \in C /\ Len(e) = 2
      /\ h \in C /\ Len(h) = 4 /\ h[1] = "$" /\ h[2] = d /\ h[3] = CR /\ h[4] = LF
  <2> HIDE DEF d
  <2> QED
    BY <1>1, FourBytes
<1> HIDE DEF h, d, e
<1> DEFINE f == h \o arg
<1>5. f \in C /\ Len(f) = 4 + Len(arg) /\ Stands(h, f, 0) /\ Stands(arg, f, 4)
  <2>1. f \in C /\ Len(f) = Len(h) + Len(arg) /\ Stands(h, f, 0) /\ Stands(arg, f, Len(h))
    BY <1>2, <1>3, ConcatStands
  <2> HIDE DEF f
  <2> QED
    BY <1>3, <2>1
<1> HIDE DEF f
<1> DEFINE g == f \o e
<1>6. g \in C /\ Len(g) = Len(f) + Len(e) /\ Stands(f, g, 0)
  BY <1>3, <1>5, ConcatStands
<1> HIDE DEF g
<1>7. ASSUME NEW j \in 1 .. 4 PROVE g[0 + j] = h[j]
  <2>1. j \in 1 .. Len(f) /\ j \in 1 .. Len(h) /\ 0 + j = j
    BY <1>2, <1>3, <1>5
  <2> QED
    BY <1>5, <1>6, <2>1 DEF Stands
<1>8. ASSUME NEW j \in 1 .. Len(arg) PROVE g[0 + 4 + j] = arg[j]
  <2> DEFINE p == 4 + j
  <2>1. p \in 1 .. Len(f) /\ 0 + p = p /\ 0 + 4 + j = p
    BY <1>2, <1>5
  <2>2. f[p] = arg[j]
    BY <1>5 DEF Stands
  <2> HIDE DEF p
  <2> QED
    BY <1>6, <2>1, <2>2 DEF Stands
<1>9. Stands(arg, g, 0 + 4)
  BY <1>8 DEF Stands
<1>10. g[0 + 1] = "$" /\ g[0 + 2] = d /\ g[0 + 3] = CR /\ g[0 + 4] = LF
  BY <1>3, <1>7
<1>11. g = BulkBytes(arg)
  BY DEF g, f, h, d, e, BulkBytes
<1>12. Framed(g, 0, arg)
  BY <1>1, <1>9, <1>10 DEF Framed
<1> QED
  BY <1>2, <1>3, <1>5, <1>6, <1>11, <1>12

(* The arguments of a request, and where they begin. *)
BulkList(args) == [i \in DOMAIN args |-> BulkBytes(args[i])]

Place(args, k) == 4 + Len(Glue(BulkList(args), k))

(* What stands in a part of a sequence stands in the whole. *)
LEMMA StandsIn ==
  ASSUME NEW t, NEW s, NEW u, NEW n \in Nat, NEW m \in Nat, Len(t) \in Nat, Len(s) \in Nat,
         Stands(t, s, n), Stands(s, u, m), n + Len(t) <= Len(s)
  PROVE  Stands(t, u, m + n)
<1>1. ASSUME NEW j \in 1 .. Len(t) PROVE u[(m + n) + j] = t[j]
  <2>1. s[n + j] = t[j]
    BY DEF Stands
  <2> DEFINE p == n + j
  <2>2. p \in 1 .. Len(s) /\ m + p = (m + n) + j
    OBVIOUS
  <2>3. u[m + p] = s[p]
    <3> HIDE DEF p
    <3> QED
      BY <2>2 DEF Stands
  <2> QED
    BY <2>1, <2>2, <2>3
<1> QED
  BY <1>1 DEF Stands

LEMMA FramedIn ==
  ASSUME NEW arg, NEW s, NEW u, NEW m \in Nat, Len(arg) \in Nat, Len(s) = 6 + Len(arg),
         Framed(s, 0, arg), Stands(s, u, m)
  PROVE  Framed(u, m, arg)
<1>1. ASSUME NEW j \in 1 .. 4 PROVE u[m + j] = s[0 + j]
  <2>1. j \in 1 .. Len(s) /\ 0 + j = j
    OBVIOUS
  <2> QED
    BY <2>1 DEF Stands
<1>2. Stands(arg, u, m + 4)
  <2>1. Stands(arg, s, 4)
    <3>1. 0 + 4 = 4
      OBVIOUS
    <3> QED
      BY <3>1 DEF Framed
  <2> QED
    BY <2>1, StandsIn
<1> QED
  BY <1>1, <1>2 DEF Framed

(* A request that announces n arguments and has those in args. *)
LEMMA AnnouncedAt ==
  ASSUME NEW n, NEW args \in Seq(Stream), CanAnnounce(n, args)
  PROVE  /\ Announced(n, args) \in Seq(Char)
         /\ Len(Announced(n, args)) = Place(args, Len(args))
         /\ Announced(n, args)[1] = "*"
         /\ Announced(n, args)[2] \in DOMAIN Numeral /\ Numeral[Announced(n, args)[2]] = n
         /\ Announced(n, args)[3] = CR
         /\ Place(args, 0) = 4
         /\ \A k \in 0 .. Len(args) :
              Place(args, k) \in Nat /\ 4 <= Place(args, k) /\ Place(args, k) <= Place(args, Len(args))
         /\ \A k \in 1 .. Len(args) :
              /\ Place(args, k) = Place(args, k - 1) + (6 + Len(args[k]))
              /\ Len(args[k]) \in 0 .. MaxBulkLen
              /\ Framed(Announced(n, args), Place(args, k - 1), args[k])
<1> DEFINE b == BulkList(args)
           N == Len(args)
           C == Seq(Char)
           d == Digit(n)
           h == <<"*", d>> \o EndOfLine
           f == FlattenSeq(b)
<1>1. N \in Nat /\ DOMAIN args = 1 .. N /\ \A k \in 1 .. N : args[k] \in Stream
  BY LenProperties, ElementOfSeq
<1>2. n \in Range(Numeral)
      /\ \A k \in 1 .. N : Len(args[k]) <= MaxBulkLen /\ Len(args[k]) \in Range(Numeral)
  BY <1>1 DEF CanAnnounce
<1>3. \A k \in 1 .. N : /\ b[k] = BulkBytes(args[k]) /\ b[k] \in C
                        /\ Len(args[k]) \in Nat /\ Len(b[k]) = 6 + Len(args[k])
                        /\ Framed(b[k], 0, args[k])
  <2> HIDE DEF N
  <2> TAKE k \in 1 .. N
  <2>1. b[k] = BulkBytes(args[k])
    BY <1>1 DEF BulkList
  <2> QED
    BY <1>1, <1>2, <2>1, BulkFramed
<1>4. b \in Seq(C) /\ Len(b) = N
  <2>1. b \in [1 .. N -> C]
    <3> HIDE DEF C, N
    <3>1. DOMAIN b = 1 .. N
      BY <1>1 DEF BulkList
    <3>2. b = [k \in 1 .. N |-> b[k]]
      BY <1>1 DEF BulkList
    <3> HIDE DEF b
    <3> QED
      BY <1>3, <3>2
  <2> HIDE DEF b, C, N
  <2> QED
    BY <1>1, <2>1
<1>5. /\ h \in C /\ Len(h) = 4 /\ h[1] = "*" /\ h[2] = d /\ h[3] = CR
      /\ d \in DOMAIN Numeral /\ Numeral[d] = n
  <2>1. d \in DOMAIN Numeral /\ Numeral[d] = n
    BY <1>2, DigitIs
  <2> HIDE DEF d
  <2> QED
    BY <2>1, FourBytes
<1>6. f \in C /\ Glue(b, N) = f /\ Glue(b, 0) = << >>
  <2> HIDE DEF b, C
  <2>1. Glue(b, Len(b)) = f /\ Glue(b, 0) = << >>
    BY <1>4, GlueStep DEF C
  <2>2. f \in C
    BY <1>4, FlattenType DEF C
  <2> QED
    BY <1>4, <2>1, <2>2
<1> DEFINE a == h \o f
<1>7. a = Announced(n, args)
  BY DEF Announced, BulkList
<1> HIDE DEF b, d, h, f, N
<1>8. a \in C /\ Len(a) = Len(h) + Len(f) /\ Len(f) \in Nat /\ Stands(h, a, 0) /\ Stands(f, a, Len(h))
  BY <1>5, <1>6, ConcatStands
<1> HIDE DEF a
<1>9. a[1] = "*" /\ a[2] = d /\ a[3] = CR
  <2>1. a[0 + 1] = h[1] /\ a[0 + 2] = h[2] /\ a[0 + 3] = h[3]
    BY <1>5, <1>8 DEF Stands
  <2> QED
    BY <1>5, <2>1
<1>10. Place(args, 0) = 4 /\ Len(a) = Place(args, N)
  <2>1. Len(<< >>) = 0
    OBVIOUS
  <2> QED
    BY <1>5, <1>6, <1>8, <2>1 DEF Place, b
<1>11. ASSUME NEW k \in 0 .. N
       PROVE  Place(args, k) \in Nat /\ 4 <= Place(args, k) /\ Place(args, k) <= Place(args, N)
  <2>1. k \in 0 .. Len(b) /\ N \in k .. Len(b)
    BY <1>1, <1>4
  <2>2. Len(Glue(b, k)) \in Nat /\ Len(Glue(b, k)) <= Len(Glue(b, N))
    BY <1>4, <2>1, GlueGrows
  <2>3. Len(Glue(b, N)) \in Nat
    BY <1>6, <1>8
  <2> QED
    BY <2>2, <2>3 DEF Place, b
<1>12. ASSUME NEW k \in 1 .. N
       PROVE  /\ Place(args, k) = Place(args, k - 1) + (6 + Len(args[k]))
              /\ Len(args[k]) \in 0 .. MaxBulkLen
              /\ Framed(a, Place(args, k - 1), args[k])
  <2> DEFINE g == Len(Glue(b, k - 1))
  <2>1. /\ g \in Nat /\ Len(b[k]) \in Nat /\ Len(Glue(b, k)) = g + Len(b[k])
        /\ Len(Glue(b, k)) <= Len(f) /\ Stands(b[k], f, g)
    <3>1. k \in 1 .. Len(b)
      BY <1>4
    <3> QED
      BY <1>4, <3>1, GlueAt DEF f
  <2>2. Place(args, k) = 4 + Len(Glue(b, k)) /\ Place(args, k - 1) = 4 + g
    BY DEF Place, b
  <2> HIDE DEF g
  <2>3. Stands(b[k], a, 4 + g)
    <3>1. g + Len(b[k]) <= Len(f) /\ Stands(f, a, 4) /\ 4 \in Nat
      BY <1>5, <1>8, <2>1
    <3> QED
      BY <1>8, <2>1, <3>1, StandsIn
  <2>4. Framed(a, 4 + g, args[k])
    <3>1. 4 + g \in Nat
      BY <2>1
    <3> QED
      BY <1>3, <2>3, <3>1, FramedIn
  <2>5. Len(args[k]) \in 0 .. MaxBulkLen
    BY <1>2, <1>3, ProtocolAssumption
  <2>6. Len(b[k]) = 6 + Len(args[k]) /\ Len(args[k]) \in Nat
    BY <1>3
  <2>7. Place(args, k) = Place(args, k - 1) + (6 + Len(args[k]))
    <3> DEFINE r == Len(b[k])
    <3>1. r \in Nat /\ g \in Nat /\ Len(Glue(b, k)) = g + r /\ r = 6 + Len(args[k])
      BY <2>1, <2>6
    <3> HIDE DEF r
    <3>2. Place(args, k) = 4 + (g + r)
      BY <2>2, <3>1
    <3>3. r \in Nat /\ g \in Nat
      BY <3>1
    <3>4. 4 + (g + r) = (4 + g) + r
      BY ONLY <3>3
    <3>5. Place(args, k) = (4 + g) + r
      BY <3>2, <3>4
    <3> QED
      BY <2>2, <3>1, <3>5
  <2> QED
    BY <2>2, <2>4, <2>5, <2>7
<1> QED
  BY <1>5, <1>7, <1>8, <1>9, <1>10, <1>11, <1>12 DEF N

(* The line from n on does not end, or is the last of the message. *)
Unended(b, n) == Len(b) >= n + (InlineMax + IoBufLen) /\ \A j \in n + 1 .. Len(b) : b[j] # CR

Ended(b, n) ==
  /\ Len(b) >= n + 2 /\ b[Len(b) - 1] = CR
  /\ \A j \in n + 1 .. Len(b) - 2 : b[j] # CR

(* It is four bytes that make a count or a length. *)
IsCount(b) == Len(b) = 4 /\ b[2] \in DOMAIN Numeral /\ Numeral[b[2]] <= MaxBulks

IsLength(b, n) ==
  /\ Len(b) = n + 4 /\ b[n + 1] = "$"
  /\ b[n + 2] \in DOMAIN Numeral /\ Numeral[b[n + 2]] \in 0 .. MaxBulkLen

InlineShape(m) ==
  LET line == SubSeq(m.bytes, 1, Len(m.bytes) - 2)
  IN  /\ Len(m.bytes) >= 2 /\ m.bytes[Len(m.bytes)] = LF /\ m.bytes[Len(m.bytes) - 1] = CR
      /\ \A j \in 1 .. Len(m.bytes) - 1 : m.bytes[j] # LF
      /\ m.bytes[1] # "*"
      /\ m.ok = Balanced(line)
      /\ m.ok => Len(m.bytes) <= InlineMax + 1 /\ m.argv = Arguments(line)

CountShape(m) ==
  /\ m.bytes[1] = "*"
  /\ \/ ~m.ok /\ Unended(m.bytes, 0)
     \/ ~m.ok /\ Ended(m.bytes, 0) /\ ~IsCount(m.bytes)
     \/ /\ m.ok /\ m.argv = << >> /\ Len(m.bytes) = 4 /\ m.bytes[3] = CR
        /\ m.bytes[2] \in DOMAIN Numeral /\ Numeral[m.bytes[2]] <= 0

(* n arguments are announced. *)
BulkShape(m, n) ==
  LET p == Place(m.argv, Len(m.argv))
  IN  /\ n \in 1 .. MaxBulks
      /\ Len(m.bytes) >= p
      /\ m.bytes[1] = "*" /\ m.bytes[3] = CR
      /\ m.bytes[2] \in DOMAIN Numeral /\ Numeral[m.bytes[2]] = n
      /\ Place(m.argv, 0) = 4
      /\ \A k \in 0 .. Len(m.argv) :
           Place(m.argv, k) \in Nat /\ 4 <= Place(m.argv, k) /\ Place(m.argv, k) <= p
      /\ \A k \in 1 .. Len(m.argv) :
           /\ Place(m.argv, k) = Place(m.argv, k - 1) + (6 + Len(m.argv[k]))
           /\ Len(m.argv[k]) \in 0 .. MaxBulkLen
           /\ Framed(m.bytes, Place(m.argv, k - 1), m.argv[k])
      /\ IF m.ok THEN Len(m.argv) = n /\ Len(m.bytes) = p
         ELSE /\ Len(m.argv) < n
              /\ \/ Unended(m.bytes, p)
                 \/ Ended(m.bytes, p) /\ ~IsLength(m.bytes, p)

(* The same, of a sequence that is a part of a message. *)
LEMMA BrokenAt ==
  ASSUME NEW b \in Seq(Char), NEW t \in Seq(Char), NEW n \in Nat,
         Len(b) = n + Len(t), Stands(t, b, n), NEW allowed, Broken(t, allowed)
  PROVE  \/ Unended(b, n)
         \/ /\ Ended(b, n)
            /\ \E line \in Seq(Char) : /\ line \notin allowed /\ Len(line) = Len(b) - (n + 2)
                                       /\ Stands(line, b, n)
<1>1. Len(t) \in Nat /\ Len(b) \in Nat /\ DOMAIN t = 1 .. Len(t)
  BY LenProperties
<1>2. CASE Never(CR, t) /\ Len(t) >= InlineMax + IoBufLen
  <2>1. ASSUME NEW j \in n + 1 .. Len(b) PROVE b[j] # CR
    <3> DEFINE i == j - n
    <3>1. i \in 1 .. Len(t) /\ n + i = j
      BY <1>1
    <3> HIDE DEF i
    <3>2. b[n + i] = t[i] /\ t[i] # CR
      BY <1>1, <1>2, <3>1 DEF Stands, Never
    <3> QED
      BY <3>1, <3>2
  <2>2. Len(b) >= n + (InlineMax + IoBufLen)
    BY <1>1, <1>2, ProtocolAssumption
  <2> QED
    BY <2>1, <2>2 DEF Unended
<1>3. ASSUME NEW line, line = SubSeq(t, 1, Len(t) - 2), t = line \o EndOfLine,
             Never(CR, line), line \notin allowed
      PROVE  /\ Ended(b, n)
             /\ \E l \in Seq(Char) : /\ l \notin allowed /\ Len(l) = Len(b) - (n + 2)
                                     /\ Stands(l, b, n)
  <2> DEFINE e == EndOfLine
  <2>1. e \in Seq(Char) /\ Len(e) = 2 /\ e[1] = CR
    <3> DEFINE C == Char
               cr == CR
               lf == LF
    <3>1. cr \in C /\ lf \in C
      BY DEF Char
    <3> HIDE DEF C, cr, lf
    <3>2. <<cr, lf>> \in Seq(C) /\ Len(<<cr, lf>>) = 2 /\ <<cr, lf>>[1] = cr
      BY <3>1
    <3> QED
      BY <3>2 DEF EndOfLine, C, cr, lf
  <2>2. line \in Seq(Char)
    <3>1. \A i \in 1 .. Len(t) - 2 : t[i] \in Char
      BY <1>1, ElementOfSeq
    <3>2. SubSeq(t, 1, Len(t) - 2) \in Seq(Char)
      BY <1>1, <3>1, SubSeqProperties
    <3> QED
      BY <1>3, <3>2
  <2>3. Len(t) = Len(line) + Len(e) /\ Len(line) \in Nat /\ Stands(line, t, 0) /\ Stands(e, t, Len(line))
    <3> HIDE DEF e
    <3>1. t = line \o e
      BY <1>3 DEF e
    <3> QED
      BY <2>1, <2>2, <3>1, ConcatStands
  <2> HIDE DEF e
  <2>4. Len(t) = Len(line) + 2 /\ 0 + Len(line) <= Len(t) /\ n + 0 = n
    BY <2>1, <2>3
  <2>5. Stands(line, b, n)
    BY <1>1, <2>3, <2>4, StandsIn
  <2>6. b[Len(b) - 1] = CR
    <3> DEFINE i == Len(line) + 1
    <3>1. t[i] = e[1]
      BY <2>1, <2>3 DEF Stands
    <3>2. i \in 1 .. Len(t) /\ n + i = Len(b) - 1
      BY <1>1, <2>3, <2>4
    <3> HIDE DEF i
    <3>3. b[n + i] = t[i]
      BY <3>2 DEF Stands
    <3> QED
      BY <2>1, <3>1, <3>2, <3>3
  <2>7. ASSUME NEW j \in n + 1 .. Len(b) - 2 PROVE b[j] # CR
    <3> DEFINE i == j - n
    <3>1. i \in 1 .. Len(line) /\ n + i = j
      BY <1>1, <2>3, <2>4
    <3>2. i \in DOMAIN line
      BY <2>2, <3>1, LenProperties
    <3> HIDE DEF i
    <3>3. b[n + i] = line[i] /\ line[i] # CR
      BY <1>3, <2>5, <3>1, <3>2 DEF Stands, Never
    <3> QED
      BY <3>1, <3>3
  <2>8. Ended(b, n)
    BY <1>1, <2>3, <2>4, <2>6, <2>7 DEF Ended
  <2>9. Len(line) = Len(b) - (n + 2)
    BY <1>1, <2>3, <2>4
  <2> QED
    BY <1>3, <2>2, <2>5, <2>8, <2>9
<1> QED
  BY <1>2, <1>3 DEF Broken

(* A line with its end. *)
LEMMA LineAt ==
  ASSUME NEW line \in Seq(Char)
  PROVE  /\ Len(line) \in Nat /\ Len(line \o EndOfLine) = Len(line) + 2
         /\ Stands(line, line \o EndOfLine, 0)
         /\ (line \o EndOfLine)[Len(line) + 1] = CR /\ (line \o EndOfLine)[Len(line) + 2] = LF
<1> DEFINE C == Char
           cr == CR
           lf == LF
           e == <<cr, lf>>
           t == line \o e
<1>1. cr \in C /\ lf \in C
  BY DEF Char
<1>2. line \in Seq(C)
  OBVIOUS
<1> HIDE DEF C, cr, lf
<1>3. e \in Seq(C) /\ Len(e) = 2 /\ e[1] = cr /\ e[2] = lf
  BY <1>1
<1> HIDE DEF e
<1>4. Len(line) \in Nat /\ Len(t) = Len(line) + Len(e) /\ Stands(line, t, 0) /\ Stands(e, t, Len(line))
  BY <1>2, <1>3, ConcatStands
<1>5. t[Len(line) + 1] = cr /\ t[Len(line) + 2] = lf
  <2> HIDE DEF t
  <2> QED
    BY <1>3, <1>4 DEF Stands
<1>6. t = line \o EndOfLine
  BY DEF t, e, cr, lf, EndOfLine
<1> QED
  BY <1>3, <1>4, <1>5, <1>6 DEF cr, lf

LEMMA TwoLong ==
  ASSUME NEW S, NEW s \in Seq(S), Len(s) = 2
  PROVE  s = <<s[1], s[2]>>
OBVIOUS

LEMMA InlineHasShape ==
  ASSUME NEW m, m.bytes \in Stream, Inline(m)
  PROVE  InlineShape(m)
<1> DEFINE b == m.bytes
           line == SubSeq(b, 1, Len(b) - 2)
<1>1. b = line \o EndOfLine /\ Never(LF, line) /\ b[1] # "*" /\ m.ok = Balanced(line)
      /\ (m.ok => Len(line) < InlineMax /\ m.argv = Arguments(line))
  BY DEF Inline
<1>2. b \in Seq(Char) /\ Len(b) \in Nat
  BY StreamChars
<1>3. line \in Seq(Char)
  <2> HIDE DEF b
  <2>1. \A i \in 1 .. Len(b) - 2 : b[i] \in Char
    BY <1>2, ElementOfSeq
  <2> QED
    BY <1>2, <2>1, SubSeqProperties
<1> HIDE DEF line
<1>4. Len(line) \in Nat /\ Len(b) = Len(line) + 2 /\ Stands(line, b, 0)
      /\ b[Len(line) + 1] = CR /\ b[Len(line) + 2] = LF
  BY <1>1, <1>3, LineAt
<1> HIDE DEF b
<1>5. Len(b) - 1 = Len(line) + 1 /\ Len(b) - 2 = Len(line)
  BY <1>4
<1>6. ASSUME NEW j \in 1 .. Len(b) - 1 PROVE b[j] # LF
  <2>1. CASE j = Len(line) + 1
    BY <1>4, <2>1 DEF CR, LF
  <2>2. CASE j # Len(line) + 1
    <3>1. j \in 1 .. Len(line) /\ 0 + j = j
      BY <1>4, <2>2
    <3>2. j \in DOMAIN line
      BY <1>3, <3>1, LenProperties
    <3> QED
      BY <1>1, <1>4, <3>1, <3>2 DEF Stands, Never
  <2> QED
    BY <2>1, <2>2
<1>7. Len(b) >= 2 /\ b[Len(b)] = LF /\ b[Len(b) - 1] = CR
  BY <1>4, <1>5
<1>8. m.ok => Len(b) <= InlineMax + 1
  BY <1>1, <1>4, ProtocolAssumption
<1> QED
  BY <1>1, <1>6, <1>7, <1>8 DEF InlineShape, b, line

LEMMA NoBulkHasShape ==
  ASSUME NEW m, NoBulk(m)
  PROVE  CountShape(m)
<1>1. PICK b \in DOMAIN Numeral : Numeral[b] <= 0 /\ m.bytes = <<"*", b>> \o EndOfLine
  BY DEF NoBulk
<1>2. Len(m.bytes) = 4 /\ m.bytes[1] = "*" /\ m.bytes[2] = b /\ m.bytes[3] = CR
  BY <1>1, FourBytes
<1> QED
  BY <1>1, <1>2 DEF CountShape, NoBulk

LEMMA BrokenCountHasShape ==
  ASSUME NEW m, m.bytes \in Stream, BrokenCount(m)
  PROVE  CountShape(m)
<1> DEFINE b == m.bytes
<1>1. b \in Seq(Char) /\ Len(b) \in Nat /\ b[1] = "*" /\ Broken(b, CountLines) /\ ~m.ok
  BY StreamChars DEF BrokenCount
<1> HIDE DEF b
<1>2. Len(b) = 0 + Len(b) /\ Stands(b, b, 0) /\ 0 \in Nat
  BY <1>1 DEF Stands
<1>3. \/ Unended(b, 0)
      \/ /\ Ended(b, 0)
         /\ \E line \in Seq(Char) : /\ line \notin CountLines /\ Len(line) = Len(b) - (0 + 2)
                                    /\ Stands(line, b, 0)
  BY <1>1, <1>2, BrokenAt
<1>4. ASSUME NEW line \in Seq(Char), line \notin CountLines, Len(line) = Len(b) - (0 + 2),
             Stands(line, b, 0), IsCount(b)
      PROVE  FALSE
  <2>1. Len(line) = 2 /\ b[2] \in DOMAIN Numeral /\ Numeral[b[2]] <= MaxBulks
    BY <1>4 DEF IsCount
  <2>2. line[1] = b[1] /\ line[2] = b[2]
    <3>1. 1 \in 1 .. Len(line) /\ 2 \in 1 .. Len(line)
      BY <2>1
    <3>2. b[0 + 1] = line[1] /\ b[0 + 2] = line[2]
      BY <1>4, <3>1 DEF Stands
    <3> QED
      BY <3>2
  <2> DEFINE d == line[2]
  <2>3. line = <<"*", d>>
    <3>1. line = <<line[1], line[2]>>
      BY <1>4, <2>1, TwoLong
    <3>2. line[1] = "*"
      BY <1>1, <2>2
    <3> QED
      BY <3>1, <3>2
  <2>4. d \in DOMAIN Numeral /\ Numeral[d] <= MaxBulks
    BY <2>1, <2>2
  <2> HIDE DEF d
  <2> QED
    BY <1>4, <2>3, <2>4 DEF CountLines
<1> QED
  BY <1>1, <1>3, <1>4 DEF CountShape, b

LEMMA BulkHasShape ==
  ASSUME NEW m, m.bytes \in Stream, m.argv \in Seq(Stream), NEW n, CanAnnounce(n, m.argv),
         NEW t \in Seq(Char), m.bytes = Announced(n, m.argv) \o t,
         IF m.ok THEN Len(m.argv) = n /\ t = << >> ELSE Len(m.argv) < n /\ Broken(t, LengthLines)
  PROVE  BulkShape(m, n)
<1> DEFINE b == m.bytes
           args == m.argv
           a == Announced(n, args)
           p == Place(args, Len(args))
<1>0. args \in Seq(Stream) /\ CanAnnounce(n, args)
  OBVIOUS
<1>1. /\ a \in Seq(Char) /\ Len(a) = p
      /\ a[1] = "*" /\ a[2] \in DOMAIN Numeral /\ Numeral[a[2]] = n /\ a[3] = CR
      /\ Place(args, 0) = 4
      /\ \A k \in 0 .. Len(args) :
           Place(args, k) \in Nat /\ 4 <= Place(args, k) /\ Place(args, k) <= p
      /\ \A k \in 1 .. Len(args) :
           /\ Place(args, k) = Place(args, k - 1) + (6 + Len(args[k]))
           /\ Len(args[k]) \in 0 .. MaxBulkLen
           /\ Framed(a, Place(args, k - 1), args[k])
  <2> HIDE DEF args
  <2> QED
    BY <1>0, AnnouncedAt
<1>2. b = a \o t /\ args \in Seq(Stream) /\ Len(args) \in Nat
  BY LenProperties
<1>3. b \in Seq(Char) /\ Len(b) \in Nat
  BY StreamChars
<1> HIDE DEF a
<1>4. Len(b) = p + Len(t) /\ Len(t) \in Nat /\ p \in Nat /\ Stands(a, b, 0) /\ Stands(t, b, p)
  <2>1. Len(a \o t) = Len(a) + Len(t) /\ Len(t) \in Nat /\ Len(a) \in Nat
        /\ Stands(a, a \o t, 0) /\ Stands(t, a \o t, Len(a))
    BY <1>1, ConcatStands
  <2> HIDE DEF b, p
  <2> QED
    BY <1>1, <1>2, <2>1
<1>5. p >= 4
  <2>1. Len(args) \in 0 .. Len(args)
    BY <1>2
  <2> QED
    BY <1>1, <2>1
<1> HIDE DEF b, p, args
<1>6. ASSUME NEW j \in 1 .. Len(a) PROVE b[j] = a[j]
  <2>1. 0 + j = j
    BY <1>1, <1>4
  <2> QED
    BY <1>4, <2>1 DEF Stands
<1>7. b[1] = a[1] /\ b[2] = a[2] /\ b[3] = a[3]
  BY <1>1, <1>4, <1>5, <1>6
<1>8. ASSUME NEW k \in 1 .. Len(args) PROVE Framed(b, Place(args, k - 1), args[k])
  <2> DEFINE q == Place(args, k - 1)
             x == args[k]
  <2>1. k \in 0 .. Len(args) /\ k - 1 \in 0 .. Len(args)
    BY <1>2
  <2>2. q \in Nat /\ Len(x) \in Nat /\ Framed(a, q, x) /\ q + (6 + Len(x)) <= Len(a)
    <3>1. Len(x) \in 0 .. MaxBulkLen
      BY <1>1
    <3> QED
      BY <1>1, <2>1, <3>1, ProtocolAssumption, SMTT(20)
  <2> HIDE DEF q, x
  <2>3. ASSUME NEW j \in 1 .. 4 + Len(x) PROVE b[q + j] = a[q + j]
    <3>1. q + j \in 1 .. Len(a)
      BY <1>1, <1>4, <2>2
    <3> QED
      BY <1>6, <3>1
  <2>4. \A j \in 1 .. 4 : j \in 1 .. 4 + Len(x)
    BY <2>2
  <2>5. b[q + 1] = a[q + 1] /\ b[q + 2] = a[q + 2] /\ b[q + 3] = a[q + 3] /\ b[q + 4] = a[q + 4]
    BY <2>3, <2>4
  <2>6. ASSUME NEW j \in 1 .. Len(x) PROVE b[(q + 4) + j] = x[j]
    <3>1. 4 + j \in 1 .. 4 + Len(x) /\ q + (4 + j) = (q + 4) + j
      BY <2>2
    <3>2. a[(q + 4) + j] = x[j]
      BY <2>2 DEF Framed, Stands
    <3>3. b[q + (4 + j)] = a[q + (4 + j)]
      BY <2>3, <3>1
    <3> QED
      BY <3>1, <3>2, <3>3
  <2>7. Stands(x, b, q + 4)
    BY <2>6 DEF Stands
  <2>8. Framed(b, q, x)
    BY <2>2, <2>5, <2>7 DEF Framed
  <2> QED
    BY <2>8 DEF q, x
<1>9. /\ n \in 1 .. MaxBulks /\ Len(b) >= p
      /\ b[1] = "*" /\ b[3] = CR /\ b[2] \in DOMAIN Numeral /\ Numeral[b[2]] = n
  BY <1>1, <1>4, <1>7 DEF CanAnnounce
<1>10. \A k \in 1 .. Len(args) : /\ Place(args, k) = Place(args, k - 1) + (6 + Len(args[k]))
                                 /\ Len(args[k]) \in 0 .. MaxBulkLen
                                 /\ Framed(b, Place(args, k - 1), args[k])
  BY <1>1, <1>8
<1>11. ASSUME IF m.ok THEN Len(args) = n /\ Len(b) = p
              ELSE Len(args) < n /\ (Unended(b, p) \/ (Ended(b, p) /\ ~IsLength(b, p)))
       PROVE  BulkShape(m, n)
  <2>1. Place(args, 0) = 4
        /\ \A k \in 0 .. Len(args) : Place(args, k) \in Nat /\ 4 <= Place(args, k) /\ Place(args, k) <= p
    BY <1>1
  <2> QED
    BY <1>9, <1>10, <1>11, <2>1 DEF BulkShape, b, p, args
<1>12. CASE m.ok
  <2>1. Len(args) = n /\ Len(b) = p
    <3>1. Len(t) = 0
      BY <1>12
    <3> QED
      BY <1>4, <1>12, <3>1 DEF args
  <2> QED
    BY <1>11, <1>12, <2>1
<1>13. CASE ~m.ok
  <2>1. Len(args) < n /\ Broken(t, LengthLines)
    BY <1>13 DEF args
  <2>2. \/ Unended(b, p)
        \/ /\ Ended(b, p)
           /\ \E line \in Seq(Char) : /\ line \notin LengthLines /\ Len(line) = Len(b) - (p + 2)
                                      /\ Stands(line, b, p)
    BY <1>3, <1>4, <2>1, BrokenAt
  <2>3. ASSUME NEW line \in Seq(Char), line \notin LengthLines, Len(line) = Len(b) - (p + 2),
               Stands(line, b, p), IsLength(b, p)
        PROVE  FALSE
    <3>1. Len(line) = 2 /\ b[p + 1] = "$" /\ b[p + 2] \in DOMAIN Numeral
          /\ Numeral[b[p + 2]] \in 0 .. MaxBulkLen
      BY <1>4, <2>3 DEF IsLength
    <3>2. b[p + 1] = line[1] /\ b[p + 2] = line[2]
      <4>1. 1 \in 1 .. Len(line) /\ 2 \in 1 .. Len(line)
        BY <3>1
      <4> QED
        BY <2>3, <4>1 DEF Stands
    <3> DEFINE d == line[2]
    <3>3. line = <<"$", d>>
      <4>1. line = <<line[1], line[2]>>
        BY <2>3, <3>1, TwoLong
      <4> QED
        BY <3>1, <3>2, <4>1
    <3>4. d \in DOMAIN Numeral /\ Numeral[d] \in 0 .. MaxBulkLen
      BY <3>1, <3>2
    <3> HIDE DEF d
    <3> QED
      BY <2>3, <3>3, <3>4 DEF LengthLines
  <2>4. Unended(b, p) \/ (Ended(b, p) /\ ~IsLength(b, p))
    BY <2>2, <2>3
  <2> QED
    BY <1>11, <1>13, <2>1, <2>4
<1> QED
  BY <1>12, <1>13

LEMMA Shapes ==
  ASSUME NEW s \in Sessions, NEW i \in 1 .. Len(s)
  PROVE  InlineShape(s[i]) \/ CountShape(s[i]) \/ \E n : BulkShape(s[i], n)
<1> DEFINE m == s[i]
<1>1. m.bytes \in Stream /\ m.argv \in Seq(Stream) /\ i \in DOMAIN s
  BY SessionType
<1>2. MultiBulk(m) \/ NoBulk(m) \/ BrokenCount(m) \/ BrokenLength(m) \/ Inline(m)
  BY <1>1, GrammarAssumption
<1> HIDE DEF m
<1>3. CASE MultiBulk(m)
  <2> DEFINE n == Len(m.argv)
             a == Announced(n, m.argv)
  <2>1. m.ok /\ CanAnnounce(n, m.argv) /\ m.bytes = a
    BY <1>3 DEF MultiBulk
  <2>2. a \o << >> = a
    <3>1. a \in Seq(Char)
      BY <1>1, <2>1, AnnouncedAt
    <3> HIDE DEF a
    <3> QED
      BY <3>1, ConcatEmptySeq
  <2>3. << >> \in Seq(Char)
    OBVIOUS
  <2>4. BulkShape(m, n)
    BY <1>1, <2>1, <2>2, <2>3, BulkHasShape
  <2> QED
    BY <2>4 DEF m
<1>4. CASE BrokenLength(m)
  <2>1. PICK n \in Len(m.argv) + 1 .. MaxBulks :
          \E t \in {SubSeq(m.bytes, Len(Announced(n, m.argv)) + 1, Len(m.bytes))} :
            /\ CanAnnounce(n, m.argv)
            /\ m.bytes = Announced(n, m.argv) \o t
            /\ Broken(t, LengthLines)
    BY <1>4 DEF BrokenLength
  <2> DEFINE a == Announced(n, m.argv)
             t == SubSeq(m.bytes, Len(a) + 1, Len(m.bytes))
  <2>2. ~m.ok /\ CanAnnounce(n, m.argv) /\ m.bytes = a \o t /\ Broken(t, LengthLines)
    BY <1>4, <2>1 DEF BrokenLength
  <2>3. Len(m.argv) < n
    <3>1. Len(m.argv) \in Nat
      BY <1>1, LenProperties
    <3> QED
      BY <2>1, <3>1
  <2>4. t \in Seq(Char)
    <3>1. a \in Seq(Char)
      BY <1>1, <2>2, AnnouncedAt
    <3>2. m.bytes \in Seq(Char) /\ Len(m.bytes) \in Nat /\ Len(a) \in Nat
      BY <1>1, <3>1, StreamChars, LenProperties
    <3> HIDE DEF a
    <3> DEFINE l == Len(a) + 1
    <3>3. l \in Nat /\ l >= 1
      BY <3>2
    <3> HIDE DEF l
    <3>4. \A k \in l .. Len(m.bytes) : m.bytes[k] \in Char
      BY <3>2, <3>3, ElementOfSeq
    <3>5. SubSeq(m.bytes, l, Len(m.bytes)) \in Seq(Char)
      BY <3>2, <3>3, <3>4, SubSeqProperties
    <3> QED
      BY <3>5 DEF l
  <2> HIDE DEF t
  <2>5. BulkShape(m, n)
    BY <1>1, <2>2, <2>3, <2>4, BulkHasShape
  <2> QED
    BY <2>5 DEF m
<1> QED
  BY <1>1, <1>2, <1>3, <1>4, InlineHasShape, NoBulkHasShape, BrokenCountHasShape DEF m

-----------------------------------------------------------------------------
(* The query buffer. *)

LEMMA Sizes ==
  /\ IoBufLen \in Nat /\ IoBufLen > 0
  /\ BigArg \in Nat /\ BigArg > 0
  /\ MaxBulks \in Nat /\ MaxBulkLen \in Nat
  /\ \A b \in DOMAIN Numeral : Numeral[b] \in Int
BY ProtocolAssumption

(* sdsrange leaves a sequence with the first n bytes gone. *)
LEMMA Dropped ==
  ASSUME NEW s \in Stream, NEW n \in 0 .. Len(s)
  PROVE  Drop(s, n) \in Stream /\ Len(Drop(s, n)) = Len(s) - n
<1>1. Len(s) \in Nat
  BY LenProperties DEF Stream
<1>2. n + 1 \in Nat /\ n + 1 <= Len(s) + 1 /\ Len(s) \in (n + 1) - 1 .. Len(s)
  BY <1>1
<1>3. s \in Seq(STRING)
  BY DEF Stream
<1>4. SubSeq(s, n + 1, Len(s)) \in Seq(STRING)
  BY <1>1, <1>3, SubSeqProperties
<1>5. Len(SubSeq(s, n + 1, Len(s))) = Len(s) - n
  BY <1>1, <1>3, SubSeqProperties
<1> QED
  BY <1>4, <1>5 DEF Drop, Stream

(* strchr finds a position in the buffer, or none. *)
LEMMA Found ==
  ASSUME query \in Stream, NEW b, NEW from \in Nat
  PROVE  Find(b, from) = 0 \/ Find(b, from) \in from + 1 .. Len(query)
<1> DEFINE found == {i \in from + 1 .. Len(query) : query[i] = b}
<1>1. Len(query) \in Nat
  BY LenProperties DEF Stream
<1>2. CASE found = {}
  BY <1>2 DEF Find
<1>3. CASE found # {}
  <2>1. found \subseteq Nat
    BY <1>1
  <2>2. \E x \in found : \A y \in found : x <= y
    <3> HIDE DEF found
    <3> QED
      BY <1>3, <2>1, FirstPosition
  <2>3. Min(found) \in found
    <3> HIDE DEF found
    <3> QED
      BY <2>2 DEF Min
  <2>4. Find(b, from) = Min(found)
    BY <1>3 DEF Find
  <2> QED
    BY <2>3, <2>4
<1> QED
  BY <1>2, <1>3

LEMMA Buffer ==
  ASSUME IInv
  PROVE  /\ Len(query) \in Nat /\ pos \in 0 .. Len(query)
         /\ multibulk \in 0 .. MaxBulks /\ bulk \in {Unknown} \cup 0 .. MaxBulkLen
         /\ \A n \in 0 .. Len(query) : Drop(query, n) \in Stream /\ Len(Drop(query, n)) = Len(query) - n
         /\ \A b : Find(b, 0) \in 0 .. Len(query)
         /\ \A b : Find(b, pos) = 0 \/ Find(b, pos) \in pos + 1 .. Len(query)
<1>1. query \in Stream /\ pos \in 0 .. Len(query)
      /\ multibulk \in 0 .. MaxBulks /\ bulk \in {Unknown} \cup 0 .. MaxBulkLen
  BY DEF IInv, Between, TypeOK
<1>2. Len(query) \in Nat
  BY <1>1, LenProperties DEF Stream
<1>3. \A n \in 0 .. Len(query) : Drop(query, n) \in Stream /\ Len(Drop(query, n)) = Len(query) - n
  BY <1>1, Dropped
<1>4. ASSUME NEW b PROVE Find(b, 0) \in 0 .. Len(query)
  <2>1. Find(b, 0) = 0 \/ Find(b, 0) \in 0 + 1 .. Len(query)
    BY <1>1, Found
  <2> QED
    BY <1>2, <2>1
<1>5. ASSUME NEW b PROVE Find(b, pos) = 0 \/ Find(b, pos) \in pos + 1 .. Len(query)
  <2>1. pos \in Nat
    BY <1>1, <1>2
  <2> QED
    BY <1>1, <2>1, Found
<1> QED
  BY <1>1, <1>2, <1>3, <1>4, <1>5

-----------------------------------------------------------------------------
(* Where the parser is in the stream.                                       *)

(* The number of bytes taken from the query buffer. *)
Taken == Received - Len(query)

(* The query buffer and the unread input are what follows in the stream. *)
Carried ==
  /\ Len(query) + Len(input) <= Len(Bytes(session))
  /\ \A j \in 1 .. Len(query) : query[j] = Bytes(session)[Taken + j]
  /\ \A j \in 1 .. Len(input) : input[j] = Bytes(session)[Received + j]

LEMMA Counts ==
  ASSUME IInv, Carried
  PROVE  /\ session \in Sessions
         /\ Len(query) \in Nat /\ Len(input) \in Nat
         /\ Received = EndOf(session, Len(session)) - Len(input)
         /\ EndOf(session, Len(session)) = Len(Bytes(session)) /\ Len(Bytes(session)) \in Nat
         /\ Taken \in Nat /\ Received \in Nat /\ Received = Taken + Len(query)
         /\ Received <= EndOf(session, Len(session))
<1>1. session \in Sessions /\ query \in Seq(STRING) /\ input \in Seq(STRING)
  BY DEF IInv, TypeOK, Between, Stream
<1>2. Len(query) \in Nat /\ Len(input) \in Nat
  BY <1>1, LenProperties
<1>3. EndOf(session, Len(session)) = Len(Bytes(session)) /\ Len(Bytes(session)) \in Nat
  BY <1>1, Ends
<1>4. Received = EndOf(session, Len(session)) - Len(input)
  BY DEF Received, End, EndOf
<1> DEFINE e == EndOf(session, Len(session))
<1>5. e \in Nat /\ Len(query) + Len(input) <= e /\ Received = e - Len(input)
  BY <1>3, <1>4 DEF Carried
<1> HIDE DEF e
<1>6. Taken \in Nat /\ Received \in Nat /\ Received = Taken + Len(query) /\ Received <= e
  BY <1>2, <1>5 DEF Taken
<1> QED
  BY <1>1, <1>2, <1>3, <1>4, <1>6 DEF e

(* The bytes in the buffer are those of message i. *)
LEMMA View ==
  ASSUME IInv, Carried, NEW i \in 1 .. Len(session), NEW p \in Nat, NEW o \in Nat,
         Taken + p = EndOf(session, i - 1) + o,
         NEW j \in 1 .. Len(query), p < j, (j - p) + o <= Len(session[i].bytes)
  PROVE  query[j] = session[i].bytes[o + (j - p)]
<1> DEFINE a == EndOf(session, i - 1)
           b == session[i].bytes
           k == o + (j - p)
<1>1. session \in Sessions /\ Len(query) \in Nat /\ Taken \in Nat
  BY Counts
<1>2. Stands(b, Bytes(session), a) /\ a \in Nat
  <2>1. i - 1 \in 0 .. Len(session)
    BY <1>1, SessionType
  <2> QED
    BY <1>1, <2>1, Ends
<1>3. b \in Stream
  BY <1>1, SessionType
<1>4. Len(b) \in Nat
  BY <1>3, StreamChars
<1>a. Taken + p = a + o /\ (j - p) + o <= Len(b)
  OBVIOUS
<1> HIDE DEF a, b
<1>5. k \in 1 .. Len(b) /\ a + k = Taken + j
  <2>1. j \in Nat /\ Taken \in Nat /\ a \in Nat /\ Len(b) \in Nat
    BY <1>1, <1>2, <1>4
  <2>2. o + (j - p) = (j - p) + o /\ o + (j - p) \in Nat /\ o + (j - p) >= 1
    BY <2>1
  <2>3. a + (o + (j - p)) = (Taken + p) + (j - p)
    BY <1>a, <2>1
  <2> QED
    BY <1>a, <2>1, <2>2, <2>3
<1>6. query[j] = Bytes(session)[Taken + j]
  BY DEF Carried
<1> HIDE DEF k
<1>7. Bytes(session)[a + k] = b[k]
  BY <1>2, <1>5 DEF Stands
<1> QED
  BY <1>5, <1>6, <1>7 DEF k, b

(* strchr finds the first byte c behind p. *)
LEMMA FindIs ==
  ASSUME query \in Stream, NEW c, NEW p \in Nat
  PROVE  \/ Find(c, p) = 0 /\ \A j \in p + 1 .. Len(query) : query[j] # c
         \/ /\ Find(c, p) \in p + 1 .. Len(query) /\ query[Find(c, p)] = c
            /\ \A j \in p + 1 .. Len(query) : query[j] = c => Find(c, p) <= j
<1> DEFINE found == {i \in p + 1 .. Len(query) : query[i] = c}
<1>1. Len(query) \in Nat
  BY LenProperties DEF Stream
<1>2. CASE found = {}
  BY <1>2 DEF Find
<1>3. CASE found # {}
  <2>1. found \subseteq Nat
    BY <1>1
  <2>2. \E x \in found : \A y \in found : x <= y
    <3> HIDE DEF found
    <3> QED
      BY <1>3, <2>1, FirstPosition
  <2>3. Min(found) \in found /\ \A y \in found : Min(found) <= y
    <3> HIDE DEF found
    <3> QED
      BY <2>2 DEF Min
  <2>4. Find(c, p) = Min(found)
    BY <1>3 DEF Find
  <2> QED
    BY <2>3, <2>4
<1> QED
  BY <1>2, <1>3

(* Behind the first o bytes of b, a byte c comes behind l others. *)
FirstAt(b, o, c, l) ==
  /\ o + (l + 1) <= Len(b) /\ b[o + (l + 1)] = c
  /\ \A k \in 1 .. l : b[o + k] # c

(* It is found exactly if it has arrived. *)
LEMMA FindsLine ==
  ASSUME IInv, Carried, NEW i \in 1 .. Len(session), NEW p \in 0 .. Len(query), NEW o \in Nat,
         Taken + p = EndOf(session, i - 1) + o,
         NEW c, NEW l \in Nat, FirstAt(session[i].bytes, o, c, l)
  PROVE  /\ p + (l + 1) <= Len(query) => Find(c, p) = p + (l + 1)
         /\ p + (l + 1) > Len(query) => Find(c, p) = 0
<1> DEFINE b == session[i].bytes
           f == Find(c, p)
<1>1. session \in Sessions /\ Len(query) \in Nat /\ query \in Stream /\ p \in Nat
  <2>1. session \in Sessions /\ Len(query) \in Nat
    BY Counts
  <2> QED
    BY <2>1 DEF IInv, Between
<1>2. Len(b) \in Nat
  <2>1. b \in Stream
    BY <1>1, SessionType
  <2> QED
    BY <2>1, StreamChars
<1>a. o + (l + 1) <= Len(b) /\ b[o + (l + 1)] = c /\ \A k \in 1 .. l : b[o + k] # c
  BY DEF FirstAt
<1>3. ASSUME NEW j \in 1 .. Len(query), p < j, j <= p + (l + 1)
      PROVE  query[j] = b[o + (j - p)] /\ (j < p + (l + 1) => b[o + (j - p)] # c)
  <2>1. (j - p) + o <= Len(session[i].bytes)
    <3> HIDE DEF b
    <3> QED
      BY <1>1, <1>2, <1>3, <1>a DEF b
  <2>2. query[j] = b[o + (j - p)]
    BY <1>1, <1>3, <2>1, View
  <2>3. ASSUME j < p + (l + 1) PROVE b[o + (j - p)] # c
    <3>1. j - p \in 1 .. l
      BY <1>1, <1>3, <2>3
    <3> QED
      BY <1>a, <3>1
  <2> QED
    BY <2>2, <2>3
<1>4. \/ f = 0 /\ \A j \in p + 1 .. Len(query) : query[j] # c
      \/ /\ f \in p + 1 .. Len(query) /\ query[f] = c
         /\ \A j \in p + 1 .. Len(query) : query[j] = c => f <= j
  BY <1>1, FindIs
<1> HIDE DEF f
<1> DEFINE q == p + (l + 1)
<1>5. q \in Nat /\ p < q /\ q > 0 /\ o + (q - p) = o + (l + 1)
  BY <1>1
<1>6. CASE q <= Len(query)
  <2>1. q \in 1 .. Len(query) /\ q \in p + 1 .. Len(query)
    BY <1>1, <1>5, <1>6
  <2>2. query[q] = c
    <3> HIDE DEF q
    <3>1. query[q] = b[o + (q - p)]
      BY <1>1, <1>3, <1>5, <2>1 DEF q
    <3> QED
      BY <1>5, <1>a, <3>1
  <2>3. f \in p + 1 .. Len(query) /\ query[f] = c /\ f <= q
    BY <1>4, <2>1, <2>2
  <2>4. f \in 1 .. Len(query) /\ p < f
    BY <1>1, <2>3
  <2>5. ~(f < q)
    BY <1>3, <2>3, <2>4
  <2>6. f = q
    BY <1>1, <1>5, <2>3, <2>4, <2>5
  <2> QED
    BY <1>5, <1>6, <2>6 DEF f
<1>7. CASE q > Len(query)
  <2>1. ASSUME f # 0 PROVE FALSE
    <3>1. f \in p + 1 .. Len(query) /\ query[f] = c
      BY <1>4, <2>1
    <3>2. f \in 1 .. Len(query) /\ p < f /\ f < q /\ f <= q
      BY <1>1, <1>5, <1>7, <3>1
    <3> QED
      BY <1>3, <3>1, <3>2
  <2> QED
    BY <1>1, <1>5, <1>7, <2>1 DEF f
<1> QED
  BY <1>1, <1>5, <1>6, <1>7

(* The limits of rr_server.h, as the proofs use them. *)
LEMMA Limits ==
  /\ IoBufLen \in Nat /\ BigArg \in Nat /\ InlineMax \in Nat /\ MaxBulks \in Nat /\ MaxBulkLen \in Nat
  /\ IoBufLen >= 1 /\ BigArg >= 3 /\ BigArg + IoBufLen <= InlineMax /\ BigArg <= InlineMax
BY ProtocolAssumption

(* In a line without end none is found while the buffer ends within it. *)
LEMMA FindsNoEnd ==
  ASSUME IInv, Carried, NEW i \in 1 .. Len(session), NEW p \in 0 .. Len(query), NEW o \in Nat,
         Taken + p = EndOf(session, i - 1) + o,
         Unended(session[i].bytes, o), Len(query) - p <= InlineMax + IoBufLen
  PROVE  Find(CR, p) = 0
<1> DEFINE b == session[i].bytes
           f == Find(CR, p)
<1>1. session \in Sessions /\ Len(query) \in Nat /\ query \in Stream /\ p \in Nat
  <2>1. session \in Sessions /\ Len(query) \in Nat
    BY Counts
  <2> QED
    BY <2>1 DEF IInv, Between
<1>2. Len(b) \in Nat /\ Len(b) >= o + (InlineMax + IoBufLen) /\ InlineMax + IoBufLen \in Nat
      /\ \A j \in o + 1 .. Len(b) : b[j] # CR
  <2>1. b \in Stream
    BY <1>1, SessionType
  <2>2. Len(b) \in Nat
    BY <2>1, StreamChars
  <2>3. InlineMax + IoBufLen \in Nat
    BY Limits
  <2>4. Unended(b, o)
    OBVIOUS
  <2> HIDE DEF b
  <2> QED
    BY <2>2, <2>3, <2>4 DEF Unended
<1>3. \/ f = 0
      \/ f \in p + 1 .. Len(query) /\ query[f] = CR
  BY <1>1, FindIs
<1> HIDE DEF f
<1>4. ASSUME f # 0 PROVE FALSE
  <2>1. f \in p + 1 .. Len(query) /\ query[f] = CR
    BY <1>3, <1>4
  <2>2. f \in 1 .. Len(query) /\ p < f
    BY <1>1, <2>1
  <2> DEFINE j == o + (f - p)
  <2> HIDE DEF b
  <2>3. j \in o + 1 .. Len(b) /\ (f - p) + o <= Len(b)
    BY <1>1, <1>2, <2>1, <2>2
  <2>4. query[f] = b[j]
    BY <1>1, <2>2, <2>3, View DEF b
  <2> HIDE DEF j
  <2> QED
    BY <1>2, <2>1, <2>3, <2>4
<1> QED
  BY <1>4 DEF f

-----------------------------------------------------------------------------
(* Each step preserves the invariant. *)

LEMMA InitIInv == Init => IInv
<1> SUFFICES ASSUME Init PROVE IInv
  OBVIOUS
<1>1. input \in Stream /\ session \in Sessions
  BY InitialInput DEF Init
<1>2. query \in Stream /\ Len(query) = 0
  BY DEF Init, Stream
<1>3. /\ pos = 0 /\ reqType = "none" /\ multibulk = 0 /\ bulk = Unknown
      /\ closing = FALSE /\ errors = 0 /\ pc = "read"
  BY DEF Init
<1>4. TypeOK
  <2>1. 0 \in 0 .. MaxBulks /\ pos \in 0 .. Len(query) /\ errors \in Nat
    BY <1>2, <1>3, Sizes
  <2>2. closing \in BOOLEAN
    BY <1>3
  <2> QED
    BY <1>1, <1>3, <2>1, <2>2 DEF TypeOK
<1>5. Between
  BY <1>1, <1>2, <1>3 DEF Between
<1> QED
  BY <1>4, <1>5 DEF IInv

LEMMA ReadStep ==
  ASSUME IInv, NEW n \in 1 .. IoBufLen, Read(n)
  PROVE  IInv'
<1>1. /\ query \in Seq(STRING) /\ input \in Seq(STRING) /\ pos = 0 /\ pc = "read"
      /\ n \in Nat /\ n <= Len(input)
  BY Sizes DEF IInv, Between, Read, Stream
<1>2. Len(input) \in Nat /\ Len(query) \in Nat
  BY <1>1, LenProperties
<1>3. SubSeq(input, 1, n) \in Seq(STRING)
  BY <1>1, <1>2, SubSeqProperties
<1>4. query' \in Seq(STRING)
  BY <1>1, <1>3, ConcatProperties DEF Read
<1>5. input' \in Stream
  <2>1. n \in 0 .. Len(input) /\ input \in Stream
    BY <1>1, <1>2 DEF Stream
  <2> QED
    BY <2>1, Dropped DEF Read
<1>6. Len(query') \in Nat
  BY <1>4, LenProperties
<1>7. UNCHANGED <<session, pos, reqType, multibulk, bulk, argv, closing, errors, executed>> /\ pc' = "parse"
  BY DEF Read, parserVars
<1> QED
  BY <1>1, <1>4, <1>5, <1>6, <1>7 DEF IInv, TypeOK, Between, Stream

(* Steps that return to the socket or go on after taking n bytes of the     *)
(* query buffer, with the request still open or refused.                    *)
LEMMA ProtocolErrorStep ==
  ASSUME IInv, NEW n \in 0 .. Len(query), ProtocolError(n), bulk = Unknown,
         reqType' \in {"inline", "multibulk"}, reqType' # "multibulk" => multibulk = 0,
         UNCHANGED <<session, input>>
  PROVE  IInv'
<1>1. Len(query) \in Nat /\ query' \in Stream /\ Len(query') = Len(query) - n
  BY Buffer DEF ProtocolError
<1>2. Len(query') \in Nat
  BY <1>1
<1>3. errors' \in Nat
  BY DEF IInv, TypeOK, ProtocolError
<1> QED
  BY <1>1, <1>2, <1>3 DEF IInv, TypeOK, Between, ProtocolError

LEMMA IncompleteStep ==
  ASSUME IInv, NEW n \in 0 .. Len(query), Incomplete(n),
         bulk # Unknown => Len(query) - n < bulk + 2,
         reqType' \in {"inline", "multibulk"}, reqType' # "multibulk" => multibulk = 0,
         UNCHANGED <<session, input>>
  PROVE  IInv'
<1>1. Len(query) \in Nat /\ query' \in Stream /\ Len(query') = Len(query) - n
  BY Buffer DEF Incomplete
<1>2. Len(query') \in Nat
  BY <1>1
<1> QED
  BY <1>1, <1>2 DEF IInv, TypeOK, Between, Incomplete

(* What a request that is being parsed is, and what is left alone. *)
LEMMA ParsingFacts ==
  ASSUME IInv, NEW type \in {"inline", "multibulk"}, Parsing(type)
  PROVE  /\ pc = "parse" /\ pos = 0 /\ ~closing /\ reqType' = type
         /\ type = "inline" => multibulk = 0 /\ bulk = Unknown
         /\ multibulk = 0 => bulk = Unknown
         /\ UNCHANGED <<session, input, executed>>
BY DEF IInv, TypeOK, Between, Parsing, RequestType

LEMMA InBulkFacts ==
  ASSUME IInv, InBulk
  PROVE  /\ pc = "bulk" /\ reqType' = "multibulk" /\ multibulk > 0 /\ ~closing
         /\ reqType' \in {"inline", "multibulk"} /\ reqType = "multibulk"
         /\ UNCHANGED <<session, input, reqType, executed>>
BY DEF IInv, TypeOK, Between, InBulk

LEMMA ParseDoneStep ==
  ASSUME IInv, ParseDone
  PROVE  IInv'
<1>1. UNCHANGED <<session, input, query, pos, reqType, multibulk, bulk, argv, closing, errors>>
      /\ pc' = "read" /\ pc = "parse"
  BY DEF ParseDone, parserVars
<1>2. bulk # Unknown => Len(query) < bulk + 2
  <2>1. CASE closing
    BY <2>1 DEF IInv, Between
  <2>2. CASE query = << >>
    <3>1. Len(query) = 0
      BY <2>2
    <3> QED
      BY <3>1, Buffer, Sizes
  <2> QED
    BY <2>1, <2>2 DEF ParseDone
<1> QED
  BY <1>1, <1>2 DEF IInv, TypeOK, Between

LEMMA InlineStep ==
  ASSUME IInv, InlineIncomplete \/ InlineUnbalanced \/ InlineRequest
  PROVE  IInv'
<1>1. Parsing("inline")
  BY DEF InlineIncomplete, InlineUnbalanced, InlineRequest
<1>2. /\ pc = "parse" /\ pos = 0 /\ ~closing /\ reqType' = "inline" /\ multibulk = 0 /\ bulk = Unknown
      /\ UNCHANGED <<session, input, executed>>
  BY <1>1, ParsingFacts
<1>3. Len(query) \in Nat /\ 0 \in 0 .. Len(query)
  BY Buffer
<1>4. CASE InlineIncomplete
  <2>1. errors' \in Nat
    BY <1>4 DEF IInv, TypeOK, InlineIncomplete
  <2> QED
    BY <1>2, <1>4, <2>1 DEF IInv, TypeOK, Between, InlineIncomplete
<1>5. CASE InlineUnbalanced
  BY <1>2, <1>3, <1>5, ProtocolErrorStep DEF InlineUnbalanced
<1>6. CASE InlineRequest
  <2> DEFINE lf == Find(LF, 0)
  <2>1. lf \in 1 .. Len(query)
    BY <1>3, <1>6, Buffer DEF InlineRequest
  <2>2. LineLen = lf - 1 \/ (lf > 1 /\ LineLen = lf - 2)
    BY DEF LineLen
  <2>3. query' \in Stream
    <3>1. query \in Seq(STRING)
      BY DEF IInv, Between, Stream
    <3> DEFINE m == LineLen + 2 + 1
    <3>2. m \in Nat /\ m >= 1
      <4> HIDE DEF lf
      <4> QED
        BY <1>3, <2>1, <2>2
    <3>3. query' = SubSeq(query, m, Len(query))
      BY <1>6 DEF InlineRequest, Drop
    <3> HIDE DEF m
    <3>4. \A i \in m .. Len(query) : query[i] \in STRING
      BY <1>3, <3>1, <3>2, ElementOfSeq
    <3>5. SubSeq(query, m, Len(query)) \in Seq(STRING)
      BY <1>3, <3>2, <3>4, SubSeqProperties
    <3> QED
      BY <3>3, <3>5 DEF Stream
  <2>4. Len(query') \in Nat
    BY <2>3, LenProperties DEF Stream
  <2> QED
    BY <1>2, <1>6, <2>3, <2>4 DEF IInv, TypeOK, Between, InlineRequest
<1> QED
  BY <1>4, <1>5, <1>6

LEMMA CountStep ==
  ASSUME IInv, CountIncomplete \/ CountWrong \/ Count \/ Resume
  PROVE  IInv'
<1>1. Parsing("multibulk")
  BY DEF CountIncomplete, CountWrong, Count, Resume
<1>2. /\ pc = "parse" /\ pos = 0 /\ ~closing /\ reqType' = "multibulk"
      /\ reqType' \in {"inline", "multibulk"}
      /\ multibulk = 0 => bulk = Unknown
      /\ UNCHANGED <<session, input, executed>>
  BY <1>1, ParsingFacts
<1>3. Len(query) \in Nat /\ 0 \in 0 .. Len(query)
  BY Buffer
<1>4. CASE CountIncomplete
  <2>1. bulk = Unknown
    BY <1>2, <1>4 DEF CountIncomplete
  <2>2. CASE ProtocolError(0)
    BY <1>2, <1>3, <2>1, <2>2, ProtocolErrorStep
  <2>3. CASE Incomplete(0)
    BY <1>2, <1>3, <2>1, <2>3, IncompleteStep
  <2> QED
    BY <1>4, <2>2, <2>3 DEF CountIncomplete
<1>5. CASE CountWrong
  BY <1>2, <1>3, <1>5, ProtocolErrorStep DEF CountWrong
<1>6. CASE Count
  <2> DEFINE at == Find(CR, 0) + 1
             n == Number(Find(CR, 0) - 1)
  <2>1. at \in 0 .. Len(query)
    <3>1. Find(CR, 0) \in 0 .. Len(query) /\ Find(CR, 0) < Len(query)
      BY <1>6, Buffer DEF Count, WholeLine
    <3> QED
      BY <1>3, <3>1
  <2>2. n \in Int /\ n <= MaxBulks
    BY <1>6, Sizes DEF Count, CountValid, IsNumber, Number
  <2>3. CASE n <= 0
    <3>1. query' = Drop(query, at) /\ pc' = "run" /\ UNCHANGED <<multibulk, pos, bulk, argv, closing, errors>>
          /\ multibulk = 0
      BY <1>6, <2>3 DEF Count
    <3>2. query' \in Stream /\ Len(query') \in Nat
      <4> HIDE DEF at
      <4> QED
        BY <1>3, <2>1, <3>1, Buffer
    <3> QED
      BY <1>2, <3>1, <3>2 DEF IInv, TypeOK, Between
  <2>4. CASE ~(n <= 0)
    <3>1. multibulk' = n /\ pos' = at /\ pc' = "bulk" /\ UNCHANGED <<query, bulk, argv, closing, errors>>
      BY <1>6, <2>4 DEF Count
    <3>2. n \in 0 .. MaxBulks /\ n > 0 /\ n # 0
      BY <2>2, <2>4, Sizes
    <3> HIDE DEF n, at
    <3> QED
      BY <1>2, <2>1, <3>1, <3>2 DEF IInv, TypeOK, Between
  <2> QED
    BY <2>3, <2>4
<1>7. CASE Resume
  BY <1>2, <1>3, <1>7 DEF IInv, TypeOK, Between, Resume
<1> QED
  BY <1>4, <1>5, <1>6, <1>7

LEMMA LengthStep ==
  ASSUME IInv, LengthIncomplete \/ LengthWrong \/ Length
  PROVE  IInv'
<1>1. InBulk /\ bulk = Unknown
  BY DEF LengthIncomplete, LengthWrong, Length
<1>2. /\ pc = "bulk" /\ reqType' = "multibulk" /\ multibulk > 0 /\ ~closing
      /\ reqType' \in {"inline", "multibulk"} /\ reqType = "multibulk"
      /\ UNCHANGED <<session, input, reqType, executed>>
  BY <1>1, InBulkFacts
<1>3. Len(query) \in Nat /\ 0 \in 0 .. Len(query) /\ pos \in 0 .. Len(query)
  BY Buffer
<1>4. CASE LengthIncomplete
  <2>1. CASE ProtocolError(0)
    BY <1>1, <1>2, <1>3, <2>1, ProtocolErrorStep
  <2>2. CASE Incomplete(pos)
    BY <1>1, <1>2, <1>3, <2>2, IncompleteStep
  <2> QED
    BY <1>4, <2>1, <2>2 DEF LengthIncomplete
<1>5. CASE LengthWrong
  BY <1>1, <1>2, <1>3, <1>5, ProtocolErrorStep DEF LengthWrong
<1>6. CASE Length
  <2> DEFINE at == Find(CR, pos) + 1
  <2>1. at \in 0 .. Len(query)
    <3>1. Find(CR, pos) \in pos + 1 .. Len(query) /\ Find(CR, pos) < Len(query)
      BY <1>6, Buffer DEF Length, WholeLine
    <3> QED
      BY <1>3, <3>1
  <2>2. bulk' \in 0 .. MaxBulkLen
    BY <1>6 DEF Length, LengthValid
  <2>3. UNCHANGED <<multibulk, argv, closing, errors, pc>>
    BY <1>6 DEF Length
  <2>4. query' \in Stream /\ Len(query') \in Nat /\ pos' \in 0 .. Len(query')
    <3>1. CASE bulk' >= BigArg
      <4>1. query' = Drop(query, at) /\ pos' = 0
        BY <1>6, <3>1 DEF Length
      <4> HIDE DEF at
      <4>2. query' \in Stream /\ Len(query') = Len(query) - at
        BY <2>1, <4>1, Buffer
      <4> QED
        BY <1>3, <2>1, <4>1, <4>2
    <3>2. CASE ~(bulk' >= BigArg)
      <4>1. query' = query /\ pos' = at
        BY <1>6, <3>2 DEF Length
      <4> QED
        BY <1>3, <2>1, <4>1 DEF IInv, Between
    <3> QED
      BY <3>1, <3>2
  <2> QED
    BY <1>2, <2>2, <2>3, <2>4 DEF IInv, TypeOK, Between
<1> QED
  BY <1>4, <1>5, <1>6

LEMMA ArgumentStep ==
  ASSUME IInv, ArgumentIncomplete \/ Argument
  PROVE  IInv'
<1>1. InBulk /\ bulk # Unknown
  BY DEF ArgumentIncomplete, Argument
<1>2. /\ pc = "bulk" /\ reqType' = "multibulk" /\ multibulk > 0 /\ ~closing
      /\ reqType' \in {"inline", "multibulk"} /\ reqType = "multibulk"
      /\ UNCHANGED <<session, input, reqType, executed>>
  BY <1>1, InBulkFacts
<1>3. Len(query) \in Nat /\ pos \in 0 .. Len(query) /\ bulk \in 0 .. MaxBulkLen /\ MaxBulkLen \in Nat
  BY <1>1, Buffer, Sizes
<1>4. CASE ArgumentIncomplete
  <2>1. Len(query) - pos < bulk + 2
    BY <1>3, <1>4 DEF ArgumentIncomplete, HaveArgument
  <2> QED
    BY <1>2, <1>3, <1>4, <2>1, IncompleteStep DEF ArgumentIncomplete
<1>5. CASE Argument
  <2> DEFINE whole == pos = 0 /\ bulk >= BigArg /\ Len(query) = bulk + 2
             rest  == IF whole THEN << >> ELSE query
             at    == IF whole THEN 0 ELSE pos + bulk + 2
  <2>1. /\ multibulk' = multibulk - 1 /\ bulk' = Unknown /\ UNCHANGED <<closing, errors>>
        /\ IF multibulk' = 0
           THEN query' = Drop(rest, at) /\ pos' = 0 /\ pc' = "run"
           ELSE query' = rest /\ pos' = at /\ pc' = pc
    BY <1>5 DEF Argument
  <2>2. multibulk \in 0 .. MaxBulks /\ MaxBulks \in Nat
    BY Buffer, Sizes
  <2>3. multibulk' \in 0 .. MaxBulks /\ (multibulk' # 0 => multibulk' > 0)
    BY <1>2, <2>1, <2>2
  <2>4. rest \in Stream /\ Len(rest) \in Nat /\ at \in 0 .. Len(rest)
    <3>1. CASE whole
      <4>1. rest = << >> /\ at = 0
        BY <3>1
      <4>2. << >> \in Stream /\ Len(<< >>) = 0
        BY DEF Stream
      <4> QED
        BY <4>1, <4>2
    <3>2. CASE ~whole
      <4>1. rest = query /\ at = pos + bulk + 2
        BY <3>2
      <4>2. Len(query) - pos >= bulk + 2
        BY <1>5 DEF Argument, HaveArgument
      <4>3. query \in Stream
        BY DEF IInv, Between
      <4> HIDE DEF rest, at
      <4> QED
        BY <1>3, <4>1, <4>2, <4>3
    <3> QED
      BY <3>1, <3>2
  <2> HIDE DEF rest, at
  <2>5. Drop(rest, at) \in Stream /\ Len(Drop(rest, at)) \in Nat
    BY <2>4, Dropped
  <2>6. CASE multibulk' = 0
    <3>1. query' \in Stream /\ Len(query') \in Nat /\ pos' = 0 /\ pc' = "run"
      BY <2>1, <2>5, <2>6
    <3>2. pos' \in 0 .. Len(query')
      BY <3>1
    <3> QED
      BY <1>2, <2>1, <2>3, <2>6, <3>1, <3>2 DEF IInv, TypeOK, Between
  <2>7. CASE multibulk' # 0
    <3>1. query' \in Stream /\ pos' \in 0 .. Len(query') /\ pc' = "bulk"
      BY <1>2, <2>1, <2>4, <2>7
    <3> QED
      BY <1>2, <2>1, <2>3, <2>7, <3>1 DEF IInv, TypeOK, Between
  <2> QED
    BY <2>6, <2>7
<1> QED
  BY <1>4, <1>5

LEMMA RunStep ==
  ASSUME IInv, RunNothing \/ RunCommand \/ RunQuit
  PROVE  IInv'
<1>1. pc = "run" /\ pc' = "parse" /\ UNCHANGED <<session, input, query, pos, errors>>
      /\ multibulk = 0 /\ bulk = Unknown
  BY DEF RunNothing, RunCommand, RunQuit, Reset, IInv, Between
<1>2. CASE RunQuit
  <2>1. UNCHANGED <<reqType, multibulk, bulk, argv>> /\ closing' = TRUE
    BY <1>2 DEF RunQuit, parserVars
  <2> QED
    BY <1>1, <2>1 DEF IInv, TypeOK, Between
<1>3. CASE Reset /\ UNCHANGED closing
  <2>1. reqType' = "none" /\ multibulk' = 0 /\ bulk' = Unknown
    BY <1>3 DEF Reset
  <2>2. 0 \in 0 .. MaxBulks
    BY Sizes
  <2> QED
    BY <1>1, <1>3, <2>1, <2>2 DEF IInv, TypeOK, Between
<1> QED
  BY <1>2, <1>3 DEF RunNothing, RunCommand

LEMMA NextIInv ==
  ASSUME IInv, [Next]_vars
  PROVE  IInv'
<1>1. CASE UNCHANGED vars
  BY <1>1 DEF vars, parserVars, IInv, TypeOK, Between
<1>2. CASE \E n \in 1 .. IoBufLen : Read(n)
  BY <1>2, ReadStep
<1>3. CASE ParseDone
  BY <1>3, ParseDoneStep
<1>4. CASE InlineIncomplete \/ InlineUnbalanced \/ InlineRequest
  BY <1>4, InlineStep
<1>5. CASE CountIncomplete \/ CountWrong \/ Count \/ Resume
  BY <1>5, CountStep
<1>6. CASE LengthIncomplete \/ LengthWrong \/ Length
  BY <1>6, LengthStep
<1>7. CASE ArgumentIncomplete \/ Argument
  BY <1>7, ArgumentStep
<1>8. CASE RunNothing \/ RunCommand \/ RunQuit
  BY <1>8, RunStep
<1> QED
  BY <1>1, <1>2, <1>3, <1>4, <1>5, <1>6, <1>7, <1>8 DEF Next

(* However a stream of any bytes is cut, read(2) is asked for at least one  *)
(* byte each time, so that its 0 always means the end of the connection,    *)
(* and the position in the query buffer never leaves it.                    *)
THEOREM AlwaysAsksForBytes == Spec => []AsksForBytes
<1>1. ASSUME IInv PROVE AsksForBytes
  <2>1. ASSUME pc = "read" PROVE ReadLen > 0
    <3>1. CASE reqType = "multibulk" /\ multibulk > 0 /\ bulk >= BigArg
      <4> DEFINE a == bulk + 2 - Len(query)
      <4>1. bulk # Unknown
        BY <3>1, Sizes DEF Unknown
      <4>2. Len(query) < bulk + 2
        BY <1>1, <2>1, <4>1 DEF IInv, Between
      <4>3. a \in Nat /\ a > 0
        BY <1>1, <4>1, <4>2, Buffer, Sizes
      <4>4. ReadLen = Min({IoBufLen, a})
        BY <3>1 DEF ReadLen
      <4> HIDE DEF a
      <4>5. \E x \in {IoBufLen, a} : \A y \in {IoBufLen, a} : x <= y
        BY <4>3, Sizes
      <4>6. Min({IoBufLen, a}) \in {IoBufLen, a}
        BY <4>5 DEF Min
      <4> QED
        BY <4>3, <4>4, <4>6, Sizes
    <3>2. CASE ~(reqType = "multibulk" /\ multibulk > 0 /\ bulk >= BigArg)
      BY <3>2, Sizes DEF ReadLen
    <3> QED
      BY <3>1, <3>2
  <2> QED
    BY <1>1, <2>1 DEF IInv, AsksForBytes
<1> QED
  BY <1>1, InitIInv, NextIInv, PTL DEF Spec
-----------------------------------------------------------------------------
(* The commands a session asks for.                                         *)

Commands == Seq(Seq(Stream))

CommandsOf(s) == [i \in DOMAIN s |-> Command(s[i])]

(* The commands of the first k requests. *)
Asked(s, k) == Glue(CommandsOf(s), k)

LEMMA CommandType ==
  ASSUME NEW s \in Sessions
  PROVE  /\ CommandsOf(s) \in Seq(Commands) /\ Len(CommandsOf(s)) = Len(s)
         /\ \A i \in 1 .. Len(s) : /\ Command(s[i]) \in Commands
                                   /\ CommandsOf(s)[i] = Command(s[i])
<1> DEFINE A == Seq(Stream)
           C == Commands
           c == CommandsOf(s)
<1>1. Len(s) \in Nat /\ DOMAIN s = 1 .. Len(s) /\ \A i \in 1 .. Len(s) : s[i].argv \in A
  BY SessionType
<1>2. ASSUME NEW m, m.argv \in A PROVE Command(m) \in C
  <2> HIDE DEF A
  <2> DEFINE a == m.argv
  <2>1. a \in A
    BY <1>2
  <2> HIDE DEF a
  <2>2. << >> \in Seq(A) /\ <<a>> \in Seq(A)
    BY <2>1
  <2>3. Command(m) = << >> \/ Command(m) = <<a>>
    BY DEF Command, a
  <2> QED
    BY <2>2, <2>3 DEF Commands, A
<1>3. \A i \in 1 .. Len(s) : Command(s[i]) \in C
  BY <1>1, <1>2
<1>4. c \in [1 .. Len(s) -> C] /\ \A i \in 1 .. Len(s) : c[i] = Command(s[i])
  <2> HIDE DEF C
  <2> QED
    BY <1>1, <1>3 DEF CommandsOf
<1>5. c \in Seq(C) /\ Len(c) = Len(s)
  <2> HIDE DEF c, C
  <2> QED
    BY <1>1, <1>4
<1> QED
  BY <1>3, <1>4, <1>5

LEMMA AskedStep ==
  ASSUME NEW s \in Sessions
  PROVE  /\ Asked(s, 0) = << >>
         /\ \A k \in 0 .. Len(s) : Asked(s, k) \in Commands
         /\ \A k \in 1 .. Len(s) : Asked(s, k) = Asked(s, k - 1) \o Command(s[k])
<1> DEFINE A == Seq(Stream)
           C == Commands
           c == CommandsOf(s)
<1>1. c \in Seq(C) /\ Len(c) = Len(s) /\ \A i \in 1 .. Len(s) : c[i] = Command(s[i])
  BY CommandType
<1>2. C = Seq(A)
  BY DEF Commands
<1> HIDE DEF A, C, c
<1>3. /\ Glue(c, 0) = << >>
      /\ \A i \in 0 .. Len(c) : Glue(c, i) \in C
      /\ \A i \in 1 .. Len(c) : Glue(c, i) = Glue(c, i - 1) \o c[i]
  BY <1>1, <1>2, GlueStep
<1> QED
  BY <1>1, <1>3 DEF Asked, C, c

(* If the answered requests that have arrived are the first k, these are    *)
(* the commands expected.                                                   *)
LEMMA ExpectedIs ==
  ASSUME session \in Sessions, NEW k \in 0 .. Len(session),
         \A i \in 1 .. Len(session) : (Answered(i) /\ End(i) <= Received) <=> i <= k
  PROVE  Expected = Asked(session, k)
<1> DEFINE s == session
           n == Len(s)
           A == Seq(Stream)
           C == Commands
           e == [i \in DOMAIN s |-> IF Answered(i) /\ End(i) <= Received THEN Command(s[i]) ELSE << >>]
           w == [j \in 0 .. n |-> IF j <= k THEN Asked(s, j) ELSE Asked(s, k)]
<1>1. n \in Nat /\ DOMAIN s = 1 .. n /\ k \in Nat /\ k <= n
  <2>1. n \in Nat /\ DOMAIN s = 1 .. n
    BY SessionType
  <2> QED
    BY <2>1
<1>2. /\ Asked(s, 0) = << >>
      /\ \A j \in 0 .. n : Asked(s, j) \in C
      /\ \A j \in 1 .. n : Asked(s, j) = Asked(s, j - 1) \o Command(s[j])
  BY AskedStep
<1>3. \A j \in 1 .. n : Command(s[j]) \in C
  BY CommandType
<1>4. C = Seq(A) /\ << >> \in C
  BY DEF Commands
<1>5. Expected = FlattenSeq(e)
  BY DEF Expected
<1>6. \A i \in 1 .. n : e[i] = IF i <= k THEN Command(s[i]) ELSE << >>
  BY <1>1
<1>7. e \in [1 .. n -> C]
  <2>1. e = [i \in 1 .. n |-> IF Answered(i) /\ End(i) <= Received THEN Command(s[i]) ELSE << >>]
    BY <1>1
  <2> HIDE DEF C
  <2> QED
    BY <1>3, <1>4, <2>1
<1> HIDE DEF e, C, A, n
<1>8. e \in Seq(C) /\ Len(e) = n
  BY <1>1, <1>7
<1>9. w \in [0 .. n -> C] /\ \A j \in 0 .. n : w[j] = IF j <= k THEN Asked(s, j) ELSE Asked(s, k)
  <2>1. \A j \in 0 .. n : (IF j <= k THEN Asked(s, j) ELSE Asked(s, k)) \in C
    BY <1>1, <1>2
  <2> QED
    BY <2>1
<1> HIDE DEF w
<1>10. w[0] = << >>
  <2>1. 0 \in 0 .. n /\ 0 <= k
    BY <1>1
  <2> QED
    BY <1>2, <1>9, <2>1
<1>11. ASSUME NEW i \in 1 .. n PROVE w[i] = w[i - 1] \o e[i]
  <2>1. i \in Nat /\ i \in 0 .. n /\ i - 1 \in 0 .. n
    BY <1>1
  <2>2. CASE i <= k
    <3>1. i - 1 <= k
      BY <1>1, <2>1, <2>2
    <3>2. w[i] = Asked(s, i) /\ w[i - 1] = Asked(s, i - 1)
      BY <1>9, <2>1, <2>2, <3>1
    <3> QED
      BY <1>2, <1>6, <2>2, <3>2
  <2>3. CASE ~(i <= k)
    <3>1. w[i] = Asked(s, k) /\ e[i] = << >>
      BY <1>6, <1>9, <2>1, <2>3
    <3>2. w[i - 1] = Asked(s, k)
      <4>1. i - 1 <= k => i - 1 = k
        BY <1>1, <2>1, <2>3
      <4> QED
        BY <1>9, <2>1, <4>1
    <3>3. Asked(s, k) \o << >> = Asked(s, k)
      <4>1. Asked(s, k) \in Seq(A)
        BY <1>1, <1>2, <1>4
      <4> QED
        BY <4>1, ConcatEmptySeq
    <3> QED
      BY <3>1, <3>2, <3>3
  <2> QED
    BY <2>2, <2>3
<1>12. Glues(w, e, Len(e))
  BY <1>8, <1>10, <1>11 DEF Glues
<1>13. FlattenSeq(e) = w[Len(e)]
  BY <1>4, <1>8, <1>9, <1>12, Glued
<1>14. w[n] = Asked(s, k)
  <2>1. n \in 0 .. n /\ (n <= k => n = k)
    BY <1>1
  <2> QED
    BY <1>9, <2>1
<1> QED
  BY <1>5, <1>8, <1>13, <1>14
-----------------------------------------------------------------------------
(* How far the parser is.                                                   *)

Starred(m) == m.bytes[1] = "*"

Endless(m) == \E p \in 0 .. Len(m.bytes) : Unended(m.bytes, p)

(* The messages of which the query buffer holds only so much at a time. *)
Limited(m) == Starred(m) /\ (m.ok \/ Endless(m))

Slack(m) == IF m.ok THEN BigArg ELSE InlineMax

(* The requests the next one is looked at behind. *)
Passes(m) == m.ok /\ (m.argv = << >> \/ m.argv[1] # Quit)

TypeOf(m) == IF Starred(m) THEN "multibulk" ELSE "inline"

(* Nothing of message i is done but, perhaps, its type known. *)
AtStart(i) ==
  /\ argv = << >>
  /\ Taken = EndOf(session, i - 1)
  /\ reqType # "none" => i <= Len(session) /\ reqType = TypeOf(session[i])

(* The arguments of message i so far are in argv, the next is to be read. *)
InBulks(i) ==
  LET m == session[i]
      k == Len(argv)
      at == EndOf(session, i - 1) + Place(m.argv, k)
  IN  /\ i <= Len(session)
      /\ reqType = "multibulk"
      /\ BulkShape(m, multibulk + k)
      /\ k <= Len(m.argv)
      /\ argv = SubSeq(m.argv, 1, k)
      /\ bulk = Unknown => Taken + pos = at
      /\ bulk # Unknown => k < Len(m.argv) /\ bulk = Len(m.argv[k + 1]) /\ Taken + pos = at + 4

(* Message i is read and to be run. *)
ToRun(i) ==
  /\ i <= Len(session)
  /\ session[i].ok /\ argv = session[i].argv
  /\ Taken = EndOf(session, i)

(* How many bytes of message i, and behind it, may have been read, and what *)
(* the query buffer holds at most.                                          *)
Near(i) ==
  IF pc = "read"
  THEN /\ Received < EndOf(session, i)
       /\ Limited(session[i]) => Len(query) <= Slack(session[i]) \/ bulk >= BigArg
  ELSE /\ Received < EndOf(session, i) + IoBufLen
       /\ Limited(session[i]) => \/ Len(query) <= Slack(session[i]) + IoBufLen
                                 \/ bulk >= BigArg /\ pos = 0 /\ Len(query) <= bulk + 2

(* The messages before i are run, message i is not. *)
Progress(i) ==
  /\ \A j \in 1 .. i - 1 : Passes(session[j])
  /\ executed = Asked(session, i - 1)
  /\ pc \in {"read", "parse"} /\ multibulk = 0 => AtStart(i)
  /\ multibulk > 0 => InBulks(i)
  /\ pc = "run" => ToRun(i)
  /\ i <= Len(session) => Near(i)

(* Message i was QUIT or malformed, it is the last one dealt with. *)
Settled(i) ==
  /\ \A j \in 1 .. i - 1 : Passes(session[j])
  /\ ~Passes(session[i])
  /\ session[i].ok => executed = Asked(session, i) /\ EndOf(session, i) <= Received
  /\ ~session[i].ok => executed = Asked(session, i - 1) /\ EndOf(session, i - 1) <= Received
  /\ pc \in {"read", "parse"}

Follows ==
  /\ Carried
  /\ ~closing => \E i \in 1 .. Len(session) + 1 : Progress(i)
  /\ closing => \E i \in 1 .. Len(session) : Settled(i)
  /\ RefusesOnlyMalformed

-----------------------------------------------------------------------------
(* Bytes move from the input to the query buffer and out of it.             *)

LEMMA SameTaken ==
  ASSUME IInv, Carried, UNCHANGED <<session, input, query>>
  PROVE  Carried' /\ Taken' = Taken /\ Received' = Received
BY DEF Carried, Taken, Received, End

LEMMA DropTaken ==
  ASSUME IInv, Carried, NEW n \in 0 .. Len(query), query' = Drop(query, n), UNCHANGED <<session, input>>
  PROVE  /\ Carried' /\ Taken' = Taken + n /\ Received' = Received
         /\ Len(query') = Len(query) - n /\ Len(query') \in Nat
<1> DEFINE B == Bytes(session)
<1>1. Len(query) \in Nat /\ Len(input) \in Nat /\ Taken \in Nat /\ Received \in Nat
      /\ Received = Taken + Len(query) /\ Len(B) \in Nat
  BY Counts
<1>2. query \in Seq(STRING)
  BY DEF IInv, Between, Stream
<1>3. Len(query') = Len(query) - n /\ Len(query') \in Nat
  <2>1. Len(query') = Len(query) - n
    BY <1>2, Dropped DEF Stream
  <2> QED
    BY <1>1, <2>1
<1>4. Received' = Received
  BY DEF Received, End
<1>5. Taken' = Taken + n
  <2>1. Taken' = Received' - Len(query')
    BY DEF Taken
  <2> QED
    BY <1>1, <1>3, <1>4, <2>1
<1>6. ASSUME NEW j \in 1 .. Len(query') PROVE query'[j] = query[n + j]
  <2>1. query' = SubSeq(query, n + 1, Len(query))
    BY DEF Drop
  <2>2. n + 1 \in 1 .. Len(query) + 1 /\ Len(query) \in n .. Len(query)
    BY <1>1
  <2>3. query'[j] = query[(n + 1) + j - 1]
    <3> DEFINE a == n + 1
    <3>1. a \in Nat /\ a >= 1 /\ \A i \in a .. Len(query) : query[i] \in STRING
      BY <1>1, <1>2, ElementOfSeq
    <3>2. query' = SubSeq(query, a, Len(query))
      BY <2>1
    <3>3. j \in 1 .. Len(query) - a + 1
      BY <1>1, <1>3
    <3> HIDE DEF a
    <3>4. query'[j] = query[a + j - 1]
      BY <1>1, <3>1, <3>2, <3>3, SubSeqProperties
    <3> QED
      BY <3>4 DEF a
  <2>4. (n + 1) + j - 1 = n + j
    BY <1>1
  <2> QED
    BY <2>3, <2>4
<1>7. ASSUME NEW j \in 1 .. Len(query') PROVE query'[j] = B[Taken' + j]
  <2> DEFINE p == n + j
  <2>1. p \in 1 .. Len(query) /\ Taken' + j = Taken + p
    BY <1>1, <1>3, <1>5
  <2>2. query'[j] = query[p]
    BY <1>6
  <2> HIDE DEF p
  <2>3. query[p] = B[Taken + p]
    BY <2>1 DEF Carried
  <2> QED
    BY <2>1, <2>2, <2>3
<1>8. Len(query') + Len(input) <= Len(B)
  <2>1. Len(query) + Len(input) <= Len(B)
    BY DEF Carried
  <2> QED
    BY <1>1, <1>3, <2>1
<1>9. Carried'
  BY <1>4, <1>7, <1>8 DEF Carried
<1> QED
  BY <1>3, <1>4, <1>5, <1>9

LEMMA ReadTaken ==
  ASSUME IInv, Carried, NEW n \in 1 .. IoBufLen, Read(n)
  PROVE  /\ Carried' /\ Taken' = Taken /\ Received' = Received + n
         /\ Len(query') = Len(query) + n
<1> DEFINE B == Bytes(session)
           r == SubSeq(input, 1, n)
<1>1. Len(query) \in Nat /\ Len(input) \in Nat /\ Taken \in Nat /\ Received \in Nat
      /\ Received = Taken + Len(query) /\ Len(B) \in Nat
      /\ Received = EndOf(session, Len(session)) - Len(input)
      /\ EndOf(session, Len(session)) \in Nat
  BY Counts
<1>2. query \in Stream /\ input \in Stream
  BY DEF IInv, Between
<1>3. n \in Nat /\ n >= 1 /\ n <= Len(input) /\ query' = query \o r /\ input' = Drop(input, n) /\ session' = session
  BY Sizes DEF Read
<1>4. r \in Stream /\ Len(r) = n /\ \A j \in 1 .. n : r[j] = input[j]
  <2>1. input \in Seq(STRING) /\ \A j \in 1 .. n : input[j] \in STRING
    BY <1>1, <1>2, <1>3, ElementOfSeq DEF Stream
  <2> QED
    BY <1>1, <1>3, <2>1, SubSeqProperties DEF Stream
<1> HIDE DEF r
<1>5. Len(input') = Len(input) - n /\ input' = SubSeq(input, n + 1, Len(input))
  BY <1>1, <1>2, <1>3, Dropped DEF Drop
<1>6. Len(query') = Len(query) + n /\ Stands(query, query', 0) /\ Stands(r, query', Len(query))
  BY <1>2, <1>3, <1>4, ConcatStands DEF Stream
<1>7. Received' = Received + n
  <2>1. Received' = EndOf(session, Len(session)) - Len(input')
    BY <1>3 DEF Received, End, EndOf
  <2> DEFINE e == EndOf(session, Len(session))
  <2>2. e \in Nat /\ Received = e - Len(input) /\ Received' = e - Len(input')
    BY <1>1, <2>1
  <2> HIDE DEF e
  <2>3. e - (Len(input) - n) = (e - Len(input)) + n
    BY <1>1, <1>3, <2>2
  <2> QED
    BY <1>5, <2>2, <2>3
<1>8. Taken' = Taken
  <2>1. Taken' = Received' - Len(query')
    BY DEF Taken
  <2> QED
    BY <1>1, <1>3, <1>6, <1>7, <2>1
<1>9. ASSUME NEW j \in 1 .. Len(query') PROVE query'[j] = B[Taken + j]
  <2>1. CASE j <= Len(query)
    <3>1. j \in 1 .. Len(query) /\ 0 + j = j
      BY <1>1, <1>3, <1>6, <2>1
    <3> QED
      BY <1>6, <3>1 DEF Stands, Carried
  <2>2. CASE ~(j <= Len(query))
    <3> DEFINE p == j - Len(query)
    <3>1. p \in 1 .. n /\ p \in 1 .. Len(input) /\ Len(query) + p = j /\ Received + p = Taken + j
      BY <1>1, <1>3, <1>6, <2>2
    <3> HIDE DEF p
    <3>2. query'[Len(query) + p] = r[p]
      BY <1>4, <1>6, <3>1 DEF Stands
    <3>3. r[p] = input[p] /\ input[p] = B[Received + p]
      BY <1>4, <3>1 DEF Carried
    <3> QED
      BY <3>1, <3>2, <3>3
  <2> QED
    BY <2>1, <2>2
<1>10. ASSUME NEW j \in 1 .. Len(input') PROVE input'[j] = B[Received' + j]
  <2> DEFINE p == n + j
             a == n + 1
  <2>1. p \in 1 .. Len(input) /\ Received + p = Received' + j /\ a + j - 1 = p
    BY <1>1, <1>3, <1>5, <1>7, SMTT(20)
  <2>2. a \in Nat /\ a >= 1 /\ j \in 1 .. Len(input) - a + 1
    BY <1>1, <1>3, <1>5
  <2>3. input' = SubSeq(input, a, Len(input))
    BY <1>5
  <2> HIDE DEF p, a
  <2>4. \A i \in a .. Len(input) : input[i] \in STRING
    BY <1>1, <1>2, <2>2, ElementOfSeq DEF Stream
  <2>5. input'[j] = input[a + j - 1]
    BY <1>1, <1>2, <2>2, <2>3, <2>4, SubSeqProperties DEF Stream
  <2>6. input[p] = B[Received + p]
    BY <2>1 DEF Carried
  <2> QED
    BY <2>1, <2>5, <2>6
<1>11. Len(query') + Len(input') <= Len(B)
  <2>1. Len(query) + Len(input) <= Len(B)
    BY DEF Carried
  <2> QED
    BY <1>1, <1>3, <1>5, <1>6, <2>1
<1>12. Carried'
  BY <1>3, <1>8, <1>9, <1>10, <1>11 DEF Carried
<1> QED
  BY <1>6, <1>7, <1>8, <1>12
-----------------------------------------------------------------------------
(* The message the parser is at.                                            *)

(* What may be left of a line is between a small argument and the limit. *)
LEMMA SlackIs ==
  ASSUME NEW m
  PROVE  Slack(m) \in Nat /\ Slack(m) >= BigArg /\ Slack(m) <= InlineMax
BY Limits DEF Slack

LEMMA At ==
  ASSUME IInv, NEW i \in 1 .. Len(session)
  PROVE  /\ session \in Sessions /\ Len(session) \in Nat /\ DOMAIN session = 1 .. Len(session)
         /\ i \in Nat /\ i >= 1 /\ i <= Len(session)
         /\ session[i].bytes \in Stream /\ Len(session[i].bytes) \in Nat
         /\ session[i].argv \in Seq(Stream) /\ Len(session[i].argv) \in Nat
         /\ session[i].ok \in BOOLEAN
         /\ EndOf(session, i - 1) \in Nat /\ EndOf(session, i) \in Nat
         /\ EndOf(session, i) = EndOf(session, i - 1) + Len(session[i].bytes)
<1>1. session \in Sessions
  BY DEF IInv, TypeOK
<1>2. /\ Len(session) \in Nat /\ DOMAIN session = 1 .. Len(session)
      /\ session[i].bytes \in Stream /\ session[i].argv \in Seq(Stream) /\ session[i].ok \in BOOLEAN
  BY <1>1, SessionType
<1>3. Len(session[i].bytes) \in Nat /\ Len(session[i].argv) \in Nat
  BY <1>2, StreamChars, LenProperties
<1>4. i - 1 \in 0 .. Len(session) /\ i \in 0 .. Len(session) /\ i \in Nat /\ i >= 1 /\ i <= Len(session)
  BY <1>2
<1>5. /\ EndOf(session, i - 1) \in Nat /\ EndOf(session, i) \in Nat
      /\ EndOf(session, i) = EndOf(session, i - 1) + Len(session[i].bytes)
  BY <1>1, <1>4, Ends
<1> QED
  BY <1>1, <1>2, <1>3, <1>4, <1>5

(* A line that is ended has no end missing. *)
LEMMA EndedNotEndless ==
  ASSUME NEW m, m.bytes \in Stream, NEW n \in Nat, Ended(m.bytes, n)
  PROVE  ~Endless(m)
<1> DEFINE b == m.bytes
<1>1. Len(b) \in Nat
  BY StreamChars
<1>2. b[Len(b) - 1] = CR
  BY DEF Ended
<1> HIDE DEF b
<1>3. ASSUME NEW p \in 0 .. Len(b), Unended(b, p) PROVE FALSE
  <2>1. Len(b) >= p + (InlineMax + IoBufLen)
    BY <1>3 DEF Unended
  <2>2. Len(b) - 1 \in p + 1 .. Len(b)
    BY <1>1, <2>1, Limits
  <2> QED
    BY <1>2, <1>3, <2>2 DEF Unended
<1> QED
  BY <1>3 DEF Endless, b

LEMMA UnendedEndless ==
  ASSUME NEW m, m.bytes \in Stream, NEW n \in Nat, Unended(m.bytes, n)
  PROVE  Endless(m)
<1> DEFINE b == m.bytes
<1>1. Len(b) \in Nat
  BY StreamChars
<1>2. Len(b) >= n + (InlineMax + IoBufLen) /\ Unended(b, n)
  BY DEF Unended
<1> HIDE DEF b
<1>3. n \in 0 .. Len(b)
  BY <1>1, <1>2, Limits
<1> QED
  BY <1>2, <1>3 DEF Endless, b

(* Only a request that begins with a star is multi bulk. *)
LEMMA ShapeOf ==
  ASSUME IInv, NEW i \in 1 .. Len(session)
  PROVE  /\ Starred(session[i]) => CountShape(session[i]) \/ \E n : BulkShape(session[i], n)
         /\ ~Starred(session[i]) => InlineShape(session[i])
         /\ Len(session[i].bytes) >= 2
<1> DEFINE m == session[i]
<1>1. Len(m.bytes) \in Nat /\ session \in Sessions
  BY At
<1>2. InlineShape(m) \/ CountShape(m) \/ \E n : BulkShape(m, n)
  BY <1>1, Shapes
<1> HIDE DEF m
<1>3. ASSUME InlineShape(m) PROVE ~Starred(m) /\ Len(m.bytes) >= 2
  BY <1>3 DEF InlineShape, Starred
<1>4. ASSUME CountShape(m) PROVE Starred(m) /\ Len(m.bytes) >= 2
  BY <1>1, <1>4, Limits DEF CountShape, Starred, Unended, Ended
<1>5. ASSUME NEW n, BulkShape(m, n) PROVE Starred(m) /\ Len(m.bytes) >= 2
  <2> DEFINE p == Place(m.argv, Len(m.argv))
  <2>1. Len(m.argv) \in Nat
    BY At DEF m
  <2>2. 0 \in 0 .. Len(m.argv)
    BY <2>1
  <2>3. Starred(m) /\ Len(m.bytes) >= p /\ Place(m.argv, 0) = 4 /\ Place(m.argv, 0) <= p /\ p \in Nat
    BY <1>5, <2>1, <2>2 DEF BulkShape, Starred
  <2> HIDE DEF p
  <2> QED
    BY <1>1, <2>3
<1> QED
  BY <1>2, <1>3, <1>4, <1>5 DEF m

LEMMA AtMessage ==
  ASSUME IInv, Carried, NEW i \in 1 .. Len(session) + 1, AtStart(i), query # << >>
  PROVE  /\ i \in 1 .. Len(session)
         /\ RequestType = TypeOf(session[i])
<1>1. session \in Sessions /\ Len(query) \in Nat /\ Taken \in Nat /\ Received = Taken + Len(query)
      /\ Received <= EndOf(session, Len(session)) /\ query \in Stream
  BY Counts DEF IInv, Between
<1>2. Len(session) \in Nat
  BY <1>1, SessionType
<1>3. Len(query) > 0
  BY <1>1, EmptySeq DEF Stream
<1>4. i # Len(session) + 1
  <2>1. ASSUME i = Len(session) + 1 PROVE FALSE
    <3>1. i - 1 = Len(session)
      BY <1>2, <2>1
    <3>2. Taken = EndOf(session, Len(session))
      BY <3>1 DEF AtStart
    <3> QED
      BY <1>1, <1>3, <3>2
  <2> QED
    BY <2>1
<1>5. i \in 1 .. Len(session)
  BY <1>2, <1>4
<1>6. Len(session[i].bytes) \in Nat /\ Len(session[i].bytes) >= 2 /\ EndOf(session, i - 1) \in Nat
  BY <1>5, At, ShapeOf
<1>7. query[1] = session[i].bytes[1]
  <2>1. Taken + 0 = EndOf(session, i - 1) + 0
    BY <1>1, <1>6 DEF AtStart
  <2>2. 1 \in 1 .. Len(query) /\ 0 < 1 /\ (1 - 0) + 0 <= Len(session[i].bytes) /\ 0 + (1 - 0) = 1
    BY <1>1, <1>3, <1>6
  <2>3. query[1] = session[i].bytes[0 + (1 - 0)]
    BY <1>5, <2>1, <2>2, View
  <2> QED
    BY <2>2, <2>3
<1>8. RequestType = TypeOf(session[i])
  BY <1>7 DEF RequestType, TypeOf, Starred, AtStart
<1> QED
  BY <1>5, <1>8

-----------------------------------------------------------------------------
(* Each step follows the stream.                                            *)

Kept ==
  /\ Carried'
  /\ ~closing' => \E j \in 1 .. Len(session) + 1 : Progress(j)'
  /\ closing' => \E j \in 1 .. Len(session) : Settled(j)'
  /\ errors' # errors => \E j \in DOMAIN session : ~session[j].ok

LEMMA FailStep ==
  ASSUME IInv, Carried, NEW i \in 1 .. Len(session), Progress(i), ~session[i].ok,
         EndOf(session, i - 1) <= Received,
         NEW n \in 0 .. Len(query), ProtocolError(n), UNCHANGED <<session, input, executed>>
  PROVE  Kept
<1>1. DOMAIN session = 1 .. Len(session)
  BY At
<1>2. closing' = TRUE /\ pc' = "read" /\ query' = Drop(query, n)
  BY DEF ProtocolError
<1>3. Carried' /\ Received' = Received
  BY <1>2, DropTaken
<1>4. Settled(i)'
  BY <1>2, <1>3 DEF Settled, Progress, Passes
<1> QED
  BY <1>1, <1>2, <1>3, <1>4 DEF Kept

LEMMA SameBulks ==
  ASSUME NEW i, InBulks(i), UNCHANGED <<session, multibulk, bulk, argv>>,
         reqType' = "multibulk", Taken' + pos' = Taken + pos
  PROVE  InBulks(i)'
BY DEF InBulks

LEMMA WaitStep ==
  ASSUME IInv, Carried, NEW i \in 1 .. Len(session), Progress(i), ~closing,
         NEW n \in 0 .. Len(query), Incomplete(n), UNCHANGED <<session, input, executed>>,
         Received < EndOf(session, i),
         Limited(session[i]) => Len(query) - n <= Slack(session[i]) \/ bulk >= BigArg,
         multibulk = 0 => AtStart(i)', multibulk > 0 => InBulks(i)'
  PROVE  Kept
<1>1. Len(session) \in Nat
  BY At
<1>2. /\ ~closing' /\ pc' = "read" /\ query' = Drop(query, n) /\ errors' = errors
      /\ multibulk' = multibulk /\ bulk' = bulk
  BY DEF Incomplete
<1>3. Carried' /\ Received' = Received /\ Len(query') = Len(query) - n
  BY <1>2, DropTaken
<1>4. Near(i)'
  BY <1>2, <1>3 DEF Near
<1>5. Progress(i)'
  BY <1>2, <1>4 DEF Progress
<1>6. i \in 1 .. Len(session) + 1
  BY <1>1
<1> QED
  BY <1>2, <1>3, <1>5, <1>6 DEF Kept
LEMMA ReadFollows ==
  ASSUME IInv, Follows, NEW n \in 1 .. IoBufLen, Read(n)
  PROVE  Kept
<1>1. /\ pc = "read" /\ pc' = "parse" /\ n <= ReadLen /\ n \in Nat
      /\ UNCHANGED <<session, pos, reqType, multibulk, bulk, argv, closing, errors, executed>>
  BY Limits DEF Read, parserVars
<1>2. Carried' /\ Taken' = Taken /\ Received' = Received + n /\ Len(query') = Len(query) + n
  BY ReadTaken DEF Follows
<1>3. Len(query) \in Nat /\ Received \in Nat /\ Taken \in Nat /\ session \in Sessions
  BY Counts DEF Follows
<1>4. ASSUME NEW i \in 1 .. Len(session) + 1, Progress(i) PROVE Progress(i)'
  <2>1. AtStart(i) => AtStart(i)'
    BY <1>1, <1>2 DEF AtStart
  <2>2. InBulks(i) => InBulks(i)'
    <3>1. ASSUME InBulks(i) PROVE InBulks(i)'
      <4>1. Taken' + pos' = Taken + pos /\ reqType' = "multibulk"
        BY <1>1, <1>2, <3>1 DEF InBulks
      <4> QED
        BY <1>1, <3>1, <4>1, SameBulks
    <3> QED
      BY <3>1
  <2>3. ASSUME i <= Len(session) PROVE Near(i)'
    <3>1. i \in 1 .. Len(session)
      <4>1. Len(session) \in Nat
        BY <1>3, SessionType
      <4> QED
        BY <2>3, <4>1
    <3>2. EndOf(session, i) \in Nat
      BY <3>1, At
    <3> DEFINE L == Limited(session[i])
               K == Slack(session[i])
               e == EndOf(session, i)
    <3>3. Near(i)
      BY <1>4, <2>3 DEF Progress
    <3>4. Received < e /\ (L => Len(query) <= K \/ bulk >= BigArg) /\ K \in Nat
      BY <1>1, <3>3, SlackIs DEF Near
    <3> HIDE DEF L, K, e
    <3>5. Received' < e + IoBufLen
      BY <1>2, <1>3, <3>2, <3>4, Limits DEF e
    <3>6. ASSUME L PROVE Len(query') <= K + IoBufLen \/ (bulk >= BigArg /\ pos = 0 /\ Len(query') <= bulk + 2)
      <4>1. CASE bulk >= BigArg
        <5>1. bulk # Unknown /\ bulk \in Nat
          <6>1. bulk # Unknown
            BY <4>1, Limits DEF Unknown
          <6> QED
            BY <6>1, Limits DEF IInv, TypeOK
        <5>2. multibulk # 0 /\ multibulk \in Nat
          BY <5>1, Limits DEF IInv, TypeOK, Between
        <5>3. reqType = "multibulk" /\ multibulk > 0 /\ pos = 0
          BY <1>1, <5>2 DEF IInv, Between
        <5> DEFINE a == bulk + 2 - Len(query)
        <5>4. ReadLen = Min({IoBufLen, a})
          BY <4>1, <5>3 DEF ReadLen
        <5>5. a \in Int
          BY <1>3, <5>1
        <5> HIDE DEF a
        <5>6. \E x \in {IoBufLen, a} : \A y \in {IoBufLen, a} : x <= y
          BY <5>5, Limits
        <5>7. Min({IoBufLen, a}) <= a
          BY <5>6 DEF Min
        <5>8. n <= a
          <6>1. Min({IoBufLen, a}) \in {IoBufLen, a}
            BY <5>6 DEF Min
          <6> QED
            BY <1>1, <5>4, <5>5, <5>7, <6>1, Limits
        <5>9. Len(query) + n <= bulk + 2
          BY <1>1, <1>3, <5>1, <5>8 DEF a
        <5> QED
          BY <1>2, <4>1, <5>3, <5>9
      <4>2. CASE ~(bulk >= BigArg)
        <5>1. Len(query) <= K
          BY <3>4, <3>6, <4>2
        <5> QED
          BY <1>1, <1>2, <1>3, <3>4, <5>1, Limits
      <4> QED
        BY <4>1, <4>2
    <3> QED
      BY <1>1, <3>5, <3>6 DEF Near, L, K, e
  <2> QED
    BY <1>1, <1>4, <2>1, <2>2, <2>3 DEF Progress
<1>5. ASSUME NEW i \in 1 .. Len(session), Settled(i) PROVE Settled(i)'
  <2>1. EndOf(session, i) \in Nat /\ EndOf(session, i - 1) \in Nat
    BY At
  <2>2. /\ EndOf(session, i) <= Received => EndOf(session, i) <= Received'
        /\ EndOf(session, i - 1) <= Received => EndOf(session, i - 1) <= Received'
    BY <1>1, <1>2, <1>3, <2>1
  <2> QED
    BY <1>1, <1>5, <2>2 DEF Settled
<1> QED
  BY <1>1, <1>2, <1>4, <1>5 DEF Follows, Kept

(* What is behind a place where an argument is to come. *)
LEMMA BulksLeft ==
  ASSUME IInv, NEW i \in 1 .. Len(session), InBulks(i), multibulk > 0
  PROVE  LET m == session[i]
             k == Len(argv)
             p == Place(m.argv, k)
         IN  /\ k \in 0 .. Len(m.argv) /\ p \in Nat /\ p <= Len(m.bytes)
             /\ k = Len(m.argv) =>
                  /\ ~m.ok /\ bulk = Unknown /\ p + 2 <= Len(m.bytes)
                  /\ Unended(m.bytes, p) \/ (Ended(m.bytes, p) /\ ~IsLength(m.bytes, p))
             /\ k < Len(m.argv) =>
                  /\ k + 1 \in 1 .. Len(m.argv)
                  /\ Len(m.argv[k + 1]) \in 0 .. MaxBulkLen
                  /\ Place(m.argv, k + 1) = p + (6 + Len(m.argv[k + 1]))
                  /\ p + (6 + Len(m.argv[k + 1])) <= Len(m.bytes)
                  /\ Framed(m.bytes, p, m.argv[k + 1])
<1> DEFINE m == session[i]
           k == Len(argv)
           p == Place(m.argv, k)
           N == Len(m.argv)
           q == Place(m.argv, N)
           L == Len(m.bytes)
           P(j) == Place(m.argv, j)
           X(j) == Len(m.argv[j])
<1>1. N \in Nat /\ L \in Nat
  BY At
<1>2. BulkShape(m, multibulk + k) /\ k <= N /\ argv = SubSeq(m.argv, 1, k)
      /\ (bulk # Unknown => k < N)
  BY DEF InBulks
<1>3. multibulk \in Nat
  BY Limits DEF IInv, TypeOK
<1>4. k \in Nat
  <2>1. m.argv \in Seq(Stream)
    BY At
  <2>2. k \in Nat
    <3>1. multibulk + k \in 1 .. MaxBulks
      BY <1>2 DEF BulkShape
    <3>2. k = 0 \/ k # 0
      OBVIOUS
    <3> QED
      BY <1>2, <2>1, LenProperties
  <2> QED
    BY <2>2
<1>5. k \in 0 .. N
  BY <1>1, <1>2, <1>4
<1>6. /\ L >= q
      /\ \A j \in 0 .. N : P(j) \in Nat /\ P(j) <= q
      /\ \A j \in 1 .. N : /\ P(j) = P(j - 1) + (6 + X(j))
                           /\ X(j) \in 0 .. MaxBulkLen
                           /\ Framed(m.bytes, P(j - 1), m.argv[j])
      /\ IF m.ok THEN N = multibulk + k /\ L = q
         ELSE /\ N < multibulk + k
              /\ \/ Unended(m.bytes, q)
                 \/ Ended(m.bytes, q) /\ ~IsLength(m.bytes, q)
  BY <1>2 DEF BulkShape
<1>7. p \in Nat /\ p <= q /\ q \in Nat /\ p <= L
  <2>1. p \in Nat /\ p <= q /\ q \in Nat
    <3>1. N \in 0 .. N /\ P(k) = p /\ P(N) = q
      BY <1>1
    <3> HIDE DEF P, N, p, q
    <3> QED
      BY <1>5, <1>6, <3>1
  <2> HIDE DEF p, q, L
  <2> QED
    BY <1>1, <1>6, <2>1
<1>8. ASSUME k = N
      PROVE  /\ ~m.ok /\ bulk = Unknown /\ p + 2 <= L
             /\ Unended(m.bytes, p) \/ (Ended(m.bytes, p) /\ ~IsLength(m.bytes, p))
  <2>1. p = q
    BY <1>8
  <2>2. ~m.ok
    <3> HIDE DEF N, k, L, q, P, X
    <3> QED
      BY <1>1, <1>3, <1>6, <1>8
  <2>3. Unended(m.bytes, p) \/ (Ended(m.bytes, p) /\ ~IsLength(m.bytes, p))
    <3> HIDE DEF p, q
    <3> QED
      BY <1>6, <2>1, <2>2
  <2>4. p + 2 <= L
    <3>1. L >= p + (InlineMax + IoBufLen) \/ L >= p + 2
      BY <2>3 DEF Unended, Ended
    <3> HIDE DEF p, L
    <3> QED
      BY <1>1, <1>7, <3>1, Limits
  <2>5. bulk = Unknown
    <3> HIDE DEF N, k
    <3> QED
      BY <1>1, <1>2, <1>8
  <2> QED
    BY <2>2, <2>3, <2>4, <2>5
<1>9. ASSUME k < N
      PROVE  /\ k + 1 \in 1 .. N
             /\ X(k + 1) \in 0 .. MaxBulkLen
             /\ P(k + 1) = p + (6 + X(k + 1))
             /\ p + (6 + X(k + 1)) <= L
             /\ Framed(m.bytes, p, m.argv[k + 1])
  <2>1. k + 1 \in 1 .. N /\ k + 1 \in 0 .. N /\ (k + 1) - 1 = k /\ P(k) = p
    <3>1. P(k) = p
      OBVIOUS
    <3> HIDE DEF k, N, P, p
    <3> QED
      BY <1>1, <1>4, <1>9, <3>1
  <2> DEFINE c == k + 1
  <2>2. c \in 1 .. N /\ c \in 0 .. N /\ c - 1 = k
    BY <2>1
  <2> HIDE DEF c, N, P, X, L, q
  <2>3. P(c) = P(c - 1) + (6 + X(c)) /\ X(c) \in 0 .. MaxBulkLen /\ Framed(m.bytes, P(c - 1), m.argv[c])
        /\ P(c) <= q /\ P(c) \in Nat
    BY <1>6, <2>2
  <2>4. P(c - 1) = p
    BY <2>1, <2>2
  <2>5. P(c) <= L
    BY <1>1, <1>6, <1>7, <2>3
  <2> QED
    BY <2>2, <2>3, <2>4, <2>5 DEF c
<1> QED
  BY <1>5, <1>7, <1>8, <1>9
LEMMA ParseDoneFollows ==
  ASSUME IInv, Follows, ParseDone
  PROVE  Kept
<1>1. /\ pc = "parse" /\ pc' = "read" /\ (query = << >> \/ closing)
      /\ UNCHANGED <<session, input, query, pos, reqType, multibulk, bulk, argv, closing, errors, executed>>
  BY DEF ParseDone, parserVars
<1>2. Carried' /\ Taken' = Taken /\ Received' = Received
  BY <1>1, SameTaken DEF Follows
<1>3. Len(query) \in Nat /\ Received \in Nat /\ Taken \in Nat /\ Received = Taken + Len(query)
      /\ Len(session) \in Nat
  BY Counts, SessionType DEF Follows
<1>4. ASSUME NEW i \in 1 .. Len(session) + 1, Progress(i), ~closing PROVE Progress(i)'
  <2>1. AtStart(i) => AtStart(i)'
    BY <1>1, <1>2 DEF AtStart
  <2>2. InBulks(i) => InBulks(i)'
    BY <1>1, <1>2 DEF InBulks
  <2>3. Len(query) = 0 /\ Received = Taken
    <3>1. query = << >>
      BY <1>1, <1>4
    <3>2. Len(query) = 0
      BY <3>1
    <3> QED
      BY <1>3, <3>2
  <2>4. ASSUME i <= Len(session) PROVE Near(i)'
    <3>1. i \in 1 .. Len(session)
      BY <1>3, <2>4
    <3> DEFINE e == EndOf(session, i - 1)
               L == Len(session[i].bytes)
    <3>2. e \in Nat /\ L \in Nat /\ EndOf(session, i) = e + L /\ L >= 2
      BY <3>1, At, ShapeOf
    <3>3. Received < EndOf(session, i)
      <4>1. CASE multibulk = 0
        <5>1. Taken = e
          BY <1>1, <1>4, <4>1 DEF Progress, AtStart
        <5> HIDE DEF e, L
        <5> QED
          BY <2>3, <3>2, <5>1
      <4>2. CASE multibulk # 0
        <5>1. multibulk > 0 /\ pos = 0
          BY <1>1, <4>2, Limits DEF IInv, TypeOK, Between
        <5>2. InBulks(i)
          BY <1>4, <5>1 DEF Progress
        <5> DEFINE k == Len(argv)
                   N == Len(session[i].argv)
                   p == Place(session[i].argv, k)
                   x == Len(session[i].argv[k + 1])
        <5>3. /\ k \in 0 .. N /\ p \in Nat
              /\ k = N => bulk = Unknown /\ p + 2 <= L
              /\ k < N => x \in 0 .. MaxBulkLen /\ p + (6 + x) <= L
          BY <3>1, <5>1, <5>2, BulksLeft
        <5>4. /\ bulk = Unknown => Taken + pos = e + p
              /\ bulk # Unknown => k < N /\ Taken + pos = (e + p) + 4
          BY <5>2 DEF InBulks
        <5>5. N \in Nat
          BY <3>1, At
        <5> HIDE DEF e, L, k, N, p, x
        <5>6. k = N \/ k < N
          BY <5>3, <5>5
        <5>7. Taken + pos = Taken
          BY <1>3, <5>1
        <5>8. Taken < e + L
          BY <1>3, <3>2, <5>3, <5>4, <5>6, <5>7, Limits, SMTT(20)
        <5> QED
          BY <2>3, <3>2, <5>8
      <4> QED
        BY <4>1, <4>2
    <3>4. Len(query') <= Slack(session[i])
      BY <1>1, <2>3, SlackIs
    <3> QED
      BY <1>1, <1>2, <3>3, <3>4 DEF Near
  <2> QED
    BY <1>1, <1>4, <2>1, <2>2, <2>4 DEF Progress
<1>5. ASSUME NEW i \in 1 .. Len(session), Settled(i) PROVE Settled(i)'
  BY <1>1, <1>2, <1>5 DEF Settled
<1> QED
  BY <1>1, <1>2, <1>4, <1>5 DEF Follows, Kept

LEMMA RunFollows ==
  ASSUME IInv, Follows, RunNothing \/ RunCommand \/ RunQuit
  PROVE  Kept
<1>1. pc = "run" /\ pc' = "parse" /\ UNCHANGED <<session, input, query, pos, errors>>
  BY DEF RunNothing, RunCommand, RunQuit, Reset, parserVars
<1>2. Carried' /\ Taken' = Taken /\ Received' = Received
  BY <1>1, SameTaken DEF Follows
<1>3. Len(query) \in Nat /\ Received \in Nat /\ Taken \in Nat /\ Received = Taken + Len(query)
      /\ session \in Sessions /\ Len(session) \in Nat
  BY Counts, SessionType DEF Follows
<1>4. ~closing
  <2>1. ~ \E i \in 1 .. Len(session) : Settled(i)
    BY <1>1 DEF Settled
  <2> QED
    BY <2>1 DEF Follows, IInv, TypeOK
<1>5. PICK i \in 1 .. Len(session) + 1 : Progress(i)
  BY <1>4 DEF Follows
<1>6. ToRun(i)
  BY <1>1, <1>5 DEF Progress
<1>7. i \in 1 .. Len(session) /\ i \in Nat /\ i + 1 \in 1 .. Len(session) + 1 /\ (i + 1) - 1 = i
  BY <1>3, <1>6 DEF ToRun
<1>8. EndOf(session, i) \in Nat
  BY <1>7, At
<1>9. session[i].ok /\ argv = session[i].argv /\ Taken = EndOf(session, i)
  BY <1>6 DEF ToRun
<1>10. executed = Asked(session, i - 1) /\ \A j \in 1 .. i - 1 : Passes(session[j])
  BY <1>5 DEF Progress
<1>11. Asked(session, i) = executed \o Command(session[i]) /\ executed \in Commands
  <2>1. i - 1 \in 0 .. Len(session)
    BY <1>3, <1>7
  <2> QED
    BY <1>3, <1>7, <1>10, <2>1, AskedStep
<1>12. argv # << >> => Asked(session, i) = Append(executed, argv)
  <2>1. ASSUME argv # << >> PROVE Asked(session, i) = Append(executed, argv)
    <3>1. Command(session[i]) = <<argv>>
      BY <1>9, <2>1 DEF Command
    <3>2. argv \in Seq(Stream)
      BY <1>7, <1>9, At
    <3> DEFINE A == Seq(Stream)
    <3>3. executed \in Seq(A) /\ argv \in A
      BY <1>11, <3>2 DEF Commands
    <3> HIDE DEF A
    <3>4. executed \o <<argv>> = Append(executed, argv)
      BY <3>3
    <3> QED
      BY <1>11, <3>1, <3>4
  <2> QED
    BY <2>1
<1>13. argv = << >> => Asked(session, i) = executed
  <2>1. ASSUME argv = << >> PROVE Asked(session, i) = executed
    <3>1. Command(session[i]) = << >>
      BY <1>9, <2>1 DEF Command
    <3> QED
      BY <1>11, <3>1, ConcatEmptySeq DEF Commands
  <2> QED
    BY <2>1
<1>14. CASE RunNothing \/ RunCommand
  <2>1. /\ reqType' = "none" /\ multibulk' = 0 /\ bulk' = Unknown /\ argv' = << >> /\ closing' = closing
        /\ executed' = Asked(session, i)
    BY <1>12, <1>13, <1>14 DEF RunNothing, RunCommand, Reset
  <2>2. Passes(session[i])
    BY <1>9, <1>14 DEF RunNothing, RunCommand, Passes
  <2>3. \A j \in 1 .. i : Passes(session[j])
    <3>1. ASSUME NEW j \in 1 .. i PROVE Passes(session[j])
      <4>1. j = i \/ j \in 1 .. i - 1
        BY <1>7
      <4> QED
        BY <1>10, <2>2, <4>1
    <3> QED
      BY <3>1
  <2>4. ASSUME i + 1 <= Len(session) PROVE Near(i + 1)'
    <3> DEFINE c == i + 1
    <3>1. c \in 1 .. Len(session) /\ c - 1 = i
      BY <1>3, <1>7, <2>4
    <3> HIDE DEF c
    <3>2. EndOf(session, c) \in Nat /\ EndOf(session, i) <= EndOf(session, c)
      <4>1. EndOf(session, c) \in Nat /\ EndOf(session, c) = EndOf(session, c - 1) + Len(session[c].bytes)
            /\ Len(session[c].bytes) \in Nat
        BY <3>1, At
      <4> QED
        BY <1>8, <3>1, <4>1
    <3>3. Received < EndOf(session, i) + IoBufLen
      <4>1. Near(i) /\ pc # "read"
        BY <1>1, <1>5, <1>7 DEF Progress
      <4> QED
        BY <4>1 DEF Near
    <3>4. Received' < EndOf(session, c) + IoBufLen
      BY <1>2, <1>3, <1>8, <3>2, <3>3, Limits
    <3>5. Len(query') <= Slack(session[c]) + IoBufLen
      <4>1. Len(query) <= IoBufLen
        BY <1>3, <1>8, <1>9, <3>3, Limits
      <4> QED
        BY <1>1, <1>3, <4>1, SlackIs, Limits
    <3>6. Near(c)'
      BY <1>1, <3>4, <3>5 DEF Near
    <3> QED
      BY <3>6 DEF c
  <2>5. AtStart(i + 1)'
    BY <1>1, <1>2, <1>7, <1>9, <2>1 DEF AtStart
  <2>6. Progress(i + 1)'
    BY <1>1, <1>7, <2>1, <2>3, <2>4, <2>5 DEF Progress
  <2> QED
    BY <1>1, <1>2, <1>4, <1>7, <2>1, <2>6 DEF Kept
<1>15. CASE RunQuit
  <2>1. closing' = TRUE /\ argv # << >> /\ argv[1] = Quit /\ executed' = Append(executed, argv)
    BY <1>15 DEF RunQuit
  <2>2. executed' = Asked(session, i) /\ ~Passes(session[i])
    BY <1>9, <1>12, <2>1 DEF Passes
  <2>3. EndOf(session, i) <= Received
    BY <1>3, <1>8, <1>9
  <2>4. Settled(i)'
    BY <1>1, <1>2, <1>9, <1>10, <2>2, <2>3 DEF Settled
  <2> QED
    BY <1>1, <1>2, <1>7, <2>1, <2>4 DEF Kept
<1> QED
  BY <1>14, <1>15

(* A line that has arrived is found, and it is the line of the message. *)
LEMMA InlineLine ==
  ASSUME IInv, Carried, NEW i \in 1 .. Len(session), Taken = EndOf(session, i - 1),
         InlineShape(session[i])
  PROVE  LET b == session[i].bytes
         IN  /\ Len(query) < Len(b) => Find(LF, 0) = 0
             /\ Len(query) >= Len(b) =>
                  /\ Find(LF, 0) # 0 /\ LineLen = Len(b) - 2
                  /\ SubSeq(query, 1, LineLen) = SubSeq(b, 1, Len(b) - 2)
<1> DEFINE b == session[i].bytes
           L == Len(b)
           e == EndOf(session, i - 1)
<1>1. /\ Len(query) \in Nat /\ Taken \in Nat /\ L \in Nat /\ e \in Nat
      /\ query \in Stream /\ b \in Stream
  BY Counts, At DEF IInv, Between
<1>2. /\ L >= 2 /\ b[L] = LF /\ b[L - 1] = CR
      /\ \A j \in 1 .. L - 1 : b[j] # LF
  BY DEF InlineShape
<1> DEFINE l == L - 1
<1>3. l \in Nat /\ 0 + (l + 1) = L /\ Taken + 0 = e + 0 /\ 0 \in 0 .. Len(query)
  <2> HIDE DEF L, e
  <2> QED
    BY <1>1, <1>2 DEF e
<1>4. \A k \in 1 .. l : b[0 + k] # LF
  <2>1. ASSUME NEW k \in 1 .. l PROVE b[0 + k] # LF
    <3>1. 0 + k = k
      OBVIOUS
    <3> QED
      BY <1>2, <3>1
  <2> QED
    BY <2>1
<1> HIDE DEF l
<1>5. /\ 0 + (l + 1) <= Len(query) => Find(LF, 0) = 0 + (l + 1)
      /\ 0 + (l + 1) > Len(query) => Find(LF, 0) = 0
  <2> DEFINE z == 0
  <2>1. z + (l + 1) <= L /\ b[z + (l + 1)] = LF
    BY <1>1, <1>2, <1>3
  <2>2. z \in Nat /\ z \in 0 .. Len(query) /\ Taken + z = EndOf(session, i - 1) + z
    BY <1>3
  <2>3. \A k \in 1 .. l : b[z + k] # LF
    BY <1>4
  <2> HIDE DEF z
  <2>5. FirstAt(b, z, LF, l)
    BY <2>1, <2>3 DEF FirstAt
  <2>4. /\ z + (l + 1) <= Len(query) => Find(LF, z) = z + (l + 1)
        /\ z + (l + 1) > Len(query) => Find(LF, z) = 0
    BY <1>3, <2>2, <2>5, FindsLine
  <2> QED
    BY <2>4 DEF z
<1> HIDE DEF L, e
<1>6. /\ L <= Len(query) => Find(LF, 0) = L
      /\ L > Len(query) => Find(LF, 0) = 0
  BY <1>3, <1>5
<1>7. ASSUME NEW j \in 1 .. L, L <= Len(query) PROVE query[j] = b[j]
  <2>1. j \in 1 .. Len(query) /\ 0 < j /\ (j - 0) + 0 <= L /\ 0 + (j - 0) = j
    BY <1>1, <1>7
  <2>2. Taken + 0 = EndOf(session, i - 1) + 0
    BY <1>3 DEF e
  <2>3. query[j] = session[i].bytes[0 + (j - 0)]
    BY <2>1, <2>2, View DEF L
  <2> QED
    BY <2>1, <2>3
<1>8. ASSUME L <= Len(query)
      PROVE  LineLen = L - 2 /\ SubSeq(query, 1, LineLen) = SubSeq(b, 1, L - 2)
  <2>1. Find(LF, 0) = L /\ L > 1 /\ L - 1 \in 1 .. L
    BY <1>1, <1>2, <1>6, <1>8
  <2>2. query[L - 1] = CR
    BY <1>2, <1>7, <1>8, <2>1
  <2>3. LineLen = L - 2
    BY <2>1, <2>2 DEF LineLen
  <2> DEFINE n == L - 2
             s == SubSeq(query, 1, n)
             t == SubSeq(b, 1, n)
  <2>4. n \in Nat /\ n <= L /\ n <= Len(query)
    BY <1>1, <1>2, <1>8
  <2> HIDE DEF n
  <2>5. s \in Seq(STRING) /\ Len(s) = n /\ \A j \in 1 .. n : s[j] = query[j]
    <3>1. \A j \in 1 .. n : query[j] \in STRING
      BY <1>1, <2>4, ElementOfSeq DEF Stream
    <3> QED
      BY <2>4, <3>1, SubSeqProperties
  <2>6. t \in Seq(STRING) /\ Len(t) = n /\ \A j \in 1 .. n : t[j] = b[j]
    <3>1. \A j \in 1 .. n : b[j] \in STRING
      <4>1. \A j \in 1 .. n : j \in 1 .. Len(b)
        BY <1>1, <2>4 DEF L
      <4> HIDE DEF b
      <4> QED
        BY <1>1, <4>1, ElementOfSeq DEF Stream
    <3> HIDE DEF b
    <3> QED
      BY <2>4, <3>1, SubSeqProperties
  <2>7. \A j \in 1 .. n : query[j] = b[j]
    <3>1. \A j \in 1 .. n : j \in 1 .. L
      BY <1>1, <2>4
    <3> QED
      BY <1>7, <1>8, <3>1
  <2> HIDE DEF s, t, b
  <2>8. s = t
    BY <2>5, <2>6, <2>7, SeqEqual
  <2> QED
    BY <2>3, <2>8 DEF s, t, n, b
<1>9. L > Len(query) \/ L <= Len(query)
  BY <1>1
<1>10. L # 0
  BY <1>1, <1>2
<1>11. /\ Len(query) < L => Find(LF, 0) = 0
       /\ Len(query) >= L =>
            Find(LF, 0) # 0 /\ LineLen = L - 2 /\ SubSeq(query, 1, LineLen) = SubSeq(b, 1, L - 2)
  BY <1>1, <1>6, <1>8, <1>10
<1> QED
  BY <1>11 DEF L
LEMMA InlineFollows ==
  ASSUME IInv, Follows, InlineIncomplete \/ InlineUnbalanced \/ InlineRequest
  PROVE  Kept
<1>1. Parsing("inline")
  BY DEF InlineIncomplete, InlineUnbalanced, InlineRequest
<1>2. /\ pc = "parse" /\ pos = 0 /\ ~closing /\ reqType' = "inline" /\ multibulk = 0 /\ bulk = Unknown
      /\ UNCHANGED <<session, input, executed>>
  BY <1>1, ParsingFacts
<1>3. query # << >> /\ RequestType = "inline"
  BY <1>1 DEF Parsing
<1>4. PICK i \in 1 .. Len(session) + 1 : Progress(i)
  BY <1>2 DEF Follows
<1>5. AtStart(i) /\ Carried
  BY <1>2, <1>4 DEF Progress, Follows
<1>6. i \in 1 .. Len(session) /\ TypeOf(session[i]) = "inline"
  BY <1>3, <1>5, AtMessage
<1>7. ~Starred(session[i])
  BY <1>6 DEF TypeOf
<1> DEFINE m == session[i]
           b == m.bytes
           L == Len(b)
           e == EndOf(session, i - 1)
           line == SubSeq(b, 1, L - 2)
<1>8. /\ Len(query) \in Nat /\ Taken \in Nat /\ Received \in Nat /\ Received = Taken + Len(query)
      /\ L \in Nat /\ e \in Nat /\ EndOf(session, i) = e + L
      /\ DOMAIN session = 1 .. Len(session) /\ Len(session) \in Nat
  BY <1>5, <1>6, Counts, At
<1>9. InlineShape(m) /\ L >= 2
  BY <1>6, <1>7, ShapeOf
<1>10. m.ok = Balanced(line) /\ (m.ok => L <= InlineMax + 1 /\ m.argv = Arguments(line))
  BY <1>9 DEF InlineShape
<1>11. Taken = e /\ argv = << >>
  BY <1>5 DEF AtStart
<1>12. /\ Len(query) < L => Find(LF, 0) = 0
       /\ Len(query) >= L =>
            Find(LF, 0) # 0 /\ LineLen = L - 2 /\ SubSeq(query, 1, LineLen) = line
  BY <1>5, <1>6, <1>9, <1>11, InlineLine
<1>13. i \in 1 .. Len(session) + 1
  BY <1>8, <1>6
<1>14. Received < EndOf(session, i) + IoBufLen
  BY <1>2, <1>4, <1>6, <1>8 DEF Progress, Near
<1>15. ~Limited(m)
  BY <1>7 DEF Limited
<1> HIDE DEF L, e, line
<1>16. CASE InlineIncomplete
  <2>1. /\ Find(LF, 0) = 0 /\ pc' = "read"
        /\ errors' = IF Len(query) > InlineMax THEN errors + 1 ELSE errors
        /\ UNCHANGED <<query, pos, multibulk, bulk, argv, closing>>
    BY <1>16 DEF InlineIncomplete
  <2>2. Len(query) < L
    BY <1>8, <1>12, <2>1
  <2>3. Carried' /\ Taken' = Taken /\ Received' = Received
    BY <1>2, <1>5, <2>1, SameTaken
  <2>4. Received < EndOf(session, i)
    BY <1>8, <1>11, <2>2
  <2>5. Near(i)'
    BY <1>2, <1>15, <2>1, <2>3, <2>4 DEF Near
  <2>6. AtStart(i)'
    BY <1>2, <1>5, <1>6, <2>1, <2>3 DEF AtStart
  <2>7. Progress(i)'
    BY <1>2, <1>4, <2>1, <2>5, <2>6 DEF Progress
  <2>8. errors' # errors => ~m.ok
    <3>1. m.ok => Len(query) <= InlineMax
      BY <1>8, <1>10, <2>2, Limits
    <3>2. m.ok => ~(Len(query) > InlineMax)
      BY <1>8, <3>1, Limits
    <3> QED
      BY <2>1, <3>2
  <2> QED
    BY <1>2, <1>6, <1>8, <1>13, <2>1, <2>3, <2>7, <2>8 DEF Kept
<1>17. CASE InlineUnbalanced
  <2>1. Find(LF, 0) # 0 /\ ~Balanced(SubSeq(query, 1, LineLen)) /\ ProtocolError(0)
    BY <1>17 DEF InlineUnbalanced
  <2>2. Len(query) >= L
    BY <1>8, <1>12, <2>1
  <2>3. ~m.ok
    BY <1>10, <1>12, <2>1, <2>2
  <2>4. e <= Received /\ 0 \in 0 .. Len(query)
    BY <1>8, <1>11
  <2> QED
    BY <1>2, <1>4, <1>5, <1>6, <2>1, <2>3, <2>4, FailStep DEF e
<1>18. CASE InlineRequest
  <2>1. /\ Find(LF, 0) # 0 /\ Balanced(SubSeq(query, 1, LineLen))
        /\ argv' = Arguments(SubSeq(query, 1, LineLen)) /\ query' = Drop(query, LineLen + 2) /\ pc' = "run"
        /\ UNCHANGED <<pos, multibulk, bulk, closing, errors>>
    BY <1>18 DEF InlineRequest
  <2>2. Len(query) >= L
    BY <1>8, <1>12, <2>1
  <2>3. m.ok /\ argv' = m.argv
    BY <1>10, <1>12, <2>1, <2>2
  <2>4. LineLen + 2 = L /\ L \in 0 .. Len(query)
    BY <1>8, <1>9, <1>12, <2>2 DEF L
  <2>5. Carried' /\ Taken' = Taken + L /\ Received' = Received
    BY <1>2, <1>5, <2>1, <2>4, DropTaken
  <2>6. ToRun(i)'
    BY <1>2, <1>6, <1>8, <1>11, <2>3, <2>5 DEF ToRun
  <2>7. Near(i)'
    BY <1>2, <1>14, <1>15, <2>1, <2>5 DEF Near
  <2>8. Progress(i)'
    BY <1>2, <1>4, <2>1, <2>6, <2>7 DEF Progress
  <2> QED
    BY <1>2, <1>13, <2>1, <2>5, <2>8 DEF Kept
<1> QED
  BY <1>16, <1>17, <1>18

(* The line that begins at a place of a message with a byte, a number and   *)
(* the end of the line, as far as it has arrived.                           *)
LEMMA ShortLine ==
  ASSUME IInv, Carried, NEW i \in 1 .. Len(session), NEW p \in 0 .. Len(query), NEW o \in Nat,
         Taken + p = EndOf(session, i - 1) + o, o + 4 <= Len(session[i].bytes),
         session[i].bytes[o + 1] # CR, session[i].bytes[o + 2] \in DOMAIN Numeral,
         session[i].bytes[o + 3] = CR
  PROVE  /\ ~WholeLine(Find(CR, p)) => Len(query) - p <= 3
         /\ WholeLine(Find(CR, p)) =>
              /\ Find(CR, p) = p + 3 /\ p + 4 <= Len(query)
              /\ query[p + 1] = session[i].bytes[o + 1]
              /\ query[p + 2] = session[i].bytes[o + 2]
<1> DEFINE b == session[i].bytes
           f == Find(CR, p)
<1>1. Len(query) \in Nat /\ Len(b) \in Nat /\ p \in Nat
  <2>1. Len(query) \in Nat /\ Len(b) \in Nat
    BY Counts, At
  <2> QED
    BY <2>1
<1>2. FirstAt(b, o, CR, 2)
  <2>1. b[o + 2] # CR
    BY NumeralBytes
  <2>2. ASSUME NEW k \in 1 .. 2 PROVE b[o + k] # CR
    <3>1. k = 1 \/ k = 2
      OBVIOUS
    <3> QED
      BY <2>1, <3>1
  <2>3. o + (2 + 1) = o + 3 /\ o + 3 <= Len(b)
    <3>1. o + 4 <= Len(b)
      OBVIOUS
    <3> HIDE DEF b
    <3> QED
      BY <1>1, <3>1
  <2> QED
    BY <2>2, <2>3 DEF FirstAt
<1>3. /\ p + (2 + 1) <= Len(query) => f = p + (2 + 1)
      /\ p + (2 + 1) > Len(query) => f = 0
  BY <1>2, FindsLine
<1> HIDE DEF f
<1>4. ~WholeLine(f) => Len(query) - p <= 3
  BY <1>1, <1>3 DEF WholeLine
<1>5. WholeLine(f) => f = p + 3 /\ p + 4 <= Len(query)
  BY <1>1, <1>3 DEF WholeLine
<1>6. ASSUME p + 4 <= Len(query), NEW c \in 1 .. 2 PROVE query[p + c] = b[o + c]
  <2> DEFINE j == p + c
  <2>a. c \in Nat /\ c >= 1 /\ c <= 2 /\ p \in Nat /\ Len(query) \in Nat /\ p + 4 <= Len(query)
    BY <1>1, <1>6
  <2>b. j - p = c
    BY ONLY <2>a
  <2>c. j \in 1 .. Len(query) /\ p < j
    BY ONLY <2>a
  <2>1. j \in 1 .. Len(query) /\ p < j /\ o + (j - p) = o + c
    BY <2>b, <2>c
  <2>2. (j - p) + o <= Len(session[i].bytes)
    <3>1. o + 4 <= Len(b)
      OBVIOUS
    <3> HIDE DEF b
    <3>2. (j - p) + o <= Len(b)
      BY <1>1, <3>1
    <3> QED
      BY <3>2 DEF b
  <2> HIDE DEF j
  <2>3. query[j] = session[i].bytes[o + (j - p)]
    BY <1>1, <2>1, <2>2, View
  <2> QED
    BY <2>1, <2>3 DEF j
<1> QED
  BY <1>4, <1>5, <1>6 DEF f

(* A malformed line, of which the end has or has not arrived. *)
LEMMA LongLine ==
  ASSUME IInv, Carried, NEW i \in 1 .. Len(session), NEW p \in 0 .. Len(query), NEW o \in Nat,
         Taken + p = EndOf(session, i - 1) + o, Ended(session[i].bytes, o)
  PROVE  LET b == session[i].bytes
         IN  /\ ~WholeLine(Find(CR, p)) => Received < EndOf(session, i)
             /\ WholeLine(Find(CR, p)) /\ Find(CR, p) = p + 3 =>
                  /\ Len(b) = o + 4
                  /\ query[p + 1] = b[o + 1] /\ query[p + 2] = b[o + 2]
<1> DEFINE b == session[i].bytes
           L == Len(b)
           f == Find(CR, p)
           e == EndOf(session, i - 1)
           l == L - (o + 2)
<1>1. /\ Len(query) \in Nat /\ L \in Nat /\ e \in Nat /\ EndOf(session, i) = e + L
      /\ Taken \in Nat /\ Received = Taken + Len(query)
  BY Counts, At
<1>2. L >= o + 2 /\ b[L - 1] = CR /\ \A j \in o + 1 .. L - 2 : b[j] # CR
  BY DEF Ended
<1>3. Taken + p = e + o
  OBVIOUS
<1> HIDE DEF e, L
<1>4. l \in Nat /\ o + (l + 1) = L - 1 /\ L - 1 <= L /\ p \in Nat
  BY <1>1, <1>2
<1>5. FirstAt(b, o, CR, l)
  <2>1. ASSUME NEW k \in 1 .. l PROVE b[o + k] # CR
    <3> DEFINE j == o + k
    <3>1. j \in o + 1 .. L - 2
      BY <1>1, <1>2, <1>4
    <3> HIDE DEF j
    <3>2. b[j] # CR
      BY <1>2, <3>1
    <3> QED
      BY <3>2 DEF j
  <2> HIDE DEF l
  <2> QED
    BY <1>2, <1>4, <2>1 DEF FirstAt, L
<1> HIDE DEF l
<1>6. /\ p + (l + 1) <= Len(query) => f = p + (l + 1)
      /\ p + (l + 1) > Len(query) => f = 0
  BY <1>4, <1>5, FindsLine
<1> HIDE DEF f, b
<1>7. ~WholeLine(f) => p + (l + 1) >= Len(query)
  BY <1>1, <1>4, <1>6 DEF WholeLine
<1>8. ~WholeLine(f) => Received < e + L
  <2>1. ASSUME p + (l + 1) >= Len(query) PROVE Received < e + L
    <3>1. Taken + (p + (l + 1)) = e + (L - 1)
      <4>1. Taken + (p + (l + 1)) = (Taken + p) + (l + 1) /\ (e + o) + (l + 1) = e + (o + (l + 1))
        BY <1>1, <1>4
      <4> QED
        BY <1>3, <1>4, <4>1
    <3> QED
      BY <1>1, <1>4, <2>1, <3>1
  <2> QED
    BY <1>7, <2>1
<1>9. ASSUME WholeLine(f), f = p + 3 PROVE L = o + 4 /\ p + 4 <= Len(query)
  <2>1. f # 0 /\ f < Len(query)
    BY <1>9 DEF WholeLine
  <2>2. f = p + (l + 1)
    BY <1>1, <1>4, <1>6, <2>1
  <2> QED
    BY <1>1, <1>4, <1>9, <2>1, <2>2
<1>10. ASSUME L = o + 4, p + 4 <= Len(query), NEW c \in 1 .. 2 PROVE query[p + c] = b[o + c]
  <2> DEFINE j == p + c
  <2>1. j \in 1 .. Len(query) /\ p < j /\ o + (j - p) = o + c /\ (j - p) + o <= L
    BY <1>1, <1>4, <1>10
  <2> HIDE DEF j
  <2>2. query[j] = session[i].bytes[o + (j - p)]
    BY <1>3, <1>4, <2>1, View DEF L, b, e
  <2> QED
    BY <2>1, <2>2 DEF j, b
<1>11. EndOf(session, i) = e + L
  BY <1>1
<1> QED
  BY <1>8, <1>9, <1>10, <1>11 DEF f, b, L
(* The count line: of a request, and malformed. *)
GoodCount(m) ==
  /\ Len(m.bytes) >= 4 /\ m.bytes[1] = "*" /\ m.bytes[3] = CR
  /\ m.bytes[2] \in DOMAIN Numeral /\ Numeral[m.bytes[2]] <= MaxBulks

BadCount(m) == ~m.ok /\ (Unended(m.bytes, 0) \/ (Ended(m.bytes, 0) /\ ~IsCount(m.bytes)))

LEMMA CountCases ==
  ASSUME IInv, NEW i \in 1 .. Len(session), Starred(session[i])
  PROVE  LET m == session[i]
         IN  \/ BadCount(m)
             \/ /\ GoodCount(m) /\ m.ok /\ m.argv = << >> /\ Len(m.bytes) = 4 /\ Numeral[m.bytes[2]] <= 0
             \/ GoodCount(m) /\ BulkShape(m, Numeral[m.bytes[2]])
<1> DEFINE m == session[i]
           b == m.bytes
<1>1. Len(b) \in Nat /\ Len(m.argv) \in Nat
  BY At
<1>2. CountShape(m) \/ \E n : BulkShape(m, n)
  BY ShapeOf
<1>3. CASE CountShape(m)
  <2>1. ASSUME m.ok PROVE GoodCount(m) /\ m.ok /\ m.argv = << >> /\ Len(b) = 4 /\ Numeral[b[2]] <= 0
    <3>1. /\ m.argv = << >> /\ Len(b) = 4 /\ b[3] = CR /\ b[1] = "*"
          /\ b[2] \in DOMAIN Numeral /\ Numeral[b[2]] <= 0
      BY <1>3, <2>1 DEF CountShape
    <3> DEFINE v == Numeral[b[2]]
    <3>2. v \in Int /\ v <= 0
      BY <3>1, NumeralBytes
    <3> HIDE DEF v
    <3>3. v <= MaxBulks
      BY <3>2, Limits
    <3>4. Len(b) >= 4
      BY <3>1
    <3> QED
      BY <2>1, <3>1, <3>3, <3>4 DEF GoodCount, v
  <2>2. ~m.ok => BadCount(m)
    BY <1>3 DEF CountShape, BadCount
  <2> QED
    BY <2>1, <2>2
<1>4. ASSUME NEW n, BulkShape(m, n) PROVE GoodCount(m) /\ BulkShape(m, Numeral[b[2]])
  <2> DEFINE q == Place(m.argv, Len(m.argv))
  <2>1. /\ n \in 1 .. MaxBulks /\ b[1] = "*" /\ b[3] = CR /\ b[2] \in DOMAIN Numeral /\ Numeral[b[2]] = n
        /\ Len(b) >= q
        /\ \A k \in 0 .. Len(m.argv) : Place(m.argv, k) \in Nat /\ 4 <= Place(m.argv, k)
    BY <1>4 DEF BulkShape
  <2>2. q \in Nat /\ 4 <= q
    BY <1>1, <2>1
  <2> HIDE DEF q
  <2>3. Len(b) >= 4
    BY <1>1, <2>1, <2>2
  <2>4. Numeral[b[2]] <= MaxBulks
    BY <2>1, Limits
  <2> QED
    BY <1>4, <2>1, <2>3, <2>4 DEF GoodCount
<1> QED
  BY <1>2, <1>3, <1>4

(* What is found of a count line. *)
LEMMA CountLine ==
  ASSUME IInv, Carried, NEW i \in 1 .. Len(session), AtStart(i), Starred(session[i]),
         Limited(session[i]) => Len(query) <= Slack(session[i]) + IoBufLen
  PROVE  LET m == session[i]
             f == Find(CR, 0)
         IN  /\ GoodCount(m) /\ ~WholeLine(f) => Len(query) <= 3 /\ Received < EndOf(session, i)
             /\ GoodCount(m) /\ WholeLine(f) =>
                  f = 3 /\ 4 <= Len(query) /\ query[2] = m.bytes[2] /\ CountValid
             /\ BadCount(m) /\ ~WholeLine(f) /\ ~(f = 0 /\ Len(query) > InlineMax) =>
                  Received < EndOf(session, i) /\ (Limited(m) => Len(query) <= InlineMax)
             /\ BadCount(m) /\ WholeLine(f) => ~CountValid
<1> DEFINE m == session[i]
           b == m.bytes
           L == Len(b)
           f == Find(CR, 0)
           e == EndOf(session, i - 1)
           z == 0
<1>1. /\ Len(query) \in Nat /\ L \in Nat /\ e \in Nat /\ EndOf(session, i) = e + L
      /\ Taken \in Nat /\ Received = Taken + Len(query) /\ b \in Stream
  BY Counts, At
<1>2. Taken = e
  BY DEF AtStart
<1>3. z \in Nat /\ z \in 0 .. Len(query) /\ Taken + z = e + z
  BY <1>1, <1>2
<1>4. ASSUME GoodCount(m)
      PROVE  /\ ~WholeLine(f) => Len(query) <= 3 /\ Received < EndOf(session, i)
             /\ WholeLine(f) => f = 3 /\ 4 <= Len(query) /\ query[2] = b[2] /\ CountValid
  <2>1. L >= 4 /\ b[1] = "*" /\ b[3] = CR /\ b[2] \in DOMAIN Numeral /\ Numeral[b[2]] <= MaxBulks
    BY <1>4 DEF GoodCount
  <2>2. z + 4 <= L /\ b[z + 1] # CR /\ b[z + 2] \in DOMAIN Numeral /\ b[z + 3] = CR
    <3>1. "*" # CR
      BY DEF CR
    <3>2. z + 1 = 1 /\ z + 2 = 2 /\ z + 3 = 3
      OBVIOUS
    <3>3. z + 4 <= L
      BY <1>1, <2>1
    <3> QED
      BY <2>1, <3>1, <3>2, <3>3
  <2> HIDE DEF z
  <2>3. /\ ~WholeLine(Find(CR, z)) => Len(query) - z <= 3
        /\ WholeLine(Find(CR, z)) =>
             Find(CR, z) = z + 3 /\ z + 4 <= Len(query) /\ query[z + 1] = b[z + 1] /\ query[z + 2] = b[z + 2]
    BY <1>3, <2>2, ShortLine
  <2>4. /\ ~WholeLine(f) => Len(query) <= 3
        /\ WholeLine(f) => f = 3 /\ 4 <= Len(query) /\ query[2] = b[2]
    <3> HIDE DEF b
    <3>1. z = 0 /\ Find(CR, z) = f
      BY DEF z
    <3> HIDE DEF f
    <3>2. z + 3 = 3 /\ z + 4 = 4 /\ z + 2 = 2 /\ Len(query) - z = Len(query)
      BY <1>1, <3>1
    <3> QED
      BY <2>3, <3>1, <3>2
  <2>5. Len(query) <= 3 => Received < EndOf(session, i)
    <3> HIDE DEF L, e
    <3> QED
      BY <1>1, <1>2, <2>1
  <2>6. WholeLine(f) => CountValid
    BY <2>1, <2>4 DEF CountValid, IsNumber, Number
  <2> QED
    BY <2>4, <2>5, <2>6
<1>5. CASE BadCount(m)
  <2>1. ~m.ok /\ (Unended(b, z) \/ (Ended(b, z) /\ ~IsCount(b)))
    BY <1>5 DEF BadCount
  <2> HIDE DEF z
  <2>2. CASE Unended(b, z)
    <3>1. Limited(m)
      BY <1>1, <1>3, <2>2, UnendedEndless DEF Limited
    <3>2. Len(query) <= InlineMax + IoBufLen
      BY <2>1, <3>1 DEF Slack
    <3>3. Len(query) - z <= InlineMax + IoBufLen
      BY <1>1, <3>2, Limits DEF z
    <3>4. Find(CR, z) = 0
      BY <1>3, <2>2, <3>3, FindsNoEnd
    <3>5. f = 0 /\ ~WholeLine(f)
      BY <3>4 DEF z, WholeLine
    <3>6. Len(query) <= InlineMax => Received < EndOf(session, i)
      <4>1. L >= z + (InlineMax + IoBufLen)
        BY <2>2 DEF Unended
      <4> HIDE DEF L, e
      <4> QED
        BY <1>1, <1>2, <4>1, Limits DEF z
    <3>7. ~(Len(query) > InlineMax) => Len(query) <= InlineMax
      BY <1>1, Limits
    <3> QED
      BY <1>4, <3>5, <3>6, <3>7
  <2>3. CASE Ended(b, z) /\ ~IsCount(b)
    <3>1. ~Limited(m)
      BY <1>1, <1>3, <2>1, <2>3, EndedNotEndless DEF Limited
    <3>2. /\ ~WholeLine(Find(CR, z)) => Received < EndOf(session, i)
          /\ WholeLine(Find(CR, z)) /\ Find(CR, z) = z + 3 =>
               Len(b) = z + 4 /\ query[z + 1] = b[z + 1] /\ query[z + 2] = b[z + 2]
      BY <1>3, <2>3, LongLine
    <3>3. /\ ~WholeLine(f) => Received < EndOf(session, i)
          /\ WholeLine(f) /\ f = 3 => L = 4 /\ query[2] = b[2]
      <4>1. z + 3 = 3 /\ z + 4 = 4 /\ z + 2 = 2 /\ Find(CR, z) = f
        BY DEF z
      <4> HIDE DEF b, f
      <4> QED
        BY <3>2, <4>1
    <3>4. ASSUME WholeLine(f), CountValid PROVE FALSE
      <4>1. f \in 0 .. Len(query) /\ f - 1 = 1 + 1 /\ query[f - 1] \in DOMAIN Numeral
            /\ Numeral[query[f - 1]] <= MaxBulks
        BY <3>4, Buffer DEF CountValid, IsNumber, Number
      <4>2. f = 3
        <5> HIDE DEF f
        <5> QED
          BY <1>1, <4>1
      <4>3. L = 4 /\ query[2] = b[2] /\ f - 1 = 2
        BY <3>3, <3>4, <4>2
      <4> HIDE DEF f
      <4>4. IsCount(b)
        BY <4>1, <4>3 DEF IsCount
      <4> QED
        BY <2>3, <4>4
    <3> QED
      BY <1>4, <3>1, <3>3, <3>4
  <2> QED
    BY <2>1, <2>2, <2>3
<1> QED
  BY <1>4, <1>5
LEMMA CountFollows ==
  ASSUME IInv, Follows, CountIncomplete \/ CountWrong \/ Count
  PROVE  Kept
<1>1. Parsing("multibulk") /\ multibulk = 0
  BY DEF CountIncomplete, CountWrong, Count
<1>2. /\ pc = "parse" /\ pos = 0 /\ ~closing /\ reqType' = "multibulk" /\ bulk = Unknown
      /\ UNCHANGED <<session, input, executed>>
  BY <1>1, ParsingFacts
<1>3. query # << >> /\ RequestType = "multibulk"
  BY <1>1 DEF Parsing
<1>4. PICK i \in 1 .. Len(session) + 1 : Progress(i)
  BY <1>2 DEF Follows
<1>5. AtStart(i) /\ Carried
  BY <1>1, <1>2, <1>4 DEF Progress, Follows
<1>6. i \in 1 .. Len(session) /\ TypeOf(session[i]) = "multibulk"
  BY <1>3, <1>5, AtMessage
<1>7. Starred(session[i])
  BY <1>6 DEF TypeOf
<1> DEFINE m == session[i]
           b == m.bytes
           e == EndOf(session, i - 1)
           f == Find(CR, 0)
           K == Slack(m)
<1>8. /\ Len(query) \in Nat /\ Taken \in Nat /\ Received \in Nat /\ Received = Taken + Len(query)
      /\ Len(b) \in Nat /\ e \in Nat /\ EndOf(session, i) = e + Len(b)
      /\ DOMAIN session = 1 .. Len(session) /\ Len(session) \in Nat
  BY <1>5, <1>6, Counts, At
<1>9. Taken = e /\ argv = << >>
  BY <1>5 DEF AtStart
<1>10. Received < EndOf(session, i) + IoBufLen /\ (Limited(m) => Len(query) <= K + IoBufLen)
  <2>1. Near(i)
    BY <1>4, <1>6, <1>8 DEF Progress
  <2>2. ~(bulk >= BigArg)
    BY <1>2, Limits DEF Unknown
  <2> QED
    BY <1>2, <2>1, <2>2 DEF Near
<1>11. BadCount(m) \/ GoodCount(m)
  BY <1>6, <1>7, CountCases
<1>12. /\ GoodCount(m) /\ ~WholeLine(f) => Len(query) <= 3 /\ Received < EndOf(session, i)
       /\ GoodCount(m) /\ WholeLine(f) => f = 3 /\ 4 <= Len(query) /\ query[2] = b[2] /\ CountValid
       /\ BadCount(m) /\ ~WholeLine(f) /\ ~(f = 0 /\ Len(query) > InlineMax) =>
            Received < EndOf(session, i) /\ (Limited(m) => Len(query) <= InlineMax)
       /\ BadCount(m) /\ WholeLine(f) => ~CountValid
  BY <1>5, <1>6, <1>7, <1>10, CountLine
<1>13. BadCount(m) => ~m.ok /\ K = InlineMax
  BY DEF BadCount, Slack
<1>14. i \in 1 .. Len(session) + 1 /\ 0 \in 0 .. Len(query) /\ e <= Received
  BY <1>6, <1>8, <1>9
<1>15. K \in Nat /\ K >= BigArg /\ K <= InlineMax
  BY SlackIs
<1> HIDE DEF f, K
<1>16. CASE CountIncomplete
  <2>1. /\ ~WholeLine(f)
        /\ IF f = 0 /\ Len(query) > InlineMax THEN ProtocolError(0) ELSE Incomplete(0)
    BY <1>16 DEF CountIncomplete, f
  <2>2. CASE f = 0 /\ Len(query) > InlineMax
    <3>1. ~m.ok
      <4>1. GoodCount(m) => ~(Len(query) > InlineMax)
        BY <1>8, <1>12, <2>1, Limits
      <4> QED
        BY <1>11, <1>13, <2>2, <4>1
    <3> QED
      BY <1>2, <1>4, <1>5, <1>6, <1>14, <2>1, <2>2, <3>1, FailStep
  <2>3. CASE ~(f = 0 /\ Len(query) > InlineMax)
    <3>1. Incomplete(0)
      BY <2>1, <2>3
    <3>2. Received < EndOf(session, i)
      BY <1>11, <1>12, <2>1, <2>3
    <3>3. Limited(m) => Len(query) <= K
      <4>1. GoodCount(m) => Len(query) <= K
        BY <1>8, <1>12, <1>15, <2>1, Limits
      <4> QED
        BY <1>11, <1>12, <1>13, <2>1, <2>3, <4>1
    <3>4. Len(query) - 0 = Len(query)
      BY <1>8
    <3>5. Taken' = Taken
      <4>1. Taken' = Taken + 0
        BY <1>2, <1>5, <1>14, <3>1, DropTaken DEF Incomplete
      <4> QED
        BY <1>8, <4>1
    <3>6. AtStart(i)'
      BY <1>2, <1>6, <1>9, <3>1, <3>5 DEF AtStart, Incomplete
    <3>7. Limited(m) => Len(query) - 0 <= Slack(m)
      BY <3>3, <3>4 DEF K
    <3>8. ~(multibulk > 0)
      BY <1>1
    <3> QED
      BY <1>2, <1>4, <1>5, <1>6, <1>14, <3>1, <3>2, <3>6, <3>7, <3>8, WaitStep
  <2> QED
    BY <2>2, <2>3
<1>17. CASE CountWrong
  <2>1. WholeLine(f) /\ ~CountValid /\ ProtocolError(0)
    BY <1>17 DEF CountWrong, f
  <2>2. ~m.ok
    BY <1>11, <1>12, <1>13, <2>1
  <2> QED
    BY <1>2, <1>4, <1>5, <1>6, <1>14, <2>1, <2>2, FailStep
<1>18. CASE Count
  <2> DEFINE n == Number(f - 1)
             at == f + 1
  <2>1. /\ WholeLine(f) /\ CountValid /\ UNCHANGED <<bulk, argv, closing, errors>>
        /\ IF n <= 0
           THEN query' = Drop(query, at) /\ pc' = "run" /\ UNCHANGED <<multibulk, pos>>
           ELSE multibulk' = n /\ pos' = at /\ pc' = "bulk" /\ UNCHANGED query
    BY <1>18 DEF Count, f
  <2>2. GoodCount(m) /\ f = 3 /\ 4 <= Len(query) /\ query[2] = b[2]
    BY <1>11, <1>12, <2>1
  <2>3. at = 4 /\ n = Numeral[b[2]]
    <3>1. f - 1 = 2
      BY <2>2
    <3> QED
      BY <2>2, <3>1 DEF Number
  <2>4. b[2] \in DOMAIN Numeral /\ n \in Int
    BY <2>2, <2>3, NumeralBytes DEF GoodCount
  <2>5. \/ m.ok /\ m.argv = << >> /\ Len(b) = 4 /\ n <= 0
        \/ BulkShape(m, n)
    <3>1. ~BadCount(m)
      BY <1>12, <2>1
    <3> HIDE DEF n
    <3> QED
      BY <1>6, <1>7, <2>3, <3>1, CountCases
  <2> HIDE DEF n, at
  <2>6. BulkShape(m, n) => n \in 1 .. MaxBulks /\ Place(m.argv, 0) = 4
    BY DEF BulkShape
  <2>7. CASE n <= 0
    <3>1. m.ok /\ m.argv = << >> /\ Len(b) = 4
      BY <2>4, <2>5, <2>6, <2>7
    <3>2. query' = Drop(query, 4) /\ pc' = "run" /\ multibulk' = 0 /\ pos' = pos
      BY <1>1, <2>1, <2>3, <2>7
    <3>3. 4 \in 0 .. Len(query)
      BY <1>8, <2>2
    <3>4. Carried' /\ Taken' = Taken + 4 /\ Received' = Received /\ Len(query') = Len(query) - 4
      BY <1>2, <1>5, <3>2, <3>3, DropTaken
    <3>5. ToRun(i)'
      BY <1>2, <1>6, <1>8, <1>9, <2>1, <3>1, <3>4 DEF ToRun
    <3>6. Near(i)'
      <4>1. Limited(m) => Len(query') <= K + IoBufLen
        BY <1>8, <1>10, <1>15, <2>2, <3>4, Limits, SMTT(20)
      <4> QED
        BY <1>2, <1>10, <3>2, <3>4, <4>1 DEF Near, K
    <3>7. Progress(i)'
      BY <1>2, <1>4, <3>2, <3>5, <3>6 DEF Progress
    <3> QED
      BY <1>2, <1>14, <2>1, <3>4, <3>7 DEF Kept
  <2>8. CASE ~(n <= 0)
    <3>1. BulkShape(m, n) /\ n \in Nat /\ Place(m.argv, 0) = 4
      BY <2>4, <2>5, <2>6, <2>8, Limits
    <3>2. multibulk' = n /\ pos' = 4 /\ pc' = "bulk" /\ query' = query
      BY <2>1, <2>3, <2>8
    <3>3. Carried' /\ Taken' = Taken /\ Received' = Received
      BY <1>2, <1>5, <3>2, SameTaken
    <3>4. InBulks(i)'
      <4>1. argv' = << >> /\ Len(argv') = 0 /\ bulk' = Unknown /\ session' = session
        BY <1>2, <1>9, <2>1
      <4>2. SubSeq(m.argv, 1, 0) = << >>
        BY SubSeqEmpty
      <4>3. n + 0 = n /\ 0 <= Len(m.argv)
        <5>1. Len(m.argv) \in Nat
          BY <1>6, At
        <5> QED
          BY <3>1, <5>1
      <4>4. Taken' + pos' = e + Place(m.argv, 0)
        BY <1>9, <3>1, <3>2, <3>3
      <4> QED
        BY <1>2, <1>6, <3>1, <3>2, <4>1, <4>2, <4>3, <4>4 DEF InBulks
    <3>5. Near(i)'
      BY <1>2, <1>10, <3>2, <3>3 DEF Near, K
    <3>6. Progress(i)'
      BY <1>2, <1>4, <3>2, <3>4, <3>5 DEF Progress
    <3> QED
      BY <1>2, <1>14, <2>1, <3>3, <3>6 DEF Kept
  <2> QED
    BY <2>7, <2>8
<1> QED
  BY <1>16, <1>17, <1>18

LEMMA ResumeFollows ==
  ASSUME IInv, Follows, Resume
  PROVE  Kept
<1>1. Parsing("multibulk") /\ multibulk > 0 /\ pc' = "bulk" /\ pos' = 0
      /\ UNCHANGED <<query, multibulk, bulk, argv, closing, errors>>
  BY DEF Resume
<1>2. /\ pc = "parse" /\ pos = 0 /\ ~closing /\ reqType' = "multibulk"
      /\ UNCHANGED <<session, input, executed>>
  BY <1>1, ParsingFacts
<1>3. PICK i \in 1 .. Len(session) + 1 : Progress(i)
  BY <1>2 DEF Follows
<1>4. Carried' /\ Taken' = Taken /\ Received' = Received
  BY <1>1, <1>2, SameTaken DEF Follows
<1>5. InBulks(i)'
  <2>1. InBulks(i) /\ Taken' + pos' = Taken + pos
    BY <1>1, <1>2, <1>3, <1>4 DEF Progress
  <2> QED
    BY <1>1, <1>2, <2>1, SameBulks
<1>6. Near(i) => Near(i)'
  BY <1>1, <1>2, <1>4 DEF Near
<1>7. Progress(i)'
  BY <1>1, <1>2, <1>3, <1>5, <1>6 DEF Progress
<1> QED
  BY <1>1, <1>2, <1>4, <1>7 DEF Kept
(* What is found of a length line. *)
LEMMA LengthLine ==
  ASSUME IInv, Carried, NEW i \in 1 .. Len(session), InBulks(i), multibulk > 0, bulk = Unknown,
         Limited(session[i]) => Len(query) <= Slack(session[i]) + IoBufLen
  PROVE  LET m == session[i]
             k == Len(argv)
             f == Find(CR, pos)
         IN  /\ k < Len(m.argv) /\ ~WholeLine(f) => Len(query) - pos <= 3 /\ Received < EndOf(session, i)
             /\ k < Len(m.argv) /\ WholeLine(f) =>
                  /\ f = pos + 3 /\ pos + 4 <= Len(query) /\ LengthValid
                  /\ Number(f - 1) = Len(m.argv[k + 1])
             /\ k = Len(m.argv) /\ ~WholeLine(f) /\ ~(f = 0 /\ Len(query) > InlineMax) =>
                  Received < EndOf(session, i) /\ (Limited(m) => Len(query) <= InlineMax)
             /\ k = Len(m.argv) /\ WholeLine(f) => ~LengthValid
<1> DEFINE m == session[i]
           b == m.bytes
           L == Len(b)
           f == Find(CR, pos)
           e == EndOf(session, i - 1)
           k == Len(argv)
           N == Len(m.argv)
           o == Place(m.argv, k)
           x == m.argv[k + 1]
<1>1. /\ Len(query) \in Nat /\ L \in Nat /\ e \in Nat /\ EndOf(session, i) = e + L
      /\ Taken \in Nat /\ Received = Taken + Len(query) /\ b \in Stream
  BY Counts, At
<1>2. Taken + pos = e + o
  BY DEF InBulks
<1>3. /\ k \in 0 .. N /\ o \in Nat
      /\ k = N => ~m.ok /\ (Unended(b, o) \/ (Ended(b, o) /\ ~IsLength(b, o)))
      /\ k < N => Len(x) \in 0 .. MaxBulkLen /\ o + (6 + Len(x)) <= L /\ Framed(b, o, x)
  BY BulksLeft
<1>4. pos \in 0 .. Len(query) /\ pos \in Nat
  BY <1>1 DEF IInv, TypeOK
<1>5. ASSUME k < N
      PROVE  /\ ~WholeLine(f) => Len(query) - pos <= 3 /\ Received < EndOf(session, i)
             /\ WholeLine(f) => /\ f = pos + 3 /\ pos + 4 <= Len(query) /\ LengthValid
                                /\ Number(f - 1) = Len(x)
  <2>1. /\ b[o + 1] = "$" /\ b[o + 2] \in DOMAIN Numeral /\ Numeral[b[o + 2]] = Len(x) /\ b[o + 3] = CR
    BY <1>3, <1>5 DEF Framed
  <2>2. Len(x) \in Nat /\ Len(x) \in 0 .. MaxBulkLen /\ o + (6 + Len(x)) <= L
    BY <1>3, <1>5
  <2>3. o + 4 <= L
    <3> HIDE DEF o, x, L
    <3> QED
      BY <1>1, <1>3, <2>2
  <2>4. b[o + 1] # CR
    BY <2>1 DEF CR
  <2> HIDE DEF o
  <2>5. /\ ~WholeLine(f) => Len(query) - pos <= 3
        /\ WholeLine(f) =>
             f = pos + 3 /\ pos + 4 <= Len(query) /\ query[pos + 1] = b[o + 1] /\ query[pos + 2] = b[o + 2]
    BY <1>2, <1>3, <1>4, <2>1, <2>3, <2>4, ShortLine
  <2>6. Len(query) - pos <= 3 => Received < EndOf(session, i)
    <3> HIDE DEF e, L
    <3>1. ASSUME Len(query) - pos <= 3 PROVE Taken + Len(query) < e + L
      <4>1. Taken + Len(query) <= (Taken + pos) + 3
        BY <1>1, <1>4, <3>1
      <4> QED
        BY <1>1, <1>2, <1>3, <1>4, <2>3, <4>1
    <3> QED
      BY <1>1, <3>1
  <2> HIDE DEF f
  <2>7. ASSUME WholeLine(f) PROVE LengthValid /\ Number(f - 1) = Len(x)
    <3>1. f = pos + 3 /\ f - 1 = pos + 2 /\ f - 1 = (pos + 1) + 1
      BY <1>4, <2>5, <2>7
    <3>2. query[pos + 1] = "$" /\ query[f - 1] = b[o + 2]
      BY <2>1, <2>5, <2>7, <3>1
    <3>3. Number(f - 1) = Len(x)
      BY <2>1, <3>2 DEF Number
    <3>4. IsNumber(pos + 1, f - 1)
      BY <2>1, <3>1, <3>2 DEF IsNumber
    <3>5. LengthValid
      BY <2>2, <3>2, <3>3, <3>4 DEF LengthValid, f
    <3> QED
      BY <3>3, <3>5
  <2> QED
    BY <2>5, <2>6, <2>7
<1>6. CASE k = N
  <2>1. ~m.ok /\ (Unended(b, o) \/ (Ended(b, o) /\ ~IsLength(b, o)))
    BY <1>3, <1>6
  <2>2. ~(k < N)
    <3> HIDE DEF k, N
    <3> QED
      BY <1>3, <1>6
  <2> HIDE DEF o
  <2>3. CASE Unended(b, o)
    <3>1. Starred(m)
      BY DEF InBulks, BulkShape, Starred
    <3>2. Limited(m)
      BY <1>1, <1>3, <2>3, <3>1, UnendedEndless DEF Limited
    <3>3. Len(query) <= InlineMax + IoBufLen
      BY <2>1, <3>2 DEF Slack
    <3>4. Len(query) - pos <= InlineMax + IoBufLen
      BY <1>1, <1>4, <3>3, Limits
    <3>5. f = 0 /\ ~WholeLine(f)
      <4>1. f = 0
        BY <1>2, <1>3, <1>4, <2>3, <3>4, FindsNoEnd
      <4> QED
        BY <4>1 DEF WholeLine
    <3>6. Len(query) <= InlineMax => Received < EndOf(session, i)
      <4>1. L >= o + (InlineMax + IoBufLen)
        BY <2>3 DEF Unended
      <4> HIDE DEF L, e
      <4>2. ASSUME Len(query) <= InlineMax PROVE Taken + Len(query) < e + L
        <5>1. Taken + Len(query) <= (Taken + pos) + InlineMax
          BY <1>1, <1>4, <4>2, Limits
        <5>2. (Taken + pos) + InlineMax < e + (o + (InlineMax + IoBufLen))
          BY <1>1, <1>2, <1>3, Limits
        <5> QED
          BY <1>1, <1>3, <1>4, <4>1, <5>1, <5>2, Limits
      <4> QED
        BY <1>1, <4>2
    <3>7. ~(Len(query) > InlineMax) => Len(query) <= InlineMax
      BY <1>1, Limits
    <3> QED
      BY <2>2, <3>5, <3>6, <3>7
  <2>4. CASE Ended(b, o) /\ ~IsLength(b, o)
    <3>1. ~Limited(m)
      BY <1>1, <1>3, <2>1, <2>4, EndedNotEndless DEF Limited
    <3>2. /\ ~WholeLine(f) => Received < EndOf(session, i)
          /\ WholeLine(f) /\ f = pos + 3 =>
               L = o + 4 /\ query[pos + 1] = b[o + 1] /\ query[pos + 2] = b[o + 2]
      BY <1>2, <1>3, <1>4, <2>4, LongLine
    <3>3. f = 0 \/ f \in pos + 1 .. Len(query)
      BY Buffer
    <3>4. ASSUME WholeLine(f), LengthValid PROVE FALSE
      <4>1. /\ query[pos + 1] = "$" /\ f - 1 = (pos + 1) + 1 /\ query[f - 1] \in DOMAIN Numeral
            /\ Numeral[query[f - 1]] \in 0 .. MaxBulkLen
        BY <3>4 DEF LengthValid, IsNumber, Number
      <4> HIDE DEF f
      <4>2. f = pos + 3 /\ f - 1 = pos + 2
        BY <1>1, <1>4, <3>3, <4>1
      <4>3. L = o + 4 /\ b[o + 1] = "$" /\ b[o + 2] = query[f - 1]
        BY <3>2, <3>4, <4>1, <4>2
      <4>4. IsLength(b, o)
        BY <4>1, <4>3 DEF IsLength
      <4> QED
        BY <2>4, <4>4
    <3> QED
      BY <2>2, <3>1, <3>2, <3>4
  <2> QED
    BY <2>1, <2>3, <2>4
<1>7. CASE k < N
  <2>1. k # N
    <3> HIDE DEF k, N
    <3> QED
      BY <1>3, <1>7
  <2> QED
    BY <1>5, <1>7, <2>1
<1>8. N \in Nat
  BY At
<1>9. k = N \/ k < N
  <2> HIDE DEF k, N
  <2> QED
    BY <1>3, <1>8
<1> QED
  BY <1>6, <1>7, <1>9
LEMMA LengthFollows ==
  ASSUME IInv, Follows, LengthIncomplete \/ LengthWrong \/ Length
  PROVE  Kept
<1>1. InBulk /\ bulk = Unknown
  BY DEF LengthIncomplete, LengthWrong, Length
<1>2. /\ pc = "bulk" /\ reqType' = "multibulk" /\ multibulk > 0 /\ ~closing
      /\ UNCHANGED <<session, input, executed>>
  BY <1>1, InBulkFacts
<1>3. PICK i \in 1 .. Len(session) + 1 : Progress(i)
  BY <1>2 DEF Follows
<1>4. InBulks(i) /\ Carried
  BY <1>2, <1>3 DEF Progress, Follows
<1> DEFINE m == session[i]
           e == EndOf(session, i - 1)
           k == Len(argv)
           N == Len(m.argv)
           p == Place(m.argv, k)
           f == Find(CR, pos)
           K == Slack(m)
<1>5. i \in 1 .. Len(session) /\ Len(session) \in Nat
  <2>1. i <= Len(session)
    BY <1>4 DEF InBulks
  <2>2. Len(session) \in Nat
    BY <1>4, Counts, SessionType
  <2> QED
    BY <2>1, <2>2
<1>6. /\ Len(query) \in Nat /\ Taken \in Nat /\ Received \in Nat /\ Received = Taken + Len(query)
      /\ e \in Nat /\ N \in Nat /\ m.ok \in BOOLEAN
  BY <1>4, <1>5, Counts, At
<1>7. Taken + pos = e + p
  BY <1>1, <1>4 DEF InBulks
<1>8. /\ k \in 0 .. N /\ p \in Nat
      /\ k = N => ~m.ok
  BY <1>2, <1>4, <1>5, BulksLeft
<1>9. pos \in 0 .. Len(query) /\ pos \in Nat
  BY <1>6 DEF IInv, TypeOK
<1>10. e <= Received
  <2> HIDE DEF e, p
  <2> QED
    BY <1>6, <1>7, <1>8, <1>9
<1>11. Received < EndOf(session, i) + IoBufLen /\ (Limited(m) => Len(query) <= K + IoBufLen)
  <2>1. Near(i)
    BY <1>3, <1>5 DEF Progress
  <2>2. ~(bulk >= BigArg)
    BY <1>1, Limits DEF Unknown
  <2> QED
    BY <1>2, <2>1, <2>2 DEF Near
<1>12. k = N \/ k < N
  <2> HIDE DEF k, N
  <2> QED
    BY <1>6, <1>8
<1>13. /\ k < N /\ ~WholeLine(f) => Len(query) - pos <= 3 /\ Received < EndOf(session, i)
       /\ k < N /\ WholeLine(f) =>
            f = pos + 3 /\ pos + 4 <= Len(query) /\ LengthValid /\ Number(f - 1) = Len(m.argv[k + 1])
       /\ k = N /\ ~WholeLine(f) /\ ~(f = 0 /\ Len(query) > InlineMax) =>
            Received < EndOf(session, i) /\ (Limited(m) => Len(query) <= InlineMax)
       /\ k = N /\ WholeLine(f) => ~LengthValid
  BY <1>1, <1>2, <1>4, <1>5, <1>11, LengthLine
<1>14. K \in Nat /\ K >= BigArg /\ K <= InlineMax /\ (m.ok => K = BigArg) /\ (~m.ok => K = InlineMax)
  BY SlackIs DEF Slack
<1>15. i \in 1 .. Len(session) + 1
  BY <1>5
<1>16. Starred(m)
  BY <1>4 DEF InBulks, BulkShape, Starred
<1> HIDE DEF f, K, k, N
<1>17. CASE LengthIncomplete
  <2>1. /\ ~WholeLine(f)
        /\ IF f = 0 /\ Len(query) > InlineMax THEN ProtocolError(0) ELSE Incomplete(pos)
    BY <1>17 DEF LengthIncomplete, f
  <2>2. CASE f = 0 /\ Len(query) > InlineMax
    <3>1. ~m.ok
      <4>1. m.ok => Len(query) <= BigArg + IoBufLen
        BY <1>11, <1>14, <1>16 DEF Limited
      <4>2. m.ok => ~(Len(query) > InlineMax)
        BY <1>6, <4>1, Limits
      <4> QED
        BY <2>2, <4>2
    <3>2. 0 \in 0 .. Len(query) /\ ProtocolError(0)
      BY <1>6, <2>1, <2>2
    <3> QED
      BY <1>2, <1>3, <1>4, <1>5, <1>10, <3>1, <3>2, FailStep
  <2>3. CASE ~(f = 0 /\ Len(query) > InlineMax)
    <3>1. Incomplete(pos)
      BY <2>1, <2>3
    <3>2. Received < EndOf(session, i)
      BY <1>12, <1>13, <2>1, <2>3
    <3>3. Limited(m) => Len(query) - pos <= K
      <4>1. k < N => Len(query) - pos <= K
        BY <1>6, <1>9, <1>13, <1>14, <2>1, Limits
      <4>2. k = N => (Limited(m) => Len(query) <= K)
        BY <1>8, <1>13, <1>14, <2>1, <2>3 DEF k, N
      <4>3. Len(query) <= K => Len(query) - pos <= K
        BY <1>6, <1>9, <1>14
      <4> QED
        BY <1>12, <4>1, <4>2, <4>3
    <3>4. Taken' = Taken + pos /\ pos' = 0
      BY <1>2, <1>4, <1>9, <3>1, DropTaken DEF Incomplete
    <3>5. InBulks(i)'
      <4>1. Taken' + pos' = Taken + pos
        BY <1>6, <1>9, <3>4
      <4> QED
        BY <1>2, <1>4, <3>1, <4>1, SameBulks DEF Incomplete
    <3>6. ~(multibulk = 0)
      BY <1>2
    <3>7. Limited(m) => Len(query) - pos <= Slack(m)
      BY <3>3 DEF K
    <3> QED
      BY <1>2, <1>3, <1>4, <1>5, <1>9, <3>1, <3>2, <3>5, <3>6, <3>7, WaitStep
  <2> QED
    BY <2>2, <2>3
<1>18. CASE LengthWrong
  <2>1. WholeLine(f) /\ ~LengthValid /\ ProtocolError(pos)
    BY <1>18 DEF LengthWrong, f
  <2>2. ~m.ok
    BY <1>8, <1>12, <1>13, <2>1 DEF k, N
  <2> QED
    BY <1>2, <1>3, <1>4, <1>5, <1>9, <1>10, <2>1, <2>2, FailStep
<1>19. CASE Length
  <2> DEFINE at == f + 1
             x == Len(m.argv[k + 1])
  <2>1. /\ WholeLine(f) /\ LengthValid /\ bulk' = Number(f - 1)
        /\ IF bulk' >= BigArg
           THEN query' = Drop(query, at) /\ pos' = 0
           ELSE pos' = at /\ query' = query
        /\ UNCHANGED <<multibulk, argv, closing, errors, pc>>
    BY <1>19 DEF Length, f
  <2>2. k < N /\ f = pos + 3 /\ pos + 4 <= Len(query) /\ bulk' = x
    BY <1>12, <1>13, <2>1
  <2>3. x \in 0 .. MaxBulkLen
    BY <1>2, <1>4, <1>5, <2>2, BulksLeft DEF k, N
  <2>4. bulk' # Unknown
    <3> HIDE DEF x
    <3> QED
      BY <2>2, <2>3, Limits DEF Unknown
  <2>5. at = pos + 4 /\ at \in 0 .. Len(query)
    BY <1>6, <1>9, <2>2
  <2> HIDE DEF at
  <2>6. /\ Carried' /\ Received' = Received /\ Len(query') <= Len(query)
        /\ Taken' + pos' = (e + p) + 4
    <3>1. (Taken + pos) + 4 = Taken + at
      BY <1>6, <1>9, <2>5
    <3>2. CASE bulk' >= BigArg
      <4>1. Carried' /\ Received' = Received /\ Taken' = Taken + at /\ Len(query') = Len(query) - at /\ pos' = 0
        BY <1>2, <1>4, <2>1, <2>5, <3>2, DropTaken
      <4>2. Len(query') <= Len(query) /\ Taken' + pos' = Taken + at
        BY <1>6, <2>5, <4>1, SMTT(20)
      <4> QED
        BY <1>7, <3>1, <4>1, <4>2
    <3>3. CASE ~(bulk' >= BigArg)
      <4>1. query' = query /\ pos' = at
        BY <2>1, <3>3
      <4>2. Carried' /\ Received' = Received /\ Taken' = Taken
        BY <1>2, <1>4, <4>1, SameTaken
      <4> QED
        BY <1>6, <1>7, <3>1, <4>1, <4>2
    <3> QED
      BY <3>2, <3>3
  <2>7. InBulks(i)'
    <3>1. /\ reqType' = "multibulk" /\ multibulk' = multibulk /\ argv' = argv /\ session' = session
      BY <1>2, <2>1
    <3>2. /\ i <= Len(session) /\ BulkShape(m, multibulk + k) /\ k <= N /\ argv = SubSeq(m.argv, 1, k)
      BY <1>4 DEF InBulks, k, N
    <3>3. /\ k < N /\ bulk' = Len(m.argv[k + 1]) /\ Taken' + pos' = (e + p) + 4
      BY <2>2, <2>6
    <3> QED
      BY <2>4, <3>1, <3>2, <3>3 DEF InBulks, k, N
  <2>8. Near(i)'
    <3>1. Limited(m) => Len(query') <= K + IoBufLen
      <4>1. Len(query') \in Nat
        <5>1. query' \in Stream
          BY <1>19, LengthStep DEF IInv, Between
        <5> QED
          BY <5>1, StreamChars
      <4> QED
        BY <1>6, <1>11, <1>14, <2>6, <4>1, Limits
    <3> QED
      BY <1>2, <1>11, <2>1, <2>6, <3>1 DEF Near, K
  <2>9. Progress(i)'
    BY <1>2, <1>3, <2>1, <2>7, <2>8 DEF Progress
  <2> QED
    BY <1>2, <1>15, <2>1, <2>6, <2>9 DEF Kept
<1> QED
  BY <1>17, <1>18, <1>19
(* The bytes behind a length line are the argument. *)
LEMMA ArgumentIs ==
  ASSUME IInv, Carried, NEW i \in 1 .. Len(session), NEW x \in Stream, NEW o \in Nat,
         Stands(x, session[i].bytes, o), o + Len(x) <= Len(session[i].bytes),
         Taken + pos = EndOf(session, i - 1) + o, pos + Len(x) <= Len(query)
  PROVE  SubSeq(query, pos + 1, pos + Len(x)) = x
<1> DEFINE b == session[i].bytes
           L == Len(b)
           l == Len(x)
           s == SubSeq(query, pos + 1, pos + l)
           a == pos + 1
           z == pos + l
<1>1. Len(query) \in Nat /\ L \in Nat /\ l \in Nat /\ query \in Seq(STRING) /\ x \in Seq(STRING)
  BY Counts, At, StreamChars DEF IInv, Between, Stream
<1>2. pos \in Nat /\ z <= Len(query) /\ o + l <= L
  BY <1>1 DEF IInv, TypeOK
<1> HIDE DEF l, L
<1>3. a \in Nat /\ a >= 1 /\ z \in Nat /\ z <= Len(query) /\ z - a + 1 = l
  BY <1>1, <1>2
<1>4. ASSUME NEW c \in 1 .. l PROVE query[pos + c] = x[c] /\ a + c - 1 = pos + c
  <2> DEFINE j == pos + c
  <2>1. c \in Nat /\ 1 <= c /\ c <= l
    BY <1>1
  <2>2. j - pos = c /\ a + c - 1 = pos + c
    BY <1>2, <2>1
  <2>3. j \in 1 .. Len(query) /\ pos < j
    BY <1>1, <1>2, <2>1
  <2>4. c + o <= L
    BY <1>1, <1>2, <2>1
  <2>5. b[o + c] = x[c]
    BY DEF Stands, l
  <2> HIDE DEF j
  <2>6. query[j] = session[i].bytes[o + (j - pos)]
    BY <1>2, <2>2, <2>3, <2>4, View DEF L
  <2> QED
    BY <2>2, <2>5, <2>6 DEF j
<1> HIDE DEF a, z
<1>5. \A j \in a .. z : query[j] \in STRING
  BY <1>1, <1>3, ElementOfSeq
<1> DEFINE t == SubSeq(query, a, z)
<1>6. t \in Seq(STRING) /\ Len(t) = (IF a <= z THEN z - a + 1 ELSE 0)
      /\ \A j \in 1 .. z - a + 1 : t[j] = query[a + j - 1]
  BY <1>3, <1>5, SubSeqProperties, SMTT(20)
<1> HIDE DEF t
<1>7. Len(t) = l
  BY <1>1, <1>3, <1>6
<1>8. ASSUME NEW c \in 1 .. l PROVE t[c] = x[c]
  BY <1>3, <1>4, <1>6
<1>9. t = x
  BY <1>1, <1>6, <1>7, <1>8, SeqEqual DEF l
<1> QED
  BY <1>9 DEF t, a, z, l

(* An argument is taken with its line end, from the query buffer or with it. *)
LEMMA ArgumentTaken ==
  ASSUME IInv, Carried, Argument
  PROVE  /\ Carried' /\ Received' = Received
         /\ Taken' + pos' = (Taken + pos) + (bulk + 2)
         /\ Len(query') \in Nat /\ Len(query') <= Len(query)
         /\ bulk >= BigArg /\ pos = 0 /\ Len(query) <= bulk + 2 => Len(query') = 0
         /\ multibulk' = 0 => pos' = 0
<1> DEFINE whole == pos = 0 /\ bulk >= BigArg /\ Len(query) = bulk + 2
           rest  == IF whole THEN << >> ELSE query
           at    == IF whole THEN 0 ELSE pos + bulk + 2
           n == pos + bulk + 2
<1>1. /\ Len(query) \in Nat /\ Taken \in Nat /\ pos \in Nat /\ bulk \in Nat /\ query \in Seq(STRING)
  BY Counts, Limits DEF Argument, IInv, TypeOK, Between, Stream
<1>2. /\ Len(query) - pos >= bulk + 2 /\ session' = session /\ input' = input
      /\ IF multibulk' = 0
         THEN query' = Drop(rest, at) /\ pos' = 0
         ELSE query' = rest /\ pos' = at
  BY DEF Argument, HaveArgument, InBulk
<1>3. n \in 0 .. Len(query) /\ Taken + n = (Taken + pos) + (bulk + 2) /\ n \in Nat
  BY <1>1, <1>2
<1>4. CASE whole
  <2>1. n = Len(query) /\ rest = << >> /\ at = 0 /\ pos = 0
    BY <1>1, <1>4
  <2> DEFINE d == Drop(query, n)
  <2>2. d = << >>
    <3>1. d \in Seq(STRING) /\ Len(d) = Len(query) - n
      BY <1>1, <1>3, Dropped DEF Stream
    <3>2. Len(d) = 0
      BY <1>1, <2>1, <3>1
    <3> HIDE DEF d
    <3> QED
      BY <3>1, <3>2, EmptySeq
  <2>3. Drop(<< >>, 0) = << >>
    <3>1. Len(<< >>) = 0 /\ 0 + 1 = 1
      OBVIOUS
    <3>2. SubSeq(<< >>, 1, 0) = << >>
      BY SubSeqEmpty
    <3> QED
      BY <3>1, <3>2 DEF Drop
  <2>4. query' = Drop(query, n) /\ pos' = 0
    <3> HIDE DEF rest, at, d
    <3> QED
      BY <1>2, <2>1, <2>2, <2>3 DEF d
  <2> HIDE DEF n
  <2>5. Carried' /\ Received' = Received /\ Taken' = Taken + n /\ Len(query') = Len(query) - n
    BY <1>2, <1>3, <2>4, DropTaken
  <2>6. Taken' + pos' = Taken + n /\ Len(query') = 0 /\ 0 <= Len(query)
    BY <1>1, <1>3, <2>1, <2>4, <2>5
  <2> QED
    BY <1>3, <2>4, <2>5, <2>6
<1>5. CASE ~whole
  <2>1. rest = query /\ at = n
    BY <1>5
  <2>2. ~(bulk >= BigArg /\ pos = 0 /\ Len(query) <= bulk + 2)
    BY <1>1, <1>2, <1>5
  <2> HIDE DEF whole, rest, at, n
  <2>3. CASE multibulk' = 0
    <3>1. query' = Drop(query, n) /\ pos' = 0
      BY <1>2, <2>1, <2>3
    <3>2. Carried' /\ Received' = Received /\ Taken' = Taken + n /\ Len(query') = Len(query) - n
          /\ Len(query') \in Nat
      BY <1>2, <1>3, <3>1, DropTaken
    <3>3. Taken' + pos' = Taken + n /\ Len(query') <= Len(query)
      BY <1>1, <1>3, <3>1, <3>2
    <3> QED
      BY <1>3, <2>2, <3>1, <3>2, <3>3
  <2>4. CASE multibulk' # 0
    <3>1. query' = query /\ pos' = n
      BY <1>2, <2>1, <2>4
    <3>2. Carried' /\ Received' = Received /\ Taken' = Taken
      BY <1>2, <3>1, SameTaken
    <3> QED
      BY <1>1, <1>3, <2>2, <2>4, <3>1, <3>2
  <2> QED
    BY <2>3, <2>4
<1> QED
  BY <1>4, <1>5

LEMMA OneMore ==
  ASSUME NEW S, NEW s \in Seq(S), NEW k \in Nat, k < Len(s)
  PROVE  Append(SubSeq(s, 1, k), s[k + 1]) = SubSeq(s, 1, k + 1)
<1> DEFINE t == SubSeq(s, 1, k)
           u == SubSeq(s, 1, k + 1)
           x == s[k + 1]
           c == k + 1
<1>1. Len(s) \in Nat /\ c \in Nat /\ c <= Len(s) /\ c \in 1 .. Len(s)
  <2>1. Len(s) \in Nat
    BY LenProperties
  <2> QED
    BY <2>1
<1>2. \A j \in 1 .. k : s[j] \in S
  BY <1>1, ElementOfSeq
<1>3. t \in Seq(S) /\ Len(t) = k /\ \A j \in 1 .. k : t[j] = s[j]
  BY <1>2, SubSeqProperties
<1>4. \A j \in 1 .. c : s[j] \in S
  BY <1>1, ElementOfSeq
<1>5. x \in S
  BY <1>1, ElementOfSeq
<1> HIDE DEF t, c
<1>6. u \in Seq(S) /\ Len(u) = c /\ \A j \in 1 .. c : u[j] = s[j]
  <2>1. SubSeq(s, 1, c) \in Seq(S) /\ Len(SubSeq(s, 1, c)) = c /\ \A j \in 1 .. c : SubSeq(s, 1, c)[j] = s[j]
    BY <1>1, <1>4, SubSeqProperties
  <2> QED
    BY <2>1 DEF c
<1> HIDE DEF u
<1> DEFINE v == Append(t, x)
<1>7. v \in Seq(S) /\ Len(v) = c /\ v[c] = x /\ \A j \in 1 .. k : v[j] = t[j]
  <2> HIDE DEF x
  <2>1. v \in Seq(S) /\ Len(v) = Len(t) + 1 /\ v[Len(t) + 1] = x /\ \A j \in 1 .. Len(t) : v[j] = t[j]
    BY <1>3, <1>5, AppendProperties
  <2> HIDE DEF v
  <2> QED
    BY <1>3, <2>1 DEF c
<1> HIDE DEF v
<1>8. ASSUME NEW j \in 1 .. c PROVE v[j] = u[j]
  <2>1. CASE j = c
    BY <1>1, <1>6, <1>7, <2>1 DEF c
  <2>2. CASE j # c
    <3>1. j \in 1 .. k
      BY <1>1, <2>2 DEF c
    <3> QED
      BY <1>3, <1>6, <1>7, <3>1
  <2> QED
    BY <2>1, <2>2
<1>9. v = u
  BY <1>6, <1>7, <1>8, SeqEqual
<1> QED
  BY <1>9 DEF v, u, t, x

LEMMA ArgumentFollows ==
  ASSUME IInv, Follows, ArgumentIncomplete \/ Argument
  PROVE  Kept
<1>1. InBulk /\ bulk # Unknown
  BY DEF ArgumentIncomplete, Argument
<1>2. /\ pc = "bulk" /\ reqType' = "multibulk" /\ multibulk > 0 /\ ~closing
      /\ UNCHANGED <<session, input, executed>>
  BY <1>1, InBulkFacts
<1>3. PICK i \in 1 .. Len(session) + 1 : Progress(i)
  BY <1>2 DEF Follows
<1>4. InBulks(i) /\ Carried
  BY <1>2, <1>3 DEF Progress, Follows
<1> DEFINE m == session[i]
           b == m.bytes
           L == Len(b)
           e == EndOf(session, i - 1)
           k == Len(argv)
           c == k + 1
           N == Len(m.argv)
           p == Place(m.argv, k)
           x == m.argv[k + 1]
           K == Slack(m)
<1>5. i \in 1 .. Len(session) /\ Len(session) \in Nat
  <2>1. i <= Len(session)
    BY <1>4 DEF InBulks
  <2>2. Len(session) \in Nat
    BY <1>4, Counts, SessionType
  <2> QED
    BY <2>1, <2>2
<1>6. /\ Len(query) \in Nat /\ Taken \in Nat /\ Received \in Nat /\ Received = Taken + Len(query)
      /\ e \in Nat /\ N \in Nat /\ m.ok \in BOOLEAN /\ L \in Nat /\ EndOf(session, i) = e + L
      /\ m.argv \in Seq(Stream)
  BY <1>4, <1>5, Counts, At
<1>7. k < N /\ bulk = Len(x) /\ Taken + pos = (e + p) + 4
      /\ BulkShape(m, multibulk + k) /\ argv = SubSeq(m.argv, 1, k)
  BY <1>1, <1>4 DEF InBulks
<1>8. /\ k \in 0 .. N /\ p \in Nat /\ c \in 1 .. N /\ Len(x) \in 0 .. MaxBulkLen
      /\ Place(m.argv, c) = p + (6 + Len(x)) /\ p + (6 + Len(x)) <= L /\ Framed(b, p, x)
  BY <1>2, <1>4, <1>5, <1>7, BulksLeft
<1>9. pos \in 0 .. Len(query) /\ pos \in Nat /\ bulk \in Nat /\ multibulk \in Nat /\ k \in Nat
  <2>1. pos \in 0 .. Len(query) /\ pos \in Nat /\ multibulk \in Nat
    BY <1>6, Limits DEF IInv, TypeOK
  <2>2. bulk \in Nat
    BY <1>7, <1>8, Limits
  <2>3. k \in Nat
    <3> HIDE DEF k, N
    <3> QED
      BY <1>6, <1>8
  <2> QED
    BY <2>1, <2>2, <2>3
<1>10. x \in Stream
  BY <1>6, <1>8, ElementOfSeq
<1>11. /\ Received < EndOf(session, i) + IoBufLen
       /\ Limited(m) => \/ Len(query) <= K + IoBufLen
                        \/ bulk >= BigArg /\ pos = 0 /\ Len(query) <= bulk + 2
  BY <1>2, <1>3, <1>5 DEF Progress, Near
<1>12. K \in Nat /\ K >= BigArg
  BY SlackIs
<1>13. i \in 1 .. Len(session) + 1
  BY <1>5
<1> HIDE DEF K, L, e, N, p
<1>14. CASE ArgumentIncomplete
  <2>1. ~HaveArgument /\ Incomplete(pos)
    BY <1>14 DEF ArgumentIncomplete
  <2>2. Len(query) - pos < bulk + 2
    BY <1>6, <1>9, <2>1 DEF HaveArgument
  <2>3. Received < EndOf(session, i)
    <3>1. Received < (Taken + pos) + (bulk + 2)
      BY <1>6, <1>9, <2>2
    <3>2. p + (6 + bulk) <= L
      BY <1>7, <1>8
    <3>4. e \in Nat /\ p \in Nat /\ bulk \in Nat /\ L \in Nat
      BY <1>6, <1>8, <1>9
    <3> HIDE DEF x
    <3>3. ((e + p) + 4) + (bulk + 2) <= e + L
      BY ONLY <3>2, <3>4
    <3> QED
      BY <1>6, <1>7, <1>8, <1>9, <3>1, <3>3
  <2>4. Len(query) - pos <= K \/ bulk >= BigArg
    BY <1>6, <1>9, <1>12, <2>2, Limits
  <2>5. Taken' = Taken + pos /\ pos' = 0
    BY <1>2, <1>4, <1>9, <2>1, DropTaken DEF Incomplete
  <2>6. InBulks(i)'
    <3>1. Taken' + pos' = Taken + pos
      BY <1>6, <1>9, <2>5
    <3> QED
      BY <1>2, <1>4, <2>1, <3>1, SameBulks DEF Incomplete
  <2>7. ~(multibulk = 0)
    BY <1>2
  <2>8. Limited(m) => Len(query) - pos <= Slack(m) \/ bulk >= BigArg
    BY <2>4 DEF K
  <2> QED
    BY <1>2, <1>3, <1>4, <1>5, <1>9, <2>1, <2>3, <2>6, <2>7, <2>8, WaitStep
<1>15. CASE Argument
  <2>1. /\ argv' = Append(argv, SubSeq(query, pos + 1, pos + bulk))
        /\ multibulk' = multibulk - 1 /\ bulk' = Unknown /\ UNCHANGED <<closing, errors>>
        /\ pc' = IF multibulk' = 0 THEN "run" ELSE "bulk"
        /\ Len(query) - pos >= bulk + 2
    BY <1>2, <1>15 DEF Argument, HaveArgument
  <2>2. SubSeq(query, pos + 1, pos + bulk) = x
    <3> DEFINE o == p + 4
    <3>1. o \in Nat /\ Stands(x, b, o)
      BY <1>8 DEF Framed
    <3>2. o + Len(x) <= Len(b)
      <4>1. p + (6 + bulk) <= L
        BY <1>7, <1>8
      <4>2. o + bulk <= L
        BY <1>6, <1>8, <1>9, <4>1, SMTT(20)
      <4> QED
        BY <1>7, <4>2 DEF L
    <3>3. Taken + pos = EndOf(session, i - 1) + o
      <4>1. (e + p) + 4 = e + o
        BY <1>6, <1>8
      <4> QED
        BY <1>7, <4>1 DEF e
    <3>4. pos + Len(x) <= Len(query)
      <4>1. pos + bulk <= Len(query)
        BY <1>6, <1>9, <2>1
      <4> QED
        BY <1>7, <4>1
    <3> HIDE DEF o
    <3>5. SubSeq(query, pos + 1, pos + Len(x)) = x
      BY <1>4, <1>5, <1>10, <3>1, <3>2, <3>3, <3>4, ArgumentIs
    <3> QED
      BY <1>7, <3>5
  <2>3. argv' = SubSeq(m.argv, 1, c) /\ Len(argv') = c /\ c <= N
    <3>1. argv' = SubSeq(m.argv, 1, c)
      BY <1>6, <1>7, <1>9, <2>1, <2>2, OneMore DEF N
    <3>3. c \in Nat /\ c >= 1 /\ c <= N
      <4> HIDE DEF c
      <4> QED
        BY <1>6, <1>8
    <3>2. \A j \in 1 .. c : m.argv[j] \in Stream
      <4> HIDE DEF c, m
      <4>1. \A j \in 1 .. c : j \in 1 .. N
        BY <1>6, <3>3
      <4>2. \A j \in 1 .. N : m.argv[j] \in Stream
        BY <1>6, ElementOfSeq DEF N
      <4> QED
        BY <4>1, <4>2
    <3>4. Len(SubSeq(m.argv, 1, c)) = c
      <4> HIDE DEF c
      <4> QED
        BY <3>2, <3>3, SubSeqProperties
    <3> QED
      BY <3>1, <3>3, <3>4
  <2>4. /\ Carried' /\ Received' = Received /\ Taken' + pos' = (Taken + pos) + (bulk + 2)
        /\ Len(query') \in Nat /\ Len(query') <= Len(query)
        /\ bulk >= BigArg /\ pos = 0 /\ Len(query) <= bulk + 2 => Len(query') = 0
        /\ multibulk' = 0 => pos' = 0
    BY <1>4, <1>15, ArgumentTaken
  <2>5. Taken' + pos' = e + Place(m.argv, c)
    <3>1. Place(m.argv, c) = p + (6 + bulk)
      BY <1>7, <1>8
    <3>3. e \in Nat /\ p \in Nat /\ bulk \in Nat
      BY <1>6, <1>8, <1>9
    <3>2. ((e + p) + 4) + (bulk + 2) = e + (p + (6 + bulk))
      BY ONLY <3>3
    <3> QED
      BY <1>7, <2>4, <3>1, <3>2
  <2>6. multibulk' + c = multibulk + k /\ multibulk' \in Nat
    <3> HIDE DEF k
    <3> QED
      BY <1>2, <1>9, <2>1
  <2>7. Near(i)'
    <3>1. Limited(m) => Len(query') <= K + IoBufLen
      BY <1>6, <1>11, <1>12, <2>4, Limits, SMTT(20)
    <3>2. pc' # "read"
      BY <2>1
    <3> QED
      BY <1>2, <1>11, <2>4, <3>1, <3>2 DEF Near, K
  <2>8. CASE multibulk' = 0
    <3>1. /\ m.ok => N = multibulk + k /\ L = Place(m.argv, N)
          /\ ~m.ok => N < multibulk + k
      BY <1>7 DEF BulkShape, N, L
    <3>2. multibulk + k = c
      BY <2>6, <2>8, <1>9
    <3>3. m.ok /\ N = c /\ L = Place(m.argv, c)
      <4> HIDE DEF c, k
      <4>1. c \in Nat
        BY <1>8
      <4>2. ~(N < c)
        BY <1>6, <2>3, <4>1
      <4> QED
        BY <3>1, <3>2, <4>2
    <3>4. argv' = m.argv
      <4>1. SubSeq(m.argv, 1, N) = m.argv
        BY <1>6 DEF N
      <4> HIDE DEF c
      <4> QED
        BY <2>3, <3>3, <4>1
    <3>5. Taken' = EndOf(session, i)
      <4>1. pos' = 0 /\ Taken' + pos' = e + L
        BY <2>4, <2>5, <2>8, <3>3
      <4>2. Taken' \in Int
        <5>1. Taken' = Received' - Len(query')
          BY DEF Taken
        <5> QED
          BY <1>6, <2>4, <5>1
      <4>3. Taken' = Taken' + 0
        <5>1. \A t \in Int : t = t + 0
          OBVIOUS
        <5> QED
          BY <4>2, <5>1
      <4>4. Taken' = Taken' + pos'
        BY <4>1, <4>3
      <4> QED
        BY <1>6, <4>1, <4>4
    <3>6. ToRun(i)'
      BY <1>2, <1>5, <3>3, <3>4, <3>5 DEF ToRun
    <3>7. Progress(i)'
      BY <1>2, <1>3, <2>1, <2>7, <2>8, <3>6 DEF Progress
    <3> QED
      BY <1>2, <1>13, <2>1, <2>4, <3>7 DEF Kept
  <2>9. CASE multibulk' # 0
    <3>1. pc' = "bulk" /\ multibulk' > 0
      <4>1. pc' = "bulk"
        BY <2>1, <2>9
      <4>2. multibulk' > 0
        BY <2>6, <2>9
      <4> QED
        BY <4>1, <4>2
    <3>2. BulkShape(m, multibulk' + c)
      BY <1>7, <2>6
    <3>3. InBulks(i)'
      <4> DEFINE k1 == Len(argv')
      <4>1. k1 = c
        BY <2>3
      <4>2. /\ session' = session /\ reqType' = "multibulk" /\ bulk' = Unknown /\ i <= Len(session)
        BY <1>2, <1>5, <2>1
      <4> HIDE DEF k1, c
      <4>3. /\ BulkShape(m, multibulk' + k1) /\ k1 <= N /\ argv' = SubSeq(m.argv, 1, k1)
            /\ Taken' + pos' = e + Place(m.argv, k1)
        BY <2>3, <2>5, <3>2, <4>1
      <4> QED
        BY <4>2, <4>3 DEF InBulks, e, N, k1
    <3>4. Progress(i)'
      BY <1>2, <1>3, <2>7, <2>9, <3>1, <3>3 DEF Progress
    <3> QED
      BY <1>2, <1>13, <2>1, <2>4, <3>4 DEF Kept
  <2> QED
    BY <2>8, <2>9
<1> QED
  BY <1>14, <1>15
LEMMA InitFollows == Init => Follows
<1> SUFFICES ASSUME Init PROVE Follows
  OBVIOUS
<1>1. IInv
  BY InitIInv
<1>2. /\ session \in Sessions /\ input = Bytes(session) /\ query = << >> /\ pos = 0
      /\ reqType = "none" /\ multibulk = 0 /\ bulk = Unknown /\ argv = << >>
      /\ closing = FALSE /\ errors = 0 /\ executed = << >> /\ pc = "read"
  BY DEF Init
<1> DEFINE B == Len(Bytes(session))
<1>3. EndOf(session, 0) = 0 /\ EndOf(session, Len(session)) = B /\ B \in Nat /\ Len(session) \in Nat
  BY <1>2, Ends, SessionType
<1>4. Len(query) = 0 /\ Len(input) = B
  BY <1>2
<1>5. Received = 0
  <2>1. Received = EndOf(session, Len(session)) - Len(input)
    BY DEF Received, End, EndOf
  <2> HIDE DEF B
  <2> QED
    BY <1>3, <1>4, <2>1
<1>6. Taken = 0
  BY <1>4, <1>5 DEF Taken
<1>7. Carried
  <2>1. Len(query) + Len(input) <= B
    <3> HIDE DEF B
    <3> QED
      BY <1>3, <1>4
  <2>2. \A j \in 1 .. Len(query) : query[j] = Bytes(session)[Taken + j]
    BY <1>4
  <2>3. ASSUME NEW j \in 1 .. Len(input) PROVE input[j] = Bytes(session)[Received + j]
    <3>1. Received + j = j
      BY <1>5
    <3> QED
      BY <1>2, <3>1
  <2> QED
    BY <2>1, <2>2, <2>3 DEF Carried
<1>8. ASSUME 1 <= Len(session) PROVE Near(1)
  <2>1. 1 \in 1 .. Len(session)
    BY <1>3, <1>8
  <2>2. /\ EndOf(session, 1) = EndOf(session, 1 - 1) + Len(session[1].bytes)
        /\ Len(session[1].bytes) \in Nat /\ Len(session[1].bytes) >= 2
    BY <1>1, <2>1, At, ShapeOf
  <2>3. 1 - 1 = 0
    OBVIOUS
  <2>4. Received < EndOf(session, 1)
    BY <1>3, <1>5, <2>2, <2>3
  <2>5. Len(query) <= Slack(session[1])
    BY <1>4, SlackIs
  <2> QED
    BY <1>2, <2>4, <2>5 DEF Near
<1>9. 1 - 1 = 0 /\ 1 \in 1 .. Len(session) + 1
  BY <1>3
<1>10. AtStart(1)
  BY <1>2, <1>3, <1>6, <1>9 DEF AtStart
<1>11. executed = Asked(session, 1 - 1)
  BY <1>2, <1>9, AskedStep
<1>12. \A j \in 1 .. 1 - 1 : Passes(session[j])
  OBVIOUS
<1>13. Progress(1)
  BY <1>2, <1>8, <1>10, <1>11, <1>12 DEF Progress
<1>14. RefusesOnlyMalformed
  BY <1>2 DEF RefusesOnlyMalformed
<1> QED
  BY <1>2, <1>7, <1>9, <1>13, <1>14 DEF Follows

LEMMA NextFollows ==
  ASSUME IInv, Follows, [Next]_vars
  PROVE  Follows'
<1>1. CASE UNCHANGED vars
  <2>1. UNCHANGED <<session, input, query, pos, reqType, multibulk, bulk, argv, closing, errors, executed, pc>>
    BY <1>1 DEF vars, parserVars
  <2>2. Carried' /\ Taken' = Taken /\ Received' = Received
    BY <2>1, SameTaken DEF Follows
  <2>3. ASSUME NEW i PROVE Progress(i) => Progress(i)'
    BY <2>1, <2>2 DEF Progress, AtStart, InBulks, ToRun, Near
  <2>4. ASSUME NEW i PROVE Settled(i) => Settled(i)'
    BY <2>1, <2>2 DEF Settled
  <2> QED
    BY <2>1, <2>2, <2>3, <2>4 DEF Follows, RefusesOnlyMalformed
<1>2. CASE Next
  <2>1. Kept
    BY <1>2, ReadFollows, ParseDoneFollows, InlineFollows, CountFollows, ResumeFollows, LengthFollows,
       ArgumentFollows, RunFollows DEF Next
  <2>2. session' = session
    BY <1>2 DEF Next, Read, ParseDone, InlineIncomplete, InlineUnbalanced, InlineRequest, CountIncomplete,
       CountWrong, Count, Resume, LengthIncomplete, LengthWrong, Length, ArgumentIncomplete, Argument,
       RunNothing, RunCommand, RunQuit, Parsing, InBulk, Reset
  <2>3. RefusesOnlyMalformed'
    BY <2>1, <2>2 DEF Kept, Follows, RefusesOnlyMalformed
  <2> QED
    BY <2>1, <2>2, <2>3 DEF Kept, Follows
<1> QED
  BY <1>1, <1>2

LEMMA AlwaysFollows == Spec => [](IInv /\ Follows)
BY InitIInv, InitFollows, NextIInv, NextFollows, PTL DEF Spec

(* At the socket, the messages dealt with are those that have arrived. *)
LEMMA ReceivedIs ==
  ASSUME IInv, Carried, NEW i \in 1 .. Len(session) + 1, Progress(i), pc = "read"
  PROVE  /\ EndOf(session, i - 1) <= Received
         /\ i <= Len(session) => Received < EndOf(session, i)
<1>1. Len(session) \in Nat /\ session \in Sessions /\ Taken \in Nat /\ Received \in Nat
      /\ Len(query) \in Nat /\ Received = Taken + Len(query)
  BY Counts, SessionType
<1> DEFINE e == EndOf(session, i - 1)
<1>2. e \in Nat
  <2>1. i - 1 \in 0 .. Len(session)
    BY <1>1
  <2> QED
    BY <1>1, <2>1, Ends
<1>3. e <= Taken
  <2>1. CASE multibulk = 0
    <3>1. Taken = e
      BY <2>1 DEF Progress, AtStart
    <3> HIDE DEF e
    <3> QED
      BY <1>2, <3>1
  <2>2. CASE multibulk # 0
    <3>1. multibulk > 0 /\ pos = 0
      BY <2>2, Limits DEF IInv, TypeOK, Between
    <3>2. InBulks(i)
      BY <3>1 DEF Progress
    <3>3. i \in 1 .. Len(session)
      BY <1>1, <3>2 DEF InBulks
    <3> DEFINE p == Place(session[i].argv, Len(argv))
    <3>4. p \in Nat
      BY <3>1, <3>2, <3>3, BulksLeft
    <3>5. Taken + pos = e + p \/ Taken + pos = (e + p) + 4
      BY <3>2 DEF InBulks
    <3> HIDE DEF e, p
    <3> QED
      BY <1>1, <1>2, <3>1, <3>4, <3>5
  <2> QED
    BY <2>1, <2>2
<1>4. e <= Received
  <2> HIDE DEF e
  <2> QED
    BY <1>1, <1>2, <1>3
<1> QED
  BY <1>4 DEF Progress, Near

(* However a session of requests, well formed or not, is cut into           *)
(* fragments, whenever the server goes back to the socket it has run        *)
(* exactly the requests that have arrived, in order and with the arguments  *)
(* their sender encoded, up to QUIT or the first malformed one.             *)
THEOREM AlwaysRunsWhatArrived == Spec => []RunsWhatArrived
<1>1. ASSUME IInv, Follows, pc = "read" PROVE executed = Expected
  <2>1. session \in Sessions /\ Len(session) \in Nat /\ Carried /\ Received \in Nat
    BY <1>1, Counts, SessionType DEF Follows
  <2>2. ASSUME NEW i \in 0 .. Len(session), NEW j \in i .. Len(session)
        PROVE  /\ EndOf(session, i) \in Nat /\ EndOf(session, j) \in Nat
               /\ EndOf(session, i) <= EndOf(session, j)
    <3>1. j \in 0 .. Len(session)
      BY <2>1
    <3> QED
      BY <2>1, <3>1, Ends
  <2>3. ASSUME NEW k \in 0 .. Len(session), \A j \in 1 .. k : session[j].ok,
               \A j \in 1 .. k - 1 : Passes(session[j]),
               EndOf(session, k) <= Received,
               k < Len(session) =>
                 \/ Received < EndOf(session, k + 1)
                 \/ ~session[k + 1].ok
                 \/ k # 0 /\ ~Passes(session[k])
        PROVE  Expected = Asked(session, k)
    <3>1. ASSUME NEW j \in 1 .. Len(session) PROVE (Answered(j) /\ End(j) <= Received) <=> j <= k
      <4>1. CASE j <= k
        <5>1. Answered(j)
          <6>1. j \in 1 .. k /\ \A l \in 1 .. j - 1 : l \in 1 .. k - 1
            BY <2>1, <4>1
          <6> QED
            BY <2>3, <6>1 DEF Answered, Passes
        <5>2. EndOf(session, j) \in Nat /\ EndOf(session, j) <= EndOf(session, k) /\ EndOf(session, k) \in Nat
          <6>1. j \in 0 .. Len(session) /\ k \in j .. Len(session)
            BY <2>1, <4>1
          <6> QED
            BY <2>2, <6>1
        <5>3. EndOf(session, j) <= Received
          BY <2>1, <2>3, <5>2
        <5> QED
          BY <4>1, <5>1, <5>3 DEF End, EndOf
      <4>2. CASE ~(j <= k)
        <5> DEFINE c == k + 1
        <5>1. k < Len(session) /\ c \in 0 .. Len(session) /\ j \in c .. Len(session) /\ (c = j \/ c \in 1 .. j - 1)
              /\ (k # 0 => k \in 1 .. j - 1)
          BY <2>1, <4>2
        <5>2. CASE Received < EndOf(session, c)
          <6> HIDE DEF c
          <6>1. EndOf(session, c) \in Nat /\ EndOf(session, j) \in Nat /\ EndOf(session, c) <= EndOf(session, j)
            BY <2>2, <5>1
          <6>2. ~(EndOf(session, j) <= Received)
            BY <2>1, <5>2, <6>1
          <6> QED
            BY <4>2, <6>2 DEF End, EndOf
        <5>3. CASE ~session[c].ok
          <6> HIDE DEF c
          <6>1. ~Answered(j)
            BY <5>1, <5>3 DEF Answered
          <6> QED
            BY <4>2, <6>1
        <5>4. CASE k # 0 /\ ~Passes(session[k])
          <6>1. ~Answered(j)
            BY <5>1, <5>4 DEF Answered, Passes
          <6> QED
            BY <4>2, <6>1
        <5> QED
          BY <2>3, <5>1, <5>2, <5>3, <5>4
      <4> QED
        BY <4>1, <4>2
    <3> QED
      BY <2>1, <3>1, ExpectedIs
  <2>4. CASE ~closing
    <3>1. PICK i \in 1 .. Len(session) + 1 : Progress(i)
      BY <1>1, <2>4 DEF Follows
    <3> DEFINE k == i - 1
    <3>2. k \in 0 .. Len(session) /\ (k < Len(session) => i <= Len(session)) /\ k + 1 = i
          /\ \A j \in 1 .. k - 1 : j \in 1 .. k
      BY <2>1
    <3>3. EndOf(session, k) <= Received /\ (i <= Len(session) => Received < EndOf(session, i))
      BY <1>1, <2>1, <3>1, ReceivedIs
    <3>4. executed = Asked(session, k) /\ \A j \in 1 .. k : Passes(session[j])
      BY <3>1 DEF Progress
    <3> HIDE DEF k
    <3>5. \A j \in 1 .. k : session[j].ok
      BY <3>4 DEF Passes
    <3> QED
      BY <2>3, <3>2, <3>3, <3>4, <3>5
  <2>5. CASE closing
    <3>1. PICK i \in 1 .. Len(session) : Settled(i)
      BY <1>1, <2>5 DEF Follows
    <3>2. i \in Nat /\ i - 1 \in 0 .. Len(session) /\ i \in 0 .. Len(session) /\ i # 0
      BY <2>1
    <3>3. ~Passes(session[i]) /\ \A j \in 1 .. i - 1 : Passes(session[j])
      BY <3>1 DEF Settled
    <3>4. CASE session[i].ok
      <4>1. executed = Asked(session, i) /\ EndOf(session, i) <= Received
        BY <3>1, <3>4 DEF Settled
      <4>2. \A j \in 1 .. i : session[j].ok
        <5>1. \A j \in 1 .. i : j = i \/ j \in 1 .. i - 1
          BY <3>2
        <5> QED
          BY <3>3, <3>4, <5>1 DEF Passes
      <4> QED
        BY <2>3, <3>2, <3>3, <4>1, <4>2
    <3>5. CASE ~session[i].ok
      <4> DEFINE k == i - 1
      <4>1. executed = Asked(session, k) /\ EndOf(session, k) <= Received
        BY <3>1, <3>5 DEF Settled
      <4>2. k + 1 = i /\ k \in 0 .. Len(session) /\ \A j \in 1 .. k - 1 : j \in 1 .. k
        BY <3>2
      <4>3. \A j \in 1 .. k : Passes(session[j])
        BY <3>3
      <4> HIDE DEF k
      <4>4. \A j \in 1 .. k : session[j].ok
        BY <4>3 DEF Passes
      <4> QED
        BY <2>3, <3>5, <4>1, <4>2, <4>3, <4>4
    <3> QED
      BY <3>4, <3>5
  <2> QED
    BY <2>4, <2>5
<1>2. ASSUME IInv, Follows PROVE RunsWhatArrived
  BY <1>1, <1>2 DEF RunsWhatArrived
<1> QED
  BY <1>2, AlwaysFollows, PTL

(* No session is refused unless a request of it is malformed, although the  *)
(* limit on a line is tested against the whole query buffer.                *)
THEOREM AlwaysRefusesOnlyMalformed == Spec => []RefusesOnlyMalformed
<1>1. ASSUME Follows PROVE RefusesOnlyMalformed
  BY <1>1 DEF Follows
<1> QED
  BY <1>1, AlwaysFollows, PTL

(* Once a malformed request has arrived the connection is closing. *)
THEOREM AlwaysClosesOnMalformed == Spec => []ClosesOnMalformed
<1>1. ASSUME IInv, Follows, pc = "read", NEW i \in DOMAIN session, ~session[i].ok, End(i) <= Received,
             ~closing
      PROVE  FALSE
  <2>1. session \in Sessions /\ Len(session) \in Nat /\ Carried /\ Received \in Nat
        /\ DOMAIN session = 1 .. Len(session)
    BY <1>1, Counts, SessionType DEF Follows
  <2>2. PICK j \in 1 .. Len(session) + 1 : Progress(j)
    BY <1>1 DEF Follows
  <2>3. i \in 1 .. Len(session)
    BY <2>1
  <2>4. ~(i \in 1 .. j - 1)
    BY <1>1, <2>2 DEF Progress, Passes
  <2>5. j <= Len(session) /\ j \in 0 .. Len(session) /\ i \in j .. Len(session) /\ i \in 0 .. Len(session)
    BY <2>1, <2>3, <2>4
  <2>6. Received < EndOf(session, j)
    BY <1>1, <2>1, <2>2, <2>5, ReceivedIs
  <2>7. EndOf(session, j) <= EndOf(session, i) /\ EndOf(session, j) \in Nat /\ EndOf(session, i) \in Nat
    BY <2>1, <2>5, Ends
  <2>8. EndOf(session, i) <= Received
    BY <1>1 DEF End, EndOf
  <2> QED
    BY <2>1, <2>6, <2>7, <2>8
<1>2. ASSUME IInv, Follows PROVE ClosesOnMalformed
  BY <1>1, <1>2 DEF ClosesOnMalformed
<1> QED
  BY <1>2, AlwaysFollows, PTL
=============================================================================
