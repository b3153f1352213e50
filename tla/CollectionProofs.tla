-------------------------- MODULE CollectionProofs --------------------------
(***************************************************************************)
(* The two collections that a key can hold besides a trie: the queue of    *)
(* the q commands and the documents of the d commands.                     *)
(*                                                                         *)
(* HeapQueue: that the array of a queue is a heap, that queued objects     *)
(* have one reference, and that the commands serve the least scores first, *)
(* for every set of objects and scores and every initial size of the       *)
(* array.  The argument is about the two loops of the heap: at every turn  *)
(* the order may fail only around the element being moved.                 *)
(*                                                                         *)
(* Fts: that the inverted index mirrors the documents, that what a score   *)
(* is computed from is defined, and that the commands implement a store of *)
(* documents, for all titles, words, texts and addresses.  The argument is *)
(* about the two loops over the terms of a text: after k terms the index   *)
(* mirrors the other documents and the first (or all but the first) k      *)
(* terms of this one.                                                      *)
(***************************************************************************)
EXTENDS HeapQueue, Fts, ListTheorems, FiniteSetTheorems, TLAPS

-----------------------------------------------------------------------------
(* Loops. *)

(* A loop of n turns whose body leads from P[k] to P[k + 1] ends in P[n]. *)
LEMMA LoopKeeps ==
  ASSUME NEW f, NEW n \in Nat, NEW P, NEW x \in P[0],
         \A k \in 0 .. n - 1 : \A y \in P[k] : f[y] \in P[k + 1]
  PROVE  H!Repeat(f, x, n) \in P[n]
<1> DEFINE F(m, g) == [k \in 0 .. m |-> IF k = 0 THEN x ELSE f[g[k - 1]]]
           T == {m \in 0 .. n : ~ \E g : g = F(m, g)}
<1>1. T = {}
  <2> SUFFICES ASSUME T # {} PROVE FALSE
    OBVIOUS
  <2>1. T \subseteq Nat
    OBVIOUS
  <2>2. PICK m \in T : \A j \in T : m <= j
    <3> HIDE DEF T
    <3> QED
      BY <2>1, FirstPosition
  <2>3. m \in 0 .. n /\ ~ \E g : g = F(m, g)
    OBVIOUS
  <2>4. CASE m = 0
    <3> DEFINE g == [k \in 0 .. m |-> x]
    <3>1. g = F(m, g)
      BY <2>4
    <3> QED
      BY <2>3, <3>1
  <2>5. CASE m # 0
    <3>1. m - 1 \in 0 .. n /\ m \in Nat /\ ~(m <= m - 1)
      BY <2>3, <2>5
    <3>2. m - 1 \notin T
      <4> HIDE DEF T
      <4> QED
        BY <2>2, <3>1
    <3>3. PICK g : g = F(m - 1, g)
      BY <3>1, <3>2
    <3> DEFINE e == [k \in 0 .. m |-> IF k = m THEN f[g[m - 1]] ELSE g[k]]
    <3>4. \A k \in 0 .. m - 1 : g[k] = IF k = 0 THEN x ELSE f[g[k - 1]]
      <4> HIDE DEF e
      <4> QED
        BY <3>3
    <3>5. \A k \in 0 .. m : e[k] = IF k = 0 THEN x ELSE f[e[k - 1]]
      <4> SUFFICES ASSUME NEW k \in 0 .. m
                   PROVE  e[k] = IF k = 0 THEN x ELSE f[e[k - 1]]
        OBVIOUS
      <4>1. k # 0 => k - 1 \in 0 .. m - 1
        BY <3>1
      <4>2. \A j \in 0 .. m - 1 : e[j] = g[j]
        BY <3>1
      <4>3. CASE k = m
        BY <2>5, <3>1, <4>1, <4>2, <4>3
      <4>4. CASE k # m
        <5>1. k \in 0 .. m - 1
          BY <3>1, <4>4
        <5> HIDE DEF e
        <5> QED
          BY <3>4, <4>1, <4>2, <5>1
      <4> QED
        BY <4>3, <4>4
    <3>6. e = F(m, e)
      BY <3>5
    <3> QED
      BY <2>3, <3>6
  <2> QED
    BY <2>4, <2>5
<1> DEFINE t == CHOOSE g : g = F(n, g)
<1>2. t = F(n, t)
  <2>1. PICK g : g = F(n, g)
    BY <1>1
  <2> HIDE DEF F
  <2> QED
    BY <2>1
<1>3. H!Repeat(f, x, n) = t[n]
  BY DEF H!Repeat
<1>4. \A k \in 0 .. n : t[k] = IF k = 0 THEN x ELSE f[t[k - 1]]
  <2> HIDE DEF t
  <2> QED
    BY <1>2
<1> HIDE DEF t
<1> DEFINE U == {k \in 0 .. n : t[k] \notin P[k]}
<1>5. U = {}
  <2> SUFFICES ASSUME U # {} PROVE FALSE
    OBVIOUS
  <2>1. U \subseteq Nat
    OBVIOUS
  <2>2. PICK k \in U : \A j \in U : k <= j
    <3> HIDE DEF U
    <3> QED
      BY <2>1, FirstPosition
  <2>3. k \in 0 .. n /\ t[k] \notin P[k]
    OBVIOUS
  <2>4. CASE k = 0
    BY <1>4, <2>3, <2>4
  <2>5. CASE k # 0
    <3>1. k - 1 \in 0 .. n - 1 /\ k - 1 \in 0 .. n /\ k \in Nat /\ ~(k <= k - 1) /\ (k - 1) + 1 = k
      BY <2>3, <2>5
    <3>2. k - 1 \notin U
      <4> HIDE DEF U
      <4> QED
        BY <2>2, <3>1
    <3>3. t[k - 1] \in P[k - 1]
      BY <3>1, <3>2
    <3>4. f[t[k - 1]] \in P[(k - 1) + 1]
      BY <3>1, <3>3
    <3>5. t[k] = f[t[k - 1]]
      BY <1>4, <2>3, <2>5
    <3> QED
      BY <2>3, <3>1, <3>4, <3>5
  <2> QED
    BY <2>4, <2>5
<1>6. n \in 0 .. n
  OBVIOUS
<1> QED
  BY <1>3, <1>5, <1>6

-----------------------------------------------------------------------------
(* Exchanging elements of a heap. *)

Score(s, i) == H!At(s, i).score

ItemsOf(s, n) == {s[i] : i \in 1 .. n}

Apart(s, n) == \A i, j \in 1 .. n : s[i].obj = s[j].obj => i = j

(* The first n slots hold items with different objects. *)
Filled(s, n) ==
  /\ s \in Seq(H!Slot)
  /\ n \in Nat
  /\ n <= Len(s)
  /\ ItemsOf(s, n) \subseteq HqItem
  /\ Apart(s, n)

(* s differs from t in the order of the first n slots only. *)
Shuffled(s, t, n) ==
  /\ Filled(s, n)
  /\ Len(s) = Len(t)
  /\ ItemsOf(s, n) = ItemsOf(t, n)
  /\ \A i \in n + 1 .. Len(t) : s[i] = t[i]

LEMMA SwapShuffles ==
  ASSUME NEW t, NEW n, NEW s, Shuffled(s, t, n), NEW i \in 0 .. n - 1, NEW j \in 0 .. n - 1
  PROVE  /\ Shuffled(H!Swap(s, i, j), t, n)
         /\ \A k \in 0 .. n - 1 :
              Score(H!Swap(s, i, j), k) =
                IF k = j THEN Score(s, i) ELSE IF k = i THEN Score(s, j) ELSE Score(s, k)
<1> DEFINE w == H!Swap(s, i, j)
           p == i + 1
           q == j + 1
<1>1. /\ s \in Seq(H!Slot) /\ n \in Nat /\ Len(s) \in Nat /\ n <= Len(s)
      /\ DOMAIN s = 1 .. Len(s)
      /\ \A k \in 1 .. n : s[k] \in HqItem
  BY DEF Shuffled, Filled, ItemsOf
<1>2. p \in 1 .. n /\ q \in 1 .. n /\ p \in DOMAIN s /\ q \in DOMAIN s
  BY <1>1
<1>3. w = [s EXCEPT ![p] = s[q], ![q] = s[p]]
  BY DEF H!Swap, H!At
<1>4. s[p] \in H!Slot /\ s[q] \in H!Slot
  BY <1>1, <1>2
<1> HIDE DEF p, q
<1>5. w \in Seq(H!Slot) /\ Len(w) = Len(s) /\ DOMAIN w = DOMAIN s
  BY <1>1, <1>2, <1>3, <1>4
<1>6. \A k \in DOMAIN s : w[k] = IF k = q THEN s[p] ELSE IF k = p THEN s[q] ELSE s[k]
  BY <1>1, <1>2, <1>3, <1>5
<1> HIDE DEF w
<1>7. 1 .. n \subseteq DOMAIN s
  BY <1>1
<1>8. ItemsOf(w, n) = ItemsOf(s, n)
  <2>1. \A k \in 1 .. n : \E m \in 1 .. n : w[k] = s[m]
    BY <1>2, <1>6, <1>7
  <2>2. \A k \in 1 .. n : \E m \in 1 .. n : s[k] = w[m]
    BY <1>2, <1>6, <1>7
  <2> QED
    BY <2>1, <2>2 DEF ItemsOf
<1>9. Apart(w, n)
  <2> SUFFICES ASSUME NEW k \in 1 .. n, NEW m \in 1 .. n, w[k].obj = w[m].obj
               PROVE  k = m
    BY DEF Apart
  <2>1. \A y, z \in 1 .. n : s[y].obj = s[z].obj => y = z
    BY DEF Shuffled, Filled, Apart
  <2> DEFINE to(y) == IF y = q THEN p ELSE IF y = p THEN q ELSE y
  <2>2. w[k] = s[to(k)] /\ w[m] = s[to(m)] /\ to(k) \in 1 .. n /\ to(m) \in 1 .. n
    BY <1>2, <1>6, <1>7
  <2>3. to(k) = to(m)
    <3> HIDE DEF to
    <3> QED
      BY <2>1, <2>2
  <2> QED
    BY <2>3
<1>10. \A k \in n + 1 .. Len(t) : w[k] = t[k]
  <2> SUFFICES ASSUME NEW k \in n + 1 .. Len(t) PROVE w[k] = t[k]
    OBVIOUS
  <2>1. s[k] = t[k] /\ Len(s) = Len(t)
    BY DEF Shuffled
  <2>2. k \in DOMAIN s /\ k # p /\ k # q
    BY <1>1, <1>2, <2>1
  <2> QED
    BY <1>6, <2>1, <2>2
<1>11. Shuffled(w, t, n)
  BY <1>1, <1>5, <1>8, <1>9, <1>10 DEF Shuffled, Filled
<1>12. ASSUME NEW k \in 0 .. n - 1
       PROVE  Score(w, k) = IF k = j THEN Score(s, i) ELSE IF k = i THEN Score(s, j) ELSE Score(s, k)
  <2>1. k + 1 \in DOMAIN s /\ (k = j <=> k + 1 = q) /\ (k = i <=> k + 1 = p)
    BY <1>1 DEF p, q
  <2>2. w[k + 1] = IF k = j THEN s[p] ELSE IF k = i THEN s[q] ELSE s[k + 1]
    BY <1>6, <2>1
  <2> QED
    BY <2>2 DEF Score, H!At, p, q
<1> QED
  BY <1>11, <1>12 DEF w

LEMMA ScoreType ==
  ASSUME NEW s, NEW n, Filled(s, n), NEW k \in 0 .. n - 1
  PROVE  Score(s, k) \in Int
<1>1. k + 1 \in 1 .. n
  BY DEF Filled
<1>2. s[k + 1] \in HqItem
  BY <1>1 DEF Filled, ItemsOf
<1> QED
  BY <1>2, HeapQueueAssumption DEF Score, H!At, HqItem

(* Where the children of an index are. *)
LEMMA Family ==
  ASSUME NEW i \in Nat, i # 0
  PROVE  /\ H!Parent(i) \in Nat
         /\ H!Parent(i) < i
         /\ \A p \in Nat : H!Parent(i) = p <=> i = 2 * p + 1 \/ i = 2 * p + 2
BY DEF H!Parent

-----------------------------------------------------------------------------
(* Moving an element up. *)

(* In order but for the element at a, which may go before its parent. *)
Rising(s, n, a) ==
  /\ \A i \in 1 .. n - 1 : i # a => Score(s, H!Parent(i)) <= Score(s, i)
  /\ \A i \in 1 .. n - 1 :
       a > 0 /\ H!Parent(i) = a => Score(s, H!Parent(a)) <= Score(s, i)

Ordered(s, n) ==
  \A i \in 1 .. n - 1 : Score(s, H!Parent(i)) <= Score(s, i)

LEMMA RiseStep ==
  ASSUME NEW t, NEW n, NEW s, Shuffled(s, t, n), NEW a \in 1 .. n - 1,
         Rising(s, n, a), Score(s, a) < Score(s, H!Parent(a))
  PROVE  LET p == H!Parent(a)
             w == H!Swap(s, a, p)
         IN  p \in 0 .. a - 1 /\ Shuffled(w, t, n) /\ Rising(w, n, p)
<1> DEFINE p == H!Parent(a)
           w == H!Swap(s, a, p)
<1>1. n \in Nat /\ Filled(s, n)
  BY DEF Shuffled, Filled
<1>2. p \in Nat /\ p < a
  BY Family
<1>3. p \in 0 .. a - 1 /\ p \in 0 .. n - 1 /\ a \in 0 .. n - 1 /\ p # a
  BY <1>1, <1>2
<1>4. Shuffled(w, t, n)
  BY <1>3, SwapShuffles
<1>5. \A k \in 0 .. n - 1 :
        Score(w, k) = IF k = p THEN Score(s, a) ELSE IF k = a THEN Score(s, p) ELSE Score(s, k)
  BY <1>3, SwapShuffles
<1>6. \A k \in 0 .. n - 1 : Score(s, k) \in Int
  BY <1>1, ScoreType
<1>7. \A i \in 1 .. n - 1 : /\ i \in 0 .. n - 1
                            /\ H!Parent(i) \in 0 .. n - 1
                            /\ H!Parent(i) < i
  BY <1>1, Family
<1> HIDE DEF p, w
<1>8. p = H!Parent(a)
  BY DEF p
<1>9. Score(s, a) < Score(s, p)
  BY <1>8
<1>10. /\ \A i \in 1 .. n - 1 : i # a => Score(s, H!Parent(i)) <= Score(s, i)
       /\ \A i \in 1 .. n - 1 : H!Parent(i) = a => Score(s, p) <= Score(s, i)
  BY <1>8 DEF Rising
<1>11. ASSUME NEW i \in 1 .. n - 1, i # p
       PROVE  Score(w, H!Parent(i)) <= Score(w, i)
  <2>1. CASE i = a
    BY <1>3, <1>5, <1>6, <1>8, <1>9, <2>1
  <2>2. CASE H!Parent(i) = a
    <3>1. i # a /\ Score(s, p) <= Score(s, i)
      BY <1>7, <1>10, <2>2
    <3> QED
      BY <1>3, <1>5, <1>7, <1>11, <2>2, <3>1
  <2>3. CASE i # a /\ H!Parent(i) = p
    <3>1. Score(s, p) <= Score(s, i)
      BY <1>10, <2>3
    <3>2. Score(w, i) = Score(s, i) /\ Score(w, p) = Score(s, a)
      BY <1>3, <1>5, <1>7, <1>11, <2>3
    <3>3. Score(s, i) \in Int /\ Score(s, a) \in Int /\ Score(s, p) \in Int
      BY <1>3, <1>6, <1>7
    <3> QED
      BY <1>9, <2>3, <3>1, <3>2, <3>3
  <2>4. CASE i # a /\ H!Parent(i) # a /\ H!Parent(i) # p
    BY <1>5, <1>7, <1>10, <1>11, <2>4
  <2> QED
    BY <2>1, <2>2, <2>3, <2>4
<1>12. ASSUME NEW i \in 1 .. n - 1, p > 0, H!Parent(i) = p
       PROVE  Score(w, H!Parent(p)) <= Score(w, i)
  <2>1. p \in 1 .. n - 1
    BY <1>3, <1>1, <1>12
  <2>2. H!Parent(p) \in 0 .. n - 1 /\ H!Parent(p) # p /\ H!Parent(p) # a /\ H!Parent(p) < p
    BY <1>1, <1>2, <1>3, <1>7, <2>1
  <2>3. Score(w, H!Parent(p)) = Score(s, H!Parent(p))
    BY <1>5, <2>2
  <2>4. Score(s, H!Parent(p)) <= Score(s, p)
    BY <1>3, <1>10, <2>1
  <2>5. i # p
    BY <1>7, <1>12
  <2>6. CASE i = a
    BY <1>3, <1>5, <2>3, <2>4, <2>6
  <2>7. CASE i # a
    <3>1. Score(w, i) = Score(s, i)
      BY <1>5, <1>7, <2>5, <2>7
    <3>2. Score(s, p) <= Score(s, i)
      BY <1>10, <1>12, <2>7
    <3>3. Score(s, i) \in Int /\ Score(s, p) \in Int /\ Score(s, H!Parent(p)) \in Int
      BY <1>3, <1>6, <1>7, <2>2
    <3> QED
      BY <2>3, <2>4, <3>1, <3>2, <3>3
  <2> QED
    BY <2>6, <2>7
<1>13. Rising(w, n, p)
  BY <1>11, <1>12 DEF Rising
<1> QED
  BY <1>3, <1>4, <1>13 DEF p, w

(* shiftdown puts an element in its place. *)
LEMMA ShiftdownOrders ==
  ASSUME NEW t, NEW n, NEW s, Shuffled(s, t, n), NEW end \in Nat,
         end = 0 \/ end < n, Rising(s, n, end)
  PROVE  Shuffled(H!Shiftdown(s, end), t, n) /\ Ordered(H!Shiftdown(s, end), n)
<1> DEFINE Settled(m) == m.at > 0 => Score(m.elm, H!Parent(m.at)) <= Score(m.elm, m.at)
           P == [k \in 0 .. end |->
                   {m \in H!Moving : /\ Shuffled(m.elm, t, n)
                                     /\ m.at = 0 \/ m.at < n
                                     /\ Rising(m.elm, n, m.at)
                                     /\ m.at <= end - k \/ Settled(m)}]
           x == [elm |-> s, at |-> end]
<1>1. n \in Nat /\ s \in Seq(H!Slot)
  BY DEF Shuffled, Filled
<1>3. x \in P[0]
  <2>1. x \in H!Moving /\ 0 \in 0 .. end /\ end <= end - 0
    BY <1>1 DEF H!Moving
  <2> QED
    BY <2>1
<1>4. ASSUME NEW k \in 0 .. end - 1, NEW m \in P[k]
      PROVE  H!Rise[m] \in P[k + 1]
  <2>1. k \in 0 .. end /\ k + 1 \in 0 .. end
    OBVIOUS
  <2>2. /\ m \in H!Moving
        /\ Shuffled(m.elm, t, n)
        /\ m.at = 0 \/ m.at < n
        /\ Rising(m.elm, n, m.at)
        /\ m.at <= end - k \/ Settled(m)
    BY <2>1
  <2>3. m.at \in Nat /\ Filled(m.elm, n)
    BY <2>2 DEF H!Moving, Shuffled
  <2> DEFINE p == H!Parent(m.at)
             e == H!Swap(m.elm, m.at, p)
  <2>4. CASE m.at > 0 /\ Score(m.elm, m.at) < Score(m.elm, p)
    <3>1. m.at \in 1 .. n - 1
      BY <1>1, <2>2, <2>3, <2>4
    <3>2. p \in 0 .. m.at - 1 /\ Shuffled(e, t, n) /\ Rising(e, n, p)
      BY <2>2, <2>4, <3>1, RiseStep
    <3>3. H!Rise[m] = [elm |-> e, at |-> p]
      BY <2>2, <2>4 DEF H!Rise, H!Exchange, hq_cmp, Score
    <3>4. e \in Seq(H!Slot)
      BY <3>2 DEF Shuffled, Filled
    <3> HIDE DEF e, p
    <3>5. m.at <= end - k
      <4>1. p \in 0 .. n - 1 /\ m.at \in 0 .. n - 1
        BY <1>1, <2>3, <3>1, <3>2
      <4>2. Score(m.elm, m.at) \in Int /\ Score(m.elm, p) \in Int
        BY <2>3, <4>1, ScoreType
      <4> QED
        BY <2>2, <2>4, <4>2 DEF p
    <3>6. p <= end - (k + 1) /\ p \in Nat /\ p < n
      BY <1>1, <2>3, <3>2, <3>5, <3>1
    <3>7. [elm |-> e, at |-> p] \in H!Moving
      BY <3>4, <3>6 DEF H!Moving
    <3> QED
      BY <2>1, <3>2, <3>3, <3>6, <3>7
  <2>5. CASE ~(m.at > 0 /\ Score(m.elm, m.at) < Score(m.elm, p))
    <3>1. H!Rise[m] = m
      BY <2>2, <2>5 DEF H!Rise, hq_cmp, Score
    <3>2. Settled(m)
      <4> SUFFICES ASSUME m.at > 0 PROVE Score(m.elm, p) <= Score(m.elm, m.at)
        OBVIOUS
      <4>1. p \in 0 .. n - 1 /\ m.at \in 0 .. n - 1
        <5>1. p \in Nat /\ p < m.at
          BY <2>3, Family
        <5> QED
          BY <1>1, <2>2, <2>3, <5>1
      <4>2. Score(m.elm, m.at) \in Int /\ Score(m.elm, p) \in Int
        BY <2>3, <4>1, ScoreType
      <4> QED
        BY <2>5, <4>2
    <3> HIDE DEF Settled
    <3> QED
      BY <2>1, <2>2, <3>1, <3>2
  <2> QED
    BY <2>4, <2>5
<1>5. H!Repeat(H!Rise, x, end) \in P[end]
  <2> HIDE DEF P, x
  <2> QED
    BY <1>3, <1>4, LoopKeeps
<1> DEFINE m == H!Repeat(H!Rise, x, end)
<1>6. /\ Shuffled(m.elm, t, n)
      /\ m.at = 0 \/ m.at < n
      /\ Rising(m.elm, n, m.at)
      /\ m.at <= end - end \/ Settled(m)
      /\ m.at \in Nat
  <2> HIDE DEF m, Settled
  <2>1. end \in 0 .. end
    OBVIOUS
  <2>2. m \in P[end]
    BY <1>5 DEF m
  <2> QED
    BY <2>1, <2>2 DEF H!Moving
<1>7. H!Shiftdown(s, end) = m.elm
  BY DEF H!Shiftdown
<1> HIDE DEF m
<1>8. Ordered(m.elm, n)
  <2> SUFFICES ASSUME NEW i \in 1 .. n - 1
               PROVE  Score(m.elm, H!Parent(i)) <= Score(m.elm, i)
    BY DEF Ordered
  <2>1. CASE i = m.at
    <3>1. m.at > 0 /\ ~(m.at <= end - end)
      BY <1>1, <2>1
    <3> QED
      BY <1>6, <2>1, <3>1
  <2>2. CASE i # m.at
    BY <1>6, <2>2 DEF Rising
  <2> QED
    BY <2>1, <2>2
<1> QED
  BY <1>6, <1>7, <1>8

-----------------------------------------------------------------------------
(* Moving an element down. *)

(* In order but for the element at a, which may go before its parent and    *)
(* after its children.                                                      *)
Sinking(s, n, a) ==
  /\ \A i \in 1 .. n - 1 :
       i # a /\ H!Parent(i) # a => Score(s, H!Parent(i)) <= Score(s, i)
  /\ \A i \in 1 .. n - 1 :
       a > 0 /\ H!Parent(i) = a => Score(s, H!Parent(a)) <= Score(s, i)

(* The child chosen is one of the heap, and its sibling is not smaller. *)
LEMMA SmallerChildIsLeast ==
  ASSUME NEW n, NEW s, Filled(s, n), NEW a \in Nat, 2 * a + 1 < n
  PROVE  LET c == H!SmallerChild(s, n, a)
         IN  /\ c \in 1 .. n - 1
             /\ H!Parent(c) = a
             /\ a < c
             /\ \A i \in 1 .. n - 1 : H!Parent(i) = a => Score(s, c) <= Score(s, i)
<1> DEFINE c == H!SmallerChild(s, n, a)
           l == 2 * a + 1
           r == 2 * a + 2
<1>1. n \in Nat
  BY DEF Filled
<1>2. c = IF r < n /\ Score(s, r) < Score(s, l) THEN r ELSE l
  BY DEF H!SmallerChild, hq_cmp, Score
<1>3. l \in 1 .. n - 1 /\ l \in 0 .. n - 1 /\ (r < n => r \in 1 .. n - 1 /\ r \in 0 .. n - 1) /\ a < l /\ a < r
  BY <1>1
<1>4. \A i \in 1 .. n - 1 : H!Parent(i) = a <=> i = l \/ i = r
  BY <1>1, Family
<1>5. Score(s, l) \in Int /\ (r < n => Score(s, r) \in Int)
  BY <1>3, ScoreType
<1>6. c \in 1 .. n - 1 /\ a < c /\ (c = l \/ c = r)
  <2> HIDE DEF c, l, r
  <2> QED
    BY <1>2, <1>3
<1>7. ASSUME NEW i \in 1 .. n - 1, i = l \/ i = r
      PROVE  Score(s, c) <= Score(s, i)
  <2>1. i < n
    BY <1>1
  <2> HIDE DEF c, l, r
  <2> QED
    BY <1>2, <1>5, <1>7, <2>1
<1> HIDE DEF c, l, r
<1> QED
  BY <1>4, <1>6, <1>7 DEF c

LEMMA SinkStep ==
  ASSUME NEW t, NEW n, NEW s, Shuffled(s, t, n), NEW a \in Nat, 2 * a + 1 < n,
         Sinking(s, n, a)
  PROVE  LET c == H!SmallerChild(s, n, a)
             w == H!Swap(s, a, c)
         IN  c \in a + 1 .. n - 1 /\ Shuffled(w, t, n) /\ Sinking(w, n, c)
<1> DEFINE c == H!SmallerChild(s, n, a)
           w == H!Swap(s, a, c)
<1>1. n \in Nat /\ Filled(s, n)
  BY DEF Shuffled, Filled
<1>2. /\ c \in 1 .. n - 1 /\ H!Parent(c) = a /\ a < c
      /\ \A i \in 1 .. n - 1 : H!Parent(i) = a => Score(s, c) <= Score(s, i)
  BY <1>1, SmallerChildIsLeast
<1>3. c \in a + 1 .. n - 1 /\ c \in 0 .. n - 1 /\ a \in 0 .. n - 1 /\ a # c
  <2> HIDE DEF c
  <2> QED
    BY <1>1, <1>2
<1>4. Shuffled(w, t, n)
  <2> HIDE DEF c
  <2> QED
    BY <1>3, SwapShuffles
<1>5. \A k \in 0 .. n - 1 :
        Score(w, k) = IF k = c THEN Score(s, a) ELSE IF k = a THEN Score(s, c) ELSE Score(s, k)
  <2> HIDE DEF c
  <2> QED
    BY <1>3, SwapShuffles
<1>7. \A i \in 1 .. n - 1 : /\ i \in 0 .. n - 1
                            /\ H!Parent(i) \in 0 .. n - 1
                            /\ H!Parent(i) < i
  BY <1>1, Family
<1> HIDE DEF c, w
<1>8. /\ \A i \in 1 .. n - 1 :
           i # a /\ H!Parent(i) # a => Score(s, H!Parent(i)) <= Score(s, i)
      /\ \A i \in 1 .. n - 1 :
           a > 0 /\ H!Parent(i) = a => Score(s, H!Parent(a)) <= Score(s, i)
  BY DEF Sinking
<1>9. ASSUME NEW i \in 1 .. n - 1, i # c, H!Parent(i) # c
      PROVE  Score(w, H!Parent(i)) <= Score(w, i)
  <2>1. CASE i = a
    <3>1. a > 0 /\ H!Parent(a) \in 0 .. n - 1 /\ H!Parent(a) # a
      BY <1>7, <2>1
    <3>2. Score(s, H!Parent(a)) <= Score(s, c)
      BY <1>2, <1>8, <3>1
    <3>3. Score(w, H!Parent(a)) = Score(s, H!Parent(a)) /\ Score(w, a) = Score(s, c)
      BY <1>3, <1>5, <1>9, <2>1, <3>1
    <3> QED
      BY <2>1, <3>2, <3>3
  <2>2. CASE i # a /\ H!Parent(i) = a
    BY <1>2, <1>3, <1>5, <1>7, <1>9, <2>2
  <2>3. CASE i # a /\ H!Parent(i) # a
    BY <1>5, <1>7, <1>8, <1>9, <2>3
  <2> QED
    BY <2>1, <2>2, <2>3
<1>10. ASSUME NEW i \in 1 .. n - 1, H!Parent(i) = c
       PROVE  Score(w, H!Parent(c)) <= Score(w, i)
  <2>1. i # c /\ i # a /\ H!Parent(i) # a
    BY <1>2, <1>3, <1>7, <1>10
  <2>2. Score(s, c) <= Score(s, i)
    BY <1>8, <1>10, <2>1
  <2>3. Score(w, i) = Score(s, i) /\ Score(w, a) = Score(s, c)
    BY <1>3, <1>5, <1>7, <2>1
  <2> QED
    BY <1>2, <2>2, <2>3
<1>11. Sinking(w, n, c)
  BY <1>9, <1>10 DEF Sinking
<1> QED
  BY <1>3, <1>4, <1>11 DEF c, w

(* shiftup puts the first element in its place. *)
LEMMA ShiftupOrders ==
  ASSUME NEW t, NEW n, NEW s, Shuffled(s, t, n), Sinking(s, n, 0)
  PROVE  Shuffled(H!Shiftup(s, n, 0), t, n) /\ Ordered(H!Shiftup(s, n, 0), n)
<1> DEFINE P == [k \in 0 .. n |->
                   {m \in H!Moving : /\ Shuffled(m.elm, t, n)
                                     /\ m.at = 0 \/ m.at < n
                                     /\ Sinking(m.elm, n, m.at)
                                     /\ m.at >= k \/ 2 * m.at + 1 >= n}]
           x == [elm |-> s, at |-> 0]
<1>1. n \in Nat /\ s \in Seq(H!Slot)
  BY DEF Shuffled, Filled
<1>2. x \in P[0]
  <2>1. x \in H!Moving /\ 0 \in 0 .. n /\ 0 >= 0
    BY <1>1 DEF H!Moving
  <2> QED
    BY <2>1
<1>3. ASSUME NEW k \in 0 .. n - 1, NEW m \in P[k]
      PROVE  H!Sink(n)[m] \in P[k + 1]
  <2>1. k \in 0 .. n /\ k + 1 \in 0 .. n
    BY <1>1
  <2>2. /\ m \in H!Moving
        /\ Shuffled(m.elm, t, n)
        /\ m.at = 0 \/ m.at < n
        /\ Sinking(m.elm, n, m.at)
        /\ m.at >= k \/ 2 * m.at + 1 >= n
    BY <2>1
  <2>3. m.at \in Nat
    BY <2>2 DEF H!Moving
  <2> DEFINE c == H!SmallerChild(m.elm, n, m.at)
             e == H!Swap(m.elm, m.at, c)
  <2>4. CASE 2 * m.at + 1 < n
    <3>1. c \in m.at + 1 .. n - 1 /\ Shuffled(e, t, n) /\ Sinking(e, n, c)
      BY <2>2, <2>3, <2>4, SinkStep
    <3>2. H!Sink(n)[m] = [elm |-> e, at |-> c]
      BY <2>2, <2>4 DEF H!Sink, H!Exchange
    <3>3. e \in Seq(H!Slot)
      BY <3>1 DEF Shuffled, Filled
    <3> HIDE DEF e, c
    <3>4. c \in Nat /\ c < n /\ c >= k + 1
      BY <1>1, <2>2, <2>3, <2>4, <3>1
    <3>5. [elm |-> e, at |-> c] \in H!Moving
      BY <3>3, <3>4 DEF H!Moving
    <3> QED
      BY <2>1, <3>1, <3>2, <3>4, <3>5
  <2>5. CASE ~(2 * m.at + 1 < n)
    <3>1. H!Sink(n)[m] = m
      BY <2>2, <2>5 DEF H!Sink
    <3>2. 2 * m.at + 1 >= n
      BY <1>1, <2>3, <2>5
    <3> QED
      BY <2>1, <2>2, <3>1, <3>2
  <2> QED
    BY <2>4, <2>5
<1>4. H!Repeat(H!Sink(n), x, n) \in P[n]
  <2> HIDE DEF P, x
  <2> QED
    BY <1>1, <1>2, <1>3, LoopKeeps
<1> DEFINE m == H!Repeat(H!Sink(n), x, n)
<1>5. /\ Shuffled(m.elm, t, n)
      /\ m.at = 0 \/ m.at < n
      /\ Sinking(m.elm, n, m.at)
      /\ m.at >= n \/ 2 * m.at + 1 >= n
      /\ m.at \in Nat
  <2> HIDE DEF m
  <2>1. n \in 0 .. n
    BY <1>1
  <2>2. m \in P[n]
    BY <1>4 DEF m
  <2> QED
    BY <2>1, <2>2 DEF H!Moving
<1>6. H!Shiftup(s, n, 0) = H!Shiftdown(m.elm, m.at)
  BY DEF H!Shiftup
<1> HIDE DEF m
<1>7. Rising(m.elm, n, m.at)
  <2>1. ASSUME NEW i \in 1 .. n - 1 PROVE H!Parent(i) # m.at
    <3>1. i \in Nat /\ i # 0 /\ i < n
      BY <1>1
    <3>2. H!Parent(i) = m.at => i = 2 * m.at + 1 \/ i = 2 * m.at + 2
      BY <1>5, <3>1, Family
    <3> QED
      BY <1>1, <1>5, <3>1, <3>2
  <2> QED
    BY <1>5, <2>1 DEF Rising, Sinking
<1> QED
  BY <1>5, <1>6, <1>7, ShiftdownOrders

-----------------------------------------------------------------------------
(* The operations of a heap. *)

Items(h) == ItemsOf(h.elm, h.len)

(* A heap in order, whose array knows how many slots it has left. *)
Sound(h) ==
  /\ h \in H!Heap
  /\ Filled(h.elm, h.len)
  /\ \A i \in h.len + 1 .. Len(h.elm) : h.elm[i] = NULL
  /\ Ordered(h.elm, h.len)
  /\ Len(h.elm) + h.nrest = h.cap
  /\ h.cap > 0

LEMMA CreateSound == Sound(H!Create(InitSlots)) /\ Items(H!Create(InitSlots)) = {}
<1> DEFINE h == H!Create(InitSlots)
<1>1. H!ArrayCreate(InitSlots) \in Nat \ {0}
  BY HeapQueueAssumption DEF H!ArrayCreate
<1>2. /\ h = [elm |-> << >>, nrest |-> H!ArrayCreate(InitSlots), cap |-> H!ArrayCreate(InitSlots), len |-> 0]
      /\ << >> \in Seq(H!Slot)
  BY DEF H!Create
<1>3. /\ h \in H!Heap /\ h.elm = << >> /\ h.len = 0
      /\ h.nrest = h.cap /\ h.cap > 0 /\ h.cap \in Nat
  BY <1>1, <1>2 DEF H!Heap
<1> HIDE DEF h
<1>4. Len(h.elm) = 0 /\ h.elm \in Seq(H!Slot)
  BY <1>2, <1>3
<1>5. ItemsOf(h.elm, 0) = {} /\ Apart(h.elm, 0)
  BY DEF ItemsOf, Apart
<1>6. Filled(h.elm, 0)
  BY <1>4, <1>5 DEF Filled
<1>7. Ordered(h.elm, 0)
  BY DEF Ordered
<1>8. Len(h.elm) + h.nrest = h.cap
  BY <1>3, <1>4
<1> QED
  BY <1>3, <1>4, <1>5, <1>6, <1>7, <1>8 DEF Sound, Items, h

(* The fields of a sound heap. *)
LEMMA SoundFields ==
  ASSUME NEW h, Sound(h)
  PROVE  /\ h.elm \in Seq(H!Slot) /\ Len(h.elm) \in Nat /\ DOMAIN h.elm = 1 .. Len(h.elm)
         /\ h.len \in Nat /\ h.len <= Len(h.elm)
         /\ h.nrest \in Nat /\ h.cap \in Nat
         /\ \A i \in 1 .. h.len : h.elm[i] \in HqItem /\ h.elm[i] \in Items(h)
         /\ \A i, j \in 1 .. h.len : h.elm[i].obj = h.elm[j].obj => i = j
         /\ Items(h) \subseteq HqItem
         /\ \A x, y \in Items(h) : x.obj = y.obj => x = y
<1>1. /\ h.elm \in Seq(H!Slot) /\ Len(h.elm) \in Nat /\ DOMAIN h.elm = 1 .. Len(h.elm)
      /\ h.len \in Nat /\ h.nrest \in Nat /\ h.cap \in Nat
  BY DEF Sound, H!Heap
<1>2. h.len <= Len(h.elm) /\ Items(h) \subseteq HqItem
  BY DEF Sound, Filled, Items
<1>3. \A i \in 1 .. h.len : h.elm[i] \in Items(h)
  BY DEF Items, ItemsOf
<1>4. \A i, j \in 1 .. h.len : h.elm[i].obj = h.elm[j].obj => i = j
  BY DEF Sound, Filled, Apart
<1>5. \A x, y \in Items(h) : x.obj = y.obj => x = y
  BY <1>4 DEF Items, ItemsOf
<1> QED
  BY <1>1, <1>2, <1>3, <1>4, <1>5

(* The slot for a new item: an unused one, or one more of the array. *)
LEMMA SlotForPush ==
  ASSUME NEW h, Sound(h)
  PROVE  LET a == IF h.len = Len(h.elm) THEN H!ArrayPush(h) ELSE h
         IN  /\ a \in H!Heap /\ a.len = h.len
             /\ a.elm \in Seq(H!Slot) /\ Len(a.elm) \in Nat
             /\ h.len < Len(a.elm)
             /\ \A i \in 1 .. h.len : a.elm[i] = h.elm[i]
             /\ \A i \in h.len + 2 .. Len(a.elm) : a.elm[i] = NULL
             /\ Len(a.elm) + a.nrest = a.cap /\ a.cap > 0
<1> DEFINE a == IF h.len = Len(h.elm) THEN H!ArrayPush(h) ELSE h
<1>1. /\ h.elm \in Seq(H!Slot) /\ Len(h.elm) \in Nat
      /\ h.len \in Nat /\ h.len <= Len(h.elm)
      /\ h.nrest \in Nat /\ h.cap \in Nat
  BY SoundFields
<1>2. /\ h \in H!Heap /\ Len(h.elm) + h.nrest = h.cap /\ h.cap > 0
      /\ \A i \in h.len + 1 .. Len(h.elm) : h.elm[i] = NULL
  BY DEF Sound
<1>3. CASE h.len # Len(h.elm)
  <2>1. a = h /\ h.len < Len(h.elm)
    BY <1>1, <1>3
  <2>2. \A i \in h.len + 2 .. Len(h.elm) : i \in h.len + 1 .. Len(h.elm)
    BY <1>1
  <2> QED
    BY <1>1, <1>2, <2>1, <2>2
<1>4. CASE h.len = Len(h.elm)
  <2> DEFINE e == Append(h.elm, NULL)
             r == IF h.nrest > 0 THEN h.nrest - 1 ELSE Len(h.elm) - 1
             c == IF h.nrest > 0 THEN h.cap ELSE 2 * Len(h.elm)
  <2>1. NULL \in H!Slot
    BY DEF H!Slot
  <2>2. /\ e \in Seq(H!Slot) /\ Len(e) = Len(h.elm) + 1
        /\ \A i \in 1 .. Len(h.elm) : e[i] = h.elm[i]
    BY <1>1, <2>1, AppendProperties
  <2>3. r \in Nat /\ c \in Nat /\ Len(e) + r = c /\ c > 0
    <3>1. ASSUME NEW l \in Nat, NEW rest \in Nat, NEW cap \in Nat,
                 l + rest = cap, cap > 0
          PROVE  LET r2 == IF rest > 0 THEN rest - 1 ELSE l - 1
                     c2 == IF rest > 0 THEN cap ELSE 2 * l
                 IN  r2 \in Nat /\ c2 \in Nat /\ (l + 1) + r2 = c2 /\ c2 > 0
      BY <3>1
    <3>2. Len(e) = Len(h.elm) + 1
      BY <2>2
    <3> HIDE DEF e
    <3> QED
      BY <1>1, <1>2, <3>1, <3>2
  <2>4. a = [h EXCEPT !.elm = e, !.nrest = r, !.cap = c]
    BY <1>4 DEF H!ArrayPush
  <2> HIDE DEF e, r, c
  <2>5. a \in H!Heap /\ a.len = h.len /\ a.elm = e /\ a.nrest = r /\ a.cap = c
    BY <1>2, <2>2, <2>3, <2>4 DEF H!Heap
  <2> HIDE DEF a
  <2>6. \A i \in h.len + 2 .. Len(a.elm) : FALSE
    BY <1>1, <1>4, <2>2, <2>5
  <2>7. Len(a.elm) \in Nat /\ h.len < Len(a.elm)
    BY <1>1, <1>4, <2>2, <2>5
  <2> QED
    BY <1>4, <2>2, <2>3, <2>5, <2>6, <2>7 DEF a
<1> QED
  BY <1>3, <1>4

(* minheap_push adds the item. *)
LEMMA PushAdds ==
  ASSUME NEW h, Sound(h), NEW item \in HqItem, \A x \in Items(h) : x.obj # item.obj
  PROVE  LET p == H!Push(h, item)
         IN  Sound(p) /\ Items(p) = Items(h) \cup {item}
<1> DEFINE a == IF h.len = Len(h.elm) THEN H!ArrayPush(h) ELSE h
           l == h.len
           b == [a.elm EXCEPT ![l + 1] = item]
           n == l + 1
           s == H!Shiftdown(b, l)
           p == H!Push(h, item)
<1>1. /\ l \in Nat
      /\ \A i \in 1 .. l : h.elm[i] \in HqItem /\ h.elm[i] \in Items(h)
      /\ \A i, j \in 1 .. l : h.elm[i].obj = h.elm[j].obj => i = j
      /\ Items(h) \subseteq HqItem
  BY SoundFields
<1>2. /\ a \in H!Heap /\ a.len = l
      /\ a.elm \in Seq(H!Slot) /\ Len(a.elm) \in Nat
      /\ l < Len(a.elm)
      /\ \A i \in 1 .. l : a.elm[i] = h.elm[i]
      /\ \A i \in l + 2 .. Len(a.elm) : a.elm[i] = NULL
      /\ Len(a.elm) + a.nrest = a.cap /\ a.cap > 0
  BY SlotForPush
<1>3. p = [a EXCEPT !.elm = s, !.len = a.len + 1]
  BY DEF H!Push
<1> HIDE DEF a
<1>4. n \in 1 .. Len(a.elm) /\ item \in H!Slot /\ DOMAIN a.elm = 1 .. Len(a.elm)
  BY <1>1, <1>2 DEF H!Slot
<1>5. /\ b \in Seq(H!Slot) /\ Len(b) = Len(a.elm)
      /\ b[n] = item
      /\ \A i \in 1 .. Len(a.elm) : i # n => b[i] = a.elm[i]
  BY <1>2, <1>4
<1> HIDE DEF b
<1>6. n \in Nat /\ n <= Len(b) /\ \A i \in 1 .. n : i = n \/ i \in 1 .. l
  BY <1>1, <1>2, <1>5
<1>7. \A i \in 1 .. l : b[i] = h.elm[i]
  <2>1. \A i \in 1 .. l : i \in 1 .. Len(a.elm) /\ i # n
    BY <1>1, <1>2
  <2> HIDE DEF l, n
  <2> QED
    BY <1>2, <1>5, <2>1
<1>8. ItemsOf(b, n) = Items(h) \cup {item}
  <2>1. n \in 1 .. n /\ 1 .. l \subseteq 1 .. n
    BY <1>1
  <2>2. Items(h) = {h.elm[i] : i \in 1 .. l}
    BY DEF Items, ItemsOf
  <2> HIDE DEF l, n
  <2> QED
    BY <1>5, <1>6, <1>7, <2>1, <2>2 DEF ItemsOf
<1>9. Apart(b, n)
  <2> SUFFICES ASSUME NEW i \in 1 .. n, NEW j \in 1 .. n, b[i].obj = b[j].obj
               PROVE  i = j
    BY DEF Apart
  <2>1. \A k \in 1 .. l : b[k].obj # item.obj
    BY <1>1, <1>7
  <2> HIDE DEF l, n
  <2> QED
    BY <1>1, <1>5, <1>6, <1>7, <2>1
<1>10. Filled(b, n)
  <2> HIDE DEF l, n
  <2> QED
    BY <1>1, <1>5, <1>6, <1>8, <1>9 DEF Filled
<1>11. Shuffled(b, b, n)
  BY <1>10 DEF Shuffled
<1>12. Rising(b, n, l)
  <2>1. \A k \in 0 .. l - 1 : Score(b, k) = Score(h.elm, k)
    <3>1. \A k \in 0 .. l - 1 : k + 1 \in 1 .. l
      BY <1>1
    <3> HIDE DEF l
    <3> QED
      BY <1>7, <3>1 DEF Score, H!At
  <2>2. ASSUME NEW i \in 1 .. n - 1
        PROVE  i \in Nat /\ i # 0 /\ H!Parent(i) \in 0 .. l - 1 /\ H!Parent(i) # l
               /\ (i # l => i \in 1 .. l - 1 /\ i \in 0 .. l - 1)
    <3>1. i \in Nat /\ i # 0 /\ i <= l
      BY <1>1
    <3>2. H!Parent(i) \in Nat /\ H!Parent(i) < i
      BY <3>1, Family
    <3> QED
      BY <1>1, <3>1, <3>2
  <2>3. \A i \in 1 .. l - 1 : Score(h.elm, H!Parent(i)) <= Score(h.elm, i)
    BY DEF Sound, Ordered
  <2> HIDE DEF n, l
  <2> QED
    BY <2>1, <2>2, <2>3 DEF Rising
<1>13. Shuffled(s, b, n) /\ Ordered(s, n)
  <2>1. l \in Nat /\ l < n
    BY <1>1
  <2> HIDE DEF n, l
  <2> QED
    BY <1>11, <1>12, <2>1, ShiftdownOrders
<1>14. /\ Filled(s, n) /\ Len(s) = Len(a.elm) /\ ItemsOf(s, n) = ItemsOf(b, n)
       /\ \A i \in n + 1 .. Len(s) : s[i] = b[i]
       /\ s \in Seq(H!Slot)
  BY <1>5, <1>13 DEF Shuffled, Filled
<1> HIDE DEF s
<1> HIDE DEF p
<1>15. p \in H!Heap /\ p.elm = s /\ p.len = n /\ p.nrest = a.nrest /\ p.cap = a.cap
  <2>1. a \in H!Heap /\ a.len + 1 = n /\ n \in Nat /\ s \in Seq(H!Slot)
    BY <1>1, <1>2, <1>14
  <2> HIDE DEF n
  <2>2. p = [a EXCEPT !.elm = s, !.len = n]
    BY <1>3, <2>1
  <2> QED
    BY <2>1, <2>2 DEF H!Heap
<1>16. \A i \in n + 1 .. Len(s) : s[i] = NULL
  <2>1. \A i \in n + 1 .. Len(s) : i \in 1 .. Len(a.elm) /\ i # n /\ i \in l + 2 .. Len(a.elm)
    BY <1>1, <1>2, <1>14
  <2> HIDE DEF n, l
  <2> QED
    BY <1>2, <1>5, <1>14, <2>1
<1> HIDE DEF n, l
<1>17. Sound(p)
  BY <1>2, <1>13, <1>14, <1>15, <1>16 DEF Sound
<1>18. Items(p) = Items(h) \cup {item}
  BY <1>8, <1>14, <1>15 DEF Items
<1> QED
  BY <1>17, <1>18 DEF p

(* The first element of a heap is a least one. *)
LEMMA RootLeast ==
  ASSUME NEW h, Sound(h), h.len > 0
  PROVE  /\ h.elm[1] \in Items(h)
         /\ \A x \in Items(h) : h.elm[1].score <= x.score
<1>1. h.len \in Nat /\ \A i \in 1 .. h.len : h.elm[i] \in HqItem /\ h.elm[i] \in Items(h)
  BY SoundFields
<1>2. \A k \in 0 .. h.len - 1 : Score(h.elm, k) \in Int
  BY ScoreType DEF Sound
<1> DEFINE T == {k \in 0 .. h.len - 1 : ~(Score(h.elm, 0) <= Score(h.elm, k))}
<1>3. T = {}
  <2> SUFFICES ASSUME T # {} PROVE FALSE
    OBVIOUS
  <2>1. T \subseteq Nat
    OBVIOUS
  <2>2. PICK k \in T : \A j \in T : k <= j
    <3> HIDE DEF T
    <3> QED
      BY <2>1, FirstPosition
  <2>3. k \in 0 .. h.len - 1 /\ ~(Score(h.elm, 0) <= Score(h.elm, k))
    OBVIOUS
  <2>4. 0 \in 0 .. h.len - 1 /\ Score(h.elm, 0) \in Int /\ Score(h.elm, k) \in Int
    BY <1>1, <1>2, <2>3
  <2>5. k # 0
    BY <2>3, <2>4
  <2>6. k \in Nat /\ k \in 1 .. h.len - 1
    BY <1>1, <2>3, <2>5
  <2> DEFINE p == H!Parent(k)
  <2>7. p \in Nat /\ p < k
    BY <2>5, <2>6, Family
  <2>8. Score(h.elm, p) <= Score(h.elm, k)
    BY <2>6 DEF Sound, Ordered
  <2> HIDE DEF p
  <2>9. p \in 0 .. h.len - 1 /\ ~(k <= p)
    BY <1>1, <2>6, <2>7
  <2>10. p \notin T
    <3> HIDE DEF T
    <3> QED
      BY <2>2, <2>9
  <2>11. Score(h.elm, 0) <= Score(h.elm, p) /\ Score(h.elm, p) \in Int
    BY <1>2, <2>9, <2>10
  <2> QED
    BY <2>3, <2>4, <2>8, <2>11
<1>4. ASSUME NEW x \in Items(h)
      PROVE  h.elm[1].score <= x.score
  <2>1. PICK i \in 1 .. h.len : x = h.elm[i]
    BY DEF Items, ItemsOf
  <2>2. i - 1 \in 0 .. h.len - 1 /\ (i - 1) + 1 = i
    BY <1>1
  <2>3. Score(h.elm, 0) <= Score(h.elm, i - 1)
    BY <1>3, <2>2
  <2> QED
    BY <2>1, <2>2, <2>3 DEF Score, H!At
<1>5. 1 \in 1 .. h.len
  BY <1>1
<1> QED
  BY <1>1, <1>4, <1>5

(* minheap_pop takes the first element out. *)
LEMMA PopTakesRoot ==
  ASSUME NEW h, Sound(h), h.len > 0
  PROVE  /\ H!Pop(h).item = h.elm[1]
         /\ Sound(H!Pop(h).heap)
         /\ Items(H!Pop(h).heap) = Items(h) \ {h.elm[1]}
         /\ H!Pop(h).heap.len = h.len - 1
<1> DEFINE n == h.len - 1
           w == H!Swap(h.elm, 0, n)
           s == H!Shiftup(w, n, 0)
           e == [s EXCEPT ![n + 1] = NULL]
           q == [h EXCEPT !.elm = e, !.len = n]
<1>1. /\ h.elm \in Seq(H!Slot) /\ Len(h.elm) \in Nat /\ DOMAIN h.elm = 1 .. Len(h.elm)
      /\ h.len \in Nat /\ h.len <= Len(h.elm)
      /\ h \in H!Heap
  BY SoundFields DEF Sound
<1>2. n \in Nat /\ n + 1 = h.len /\ 0 \in 0 .. h.len - 1 /\ n \in 0 .. h.len - 1
  BY <1>1
<1>3. H!Pop(h) = [item |-> s[n + 1], heap |-> q]
  BY DEF H!Pop, H!At
<1>4. Shuffled(h.elm, h.elm, h.len)
  BY DEF Shuffled, Sound
<1> HIDE DEF n
<1>5. /\ Shuffled(w, h.elm, h.len)
      /\ \A k \in 0 .. h.len - 1 : k # 0 /\ k # n => Score(w, k) = Score(h.elm, k)
  BY <1>2, <1>4, SwapShuffles
<1>6. w[n + 1] = h.elm[1]
  <2>1. 1 \in DOMAIN h.elm /\ n + 1 \in DOMAIN h.elm
    BY <1>1, <1>2
  <2> QED
    BY <1>2, <2>1 DEF H!Swap, H!At
<1> HIDE DEF w
<1>7. /\ Filled(w, h.len) /\ Len(w) = Len(h.elm) /\ ItemsOf(w, h.len) = Items(h)
      /\ \A i \in h.len + 1 .. Len(h.elm) : w[i] = h.elm[i]
  BY <1>5 DEF Shuffled, Items
<1>8. 1 .. n \subseteq 1 .. h.len /\ h.len \in 1 .. h.len /\ h.len \notin 1 .. n
      /\ \A i \in 1 .. h.len : i = h.len \/ i \in 1 .. n
  BY <1>1, <1>2
<1>9. ItemsOf(w, n) = Items(h) \ {h.elm[1]}
  <2>1. w[h.len] = h.elm[1]
    BY <1>2, <1>6
  <2>2. \A i \in 1 .. n : w[i] # w[h.len]
    BY <1>7, <1>8 DEF Filled, Apart
  <2> QED
    BY <1>7, <1>8, <2>1, <2>2 DEF ItemsOf
<1>10. Filled(w, n)
  <2>1. n <= Len(w) /\ w \in Seq(H!Slot)
    BY <1>1, <1>2, <1>7 DEF Filled
  <2>2. Apart(w, n)
    BY <1>7, <1>8 DEF Filled, Apart
  <2>3. ItemsOf(w, n) \subseteq HqItem
    BY <1>7, <1>8 DEF Filled, ItemsOf
  <2> QED
    BY <1>2, <2>1, <2>2, <2>3 DEF Filled
<1>11. Shuffled(w, w, n)
  BY <1>10 DEF Shuffled
<1>12. Sinking(w, n, 0)
  <2>1. ASSUME NEW i \in 1 .. n - 1, H!Parent(i) # 0
        PROVE  Score(w, H!Parent(i)) <= Score(w, i)
    <3>1. i \in Nat /\ i # 0 /\ i # n /\ i \in 0 .. h.len - 1 /\ i \in 1 .. h.len - 1
      BY <1>1, <1>2
    <3>2. H!Parent(i) \in Nat /\ H!Parent(i) < i
      BY <3>1, Family
    <3>3. H!Parent(i) \in 0 .. h.len - 1 /\ H!Parent(i) # n
      BY <1>1, <1>2, <3>1, <3>2
    <3>4. Score(h.elm, H!Parent(i)) <= Score(h.elm, i)
      BY <3>1 DEF Sound, Ordered
    <3> QED
      BY <1>5, <2>1, <3>1, <3>3, <3>4
  <2> QED
    BY <2>1 DEF Sinking
<1>13. Shuffled(s, w, n) /\ Ordered(s, n)
  BY <1>11, <1>12, ShiftupOrders
<1> HIDE DEF s
<1>14. /\ Filled(s, n) /\ Len(s) = Len(h.elm) /\ ItemsOf(s, n) = ItemsOf(w, n)
       /\ \A i \in n + 1 .. Len(h.elm) : s[i] = w[i]
       /\ s \in Seq(H!Slot) /\ DOMAIN s = 1 .. Len(h.elm)
  BY <1>7, <1>13 DEF Shuffled, Filled
<1>15. n + 1 \in n + 1 .. Len(h.elm) /\ n + 1 \in 1 .. Len(h.elm)
  BY <1>1, <1>2
<1>16. s[n + 1] = h.elm[1]
  BY <1>6, <1>14, <1>15
<1>17. /\ e \in Seq(H!Slot) /\ Len(e) = Len(h.elm) /\ e[n + 1] = NULL
       /\ \A i \in 1 .. Len(h.elm) : i # n + 1 => e[i] = s[i]
  <2>1. NULL \in H!Slot
    BY DEF H!Slot
  <2> QED
    BY <1>1, <1>14, <1>15, <2>1
<1> HIDE DEF e
<1>18. \A i \in 1 .. n : e[i] = s[i] /\ i \in 1 .. Len(h.elm)
  BY <1>1, <1>2, <1>17
<1>19. Filled(e, n) /\ ItemsOf(e, n) = ItemsOf(s, n)
  <2>1. ItemsOf(e, n) = ItemsOf(s, n)
    BY <1>18 DEF ItemsOf
  <2>2. Apart(e, n)
    BY <1>14, <1>18 DEF Filled, Apart
  <2> QED
    BY <1>14, <1>17, <2>1, <2>2 DEF Filled
<1>20. Ordered(e, n)
  <2>1. \A k \in 0 .. n - 1 : Score(e, k) = Score(s, k)
    <3>1. \A k \in 0 .. n - 1 : k + 1 \in 1 .. n
      BY <1>2
    <3> QED
      BY <1>18, <3>1 DEF Score, H!At
  <2>2. ASSUME NEW i \in 1 .. n - 1 PROVE i \in 0 .. n - 1 /\ H!Parent(i) \in 0 .. n - 1
    <3>1. i \in Nat /\ i # 0
      OBVIOUS
    <3>2. H!Parent(i) \in Nat /\ H!Parent(i) < i
      BY <3>1, Family
    <3> QED
      BY <1>2, <3>1, <3>2
  <2> QED
    BY <1>13, <2>1, <2>2 DEF Ordered
<1>21. \A i \in n + 1 .. Len(e) : e[i] = NULL
  <2> SUFFICES ASSUME NEW i \in n + 1 .. Len(e), i # n + 1 PROVE e[i] = NULL
    BY <1>17
  <2>1. i \in n + 1 .. Len(h.elm) /\ i \in h.len + 1 .. Len(h.elm) /\ i \in 1 .. Len(h.elm)
    BY <1>1, <1>2, <1>17
  <2>2. h.elm[i] = NULL
    BY <2>1 DEF Sound
  <2> QED
    BY <1>7, <1>14, <1>17, <2>1, <2>2
<1>22. q \in H!Heap /\ q.elm = e /\ q.len = n /\ q.nrest = h.nrest /\ q.cap = h.cap
  BY <1>1, <1>2, <1>17 DEF H!Heap
<1> HIDE DEF q
<1>23. Sound(q)
  <2>1. Len(h.elm) + h.nrest = h.cap /\ h.cap > 0
    BY DEF Sound
  <2> QED
    BY <1>17, <1>19, <1>20, <1>21, <1>22, <2>1 DEF Sound
<1>24. Items(q) = Items(h) \ {h.elm[1]}
  BY <1>9, <1>14, <1>19, <1>22 DEF Items
<1> QED
  BY <1>3, <1>16, <1>22, <1>23, <1>24 DEF n

(* What k calls of minheap_pop have made of heap h: the items taken out and *)
(* the heap left.                                                           *)
Popping == [items: Seq(HqItem), heap: H!Heap]

Taken(h, p, k) ==
  /\ Sound(p.heap)
  /\ p.heap.len = h.len - k
  /\ Len(p.items) = k
  /\ Items(h) = Items(p.heap) \cup ItemsOf(p.items, k)
  /\ \A i \in 1 .. k : \A x \in Items(p.heap) :
       p.items[i] # x /\ p.items[i].score <= x.score
  /\ \A i, j \in 1 .. k :
       i < j => p.items[i] # p.items[j] /\ p.items[i].score <= p.items[j].score

LEMMA PopNextTakes ==
  ASSUME NEW h, NEW k \in Nat, NEW p \in Popping, Taken(h, p, k), h.len \in Nat, k < h.len
  PROVE  H!PopNext[p] \in Popping /\ Taken(h, H!PopNext[p], k + 1)
<1> DEFINE g == p.heap
           x == g.elm[1]
           r == H!Pop(g)
           out == Append(p.items, x)
           q == [items |-> out, heap |-> r.heap]
<1>1. Sound(g) /\ g.len > 0 /\ g.len = h.len - k /\ p.items \in Seq(HqItem) /\ Len(p.items) = k
  BY DEF Taken, Popping
<1>2. /\ r.item = x /\ Sound(r.heap) /\ Items(r.heap) = Items(g) \ {x}
      /\ r.heap.len = g.len - 1
  BY <1>1, PopTakesRoot
<1>3. x \in Items(g) /\ \A y \in Items(g) : x.score <= y.score
  BY <1>1, RootLeast
<1>4. Items(g) \subseteq HqItem
  BY <1>1, SoundFields
<1>5. H!PopNext[p] = q
  BY <1>2 DEF H!PopNext, Popping
<1> HIDE DEF g, x, r
<1>6. /\ out \in Seq(HqItem) /\ Len(out) = k + 1 /\ out[k + 1] = x
      /\ \A i \in 1 .. k : out[i] = p.items[i]
  BY <1>1, <1>3, <1>4, AppendProperties
<1> HIDE DEF out
<1>7. q \in Popping /\ q.items = out /\ q.heap = r.heap
  BY <1>2, <1>6 DEF Popping, Sound
<1> HIDE DEF q
<1>8. \A i \in 1 .. k + 1 : i = k + 1 \/ i \in 1 .. k
  OBVIOUS
<1>9. k + 1 \in 1 .. k + 1 /\ 1 .. k \subseteq 1 .. k + 1
  OBVIOUS
<1>10. q.heap.len = h.len - (k + 1)
  BY <1>1, <1>2, <1>7
<1>11. /\ Items(h) = Items(g) \cup ItemsOf(p.items, k)
       /\ \A i \in 1 .. k : \A y \in Items(g) : p.items[i] # y /\ p.items[i].score <= y.score
       /\ \A i, j \in 1 .. k :
            i < j => p.items[i] # p.items[j] /\ p.items[i].score <= p.items[j].score
  BY DEF Taken, g
<1>12. Items(h) = Items(q.heap) \cup ItemsOf(q.items, k + 1)
  <2>1. ItemsOf(out, k + 1) = ItemsOf(p.items, k) \cup {x}
    BY <1>6, <1>8, <1>9 DEF ItemsOf
  <2> QED
    BY <1>2, <1>3, <1>7, <1>11, <2>1
<1>13. \A i \in 1 .. k + 1 : \A y \in Items(q.heap) :
         q.items[i] # y /\ q.items[i].score <= y.score
  BY <1>2, <1>3, <1>6, <1>7, <1>8, <1>11
<1>14. ASSUME NEW i \in 1 .. k + 1, NEW j \in 1 .. k + 1, i < j
       PROVE  q.items[i] # q.items[j] /\ q.items[i].score <= q.items[j].score
  <2>1. i \in 1 .. k
    BY <1>14
  <2>2. CASE j = k + 1
    BY <1>3, <1>6, <1>7, <1>11, <2>1, <2>2
  <2>3. CASE j \in 1 .. k
    BY <1>6, <1>7, <1>11, <1>14, <2>1, <2>3
  <2> QED
    BY <1>8, <2>2, <2>3
<1>15. Len(q.items) = k + 1 /\ Sound(q.heap)
  BY <1>2, <1>6, <1>7
<1>16. Taken(h, q, k + 1)
  BY <1>10, <1>12, <1>13, <1>14, <1>15 DEF Taken
<1> QED
  BY <1>5, <1>7, <1>16

LEMMA PopNTakes ==
  ASSUME NEW h, Sound(h), NEW n \in Nat, n <= h.len
  PROVE  H!PopN(h, n) \in Popping /\ Taken(h, H!PopN(h, n), n)
<1> DEFINE P == [k \in 0 .. n |-> {p \in Popping : Taken(h, p, k)}]
           x == [items |-> << >>, heap |-> h]
<1>1. h.len \in Nat /\ h \in H!Heap
  BY SoundFields DEF Sound
<1>2. x \in P[0]
  <2>1. x \in Popping /\ x.items = << >> /\ x.heap = h
    BY <1>1 DEF Popping
  <2>2. h.len = h.len - 0 /\ Len(x.items) = 0
    BY <1>1, <2>1
  <2>3. ItemsOf(x.items, 0) = {}
    BY DEF ItemsOf
  <2> HIDE DEF x
  <2>4. Taken(h, x, 0)
    BY <2>1, <2>2, <2>3 DEF Taken
  <2>5. 0 \in 0 .. n
    OBVIOUS
  <2> QED
    BY <2>1, <2>4, <2>5
<1>3. ASSUME NEW k \in 0 .. n - 1, NEW p \in P[k]
      PROVE  H!PopNext[p] \in P[k + 1]
  <2>1. k \in 0 .. n /\ k + 1 \in 0 .. n /\ k \in Nat /\ k < h.len
    BY <1>1
  <2>2. p \in Popping /\ Taken(h, p, k)
    BY <2>1
  <2>3. H!PopNext[p] \in Popping /\ Taken(h, H!PopNext[p], k + 1)
    BY <1>1, <2>1, <2>2, PopNextTakes
  <2> QED
    BY <2>1, <2>3
<1>4. H!Repeat(H!PopNext, x, n) \in P[n]
  <2> HIDE DEF P, x
  <2> QED
    BY <1>2, <1>3, LoopKeeps
<1>5. H!PopN(h, n) = H!Repeat(H!PopNext, x, n)
  BY DEF H!PopN
<1>6. n \in 0 .. n
  OBVIOUS
<1> HIDE DEF x
<1> QED
  BY <1>4, <1>5, <1>6

-----------------------------------------------------------------------------
(* The commands. *)

Contents(h) == IF h = NULL THEN {} ELSE Items(h)

ObjectsIn(I) == {x.obj : x \in I}

Sane(h) == h = NULL \/ Sound(h)

(* The inductive invariant.  An object has a reference if it is in the      *)
(* queue or was in one that was freed, and is never in both.                *)
IInv ==
  /\ Sane(hq)
  /\ orphans \subseteq Objects
  /\ ObjectsIn(Contents(hq)) \cap orphans = {}
  /\ ref = [o \in Objects |-> IF o \in ObjectsIn(Contents(hq)) \cup orphans THEN 1 ELSE 0]

(* No queue is not a heap. *)
LEMMA HeapIsNotNull ==
  ASSUME NEW h, Sound(h)
  PROVE  h # NULL /\ Sane(h) /\ Contents(h) = Items(h)
BY HeapQueueAssumption DEF Sound, Sane, Contents

LEMMA SaneContents ==
  ASSUME NEW h, Sane(h)
  PROVE  /\ Contents(h) \subseteq HqItem
         /\ \A x, y \in Contents(h) : x.obj = y.obj => x = y
         /\ ObjectsIn(Contents(h)) \subseteq Objects
<1>1. /\ Contents(h) \subseteq HqItem
      /\ \A x, y \in Contents(h) : x.obj = y.obj => x = y
  BY SoundFields DEF Sane, Contents
<1> QED
  BY <1>1 DEF ObjectsIn, HqItem

LEMMA QueuedContents ==
  ASSUME Sane(hq)
  PROVE  /\ Queued = ObjectsIn(Contents(hq))
         /\ hq # NULL => Sound(hq) /\ hq.len \in Nat /\ Len0 = hq.len
         /\ Len0 > 0 => hq # NULL
BY SoundFields, HeapIsNotNull DEF Sane, Queued, Len0, Contents, ObjectsIn, Items, ItemsOf

LEMMA PushEffect ==
  ASSUME IInv, NEW o \in Objects, NEW s \in Scores, RrCmdHqpush(o, s)
  PROVE  /\ Sound(hq')
         /\ o \notin ObjectsIn(Contents(hq)) \cup orphans
         /\ Contents(hq') = Contents(hq) \cup {[score |-> s, obj |-> o]}
<1> DEFINE item == [score |-> s, obj |-> o]
           h == IF hq = NULL THEN H!Create(InitSlots) ELSE hq
<1>1. Sound(h) /\ Items(h) = Contents(hq)
  BY CreateSound, HeapIsNotNull DEF IInv, Sane, Contents
<1>2. item \in HqItem /\ item.obj = o
  BY DEF HqItem
<1>3. o \notin ObjectsIn(Contents(hq)) \cup orphans
  BY DEF IInv, RrCmdHqpush
<1>4. hq' = H!Push(h, item)
  BY DEF RrCmdHqpush
<1> HIDE DEF h, item
<1>5. \A x \in Items(h) : x.obj # item.obj
  BY <1>1, <1>2, <1>3 DEF ObjectsIn
<1>6. Sound(hq') /\ Items(hq') = Items(h) \cup {item}
  BY <1>1, <1>2, <1>4, <1>5, PushAdds
<1> QED
  BY <1>1, <1>3, <1>6, HeapIsNotNull DEF item

LEMMA PopEffect ==
  ASSUME IInv, RrCmdHqpop
  PROVE  /\ Sound(hq) /\ hq.len > 0 /\ Sound(hq')
         /\ Contents(hq') = Contents(hq) \ {hq.elm[1]}
         /\ reply' = [announced |-> 1, objects |-> <<hq.elm[1].obj>>]
         /\ ref' = Released({hq.elm[1].obj})
         /\ UNCHANGED orphans
<1>1. Sound(hq) /\ hq.len > 0
  BY QueuedContents DEF IInv, RrCmdHqpop
<1>2. /\ hq' = H!Pop(hq).heap
      /\ reply' = [announced |-> 1, objects |-> <<H!Pop(hq).item.obj>>]
      /\ ref' = Released({H!Pop(hq).item.obj})
      /\ UNCHANGED orphans
  BY DEF RrCmdHqpop
<1>3. /\ H!Pop(hq).item = hq.elm[1]
      /\ Sound(H!Pop(hq).heap)
      /\ Items(H!Pop(hq).heap) = Items(hq) \ {hq.elm[1]}
  BY <1>1, PopTakesRoot
<1>4. Sound(hq') /\ Items(hq') = Items(hq) \ {hq.elm[1]}
  BY <1>2, <1>3
<1> QED
  BY <1>1, <1>2, <1>3, <1>4, HeapIsNotNull

(* The items qpopn takes are those n calls of minheap_pop return. *)
LEMMA PopnEffect ==
  ASSUME IInv, NEW n \in Nat, RrCmdHqpopn(n)
  PROVE  \E k \in Nat, p \in Popping :
           /\ Sound(hq) /\ k = (IF n < hq.len THEN n ELSE hq.len)
           /\ Taken(hq, p, k)
           /\ hq' = p.heap
           /\ reply' = [announced |-> k, objects |-> [i \in 1 .. k |-> p.items[i].obj]]
           /\ ref' = Released({p.items[i].obj : i \in 1 .. k})
           /\ UNCHANGED orphans
<1> DEFINE k == IF n < hq.len THEN n ELSE hq.len
           p == H!PopN(hq, k)
           out == [i \in 1 .. k |-> p.items[i].obj]
<1>1. Sound(hq) /\ hq.len \in Nat
  BY QueuedContents DEF IInv, RrCmdHqpopn
<1>2. k \in Nat /\ k <= hq.len
  BY <1>1
<1>3. /\ hq' = p.heap
      /\ reply' = [announced |-> k, objects |-> out]
      /\ ref' = Released({out[i] : i \in 1 .. k})
      /\ UNCHANGED orphans
  BY DEF RrCmdHqpopn, Announced
<1>4. k = IF n < hq.len THEN n ELSE hq.len
  OBVIOUS
<1> HIDE DEF k
<1>5. p \in Popping /\ Taken(hq, p, k)
  BY <1>1, <1>2, PopNTakes
<1>6. {out[i] : i \in 1 .. k} = {p.items[i].obj : i \in 1 .. k}
  OBVIOUS
<1> HIDE DEF p
<1> QED
  BY <1>1, <1>2, <1>3, <1>4, <1>5, <1>6

(* Taking items out of the queue drops its references to their objects. *)
LEMMA TakingKeepsIInv ==
  ASSUME IInv, Sane(hq'), NEW X, X \subseteq Contents(hq), Contents(hq') = Contents(hq) \ X,
         ref' = Released(ObjectsIn(X)), UNCHANGED orphans
  PROVE  IInv'
<1> DEFINE old == ObjectsIn(Contents(hq))
           new == ObjectsIn(Contents(hq'))
           gone == ObjectsIn(X)
<1>1. \A x, y \in Contents(hq) : x.obj = y.obj => x = y
  BY SaneContents DEF IInv
<1>2. new = old \ gone /\ gone \subseteq old
  BY <1>1 DEF ObjectsIn
<1>3. /\ orphans \subseteq Objects /\ old \cap orphans = {}
      /\ ref = [o \in Objects |-> IF o \in old \cup orphans THEN 1 ELSE 0]
  BY DEF IInv
<1>4. ref' = [o \in Objects |-> IF o \in gone THEN ref[o] - 1 ELSE ref[o]]
  BY DEF Released
<1> HIDE DEF old, new, gone
<1>5. ref' = [o \in Objects |-> IF o \in new \cup orphans THEN 1 ELSE 0]
  <2>1. \A o \in Objects : (IF o \in gone THEN ref[o] - 1 ELSE ref[o])
                           = (IF o \in new \cup orphans THEN 1 ELSE 0)
    BY <1>2, <1>3
  <2> QED
    BY <1>4, <2>1
<1>6. new \cap orphans = {}
  BY <1>2, <1>3
<1> QED
  BY <1>3, <1>5, <1>6 DEF IInv, new

LEMMA CountType == Cardinality(Objects) \in Nat
BY HeapQueueAssumption, FS_CardinalityType

(* What qpopn leaves and hands out. *)
LEMMA TakenItems ==
  ASSUME NEW h, Sound(h), NEW k \in Nat, NEW p \in Popping, Taken(h, p, k)
  PROVE  /\ Sane(p.heap) /\ ItemsOf(p.items, k) \subseteq Contents(h)
         /\ Contents(p.heap) = Contents(h) \ ItemsOf(p.items, k)
         /\ \A i \in 1 .. k : p.items[i] \in ItemsOf(p.items, k)
         /\ ObjectsIn(ItemsOf(p.items, k)) = {p.items[i].obj : i \in 1 .. k}
<1>1. Contents(h) = Items(h) /\ Contents(p.heap) = Items(p.heap) /\ Sane(p.heap)
  BY HeapIsNotNull DEF Taken
<1> QED
  BY <1>1 DEF Taken, ItemsOf, ObjectsIn

LEMMA IInvInit == Init => IInv
<1> SUFFICES ASSUME Init PROVE IInv
  OBVIOUS
<1>1. Contents(hq) = {} /\ ObjectsIn({}) = {} /\ Sane(hq)
  BY DEF Init, Contents, ObjectsIn, Sane
<1> QED
  BY <1>1 DEF Init, IInv

LEMMA IInvNext == IInv /\ [Next]_vars => IInv'
<1> SUFFICES ASSUME IInv, [Next]_vars PROVE IInv'
  OBVIOUS
<1>1. ASSUME NEW o \in Objects, NEW s \in Scores, RrCmdHqpush(o, s)
      PROVE  IInv'
  <2> DEFINE item == [score |-> s, obj |-> o]
             old == ObjectsIn(Contents(hq))
             new == ObjectsIn(Contents(hq'))
  <2>1. /\ Sound(hq')
        /\ o \notin old \cup orphans
        /\ Contents(hq') = Contents(hq) \cup {item}
    BY <1>1, PushEffect
  <2>2. new = old \cup {o}
    <3>1. item.obj = o
      OBVIOUS
    <3> HIDE DEF item
    <3> QED
      BY <2>1, <3>1 DEF ObjectsIn
  <2>3. /\ orphans \subseteq Objects /\ old \cap orphans = {}
        /\ ref = [x \in Objects |-> IF x \in old \cup orphans THEN 1 ELSE 0]
    BY DEF IInv
  <2>4. ref' = [ref EXCEPT ![o] = 1] /\ orphans' = orphans
    BY <1>1 DEF RrCmdHqpush
  <2> HIDE DEF old, new
  <2>5. ref' = [x \in Objects |-> IF x \in new \cup orphans THEN 1 ELSE 0]
    BY <2>2, <2>3, <2>4
  <2>6. new \cap orphans = {}
    BY <2>1, <2>2, <2>3
  <2>7. Sane(hq')
    BY <2>1, HeapIsNotNull
  <2> QED
    BY <2>3, <2>4, <2>5, <2>6, <2>7 DEF IInv, new
<1>2. CASE UNCHANGED <<hq, ref, orphans>>
  BY <1>2 DEF IInv
<1>3. CASE RrCmdHqpop
  <2>1. /\ Sound(hq) /\ hq.len > 0 /\ Sound(hq')
        /\ Contents(hq') = Contents(hq) \ {hq.elm[1]}
        /\ ref' = Released({hq.elm[1].obj})
        /\ UNCHANGED orphans
    BY <1>3, PopEffect
  <2>2. {hq.elm[1]} \subseteq Contents(hq) /\ Sane(hq')
    BY <2>1, RootLeast, HeapIsNotNull
  <2>3. ObjectsIn({hq.elm[1]}) = {hq.elm[1].obj}
    BY DEF ObjectsIn
  <2>4. ref' = Released(ObjectsIn({hq.elm[1]}))
    BY <2>1, <2>3
  <2> QED
    BY <2>1, <2>2, <2>4, TakingKeepsIInv
<1>4. ASSUME NEW n \in 0 .. Cardinality(Objects), RrCmdHqpopn(n)
      PROVE  IInv'
  <2>1. n \in Nat
    BY CountType
  <2>2. PICK k \in Nat, p \in Popping :
          /\ Sound(hq)
          /\ Taken(hq, p, k)
          /\ hq' = p.heap
          /\ ref' = Released({p.items[i].obj : i \in 1 .. k})
          /\ UNCHANGED orphans
    BY <1>4, <2>1, PopnEffect
  <2> DEFINE X == ItemsOf(p.items, k)
  <2>3. /\ Sane(p.heap) /\ X \subseteq Contents(hq)
        /\ Contents(p.heap) = Contents(hq) \ X
        /\ ObjectsIn(X) = {p.items[i].obj : i \in 1 .. k}
    BY <2>2, TakenItems
  <2> HIDE DEF X
  <2>4. Sane(hq') /\ Contents(hq') = Contents(hq) \ X /\ ref' = Released(ObjectsIn(X))
    BY <2>2, <2>3
  <2> QED
    BY <2>2, <2>3, <2>4, TakingKeepsIInv
<1>5. CASE FreeHeapqObject
  <2>1. hq' = NULL /\ orphans' = orphans \cup ObjectsIn(Contents(hq)) /\ ref' = ref
    BY <1>5, QueuedContents DEF FreeHeapqObject, IInv
  <2>2. Contents(hq') = {} /\ ObjectsIn({}) = {} /\ Sane(hq')
    BY <2>1 DEF Contents, ObjectsIn, Sane
  <2>3. ObjectsIn(Contents(hq)) \subseteq Objects
    BY SaneContents DEF IInv
  <2>4. orphans' \subseteq Objects /\ ObjectsIn(Contents(hq')) \cup orphans' = ObjectsIn(Contents(hq)) \cup orphans
    BY <2>1, <2>2, <2>3 DEF IInv
  <2> QED
    BY <2>1, <2>2, <2>4 DEF IInv
<1>6. CASE Refused \/ NoQueue \/ NothingQueued \/ RrCmdHqpeek \/ UNCHANGED vars
  BY <1>2, <1>6 DEF Refused, NoQueue, NothingQueued, RrCmdHqpeek, vars
<1> QED
  BY <1>1, <1>3, <1>4, <1>5, <1>6 DEF Next

LEMMA AlwaysIInv == Spec => []IInv
BY IInvInit, IInvNext, PTL DEF Spec

(* The array of a queue is a heap at all times, whatever is pushed and      *)
(* popped: both loops of rr_minheap.c restore the order, and array_push and *)
(* minheap_push agree about which slots are in use.                         *)
THEOREM QueueIsHeap == Spec => []HeapOrdered
<1>1. IInv => HeapOrdered
  <2> SUFFICES ASSUME IInv, hq # NULL
               PROVE  /\ hq \in H!Heap
                      /\ hq.len <= Len(hq.elm)
                      /\ \A i \in 1..Len(hq.elm) : i <= hq.len <=> hq.elm[i] # NULL
                      /\ \A i \in 1..(hq.len - 1) :
                           ~ hq_cmp(H!At(hq.elm, i), H!At(hq.elm, H!Parent(i)))
                      /\ Len(hq.elm) + hq.nrest = hq.cap
    BY DEF HeapOrdered
  <2>1. Sound(hq)
    BY DEF IInv, Sane
  <2>2. /\ Len(hq.elm) \in Nat /\ hq.len \in Nat /\ hq.len <= Len(hq.elm)
        /\ \A i \in 1 .. hq.len : hq.elm[i] \in HqItem
    BY <2>1, SoundFields
  <2>3. ASSUME NEW i \in 1 .. Len(hq.elm) PROVE i <= hq.len <=> hq.elm[i] # NULL
    <3>1. CASE i <= hq.len
      BY <2>2, <3>1, HeapQueueAssumption
    <3>2. CASE ~(i <= hq.len)
      BY <2>1, <2>2, <3>2 DEF Sound
    <3> QED
      BY <3>1, <3>2
  <2>4. ASSUME NEW i \in 1 .. (hq.len - 1)
        PROVE  ~ hq_cmp(H!At(hq.elm, i), H!At(hq.elm, H!Parent(i)))
    <3>1. i \in Nat /\ i # 0
      OBVIOUS
    <3>2. H!Parent(i) \in Nat /\ H!Parent(i) < i
      BY <3>1, Family
    <3>3. i \in 0 .. hq.len - 1 /\ H!Parent(i) \in 0 .. hq.len - 1
      BY <2>2, <3>1, <3>2
    <3>4. Score(hq.elm, i) \in Int /\ Score(hq.elm, H!Parent(i)) \in Int
      BY <2>1, <3>3, ScoreType DEF Sound
    <3>5. Score(hq.elm, H!Parent(i)) <= Score(hq.elm, i)
      BY <2>1 DEF Sound, Ordered
    <3> QED
      BY <3>4, <3>5 DEF hq_cmp, Score
  <2> QED
    BY <2>1, <2>2, <2>3, <2>4 DEF Sound
<1> QED
  BY <1>1, AlwaysIInv, PTL

(* Every command that moves an object in or out of a queue leaves it with   *)
(* the reference the queue holds, and no other.                             *)
THEOREM QueueHoldsOneReference == Spec => []ReferencesExact
<1>1. IInv => ReferencesExact
  <2> SUFFICES ASSUME IInv, NEW o \in Objects
               PROVE  ref[o] = Cardinality({i \in 1..Len0 : hq.elm[i].obj = o})
                               + (IF o \in orphans THEN 1 ELSE 0)
    BY DEF ReferencesExact
  <2> DEFINE I == {i \in 1..Len0 : hq.elm[i].obj = o}
  <2> SUFFICES ref[o] = Cardinality(I) + (IF o \in orphans THEN 1 ELSE 0)
    OBVIOUS
  <2>1. /\ ref[o] = IF o \in Queued \cup orphans THEN 1 ELSE 0
        /\ Queued \cap orphans = {}
    BY QueuedContents DEF IInv
  <2>2. CASE o \in Queued
    <3>1. PICK i \in 1 .. Len0 : hq.elm[i].obj = o
      BY <2>2 DEF Queued
    <3>2. hq # NULL
      <4>1. hq = NULL => 1 .. Len0 = {}
        BY DEF Len0
      <4> QED
        BY <3>1, <4>1
    <3>3. Sound(hq) /\ Len0 = hq.len
      BY <3>2, QueuedContents DEF IInv
    <3>4. \A j \in 1 .. Len0 : hq.elm[j].obj = hq.elm[i].obj => j = i
      BY <3>1, <3>3, SoundFields
    <3>5. I = {i}
      BY <3>1, <3>4
    <3>6. Cardinality(I) = 1
      BY <3>5, FS_Singleton
    <3>7. ref[o] = 1 /\ o \notin orphans
      BY <2>1, <2>2
    <3> HIDE DEF I
    <3> QED
      BY <3>6, <3>7
  <2>3. CASE o \notin Queued
    <3>1. I = {}
      BY <2>3 DEF Queued
    <3>2. Cardinality({}) = 0
      BY FS_EmptySet
    <3>3. ref[o] = IF o \in orphans THEN 1 ELSE 0
      BY <2>1, <2>3
    <3>4. Cardinality(I) = 0
      BY <3>1, <3>2
    <3> HIDE DEF I
    <3> QED
      BY <3>3, <3>4
  <2> QED
    BY <2>2, <2>3
<1> QED
  BY <1>1, AlwaysIInv, PTL

-----------------------------------------------------------------------------
(* The commands implement a priority queue. *)

(* The scores of the objects of queue h. *)
ScoreMap(h) ==
  LET n == IF h = NULL THEN 0 ELSE h.len
  IN  [o \in {h.elm[i].obj : i \in 1 .. n} |->
         h.elm[CHOOSE i \in 1 .. n : h.elm[i].obj = o].score]

(* c gives the objects of the items in I their scores. *)
ItemsScored(I, c) ==
  /\ DOMAIN c = ObjectsIn(I)
  /\ c = [o \in DOMAIN c |-> c[o]]
  /\ \A x \in I : c[x.obj] = x.score

LEMMA ScoreMapScores ==
  ASSUME NEW h, Sane(h)
  PROVE  ItemsScored(Contents(h), ScoreMap(h))
<1> DEFINE n == IF h = NULL THEN 0 ELSE h.len
           D == {h.elm[i].obj : i \in 1 .. n}
           at(o) == CHOOSE i \in 1 .. n : h.elm[i].obj = o
           c == [o \in D |-> h.elm[at(o)].score]
<1>1. Contents(h) = {h.elm[i] : i \in 1 .. n}
  BY DEF Contents, Items, ItemsOf
<1>2. \A i, j \in 1 .. n : h.elm[i].obj = h.elm[j].obj => i = j
  BY SoundFields DEF Sane
<1>3. ScoreMap(h) = c
  BY DEF ScoreMap
<1> HIDE DEF n
<1>4. D = ObjectsIn(Contents(h))
  BY <1>1 DEF ObjectsIn
<1>5. ASSUME NEW x \in Contents(h) PROVE c[x.obj] = x.score
  <2>1. PICK i \in 1 .. n : x = h.elm[i]
    BY <1>1
  <2>2. at(x.obj) \in 1 .. n /\ h.elm[at(x.obj)].obj = x.obj
    BY <2>1
  <2>3. at(x.obj) = i
    <3> HIDE DEF at
    <3> QED
      BY <1>2, <2>1, <2>2
  <2>4. x.obj \in D
    BY <2>1
  <2>5. c[x.obj] = h.elm[at(x.obj)].score
    <3> HIDE DEF D, at
    <3> QED
      BY <2>4
  <2> HIDE DEF c, at, D
  <2> QED
    BY <2>1, <2>3, <2>5
<1>6. DOMAIN c = D /\ c = [o \in DOMAIN c |-> c[o]]
  <2> HIDE DEF D, at
  <2> QED
    OBVIOUS
<1> HIDE DEF c, D
<1> QED
  BY <1>3, <1>4, <1>5, <1>6 DEF ItemsScored

(* As many objects as the heap has elements. *)
LEMMA ContentsCount ==
  ASSUME NEW h, Sound(h)
  PROVE  Cardinality(ObjectsIn(Contents(h))) = h.len
<1> DEFINE D == ObjectsIn(Contents(h))
           f == [i \in 1 .. h.len |-> h.elm[i].obj]
<1>1. h.len \in Nat /\ \A i, j \in 1 .. h.len : h.elm[i].obj = h.elm[j].obj => i = j
  BY SoundFields
<1>2. D = {h.elm[i].obj : i \in 1 .. h.len}
  BY HeapIsNotNull DEF Items, ItemsOf, ObjectsIn
<1> HIDE DEF D
<1>3. f \in Bijection(1 .. h.len, D)
  <2>1. f \in [1 .. h.len -> D]
    BY <1>2
  <2>2. \A y \in D : \E i \in 1 .. h.len : f[i] = y
    BY <1>2
  <2>3. \A i, j \in 1 .. h.len : f[i] = f[j] => i = j
    BY <1>1
  <2> HIDE DEF f
  <2> QED
    BY <2>1, <2>2, <2>3 DEF Bijection, Injection, Surjection, IsInjective
<1>4. IsFiniteSet(1 .. h.len) /\ Cardinality(1 .. h.len) = h.len
  <2> DEFINE n == h.len
  <2>1. n \in Nat
    BY <1>1
  <2> HIDE DEF n
  <2>2. /\ IsFiniteSet(1 .. n)
        /\ Cardinality(1 .. n) = IF 1 > n THEN 0 ELSE n - 1 + 1
    BY <2>1, FS_Interval
  <2>3. Cardinality(1 .. n) = n
    BY <2>1, <2>2
  <2> QED
    BY <2>2, <2>3 DEF n
<1>5. ExistsBijection(1 .. h.len, D)
  BY <1>3 DEF ExistsBijection
<1>6. Cardinality(D) = Cardinality(1 .. h.len)
  BY <1>4, <1>5, FS_Bijection
<1> QED
  BY <1>4, <1>6 DEF D

OneEach(I) == \A x, y \in I : x.obj = y.obj => x = y

(* its[1] to its[k] are the first of the items in I, in order. *)
Leading(I, its, k) ==
  /\ \A i \in 1 .. k : its[i] \in I
  /\ \A i, j \in 1 .. k : i < j => its[i] # its[j] /\ its[i].score <= its[j].score
  /\ \A i \in 1 .. k : \A x \in I :
       (\A j \in 1 .. k : its[j] # x) => its[i].score <= x.score

ObjectsOut(its, k) == [i \in 1 .. k |-> its[i].obj]

(* The objects out are the first of those c has scores for, in order. *)
InOrder(c, out) ==
  /\ \A i \in DOMAIN out : out[i] \in DOMAIN c
  /\ \A i, j \in DOMAIN out : i < j => out[i] # out[j] /\ c[out[i]] <= c[out[j]]
  /\ \A i \in DOMAIN out, o \in DOMAIN c :
       (\A j \in DOMAIN out : out[j] # o) => c[out[i]] <= c[o]

(* c without the objects out. *)
Left(c, out) == [o \in {x \in DOMAIN c : \A i \in DOMAIN out : out[i] # x} |-> c[o]]

LEMMA ServedInOrder ==
  ASSUME NEW I, NEW c, ItemsScored(I, c), OneEach(I), NEW k \in Nat, NEW its, Leading(I, its, k)
  PROVE  Len(ObjectsOut(its, k)) = k /\ InOrder(c, ObjectsOut(its, k))
<1> DEFINE out == ObjectsOut(its, k)
<1>1. Len(out) = k /\ DOMAIN out = 1 .. k
  BY DEF ObjectsOut
<1>2. \A i \in 1 .. k : out[i] = its[i].obj /\ out[i] \in DOMAIN c /\ c[out[i]] = its[i].score
  BY DEF ObjectsOut, Leading, ItemsScored, ObjectsIn
<1> HIDE DEF out
<1>3. \A i, j \in 1 .. k : i < j => out[i] # out[j] /\ c[out[i]] <= c[out[j]]
  BY <1>2 DEF Leading, OneEach
<1>4. ASSUME NEW i \in 1 .. k, NEW o \in DOMAIN c, \A j \in 1 .. k : out[j] # o
      PROVE  c[out[i]] <= c[o]
  <2>1. PICK x \in I : o = x.obj
    BY DEF ItemsScored, ObjectsIn
  <2>2. \A j \in 1 .. k : its[j] # x
    BY <1>2, <1>4, <2>1
  <2>3. its[i].score <= x.score /\ c[o] = x.score
    BY <2>1, <2>2 DEF Leading, ItemsScored
  <2> QED
    BY <1>2, <2>3
<1>5. InOrder(c, out)
  BY <1>1, <1>2, <1>3, <1>4 DEF InOrder
<1> QED
  BY <1>1, <1>5 DEF out

(* What is left once the items its[1] to its[k] are taken out. *)
LEMMA LeftOver ==
  ASSUME NEW I, NEW c, ItemsScored(I, c), OneEach(I), NEW k \in Nat, NEW its, Leading(I, its, k),
         NEW d, ItemsScored(I \ ItemsOf(its, k), d)
  PROVE  d = Left(c, ObjectsOut(its, k))
<1> DEFINE out == ObjectsOut(its, k)
           R == {x \in DOMAIN c : \A i \in DOMAIN out : out[i] # x}
<1>1. DOMAIN out = 1 .. k /\ \A i \in 1 .. k : out[i] = its[i].obj /\ its[i] \in I
  BY DEF ObjectsOut, Leading
<1> HIDE DEF out
<1>2. DOMAIN d = R
  <2>1. ASSUME NEW o \in DOMAIN d PROVE o \in R
    <3>1. PICK x \in I \ ItemsOf(its, k) : o = x.obj
      BY DEF ItemsScored, ObjectsIn
    <3>2. o \in DOMAIN c
      BY <3>1 DEF ItemsScored, ObjectsIn
    <3>3. \A i \in 1 .. k : its[i] # x
      BY <3>1 DEF ItemsOf
    <3> QED
      BY <1>1, <3>1, <3>2, <3>3 DEF OneEach
  <2>2. ASSUME NEW o \in R PROVE o \in DOMAIN d
    <3>1. PICK x \in I : o = x.obj
      BY DEF ItemsScored, ObjectsIn
    <3>2. x \notin ItemsOf(its, k)
      BY <1>1, <3>1 DEF ItemsOf
    <3> QED
      BY <3>1, <3>2 DEF ItemsScored, ObjectsIn
  <2> QED
    BY <2>1, <2>2
<1>3. ASSUME NEW o \in DOMAIN d PROVE d[o] = c[o]
  BY <1>3 DEF ItemsScored, ObjectsIn
<1>4. d = [o \in DOMAIN d |-> d[o]]
  BY DEF ItemsScored
<1> HIDE DEF R
<1>5. d = [o \in R |-> c[o]]
  BY <1>2, <1>3, <1>4
<1> QED
  BY <1>5 DEF R, out, Left

LEMMA ContentIsScoreMap == Content = ScoreMap(hq) /\ Content' = ScoreMap(hq')
BY DEF Content, Queued, Len0, ScoreMap

LEMMA SameCardinality == \A S : PQ!Cardinality(S) = Cardinality(S)
BY Zenon DEF PQ!Cardinality, Cardinality

LEMMA EmptyQueue == ScoreMap(NULL) = << >>
BY DEF ScoreMap

(* The k least items are served and, unless only looked at, taken. *)
LEMMA ServingMaps ==
  ASSUME Sound(hq), NEW k \in Nat, NEW its, Leading(Contents(hq), its, k),
         reply' = [announced |-> k, objects |-> ObjectsOut(its, k)]
  PROVE  /\ PQ!Served
         /\ Len(reply'.objects) = k
         /\ Sane(hq') /\ Contents(hq') = Contents(hq) \ ItemsOf(its, k) =>
              Content' = Left(Content, reply'.objects)
<1>1. Sane(hq) /\ OneEach(Contents(hq))
  BY HeapIsNotNull, SaneContents DEF OneEach
<1>2. ItemsScored(Contents(hq), Content)
  BY <1>1, ScoreMapScores, ContentIsScoreMap
<1>3. reply'.announced = k /\ reply'.objects = ObjectsOut(its, k)
  OBVIOUS
<1>4. Len(reply'.objects) = k /\ InOrder(Content, reply'.objects)
  BY <1>1, <1>2, <1>3, ServedInOrder
<1>5. PQ!Served
  BY <1>3, <1>4 DEF PQ!Served, InOrder
<1>6. ASSUME Sane(hq'), Contents(hq') = Contents(hq) \ ItemsOf(its, k)
      PROVE  Content' = Left(Content, reply'.objects)
  <2>1. ItemsScored(Contents(hq) \ ItemsOf(its, k), Content')
    BY <1>6, ScoreMapScores, ContentIsScoreMap
  <2> QED
    BY <1>1, <1>2, <1>3, <2>1, LeftOver
<1> QED
  BY <1>4, <1>5, <1>6

LEMMA InitMaps == Init => PQ!Init
BY ContentIsScoreMap, EmptyQueue DEF Init, PQ!Init, Silent, PQ!Nothing

LEMMA NextMaps == IInv /\ IInv' /\ [Next]_vars => [PQ!Next]_<<Content, reply>>
<1> SUFFICES ASSUME IInv, IInv', [Next]_vars PROVE PQ!Next \/ UNCHANGED <<Content, reply>>
  OBVIOUS
<1>1. /\ Sane(hq) /\ Sane(hq')
      /\ ItemsScored(Contents(hq), Content) /\ ItemsScored(Contents(hq'), Content')
      /\ \A x, y \in Contents(hq) : x.obj = y.obj => x = y
  BY ScoreMapScores, ContentIsScoreMap, SaneContents DEF IInv
<1>2. ASSUME hq' = hq PROVE UNCHANGED Content
  BY <1>2, ContentIsScoreMap
<1>3. Cardinality(Objects) \in Nat
  BY CountType
<1>4. ASSUME NEW o \in Objects, NEW s \in Scores, RrCmdHqpush(o, s)
      PROVE  PQ!Push(o, s)
  <2> DEFINE item == [score |-> s, obj |-> o]
  <2>1. /\ o \notin ObjectsIn(Contents(hq))
        /\ Contents(hq') = Contents(hq) \cup {item}
    BY <1>4, PushEffect
  <2>2. item.obj = o /\ item.score = s
    OBVIOUS
  <2> HIDE DEF item
  <2>3. DOMAIN Content' = DOMAIN Content \cup {o} /\ o \notin DOMAIN Content
    BY <1>1, <2>1, <2>2 DEF ItemsScored, ObjectsIn
  <2>4. \A x \in DOMAIN Content' : Content'[x] = IF x = o THEN s ELSE Content[x]
    <3>1. Content'[o] = s
      BY <1>1, <2>1, <2>2 DEF ItemsScored
    <3>2. ASSUME NEW x \in DOMAIN Content PROVE Content'[x] = Content[x]
      <4>1. PICK y \in Contents(hq) : x = y.obj
        BY <1>1 DEF ItemsScored, ObjectsIn
      <4> QED
        BY <1>1, <2>1, <4>1 DEF ItemsScored
    <3> QED
      BY <2>3, <3>1, <3>2
  <2>5. Content' = [x \in DOMAIN Content' |-> Content'[x]]
    BY <1>1 DEF ItemsScored
  <2>6. Content' = [x \in DOMAIN Content \cup {o} |-> IF x = o THEN s ELSE Content[x]]
    BY <2>3, <2>4, <2>5
  <2>7. reply' = PQ!Nothing
    BY <1>4 DEF RrCmdHqpush, Silent, PQ!Nothing
  <2> QED
    BY <2>3, <2>6, <2>7 DEF PQ!Push
<1>5. CASE Refused \/ NothingQueued
  BY <1>2, <1>5 DEF Refused, NothingQueued, PQ!Next, PQ!Refuse, PQ!Nothing, Silent
<1>6. ASSUME Sound(hq), hq.len > 0,
             reply' = [announced |-> 1, objects |-> <<hq.elm[1].obj>>]
      PROVE  /\ PQ!Served /\ Len(reply'.objects) = 1
             /\ Contents(hq') = Contents(hq) \ {hq.elm[1]} =>
                  Content' = Left(Content, reply'.objects)
  <2> DEFINE its == <<hq.elm[1]>>
  <2>1. /\ hq.elm[1] \in Contents(hq)
        /\ \A x \in Contents(hq) : hq.elm[1].score <= x.score
    BY <1>6, RootLeast, HeapIsNotNull
  <2>2. \A i \in 1 .. 1 : its[i] = hq.elm[1] /\ i = 1
    OBVIOUS
  <2>3. ItemsOf(its, 1) = {hq.elm[1]}
    BY <2>2 DEF ItemsOf
  <2>4. <<hq.elm[1].obj>> = ObjectsOut(its, 1)
    BY DEF ObjectsOut
  <2> HIDE DEF its
  <2>5. reply' = [announced |-> 1, objects |-> ObjectsOut(its, 1)]
    BY <1>6, <2>4
  <2>6. Leading(Contents(hq), its, 1)
    BY <2>1, <2>2 DEF Leading
  <2> QED
    BY <1>1, <1>6, <2>3, <2>5, <2>6, ServingMaps
<1>7. ASSUME Sound(hq)
      PROVE  PQ!Cardinality(DOMAIN Content) = hq.len /\ hq.len \in Nat
  <2>1. Cardinality(ObjectsIn(Contents(hq))) = hq.len /\ hq.len \in Nat
    BY <1>7, ContentsCount, SoundFields
  <2> QED
    BY <1>1, <2>1, SameCardinality DEF ItemsScored
<1>8. CASE RrCmdHqpop
  <2>1. /\ Sound(hq) /\ hq.len > 0
        /\ Contents(hq') = Contents(hq) \ {hq.elm[1]}
        /\ reply' = [announced |-> 1, objects |-> <<hq.elm[1].obj>>]
    BY <1>8, PopEffect
  <2>2. Len(reply'.objects) = IF 1 < PQ!Cardinality(DOMAIN Content)
                              THEN 1 ELSE PQ!Cardinality(DOMAIN Content)
    <3>1. ASSUME NEW c \in Nat, c > 0 PROVE 1 = IF 1 < c THEN 1 ELSE c
      BY <3>1
    <3> QED
      BY <1>6, <1>7, <2>1, <3>1
  <2>3. PQ!Take(1)
    BY <1>6, <2>1, <2>2 DEF PQ!Take, Left
  <2>4. 1 \in 0 .. PQ!Cardinality(Objects)
    <3>1. hq.elm[1] \in Contents(hq)
      BY <2>1, RootLeast, HeapIsNotNull
    <3>2. Objects # {}
      BY <1>1, <3>1, SaneContents DEF HqItem
    <3>3. Cardinality(Objects) # 0
      BY <3>2, HeapQueueAssumption, FS_EmptySet
    <3> QED
      BY <1>3, <3>3, SameCardinality
  <2> QED
    BY <2>3, <2>4 DEF PQ!Next
<1>9. CASE RrCmdHqpeek
  <2>1. /\ Sound(hq) /\ hq.len > 0 /\ hq' = hq
        /\ reply' = [announced |-> 1, objects |-> <<hq.elm[1].obj>>]
    BY <1>1, <1>9, QueuedContents DEF RrCmdHqpeek, H!Min, H!At
  <2>2. PQ!Peek
    BY <1>2, <1>6, <2>1 DEF PQ!Peek
  <2> QED
    BY <2>2 DEF PQ!Next
<1>10. ASSUME NEW n \in 0 .. Cardinality(Objects), RrCmdHqpopn(n)
       PROVE  PQ!Take(n) /\ n \in 0 .. PQ!Cardinality(Objects)
  <2>1. n \in Nat /\ n \in 0 .. PQ!Cardinality(Objects)
    BY <1>3, SameCardinality
  <2>2. PICK k \in Nat, p \in Popping :
          /\ Sound(hq) /\ k = (IF n < hq.len THEN n ELSE hq.len)
          /\ Taken(hq, p, k)
          /\ hq' = p.heap
          /\ reply' = [announced |-> k, objects |-> [i \in 1 .. k |-> p.items[i].obj]]
    BY <1>10, <2>1, PopnEffect
  <2> DEFINE its == p.items
  <2>3. /\ ItemsOf(its, k) \subseteq Contents(hq)
        /\ Contents(p.heap) = Contents(hq) \ ItemsOf(its, k)
        /\ \A i \in 1 .. k : its[i] \in ItemsOf(its, k)
    BY <2>2, TakenItems
  <2>4. /\ \A i, j \in 1 .. k : i < j => its[i] # its[j] /\ its[i].score <= its[j].score
        /\ \A i \in 1 .. k : \A x \in Contents(p.heap) : its[i].score <= x.score
    BY <2>2, HeapIsNotNull DEF Taken
  <2> HIDE DEF its
  <2>5. reply' = [announced |-> k, objects |-> ObjectsOut(its, k)]
    BY <2>2 DEF its, ObjectsOut
  <2>6. \A i \in 1 .. k : \A x \in Contents(hq) :
          (\A j \in 1 .. k : its[j] # x) => its[i].score <= x.score
    BY <2>3, <2>4 DEF ItemsOf
  <2>7. Leading(Contents(hq), its, k)
    BY <2>3, <2>4, <2>6 DEF Leading
  <2>8. Contents(hq') = Contents(hq) \ ItemsOf(its, k)
    BY <2>2, <2>3
  <2>9. PQ!Served /\ Len(reply'.objects) = k /\ Content' = Left(Content, reply'.objects)
    BY <1>1, <2>2, <2>5, <2>7, <2>8, ServingMaps
  <2>10. k = IF n < PQ!Cardinality(DOMAIN Content) THEN n ELSE PQ!Cardinality(DOMAIN Content)
    BY <1>7, <2>2
  <2> QED
    BY <2>1, <2>9, <2>10 DEF PQ!Take, Left
<1>11. CASE FreeHeapqObject
  <2>1. Content' = << >> /\ reply' = PQ!Nothing
    BY <1>11, ContentIsScoreMap, EmptyQueue DEF FreeHeapqObject, Silent, PQ!Nothing
  <2> QED
    BY <2>1 DEF PQ!Next, PQ!Clear
<1>12. CASE NoQueue
  <2>1. hq = NULL /\ hq' = hq /\ reply' = AbsentQueue
    BY <1>12 DEF NoQueue
  <2>2. Content = << >>
    BY <2>1, ContentIsScoreMap, EmptyQueue
  <2>3. DOMAIN Content = {}
    BY <2>2
  <2>4. PQ!Miss
    BY <1>2, <2>1, <2>3 DEF PQ!Miss
  <2> QED
    BY <2>4 DEF PQ!Next
<1>13. CASE UNCHANGED vars
  BY <1>2, <1>13 DEF vars
<1> QED
  BY <1>4, <1>5, <1>8, <1>9, <1>10, <1>11, <1>12, <1>13 DEF Next, PQ!Next

(* The q commands implement a priority queue: what qpop, qpopn and qpeek    *)
(* reply are the objects with the least scores, in order, exactly as many   *)
(* as announced, and those qpop and qpopn reply are the ones taken out.     *)
THEOREM HeapQueueIsPriorityQueue == Spec => Implements
BY AlwaysIInv, InitMaps, NextMaps, PTL DEF Spec, Implements, PQ!Spec

-----------------------------------------------------------------------------
(* The posting list of one term. *)

(* The list has the documents with n[d] > 0, each once and with n[d]. *)
Lists(ps, n) ==
  /\ ps \in Seq(Posting)
  /\ n \in [Docs -> Nat]
  /\ \A i, j \in DOMAIN ps : ps[i].doc = ps[j].doc => i = j
  /\ \A i \in DOMAIN ps : ps[i].tf = n[ps[i].doc] /\ n[ps[i].doc] > 0
  /\ \A d \in Docs : n[d] > 0 => \E i \in DOMAIN ps : ps[i].doc = d

LEMMA SearchKeyFinds ==
  ASSUME NEW ps \in Seq(Posting), NEW d
  PROVE  /\ SearchKey(ps, d) # 0 =>
              SearchKey(ps, d) \in DOMAIN ps /\ ps[SearchKey(ps, d)].doc = d
         /\ SearchKey(ps, d) = 0 => \A i \in DOMAIN ps : ps[i].doc # d
<1> DEFINE found == {i \in DOMAIN ps : ps[i].doc = d}
<1>1. DOMAIN ps = 1 .. Len(ps) /\ Len(ps) \in Nat
  OBVIOUS
<1>2. CASE found = {}
  BY <1>2 DEF SearchKey
<1>3. CASE found # {}
  <2>1. found \subseteq Nat
    BY <1>1
  <2>2. \E i \in found : \A j \in found : i <= j
    <3> HIDE DEF found
    <3> QED
      BY <1>3, <2>1, FirstPosition
  <2> DEFINE k == CHOOSE i \in found : \A j \in found : i <= j
  <2>3. k \in found
    <3> HIDE DEF found
    <3> QED
      BY <2>2
  <2>4. SearchKey(ps, d) = k
    BY <1>3 DEF SearchKey
  <2> HIDE DEF k
  <2>5. k \in DOMAIN ps /\ ps[k].doc = d /\ k # 0
    BY <1>1, <2>3
  <2> QED
    BY <2>4, <2>5
<1> QED
  BY <1>2, <1>3

LEMMA ListsType ==
  ASSUME NEW ps, NEW n, Lists(ps, n)
  PROVE  /\ ps \in Seq(Posting)
         /\ Len(ps) \in Nat
         /\ DOMAIN ps = 1 .. Len(ps)
         /\ \A i \in DOMAIN ps : ps[i] \in Posting /\ ps[i].doc \in Docs /\ ps[i].tf \in Nat
         /\ \A d \in Docs : n[d] \in Nat
<1>1. ps \in Seq(Posting)
  BY DEF Lists
<1>2. \A i \in DOMAIN ps : ps[i] \in Posting
  BY <1>1
<1> QED
  BY <1>1, <1>2 DEF Lists, Posting

(* A change of one frequency that keeps it positive. *)
LEMMA Recounts ==
  ASSUME NEW ps, NEW n, Lists(ps, n), NEW i \in DOMAIN ps, NEW m \in Nat, m > 0
  PROVE  Lists([ps EXCEPT ![i].tf = m], [n EXCEPT ![ps[i].doc] = m])
<1> DEFINE u == [ps EXCEPT ![i].tf = m]
           w == [n EXCEPT ![ps[i].doc] = m]
<1>1. /\ ps \in Seq(Posting) /\ n \in [Docs -> Nat]
      /\ \A j \in DOMAIN ps : ps[j] \in Posting /\ ps[j].doc \in Docs /\ ps[j].tf \in Nat
  BY ListsType DEF Lists
<1>2. DOMAIN u = DOMAIN ps /\ \A j \in DOMAIN ps : u[j] = IF j = i THEN [ps[i] EXCEPT !.tf = m] ELSE ps[j]
  OBVIOUS
<1>3. [ps[i] EXCEPT !.tf = m] = [doc |-> ps[i].doc, tf |-> m]
  BY <1>1 DEF Posting
<1>4. \A j \in DOMAIN ps : /\ u[j] \in Posting
                           /\ u[j].doc = ps[j].doc
                           /\ u[j].tf = IF j = i THEN m ELSE ps[j].tf
  <2> HIDE DEF u
  <2>1. [doc |-> ps[i].doc, tf |-> m] \in Posting
    BY <1>1 DEF Posting
  <2> QED
    BY <1>1, <1>2, <1>3, <2>1
<1>5. u \in Seq(Posting)
  <2>1. u \in [1 .. Len(ps) -> Posting] /\ Len(ps) \in Nat
    <3>1. DOMAIN ps = 1 .. Len(ps) /\ Len(ps) \in Nat
      BY <1>1
    <3> QED
      BY <1>2, <1>4, <3>1
  <2> HIDE DEF u
  <2> QED
    BY <2>1
<1>6. w \in [Docs -> Nat] /\ \A d \in Docs : w[d] = IF d = ps[i].doc THEN m ELSE n[d]
  BY <1>1
<1> HIDE DEF u, w
<1>7. /\ \A k, j \in DOMAIN ps : ps[k].doc = ps[j].doc => k = j
      /\ \A k \in DOMAIN ps : ps[k].tf = n[ps[k].doc] /\ n[ps[k].doc] > 0
      /\ \A d \in Docs : n[d] > 0 => \E k \in DOMAIN ps : ps[k].doc = d
  BY DEF Lists
<1>8. \A k, j \in DOMAIN u : u[k].doc = u[j].doc => k = j
  BY <1>2, <1>4, <1>7
<1>9. ASSUME NEW k \in DOMAIN u PROVE u[k].tf = w[u[k].doc] /\ w[u[k].doc] > 0
  <2>1. k \in DOMAIN ps /\ u[k].doc = ps[k].doc /\ ps[k].doc \in Docs
    BY <1>1, <1>2, <1>4
  <2>2. CASE k = i
    BY <1>4, <1>6, <2>1, <2>2
  <2>3. CASE k # i
    <3>1. ps[k].doc # ps[i].doc
      BY <1>7, <2>1, <2>3
    <3> QED
      BY <1>4, <1>6, <1>7, <2>1, <2>3, <3>1
  <2> QED
    BY <2>2, <2>3
<1>10. ASSUME NEW d \in Docs, w[d] > 0 PROVE \E k \in DOMAIN u : u[k].doc = d
  <2>1. \E k \in DOMAIN ps : ps[k].doc = d
    <3>1. CASE d = ps[i].doc
      BY <3>1
    <3>2. CASE d # ps[i].doc
      BY <1>6, <1>7, <1>10, <3>2
    <3> QED
      BY <3>1, <3>2
  <2>2. PICK k \in DOMAIN ps : ps[k].doc = d
    BY <2>1
  <2>3. k \in DOMAIN u /\ u[k].doc = d
    BY <1>2, <1>4, <2>2
  <2> QED
    BY <2>3
<1> QED
  BY <1>5, <1>6, <1>8, <1>9, <1>10 DEF Lists, u, w

(* A document that is new to the list. *)
LEMMA Enters ==
  ASSUME NEW ps, NEW n, Lists(ps, n), NEW d \in Docs, \A i \in DOMAIN ps : ps[i].doc # d
  PROVE  n[d] = 0 /\ Lists(AddNodeHead(ps, [doc |-> d, tf |-> 1]), [n EXCEPT ![d] = 1])
<1> DEFINE x == [doc |-> d, tf |-> 1]
           u == AddNodeHead(ps, x)
           w == [n EXCEPT ![d] = 1]
<1>1. /\ ps \in Seq(Posting) /\ n \in [Docs -> Nat] /\ Len(ps) \in Nat /\ DOMAIN ps = 1 .. Len(ps)
      /\ \A j \in DOMAIN ps : ps[j] \in Posting /\ ps[j].doc \in Docs /\ ps[j].tf \in Nat
  BY ListsType DEF Lists
<1>2. x \in Posting /\ x.doc = d /\ x.tf = 1
  BY DEF Posting
<1> HIDE DEF x
<1>3. /\ u \in Seq(Posting) /\ Len(u) = Len(ps) + 1
      /\ \A j \in 1 .. Len(ps) + 1 : u[j] = IF j = 1 THEN x ELSE ps[j - 1]
  BY <1>1, <1>2 DEF AddNodeHead
<1>4. w \in [Docs -> Nat] /\ \A e \in Docs : w[e] = IF e = d THEN 1 ELSE n[e]
  BY <1>1
<1> HIDE DEF u, w
<1>5. /\ \A k, j \in DOMAIN ps : ps[k].doc = ps[j].doc => k = j
      /\ \A k \in DOMAIN ps : ps[k].tf = n[ps[k].doc] /\ n[ps[k].doc] > 0
      /\ \A e \in Docs : n[e] > 0 => \E k \in DOMAIN ps : ps[k].doc = e
  BY DEF Lists
<1>6. DOMAIN u = 1 .. Len(ps) + 1
  BY <1>3
<1>7. \A j \in DOMAIN u : j # 1 => j - 1 \in DOMAIN ps /\ u[j] = ps[j - 1] /\ u[j].doc # d
  BY <1>1, <1>3, <1>6
<1>8. 1 \in DOMAIN u /\ u[1] = x
  BY <1>1, <1>3, <1>6
<1>9. \A j \in DOMAIN ps : j + 1 \in DOMAIN u /\ u[j + 1] = ps[j]
  <2> SUFFICES ASSUME NEW j \in DOMAIN ps
               PROVE  j + 1 \in DOMAIN u /\ u[j + 1] = ps[j]
    OBVIOUS
  <2>1. j + 1 \in 1 .. Len(ps) + 1 /\ j + 1 # 1 /\ (j + 1) - 1 = j
    BY <1>1
  <2> QED
    BY <1>3, <1>6, <2>1
<1>10. ASSUME NEW k \in DOMAIN u, NEW j \in DOMAIN u, u[k].doc = u[j].doc
       PROVE  k = j
  <2>1. CASE k = 1 \/ j = 1
    BY <1>2, <1>7, <1>8, <1>10, <2>1
  <2>2. CASE k # 1 /\ j # 1
    <3>1. k - 1 = j - 1
      BY <1>5, <1>7, <1>10, <2>2
    <3> QED
      BY <1>1, <1>6, <3>1
  <2> QED
    BY <2>1, <2>2
<1>11. ASSUME NEW k \in DOMAIN u
       PROVE  u[k].tf = w[u[k].doc] /\ w[u[k].doc] > 0
  <2>1. CASE k = 1
    BY <1>2, <1>4, <1>8, <2>1
  <2>2. CASE k # 1
    <3>1. k - 1 \in DOMAIN ps /\ u[k] = ps[k - 1] /\ u[k].doc # d
      BY <1>7, <2>2
    <3>2. u[k].doc \in Docs
      BY <1>1, <3>1
    <3>3. u[k].tf = n[u[k].doc] /\ n[u[k].doc] > 0
      BY <1>5, <3>1
    <3> QED
      BY <1>4, <3>1, <3>2, <3>3
  <2> QED
    BY <2>1, <2>2
<1>12. ASSUME NEW e \in Docs, w[e] > 0
       PROVE  \E k \in DOMAIN u : u[k].doc = e
  <2>1. CASE e = d
    BY <1>2, <1>8, <2>1
  <2>2. CASE e # d
    <3>1. PICK k \in DOMAIN ps : ps[k].doc = e
      BY <1>4, <1>5, <1>12, <2>2
    <3> QED
      BY <1>9, <3>1
  <2> QED
    BY <2>1, <2>2
<1>13. n[d] = 0
  <2>1. ~(n[d] > 0)
    BY <1>5
  <2>2. n[d] \in Nat
    BY <1>1
  <2> QED
    BY <2>1, <2>2
<1>14. Lists(u, w)
  BY <1>3, <1>4, <1>10, <1>11, <1>12 DEF Lists
<1> QED
  BY <1>13, <1>14 DEF u, w, x

(* A document that leaves the list. *)
LEMMA Leaves ==
  ASSUME NEW ps, NEW n, Lists(ps, n), NEW i \in DOMAIN ps
  PROVE  Lists(DelNode(ps, i), [n EXCEPT ![ps[i].doc] = 0])
<1> DEFINE d == ps[i].doc
           u == DelNode(ps, i)
           w == [n EXCEPT ![d] = 0]
           m == Len(ps) - 1
<1>1. /\ ps \in Seq(Posting) /\ n \in [Docs -> Nat] /\ Len(ps) \in Nat /\ DOMAIN ps = 1 .. Len(ps)
      /\ \A j \in DOMAIN ps : ps[j] \in Posting /\ ps[j].doc \in Docs /\ ps[j].tf \in Nat
  BY ListsType DEF Lists
<1>2. m \in Nat /\ d \in Docs /\ i \in Nat /\ i <= Len(ps) /\ i >= 1 /\ Len(ps) = m + 1
  BY <1>1
<1>3. u = [j \in 1 .. m |-> IF j < i THEN ps[j] ELSE ps[j + 1]]
  BY DEF DelNode
<1>4. w \in [Docs -> Nat] /\ \A e \in Docs : w[e] = IF e = d THEN 0 ELSE n[e]
  BY <1>1, <1>2
<1> HIDE DEF m, w, u
<1>5. \A j \in 1 .. m : j \in DOMAIN ps /\ j + 1 \in DOMAIN ps
  BY <1>1, <1>2
<1>6. \A j \in 1 .. m : \E k \in DOMAIN ps : k # i /\ u[j] = ps[k] /\ k = IF j < i THEN j ELSE j + 1
  <2> SUFFICES ASSUME NEW j \in 1 .. m
               PROVE  \E k \in DOMAIN ps : k # i /\ u[j] = ps[k] /\ k = IF j < i THEN j ELSE j + 1
    OBVIOUS
  <2>1. CASE j < i
    BY <1>2, <1>3, <1>5, <2>1
  <2>2. CASE ~(j < i)
    <3>1. j + 1 # i /\ j + 1 \in DOMAIN ps
      BY <1>2, <1>5, <2>2
    <3>2. u[j] = ps[j + 1]
      BY <1>3, <2>2
    <3> QED
      BY <2>2, <3>1, <3>2
  <2> QED
    BY <2>1, <2>2
<1>7. u \in [1 .. m -> Posting]
  BY <1>1, <1>3, <1>5
<1>8. u \in Seq(Posting) /\ DOMAIN u = 1 .. m
  BY <1>2, <1>7
<1>9. /\ \A k, j \in DOMAIN ps : ps[k].doc = ps[j].doc => k = j
      /\ \A k \in DOMAIN ps : ps[k].tf = n[ps[k].doc] /\ n[ps[k].doc] > 0
      /\ \A e \in Docs : n[e] > 0 => \E k \in DOMAIN ps : ps[k].doc = e
  BY DEF Lists
<1>10. ASSUME NEW k \in DOMAIN u, NEW j \in DOMAIN u, u[k].doc = u[j].doc
       PROVE  k = j
  <2>1. PICK a \in DOMAIN ps : a # i /\ u[k] = ps[a] /\ a = IF k < i THEN k ELSE k + 1
    BY <1>6, <1>8
  <2>2. PICK b \in DOMAIN ps : b # i /\ u[j] = ps[b] /\ b = IF j < i THEN j ELSE j + 1
    BY <1>6, <1>8
  <2>3. a = b
    BY <1>9, <1>10, <2>1, <2>2
  <2>4. k \in Nat /\ j \in Nat
    BY <1>2, <1>8
  <2> QED
    BY <1>2, <2>1, <2>2, <2>3, <2>4
<1>11. ASSUME NEW k \in DOMAIN u
       PROVE  u[k].tf = w[u[k].doc] /\ w[u[k].doc] > 0
  <2>1. PICK a \in DOMAIN ps : a # i /\ u[k] = ps[a]
    BY <1>6, <1>8
  <2>2. ps[a].doc \in Docs /\ ps[a].doc # d
    BY <1>1, <1>9, <2>1
  <2>3. ps[a].tf = n[ps[a].doc] /\ n[ps[a].doc] > 0
    BY <1>9
  <2> QED
    BY <1>4, <2>1, <2>2, <2>3
<1>12. ASSUME NEW e \in Docs, w[e] > 0
       PROVE  \E k \in DOMAIN u : u[k].doc = e
  <2>1. e # d /\ n[e] > 0
    BY <1>4, <1>12
  <2>2. PICK a \in DOMAIN ps : ps[a].doc = e
    BY <1>9, <2>1
  <2>3. a # i
    BY <2>1, <2>2
  <2>4. a \in Nat /\ a >= 1 /\ a <= m + 1
    BY <1>1, <1>2
  <2>5. CASE a < i
    <3>1. a \in 1 .. m
      BY <1>2, <2>4, <2>5
    <3>2. u[a] = ps[a]
      BY <1>3, <2>5, <3>1
    <3> QED
      BY <1>8, <2>2, <3>1, <3>2
  <2>6. CASE ~(a < i)
    <3>1. a - 1 \in 1 .. m /\ ~(a - 1 < i) /\ (a - 1) + 1 = a
      BY <1>2, <2>3, <2>4, <2>6
    <3>2. u[a - 1] = ps[a]
      BY <1>3, <3>1
    <3> QED
      BY <1>8, <2>2, <3>1, <3>2
  <2> QED
    BY <2>5, <2>6
<1>13. Lists(u, w)
  BY <1>4, <1>8, <1>10, <1>11, <1>12 DEF Lists
<1> QED
  BY <1>13 DEF u, w

-----------------------------------------------------------------------------
(* The index. *)

TermSet == Range(TermOf) \ {NoTerm}

IsIndex(index) ==
  DOMAIN index \subseteq TermSet /\ index \in [DOMAIN index -> Seq(Posting)]

(* The list of every term T has the documents with c[T][d] > 0. *)
Mirrors(index, c) ==
  /\ IsIndex(index)
  /\ c \in [TermSet -> [Docs -> Nat]]
  /\ \A T \in TermSet : Lists(Postings(index, T), c[T])

LEMMA AssignPosts ==
  ASSUME NEW index, NEW c, Mirrors(index, c), NEW T \in TermSet, NEW ps, NEW n, Lists(ps, n)
  PROVE  Mirrors(Assign(index, T, ps), [c EXCEPT ![T] = n])
<1> DEFINE u == Assign(index, T, ps)
           w == [c EXCEPT ![T] = n]
<1>1. /\ DOMAIN index \subseteq TermSet /\ index \in [DOMAIN index -> Seq(Posting)]
      /\ c \in [TermSet -> [Docs -> Nat]]
      /\ \A S \in TermSet : Lists(Postings(index, S), c[S])
  BY DEF Mirrors, IsIndex
<1>2. ps \in Seq(Posting) /\ n \in [Docs -> Nat]
  BY DEF Lists
<1>3. DOMAIN u = DOMAIN index \cup {T} /\ \A S \in DOMAIN u : u[S] = IF S = T THEN ps ELSE index[S]
  BY DEF Assign
<1>4. u = [S \in DOMAIN u |-> u[S]]
  BY DEF Assign
<1>5. w \in [TermSet -> [Docs -> Nat]] /\ \A S \in TermSet : w[S] = IF S = T THEN n ELSE c[S]
  BY <1>1, <1>2
<1> HIDE DEF u, w
<1>6. IsIndex(u)
  <2>1. \A S \in DOMAIN u : u[S] \in Seq(Posting)
    BY <1>1, <1>2, <1>3
  <2> QED
    BY <1>1, <1>3, <1>4, <2>1 DEF IsIndex
<1>7. ASSUME NEW S \in TermSet
      PROVE  Lists(Postings(u, S), w[S])
  <2>1. Postings(u, S) = IF S = T THEN ps ELSE Postings(index, S)
    BY <1>3 DEF Postings
  <2> QED
    BY <1>1, <1>5, <2>1
<1>8. Mirrors(u, w)
  BY <1>5, <1>6, <1>7 DEF Mirrors
<1> QED
  BY <1>8 DEF u, w

(* The counts c, with m for the term T in the document d. *)
Recount(c, T, d, m) == [c EXCEPT ![T] = [c[T] EXCEPT ![d] = m]]

(* A term of fts_index_add. *)
LEMMA AddTermCounts ==
  ASSUME NEW index, NEW c, Mirrors(index, c), NEW T \in TermSet, NEW d \in Docs
  PROVE  Mirrors(AddTerm(index, d, T), Recount(c, T, d, c[T][d] + 1))
<1> DEFINE ps == Postings(index, T)
           i == SearchKey(ps, d)
           n == c[T]
           u == IF i # 0 THEN [ps EXCEPT ![i].tf = @ + 1] ELSE AddNodeHead(ps, [doc |-> d, tf |-> 1])
<1>1. Lists(ps, n)
  BY DEF Mirrors
<1>2. T # NoTerm
  BY DEF TermSet
<1>3. AddTerm(index, d, T) = Assign(index, T, u)
  BY <1>2 DEF AddTerm
<1>4. Lists(u, [n EXCEPT ![d] = n[d] + 1])
  <2> HIDE DEF ps, n
  <2>1. ps \in Seq(Posting)
    BY <1>1 DEF Lists
  <2>2. CASE i # 0
    <3>1. i \in DOMAIN ps /\ ps[i].doc = d
      BY <2>1, <2>2, SearchKeyFinds
    <3>2. ps[i].tf = n[d] /\ n[d] \in Nat /\ ps[i].tf + 1 \in Nat /\ ps[i].tf + 1 > 0
      BY <1>1, <3>1, ListsType DEF Lists
    <3> DEFINE m == n[d] + 1
    <3>3. u = [ps EXCEPT ![i].tf = m]
      BY <2>2, <3>2
    <3>4. m \in Nat /\ m > 0
      BY <3>2
    <3> HIDE DEF m, i
    <3>5. Lists([ps EXCEPT ![i].tf = m], [n EXCEPT ![ps[i].doc] = m])
      BY <1>1, <3>1, <3>4, Recounts
    <3> QED
      BY <3>1, <3>3, <3>5 DEF m
  <2>3. CASE i = 0
    <3>1. \A j \in DOMAIN ps : ps[j].doc # d
      BY <2>1, <2>3, SearchKeyFinds
    <3>2. n[d] = 0 /\ Lists(AddNodeHead(ps, [doc |-> d, tf |-> 1]), [n EXCEPT ![d] = 1])
      BY <1>1, <3>1, Enters
    <3>3. n[d] + 1 = 1
      BY <3>2
    <3> QED
      BY <2>3, <3>2, <3>3
  <2> QED
    BY <2>2, <2>3
<1> HIDE DEF u
<1> QED
  BY <1>3, <1>4, AssignPosts DEF Recount

(* A term of fts_index_del: the document is in the list. *)
LEMMA DelTermCounts ==
  ASSUME NEW r, NEW c, r.ok, Mirrors(r.index, c), NEW T \in TermSet, NEW d \in Docs, c[T][d] > 0,
         r = [index |-> r.index, ok |-> r.ok]
  PROVE  LET u == DelTerm(r, d, T)
         IN  /\ u = [index |-> u.index, ok |-> r.ok]
             /\ Mirrors(u.index, Recount(c, T, d, c[T][d] - 1))
<1> DEFINE ps == Postings(r.index, T)
           i == SearchKey(ps, d)
           n == c[T]
           u == IF ps[i].tf = 1 THEN DelNode(ps, i) ELSE [ps EXCEPT ![i].tf = @ - 1]
<1>1. Lists(ps, n)
  BY DEF Mirrors
<1>2. T # NoTerm
  BY DEF TermSet
<1>3. ps \in Seq(Posting)
  BY <1>1 DEF Lists
<1>4. i # 0 /\ i \in DOMAIN ps /\ ps[i].doc = d
  <2> HIDE DEF ps, n
  <2>1. \E j \in DOMAIN ps : ps[j].doc = d
    BY <1>1 DEF Lists, n
  <2> QED
    BY <1>3, <2>1, SearchKeyFinds
<1>5. DelTerm(r, d, T) = [r EXCEPT !.index = Assign(r.index, T, u)]
  BY <1>2, <1>4 DEF DelTerm
<1>6. DelTerm(r, d, T) = [index |-> Assign(r.index, T, u), ok |-> r.ok]
  <2> HIDE DEF u
  <2> QED
    BY <1>5
<1>7. Lists(u, [n EXCEPT ![d] = n[d] - 1])
  <2> HIDE DEF ps, n, i
  <2>1. ps[i].tf = n[d] /\ n[d] \in Nat /\ n[d] > 0
    BY <1>1, <1>4, ListsType DEF Lists
  <2>2. CASE ps[i].tf = 1
    <3>1. n[d] - 1 = 0
      BY <2>1, <2>2
    <3>2. Lists(DelNode(ps, i), [n EXCEPT ![ps[i].doc] = 0])
      BY <1>1, <1>4, Leaves
    <3> QED
      BY <1>4, <2>2, <3>1, <3>2
  <2>3. CASE ps[i].tf # 1
    <3> DEFINE m == n[d] - 1
    <3>1. u = [ps EXCEPT ![i].tf = m]
      BY <2>1, <2>3
    <3>2. m \in Nat /\ m > 0
      BY <2>1, <2>3
    <3> HIDE DEF m
    <3>3. Lists([ps EXCEPT ![i].tf = m], [n EXCEPT ![ps[i].doc] = m])
      BY <1>1, <1>4, <3>2, Recounts
    <3> QED
      BY <1>4, <3>1, <3>3 DEF m
  <2> QED
    BY <2>2, <2>3
<1> HIDE DEF u
<1>8. Mirrors(Assign(r.index, T, u), Recount(c, T, d, c[T][d] - 1))
  BY <1>7, AssignPosts DEF Recount
<1> DEFINE v == Assign(r.index, T, u)
           q == DelTerm(r, d, T)
<1> HIDE DEF v
<1>9. q = [index |-> v, ok |-> r.ok]
  BY <1>6 DEF v
<1>10. q.index = v
  BY <1>9
<1>11. q = [index |-> q.index, ok |-> r.ok]
  BY <1>9, <1>10
<1> QED
  BY <1>8, <1>10, <1>11 DEF v

-----------------------------------------------------------------------------
(* The loops over the terms of a text. *)

(* A loop of n turns: what holds at first and after each turn if before it. *)
LEMMA Turns ==
  ASSUME NEW n \in Nat, NEW B, 0 \in B, \A k \in 1 .. n : k - 1 \in B => k \in B
  PROVE  \A k \in 0 .. n : k \in B
<1> DEFINE U == {k \in 0 .. n : k \notin B}
<1>1. U = {}
  <2> SUFFICES ASSUME U # {} PROVE FALSE
    OBVIOUS
  <2>1. U \subseteq Nat
    OBVIOUS
  <2>2. PICK k \in U : \A j \in U : k <= j
    <3> HIDE DEF U
    <3> QED
      BY <2>1, FirstPosition
  <2>3. k \in 0 .. n /\ k \notin B /\ k # 0
    OBVIOUS
  <2>4. k \in 1 .. n /\ k - 1 \in 0 .. n /\ ~(k <= k - 1)
    BY <2>3
  <2>5. k - 1 \notin U
    <3> HIDE DEF U
    <3> QED
      BY <2>2, <2>4
  <2>6. k - 1 \in B
    BY <2>4, <2>5
  <2> QED
    BY <2>3, <2>4, <2>6
<1> QED
  BY <1>1

(* The states of a loop of n turns from x on. *)
IsLoop(g, n, x, body) == g = [k \in 0 .. n |-> IF k = 0 THEN x ELSE body[k][g[k - 1]]]

(* The loop has its turns: body[k] leads from P[k - 1] to P[k]. *)
LEMMA Unrolls ==
  ASSUME NEW n \in Nat, NEW P, NEW x \in P[0], NEW body,
         \A k \in 1 .. n : \A y \in P[k - 1] : body[k][y] \in P[k]
  PROVE  \E g : IsLoop(g, n, x, body) /\ \A k \in 0 .. n : g[k] \in P[k]
<1> DEFINE F(m, g) == [k \in 0 .. m |-> IF k = 0 THEN x ELSE body[k][g[k - 1]]]
           B == {m \in 0 .. n : \E g : g = F(m, g)}
<1>1. 0 \in B
  <2> DEFINE g == [k \in 0 .. 0 |-> x]
  <2>1. g = F(0, g)
    OBVIOUS
  <2>2. 0 \in 0 .. n
    OBVIOUS
  <2> HIDE DEF g, F
  <2> QED
    BY <2>1, <2>2
<1>2. ASSUME NEW m \in 1 .. n, m - 1 \in B
      PROVE  m \in B
  <2>1. PICK g : g = F(m - 1, g)
    BY <1>2
  <2> DEFINE e == [k \in 0 .. m |-> IF k = m THEN body[m][g[m - 1]] ELSE g[k]]
  <2>2. \A k \in 0 .. m - 1 : g[k] = IF k = 0 THEN x ELSE body[k][g[k - 1]]
    <3> HIDE DEF e
    <3> QED
      BY <2>1
  <2>3. ASSUME NEW k \in 0 .. m
        PROVE  e[k] = IF k = 0 THEN x ELSE body[k][e[k - 1]]
    <3>1. k # 0 => k - 1 \in 0 .. m - 1
      OBVIOUS
    <3>2. \A j \in 0 .. m - 1 : e[j] = g[j]
      OBVIOUS
    <3>3. CASE k = m
      <4>1. k # 0 /\ e[k] = body[m][g[m - 1]] /\ m - 1 \in 0 .. m - 1
        BY <3>3
      <4> HIDE DEF e
      <4> QED
        BY <3>2, <3>3, <4>1
    <3>4. CASE k # m
      <4>1. k \in 0 .. m - 1
        BY <3>4
      <4> HIDE DEF e
      <4> QED
        BY <2>2, <3>1, <3>2, <4>1
    <3> QED
      BY <3>3, <3>4
  <2>4. e = F(m, e)
    BY <2>3
  <2>5. m \in 0 .. n
    OBVIOUS
  <2> QED
    BY <2>4, <2>5
<1>3. \A m \in 0 .. n : m \in B
  <2> HIDE DEF B
  <2> QED
    BY <1>1, <1>2, Turns
<1>4. PICK g : g = F(n, g)
  <2>1. n \in 0 .. n
    OBVIOUS
  <2> QED
    BY <1>3, <2>1
<1>5. \A k \in 0 .. n : g[k] = IF k = 0 THEN x ELSE body[k][g[k - 1]]
  BY <1>4
<1> DEFINE C == {k \in 0 .. n : g[k] \in P[k]}
<1>6. 0 \in C
  BY <1>5
<1>7. \A k \in 1 .. n : k - 1 \in C => k \in C
  <2> SUFFICES ASSUME NEW k \in 1 .. n, g[k - 1] \in P[k - 1]
               PROVE  g[k] \in P[k]
    OBVIOUS
  <2>1. k \in 0 .. n /\ k # 0
    OBVIOUS
  <2> QED
    BY <1>5, <2>1
<1>8. \A k \in 0 .. n : k \in C
  <2> HIDE DEF C
  <2> QED
    BY <1>6, <1>7, Turns
<1> QED
  BY <1>4, <1>8 DEF IsLoop

(* How often a term occurs in a part of a text. *)
CountIn(text, a, b, T) == Cardinality({j \in a .. b : TermOf[text[j]] = T})

LEMMA CountInType ==
  ASSUME NEW text, NEW a \in Int, NEW b \in Int, NEW T
  PROVE  /\ IsFiniteSet({j \in a .. b : TermOf[text[j]] = T})
         /\ CountIn(text, a, b, T) \in Nat
<1>1. IsFiniteSet(a .. b)
  BY FS_Interval
<1>2. {j \in a .. b : TermOf[text[j]] = T} \subseteq a .. b
  OBVIOUS
<1>3. IsFiniteSet({j \in a .. b : TermOf[text[j]] = T})
  BY <1>1, <1>2, FS_Subset
<1> QED
  BY <1>3, FS_CardinalityType DEF CountIn

LEMMA CountInNone ==
  ASSUME NEW text, NEW a \in Int, NEW b \in Int, b < a, NEW T
  PROVE  CountIn(text, a, b, T) = 0
<1>1. {j \in a .. b : TermOf[text[j]] = T} = {}
  OBVIOUS
<1> QED
  BY <1>1, FS_EmptySet DEF CountIn

LEMMA CountInEnds ==
  ASSUME NEW text, NEW a \in Int, NEW b \in Int, a <= b, NEW T
  PROVE  /\ CountIn(text, a, b, T) =
              CountIn(text, a, b - 1, T) + (IF TermOf[text[b]] = T THEN 1 ELSE 0)
         /\ CountIn(text, a, b, T) =
              CountIn(text, a + 1, b, T) + (IF TermOf[text[a]] = T THEN 1 ELSE 0)
<1> DEFINE S(x, y) == {j \in x .. y : TermOf[text[j]] = T}
<1>1. IsFiniteSet(S(a, b - 1)) /\ IsFiniteSet(S(a + 1, b))
  <2>1. b - 1 \in Int /\ a + 1 \in Int
    OBVIOUS
  <2>2. \A x, y \in Int : IsFiniteSet({j \in x .. y : TermOf[text[j]] = T})
    <3> SUFFICES ASSUME NEW x \in Int, NEW y \in Int
                 PROVE  IsFiniteSet({j \in x .. y : TermOf[text[j]] = T})
      OBVIOUS
    <3>1. IsFiniteSet(x .. y)
      BY FS_Interval
    <3>2. {j \in x .. y : TermOf[text[j]] = T} \subseteq x .. y
      OBVIOUS
    <3> QED
      BY <3>1, <3>2, FS_Subset
  <2> QED
    BY <2>1, <2>2
<1>2. Cardinality(S(a, b - 1)) \in Nat /\ Cardinality(S(a + 1, b)) \in Nat
  BY <1>1, FS_CardinalityType
<1>3. b \notin S(a, b - 1) /\ a \notin S(a + 1, b)
  OBVIOUS
<1>4. CountIn(text, a, b, T) =
        CountIn(text, a, b - 1, T) + (IF TermOf[text[b]] = T THEN 1 ELSE 0)
  <2>1. CASE TermOf[text[b]] = T
    <3>1. S(a, b) = S(a, b - 1) \cup {b}
      BY <2>1
    <3>2. Cardinality(S(a, b)) = Cardinality(S(a, b - 1)) + 1
      <4> HIDE DEF S
      <4> QED
        BY <1>1, <1>3, <3>1, FS_AddElement
    <3> QED
      BY <2>1, <3>2 DEF CountIn
  <2>2. CASE TermOf[text[b]] # T
    <3>1. S(a, b) = S(a, b - 1)
      BY <2>2
    <3>2. Cardinality(S(a, b)) = Cardinality(S(a, b - 1)) + 0
      <4> HIDE DEF S
      <4> QED
        BY <1>2, <3>1
    <3> QED
      BY <2>2, <3>2 DEF CountIn
  <2> QED
    BY <2>1, <2>2
<1>5. CountIn(text, a, b, T) =
        CountIn(text, a + 1, b, T) + (IF TermOf[text[a]] = T THEN 1 ELSE 0)
  <2>1. CASE TermOf[text[a]] = T
    <3>1. S(a, b) = S(a + 1, b) \cup {a}
      BY <2>1
    <3>2. Cardinality(S(a, b)) = Cardinality(S(a + 1, b)) + 1
      <4> HIDE DEF S
      <4> QED
        BY <1>1, <1>3, <3>1, FS_AddElement
    <3> QED
      BY <2>1, <3>2 DEF CountIn
  <2>2. CASE TermOf[text[a]] # T
    <3>1. S(a, b) = S(a + 1, b)
      BY <2>2
    <3>2. Cardinality(S(a, b)) = Cardinality(S(a + 1, b)) + 0
      <4> HIDE DEF S
      <4> QED
        BY <1>2, <3>1
    <3> QED
      BY <2>2, <3>2 DEF CountIn
  <2> QED
    BY <2>1, <2>2
<1> QED
  BY <1>4, <1>5

(* The counts c, with those of n for the document d. *)
With(c, d, n) == [T \in TermSet |-> [c[T] EXCEPT ![d] = n[T]]]

(* The counts of all documents, and those of one. *)
Table == [TermSet -> [Docs -> Nat]]

Tally == [TermSet -> Nat]

LEMMA WithType ==
  ASSUME NEW c \in Table, NEW d \in Docs, NEW n \in Tally
  PROVE  /\ With(c, d, n) \in Table
         /\ \A T \in TermSet : \A e \in Docs : With(c, d, n)[T][e] = IF e = d THEN n[T] ELSE c[T][e]
BY DEF With, Table, Tally

LEMMA WithRecount ==
  ASSUME NEW c \in Table, NEW d \in Docs, NEW n \in Tally,
         NEW T \in TermSet, NEW m \in Nat
  PROVE  Recount(With(c, d, n), T, d, m) = With(c, d, [n EXCEPT ![T] = m])
<1> DEFINE w == With(c, d, n)
           u == Recount(w, T, d, m)
           v == With(c, d, [n EXCEPT ![T] = m])
<1> USE DEF Table, Tally
<1>1. w \in [TermSet -> [Docs -> Nat]] /\ \A S \in TermSet : w[S] = [c[S] EXCEPT ![d] = n[S]]
  BY DEF With
<1>2. [w[T] EXCEPT ![d] = m] = [c[T] EXCEPT ![d] = m]
  <2> HIDE DEF w
  <2>1. c[T] \in [Docs -> Nat] /\ w[T] = [c[T] EXCEPT ![d] = n[T]]
    BY <1>1
  <2> QED
    BY <2>1
<1>3. \A S \in TermSet : v[S] = [c[S] EXCEPT ![d] = IF S = T THEN m ELSE n[S]]
  BY DEF With
<1>4. v \in [TermSet -> [Docs -> Nat]]
  BY DEF With
<1> HIDE DEF w, v
<1>5. u \in [TermSet -> [Docs -> Nat]] /\ \A S \in TermSet : u[S] = IF S = T THEN [w[T] EXCEPT ![d] = m] ELSE w[S]
  BY <1>1 DEF Recount
<1> HIDE DEF u
<1>6. \A S \in TermSet : u[S] = v[S]
  BY <1>1, <1>2, <1>3, <1>5
<1>7. u = v
  BY <1>4, <1>5, <1>6
<1> QED
  BY <1>7 DEF u, v, w

LEMMA TermAt ==
  ASSUME NEW text \in Seq(Words), NEW k \in 1 .. Len(text)
  PROVE  /\ Tokenize(text)[k] = TermOf[text[k]]
         /\ TermOf[text[k]] \in Range(TermOf)
         /\ TermOf[text[k]] # NoTerm => TermOf[text[k]] \in TermSet
<1>1. k \in DOMAIN text /\ text[k] \in Words
  OBVIOUS
<1>2. TermOf[text[k]] \in Range(TermOf)
  BY <1>1, FtsAssumption DEF Range
<1> QED
  BY <1>1, <1>2 DEF Tokenize, TermSet

Indexes == UNION {[S -> Seq(Posting)] : S \in SUBSET TermSet}

LEMMA MirrorsIndexes ==
  ASSUME NEW index, NEW c, Mirrors(index, c)
  PROVE  index \in Indexes
BY DEF Mirrors, IsIndex, Indexes

(* fts_index_add of a document that is not in the index. *)
LEMMA IndexAddCounts ==
  ASSUME NEW index, NEW c, Mirrors(index, c), NEW d \in Docs, NEW text \in Seq(Words),
         \A T \in TermSet : c[T][d] = 0
  PROVE  Mirrors(IndexAdd(index, d, text),
                 With(c, d, [T \in TermSet |-> CountIn(text, 1, Len(text), T)]))
<1> DEFINE n == Len(text)
           N(k) == [T \in TermSet |-> CountIn(text, 1, k, T)]
           C(k) == With(c, d, N(k))
           P == [k \in 0 .. n |-> {y \in Indexes : Mirrors(y, C(k))}]
           body == [k \in 1 .. n |-> [y \in P[k - 1] |-> AddTerm(y, d, Tokenize(text)[k])]]
           F(g) == [k \in 0 .. n |-> IF k = 0 THEN index ELSE AddTerm(g[k - 1], d, Tokenize(text)[k])]
<1>1. c \in Table /\ n \in Nat
  BY DEF Mirrors, Table
<1>2. \A k \in Int : N(k) \in Tally
  <2>1. \A i, k \in Int : \A T : CountIn(text, i, k, T) \in Nat
    BY CountInType
  <2> QED
    BY <2>1 DEF Tally
<1>3. C(0) = c
  <2>1. \A T \in TermSet : N(0)[T] = 0
    BY CountInNone
  <2>2. \A T \in TermSet : C(0)[T] = c[T]
    <3> SUFFICES ASSUME NEW T \in TermSet PROVE C(0)[T] = c[T]
      OBVIOUS
    <3>1. C(0)[T] = [c[T] EXCEPT ![d] = 0]
      <4> HIDE DEF N
      <4> QED
        BY <2>1 DEF With
    <3>2. c[T] \in [Docs -> Nat] /\ c[T][d] = 0
      BY <1>1 DEF Table
    <3> HIDE DEF C
    <3> QED
      BY <3>1, <3>2
  <2>3. C(0) \in Table
    <3> DEFINE a == N(0)
    <3>1. a \in Tally
      <4> HIDE DEF N
      <4> QED
        BY <1>2
    <3>2. C(0) = With(c, d, a)
      OBVIOUS
    <3> HIDE DEF a
    <3>3. With(c, d, a) \in Table
      BY <1>1, <3>1, WithType
    <3> QED
      BY <3>2, <3>3
  <2> HIDE DEF C
  <2> QED
    BY <1>1, <2>2, <2>3 DEF Table
<1>4. ASSUME NEW k \in 1 .. n, NEW y, Mirrors(y, C(k - 1))
      PROVE  Mirrors(AddTerm(y, d, Tokenize(text)[k]), C(k))
  <2> DEFINE w == TermOf[text[k]]
  <2>1. Tokenize(text)[k] = w /\ (w # NoTerm => w \in TermSet)
    BY TermAt
  <2>2. k \in Int /\ 1 <= k /\ k - 1 \in Int
    OBVIOUS
  <2>3. \A T \in TermSet : N(k)[T] = N(k - 1)[T] + (IF w = T THEN 1 ELSE 0)
    BY <2>2, CountInEnds
  <2>4. N(k) \in Tally /\ N(k - 1) \in Tally
    BY <1>2, <2>2
  <2> DEFINE a == N(k - 1)
  <2>a. a \in Tally /\ a = N(k - 1) /\ C(k - 1) = With(c, d, a)
    BY <2>4
  <2> HIDE DEF w, N, a
  <2>5. CASE w = NoTerm
    <3>1. AddTerm(y, d, Tokenize(text)[k]) = y
      BY <2>1, <2>5 DEF AddTerm
    <3>2. \A T \in TermSet : N(k)[T] = N(k - 1)[T]
      BY <2>3, <2>4, <2>5 DEF TermSet, Tally
    <3>3. N(k) = N(k - 1)
      BY <2>4, <3>2 DEF Tally
    <3> QED
      BY <1>4, <3>1, <3>3
  <2>6. CASE w # NoTerm
    <3> DEFINE m == a[w] + 1
    <3>1. w \in TermSet /\ m \in Nat
      BY <2>1, <2>a, <2>6 DEF Tally
    <3>2. C(k - 1)[w][d] = a[w]
      <4>1. \A T \in TermSet : \A e \in Docs : With(c, d, a)[T][e] = IF e = d THEN a[T] ELSE c[T][e]
        BY <1>1, <2>a, WithType
      <4> QED
        BY <2>a, <3>1, <4>1
    <3>3. Mirrors(AddTerm(y, d, w), Recount(C(k - 1), w, d, m))
      <4>1. Mirrors(AddTerm(y, d, w), Recount(C(k - 1), w, d, C(k - 1)[w][d] + 1))
        <5> HIDE DEF C
        <5> QED
          BY <1>4, <3>1, AddTermCounts
      <4> QED
        BY <3>2, <4>1
    <3>4. [a EXCEPT ![w] = m] = N(k)
      BY <2>3, <2>4, <2>a, <3>1 DEF Tally
    <3>5. Recount(C(k - 1), w, d, m) = C(k)
      <4> HIDE DEF m
      <4>1. Recount(With(c, d, a), w, d, m) = With(c, d, [a EXCEPT ![w] = m])
        BY <1>1, <2>a, <3>1, WithRecount
      <4> QED
        BY <2>a, <3>4, <4>1
    <3> QED
      BY <2>1, <3>3, <3>5
  <2> QED
    BY <2>5, <2>6
<1> HIDE DEF C
<1>5. \A k \in 1 .. n : k - 1 \in 0 .. n /\ k \in 0 .. n /\ k # 0
  BY <1>1
<1>6. \A k \in 0 .. n : \A y : y \in P[k] <=> Mirrors(y, C(k))
  BY MirrorsIndexes
<1>7. \A k \in 1 .. n : \A y \in P[k - 1] : body[k][y] = AddTerm(y, d, Tokenize(text)[k])
  <2> HIDE DEF P
  <2> QED
    OBVIOUS
<1>8. index \in P[0]
  BY <1>1, <1>3, <1>6
<1> HIDE DEF P, body
<1>9. \A k \in 1 .. n : \A y \in P[k - 1] : body[k][y] \in P[k]
  BY <1>4, <1>5, <1>6, <1>7
<1>10. PICK g : IsLoop(g, n, index, body) /\ \A k \in 0 .. n : g[k] \in P[k]
  <2> HIDE DEF n
  <2> QED
    BY <1>1, <1>8, <1>9, Unrolls
<1>11. g = F(g)
  <2>1. \A k \in 0 .. n : k # 0 => body[k][g[k - 1]] = AddTerm(g[k - 1], d, Tokenize(text)[k])
    <3> SUFFICES ASSUME NEW k \in 1 .. n
                 PROVE  body[k][g[k - 1]] = AddTerm(g[k - 1], d, Tokenize(text)[k])
      BY <1>1
    <3>1. g[k - 1] \in P[k - 1]
      BY <1>5, <1>10
    <3> QED
      BY <1>7, <3>1
  <2>2. F(g) = [k \in 0 .. n |-> IF k = 0 THEN index ELSE body[k][g[k - 1]]]
    BY <2>1
  <2> QED
    BY <1>10, <2>2 DEF IsLoop
<1> DEFINE t == CHOOSE e : e = F(e)
<1>12. t = F(t)
  <2> HIDE DEF F
  <2> QED
    BY <1>11
<1>13. IndexAdd(index, d, text) = t[n]
  BY DEF IndexAdd
<1> HIDE DEF t
<1>14. \A k \in 0 .. n : t[k] = IF k = 0 THEN index ELSE AddTerm(t[k - 1], d, Tokenize(text)[k])
  BY <1>12
<1> DEFINE B == {k \in 0 .. n : Mirrors(t[k], C(k))}
<1>15. 0 \in B
  BY <1>1, <1>3, <1>14
<1>16. \A k \in 1 .. n : k - 1 \in B => k \in B
  <2> SUFFICES ASSUME NEW k \in 1 .. n, Mirrors(t[k - 1], C(k - 1))
               PROVE  k \in B
    OBVIOUS
  <2>1. t[k] = AddTerm(t[k - 1], d, Tokenize(text)[k])
    BY <1>5, <1>14
  <2> QED
    BY <1>4, <1>5, <2>1
<1>17. n \in B
  <2>1. n \in 0 .. n
    BY <1>1
  <2> HIDE DEF B, n
  <2> QED
    BY <1>1, <1>15, <1>16, <2>1, Turns
<1> QED
  BY <1>13, <1>17 DEF C

(* fts_index_del of a document that is in the index: no assertion fails. *)
LEMMA IndexDelCounts ==
  ASSUME NEW index, NEW c, Mirrors(index, c), NEW d \in Docs, NEW text \in Seq(Words),
         \A T \in TermSet : c[T][d] = CountIn(text, 1, Len(text), T)
  PROVE  LET r == IndexDel(index, d, text)
         IN  r.ok /\ Mirrors(r.index, With(c, d, [T \in TermSet |-> 0]))
<1> DEFINE n == Len(text)
           x == [index |-> index, ok |-> TRUE]
           N(k) == [T \in TermSet |-> CountIn(text, k + 1, n, T)]
           C(k) == With(c, d, N(k))
           Good(r, k) == r = [index |-> r.index, ok |-> TRUE] /\ Mirrors(r.index, C(k))
           P == [k \in 0 .. n |-> {r \in [index: Indexes, ok: BOOLEAN] : Good(r, k)}]
           body == [k \in 1 .. n |-> [r \in P[k - 1] |-> DelTerm(r, d, Tokenize(text)[k])]]
           F(g) == [k \in 0 .. n |-> IF k = 0 THEN x ELSE DelTerm(g[k - 1], d, Tokenize(text)[k])]
<1>1. c \in Table /\ n \in Nat
  BY DEF Mirrors, Table
<1>2. \A k \in Int : N(k) \in Tally
  <2>1. \A i, k \in Int : \A T : CountIn(text, i, k, T) \in Nat
    BY CountInType
  <2> QED
    BY <1>1, <2>1 DEF Tally
<1>3. C(0) = c
  <2> DEFINE a == N(0)
  <2>1. a \in Tally /\ C(0) = With(c, d, a)
    <3> HIDE DEF N
    <3> QED
      BY <1>2
  <2>2. \A T \in TermSet : a[T] = c[T][d]
    OBVIOUS
  <2> HIDE DEF a
  <2>3. \A T \in TermSet : With(c, d, a)[T] = c[T]
    <3> SUFFICES ASSUME NEW T \in TermSet PROVE With(c, d, a)[T] = c[T]
      OBVIOUS
    <3>1. With(c, d, a)[T] = [c[T] EXCEPT ![d] = c[T][d]]
      BY <2>2 DEF With
    <3>2. c[T] \in [Docs -> Nat]
      BY <1>1 DEF Table
    <3> QED
      BY <3>1, <3>2
  <2>4. With(c, d, a) \in Table
    BY <1>1, <2>1, WithType
  <2>5. With(c, d, a) = c
    BY <1>1, <2>3, <2>4 DEF Table
  <2> QED
    BY <2>1, <2>5
<1>4. ASSUME NEW k \in 1 .. n, NEW r, Good(r, k - 1)
      PROVE  Good(DelTerm(r, d, Tokenize(text)[k]), k)
  <2> DEFINE w == TermOf[text[k]]
  <2>1. Tokenize(text)[k] = w /\ (w # NoTerm => w \in TermSet)
    BY TermAt
  <2>2. k \in Int /\ k <= n /\ k - 1 \in Int /\ (k - 1) + 1 = k
    BY <1>1
  <2>3. \A T \in TermSet : N(k - 1)[T] = N(k)[T] + (IF w = T THEN 1 ELSE 0)
    <3>1. \A T : CountIn(text, k, n, T) = CountIn(text, k + 1, n, T) + (IF TermOf[text[k]] = T THEN 1 ELSE 0)
      BY <1>1, <2>2, CountInEnds
    <3> QED
      BY <2>2, <3>1
  <2>4. N(k) \in Tally /\ N(k - 1) \in Tally
    BY <1>2, <2>2
  <2> DEFINE a == N(k - 1)
  <2>a. a \in Tally /\ a = N(k - 1) /\ C(k - 1) = With(c, d, a)
    BY <2>4
  <2>b. r = [index |-> r.index, ok |-> TRUE] /\ Mirrors(r.index, C(k - 1))
    BY <1>4
  <2>c. r.ok = TRUE
    BY <2>b
  <2> HIDE DEF w, N, a
  <2>5. CASE w = NoTerm
    <3>1. DelTerm(r, d, Tokenize(text)[k]) = r
      BY <2>1, <2>5 DEF DelTerm
    <3>2. \A T \in TermSet : N(k)[T] = N(k - 1)[T]
      BY <2>3, <2>4, <2>5 DEF TermSet, Tally
    <3>3. N(k) = N(k - 1)
      BY <2>4, <3>2 DEF Tally
    <3> QED
      BY <2>b, <3>1, <3>3
  <2>6. CASE w # NoTerm
    <3> DEFINE m == a[w] - 1
               q == DelTerm(r, d, w)
    <3>1. w \in TermSet /\ m = N(k)[w] /\ m \in Nat /\ a[w] > 0
      BY <2>1, <2>3, <2>4, <2>a, <2>6 DEF Tally
    <3>2. C(k - 1)[w][d] = a[w]
      <4>1. \A T \in TermSet : \A e \in Docs : With(c, d, a)[T][e] = IF e = d THEN a[T] ELSE c[T][e]
        BY <1>1, <2>a, WithType
      <4> QED
        BY <2>a, <3>1, <4>1
    <3>3. /\ q = [index |-> q.index, ok |-> r.ok]
          /\ Mirrors(q.index, Recount(C(k - 1), w, d, C(k - 1)[w][d] - 1))
      <4> HIDE DEF C
      <4>1. C(k - 1)[w][d] > 0
        BY <3>1, <3>2
      <4>2. r = [index |-> r.index, ok |-> r.ok]
        BY <2>b, <2>c
      <4> QED
        BY <2>b, <2>c, <3>1, <4>1, <4>2, DelTermCounts
    <3>4. [a EXCEPT ![w] = m] = N(k)
      <4>1. \A T \in TermSet : T # w => a[T] = N(k)[T]
        BY <2>3, <2>4, <2>a DEF Tally
      <4> HIDE DEF m
      <4> QED
        BY <2>4, <2>a, <3>1, <4>1 DEF Tally
    <3>5. Recount(C(k - 1), w, d, m) = C(k)
      <4> HIDE DEF m
      <4>1. Recount(With(c, d, a), w, d, m) = With(c, d, [a EXCEPT ![w] = m])
        BY <1>1, <2>a, <3>1, WithRecount
      <4> QED
        BY <2>a, <3>4, <4>1
    <3>6. Mirrors(q.index, C(k))
      <4> HIDE DEF C, q
      <4> QED
        BY <3>2, <3>3, <3>5
    <3> QED
      BY <2>1, <2>c, <3>3, <3>6
  <2> QED
    BY <2>5, <2>6
<1> HIDE DEF C
<1>5. \A k \in 1 .. n : k - 1 \in 0 .. n /\ k \in 0 .. n /\ k # 0
  BY <1>1
<1>6. \A k \in 0 .. n : \A r : r \in P[k] <=> Good(r, k)
  <2> SUFFICES ASSUME NEW k \in 0 .. n, NEW r, Good(r, k) PROVE r \in [index: Indexes, ok: BOOLEAN]
    BY Zenon
  <2> DEFINE v == r.index
  <2>1. v \in Indexes
    BY MirrorsIndexes
  <2>2. r = [index |-> v, ok |-> TRUE]
    OBVIOUS
  <2> HIDE DEF v, Good, C, P
  <2> QED
    BY <2>1, <2>2
<1>7. \A k \in 1 .. n : \A r \in P[k - 1] : body[k][r] = DelTerm(r, d, Tokenize(text)[k])
  <2> HIDE DEF P
  <2> QED
    OBVIOUS
<1>8. Good(x, 0)
  BY <1>3
<1>9. x \in P[0]
  <2>1. 0 \in 0 .. n
    BY <1>1
  <2> HIDE DEF Good, P
  <2> QED
    BY <1>6, <1>8, <2>1
<1> HIDE DEF P, body, x, Good
<1>10. \A k \in 1 .. n : \A r \in P[k - 1] : body[k][r] \in P[k]
  BY <1>4, <1>5, <1>6, <1>7
<1>11. PICK g : IsLoop(g, n, x, body) /\ \A k \in 0 .. n : g[k] \in P[k]
  <2> HIDE DEF n
  <2> QED
    BY <1>1, <1>9, <1>10, Unrolls
<1>12. g = F(g)
  <2>1. \A k \in 0 .. n : k # 0 => body[k][g[k - 1]] = DelTerm(g[k - 1], d, Tokenize(text)[k])
    <3> SUFFICES ASSUME NEW k \in 1 .. n
                 PROVE  body[k][g[k - 1]] = DelTerm(g[k - 1], d, Tokenize(text)[k])
      BY <1>1
    <3>1. g[k - 1] \in P[k - 1]
      BY <1>5, <1>11
    <3> QED
      BY <1>7, <3>1
  <2>2. F(g) = [k \in 0 .. n |-> IF k = 0 THEN x ELSE body[k][g[k - 1]]]
    BY <2>1
  <2> QED
    BY <1>11, <2>2 DEF IsLoop
<1> DEFINE t == CHOOSE e : e = F(e)
<1>13. t = F(t)
  <2> HIDE DEF F
  <2> QED
    BY <1>12
<1>14. IndexDel(index, d, text) = t[n]
  BY DEF IndexDel, x
<1> HIDE DEF t
<1>15. \A k \in 0 .. n : t[k] = IF k = 0 THEN x ELSE DelTerm(t[k - 1], d, Tokenize(text)[k])
  BY <1>13
<1> DEFINE B == {k \in 0 .. n : Good(t[k], k)}
<1>16. 0 \in B
  BY <1>1, <1>8, <1>15
<1>17. \A k \in 1 .. n : k - 1 \in B => k \in B
  <2> SUFFICES ASSUME NEW k \in 1 .. n, Good(t[k - 1], k - 1)
               PROVE  k \in B
    OBVIOUS
  <2>1. t[k] = DelTerm(t[k - 1], d, Tokenize(text)[k])
    BY <1>5, <1>15
  <2> QED
    BY <1>4, <1>5, <2>1
<1>18. n \in B
  <2>1. n \in 0 .. n
    BY <1>1
  <2> HIDE DEF B, n
  <2> QED
    BY <1>1, <1>16, <1>17, <2>1, Turns
<1> DEFINE r == IndexDel(index, d, text)
<1>19. r = [index |-> r.index, ok |-> TRUE] /\ Mirrors(r.index, C(n))
  BY <1>14, <1>18 DEF Good
<1>20. C(n) = With(c, d, [T \in TermSet |-> 0])
  <2>1. \A T : CountIn(text, n + 1, n, T) = 0
    BY <1>1, CountInNone
  <2>2. N(n) = [T \in TermSet |-> 0]
    BY <2>1
  <2> QED
    BY <2>2 DEF C
<1>21. r.ok
  <2> HIDE DEF r
  <2> QED
    BY <1>19
<1> QED
  BY <1>19, <1>20, <1>21

-----------------------------------------------------------------------------
(* The object: documents and index together. *)

Live(dc) == {d \in Docs : dc[d] # Nil}

(* What the addresses may hold. *)
Memory == [Docs -> Document \cup {Nil}]

(* The counts that the documents dc should have in the index. *)
DocCounts(dc) ==
  [T \in TermSet |-> [d \in Docs |->
     IF dc[d] = Nil THEN 0 ELSE CountIn(dc[d].text, 1, Len(dc[d].text), T)]]

TextCounts(text) == [T \in TermSet |-> CountIn(text, 1, Len(text), T)]

NoCounts == [T \in TermSet |-> 0]

(* The places in a document that are not stop words. *)
Places(d, text) == {<<d, i>> : i \in {j \in DOMAIN text : TermOf[text[j]] # NoTerm}}

Tokens(dc) == UNION {Places(d, dc[d].text) : d \in Live(dc)}

(* The object f and the documents dc belong together. *)
StoreInv(f, dc) ==
  /\ dc \in Memory
  /\ f \in Object
  /\ IsFiniteSet(DOMAIN f.docs)
  /\ Live(dc) = Range(f.docs)
  /\ \A t \in DOMAIN f.docs : dc[f.docs[t]].title = t
  /\ \A d \in Live(dc) : dc[d].len = NonStopwords(dc[d].text)
  /\ Mirrors(f.index, DocCounts(dc))
  /\ IsFiniteSet(Tokens(dc)) /\ f.len = Cardinality(Tokens(dc))

NoDocs == [d \in Docs |-> Nil]

FtsInv ==
  /\ status \in {"up", "fault"}
  /\ IF fts = Nil THEN doc = NoDocs ELSE StoreInv(fts, doc)

LEMMA DocumentType ==
  ASSUME NEW dc \in Memory, NEW d \in Live(dc)
  PROVE  /\ d \in Docs /\ dc[d] # Nil
         /\ dc[d] \in Document
         /\ dc[d].text \in Texts /\ dc[d].text \in Seq(Words)
         /\ dc[d].title \in Titles /\ dc[d].len \in Nat
<1>1. d \in Docs /\ dc[d] # Nil /\ dc[d] \in Document
  BY DEF Live, Memory
<1> QED
  BY <1>1, FtsAssumption DEF Document

LEMMA ObjectType ==
  ASSUME NEW f \in Object
  PROVE  /\ f = [docs |-> f.docs, index |-> f.index, len |-> f.len]
         /\ DOMAIN f.docs \subseteq Titles /\ f.docs \in [DOMAIN f.docs -> Docs]
         /\ f.len \in Nat
         /\ f # Nil
<1> DEFINE D == UNION {[T -> Docs] : T \in SUBSET Titles}
           I == UNION {[T -> Seq(Posting)] : T \in SUBSET Range(TermOf)}
<1>1. f \in [docs: D, index: I, len: Nat]
  BY DEF Object
<1>2. f # Nil
  BY FtsAssumption
<1>3. f = [docs |-> f.docs, index |-> f.index, len |-> f.len] /\ f.docs \in D /\ f.len \in Nat
  <2> HIDE DEF D, I
  <2> QED
    BY <1>1
<1>4. PICK T \in SUBSET Titles : f.docs \in [T -> Docs]
  BY <1>3
<1>5. DOMAIN f.docs = T
  BY <1>4
<1> QED
  BY <1>2, <1>3, <1>4, <1>5

LEMMA MakesObject ==
  ASSUME NEW ds, DOMAIN ds \subseteq Titles, ds \in [DOMAIN ds -> Docs],
         NEW index, IsIndex(index), NEW n \in Nat
  PROVE  [docs |-> ds, index |-> index, len |-> n] \in Object
<1> DEFINE D == UNION {[T -> Docs] : T \in SUBSET Titles}
           I == UNION {[T -> Seq(Posting)] : T \in SUBSET Range(TermOf)}
<1>1. ds \in D
  OBVIOUS
<1>2. index \in I
  BY DEF IsIndex, TermSet
<1>3. [docs |-> ds, index |-> index, len |-> n] \in [docs: D, index: I, len: Nat]
  <2> HIDE DEF D, I
  <2> QED
    BY <1>1, <1>2
<1> QED
  BY <1>3 DEF Object

(* How many words of a text are not stop words. *)
LEMMA PlacesCount ==
  ASSUME NEW d, NEW text \in Seq(Words)
  PROVE  /\ IsFiniteSet(Places(d, text))
         /\ NonStopwords(text) \in Nat
         /\ Cardinality(Places(d, text)) = NonStopwords(text)
<1> DEFINE S == {j \in DOMAIN text : TermOf[text[j]] # NoTerm}
           f == [i \in S |-> <<d, i>>]
<1>1. Len(text) \in Nat /\ DOMAIN text = 1 .. Len(text)
  OBVIOUS
<1>2. IsFiniteSet(DOMAIN text)
  BY <1>1, FS_Interval
<1>3. S \subseteq DOMAIN text
  OBVIOUS
<1>4. IsFiniteSet(S)
  <2> HIDE DEF S
  <2> QED
    BY <1>2, <1>3, FS_Subset
<1>5. NonStopwords(text) = Cardinality(S)
  <2>1. {i \in DOMAIN text : Tokenize(text)[i] # NoTerm} = S
    BY DEF Tokenize
  <2> QED
    BY <2>1 DEF NonStopwords
<1>6. Places(d, text) = {f[i] : i \in S}
  BY DEF Places
<1> HIDE DEF S
<1>7. f \in [S -> Places(d, text)]
  BY <1>6
<1>8. \A i, j \in S : f[i] = f[j] => i = j
  OBVIOUS
<1> HIDE DEF f
<1>9. \A p \in Places(d, text) : \E i \in S : f[i] = p
  BY <1>6
<1>10. f \in Bijection(S, Places(d, text))
  BY <1>7, <1>8, <1>9 DEF Bijection, Injection, IsInjective, Surjection
<1>11. IsFiniteSet(Places(d, text)) /\ Cardinality(Places(d, text)) = Cardinality(S)
  <2>1. ExistsBijection(S, Places(d, text))
    BY <1>10 DEF ExistsBijection
  <2> QED
    BY <1>4, <2>1, FS_Bijection
<1> QED
  BY <1>4, <1>5, <1>11, FS_CardinalityType

LEMMA DocCountsType ==
  ASSUME NEW dc \in Memory
  PROVE  /\ DocCounts(dc) \in Table
         /\ \A T \in TermSet : \A d \in Docs : DocCounts(dc)[T][d] =
              IF dc[d] = Nil THEN 0 ELSE CountIn(dc[d].text, 1, Len(dc[d].text), T)
<1> DEFINE n(d, T) == IF dc[d] = Nil THEN 0 ELSE CountIn(dc[d].text, 1, Len(dc[d].text), T)
<1>1. ASSUME NEW d \in Docs, NEW T \in TermSet
      PROVE  n(d, T) \in Nat
  <2>1. CASE dc[d] = Nil
    BY <2>1
  <2>2. CASE dc[d] # Nil
    <3> DEFINE text == dc[d].text
               m == Len(text)
    <3>1. d \in Live(dc)
      BY <2>2 DEF Live
    <3>2. m \in Int /\ 1 \in Int
      BY <3>1, DocumentType
    <3> HIDE DEF text, m
    <3>3. \A a, b \in Int : \A S : CountIn(text, a, b, S) \in Nat
      BY CountInType
    <3>4. CountIn(text, 1, m, T) \in Nat
      BY <3>2, <3>3
    <3> QED
      BY <2>2, <3>4 DEF text, m
  <2> QED
    BY <2>1, <2>2
<1>2. DocCounts(dc) = [T \in TermSet |-> [d \in Docs |-> n(d, T)]]
  BY DEF DocCounts
<1> HIDE DEF n
<1>3. DocCounts(dc) \in Table
  BY <1>1, <1>2 DEF Table
<1>4. \A T \in TermSet : \A d \in Docs : DocCounts(dc)[T][d] = n(d, T)
  BY <1>2
<1> QED
  BY <1>3, <1>4 DEF n

LEMMA TablesEqual ==
  ASSUME NEW a \in Table, NEW b \in Table, \A T \in TermSet : \A d \in Docs : a[T][d] = b[T][d]
  PROVE  a = b
<1>1. ASSUME NEW T \in TermSet PROVE a[T] = b[T]
  <2>1. a[T] \in [Docs -> Nat] /\ b[T] \in [Docs -> Nat]
    BY DEF Table
  <2> QED
    BY <2>1
<1> QED
  BY <1>1 DEF Table

(* What a document more makes of all that is counted. *)
LEMMA OneMore ==
  ASSUME NEW dc \in Memory, NEW d \in Docs, dc[d] = Nil, NEW D \in Document
  PROVE  LET e == [dc EXCEPT ![d] = D]
         IN  /\ e \in Memory
             /\ D # Nil /\ D.text \in Seq(Words)
             /\ d \notin Live(dc)
             /\ Live(e) = Live(dc) \cup {d}
             /\ \A T \in TermSet : DocCounts(dc)[T][d] = 0
             /\ \A T \in TermSet : DocCounts(e)[T][d] = CountIn(D.text, 1, Len(D.text), T)
             /\ DocCounts(e) = With(DocCounts(dc), d, TextCounts(D.text))
             /\ DocCounts(dc) = With(DocCounts(e), d, NoCounts)
<1> DEFINE e == [dc EXCEPT ![d] = D]
           k(T) == CountIn(D.text, 1, Len(D.text), T)
           n == [T \in TermSet |-> k(T)]
           z == [T \in TermSet |-> 0]
<1>1. D # Nil /\ D.text \in Seq(Words)
  BY FtsAssumption DEF Document
<1>2. e \in Memory /\ \A x \in Docs : e[x] = IF x = d THEN D ELSE dc[x]
  BY DEF Memory
<1> HIDE DEF e
<1>3. d \notin Live(dc)
  BY DEF Live
<1>4. Live(e) = Live(dc) \cup {d}
  BY <1>1, <1>2 DEF Live
<1>5. \A T \in TermSet : DocCounts(dc)[T][d] = 0
  BY DocCountsType
<1>6. /\ DocCounts(dc) \in Table
      /\ DocCounts(e) \in Table
  BY <1>2, DocCountsType
<1>7. /\ \A T \in TermSet : \A x \in Docs : DocCounts(e)[T][x] =
           IF e[x] = Nil THEN 0 ELSE CountIn(e[x].text, 1, Len(e[x].text), T)
      /\ \A T \in TermSet : \A x \in Docs : DocCounts(dc)[T][x] =
           IF dc[x] = Nil THEN 0 ELSE CountIn(dc[x].text, 1, Len(dc[x].text), T)
  BY <1>2, DocCountsType
<1>8. \A T \in TermSet : \A x \in Docs : DocCounts(e)[T][x] = IF x = d THEN k(T) ELSE DocCounts(dc)[T][x]
  BY <1>1, <1>2, <1>7
<1>9. n \in Tally /\ z \in Tally
  <2>1. \A T \in TermSet : k(T) = DocCounts(e)[T][d]
    BY <1>8
  <2>2. \A T \in TermSet : k(T) \in Nat
    BY <1>6, <2>1 DEF Table
  <2> QED
    BY <2>2 DEF Tally
<1>10. DocCounts(e) = With(DocCounts(dc), d, n)
  <2> DEFINE a == DocCounts(e)
             b == DocCounts(dc)
  <2>1. \A T \in TermSet : n[T] = k(T)
    OBVIOUS
  <2> HIDE DEF a, b, n, k
  <2>2. a \in Table /\ b \in Table
    BY <1>6 DEF a, b
  <2>3. /\ With(b, d, n) \in Table
        /\ \A T \in TermSet : \A x \in Docs : With(b, d, n)[T][x] = IF x = d THEN n[T] ELSE b[T][x]
    BY <1>9, <2>2, WithType
  <2>4. \A T \in TermSet : \A x \in Docs : With(b, d, n)[T][x] = a[T][x]
    BY <1>8, <2>1, <2>3 DEF a, b
  <2>5. With(b, d, n) = a
    BY <2>2, <2>3, <2>4, TablesEqual
  <2> QED
    BY <2>5 DEF a, b
<1>11. DocCounts(dc) = With(DocCounts(e), d, z)
  <2> DEFINE a == DocCounts(e)
             b == DocCounts(dc)
  <2>1. \A T \in TermSet : z[T] = 0
    OBVIOUS
  <2> HIDE DEF a, b, z, k
  <2>2. a \in Table /\ b \in Table
    BY <1>6 DEF a, b
  <2>3. /\ With(a, d, z) \in Table
        /\ \A T \in TermSet : \A x \in Docs : With(a, d, z)[T][x] = IF x = d THEN z[T] ELSE a[T][x]
    BY <1>9, <2>2, WithType
  <2>4. \A T \in TermSet : \A x \in Docs : With(a, d, z)[T][x] = b[T][x]
    BY <1>5, <1>8, <2>1, <2>3 DEF a, b
  <2>5. With(a, d, z) = b
    BY <2>2, <2>3, <2>4, TablesEqual
  <2> QED
    BY <2>5 DEF a, b
<1>12. \A T \in TermSet : DocCounts(e)[T][d] = CountIn(D.text, 1, Len(D.text), T)
  BY <1>8
<1> QED
  BY <1>1, <1>2, <1>3, <1>4, <1>5, <1>10, <1>11, <1>12 DEF e, TextCounts, NoCounts

LEMMA OneMoreTokens ==
  ASSUME NEW dc \in Memory, NEW d \in Docs, dc[d] = Nil, NEW D \in Document
  PROVE  /\ Tokens([dc EXCEPT ![d] = D]) = Tokens(dc) \cup Places(d, D.text)
         /\ Tokens(dc) \cap Places(d, D.text) = {}
<1> DEFINE e == [dc EXCEPT ![d] = D]
<1>1. d \notin Live(dc) /\ Live(e) = Live(dc) \cup {d}
  BY OneMore
<1>2. \A x \in Docs : e[x] = IF x = d THEN D ELSE dc[x]
  BY DEF Memory
<1> HIDE DEF e
<1>3. \A x \in Live(dc) : x \in Docs /\ x # d
  BY <1>1 DEF Live
<1>4. Tokens(e) = Tokens(dc) \cup Places(d, D.text)
  <2>1. \A x \in Live(dc) : e[x] = dc[x]
    BY <1>2, <1>3
  <2>2. e[d] = D
    BY <1>2
  <2>3. \A p : p \in Tokens(e) <=> \E x \in Live(e) : p \in Places(x, e[x].text)
    BY DEF Tokens
  <2>4. \A p : p \in Tokens(dc) <=> \E x \in Live(dc) : p \in Places(x, dc[x].text)
    BY DEF Tokens
  <2> QED
    BY <1>1, <2>1, <2>2, <2>3, <2>4
<1>5. ASSUME NEW p \in Tokens(dc), p \in Places(d, D.text) PROVE FALSE
  <2>1. PICK x \in Live(dc) : p \in Places(x, dc[x].text)
    BY DEF Tokens
  <2>2. p[1] = x
    BY <2>1 DEF Places
  <2>3. p[1] = d
    BY <1>5 DEF Places
  <2> QED
    BY <1>3, <2>2, <2>3
<1> QED
  BY <1>4, <1>5 DEF e

(* fts_create *)
LEMMA EmptyStore == StoreInv(Empty, NoDocs)
<1>1. NoDocs \in Memory
  BY DEF NoDocs, Memory
<1>2. Live(NoDocs) = {}
  BY DEF Live, NoDocs
<1>3. Tokens(NoDocs) = {}
  BY <1>2 DEF Tokens
<1>4. /\ Empty.docs = << >> /\ Empty.index = << >> /\ Empty.len = 0
      /\ DOMAIN Empty.docs = {} /\ DOMAIN Empty.index = {}
      /\ Range(Empty.docs) = {}
  BY DEF Empty, Range
<1>5. IsIndex(Empty.index)
  BY <1>4 DEF IsIndex
<1>6. Empty \in Object
  <2>1. [docs |-> Empty.docs, index |-> Empty.index, len |-> 0] \in Object
    <3> DEFINE ds == Empty.docs
               ix == Empty.index
    <3>1. DOMAIN ds \subseteq Titles /\ ds \in [DOMAIN ds -> Docs] /\ IsIndex(ix)
      BY <1>4, <1>5
    <3> HIDE DEF ds, ix
    <3>2. [docs |-> ds, index |-> ix, len |-> 0] \in Object
      BY <3>1, MakesObject
    <3> QED
      BY <3>2 DEF ds, ix
  <2>2. Empty = [docs |-> Empty.docs, index |-> Empty.index, len |-> 0]
    BY DEF Empty
  <2> QED
    BY <2>1, <2>2
<1>7. Mirrors(Empty.index, DocCounts(NoDocs))
  <2> DEFINE c == DocCounts(NoDocs)
  <2>1. c \in Table
    BY <1>1, DocCountsType
  <2>2. \A T \in TermSet : \A d \in Docs : c[T][d] = 0
    BY <1>1, DocCountsType DEF NoDocs
  <2> HIDE DEF c
  <2>3. ASSUME NEW T \in TermSet
        PROVE  Lists(Postings(Empty.index, T), c[T])
    <3>1. Postings(Empty.index, T) = << >>
      BY <1>4 DEF Postings
    <3>2. c[T] \in [Docs -> Nat]
      BY <2>1 DEF Table
    <3>3. Lists(<< >>, c[T])
      BY <2>2, <3>2 DEF Lists
    <3> QED
      BY <3>1, <3>3
  <2>4. Mirrors(Empty.index, c)
    BY <1>5, <2>1, <2>3 DEF Mirrors, Table
  <2> QED
    BY <2>4 DEF c
<1>8. IsFiniteSet({}) /\ Cardinality({}) = 0
  BY FS_EmptySet
<1> QED
  BY <1>1, <1>2, <1>3, <1>4, <1>6, <1>7, <1>8 DEF StoreInv

(* fts_add of a title that is not there, at a free address. *)
LEMMA AddsDoc ==
  ASSUME NEW f, NEW dc, StoreInv(f, dc), NEW t \in Titles, t \notin DOMAIN f.docs,
         NEW text \in Texts, NEW d \in Docs, dc[d] = Nil
  PROVE  LET n == NonStopwords(text)
             g == [docs |-> Assign(f.docs, t, d), index |-> IndexAdd(f.index, d, text), len |-> f.len + n]
         IN  StoreInv(g, [dc EXCEPT ![d] = [title |-> t, text |-> text, len |-> n]])
<1> DEFINE n == NonStopwords(text)
           D == [title |-> t, text |-> text, len |-> n]
           ds == Assign(f.docs, t, d)
           ix == IndexAdd(f.index, d, text)
           g == [docs |-> ds, index |-> ix, len |-> f.len + n]
           e == [dc EXCEPT ![d] = D]
<1>1. /\ dc \in Memory /\ f \in Object /\ IsFiniteSet(DOMAIN f.docs)
      /\ Live(dc) = Range(f.docs)
      /\ \A s \in DOMAIN f.docs : dc[f.docs[s]].title = s
      /\ \A x \in Live(dc) : dc[x].len = NonStopwords(dc[x].text)
      /\ Mirrors(f.index, DocCounts(dc))
      /\ IsFiniteSet(Tokens(dc)) /\ f.len = Cardinality(Tokens(dc))
  BY DEF StoreInv
<1>2. /\ DOMAIN f.docs \subseteq Titles /\ f.docs \in [DOMAIN f.docs -> Docs] /\ f.len \in Nat
  BY <1>1, ObjectType
<1>3. text \in Seq(Words)
  BY FtsAssumption
<1>4. n \in Nat /\ IsFiniteSet(Places(d, text)) /\ Cardinality(Places(d, text)) = n
  BY <1>3, PlacesCount
<1>5. D \in Document /\ D.text = text /\ D.title = t /\ D.len = n
  BY <1>4 DEF Document
<1> HIDE DEF D, n, ix
<1>6. /\ e \in Memory
      /\ d \notin Live(dc) /\ Live(e) = Live(dc) \cup {d}
      /\ \A T \in TermSet : DocCounts(dc)[T][d] = 0
      /\ DocCounts(e) = With(DocCounts(dc), d, TextCounts(text))
  <2>1. /\ e \in Memory
        /\ d \notin Live(dc) /\ Live(e) = Live(dc) \cup {d}
        /\ \A T \in TermSet : DocCounts(dc)[T][d] = 0
        /\ DocCounts(e) = With(DocCounts(dc), d, TextCounts(D.text))
    BY <1>1, <1>5, OneMore, ZenonT(40)
  <2> QED
    BY <1>5, <2>1
<1>7. \A x \in Docs : e[x] = IF x = d THEN D ELSE dc[x]
  BY <1>1 DEF Memory
<1>8. Mirrors(ix, DocCounts(e))
  <2> DEFINE c == DocCounts(dc)
  <2>1. Mirrors(f.index, c) /\ \A T \in TermSet : c[T][d] = 0
    BY <1>1, <1>6
  <2>2. DocCounts(e) = With(c, d, TextCounts(text))
    BY <1>6
  <2> HIDE DEF c, e
  <2>3. Mirrors(IndexAdd(f.index, d, text), With(c, d, [T \in TermSet |-> CountIn(text, 1, Len(text), T)]))
    BY <1>3, <2>1, IndexAddCounts
  <2> QED
    BY <2>2, <2>3 DEF ix, TextCounts
<1>9. /\ Tokens(e) = Tokens(dc) \cup Places(d, text)
      /\ Tokens(dc) \cap Places(d, text) = {}
  BY <1>1, <1>5, OneMoreTokens
<1> HIDE DEF e
<1>10. IsFiniteSet(Tokens(e)) /\ f.len + n = Cardinality(Tokens(e))
  <2>1. /\ IsFiniteSet(Tokens(dc) \cup Places(d, text))
        /\ Cardinality(Tokens(dc) \cup Places(d, text)) =
             Cardinality(Tokens(dc)) + Cardinality(Places(d, text))
               - Cardinality(Tokens(dc) \cap Places(d, text))
    BY <1>1, <1>4, FS_Union
  <2>2. Cardinality(Tokens(dc) \cap Places(d, text)) = 0
    BY <1>9, FS_EmptySet
  <2> QED
    BY <1>1, <1>2, <1>4, <1>9, <2>1, <2>2
<1>11. /\ DOMAIN ds = DOMAIN f.docs \cup {t}
       /\ \A s \in DOMAIN ds : ds[s] = IF s = t THEN d ELSE f.docs[s]
       /\ ds \in [DOMAIN ds -> Docs]
  BY <1>2 DEF Assign
<1> HIDE DEF ds
<1>12. IsFiniteSet(DOMAIN ds) /\ DOMAIN ds \subseteq Titles
  BY <1>1, <1>2, <1>11, FS_AddElement
<1>13. Live(e) = Range(ds)
  <2>1. Range(ds) = Range(f.docs) \cup {d}
    BY <1>11 DEF Range
  <2> QED
    BY <1>1, <1>6, <2>1
<1>14. \A s \in DOMAIN ds : e[ds[s]].title = s
  <2> SUFFICES ASSUME NEW s \in DOMAIN ds PROVE e[ds[s]].title = s
    OBVIOUS
  <2>1. CASE s = t
    BY <1>5, <1>7, <1>11, <2>1
  <2>2. CASE s # t
    <3>1. s \in DOMAIN f.docs /\ ds[s] = f.docs[s]
      BY <1>11, <2>2
    <3>2. f.docs[s] \in Live(dc)
      BY <1>1, <3>1 DEF Range
    <3>3. f.docs[s] \in Docs /\ f.docs[s] # d
      BY <1>2, <1>6, <3>1, <3>2
    <3> QED
      BY <1>1, <1>7, <3>1, <3>3
  <2> QED
    BY <2>1, <2>2
<1>15. \A x \in Live(e) : e[x].len = NonStopwords(e[x].text)
  <2> SUFFICES ASSUME NEW x \in Live(e) PROVE e[x].len = NonStopwords(e[x].text)
    OBVIOUS
  <2>1. CASE x = d
    BY <1>5, <1>7, <2>1 DEF n
  <2>2. CASE x # d
    <3>1. x \in Live(dc) /\ x \in Docs
      BY <1>6, <2>2 DEF Live
    <3> QED
      BY <1>1, <1>7, <2>2, <3>1
  <2> QED
    BY <2>1, <2>2
<1>16. g \in Object
  <2> DEFINE m == f.len + n
  <2>1. m \in Nat
    BY <1>2, <1>4
  <2>2. IsIndex(ix)
    BY <1>8 DEF Mirrors
  <2> HIDE DEF m
  <2>3. [docs |-> ds, index |-> ix, len |-> m] \in Object
    BY <1>11, <1>12, <2>1, <2>2, MakesObject
  <2> QED
    BY <2>3 DEF m
<1>17. g.docs = ds /\ g.index = ix /\ g.len = f.len + n
  OBVIOUS
<1> HIDE DEF g
<1>18. StoreInv(g, e)
  BY <1>6, <1>8, <1>10, <1>12, <1>13, <1>14, <1>15, <1>16, <1>17 DEF StoreInv
<1> QED
  BY <1>18 DEF g, e, D, n, ds, ix

(* fts_del of a title that is there: its assertions hold. *)
LEMMA RemovesDoc ==
  ASSUME NEW f, NEW dc, StoreInv(f, dc), NEW t \in DOMAIN f.docs
  PROVE  LET d == f.docs[t]
             r == IndexDel(f.index, d, dc[d].text)
             g == [docs |-> Without(f.docs, t), index |-> r.index, len |-> f.len - dc[d].len]
         IN  r.ok /\ StoreInv(g, [dc EXCEPT ![d] = Nil])
<1> DEFINE d == f.docs[t]
           D == dc[d]
           r == IndexDel(f.index, d, D.text)
           ds == Without(f.docs, t)
           g == [docs |-> ds, index |-> r.index, len |-> f.len - D.len]
           e == [dc EXCEPT ![d] = Nil]
<1>1. /\ dc \in Memory /\ f \in Object /\ IsFiniteSet(DOMAIN f.docs)
      /\ Live(dc) = Range(f.docs)
      /\ \A s \in DOMAIN f.docs : dc[f.docs[s]].title = s
      /\ \A x \in Live(dc) : dc[x].len = NonStopwords(dc[x].text)
      /\ Mirrors(f.index, DocCounts(dc))
      /\ IsFiniteSet(Tokens(dc)) /\ f.len = Cardinality(Tokens(dc))
  BY DEF StoreInv
<1>2. /\ DOMAIN f.docs \subseteq Titles /\ f.docs \in [DOMAIN f.docs -> Docs] /\ f.len \in Nat
  BY <1>1, ObjectType
<1>3. d \in Live(dc)
  BY <1>1 DEF Range
<1>4. d \in Docs /\ D \in Document /\ D.text \in Seq(Words) /\ D.title = t /\ D.len = NonStopwords(D.text)
  <2> HIDE DEF d
  <2>1. dc[d].title = t
    BY <1>1 DEF d
  <2> QED
    BY <1>1, <1>3, <2>1, DocumentType
<1> HIDE DEF d, D
<1>5. /\ e \in Memory /\ e[d] = Nil
      /\ \A x \in Docs : x # d => e[x] = dc[x]
  BY <1>1, <1>4 DEF Memory
<1>6. dc = [e EXCEPT ![d] = D]
  <2>1. dc[d] = D
    BY DEF D
  <2> QED
    BY <1>1, <1>4, <1>5, <2>1 DEF Memory
<1> HIDE DEF e
<1>7. /\ d \notin Live(e) /\ Live(dc) = Live(e) \cup {d}
      /\ \A T \in TermSet : DocCounts(dc)[T][d] = CountIn(D.text, 1, Len(D.text), T)
      /\ DocCounts(e) = With(DocCounts(dc), d, NoCounts)
  <2> DEFINE b == [e EXCEPT ![d] = D]
  <2>1. /\ d \notin Live(e) /\ Live(b) = Live(e) \cup {d}
        /\ \A T \in TermSet : DocCounts(b)[T][d] = CountIn(D.text, 1, Len(D.text), T)
        /\ DocCounts(e) = With(DocCounts(b), d, NoCounts)
    <3>1. \A T \in TermSet : DocCounts([e EXCEPT ![d] = D])[T][d] = CountIn(D.text, 1, Len(D.text), T)
      BY <1>4, <1>5, OneMore
    <3>2. DocCounts(e) = With(DocCounts([e EXCEPT ![d] = D]), d, NoCounts)
      BY <1>4, <1>5, OneMore
    <3> QED
      BY <1>4, <1>5, <3>1, <3>2, OneMore
  <2>2. b = dc
    BY <1>6
  <2> HIDE DEF b
  <2> QED
    BY <2>1, <2>2
<1>8. r.ok /\ Mirrors(r.index, DocCounts(e))
  <2> DEFINE c == DocCounts(dc)
             text == D.text
  <2>1. /\ Mirrors(f.index, c) /\ text \in Seq(Words)
        /\ \A T \in TermSet : c[T][d] = CountIn(text, 1, Len(text), T)
    BY <1>1, <1>4, <1>7
  <2>2. DocCounts(e) = With(c, d, NoCounts)
    BY <1>7
  <2>3. r = IndexDel(f.index, d, text)
    OBVIOUS
  <2> HIDE DEF c, text, r
  <2>4. LET q == IndexDel(f.index, d, text)
        IN  q.ok /\ Mirrors(q.index, With(c, d, [T \in TermSet |-> 0]))
    BY <1>4, <2>1, IndexDelCounts
  <2> QED
    BY <2>2, <2>3, <2>4 DEF NoCounts
<1>9. /\ Tokens(dc) = Tokens(e) \cup Places(d, D.text)
      /\ Tokens(e) \cap Places(d, D.text) = {}
  <2>1. /\ Tokens([e EXCEPT ![d] = D]) = Tokens(e) \cup Places(d, D.text)
        /\ Tokens(e) \cap Places(d, D.text) = {}
    BY <1>4, <1>5, OneMoreTokens
  <2> QED
    BY <1>6, <2>1
<1>10. IsFiniteSet(Tokens(e)) /\ f.len - D.len \in Nat /\ f.len - D.len = Cardinality(Tokens(e))
  <2> DEFINE A == Tokens(e)
             B == Places(d, D.text)
  <2>1. A \subseteq Tokens(dc) /\ Tokens(dc) = A \cup B /\ A \cap B = {}
    BY <1>9
  <2>2. IsFiniteSet(B) /\ Cardinality(B) = D.len /\ D.len \in Nat
    BY <1>4, PlacesCount
  <2> HIDE DEF A, B
  <2>3. IsFiniteSet(A)
    BY <1>1, <2>1, FS_Subset
  <2>4. Cardinality(A) \in Nat
    BY <2>3, FS_CardinalityType
  <2>5. Cardinality(A \cup B) = Cardinality(A) + Cardinality(B) - Cardinality(A \cap B)
    BY <2>2, <2>3, FS_Union
  <2>6. Cardinality(A \cap B) = 0
    BY <2>1, FS_EmptySet
  <2>7. f.len = Cardinality(A) + D.len
    BY <1>1, <2>1, <2>2, <2>4, <2>5, <2>6
  <2>8. f.len - D.len = Cardinality(A)
    BY <2>2, <2>4, <2>7
  <2> QED
    BY <2>3, <2>4, <2>8 DEF A
<1>11. /\ DOMAIN ds = DOMAIN f.docs \ {t}
       /\ \A s \in DOMAIN ds : ds[s] = f.docs[s]
       /\ ds \in [DOMAIN ds -> Docs]
  BY <1>2 DEF Without, Restrict
<1> HIDE DEF ds, r
<1>12. IsFiniteSet(DOMAIN ds) /\ DOMAIN ds \subseteq Titles
  BY <1>1, <1>2, <1>11, FS_RemoveElement
<1>13. \A s \in DOMAIN ds : ds[s] \in Docs /\ ds[s] # d /\ ds[s] \in Live(dc)
  <2> SUFFICES ASSUME NEW s \in DOMAIN ds PROVE ds[s] \in Docs /\ ds[s] # d /\ ds[s] \in Live(dc)
    OBVIOUS
  <2>1. s \in DOMAIN f.docs /\ s # t /\ ds[s] = f.docs[s]
    BY <1>11
  <2>2. dc[f.docs[s]].title = s /\ dc[d].title = t
    BY <1>1, <2>1 DEF d
  <2>3. f.docs[s] # d
    BY <2>1, <2>2
  <2>4. f.docs[s] \in Live(dc)
    BY <1>1, <2>1 DEF Range
  <2> QED
    BY <1>2, <2>1, <2>3, <2>4
<1>14. Live(e) = Range(ds)
  <2>1. Range(ds) \subseteq Live(e)
    BY <1>7, <1>13 DEF Range
  <2>2. ASSUME NEW x \in Live(e) PROVE x \in Range(ds)
    <3>1. x \in Live(dc) /\ x # d
      BY <1>7
    <3>2. PICK s \in DOMAIN f.docs : f.docs[s] = x
      BY <1>1, <3>1 DEF Range
    <3>3. s # t
      BY <3>1, <3>2 DEF d
    <3> QED
      BY <1>11, <3>2, <3>3 DEF Range
  <2> QED
    BY <2>1, <2>2
<1>15. \A s \in DOMAIN ds : e[ds[s]].title = s
  BY <1>1, <1>5, <1>11, <1>13
<1>16. \A x \in Live(e) : e[x].len = NonStopwords(e[x].text)
  <2>1. \A x \in Live(e) : x \in Docs /\ x # d /\ x \in Live(dc)
    BY <1>7 DEF Live
  <2> QED
    BY <1>1, <1>5, <2>1
<1>17. g \in Object
  <2> DEFINE m == f.len - D.len
             ix == r.index
  <2>1. m \in Nat /\ IsIndex(ix)
    BY <1>8, <1>10 DEF Mirrors
  <2> HIDE DEF m, ix
  <2>2. [docs |-> ds, index |-> ix, len |-> m] \in Object
    BY <1>11, <1>12, <2>1, MakesObject
  <2> QED
    BY <2>2 DEF m, ix
<1>18. g.docs = ds /\ g.index = r.index /\ g.len = f.len - D.len
  OBVIOUS
<1> HIDE DEF g
<1>19. StoreInv(g, e)
  BY <1>5, <1>8, <1>10, <1>12, <1>14, <1>15, <1>16, <1>17, <1>18 DEF StoreInv
<1> QED
  BY <1>8, <1>19 DEF g, e, D, d, ds, r

-----------------------------------------------------------------------------
(* The texts by title, and what the operations make of them. *)

TextsOf(f, dc) == [t \in DOMAIN f.docs |-> dc[f.docs[t]].text]

LEMMA DocsApart ==
  ASSUME NEW f, NEW dc, StoreInv(f, dc), NEW s \in DOMAIN f.docs
  PROVE  /\ f.docs[s] \in Docs /\ f.docs[s] \in Live(dc) /\ dc[f.docs[s]].title = s
         /\ \A t \in DOMAIN f.docs : f.docs[s] = f.docs[t] => s = t
<1>1. /\ Live(dc) = Range(f.docs) /\ f \in Object
      /\ \A t \in DOMAIN f.docs : dc[f.docs[t]].title = t
  BY DEF StoreInv
<1>2. f.docs \in [DOMAIN f.docs -> Docs]
  BY <1>1, ObjectType
<1>3. f.docs[s] \in Live(dc)
  BY <1>1 DEF Range
<1> QED
  BY <1>1, <1>2, <1>3

LEMMA AddsText ==
  ASSUME NEW f, NEW dc, StoreInv(f, dc), NEW t \in Titles, t \notin DOMAIN f.docs, NEW ix, NEW n,
         NEW D \in Document, NEW d \in Docs, dc[d] = Nil
  PROVE  TextsOf([docs |-> Assign(f.docs, t, d), index |-> ix, len |-> n], [dc EXCEPT ![d] = D]) =
           Assign(TextsOf(f, dc), t, D.text)
<1> DEFINE ds == Assign(f.docs, t, d)
           g == [docs |-> ds, index |-> ix, len |-> n]
           e == [dc EXCEPT ![d] = D]
           m == TextsOf(f, dc)
<1>1. dc \in Memory
  BY DEF StoreInv
<1>2. \A x \in Docs : e[x] = IF x = d THEN D ELSE dc[x]
  BY <1>1 DEF Memory
<1>3. /\ DOMAIN ds = DOMAIN f.docs \cup {t}
      /\ \A s \in DOMAIN ds : ds[s] = IF s = t THEN d ELSE f.docs[s]
  BY DEF Assign
<1>4. g.docs = ds
  OBVIOUS
<1>5. /\ DOMAIN m = DOMAIN f.docs
      /\ \A s \in DOMAIN f.docs : m[s] = dc[f.docs[s]].text
  BY DEF TextsOf
<1>6. Assign(m, t, D.text) = [s \in DOMAIN f.docs \cup {t} |-> IF s = t THEN D.text ELSE m[s]]
  BY <1>5 DEF Assign
<1> HIDE DEF ds, g, e, m
<1>7. ASSUME NEW s \in DOMAIN ds
      PROVE  e[ds[s]].text = IF s = t THEN D.text ELSE m[s]
  <2>1. CASE s = t
    BY <1>2, <1>3, <2>1
  <2>2. CASE s # t
    <3>1. s \in DOMAIN f.docs /\ ds[s] = f.docs[s]
      BY <1>3, <2>2
    <3>2. f.docs[s] \in Docs /\ f.docs[s] # d
      BY <3>1, DocsApart DEF Live
    <3> QED
      BY <1>2, <1>5, <2>2, <3>1, <3>2
  <2> QED
    BY <2>1, <2>2
<1>8. TextsOf(g, e) = [s \in DOMAIN ds |-> e[ds[s]].text]
  BY <1>4 DEF TextsOf
<1>9. TextsOf(g, e) = Assign(m, t, D.text)
  BY <1>3, <1>6, <1>7, <1>8
<1> QED
  BY <1>9 DEF g, ds, e, m

LEMMA RemovesText ==
  ASSUME NEW f, NEW dc, StoreInv(f, dc), NEW t \in DOMAIN f.docs, NEW ix, NEW n
  PROVE  TextsOf([docs |-> Without(f.docs, t), index |-> ix, len |-> n],
                 [dc EXCEPT ![f.docs[t]] = Nil]) = Without(TextsOf(f, dc), t)
<1> DEFINE ds == Without(f.docs, t)
           d == f.docs[t]
           g == [docs |-> ds, index |-> ix, len |-> n]
           e == [dc EXCEPT ![d] = Nil]
           m == TextsOf(f, dc)
<1>1. dc \in Memory
  BY DEF StoreInv
<1>2. \A x \in Docs : x # d => e[x] = dc[x]
  BY <1>1 DEF Memory
<1>3. /\ DOMAIN ds = DOMAIN f.docs \ {t}
      /\ \A s \in DOMAIN ds : ds[s] = f.docs[s]
  BY DEF Without, Restrict
<1>4. g.docs = ds
  OBVIOUS
<1>5. /\ DOMAIN m = DOMAIN f.docs
      /\ \A s \in DOMAIN f.docs : m[s] = dc[f.docs[s]].text
  BY DEF TextsOf
<1>6. Without(m, t) = [s \in DOMAIN f.docs \ {t} |-> m[s]]
  BY <1>5 DEF Without, Restrict
<1>7. \A s \in DOMAIN f.docs : s # t => f.docs[s] \in Docs /\ f.docs[s] # d
  BY DocsApart
<1> HIDE DEF ds, g, e, m, d
<1>8. \A s \in DOMAIN ds : e[ds[s]].text = m[s]
  BY <1>2, <1>3, <1>5, <1>7
<1>9. TextsOf(g, e) = [s \in DOMAIN ds |-> e[ds[s]].text]
  BY <1>4 DEF TextsOf
<1>10. TextsOf(g, e) = Without(m, t)
  BY <1>3, <1>6, <1>8, <1>9
<1> QED
  BY <1>10 DEF g, ds, e, m, d

LEMMA AssignWithout ==
  ASSUME NEW m, NEW t, NEW x
  PROVE  Assign(Without(m, t), t, x) = Assign(m, t, x)
BY DEF Assign, Without, Restrict

-----------------------------------------------------------------------------
(* The commands that change the store. *)

LEMMA DelStep ==
  ASSUME NEW f, StoreInv(f, doc), NEW t \in DOMAIN f.docs
  PROVE  /\ Deleted(f, t).ok
         /\ StoreInv(Del(f, t), [doc EXCEPT ![f.docs[t]] = Nil])
         /\ TextsOf(Del(f, t), [doc EXCEPT ![f.docs[t]] = Nil]) = Without(TextsOf(f, doc), t)
         /\ DOMAIN Del(f, t).docs = DOMAIN f.docs \ {t}
<1> DEFINE d == f.docs[t]
           r == IndexDel(f.index, d, doc[d].text)
           n == f.len - doc[d].len
<1>1. Deleted(f, t) = r
  BY DEF Deleted
<1>2. Del(f, t) = [docs |-> Without(f.docs, t), index |-> r.index, len |-> n]
  BY DEF Del, Deleted
<1>3. r.ok /\ StoreInv(Del(f, t), [doc EXCEPT ![d] = Nil])
  BY <1>2, RemovesDoc
<1>4. TextsOf(Del(f, t), [doc EXCEPT ![d] = Nil]) = Without(TextsOf(f, doc), t)
  <2> DEFINE ix == r.index
  <2>1. Del(f, t) = [docs |-> Without(f.docs, t), index |-> ix, len |-> n]
    BY <1>2
  <2> HIDE DEF ix, n, r
  <2> QED
    BY <2>1, RemovesText
<1>5. DOMAIN Del(f, t).docs = DOMAIN f.docs \ {t}
  <2>1. Del(f, t).docs = Without(f.docs, t)
    BY <1>2
  <2> QED
    BY <2>1 DEF Without, Restrict
<1> QED
  BY <1>1, <1>3, <1>4, <1>5

(* The object a command finds or makes. *)
Found == IF fts = Nil THEN Empty ELSE fts

LEMMA FoundStore ==
  ASSUME FtsInv
  PROVE  StoreInv(Found, doc)
BY EmptyStore DEF FtsInv, Found

LEMMA DsetStep ==
  ASSUME FtsInv, NEW t \in Titles, NEW text \in Texts, RrCmdDset(t, text)
  PROVE  /\ status' = status /\ answer' = <<"ok">>
         /\ fts' # Nil /\ StoreInv(fts', doc')
         /\ TextsOf(fts', doc') = Assign(TextsOf(Found, doc), t, text)
<1> DEFINE old == Found
           there == t \in DOMAIN old.docs
           base == IF there THEN Del(old, t) ELSE old
           n == NonStopwords(text)
           D == [title |-> t, text |-> text, len |-> n]
           dc == IF there THEN [doc EXCEPT ![old.docs[t]] = Nil] ELSE doc
<1>1. StoreInv(old, doc)
  BY FoundStore
<1>2. ~(there /\ ~Deleted(old, t).ok)
  <2> HIDE DEF old
  <2> QED
    BY <1>1, DelStep
<1>3. PICK d \in Docs :
        /\ doc[d] = Nil \/ (there /\ d = old.docs[t])
        /\ fts' = [docs |-> Assign(base.docs, t, d), index |-> IndexAdd(base.index, d, text), len |-> base.len + n]
        /\ doc' = [e \in Docs |-> IF e = d THEN D ELSE IF e \in Range(base.docs) THEN doc[e] ELSE Nil]
        /\ answer' = <<"ok">>
        /\ UNCHANGED status
  BY <1>2 DEF RrCmdDset, Found
<1>4. /\ StoreInv(base, dc) /\ t \notin DOMAIN base.docs
      /\ Assign(TextsOf(base, dc), t, text) = Assign(TextsOf(old, doc), t, text)
  <2> HIDE DEF old
  <2>1. CASE there
    <3>1. /\ StoreInv(Del(old, t), [doc EXCEPT ![old.docs[t]] = Nil])
          /\ TextsOf(Del(old, t), [doc EXCEPT ![old.docs[t]] = Nil]) = Without(TextsOf(old, doc), t)
          /\ DOMAIN Del(old, t).docs = DOMAIN old.docs \ {t}
      BY <1>1, <2>1, DelStep
    <3>2. base = Del(old, t) /\ dc = [doc EXCEPT ![old.docs[t]] = Nil]
      BY <2>1
    <3> HIDE DEF base, dc, there
    <3>3. TextsOf(base, dc) = Without(TextsOf(old, doc), t)
      BY <3>1, <3>2
    <3>4. t \notin DOMAIN base.docs
      BY <3>1, <3>2
    <3> QED
      BY <3>1, <3>2, <3>3, <3>4, AssignWithout
  <2>2. CASE ~there
    BY <1>1, <2>2
  <2> QED
    BY <2>1, <2>2
<1>5. doc \in Memory /\ dc \in Memory
  BY <1>1, <1>4 DEF StoreInv
<1>6. dc[d] = Nil /\ \A e \in Docs : dc[e] # Nil => dc[e] = doc[e]
  <2> HIDE DEF old
  <2> QED
    BY <1>3, <1>5 DEF Memory
<1>7. Live(dc) = Range(base.docs)
  BY <1>4 DEF StoreInv
<1> HIDE DEF old, base, dc, there
<1>8. text \in Seq(Words)
  BY FtsAssumption
<1>9. n \in Nat
  BY <1>8, PlacesCount
<1>10. D \in Document /\ D.text = text
  BY <1>9 DEF Document
<1>11. doc' = [dc EXCEPT ![d] = D]
  <2>1. \A e \in Docs : e \in Range(base.docs) <=> dc[e] # Nil
    BY <1>7 DEF Live
  <2>2. \A e \in Docs : e # d => (IF e \in Range(base.docs) THEN doc[e] ELSE Nil) = dc[e]
    BY <1>6, <2>1
  <2> HIDE DEF D
  <2>3. dc = [e \in Docs |-> dc[e]]
    BY <1>5 DEF Memory
  <2>4. [dc EXCEPT ![d] = D] = [e \in Docs |-> IF e = d THEN D ELSE dc[e]]
    BY <2>3
  <2>5. doc' = [e \in Docs |-> IF e = d THEN D ELSE dc[e]]
    BY <1>3, <2>2
  <2> QED
    BY <2>4, <2>5
<1>12. StoreInv(fts', doc')
  <2>1. StoreInv([docs |-> Assign(base.docs, t, d), index |-> IndexAdd(base.index, d, text), len |-> base.len + n],
                 [dc EXCEPT ![d] = D])
    BY <1>4, <1>6, AddsDoc
  <2> QED
    BY <1>3, <1>11, <2>1
<1>13. TextsOf(fts', doc') = Assign(TextsOf(base, dc), t, text)
  <2> DEFINE ix == IndexAdd(base.index, d, text)
             k == base.len + n
  <2>1. fts' = [docs |-> Assign(base.docs, t, d), index |-> ix, len |-> k]
    BY <1>3
  <2> HIDE DEF ix, k, D
  <2>2. TextsOf([docs |-> Assign(base.docs, t, d), index |-> ix, len |-> k], [dc EXCEPT ![d] = D]) =
          Assign(TextsOf(base, dc), t, D.text)
    BY <1>4, <1>6, <1>10, AddsText
  <2> QED
    BY <1>10, <1>11, <2>1, <2>2
<1>14. fts' # Nil
  <2>1. fts' \in Object
    BY <1>12 DEF StoreInv
  <2> QED
    BY <2>1, FtsAssumption
<1> QED
  BY <1>3, <1>4, <1>12, <1>13, <1>14 DEF old

LEMMA DdelStep ==
  ASSUME FtsInv, fts # Nil, NEW t \in DOMAIN fts.docs, RrCmdDdel(t)
  PROVE  /\ status' = status /\ answer' = <<"one">>
         /\ fts' # Nil /\ StoreInv(fts', doc')
         /\ TextsOf(fts', doc') = Without(TextsOf(fts, doc), t)
<1>1. StoreInv(fts, doc)
  BY DEF FtsInv
<1>2. /\ Deleted(fts, t).ok
      /\ StoreInv(Del(fts, t), [doc EXCEPT ![fts.docs[t]] = Nil])
      /\ TextsOf(Del(fts, t), [doc EXCEPT ![fts.docs[t]] = Nil]) = Without(TextsOf(fts, doc), t)
  BY <1>1, DelStep
<1>3. /\ fts' = Del(fts, t) /\ doc' = [doc EXCEPT ![fts.docs[t]] = Nil]
      /\ answer' = <<"one">> /\ status' = status
  BY <1>2 DEF RrCmdDdel
<1>4. StoreInv(fts', doc')
  BY <1>2, <1>3
<1>5. fts' # Nil
  <2>1. fts' \in Object
    BY <1>4 DEF StoreInv
  <2> QED
    BY <2>1, FtsAssumption
<1> QED
  BY <1>2, <1>3, <1>4, <1>5

LEMMA FreeStep ==
  ASSUME FtsInv, FreeFTSObject
  PROVE  status' = status /\ answer' = <<"one">> /\ fts' = Nil /\ doc' = NoDocs
<1>1. StoreInv(fts, doc)
  BY DEF FtsInv, FreeFTSObject
<1>2. \A d \in Docs : d \notin Range(fts.docs) => doc[d] = Nil
  BY <1>1 DEF StoreInv, Live
<1> QED
  BY <1>2 DEF FreeFTSObject, NoDocs

LEMMA FtsStep ==
  ASSUME FtsInv, [FtsNext]_ftsVars
  PROVE  FtsInv'
<1>1. CASE UNCHANGED ftsVars
  BY <1>1 DEF FtsInv, ftsVars, StoreInv, Live, DocCounts, Tokens, NoDocs
<1>2. ASSUME NEW t \in Titles, DsetIntTitle(t) PROVE FtsInv'
  BY <1>2 DEF FtsInv, DsetIntTitle
<1>3. ASSUME NEW t \in Titles, NEW text \in Texts, RrCmdDset(t, text) PROVE FtsInv'
  BY <1>3, DsetStep DEF FtsInv
<1>4. ASSUME NEW t \in Titles, RrCmdDdel(t) PROVE FtsInv'
  <2>1. CASE fts # Nil /\ t \in DOMAIN fts.docs
    BY <1>4, <2>1, DdelStep DEF FtsInv
  <2>2. CASE ~(fts # Nil /\ t \in DOMAIN fts.docs)
    <3>1. UNCHANGED <<fts, doc, status>>
      BY <1>4, <2>2 DEF RrCmdDdel
    <3> QED
      BY <3>1 DEF FtsInv
  <2> QED
    BY <2>1, <2>2
<1>5. ASSUME Looks PROVE FtsInv'
  BY <1>5 DEF FtsInv, Looks
<1>6. ASSUME FreeFTSObject PROVE FtsInv'
  BY <1>6, FreeStep DEF FtsInv
<1> QED
  BY <1>1, <1>2, <1>3, <1>4, <1>5, <1>6 DEF FtsNext, RrCmdDget, RrCmdDlen, RrCmdDsearch

(* The object, its documents and its index belong together after any       *)
(* sequence of commands, and no assertion of fts_index_del fails.          *)
THEOREM StoreStaysWhole == FtsSpec => []FtsInv
<1>1. FtsInit => FtsInv
  BY DEF FtsInit, FtsInv, NoDocs
<1>2. FtsInv /\ [FtsNext]_ftsVars => FtsInv'
  BY FtsStep
<1> QED
  BY <1>1, <1>2, PTL DEF FtsSpec

-----------------------------------------------------------------------------
(* What follows for the index. *)

LEMMA OccurrencesCount ==
  ASSUME NEW text \in Seq(Words), NEW T
  PROVE  /\ Occurrences(text, T) = CountIn(text, 1, Len(text), T)
         /\ Occurrences(text, T) > 0 <=> \E i \in DOMAIN text : TermOf[text[i]] = T
<1> DEFINE S == {j \in 1 .. Len(text) : TermOf[text[j]] = T}
<1>1. Len(text) \in Int /\ 1 \in Int /\ DOMAIN text = 1 .. Len(text)
  OBVIOUS
<1>2. Occurrences(text, T) = Cardinality(S) /\ CountIn(text, 1, Len(text), T) = Cardinality(S)
  BY <1>1 DEF Occurrences, CountIn
<1>3. IsFiniteSet(S)
  <2>1. IsFiniteSet(1 .. Len(text))
    BY <1>1, FS_Interval
  <2>2. S \subseteq 1 .. Len(text)
    OBVIOUS
  <2> HIDE DEF S
  <2> QED
    BY <2>1, <2>2, FS_Subset
<1>4. S # {} <=> \E i \in DOMAIN text : TermOf[text[i]] = T
  BY <1>1
<1> HIDE DEF S
<1>5. Cardinality(S) \in Nat /\ (Cardinality(S) = 0 <=> S = {})
  BY <1>3, FS_CardinalityType, FS_EmptySet
<1> QED
  BY <1>2, <1>4, <1>5

(* The list ps has the documents with the term T, and how often. *)
ListOf(ps, dc, T) ==
  /\ ps \in Seq(Posting)
  /\ \A i, j \in DOMAIN ps : ps[i].doc = ps[j].doc => i = j
  /\ \A i \in DOMAIN ps : /\ ps[i].doc \in Live(dc)
                          /\ ps[i].tf = Occurrences(dc[ps[i].doc].text, T)
                          /\ ps[i].tf > 0
                          /\ ps[i] = [doc |-> ps[i].doc, tf |-> ps[i].tf]
  /\ \A d \in Live(dc) : Occurrences(dc[d].text, T) > 0 => \E i \in DOMAIN ps : ps[i].doc = d

LEMMA PostingsMirror ==
  ASSUME NEW f, NEW dc, StoreInv(f, dc), NEW T \in TermSet
  PROVE  ListOf(Postings(f.index, T), dc, T)
<1> DEFINE ps == Postings(f.index, T)
           n == DocCounts(dc)[T]
<1>1. dc \in Memory /\ Lists(ps, n)
  BY DEF StoreInv, Mirrors
<1>2. \A d \in Docs : n[d] = IF dc[d] = Nil THEN 0 ELSE CountIn(dc[d].text, 1, Len(dc[d].text), T)
  BY <1>1, DocCountsType
<1>3. \A d \in Live(dc) : d \in Docs /\ n[d] = Occurrences(dc[d].text, T)
  <2> SUFFICES ASSUME NEW d \in Live(dc) PROVE d \in Docs /\ n[d] = Occurrences(dc[d].text, T)
    OBVIOUS
  <2>1. d \in Docs /\ dc[d] # Nil /\ dc[d].text \in Seq(Words)
    BY <1>1, DocumentType
  <2>2. Occurrences(dc[d].text, T) = CountIn(dc[d].text, 1, Len(dc[d].text), T)
    BY <2>1, OccurrencesCount
  <2> QED
    BY <1>2, <2>1, <2>2
<1>4. \A d \in Docs : n[d] > 0 => d \in Live(dc)
  BY <1>2 DEF Live
<1> HIDE DEF ps, n
<1>5. /\ ps \in Seq(Posting)
      /\ \A i \in DOMAIN ps : ps[i] \in Posting /\ ps[i].doc \in Docs
  BY <1>1, ListsType
<1>6. /\ \A i, j \in DOMAIN ps : ps[i].doc = ps[j].doc => i = j
      /\ \A i \in DOMAIN ps : ps[i].tf = n[ps[i].doc] /\ n[ps[i].doc] > 0
      /\ \A d \in Docs : n[d] > 0 => \E i \in DOMAIN ps : ps[i].doc = d
  BY <1>1 DEF Lists
<1>7. \A i \in DOMAIN ps : ps[i] = [doc |-> ps[i].doc, tf |-> ps[i].tf]
  BY <1>5 DEF Posting
<1>8. \A i \in DOMAIN ps : ps[i].doc \in Live(dc)
  BY <1>4, <1>5, <1>6
<1>9. \A i \in DOMAIN ps : ps[i].tf = Occurrences(dc[ps[i].doc].text, T) /\ ps[i].tf > 0
  BY <1>3, <1>6, <1>8
<1>10. \A d \in Live(dc) : Occurrences(dc[d].text, T) > 0 => \E i \in DOMAIN ps : ps[i].doc = d
  BY <1>3, <1>6
<1> QED
  BY <1>5, <1>6, <1>7, <1>8, <1>9, <1>10 DEF ps, ListOf

LEMMA IndexFollows ==
  ASSUME FtsInv
  PROVE  IndexMirrorsDocs
<1>1. status # "abort"
  BY DEF FtsInv
<1>2. {d \in Docs : doc[d] # Nil} = IF fts = Nil THEN {} ELSE Range(fts.docs)
  BY DEF FtsInv, NoDocs, StoreInv, Live
<1>3. ASSUME fts # Nil
      PROVE  /\ StoreInv(fts, doc) /\ Live(doc) = Range(fts.docs)
             /\ \A t \in DOMAIN fts.docs : doc[fts.docs[t]].title = t
  BY <1>3 DEF FtsInv, StoreInv
<1>4. ASSUME fts # Nil, NEW T \in Range(TermOf) \ {NoTerm}
      PROVE  LET ps == Postings(fts.index, T)
             IN  /\ Len(ps) = Cardinality(Range(ps))
                 /\ Range(ps) = {[doc |-> d, tf |-> Occurrences(doc[d].text, T)] :
                      d \in {e \in Range(fts.docs) : Occurrences(doc[e].text, T) > 0}}
  <2> DEFINE ps == Postings(fts.index, T)
             X == {[doc |-> d, tf |-> Occurrences(doc[d].text, T)] :
                      d \in {e \in Range(fts.docs) : Occurrences(doc[e].text, T) > 0}}
  <2>1. T \in TermSet /\ StoreInv(fts, doc) /\ Live(doc) = Range(fts.docs)
    BY <1>3, <1>4 DEF TermSet
  <2>2. /\ ps \in Seq(Posting)
        /\ \A i, j \in DOMAIN ps : ps[i].doc = ps[j].doc => i = j
        /\ \A i \in DOMAIN ps : /\ ps[i].doc \in Live(doc)
                                /\ ps[i].tf = Occurrences(doc[ps[i].doc].text, T)
                                /\ ps[i].tf > 0
                                /\ ps[i] = [doc |-> ps[i].doc, tf |-> ps[i].tf]
        /\ \A d \in Live(doc) : Occurrences(doc[d].text, T) > 0 => \E i \in DOMAIN ps : ps[i].doc = d
    <3>1. ListOf(ps, doc, T)
      BY <2>1, PostingsMirror
    <3> HIDE DEF ps
    <3> QED
      BY <3>1 DEF ListOf
  <2> HIDE DEF ps
  <2>3. Len(ps) = Cardinality(Range(ps))
    <3> DEFINE m == Len(ps)
               R == Range(ps)
    <3>1. m \in Nat /\ ps \in [1 .. m -> R] /\ (\A y \in R : \E i \in 1 .. m : ps[i] = y)
      BY <2>2 DEF Range
    <3>2. \A i, j \in 1 .. m : ps[i] = ps[j] => i = j
      BY <2>2
    <3> HIDE DEF m, R
    <3>3. ps \in Bijection(1 .. m, R)
      BY <3>1, <3>2 DEF Bijection, Injection, IsInjective, Surjection
    <3>4. ExistsBijection(1 .. m, R)
      BY <3>3 DEF ExistsBijection
    <3>5. IsFiniteSet(1 .. m) /\ Cardinality(1 .. m) = m
      BY <3>1, FS_Interval
    <3>6. Cardinality(R) = m
      BY <3>4, <3>5, FS_Bijection
    <3> QED
      BY <3>6 DEF m, R
  <2>4. ASSUME NEW y \in Range(ps) PROVE y \in X
    <3>1. PICK i \in DOMAIN ps : y = ps[i]
      BY DEF Range
    <3>2. /\ ps[i].doc \in Range(fts.docs)
          /\ Occurrences(doc[ps[i].doc].text, T) > 0
          /\ ps[i] = [doc |-> ps[i].doc, tf |-> Occurrences(doc[ps[i].doc].text, T)]
      BY <2>1, <2>2
    <3> QED
      BY <3>1, <3>2
  <2>5. ASSUME NEW y \in X PROVE y \in Range(ps)
    <3>1. PICK d \in Range(fts.docs) :
            Occurrences(doc[d].text, T) > 0 /\ y = [doc |-> d, tf |-> Occurrences(doc[d].text, T)]
      OBVIOUS
    <3>2. PICK i \in DOMAIN ps : ps[i].doc = d
      BY <2>1, <2>2, <3>1
    <3>3. ps[i] = [doc |-> d, tf |-> Occurrences(doc[d].text, T)]
      BY <2>2, <3>2
    <3>4. y = ps[i]
      BY <3>1, <3>3
    <3> QED
      BY <3>4 DEF Range
  <2>6. Range(ps) = X
    <3> HIDE DEF X
    <3> QED
      BY <2>4, <2>5
  <2> QED
    BY <2>3, <2>6 DEF ps
<1> QED
  BY <1>1, <1>2, <1>3, <1>4 DEF IndexMirrorsDocs

(* The posting lists hold exactly the living documents with the term, once *)
(* and with its frequency, also where addresses are used again.            *)
THEOREM IndexAlwaysMirrors == FtsSpec => []IndexMirrorsDocs
<1>1. FtsInv => IndexMirrorsDocs
  BY IndexFollows
<1> QED
  BY <1>1, StoreStaysWhole, PTL

-----------------------------------------------------------------------------
(* What follows for the scores. *)

LEMMA ScoreFollows ==
  ASSUME FtsInv
  PROVE  ScoreDefined
<1> SUFFICES ASSUME fts # Nil
             PROVE  /\ fts.len = Cardinality(UNION {{<<d, i>> : i \in {j \in DOMAIN doc[d].text :
                                                        TermOf[doc[d].text[j]] # NoTerm}} :
                                                      d \in Range(fts.docs)})
                    /\ \A d \in Range(fts.docs) : doc[d].len = NonStopwords(doc[d].text)
                    /\ \A term \in DOMAIN fts.index :
                         /\ Len(fts.index[term]) <= Cardinality(DOMAIN fts.docs)
                         /\ fts.index[term] # << >> => fts.len > 0
                         /\ \A i \in DOMAIN fts.index[term] : fts.index[term][i].tf > 0
  BY DEF ScoreDefined
<1>1. StoreInv(fts, doc)
  BY DEF FtsInv
<1>2. /\ doc \in Memory /\ fts \in Object /\ IsFiniteSet(DOMAIN fts.docs)
      /\ Live(doc) = Range(fts.docs)
      /\ \A t \in DOMAIN fts.docs : doc[fts.docs[t]].title = t
      /\ \A d \in Live(doc) : doc[d].len = NonStopwords(doc[d].text)
      /\ IsIndex(fts.index)
      /\ IsFiniteSet(Tokens(doc)) /\ fts.len = Cardinality(Tokens(doc))
  BY <1>1 DEF StoreInv, Mirrors
<1>3. Tokens(doc) = UNION {{<<d, i>> : i \in {j \in DOMAIN doc[d].text :
                                                 TermOf[doc[d].text[j]] # NoTerm}} :
                             d \in Range(fts.docs)}
  BY <1>2 DEF Tokens, Places
<1>4. ASSUME NEW T \in DOMAIN fts.index
      PROVE  /\ Len(fts.index[T]) <= Cardinality(DOMAIN fts.docs)
             /\ fts.index[T] # << >> => fts.len > 0
             /\ \A i \in DOMAIN fts.index[T] : fts.index[T][i].tf > 0
  <2> DEFINE ps == fts.index[T]
             m == Len(ps)
             K == DOMAIN fts.docs
  <2>1. T \in TermSet
    BY <1>2, <1>4 DEF IsIndex
  <2>2. Postings(fts.index, T) = ps
    BY <1>4 DEF Postings
  <2>3. ListOf(ps, doc, T)
    BY <1>1, <2>1, <2>2, PostingsMirror
  <2> HIDE DEF ps
  <2>4. /\ ps \in Seq(Posting)
        /\ \A i, j \in DOMAIN ps : ps[i].doc = ps[j].doc => i = j
        /\ \A i \in DOMAIN ps : /\ ps[i].doc \in Live(doc)
                                /\ ps[i].tf = Occurrences(doc[ps[i].doc].text, T)
                                /\ ps[i].tf > 0
    BY <2>3 DEF ListOf
  <2>5. m \in Nat /\ DOMAIN ps = 1 .. m
    BY <2>4
  <2>6. m <= Cardinality(K)
    <3> DEFINE g == [i \in 1 .. m |-> doc[ps[i].doc].title]
    <3>1. \A i \in 1 .. m : \E t \in K : ps[i].doc = fts.docs[t] /\ g[i] = t
      <4> SUFFICES ASSUME NEW i \in 1 .. m
                   PROVE  \E t \in K : ps[i].doc = fts.docs[t] /\ g[i] = t
        OBVIOUS
      <4>1. ps[i].doc \in Range(fts.docs)
        BY <1>2, <2>4, <2>5
      <4>2. PICK t \in K : ps[i].doc = fts.docs[t]
        BY <4>1 DEF Range
      <4>3. g[i] = t
        BY <1>2, <4>2
      <4> QED
        BY <4>2, <4>3
    <3>2. g = [i \in 1 .. m |-> g[i]]
      OBVIOUS
    <3> HIDE DEF g, K, m
    <3>3. g \in [1 .. m -> K]
      BY <3>1, <3>2
    <3>4. \A i, j \in 1 .. m : g[i] = g[j] => i = j
      BY <2>4, <2>5, <3>1
    <3>5. g \in Injection(1 .. m, K)
      BY <3>3, <3>4 DEF Injection, IsInjective
    <3>6. IsFiniteSet(1 .. m) /\ Cardinality(1 .. m) = m
      BY <2>5, FS_Interval
    <3>7. IsFiniteSet(K)
      BY <1>2 DEF K
    <3>8. Cardinality(1 .. m) <= Cardinality(K)
      BY <3>5, <3>7, FS_Injection
    <3> QED
      BY <3>6, <3>8
  <2>7. ASSUME ps # << >> PROVE fts.len > 0
    <3>1. 1 \in DOMAIN ps
      BY <2>4, <2>7, EmptySeq
    <3> DEFINE d == ps[1].doc
               text == doc[d].text
    <3>2. d \in Live(doc) /\ Occurrences(text, T) > 0
      BY <2>4, <3>1
    <3> HIDE DEF d
    <3>3. text \in Seq(Words)
      BY <1>2, <3>2, DocumentType
    <3>4. PICK j \in DOMAIN text : TermOf[text[j]] = T
      <4> HIDE DEF text
      <4> QED
        BY <3>2, <3>3, OccurrencesCount
    <3>5. <<d, j>> \in Tokens(doc)
      <4>1. T # NoTerm
        BY <2>1 DEF TermSet
      <4>2. <<d, j>> \in Places(d, text)
        BY <3>4, <4>1 DEF Places
      <4> QED
        BY <3>2, <4>2 DEF Tokens
    <3>6. Cardinality(Tokens(doc)) # 0 /\ Cardinality(Tokens(doc)) \in Nat
      <4>1. Tokens(doc) # {}
        BY <3>5
      <4> QED
        BY <1>2, <4>1, FS_EmptySet, FS_CardinalityType
    <3> QED
      BY <1>2, <3>6
  <2> QED
    BY <2>4, <2>6, <2>7 DEF ps
<1> QED
  BY <1>2, <1>3, <1>4

(* The numbers of the BM25 score are defined for every document, query and *)
(* sequence of commands.                                                   *)
THEOREM ScoresAlwaysDefined == FtsSpec => []ScoreDefined
<1>1. FtsInv => ScoreDefined
  BY ScoreFollows
<1> QED
  BY <1>1, StoreStaysWhole, PTL

-----------------------------------------------------------------------------
(* The commands implement the document store. *)

(* The texts of the store. *)
StoreTexts == IF fts = Nil THEN << >> ELSE [t \in DOMAIN fts.docs |-> doc[fts.docs[t]].text]

TermsOf(text) == {TermOf[text[i]] : i \in DOMAIN text} \ {NoTerm}

MatchesOf(q) == {t \in DOMAIN StoreTexts : TermsOf(StoreTexts[t]) \cap TermsOf(q) # {}}

LEMMA StoreCardinality == \A S : DS!Cardinality(S) = Cardinality(S)
BY DEF DS!Cardinality, Cardinality

LEMMA FoundTexts ==
  /\ fts # Nil => StoreTexts = TextsOf(fts, doc)
  /\ TextsOf(Found, doc) = StoreTexts
<1>1. DOMAIN Empty.docs = {}
  BY DEF Empty
<1>2. TextsOf(Empty, doc) = << >>
  BY <1>1 DEF TextsOf
<1> QED
  BY <1>2 DEF TextsOf, StoreTexts, Found

(* A search finds the documents that share a term with the query. *)
LEMMA SearchFinds ==
  ASSUME FtsInv, fts # Nil, NEW q \in Texts
  PROVE  Scored(q) = {fts.docs[t] : t \in MatchesOf(q)}
<1>1. StoreInv(fts, doc)
  BY DEF FtsInv
<1>2. doc \in Memory /\ Live(doc) = Range(fts.docs)
  BY <1>1 DEF StoreInv
<1>3. /\ DOMAIN StoreTexts = DOMAIN fts.docs
      /\ \A t \in DOMAIN fts.docs : StoreTexts[t] = doc[fts.docs[t]].text
  BY DEF StoreTexts
<1>4. q \in Seq(Words)
  BY FtsAssumption
<1>5. Range(Tokenize(q)) \ {NoTerm} = TermsOf(q)
  BY DEF Range, Tokenize, TermsOf
<1>6. TermsOf(q) \subseteq TermSet
  <2> SUFFICES ASSUME NEW i \in DOMAIN q, TermOf[q[i]] # NoTerm PROVE TermOf[q[i]] \in TermSet
    BY DEF TermsOf
  <2>1. i \in 1 .. Len(q)
    BY <1>4
  <2> QED
    BY <1>4, <2>1, TermAt
<1>7. \A T \in TermSet : ListOf(Postings(fts.index, T), doc, T)
  BY <1>1, PostingsMirror
<1>8. ASSUME NEW d \in Live(doc), NEW T \in TermSet
      PROVE  Occurrences(doc[d].text, T) > 0 <=> T \in TermsOf(doc[d].text)
  <2>1. doc[d].text \in Seq(Words) /\ T # NoTerm
    BY <1>2, DocumentType DEF TermSet
  <2>2. Occurrences(doc[d].text, T) > 0 <=> \E i \in DOMAIN doc[d].text : TermOf[doc[d].text[i]] = T
    BY <2>1, OccurrencesCount
  <2> QED
    BY <2>1, <2>2 DEF TermsOf
<1>9. ASSUME NEW d, NEW T \in TermSet
      PROVE  (\E p \in Range(Postings(fts.index, T)) : p.doc = d) <=>
             d \in Live(doc) /\ T \in TermsOf(doc[d].text)
  <2> DEFINE ps == Postings(fts.index, T)
  <2>1. ListOf(ps, doc, T)
    BY <1>7
  <2> HIDE DEF ps
  <2>2. /\ \A i \in DOMAIN ps : /\ ps[i].doc \in Live(doc)
                                /\ Occurrences(doc[ps[i].doc].text, T) > 0
        /\ \A e \in Live(doc) : Occurrences(doc[e].text, T) > 0 => \E i \in DOMAIN ps : ps[i].doc = e
    BY <2>1 DEF ListOf
  <2>3. (\E p \in Range(ps) : p.doc = d) <=> \E i \in DOMAIN ps : ps[i].doc = d
    BY DEF Range
  <2>4. (\E i \in DOMAIN ps : ps[i].doc = d) <=> d \in Live(doc) /\ T \in TermsOf(doc[d].text)
    BY <1>8, <2>2
  <2> QED
    BY <2>3, <2>4 DEF ps
<1>10. \A d : d \in Scored(q) <=> \E T \in TermsOf(q) : \E p \in Range(Postings(fts.index, T)) : p.doc = d
  BY <1>5 DEF Scored
<1>11. \A d : d \in Scored(q) <=> d \in Live(doc) /\ TermsOf(doc[d].text) \cap TermsOf(q) # {}
  BY <1>6, <1>9, <1>10
<1>12. \A d : d \in Live(doc) <=> \E t \in DOMAIN fts.docs : d = fts.docs[t]
  BY <1>2 DEF Range
<1>13. \A t : t \in MatchesOf(q) <=> t \in DOMAIN fts.docs /\ TermsOf(doc[fts.docs[t]].text) \cap TermsOf(q) # {}
  BY <1>3 DEF MatchesOf
<1> QED
  BY <1>11, <1>12, <1>13

LEMMA SearchReplies ==
  ASSUME FtsInv, fts # Nil, NEW q \in Texts
  PROVE  /\ {doc[d].title : d \in Scored(q)} = MatchesOf(q)
         /\ {<<doc[d].title, doc[d].text>> : d \in Scored(q)} = {<<t, StoreTexts[t]>> : t \in MatchesOf(q)}
<1>1. StoreInv(fts, doc)
  BY DEF FtsInv
<1>2. \A t \in DOMAIN fts.docs : doc[fts.docs[t]].title = t
  BY <1>1 DEF StoreInv
<1>3. \A t \in MatchesOf(q) : t \in DOMAIN fts.docs /\ StoreTexts[t] = doc[fts.docs[t]].text
  BY DEF MatchesOf, StoreTexts
<1>4. Scored(q) = {fts.docs[t] : t \in MatchesOf(q)}
  BY SearchFinds
<1>5. \A d \in Scored(q) : \E t \in MatchesOf(q) : doc[d].title = t /\ doc[d].text = StoreTexts[t]
  BY <1>2, <1>3, <1>4
<1>6. \A t \in MatchesOf(q) : \E d \in Scored(q) : doc[d].title = t /\ doc[d].text = StoreTexts[t]
  BY <1>2, <1>3, <1>4
<1> QED
  BY <1>5, <1>6

LEMMA StoreStep ==
  ASSUME FtsInv, [FtsNext]_ftsVars
  PROVE  [DS!Next]_<<StoreTexts, answer>>
<1>1. CASE UNCHANGED <<fts, doc, answer>>
  BY <1>1 DEF StoreTexts
<1>2. ASSUME NEW t \in Titles, NEW text \in Texts, RrCmdDset(t, text) PROVE DS!Dset(t, text)
  <2>1. /\ answer' = <<"ok">> /\ fts' # Nil
        /\ TextsOf(fts', doc') = Assign(TextsOf(Found, doc), t, text)
    BY <1>2, DsetStep
  <2>2. StoreTexts' = TextsOf(fts', doc')
    BY <2>1 DEF StoreTexts, TextsOf
  <2>3. StoreTexts' = Assign(StoreTexts, t, text)
    BY <2>1, <2>2, FoundTexts
  <2> QED
    BY <2>1, <2>3 DEF DS!Dset, DS!Assign, Assign, StoreTexts
<1>3. ASSUME NEW t \in Titles, RrCmdDdel(t) PROVE DS!Ddel(t)
  <2>1. CASE fts # Nil /\ t \in DOMAIN fts.docs
    <3>1. /\ answer' = <<"one">> /\ fts' # Nil
          /\ TextsOf(fts', doc') = Without(TextsOf(fts, doc), t)
      BY <1>3, <2>1, DdelStep
    <3>2. StoreTexts' = TextsOf(fts', doc') /\ StoreTexts = TextsOf(fts, doc)
      BY <2>1, <3>1 DEF StoreTexts, TextsOf
    <3>3. StoreTexts' = Without(StoreTexts, t) /\ t \in DOMAIN StoreTexts
      BY <2>1, <3>1, <3>2 DEF TextsOf
    <3> QED
      BY <3>1, <3>3 DEF DS!Ddel, DS!Without, DS!Restrict, Without, Restrict, StoreTexts
  <2>2. CASE ~(fts # Nil /\ t \in DOMAIN fts.docs)
    <3>1. UNCHANGED <<fts, doc>> /\ answer' = IF fts = Nil THEN AbsentStore ELSE <<"zero">>
      BY <1>3, <2>2 DEF RrCmdDdel
    <3>2. t \notin DOMAIN StoreTexts /\ StoreTexts' = StoreTexts /\ (fts = Nil => StoreTexts = << >>)
      BY <2>2, <3>1 DEF StoreTexts
    <3>3. Without(StoreTexts, t) = StoreTexts
      <4>1. DOMAIN StoreTexts \ {t} = DOMAIN StoreTexts
        BY <3>2
      <4>2. StoreTexts = [s \in DOMAIN StoreTexts |-> StoreTexts[s]]
        BY DEF StoreTexts
      <4> QED
        BY <4>1, <4>2 DEF Without, Restrict
    <3> QED
      BY <3>1, <3>2, <3>3 DEF DS!Ddel, DS!Missing, DS!Without, DS!Restrict, Without, Restrict, StoreTexts
  <2> QED
    BY <2>1, <2>2
<1>4. ASSUME Looks PROVE StoreTexts' = StoreTexts
  BY <1>4 DEF Looks, StoreTexts
<1>5. ASSUME NEW t \in Titles, RrCmdDget(t) PROVE DS!Dget(t)
  <2>1. answer' \in IF t \in DOMAIN StoreTexts THEN {<<"text", StoreTexts[t]>>}
                    ELSE {<<"nil">>} \cup (IF StoreTexts = << >> THEN {AbsentStore} ELSE {})
    <3>1. CASE fts = Nil
      BY <1>5, <3>1 DEF RrCmdDget, StoreTexts
    <3>2. CASE fts # Nil
      BY <1>5, <3>2 DEF RrCmdDget, StoreTexts
    <3> QED
      BY <3>1, <3>2
  <2>2. StoreTexts' = StoreTexts
    BY <1>4, <1>5 DEF RrCmdDget
  <2> QED
    BY <2>1, <2>2 DEF DS!Dget, DS!Missing, StoreTexts
<1>6. ASSUME RrCmdDlen PROVE DS!Dlen
  <2>1. \/ answer' = <<"length", Cardinality(DOMAIN StoreTexts)>>
        \/ StoreTexts = << >> /\ answer' = AbsentStore
    BY <1>6 DEF RrCmdDlen, StoreTexts
  <2>2. StoreTexts' = StoreTexts
    BY <1>4, <1>6 DEF RrCmdDlen
  <2> QED
    BY <2>1, <2>2, StoreCardinality DEF DS!Dlen, DS!Missing, StoreTexts
<1>7. ASSUME NEW q \in Texts, RrCmdDsearch(q) PROVE DS!Dsearch(q)
  <2>1. StoreTexts' = StoreTexts
    BY <1>4, <1>7 DEF RrCmdDsearch
  <2>2. DS!Matches(q) = MatchesOf(q)
    BY DEF DS!Matches, DS!Terms, MatchesOf, TermsOf, StoreTexts
  <2>3. \/ answer' = <<"found", 2 * Cardinality(MatchesOf(q)), {<<t, StoreTexts[t]>> : t \in MatchesOf(q)}>>
        \/ StoreTexts = << >> /\ answer' = AbsentStore
    <3>1. CASE fts = Nil
      BY <1>7, <3>1 DEF RrCmdDsearch, StoreTexts
    <3>2. CASE fts # Nil
      BY <1>7, <3>2, SearchReplies DEF RrCmdDsearch, AnnouncedBulks
    <3> QED
      BY <3>1, <3>2
  <2> QED
    BY <2>1, <2>2, <2>3, StoreCardinality DEF DS!Dsearch, DS!Missing, StoreTexts
<1>8. ASSUME FreeFTSObject PROVE DS!Clear
  BY <1>8, FreeStep DEF DS!Clear
<1>9. ASSUME NEW t \in Titles, DsetIntTitle(t) PROVE UNCHANGED <<fts, doc, answer>>
  BY <1>9 DEF DsetIntTitle
<1> QED
  BY <1>1, <1>2, <1>3, <1>5, <1>6, <1>7, <1>8, <1>9 DEF FtsNext, ftsVars, DS!Next

(* The commands on documents implement the document store: what is got and *)
(* found is what was set, and a search announces what it sends.            *)
THEOREM FtsImplementsStore == FtsSpec => ImplementsStore
<1>1. FtsInit => DS!Init
  BY DEF FtsInit, DS!Init
<1>2. FtsInv /\ [FtsNext]_ftsVars => [DS!Next]_<<StoreTexts, answer>>
  BY StoreStep
<1> QED
  BY <1>1, <1>2, StoreStaysWhole, PTL DEF FtsSpec, ImplementsStore, DS!Spec, StoreTexts
=============================================================================
