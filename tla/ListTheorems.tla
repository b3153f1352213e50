---------------------------- MODULE ListTheorems ----------------------------
(* What the list operations do to the set of values in a list, and the     *)
(* principle that proofs over the positions of a list use for induction.   *)
EXTENDS Lists, SequenceTheorems, WellFoundedInduction, TLAPS

(* Taking the head off a queue without repetitions removes that client. *)
LEMMA TailElems ==
  ASSUME NEW S, NEW s \in Seq(S), s # << >>, Distinct(s)
  PROVE  /\ Head(s) \in S
         /\ Head(s) \in Elems(s)
         /\ Tail(s) \in Seq(S)
         /\ Elems(Tail(s)) = Elems(s) \ {Head(s)}
         /\ Distinct(Tail(s))
<1> DEFINE t == Tail(s)
<1>1. /\ Len(s) \in Nat \ {0}
      /\ DOMAIN s = 1 .. Len(s)
      /\ t \in Seq(S)
      /\ DOMAIN t = 1 .. Len(s) - 1
      /\ \A i \in DOMAIN t : t[i] = s[i + 1]
      /\ Head(s) = s[1]
      /\ 1 \in DOMAIN s
  OBVIOUS
<1> HIDE DEF t
<1>2. \A i \in DOMAIN t : i + 1 \in DOMAIN s /\ i + 1 # 1
  BY <1>1
<1>3. Elems(t) \subseteq Elems(s) \ {Head(s)}
  BY <1>1, <1>2 DEF Elems, Distinct
<1>4. \A j \in DOMAIN s : j # 1 => j - 1 \in DOMAIN t /\ t[j - 1] = s[j]
  BY <1>1
<1>5. Elems(s) \ {Head(s)} \subseteq Elems(t)
  BY <1>1, <1>4 DEF Elems
<1>6. Distinct(t)
  <2> SUFFICES ASSUME NEW i \in DOMAIN t, NEW j \in DOMAIN t, t[i] = t[j]
               PROVE  i = j
    BY DEF Distinct
  <2>1. i + 1 = j + 1
    BY <1>1, <1>2 DEF Distinct
  <2> QED
    BY <2>1, <1>1
<1>7. Head(s) \in S /\ Head(s) \in Elems(s)
  BY <1>1 DEF Elems
<1> QED
  BY <1>1, <1>3, <1>5, <1>6, <1>7 DEF t

(* listAddNodeHead of a client that is not in the list. *)
LEMMA HeadElems ==
  ASSUME NEW S, NEW s \in Seq(S), NEW x \in S
  PROVE  /\ AddNodeHead(s, x) \in Seq(S)
         /\ Elems(AddNodeHead(s, x)) = Elems(s) \cup {x}
         /\ x \notin Elems(s) /\ Distinct(s) => Distinct(AddNodeHead(s, x))
<1> DEFINE t == AddNodeHead(s, x)
<1>1. /\ Len(s) \in Nat
      /\ DOMAIN s = 1 .. Len(s)
      /\ t \in Seq(S)
      /\ DOMAIN t = 1 .. Len(s) + 1
      /\ t[1] = x
      /\ \A i \in DOMAIN t : i # 1 => t[i] = s[i - 1]
  BY DEF AddNodeHead
<1> HIDE DEF t
<1>2. \A i \in DOMAIN t : i # 1 => i - 1 \in DOMAIN s
  BY <1>1
<1>3. \A i \in DOMAIN s : i + 1 \in DOMAIN t /\ t[i + 1] = s[i]
  BY <1>1
<1>4. Elems(t) \subseteq Elems(s) \cup {x}
  BY <1>1, <1>2 DEF Elems
<1>5. Elems(s) \cup {x} \subseteq Elems(t)
  <2>1. 1 \in DOMAIN t
    BY <1>1
  <2> QED
    BY <1>1, <1>3, <2>1 DEF Elems
<1>6. ASSUME x \notin Elems(s), Distinct(s)
      PROVE  Distinct(t)
  <2> SUFFICES ASSUME NEW i \in DOMAIN t, NEW j \in DOMAIN t, t[i] = t[j]
               PROVE  i = j
    BY DEF Distinct
  <2>1. CASE i = 1 /\ j # 1
    BY <2>1, <1>1, <1>2, <1>6 DEF Elems
  <2>2. CASE i # 1 /\ j = 1
    BY <2>2, <1>1, <1>2, <1>6 DEF Elems
  <2>3. CASE i # 1 /\ j # 1
    <3>1. i - 1 = j - 1
      BY <2>3, <1>1, <1>2, <1>6 DEF Distinct
    <3> QED
      BY <3>1, <1>1
  <2> QED
    BY <2>1, <2>2, <2>3
<1> QED
  BY <1>1, <1>4, <1>5, <1>6 DEF t

(* listAddNodeTail of a client that is not in the list. *)
LEMMA TailEndElems ==
  ASSUME NEW S, NEW s \in Seq(S), NEW x \in S
  PROVE  /\ AddNodeTail(s, x) \in Seq(S)
         /\ Elems(AddNodeTail(s, x)) = Elems(s) \cup {x}
         /\ x \notin Elems(s) /\ Distinct(s) => Distinct(AddNodeTail(s, x))
<1> DEFINE t == AddNodeTail(s, x)
<1>1. /\ Len(s) \in Nat
      /\ DOMAIN s = 1 .. Len(s)
      /\ t \in Seq(S)
      /\ DOMAIN t = 1 .. Len(s) + 1
      /\ t[Len(s) + 1] = x
      /\ \A i \in DOMAIN s : t[i] = s[i]
  BY DEF AddNodeTail
<1> HIDE DEF t
<1>2. DOMAIN t = DOMAIN s \cup {Len(s) + 1} /\ Len(s) + 1 \notin DOMAIN s
  BY <1>1
<1>3. Elems(t) = Elems(s) \cup {x}
  BY <1>1, <1>2 DEF Elems
<1>4. ASSUME x \notin Elems(s), Distinct(s)
      PROVE  Distinct(t)
  BY <1>1, <1>2, <1>4 DEF Distinct, Elems
<1> QED
  BY <1>1, <1>3, <1>4 DEF t

(* listDelNode of the first node leaves the tail of the list. *)
LEMMA DelFirst ==
  ASSUME NEW S, NEW s \in Seq(S), s # << >>
  PROVE  DelNode(s, 1) = Tail(s)
<1>1. /\ Len(s) - 1 \in Nat
      /\ \A j \in 1 .. Len(s) - 1 : s[j + 1] \in S /\ ~(j < 1)
  BY EmptySeq
<1>2. DelNode(s, 1) = [j \in 1 .. Len(s) - 1 |-> s[j + 1]]
  BY <1>1 DEF DelNode
<1>3. DelNode(s, 1) \in Seq(S) /\ Len(DelNode(s, 1)) = Len(s) - 1
  BY <1>1, <1>2
<1> QED
  BY <1>1, <1>2, <1>3, HeadTailProperties, SeqEqual

(* A set of positions has a first one: a claim that fails at some position  *)
(* of a list fails at a first one, before which it holds.                   *)
LEMMA FirstPosition ==
  ASSUME NEW T, T \subseteq Nat, T # {}
  PROVE  \E x \in T : \A y \in T : x <= y
<1>1. IsWellFoundedOn(OpToRel(<, Nat), Nat)
  BY NatLessThanWellFounded
<1> DEFINE R == {p \in Nat \X Nat : p[1] < p[2]}
<1>2. R = OpToRel(<, Nat)
  BY DEF OpToRel
<1>3. \E x \in T : \A y \in T : ~ (<<y, x>> \in R)
  <2> HIDE DEF R
  <2> QED
    BY <1>1, <1>2, WFMin
<1>4. PICK x \in T : \A y \in T : ~ (<<y, x>> \in R)
  BY <1>3
<1>5. ASSUME NEW y \in T PROVE x <= y
  <2>1. ~(<<y, x>> \in R)
    BY <1>4
  <2>2. x \in Nat /\ y \in Nat
    OBVIOUS
  <2>3. ~(y < x)
    BY <2>1, <2>2
  <2> QED
    BY <2>2, <2>3
<1> QED
  BY <1>5
=============================================================================
