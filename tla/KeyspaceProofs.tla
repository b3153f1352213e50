--------------------------- MODULE KeyspaceProofs ---------------------------
(***************************************************************************)
(* That reference counts are exact, that no object is within reach of both *)
(* threads, and that clients see a map from keys to values, for every set  *)
(* of keys, fields, values and addresses.                                  *)
(*                                                                         *)
(* No counting is needed: besides the request an object has one owner (a   *)
(* key, a task, a field of a collection, or it is an orphan), so its count *)
(* is 1 or 2 and follows from the set of owned addresses.  An owner is     *)
(* <<kind, x, y, a>>: what holds address a.                                *)
(***************************************************************************)
EXTENDS Keyspace, ListTheorems, FiniteSetTheorems, TLAPS

KeyOwners(d) == {<<"key", k, k, d[k]>> : k \in {x \in DOMAIN d : d[x] \in Addr}}

TaskOwners(given, T) == {<<"task", t, t, given[t]>> : t \in T}

OrphanOwners(A) == {<<"orphan", a, a, a>> : a \in A}

FieldOwners(h) ==
  {p \in {"field"} \X Addr \X Fields \X Addr :
     /\ h[p[2]] # NULL
     /\ p[3] \in DOMAIN h[p[2]].part
     /\ h[p[2]].part[p[3]] = p[4]}

RootsOf(d, given, T, A) == KeyOwners(d) \cup TaskOwners(given, T) \cup OrphanOwners(A)

Roots == RootsOf(dict, arg, Range(todo), orphans)

Owners(R, h) == R \cup FieldOwners(h)

HeldBy(H) == {p[4] : p \in H}

OneOwner(H) == \A p1, p2 \in H : p1[4] = p2[4] => p1 = p2

(* The counts of heap h, where the addresses in S are owned and q is the    *)
(* request.                                                                 *)
Counts(S, h, q) ==
  \A a \in Addr :
    IF h[a] = NULL THEN a \notin S /\ a # q
    ELSE /\ a \in S \/ a = q
         /\ h[a].ref = (IF a \in S THEN 1 ELSE 0) + (IF a = q THEN 1 ELSE 0)

HeapType(h) ==
  /\ h \in [Addr -> Object \cup {NULL}]
  /\ \A a \in Addr : h[a] # NULL /\ h[a].type = "string" => DOMAIN h[a].part = {} /\ h[a].val \in Values

RootType(R, h) ==
  \A p \in R :
    /\ p[4] \in Addr
    /\ p[1] \in {"key", "task", "orphan"}
    /\ p[1] = "task" => h[p[4]].type = "trie"
    /\ p[1] = "orphan" => h[p[4]].type = "string"

(* Only collections have fields, and fields and requests are strings. *)
Strings(h, q) ==
  /\ \A p \in FieldOwners(h) : h[p[4]].type = "string"
  /\ q \in Addr => h[q].type = "string"

Sound(R, h, q) ==
  /\ HeapType(h)
  /\ RootType(R, h)
  /\ Strings(h, q)
  /\ OneOwner(Owners(R, h))
  /\ Counts(HeldBy(Owners(R, h)), h, q)

StateType ==
  /\ DOMAIN dict \subseteq Keys
  /\ \A k \in DOMAIN dict : dict[k] \in Ref
  /\ argv \in Ref \cup {NULL}
  /\ todo \in Seq(Tasks)
  /\ Distinct(todo)
  /\ Range(todo) \subseteq DOMAIN arg
  /\ orphans \subseteq Addr

(* Before a command has run nothing owns its argument; afterwards nothing   *)
(* that was handed over does.                                               *)
RequestApart ==
  /\ reply = NULL => argv \notin SmallInts /\ argv \notin HeldBy(Owners(Roots, obj))
  /\ \A p \in FieldOwners(obj), t \in Range(todo) : p[4] = argv => p[2] # arg[t]

IInv ==
  /\ StateType
  /\ Sound(Roots, obj, argv)
  /\ RequestApart

(* decrRefCount of the addresses in D, each with one reference less. *)
Release(D, h) ==
  [a \in Addr |-> IF a \notin D THEN h[a]
                  ELSE IF h[a].ref = 1 THEN NULL ELSE [h[a] EXCEPT !.ref = @ - 1]]

(* The heap with object o at address a, and with other fields for a. *)
WithObject(a, o, h) == [h EXCEPT ![a] = o]

WithPart(a, part, h) == [h EXCEPT ![a].part = part]

-----------------------------------------------------------------------------
(* Pointers, fields and objects. *)

LEMMA PartsType ==
  ASSUME NEW part
  PROVE  part \in Parts <=> DOMAIN part \subseteq Fields /\ part \in [DOMAIN part -> Ref]
<1>1. ASSUME part \in Parts
      PROVE  DOMAIN part \subseteq Fields /\ part \in [DOMAIN part -> Ref]
  <2>1. PICK S \in SUBSET Fields : part \in [S -> Ref]
    BY <1>1 DEF Parts
  <2> QED
    BY <2>1
<1>2. ASSUME DOMAIN part \subseteq Fields, part \in [DOMAIN part -> Ref]
      PROVE  part \in Parts
  BY <1>2 DEF Parts
<1> QED
  BY <1>1, <1>2

LEMMA PartsOps ==
  /\ << >> \in Parts
  /\ \A part \in Parts, f \in Fields, r \in Ref : Assign(part, f, r) \in Parts
  /\ \A part \in Parts, f \in Fields : Without(part, f) \in Parts
<1>1. << >> \in Parts
  <2>1. << >> \in Seq(Ref) /\ Len(<< >>) = 0
    OBVIOUS
  <2>2. << >> \in [1 .. 0 -> Ref] /\ DOMAIN << >> = {}
    BY <2>1
  <2> QED
    BY <2>2, PartsType
<1>2. ASSUME NEW part \in Parts, NEW f \in Fields, NEW r \in Ref
      PROVE  Assign(part, f, r) \in Parts
  <2>1. DOMAIN part \subseteq Fields /\ part \in [DOMAIN part -> Ref]
    BY PartsType
  <2>2. DOMAIN Assign(part, f, r) = DOMAIN part \cup {f}
    BY DEF Assign
  <2>3. Assign(part, f, r) \in [DOMAIN part \cup {f} -> Ref]
    BY <2>1 DEF Assign
  <2> QED
    BY <2>1, <2>2, <2>3, PartsType
<1>3. ASSUME NEW part \in Parts, NEW f \in Fields
      PROVE  Without(part, f) \in Parts
  <2>1. DOMAIN part \subseteq Fields /\ part \in [DOMAIN part -> Ref]
    BY PartsType
  <2>2. DOMAIN Without(part, f) = DOMAIN part \ {f}
    BY DEF Without, Restrict
  <2>3. Without(part, f) \in [DOMAIN part \ {f} -> Ref]
    BY <2>1 DEF Without, Restrict
  <2> QED
    BY <2>1, <2>2, <2>3, PartsType
<1> QED
  BY <1>1, <1>2, <1>3

LEMMA FreshObjects ==
  /\ \A v \in Values : StringObject(v) \in Object /\ StringObject(v) # NULL
  /\ \A t \in Collections : CollectionObject(t) \in Object /\ CollectionObject(t) # NULL /\ t # "string"
BY PartsOps, KeyspaceAssumption DEF StringObject, CollectionObject, Object

(* decrRefCount of strings that are different objects. *)
LEMMA DecrStringsReleases ==
  ASSUME NEW part \in Parts, NEW h,
         \A f, g \in DOMAIN part : part[f] = part[g] /\ part[f] \in Addr => f = g
  PROVE  DecrStrings(part, h) = Release(Range(part) \cap Addr, h)
<1> DEFINE held(a) == Cardinality({f \in DOMAIN part : part[f] = a})
<1>1. ASSUME NEW a \in Addr
      PROVE  held(a) = IF a \in Range(part) THEN 1 ELSE 0
  <2>1. CASE a \in Range(part)
    <3>1. PICK f \in DOMAIN part : part[f] = a
      BY <2>1 DEF Range
    <3>2. {g \in DOMAIN part : part[g] = a} = {f}
      BY <3>1
    <3> QED
      BY <2>1, <3>2, FS_Singleton
  <2>2. CASE a \notin Range(part)
    <3>1. {g \in DOMAIN part : part[g] = a} = {}
      BY <2>2 DEF Range
    <3> QED
      BY <2>2, <3>1, FS_EmptySet
  <2> QED
    BY <2>1, <2>2
<1>2. DecrStrings(part, h) =
        [a \in Addr |-> IF held(a) = 0 THEN h[a]
                        ELSE IF h[a].ref = held(a) THEN NULL
                        ELSE [h[a] EXCEPT !.ref = @ - held(a)]]
  BY DEF DecrStrings
<1> HIDE DEF held
<1>3. ASSUME NEW a \in Addr
      PROVE  DecrStrings(part, h)[a] = Release(Range(part) \cap Addr, h)[a]
  BY <1>1, <1>2 DEF Release
<1> QED
  BY <1>2, <1>3 DEF Release

LEMMA ObjectAt ==
  ASSUME NEW h, HeapType(h), NEW a \in Addr, h[a] # NULL
  PROVE  /\ h[a] \in Object /\ h[a].ref \in Nat /\ h[a].part \in Parts
         /\ DOMAIN h[a].part \subseteq Fields
         /\ \A f \in DOMAIN h[a].part : h[a].part[f] \in Ref
<1>1. h[a] \in Object
  BY DEF HeapType
<1>2. h[a].ref \in Nat /\ h[a].part \in Parts
  BY <1>1 DEF Object
<1> QED
  BY <1>1, <1>2, PartsType

(* What decrRefCount does to the objects in D. *)
LEMMA ReleasedHeap ==
  ASSUME NEW h, HeapType(h), NEW D \in SUBSET Addr,
         \A a \in D : h[a] # NULL /\ h[a].ref > 0
  PROVE  /\ HeapType(Release(D, h))
         /\ \A a \in Addr : Release(D, h)[a] # NULL =>
              /\ h[a] # NULL
              /\ Release(D, h)[a].type = h[a].type
              /\ Release(D, h)[a].val = h[a].val
              /\ Release(D, h)[a].part = h[a].part
         /\ \A a \in D : Release(D, h)[a] # NULL => Release(D, h)[a].ref = h[a].ref - 1
         /\ \A a \in D : Release(D, h)[a] = NULL <=> h[a].ref = 1
<1> DEFINE g == Release(D, h)
<1>1. ASSUME NEW a \in D, h[a].ref # 1
      PROVE  /\ g[a] = [h[a] EXCEPT !.ref = @ - 1]
             /\ g[a] \in Object /\ g[a] # NULL
             /\ g[a].type = h[a].type /\ g[a].val = h[a].val /\ g[a].part = h[a].part
             /\ g[a].ref = h[a].ref - 1
  <2>1. h[a] \in Object /\ h[a].ref \in Nat /\ h[a].ref > 0
    BY ObjectAt
  <2>2. g[a] = [h[a] EXCEPT !.ref = @ - 1]
    BY <1>1 DEF Release
  <2>3. h[a].ref - 1 \in Nat
    BY <2>1
  <2>4. /\ g[a] \in Object
        /\ g[a].type = h[a].type /\ g[a].val = h[a].val /\ g[a].part = h[a].part
        /\ g[a].ref = h[a].ref - 1
    BY <2>1, <2>2, <2>3 DEF Object
  <2> QED
    BY <2>2, <2>4, KeyspaceAssumption
<1>2. \A a \in D : h[a].ref = 1 => g[a] = NULL
  BY DEF Release
<1>3. \A a \in Addr \ D : g[a] = h[a]
  BY DEF Release
<1>4. g = [a \in Addr |-> g[a]]
  BY DEF Release
<1> HIDE DEF g
<1>5. \A a \in Addr : g[a] \in Object \cup {NULL}
  BY <1>1, <1>2, <1>3 DEF HeapType
<1>6. g \in [Addr -> Object \cup {NULL}]
  BY <1>4, <1>5
<1>7. \A a \in Addr : g[a] # NULL =>
              /\ h[a] # NULL
              /\ g[a].type = h[a].type
              /\ g[a].val = h[a].val
              /\ g[a].part = h[a].part
  BY <1>1, <1>2, <1>3
<1>8. HeapType(g)
  BY <1>6, <1>7 DEF HeapType
<1> QED
  BY <1>1, <1>2, <1>7, <1>8 DEF g

LEMMA ReleasedFields ==
  ASSUME NEW h, HeapType(h), NEW D \in SUBSET Addr,
         \A a \in D : h[a] # NULL /\ h[a].ref > 0
  PROVE  /\ FieldOwners(Release(D, h)) = {p \in FieldOwners(h) : Release(D, h)[p[2]] # NULL}
         /\ (\A a \in D : h[a].type = "string") => FieldOwners(Release(D, h)) = FieldOwners(h)
<1> DEFINE g == Release(D, h)
<1>1. /\ \A a \in Addr : g[a] # NULL => h[a] # NULL /\ g[a].part = h[a].part
      /\ \A a \in Addr \ D : g[a] = h[a]
  BY ReleasedHeap DEF Release
<1> HIDE DEF g
<1>2. FieldOwners(g) = {p \in FieldOwners(h) : g[p[2]] # NULL}
  BY <1>1 DEF FieldOwners
<1>3. ASSUME \A a \in D : h[a].type = "string", NEW p \in FieldOwners(h)
      PROVE  g[p[2]] # NULL
  <2>1. p[2] \in Addr /\ h[p[2]] # NULL /\ p[3] \in DOMAIN h[p[2]].part
    BY DEF FieldOwners
  <2>2. p[2] \notin D
    BY <1>3, <2>1 DEF HeapType
  <2> QED
    BY <1>1, <2>1, <2>2
<1> QED
  BY <1>2, <1>3 DEF g

LEMMA ReleasedCounts ==
  ASSUME NEW h, HeapType(h), NEW S, NEW q, Counts(S, h, q), NEW D \in SUBSET Addr, D \subseteq S
  PROVE  /\ \A a \in D : h[a] # NULL /\ h[a].ref > 0
         /\ Counts(S \ D, Release(D, h), q)
<1>1. \A a \in D : h[a] # NULL /\ h[a].ref > 0
  BY DEF Counts
<1> DEFINE g == Release(D, h)
<1>2. ASSUME NEW a \in Addr
      PROVE  IF g[a] = NULL THEN a \notin S \ D /\ a # q
             ELSE /\ a \in S \ D \/ a = q
                  /\ g[a].ref = (IF a \in S \ D THEN 1 ELSE 0) + (IF a = q THEN 1 ELSE 0)
  <2>1. CASE a \in D
    <3>1. h[a].ref = 1 + (IF a = q THEN 1 ELSE 0)
      BY <1>1, <2>1 DEF Counts
    <3>2. (g[a] = NULL <=> h[a].ref = 1) /\ (g[a] # NULL => g[a].ref = h[a].ref - 1)
      BY <1>1, <2>1, ReleasedHeap
    <3> HIDE DEF g
    <3> QED
      BY <2>1, <3>1, <3>2
  <2>2. CASE a \notin D
    BY <2>2 DEF Counts, Release
  <2> QED
    BY <2>1, <2>2
<1> QED
  BY <1>1, <1>2 DEF Counts

(* A heap that differs from a sound one in its counts, and has fewer owners. *)
LEMMA SoundFrom ==
  ASSUME NEW g, HeapType(g), NEW h, NEW q, Strings(h, q), NEW R, RootType(R, h),
         FieldOwners(g) \subseteq FieldOwners(h),
         \A a \in Addr : g[a] # NULL => g[a].type = h[a].type,
         OneOwner(Owners(R, g)), Counts(HeldBy(Owners(R, g)), g, q)
  PROVE  Sound(R, g, q)
<1>1. \A p \in Owners(R, g) : p[4] \in Addr => g[p[4]] # NULL /\ g[p[4]].type = h[p[4]].type
  BY DEF HeldBy, Counts
<1>2. RootType(R, g)
  BY <1>1 DEF RootType, Owners
<1>3. \A p \in FieldOwners(g) : p[4] \in Addr
  BY DEF FieldOwners
<1>4. Strings(g, q)
  BY <1>1, <1>3 DEF Strings, Owners, Counts
<1> QED
  BY <1>2, <1>4 DEF Sound

LEMMA ReleasedSound ==
  ASSUME NEW h, HeapType(h), NEW q, Strings(h, q), NEW S, Counts(S, h, q),
         NEW D \in SUBSET Addr, D \subseteq S,
         NEW R, RootType(R, h),
         OneOwner(Owners(R, Release(D, h))),
         HeldBy(Owners(R, Release(D, h))) = S \ D
  PROVE  Sound(R, Release(D, h), q)
<1> DEFINE g == Release(D, h)
<1>1. /\ \A a \in D : h[a] # NULL /\ h[a].ref > 0
      /\ Counts(S \ D, g, q)
  BY ReleasedCounts
<1>2. /\ HeapType(g)
      /\ \A a \in Addr : g[a] # NULL => g[a].type = h[a].type
  BY <1>1, ReleasedHeap
<1>3. FieldOwners(g) \subseteq FieldOwners(h)
  BY <1>1, ReleasedFields
<1> HIDE DEF g
<1> QED
  BY <1>1, <1>2, <1>3, SoundFrom DEF g

(* decrRefCount of a string, and of a collection nobody else has. *)
LEMMA DecrString ==
  ASSUME NEW h, HeapType(h), NEW a \in Addr, h[a] # NULL, h[a].type = "string"
  PROVE  DecrRefCount(a, h) = Release({a}, h)
<1>1. a \notin SmallInts /\ h = [b \in Addr |-> h[b]]
  BY KeyspaceAssumption DEF HeapType
<1>2. CASE h[a].ref # 1
  <2>1. DecrRefCount(a, h) = [h EXCEPT ![a].ref = @ - 1]
    BY <1>1, <1>2 DEF DecrRefCount
  <2> QED
    BY <1>1, <1>2, <2>1 DEF Release
<1>3. CASE h[a].ref = 1
  <2>1. Owned(h[a]) = h[a].part /\ h[a].part \in Parts /\ DOMAIN h[a].part = {}
    BY ObjectAt DEF Owned, HeapType
  <2>2. DecrStrings(h[a].part, h) = Release(Range(h[a].part) \cap Addr, h)
    BY <2>1, DecrStringsReleases
  <2>3. Range(h[a].part) = {}
    BY <2>1 DEF Range
  <2>4. Release({}, h) = h
    BY <1>1 DEF Release
  <2>5. DecrRefCount(a, h) = [h EXCEPT ![a] = NULL]
    BY <1>1, <1>3, <2>1, <2>2, <2>3, <2>4 DEF DecrRefCount
  <2> QED
    BY <1>1, <1>3, <2>5 DEF Release
<1> QED
  BY <1>2, <1>3

LEMMA DecrCollection ==
  ASSUME NEW h, HeapType(h), NEW a \in Addr, h[a] # NULL, h[a].ref = 1,
         \A f, g \in DOMAIN h[a].part : h[a].part[f] = h[a].part[g] /\ h[a].part[f] \in Addr => f = g
  PROVE  DecrRefCount(a, h) = Release({a} \cup (Range(Owned(h[a])) \cap Addr), h)
<1>1. a \notin SmallInts /\ h = [b \in Addr |-> h[b]]
  BY KeyspaceAssumption DEF HeapType
<1>2. DecrRefCount(a, h) = [DecrStrings(Owned(h[a]), h) EXCEPT ![a] = NULL]
  BY <1>1 DEF DecrRefCount
<1>3. h[a].part \in Parts /\ << >> \in Parts
  BY ObjectAt, PartsOps
<1>4. \/ Owned(h[a]) = << >>
      \/ Owned(h[a]) = h[a].part
  BY DEF Owned
<1>5. DecrStrings(Owned(h[a]), h) = Release(Range(Owned(h[a])) \cap Addr, h)
  <2>1. CASE Owned(h[a]) = h[a].part
    BY <1>3, <2>1, DecrStringsReleases
  <2>2. CASE Owned(h[a]) = << >>
    <3>1. \A f, g \in DOMAIN << >> : << >>[f] = << >>[g] /\ << >>[f] \in Addr => f = g
      OBVIOUS
    <3> QED
      BY <1>3, <2>2, <3>1, DecrStringsReleases
  <2> QED
    BY <1>4, <2>1, <2>2
<1> DEFINE E == Range(Owned(h[a])) \cap Addr
<1> HIDE DEF E
<1>6. [Release(E, h) EXCEPT ![a] = NULL] = Release({a} \cup E, h)
  BY <1>1 DEF Release
<1> QED
  BY <1>2, <1>5, <1>6 DEF E

-----------------------------------------------------------------------------
(* Sets of owners. *)

LEMMA FewerOwners ==
  ASSUME NEW H, OneOwner(H), NEW P, P \subseteq H
  PROVE  OneOwner(H \ P) /\ HeldBy(H \ P) = HeldBy(H) \ HeldBy(P)
BY DEF OneOwner, HeldBy

LEMMA OtherOwners ==
  ASSUME NEW H, OneOwner(H), NEW P, OneOwner(P), HeldBy(H) \cap HeldBy(P) = {}
  PROVE  OneOwner(H \cup P) /\ HeldBy(H \cup P) = HeldBy(H) \cup HeldBy(P)
BY DEF OneOwner, HeldBy

LEMMA OrphansOwned ==
  ASSUME NEW A
  PROVE  OneOwner(OrphanOwners(A)) /\ HeldBy(OrphanOwners(A)) = A
<1>1. \A p \in OrphanOwners(A) : p[4] \in A /\ p = <<"orphan", p[4], p[4], p[4]>>
  BY DEF OrphanOwners
<1>2. ASSUME NEW a \in A
      PROVE  \E p \in OrphanOwners(A) : p[4] = a
  <2>1. <<"orphan", a, a, a>> \in OrphanOwners(A) /\ <<"orphan", a, a, a>>[4] = a
    BY DEF OrphanOwners
  <2> QED
    BY <2>1
<1>3. OneOwner(OrphanOwners(A))
  BY <1>1 DEF OneOwner
<1> QED
  BY <1>1, <1>2, <1>3 DEF HeldBy

(* The fields of collection a. *)
FieldsOfOwner(a, h) == {p \in FieldOwners(h) : p[2] = a}

LEMMA CollectionOwns ==
  ASSUME NEW h, HeapType(h), NEW a \in Addr, h[a] # NULL
  PROVE  HeldBy(FieldsOfOwner(a, h)) = Range(h[a].part) \cap Addr
<1>1. DOMAIN h[a].part \subseteq Fields
  BY ObjectAt
<1>2. ASSUME NEW x \in Range(h[a].part) \cap Addr
      PROVE  x \in HeldBy(FieldsOfOwner(a, h))
  <2>1. PICK f \in DOMAIN h[a].part : h[a].part[f] = x
    BY DEF Range
  <2>2. <<"field", a, f, x>> \in FieldsOfOwner(a, h)
    BY <1>1, <2>1 DEF FieldsOfOwner, FieldOwners
  <2> QED
    BY <2>2 DEF HeldBy
<1>3. ASSUME NEW p \in FieldsOfOwner(a, h)
      PROVE  p[4] \in Range(h[a].part) \cap Addr
  BY DEF FieldsOfOwner, FieldOwners, Range
<1> QED
  BY <1>2, <1>3 DEF HeldBy

LEMMA CollectionsDiffer ==
  ASSUME NEW h, HeapType(h), NEW a \in Addr, h[a] # NULL, OneOwner(FieldOwners(h))
  PROVE  \A f, g \in DOMAIN h[a].part : h[a].part[f] = h[a].part[g] /\ h[a].part[f] \in Addr => f = g
<1> SUFFICES ASSUME NEW f \in DOMAIN h[a].part, NEW g \in DOMAIN h[a].part,
                    h[a].part[f] = h[a].part[g], h[a].part[f] \in Addr
             PROVE  f = g
  OBVIOUS
<1>1. f \in Fields /\ g \in Fields
  BY ObjectAt
<1> DEFINE p1 == <<"field", a, f, h[a].part[f]>>
           p2 == <<"field", a, g, h[a].part[g]>>
<1>2. p1 \in FieldOwners(h) /\ p2 \in FieldOwners(h) /\ p1[4] = p2[4]
  BY <1>1 DEF FieldOwners
<1>3. p1 = p2
  BY <1>2 DEF OneOwner
<1> QED
  BY <1>3

-----------------------------------------------------------------------------
(* The operations on the heap. *)

(* The items minheap_free leaves behind when collection a goes. *)
LeftBehind(a, h) == IF h[a].type = "heapq" THEN Range(h[a].part) \cap Addr ELSE {}

LEMMA SoundFacts ==
  ASSUME NEW R, NEW h, NEW q, Sound(R, h, q)
  PROVE  /\ \A p \in R : p \in Owners(R, h) /\ p[4] \in Addr /\ p[1] # "field"
         /\ \A p \in FieldOwners(h) :
              /\ p \in Owners(R, h) /\ p[1] = "field" /\ p[2] \in Addr /\ p[4] \in Addr
              /\ h[p[2]] # NULL /\ h[p[2]].type # "string" /\ h[p[4]].type = "string"
         /\ \A p \in Owners(R, h) : p[4] \in Addr /\ h[p[4]] # NULL /\ p[4] \in HeldBy(Owners(R, h))
         /\ OneOwner(FieldOwners(h))
<1>1. \A p \in R : p \in Owners(R, h) /\ p[4] \in Addr /\ p[1] # "field"
  BY DEF Sound, RootType, Owners
<1>2. \A p \in FieldOwners(h) :
        /\ p \in Owners(R, h) /\ p[1] = "field" /\ p[2] \in Addr /\ p[4] \in Addr
        /\ h[p[2]] # NULL /\ h[p[2]].type # "string" /\ h[p[4]].type = "string"
  BY DEF Sound, Strings, HeapType, FieldOwners, Owners
<1>3. \A p \in Owners(R, h) : p[4] \in Addr /\ p[4] \in HeldBy(Owners(R, h))
  BY <1>1, <1>2 DEF Owners, HeldBy
<1>4. \A p \in Owners(R, h) : h[p[4]] # NULL
  BY <1>3 DEF Sound, Counts
<1>5. OneOwner(FieldOwners(h))
  BY DEF Sound, OneOwner, Owners
<1> QED
  BY <1>1, <1>2, <1>3, <1>4, <1>5

(* decrRefCount where a key or a task gives up its value. *)
LEMMA DropRoot ==
  ASSUME NEW R, NEW h, NEW q, Sound(R, h, q), NEW p \in R
  PROVE  LET R2 == (R \ {p}) \cup OrphanOwners(LeftBehind(p[4], h))
             g == DecrRefCount(p[4], h)
         IN  Sound(R2, g, q) /\ HeldBy(Owners(R2, g)) \subseteq HeldBy(Owners(R, h))
<1> DEFINE a == p[4]
           H == Owners(R, h)
           F == FieldsOfOwner(a, h)
           A == LeftBehind(a, h)
           R2 == (R \ {p}) \cup OrphanOwners(A)
<1>1. /\ HeapType(h) /\ RootType(R, h) /\ Strings(h, q) /\ OneOwner(H) /\ Counts(HeldBy(H), h, q)
      /\ OneOwner(FieldOwners(h))
      /\ p \in H /\ a \in Addr /\ h[a] # NULL /\ a \in HeldBy(H)
  BY SoundFacts DEF Sound
<1>2. CASE h[a].type = "string"
  <2> DEFINE g == Release({a}, h)
  <2>1. DecrRefCount(a, h) = g
    BY <1>1, <1>2, DecrString
  <2>2. R2 = R \ {p}
    BY <1>2 DEF LeftBehind, OrphanOwners
  <2>3. h[a].ref > 0
    BY <1>1 DEF Counts
  <2>4. FieldOwners(g) = FieldOwners(h)
    BY <1>1, <1>2, <2>3, ReleasedFields
  <2>5. Owners(R \ {p}, g) = H \ {p}
    <3>1. p \notin FieldOwners(h)
      BY SoundFacts
    <3> HIDE DEF g
    <3> QED
      BY <2>4, <3>1 DEF Owners
  <2>6. OneOwner(H \ {p}) /\ HeldBy(H \ {p}) = HeldBy(H) \ {a}
    <3>1. HeldBy({p}) = {a}
      BY DEF HeldBy
    <3> HIDE DEF H, a
    <3> QED
      BY <1>1, <3>1, FewerOwners
  <2>7. RootType(R \ {p}, h)
    BY <1>1 DEF RootType
  <2> HIDE DEF H, a, g
  <2>8. Sound(R \ {p}, Release({a}, h), q)
    BY <1>1, <2>5, <2>6, <2>7, ReleasedSound DEF g
  <2> QED
    BY <2>1, <2>2, <2>5, <2>6, <2>8 DEF a, g, H
<1>3. CASE h[a].type # "string"
  <2> DEFINE D == {a} \cup (Range(Owned(h[a])) \cap Addr)
             g == Release(D, h)
  <2>1. h[a].ref = 1
    BY <1>1, <1>3 DEF Counts, Strings
  <2>2. DecrRefCount(a, h) = g
    BY <1>1, <2>1, DecrCollection, CollectionsDiffer
  <2>3. HeldBy(F) = Range(h[a].part) \cap Addr /\ F \subseteq H /\ F \subseteq FieldOwners(h)
    BY <1>1, CollectionOwns DEF FieldsOfOwner, Owners
  <2>4. /\ h[a].type = "heapq" => D = {a} /\ A = HeldBy(F)
        /\ h[a].type # "heapq" => D = {a} \cup HeldBy(F) /\ A = {}
    <3>1. Range(<< >>) = {}
      BY DEF Range
    <3> QED
      BY <2>3, <3>1 DEF Owned, LeftBehind
  <2>5. /\ D \in SUBSET Addr /\ D \subseteq HeldBy(H)
        /\ HeldBy(F) \subseteq HeldBy(H)
    <3>1. HeldBy(F) \subseteq HeldBy(H)
      BY <2>3 DEF HeldBy
    <3> QED
      BY <1>1, <2>3, <2>4, <3>1
  <2>6. /\ \A x \in D : h[x] # NULL /\ h[x].ref > 0
        /\ \A x \in Addr : g[x] # NULL => h[x] # NULL
        /\ \A x \in Addr \ D : g[x] = h[x]
        /\ g[a] = NULL
    <3>1. a \in D /\ \A x \in Addr \ D : g[x] = h[x]
      BY DEF Release
    <3> HIDE DEF D, H, a
    <3>2. \A x \in D : h[x] # NULL /\ h[x].ref > 0
      BY <1>1, <2>5, ReleasedCounts
    <3> QED
      BY <1>1, <2>1, <2>5, <3>1, <3>2, ReleasedHeap
  <2>7. FieldOwners(g) = FieldOwners(h) \ F
    <3>1. FieldOwners(g) = {w \in FieldOwners(h) : g[w[2]] # NULL}
      BY <1>1, <2>5, <2>6, ReleasedFields
    <3>2. ASSUME NEW w \in FieldOwners(h), w[2] # a
          PROVE  g[w[2]] # NULL
      <4>1. w[2] \in Addr /\ h[w[2]] # NULL /\ h[w[2]].type # "string"
        BY SoundFacts
      <4>2. \A x \in HeldBy(F) : h[x].type = "string"
        BY <2>3, SoundFacts DEF HeldBy
      <4>3. w[2] \notin D
        BY <2>4, <3>2, <4>1, <4>2
      <4> QED
        BY <2>6, <4>1, <4>3
    <3> HIDE DEF g
    <3> QED
      BY <2>6, <3>1, <3>2 DEF FieldsOfOwner
  <2>8. Owners(R2, g) = (H \ ({p} \cup F)) \cup OrphanOwners(A)
    <3>1. \A w \in R : w \notin F
      BY <2>3, SoundFacts
    <3>2. p \notin FieldOwners(h)
      BY SoundFacts
    <3> HIDE DEF g, F, A
    <3> QED
      BY <2>7, <3>1, <3>2 DEF Owners
  <2>9. HeldBy({p} \cup F) = {a} \cup HeldBy(F)
    BY DEF HeldBy
  <2>10. OneOwner(H \ ({p} \cup F)) /\ HeldBy(H \ ({p} \cup F)) = HeldBy(H) \ ({a} \cup HeldBy(F))
    <3> HIDE DEF H, F, a
    <3>1. {p} \cup F \subseteq H
      BY <1>1, <2>3
    <3> QED
      BY <1>1, <2>9, <3>1, FewerOwners, SMTT(20)
  <2>11. a \notin HeldBy(F)
    BY <1>3, <2>3, SoundFacts DEF HeldBy
  <2>12. OneOwner(Owners(R2, g)) /\ HeldBy(Owners(R2, g)) = HeldBy(H) \ D
    <3> HIDE DEF H, F, a, A, D, g, R2
    <3>1. A \subseteq HeldBy(F)
      BY <2>4
    <3>2. OneOwner(OrphanOwners(A)) /\ HeldBy(OrphanOwners(A)) = A
      BY OrphansOwned
    <3>3. HeldBy(H \ ({p} \cup F)) \cap HeldBy(OrphanOwners(A)) = {}
      BY <2>10, <3>1, <3>2
    <3>4. /\ OneOwner(Owners(R2, g))
          /\ HeldBy(Owners(R2, g)) = HeldBy(H \ ({p} \cup F)) \cup HeldBy(OrphanOwners(A))
      <4> DEFINE H1 == H \ ({p} \cup F)
                 P == OrphanOwners(A)
      <4>1. Owners(R2, g) = H1 \cup P /\ OneOwner(H1) /\ OneOwner(P) /\ HeldBy(H1) \cap HeldBy(P) = {}
        BY <2>8, <2>10, <3>2, <3>3
      <4> HIDE DEF H1, P
      <4>2. OneOwner(H1 \cup P) /\ HeldBy(H1 \cup P) = HeldBy(H1) \cup HeldBy(P)
        BY <4>1, OtherOwners
      <4> QED
        BY <4>1, <4>2 DEF H1, P
    <3> QED
      BY <2>4, <2>5, <2>10, <2>11, <3>2, <3>4
  <2>13. RootType(R2, h)
    <3>1. \A x \in A : x \in Addr /\ h[x].type = "string"
      BY <2>3, <2>4, SoundFacts DEF HeldBy
    <3> QED
      BY <1>1, <3>1 DEF RootType, OrphanOwners
  <2> HIDE DEF H, F, a, A, D, g, R2
  <2>14. Sound(R2, Release(D, h), q)
    BY <1>1, <2>5, <2>12, <2>13, ReleasedSound DEF g
  <2> QED
    BY <2>2, <2>12, <2>14 DEF R2, g, A, a, H
<1> QED
  BY <1>2, <1>3

(* incrRefCount *)
LEMMA IncrementedHeap ==
  ASSUME NEW h, HeapType(h), NEW a \in Addr, h[a] # NULL
  PROVE  /\ HeapType(IncrRefCount(a, h))
         /\ \A x \in Addr :
              /\ IncrRefCount(a, h)[x] = NULL <=> h[x] = NULL
              /\ h[x] # NULL =>
                   /\ IncrRefCount(a, h)[x].type = h[x].type
                   /\ IncrRefCount(a, h)[x].val = h[x].val
                   /\ IncrRefCount(a, h)[x].part = h[x].part
                   /\ IncrRefCount(a, h)[x].ref = h[x].ref + (IF x = a THEN 1 ELSE 0)
         /\ FieldOwners(IncrRefCount(a, h)) = FieldOwners(h)
<1> DEFINE g == IncrRefCount(a, h)
<1>1. g = [h EXCEPT ![a].ref = @ + 1] /\ h \in [Addr -> Object \cup {NULL}]
  BY KeyspaceAssumption DEF IncrRefCount, HeapType
<1>2. h[a] \in Object /\ h[a].ref \in Nat
  BY ObjectAt
<1>3. /\ g[a] = [h[a] EXCEPT !.ref = @ + 1]
      /\ \A x \in Addr \ {a} : g[x] = h[x]
      /\ g = [x \in Addr |-> g[x]]
  BY <1>1
<1> HIDE DEF g
<1>4. /\ g[a] \in Object
      /\ g[a].type = h[a].type /\ g[a].val = h[a].val /\ g[a].part = h[a].part
      /\ g[a].ref = h[a].ref + 1
  BY <1>2, <1>3 DEF Object
<1>5. g[a] # NULL
  BY <1>4, KeyspaceAssumption
<1>6. \A x \in Addr :
        /\ g[x] = NULL <=> h[x] = NULL
        /\ h[x] # NULL =>
             /\ g[x].type = h[x].type
             /\ g[x].val = h[x].val
             /\ g[x].part = h[x].part
             /\ g[x].ref = h[x].ref + (IF x = a THEN 1 ELSE 0)
  <2> TAKE x \in Addr
  <2>1. CASE x = a
    BY <1>4, <1>5, <2>1
  <2>2. CASE x # a
    <3>1. h[x] # NULL => h[x].ref \in Nat
      BY ObjectAt
    <3> QED
      BY <1>3, <2>2, <3>1
  <2> QED
    BY <2>1, <2>2
<1>7. HeapType(g)
  <2>1. \A x \in Addr : g[x] \in Object \cup {NULL}
    BY <1>1, <1>3, <1>4
  <2>2. g \in [Addr -> Object \cup {NULL}]
    BY <1>3, <2>1
  <2> QED
    BY <1>6, <2>2 DEF HeapType
<1>8. FieldOwners(g) = FieldOwners(h)
  BY <1>6 DEF FieldOwners
<1> QED
  BY <1>6, <1>7, <1>8 DEF g

LEMMA IncrementedCounts ==
  ASSUME NEW h, HeapType(h), NEW q \in Addr, NEW S, Counts(S, h, q), q \notin S
  PROVE  Counts(S \cup {q}, IncrRefCount(q, h), q)
<1>1. h[q] # NULL
  BY DEF Counts
<1> DEFINE g == IncrRefCount(q, h)
<1>2. \A x \in Addr :
        /\ g[x] = NULL <=> h[x] = NULL
        /\ h[x] # NULL => g[x].ref = h[x].ref + (IF x = q THEN 1 ELSE 0)
  BY <1>1, IncrementedHeap
<1> HIDE DEF g
<1>3. Counts(S \cup {q}, g, q)
  BY <1>2 DEF Counts
<1> QED
  BY <1>3 DEF g

(* Other fields for collection c. *)
LEMMA OtherPart ==
  ASSUME NEW h, HeapType(h), NEW c \in Addr, h[c] # NULL, h[c].type # "string", NEW part \in Parts
  PROVE  /\ HeapType(WithPart(c, part, h))
         /\ \A x \in Addr :
              /\ WithPart(c, part, h)[x] = NULL <=> h[x] = NULL
              /\ h[x] # NULL =>
                   /\ WithPart(c, part, h)[x].type = h[x].type
                   /\ WithPart(c, part, h)[x].val = h[x].val
                   /\ WithPart(c, part, h)[x].ref = h[x].ref
                   /\ WithPart(c, part, h)[x].part = IF x = c THEN part ELSE h[x].part
<1> DEFINE g == WithPart(c, part, h)
<1>1. h \in [Addr -> Object \cup {NULL}] /\ h[c] \in Object
  BY ObjectAt DEF HeapType
<1>2. /\ g[c] = [h[c] EXCEPT !.part = part]
      /\ \A x \in Addr \ {c} : g[x] = h[x]
      /\ g = [x \in Addr |-> g[x]]
  BY <1>1 DEF WithPart
<1> HIDE DEF g
<1>3. /\ g[c] \in Object
      /\ g[c].type = h[c].type /\ g[c].val = h[c].val /\ g[c].ref = h[c].ref /\ g[c].part = part
  BY <1>1, <1>2 DEF Object
<1>4. g[c] # NULL
  BY <1>3, KeyspaceAssumption
<1>5. \A x \in Addr : g[x] \in Object \cup {NULL}
  BY <1>1, <1>2, <1>3
<1>6. g \in [Addr -> Object \cup {NULL}]
  BY <1>2, <1>5
<1>7. \A x \in Addr :
        /\ g[x] = NULL <=> h[x] = NULL
        /\ h[x] # NULL =>
             /\ g[x].type = h[x].type
             /\ g[x].val = h[x].val
             /\ g[x].ref = h[x].ref
             /\ g[x].part = IF x = c THEN part ELSE h[x].part
  BY <1>2, <1>3, <1>4
<1> QED
  BY <1>6, <1>7 DEF HeapType, g

(* rr_client_reset gives up the request. *)
LEMMA DropRequest ==
  ASSUME NEW R, NEW h, NEW q \in Addr, Sound(R, h, q)
  PROVE  Sound(R, DecrRefCount(q, h), NULL)
<1> DEFINE g == Release({q}, h)
           S == HeldBy(Owners(R, h))
<1>1. /\ HeapType(h) /\ RootType(R, h) /\ Strings(h, q) /\ OneOwner(Owners(R, h)) /\ Counts(S, h, q)
      /\ h[q] # NULL /\ h[q].type = "string" /\ h[q].ref > 0 /\ NULL \notin Addr
  BY KeyspaceAssumption DEF Sound, Counts, Strings
<1>2. DecrRefCount(q, h) = g
  BY <1>1, DecrString
<1>3. /\ HeapType(g)
      /\ \A a \in Addr : g[a] # NULL => g[a].type = h[a].type
      /\ g[q] # NULL => g[q].ref = h[q].ref - 1
      /\ g[q] = NULL <=> h[q].ref = 1
      /\ \A a \in Addr \ {q} : g[a] = h[a]
      /\ FieldOwners(g) = FieldOwners(h)
  <2>1. \A a \in Addr \ {q} : g[a] = h[a]
    BY DEF Release
  <2>2. \A a \in {q} : h[a] # NULL /\ h[a].ref > 0 /\ h[a].type = "string"
    BY <1>1
  <2>3. FieldOwners(g) = FieldOwners(h)
    BY <1>1, <2>2, ReleasedFields
  <2>4. /\ HeapType(g)
        /\ \A a \in Addr : g[a] # NULL => g[a].type = h[a].type
        /\ \A a \in {q} : g[a] # NULL => g[a].ref = h[a].ref - 1
        /\ \A a \in {q} : g[a] = NULL <=> h[a].ref = 1
    BY <1>1, <2>2, ReleasedHeap
  <2> QED
    BY <2>1, <2>3, <2>4
<1> HIDE DEF g
<1>4. Owners(R, g) = Owners(R, h)
  BY <1>3 DEF Owners
<1>5. Counts(S, g, NULL)
  <2> HIDE DEF S
  <2>1. h[q].ref = (IF q \in S THEN 1 ELSE 0) + 1
    BY <1>1 DEF Counts
  <2> QED
    BY <1>1, <1>3, <2>1 DEF Counts
<1>6. Strings(h, NULL)
  BY <1>1 DEF Strings
<1> QED
  BY <1>1, <1>2, <1>3, <1>4, <1>5, <1>6, SoundFrom

(* The request becomes the value of a key. *)
LEMMA RetainRequest ==
  ASSUME NEW R, NEW h, NEW q \in Addr, Sound(R, h, q), q \notin HeldBy(Owners(R, h)), NEW k
  PROVE  Sound(R \cup {<<"key", k, k, q>>}, IncrRefCount(q, h), q)
<1> DEFINE g == IncrRefCount(q, h)
           s == <<"key", k, k, q>>
           H == Owners(R, h)
<1>1. /\ HeapType(h) /\ RootType(R, h) /\ Strings(h, q) /\ OneOwner(H) /\ Counts(HeldBy(H), h, q)
      /\ h[q] # NULL
  BY DEF Sound, Counts
<1>2. /\ HeapType(g) /\ FieldOwners(g) = FieldOwners(h)
      /\ \A a \in Addr : g[a] # NULL => g[a].type = h[a].type
  BY <1>1, IncrementedHeap
<1> HIDE DEF g
<1>3. Owners(R \cup {s}, g) = H \cup {s}
  BY <1>2 DEF Owners
<1>4. OneOwner({s}) /\ HeldBy({s}) = {q}
  BY DEF OneOwner, HeldBy
<1>5. RootType(R \cup {s}, h)
  BY <1>1 DEF RootType
<1> HIDE DEF s, H
<1>6. OneOwner(H \cup {s}) /\ HeldBy(H \cup {s}) = HeldBy(H) \cup {q}
  <2>1. HeldBy(H) \cap HeldBy({s}) = {}
    BY <1>4 DEF H
  <2> QED
    BY <1>1, <1>4, <2>1, OtherOwners
<1>7. Counts(HeldBy(H) \cup {q}, g, q)
  BY <1>1, IncrementedCounts DEF g, H
<1>8. Sound(R \cup {s}, g, q)
  BY <1>1, <1>2, <1>3, <1>5, <1>6, <1>7, SoundFrom
<1> QED
  BY <1>8 DEF g, s

(* The value of a key becomes that of a task. *)
LEMMA HandOver ==
  ASSUME NEW R, NEW h, NEW q, Sound(R, h, q), NEW p \in R, h[p[4]].type = "trie", NEW t
  PROVE  LET R2 == (R \ {p}) \cup {<<"task", t, t, p[4]>>}
         IN  Sound(R2, h, q) /\ HeldBy(Owners(R2, h)) = HeldBy(Owners(R, h))
<1> DEFINE s == <<"task", t, t, p[4]>>
           H == Owners(R, h)
<1>1. /\ HeapType(h) /\ RootType(R, h) /\ Strings(h, q) /\ OneOwner(H) /\ Counts(HeldBy(H), h, q)
      /\ p \notin FieldOwners(h) /\ p \in H /\ p[4] \in Addr
  BY SoundFacts DEF Sound
<1>2. Owners((R \ {p}) \cup {s}, h) = (H \ {p}) \cup {s}
  BY <1>1 DEF Owners
<1>3. OneOwner({s}) /\ HeldBy({s}) = {p[4]} /\ HeldBy({p}) = {p[4]}
  BY DEF OneOwner, HeldBy
<1>4. RootType((R \ {p}) \cup {s}, h)
  BY <1>1 DEF RootType
<1>5. p[4] \in HeldBy(H)
  BY <1>1 DEF HeldBy
<1> DEFINE H1 == H \ {p}
<1>6. OneOwner(H1) /\ HeldBy(H1) = HeldBy(H) \ {p[4]}
  <2> HIDE DEF H
  <2> QED
    BY <1>1, <1>3, FewerOwners
<1> HIDE DEF H1, H, s
<1>7. OneOwner(H1 \cup {s}) /\ HeldBy(H1 \cup {s}) = HeldBy(H)
  <2>1. HeldBy(H1) \cap HeldBy({s}) = {}
    BY <1>3, <1>6
  <2>2. OneOwner(H1 \cup {s}) /\ HeldBy(H1 \cup {s}) = HeldBy(H1) \cup HeldBy({s})
    BY <1>3, <1>6, <2>1, OtherOwners
  <2> QED
    BY <1>3, <1>5, <1>6, <2>2
<1> QED
  BY <1>1, <1>2, <1>4, <1>7 DEF Sound, H1, s, H

(* Objects at a free address: a new object owned by nobody yet. *)
LEMMA NewObject ==
  ASSUME NEW R, NEW h, NEW q, Sound(R, h, q), NEW a \in Addr, h[a] = NULL,
         NEW o \in Object, DOMAIN o.part = {}, o.type = "string" => o.val \in Values
  PROVE  /\ HeapType(WithObject(a, o, h)) /\ FieldOwners(WithObject(a, o, h)) = FieldOwners(h) /\ WithObject(a, o, h)[a] = o /\ WithObject(a, o, h)[a] # NULL
         /\ \A x \in Addr \ {a} : WithObject(a, o, h)[x] = h[x]
         /\ a \notin HeldBy(Owners(R, h)) /\ a # q
         /\ \A p \in Owners(R, h) : p[4] # a
         /\ RootType(R, WithObject(a, o, h))
         /\ \A p \in FieldOwners(WithObject(a, o, h)) : WithObject(a, o, h)[p[4]].type = "string"
<1> DEFINE g == WithObject(a, o, h)
<1>1. HeapType(h) /\ h \in [Addr -> Object \cup {NULL}]
  BY DEF Sound, HeapType
<1>2. g[a] = o /\ (\A x \in Addr \ {a} : g[x] = h[x]) /\ g = [x \in Addr |-> g[x]]
  BY <1>1 DEF WithObject
<1> HIDE DEF g
<1>3. g[a] # NULL
  BY <1>2, KeyspaceAssumption
<1>4. HeapType(g)
  <2>1. \A x \in Addr : g[x] \in Object \cup {NULL}
    BY <1>1, <1>2
  <2>2. g \in [Addr -> Object \cup {NULL}]
    BY <1>2, <2>1
  <2> QED
    BY <1>1, <1>2, <2>2 DEF HeapType
<1>5. FieldOwners(g) = FieldOwners(h)
  BY <1>2 DEF FieldOwners
<1>6. a \notin HeldBy(Owners(R, h)) /\ a # q
  BY DEF Sound, Counts
<1>7. \A p \in Owners(R, h) : p[4] # a
  BY <1>6 DEF HeldBy
<1>8. RootType(R, g)
  BY <1>2, <1>7, SoundFacts DEF Sound, RootType, Owners
<1>9. \A p \in FieldOwners(g) : g[p[4]].type = "string"
  <2>1. \A p \in FieldOwners(h) : p \in Owners(R, h) /\ p[4] \in Addr /\ h[p[4]].type = "string"
    BY SoundFacts
  <2> QED
    BY <1>2, <1>5, <1>7, <2>1
<1> QED
  BY <1>2, <1>3, <1>4, <1>5, <1>6, <1>7, <1>8, <1>9 DEF g

LEMMA NewRequest ==
  ASSUME NEW R, NEW h, NEW q, q \notin Addr, Sound(R, h, q), NEW a \in Addr, h[a] = NULL, NEW v \in Values
  PROVE  /\ Sound(R, WithObject(a, StringObject(v), h), a)
         /\ a \notin HeldBy(Owners(R, WithObject(a, StringObject(v), h)))
<1> DEFINE o == StringObject(v)
           g == WithObject(a, o, h)
<1>1. o \in Object /\ DOMAIN o.part = {} /\ o.val = v /\ o.type = "string" /\ o.ref = 1
  BY FreshObjects DEF StringObject
<1> HIDE DEF o
<1>2. /\ HeapType(g) /\ FieldOwners(g) = FieldOwners(h) /\ g[a] = o /\ g[a] # NULL
      /\ \A x \in Addr \ {a} : g[x] = h[x]
      /\ a \notin HeldBy(Owners(R, h)) /\ a # q
      /\ RootType(R, g)
      /\ \A p \in FieldOwners(g) : g[p[4]].type = "string"
  BY <1>1, NewObject
<1> HIDE DEF g
<1>3. Owners(R, g) = Owners(R, h)
  BY <1>2 DEF Owners
<1>4. Counts(HeldBy(Owners(R, h)), g, a)
  BY <1>1, <1>2 DEF Sound, Counts
<1>5. Strings(g, a)
  BY <1>1, <1>2 DEF Strings
<1> QED
  BY <1>2, <1>3, <1>4, <1>5 DEF Sound, g, o

LEMMA NewCollection ==
  ASSUME NEW R, NEW h, NEW q, Sound(R, h, q), NEW c \in Addr, h[c] = NULL, NEW t \in Collections, NEW k
  PROVE  /\ Sound(R \cup {<<"key", k, k, c>>}, WithObject(c, CollectionObject(t), h), q)
         /\ HeldBy(Owners(R \cup {<<"key", k, k, c>>}, WithObject(c, CollectionObject(t), h))) =
              HeldBy(Owners(R, h)) \cup {c}
         /\ c # q
<1> DEFINE o == CollectionObject(t)
           g == WithObject(c, o, h)
           s == <<"key", k, k, c>>
           H == Owners(R, h)
<1>1. o \in Object /\ DOMAIN o.part = {} /\ o.type = t /\ o.type # "string" /\ o.ref = 1
  BY FreshObjects DEF CollectionObject
<1> HIDE DEF o
<1>2. /\ HeapType(g) /\ FieldOwners(g) = FieldOwners(h) /\ g[c] = o /\ g[c] # NULL
      /\ \A x \in Addr \ {c} : g[x] = h[x]
      /\ c \notin HeldBy(H) /\ c # q
      /\ RootType(R, g)
      /\ \A p \in FieldOwners(g) : g[p[4]].type = "string"
  BY <1>1, NewObject
<1> HIDE DEF g
<1>3. Owners(R \cup {s}, g) = H \cup {s}
  BY <1>2 DEF Owners
<1>4. OneOwner({s}) /\ HeldBy({s}) = {c}
  BY DEF OneOwner, HeldBy
<1>5. RootType(R \cup {s}, g)
  BY <1>2 DEF RootType
<1> HIDE DEF s
<1>6. OneOwner(H \cup {s}) /\ HeldBy(H \cup {s}) = HeldBy(H) \cup {c}
  <2>1. HeldBy(H) \cap HeldBy({s}) = {} /\ OneOwner(H)
    BY <1>2, <1>4 DEF Sound
  <2> HIDE DEF H
  <2> QED
    BY <1>4, <2>1, OtherOwners
<1>7. Counts(HeldBy(H) \cup {c}, g, q)
  BY <1>1, <1>2 DEF Sound, Counts
<1>8. Strings(g, q)
  BY <1>1, <1>2 DEF Sound, Strings
<1>9. Sound(R \cup {s}, g, q) /\ HeldBy(Owners(R \cup {s}, g)) = HeldBy(H) \cup {c}
  BY <1>2, <1>3, <1>5, <1>6, <1>7, <1>8 DEF Sound
<1> QED
  BY <1>2, <1>9 DEF g, s, o

(* The owner that field f of collection c is. *)
FieldOwner(c, f, h) == {p \in FieldOwners(h) : p[2] = c /\ p[3] = f}

LEMMA FieldHolds ==
  ASSUME NEW h, HeapType(h), NEW c \in Addr, h[c] # NULL, NEW f \in Fields
  PROVE  HeldBy(FieldOwner(c, f, h)) = {x \in Addr : f \in DOMAIN h[c].part /\ x = h[c].part[f]}
<1>1. ASSUME NEW x \in Addr, f \in DOMAIN h[c].part, x = h[c].part[f]
      PROVE  x \in HeldBy(FieldOwner(c, f, h))
  <2>1. <<"field", c, f, x>> \in FieldOwner(c, f, h)
    BY <1>1 DEF FieldOwner, FieldOwners
  <2> QED
    BY <2>1 DEF HeldBy
<1>2. ASSUME NEW p \in FieldOwner(c, f, h)
      PROVE  p[4] \in Addr /\ f \in DOMAIN h[c].part /\ p[4] = h[c].part[f]
  BY DEF FieldOwner, FieldOwners
<1> QED
  BY <1>1, <1>2 DEF HeldBy

(* A part with the one field f at most. *)
LEMMA OneField ==
  ASSUME NEW part \in Parts, NEW f, DOMAIN part \subseteq {f}, NEW h
  PROVE  DecrStrings(part, h) = Release({x \in Addr : f \in DOMAIN part /\ x = part[f]}, h)
<1>1. DecrStrings(part, h) = Release(Range(part) \cap Addr, h)
  BY DecrStringsReleases
<1>2. Range(part) \cap Addr = {x \in Addr : f \in DOMAIN part /\ x = part[f]}
  BY DEF Range
<1> QED
  BY <1>1, <1>2

(* A field is removed and its value released. *)
LEMMA DropField ==
  ASSUME NEW R, NEW h, NEW q, Sound(R, h, q), NEW c \in Addr, h[c] # NULL, h[c].type # "string",
         NEW f \in DOMAIN h[c].part
  PROVE  LET g == DecrStrings(Single(f, h[c].part[f]), WithPart(c, Without(h[c].part, f), h))
         IN  Sound(R, g, q) /\ FieldOwners(g) \subseteq FieldOwners(h)
<1> DEFINE h1 == WithPart(c, Without(h[c].part, f), h)
           r == h[c].part[f]
           g == DecrStrings(Single(f, r), h1)
           D == {x \in Addr : x = r}
           H == Owners(R, h)
           P == FieldOwner(c, f, h)
<1>1. /\ HeapType(h) /\ RootType(R, h) /\ Strings(h, q) /\ OneOwner(H) /\ Counts(HeldBy(H), h, q)
  BY DEF Sound
<1>2. f \in Fields /\ r \in Ref /\ h[c].part \in Parts
  BY <1>1, ObjectAt
<1>3. /\ HeapType(h1)
      /\ \A x \in Addr :
           /\ h1[x] = NULL <=> h[x] = NULL
           /\ h[x] # NULL =>
                /\ h1[x].type = h[x].type
                /\ h1[x].ref = h[x].ref
                /\ h1[x].part = IF x = c THEN Without(h[c].part, f) ELSE h[x].part
  <2> DEFINE part == Without(h[c].part, f)
  <2>1. part \in Parts /\ h1 = WithPart(c, part, h)
    BY <1>2, PartsOps
  <2> HIDE DEF part
  <2>2. /\ HeapType(h1)
        /\ \A x \in Addr :
             /\ h1[x] = NULL <=> h[x] = NULL
             /\ h[x] # NULL =>
                  /\ h1[x].type = h[x].type
                  /\ h1[x].ref = h[x].ref
                  /\ h1[x].part = IF x = c THEN part ELSE h[x].part
    BY <1>1, <2>1, OtherPart
  <2> QED
    BY <2>2 DEF part
<1> HIDE DEF h1
<1>4. FieldOwners(h1) = FieldOwners(h) \ P
  <2>1. /\ h1[c] # NULL /\ DOMAIN h1[c].part = DOMAIN h[c].part \ {f}
        /\ \A e \in DOMAIN h[c].part \ {f} : h1[c].part[e] = h[c].part[e]
    <3>1. h1[c] # NULL /\ h1[c].part = Without(h[c].part, f)
      BY <1>3
    <3> QED
      BY <3>1 DEF Without, Restrict
  <2>2. \A x \in Addr \ {c} : (h1[x] = NULL <=> h[x] = NULL) /\ (h[x] # NULL => h1[x].part = h[x].part)
    BY <1>3
  <2> QED
    BY <2>1, <2>2 DEF FieldOwners, FieldOwner
<1>5. P \subseteq H /\ P \subseteq FieldOwners(h)
  BY DEF FieldOwner, Owners
<1>6. HeldBy(P) = D
  BY <1>1, <1>2, FieldHolds
<1>7. g = Release(D, h1)
  <2>1. Single(f, r) \in Parts /\ DOMAIN Single(f, r) = {f} /\ Single(f, r)[f] = r
    <3>1. DOMAIN Single(f, r) = {f} /\ Single(f, r) \in [{f} -> Ref] /\ Single(f, r)[f] = r
      BY <1>2 DEF Single
    <3> QED
      BY <1>2, <3>1, PartsType
  <2> DEFINE part == Single(f, r)
  <2> HIDE DEF part, r
  <2>2. DecrStrings(part, h1) = Release({x \in Addr : f \in DOMAIN part /\ x = part[f]}, h1)
    BY <2>1, OneField DEF part
  <2>3. {x \in Addr : f \in DOMAIN part /\ x = part[f]} = {x \in Addr : x = r}
    BY <2>1 DEF part
  <2> QED
    BY <2>2, <2>3 DEF part, r
<1> HIDE DEF g
<1>8. Strings(h1, q) /\ RootType(R, h1) /\ Counts(HeldBy(H), h1, q)
  <2>1. \A p \in H : p[4] \in Addr /\ h[p[4]] # NULL
    BY SoundFacts
  <2>2. RootType(R, h1)
    BY <1>1, <1>3, <2>1 DEF RootType, Owners
  <2>3. Strings(h1, q)
    BY <1>1, <1>3, <1>4, <2>1 DEF Strings, Owners, Counts
  <2>4. Counts(HeldBy(H), h1, q)
    <3> HIDE DEF H
    <3> QED
      BY <1>1, <1>3 DEF Counts
  <2> QED
    BY <2>2, <2>3, <2>4
<1>9. D \in SUBSET Addr /\ D \subseteq HeldBy(H)
  BY <1>5, <1>6 DEF HeldBy
<1>10. \A a \in D : h1[a] # NULL /\ h1[a].ref > 0 /\ h1[a].type = "string"
  <2>1. \A a \in D : h1[a] # NULL /\ h1[a].ref > 0
    <3> HIDE DEF D, H
    <3> QED
      BY <1>3, <1>8, <1>9, ReleasedCounts
  <2>2. \A a \in D : h[a] # NULL /\ h[a].type = "string"
    BY <1>5, <1>6, SoundFacts DEF HeldBy, Owners
  <2> HIDE DEF D
  <2> QED
    BY <1>3, <1>9, <2>1, <2>2
<1>11. Owners(R, g) = H \ P /\ FieldOwners(g) \subseteq FieldOwners(h)
  <2>1. FieldOwners(g) = FieldOwners(h1)
    <3> HIDE DEF D
    <3> QED
      BY <1>3, <1>7, <1>9, <1>10, ReleasedFields
  <2>2. \A p \in R : p \notin FieldOwners(h)
    BY SoundFacts
  <2> QED
    BY <1>4, <1>5, <2>1, <2>2 DEF Owners
<1>12. OneOwner(H \ P) /\ HeldBy(H \ P) = HeldBy(H) \ D
  <2> HIDE DEF H, P, D
  <2> QED
    BY <1>1, <1>5, <1>6, FewerOwners
<1>13. Sound(R, g, q)
  <2> HIDE DEF H, P, D
  <2> QED
    BY <1>3, <1>7, <1>8, <1>9, <1>11, <1>12, ReleasedSound
<1> QED
  BY <1>11, <1>13 DEF g, h1

(* A field is set to the request, or to a shared integer; the value it had  *)
(* is released.                                                             *)
LEMMA PutIn ==
  ASSUME NEW R, NEW h, NEW q, Sound(R, h, q), NEW c \in Addr, h[c] # NULL, h[c].type # "string",
         NEW f \in Fields, NEW r,
         r \in SmallInts \/ (r = q /\ q \in Addr /\ q \notin HeldBy(Owners(R, h)))
  PROVE  /\ Sound(R, IncrRefCount(r, Stored(c, f, r, h)), q)
         /\ \A p \in FieldOwners(IncrRefCount(r, Stored(c, f, r, h))) : p[4] = r => p[2] = c
<1> DEFINE part == Assign(h[c].part, f, r)
           h1 == WithPart(c, part, h)
           D == {x \in Addr : f \in DOMAIN h[c].part /\ x = h[c].part[f]}
           g == Release(D, h1)
           H == Owners(R, h)
           P == FieldOwner(c, f, h)
           N == {p \in {<<"field", c, f, r>>} : r \in Addr}
<1>1. /\ HeapType(h) /\ RootType(R, h) /\ Strings(h, q) /\ OneOwner(H) /\ Counts(HeldBy(H), h, q)
  BY DEF Sound
<1>2. h[c].part \in Parts /\ DOMAIN h[c].part \subseteq Fields /\ r \in Ref
  BY <1>1, ObjectAt DEF Ref
<1>3. part \in Parts
  BY <1>2, PartsOps
<1>4. /\ DOMAIN part = DOMAIN h[c].part \cup {f} /\ part[f] = r
      /\ \A e \in DOMAIN h[c].part \ {f} : part[e] = h[c].part[e]
  BY DEF Assign
<1> HIDE DEF part
<1>5. /\ HeapType(h1)
      /\ \A x \in Addr :
           /\ h1[x] = NULL <=> h[x] = NULL
           /\ h[x] # NULL =>
                /\ h1[x].type = h[x].type
                /\ h1[x].ref = h[x].ref
                /\ h1[x].part = IF x = c THEN part ELSE h[x].part
  BY <1>1, <1>3, OtherPart
<1>6. Stored(c, f, r, h) = g
  <2> DEFINE old == Restrict(h[c].part, {f} \cap DOMAIN h[c].part)
  <2>1. /\ DOMAIN old = {f} \cap DOMAIN h[c].part
        /\ f \in DOMAIN old => old[f] = h[c].part[f]
        /\ old = [e \in DOMAIN old |-> h[c].part[e]]
    BY DEF Restrict
  <2>2. Stored(c, f, r, h) = DecrStrings(old, h1)
    BY DEF Stored, h1, WithPart, part
  <2> HIDE DEF old, h1
  <2>3. old \in Parts
    <3>1. \A e \in DOMAIN old : h[c].part[e] \in Ref
      BY <1>1, <2>1, ObjectAt
    <3>2. old \in [DOMAIN old -> Ref]
      BY <2>1, <3>1
    <3>3. DOMAIN old \subseteq Fields
      BY <2>1
    <3> QED
      BY <3>2, <3>3, PartsType
  <2>4. DecrStrings(old, h1) = Release({x \in Addr : f \in DOMAIN old /\ x = old[f]}, h1)
    BY <2>1, <2>3, OneField
  <2>5. {x \in Addr : f \in DOMAIN old /\ x = old[f]} = D
    BY <2>1
  <2> QED
    BY <2>2, <2>4, <2>5
<1> HIDE DEF h1
<1>7. HeldBy(P) = D /\ P \subseteq H /\ P \subseteq FieldOwners(h)
  BY <1>1, FieldHolds DEF FieldOwner, Owners
<1>8. FieldOwners(h1) = (FieldOwners(h) \ P) \cup N
  <2>1. h1[c] # NULL /\ h1[c].part = part
    BY <1>5
  <2>2. \A x \in Addr \ {c} : (h1[x] = NULL <=> h[x] = NULL) /\ (h[x] # NULL => h1[x].part = h[x].part)
    BY <1>5
  <2>3. ASSUME NEW p \in FieldOwners(h1)
        PROVE  p \in (FieldOwners(h) \ P) \cup N
    <3>1. /\ p = <<"field", p[2], p[3], p[4]>> /\ p[2] \in Addr /\ p[3] \in Fields /\ p[4] \in Addr
          /\ h1[p[2]] # NULL /\ p[3] \in DOMAIN h1[p[2]].part /\ h1[p[2]].part[p[3]] = p[4]
      BY DEF FieldOwners
    <3>2. CASE p[2] = c /\ p[3] = f
      BY <1>4, <2>1, <3>1, <3>2
    <3>3. CASE p[2] = c /\ p[3] # f
      <4>1. p[3] \in DOMAIN h[c].part /\ h[c].part[p[3]] = p[4]
        BY <1>4, <2>1, <3>1, <3>3
      <4> QED
        BY <3>1, <3>3, <4>1 DEF FieldOwners, FieldOwner
    <3>4. CASE p[2] # c
      BY <2>2, <3>1, <3>4 DEF FieldOwners, FieldOwner
    <3> QED
      BY <3>2, <3>3, <3>4
  <2>4. ASSUME NEW p \in FieldOwners(h) \ P
        PROVE  p \in FieldOwners(h1)
    <3>1. /\ p[2] \in Addr /\ p[3] \in Fields /\ p[4] \in Addr
          /\ p \in {"field"} \X Addr \X Fields \X Addr
          /\ h[p[2]] # NULL /\ p[3] \in DOMAIN h[p[2]].part /\ h[p[2]].part[p[3]] = p[4]
          /\ ~(p[2] = c /\ p[3] = f)
      BY DEF FieldOwners, FieldOwner
    <3>2. CASE p[2] = c
      BY <1>4, <2>1, <3>1, <3>2 DEF FieldOwners
    <3>3. CASE p[2] # c
      BY <2>2, <3>1, <3>3 DEF FieldOwners
    <3> QED
      BY <3>2, <3>3
  <2>5. ASSUME NEW p \in N
        PROVE  p \in FieldOwners(h1)
    BY <1>4, <2>1 DEF FieldOwners
  <2> QED
    BY <2>3, <2>4, <2>5
<1>9. \A a \in D : h[a] # NULL /\ h[a].type = "string"
  BY <1>7, SoundFacts DEF HeldBy, Owners
<1>10. D \in SUBSET Addr /\ D \subseteq HeldBy(H)
  BY <1>7 DEF HeldBy
<1> HIDE DEF D
<1>11. Counts(HeldBy(H), h1, q)
  <2> HIDE DEF H
  <2> QED
    BY <1>1, <1>5 DEF Counts
<1>12. \A a \in D : h1[a] # NULL /\ h1[a].ref > 0 /\ h1[a].type = "string"
  <2>1. \A a \in D : h1[a] # NULL /\ h1[a].ref > 0
    BY <1>5, <1>10, <1>11, ReleasedCounts
  <2> QED
    BY <1>5, <1>9, <1>10, <2>1
<1>13. FieldOwners(g) = (FieldOwners(h) \ P) \cup N /\ Owners(R, g) = (H \ P) \cup N
  <2>1. FieldOwners(g) = FieldOwners(h1)
    BY <1>5, <1>10, <1>12, ReleasedFields
  <2>2. \A p \in R : p \notin FieldOwners(h)
    BY SoundFacts
  <2> HIDE DEF g, N
  <2> QED
    BY <1>7, <1>8, <2>1, <2>2 DEF Owners
<1>14. Strings(h1, q) /\ RootType(R, h1)
  <2>1. \A p \in H : p[4] \in Addr /\ h[p[4]] # NULL
    BY SoundFacts
  <2>2. RootType(R, h1)
    BY <1>1, <1>5, <2>1 DEF RootType, Owners
  <2>3. q \in Addr => h[q] # NULL /\ h[q].type = "string" /\ h1[q].type = "string"
    BY <1>1, <1>5 DEF Counts, Strings
  <2>4. \A p \in FieldOwners(h) : h1[p[4]].type = "string"
    BY <1>1, <1>5, <2>1 DEF Strings, Owners
  <2>5. \A p \in N : h1[p[4]].type = "string"
    BY <2>3, KeyspaceAssumption
  <2> QED
    BY <1>8, <2>2, <2>3, <2>4, <2>5 DEF Strings
<1>15. Counts(HeldBy(H) \ D, g, q)
  BY <1>5, <1>10, <1>11, ReleasedCounts
<1>16. OneOwner(H \ P) /\ HeldBy(H \ P) = HeldBy(H) \ D
  <2> HIDE DEF H, P
  <2> QED
    BY <1>1, <1>7, FewerOwners
<1>17. CASE r \in SmallInts
  <2>1. IncrRefCount(r, g) = g
    BY <1>17 DEF IncrRefCount
  <2>2. N = {}
    BY <1>17, KeyspaceAssumption
  <2> HIDE DEF g, H, P, N
  <2>3. Owners(R, g) = H \ P
    BY <1>13, <2>2
  <2>4. Sound(R, g, q)
    BY <1>5, <1>10, <1>11, <1>14, <1>16, <2>3, ReleasedSound DEF g
  <2>5. \A p \in FieldOwners(g) : p[4] # r
    BY <1>17, KeyspaceAssumption DEF FieldOwners
  <2> QED
    BY <1>6, <2>1, <2>4, <2>5
<1>18. CASE r = q /\ q \in Addr /\ q \notin HeldBy(H)
  <2> DEFINE g2 == IncrRefCount(q, g)
  <2>1. OneOwner(N) /\ HeldBy(N) = {q}
    <3> DEFINE s == <<"field", c, f, q>>
    <3>1. N = {s} /\ s[4] = q
      BY <1>18
    <3> HIDE DEF N, s
    <3> QED
      BY <3>1 DEF OneOwner, HeldBy
  <2> HIDE DEF H, P, N
  <2>2. OneOwner((H \ P) \cup N) /\ HeldBy((H \ P) \cup N) = (HeldBy(H) \ D) \cup {q}
    <3> DEFINE H1 == H \ P
    <3>1. HeldBy(H1) \cap HeldBy(N) = {} /\ OneOwner(H1)
      BY <1>16, <1>18, <2>1
    <3> HIDE DEF H1
    <3>2. OneOwner(H1 \cup N) /\ HeldBy(H1 \cup N) = HeldBy(H1) \cup HeldBy(N)
      BY <2>1, <3>1, OtherOwners
    <3> QED
      BY <1>16, <2>1, <3>2 DEF H1
  <2>3. HeapType(g) /\ \A a \in Addr : g[a] # NULL => g[a].type = h1[a].type
    BY <1>5, <1>10, <1>12, ReleasedHeap
  <2> HIDE DEF g
  <2>4. Counts((HeldBy(H) \ D) \cup {q}, g2, q) /\ g[q] # NULL
    <3> DEFINE S == HeldBy(H) \ D
    <3>1. q \notin S /\ Counts(S, g, q)
      BY <1>15, <1>18
    <3> HIDE DEF S
    <3>2. Counts(S \cup {q}, g2, q)
      BY <1>18, <2>3, <3>1, IncrementedCounts
    <3> QED
      BY <1>18, <3>1, <3>2 DEF Counts, S
  <2>5. /\ HeapType(g2) /\ FieldOwners(g2) = FieldOwners(g)
        /\ \A a \in Addr : g2[a] # NULL => g2[a].type = g[a].type /\ g[a] # NULL
    BY <1>18, <2>3, <2>4, IncrementedHeap
  <2> HIDE DEF g2
  <2>6. Owners(R, g2) = (H \ P) \cup N /\ FieldOwners(g2) \subseteq FieldOwners(h1)
    <3>1. Owners(R, g2) = Owners(R, g)
      BY <2>5 DEF Owners
    <3> QED
      BY <1>8, <1>13, <2>5, <3>1
  <2>7. Sound(R, g2, q)
    <3>1. \A a \in Addr : g2[a] # NULL => g2[a].type = h1[a].type
      BY <2>3, <2>5
    <3> QED
      BY <1>14, <2>2, <2>4, <2>5, <2>6, <3>1, SoundFrom
  <2>8. \A p \in FieldOwners(g2) : p[4] = q => p[2] = c
    <3>1. \A p \in FieldOwners(h) : p[4] # q
      BY <1>18 DEF HeldBy, H, Owners
    <3>2. \A p \in N : p[2] = c
      BY DEF N
    <3> QED
      BY <1>13, <2>5, <3>1, <3>2
  <2> QED
    BY <1>6, <1>18, <2>7, <2>8 DEF g2
<1> QED
  BY <1>17, <1>18

-----------------------------------------------------------------------------
(* The owners outside the heap, as keys and tasks come and go. *)

LEMMA KeyRemoved ==
  ASSUME NEW d, NEW k \in DOMAIN d
  PROVE  KeyOwners(Without(d, k)) = KeyOwners(d) \ {<<"key", k, k, d[k]>>}
<1>1. DOMAIN Without(d, k) = DOMAIN d \ {k} /\ \A x \in DOMAIN d \ {k} : Without(d, k)[x] = d[x]
  BY DEF Without, Restrict
<1> DEFINE e == Without(d, k)
<1> HIDE DEF e
<1>2. DOMAIN e = DOMAIN d \ {k} /\ \A x \in DOMAIN d \ {k} : e[x] = d[x]
  BY <1>1 DEF e
<1>3. ASSUME NEW p \in KeyOwners(e)
      PROVE  p \in KeyOwners(d) \ {<<"key", k, k, d[k]>>}
  <2>1. PICK x \in DOMAIN e : e[x] \in Addr /\ p = <<"key", x, x, e[x]>>
    BY DEF KeyOwners
  <2> QED
    BY <1>2, <2>1 DEF KeyOwners
<1>4. ASSUME NEW p \in KeyOwners(d), p # <<"key", k, k, d[k]>>
      PROVE  p \in KeyOwners(e)
  <2>1. PICK x \in DOMAIN d : d[x] \in Addr /\ p = <<"key", x, x, d[x]>>
    BY DEF KeyOwners
  <2>2. x # k
    BY <1>4, <2>1
  <2> QED
    BY <1>2, <2>1, <2>2 DEF KeyOwners
<1> QED
  BY <1>3, <1>4 DEF e

LEMMA KeyAbsent ==
  ASSUME NEW d, NEW k, k \notin DOMAIN d
  PROVE  KeyOwners(Without(d, k)) = KeyOwners(d)
<1> DEFINE e == Without(d, k)
<1>1. DOMAIN e = DOMAIN d /\ \A x \in DOMAIN d : e[x] = d[x]
  BY DEF Without, Restrict
<1> HIDE DEF e
<1>2. KeyOwners(e) = KeyOwners(d)
  BY <1>1 DEF KeyOwners
<1> QED
  BY <1>2 DEF e

LEMMA KeyAssigned ==
  ASSUME NEW d, NEW k, NEW r
  PROVE  /\ r \in Addr => KeyOwners(Assign(d, k, r)) = KeyOwners(Without(d, k)) \cup {<<"key", k, k, r>>}
         /\ r \notin Addr => KeyOwners(Assign(d, k, r)) = KeyOwners(Without(d, k))
<1> DEFINE e == Assign(d, k, r)
           w == Without(d, k)
<1>1. /\ DOMAIN e = DOMAIN d \cup {k} /\ e[k] = r
      /\ DOMAIN w = DOMAIN d \ {k}
      /\ \A x \in DOMAIN d \ {k} : e[x] = d[x] /\ w[x] = d[x]
  BY DEF Assign, Without, Restrict
<1> HIDE DEF e, w
<1>2. ASSUME NEW p \in KeyOwners(w)
      PROVE  p \in KeyOwners(e)
  <2>1. PICK x \in DOMAIN w : w[x] \in Addr /\ p = <<"key", x, x, w[x]>>
    BY DEF KeyOwners
  <2> QED
    BY <1>1, <2>1 DEF KeyOwners
<1>3. ASSUME NEW p \in KeyOwners(e)
      PROVE  p \in KeyOwners(w) \/ (r \in Addr /\ p = <<"key", k, k, r>>)
  <2>1. PICK x \in DOMAIN e : e[x] \in Addr /\ p = <<"key", x, x, e[x]>>
    BY DEF KeyOwners
  <2>2. CASE x = k
    BY <1>1, <2>1, <2>2
  <2>3. CASE x # k
    BY <1>1, <2>1, <2>3 DEF KeyOwners
  <2> QED
    BY <2>2, <2>3
<1>4. r \in Addr => <<"key", k, k, r>> \in KeyOwners(e)
  BY <1>1 DEF KeyOwners
<1>5. /\ r \in Addr => KeyOwners(e) = KeyOwners(w) \cup {<<"key", k, k, r>>}
      /\ r \notin Addr => KeyOwners(e) = KeyOwners(w)
  BY <1>2, <1>3, <1>4
<1> QED
  BY <1>5 DEF e, w

LEMMA TaskAdded ==
  ASSUME NEW given, NEW T, T \subseteq DOMAIN given, NEW t, t \notin DOMAIN given, NEW r
  PROVE  TaskOwners(Assign(given, t, r), T \cup {t}) = TaskOwners(given, T) \cup {<<"task", t, t, r>>}
<1> DEFINE e == Assign(given, t, r)
<1>1. e[t] = r /\ \A x \in T : e[x] = given[x]
  BY DEF Assign
<1> HIDE DEF e
<1>2. TaskOwners(e, T \cup {t}) = TaskOwners(given, T) \cup {<<"task", t, t, r>>}
  BY <1>1 DEF TaskOwners
<1> QED
  BY <1>2 DEF e

LEMMA TaskRemoved ==
  ASSUME NEW given, NEW T, NEW t \in T
  PROVE  TaskOwners(given, T \ {t}) = TaskOwners(given, T) \ {<<"task", t, t, given[t]>>}
<1>1. ASSUME NEW p \in TaskOwners(given, T \ {t})
      PROVE  p \in TaskOwners(given, T) \ {<<"task", t, t, given[t]>>}
  BY DEF TaskOwners
<1>2. ASSUME NEW p \in TaskOwners(given, T), p # <<"task", t, t, given[t]>>
      PROVE  p \in TaskOwners(given, T \ {t})
  BY <1>2 DEF TaskOwners
<1> QED
  BY <1>1, <1>2

LEMMA Kinds ==
  ASSUME NEW d, NEW given, NEW T, NEW A
  PROVE  /\ \A p \in KeyOwners(d) : p[1] = "key"
         /\ \A p \in TaskOwners(given, T) : p[1] = "task"
         /\ \A p \in OrphanOwners(A) : p[1] = "orphan"
BY DEF KeyOwners, TaskOwners, OrphanOwners

LEMMA OrphansAdded ==
  ASSUME NEW A, NEW B
  PROVE  OrphanOwners(A \cup B) = OrphanOwners(A) \cup OrphanOwners(B)
BY DEF OrphanOwners

(* A request that is not at an address is none. *)
LEMMA NoRequest ==
  ASSUME NEW R, NEW h, NEW q, NEW r, q \notin Addr, r \notin Addr, Sound(R, h, q)
  PROVE  Sound(R, h, r)
BY DEF Sound, Strings, Counts

-----------------------------------------------------------------------------
(* The commands. *)

LEMMA RangeElems ==
  ASSUME NEW s
  PROVE  Range(s) = Elems(s)
BY DEF Range, Elems

(* A collection has no owner but a key or a task, so its count is 1. *)
LEMMA CollectionAlone ==
  ASSUME NEW R, NEW h, NEW q, Sound(R, h, q), NEW a \in HeldBy(Owners(R, h)), a \in Addr,
         h[a] # NULL, h[a].type # "string"
  PROVE  h[a].ref = 1 /\ a # q
BY DEF Sound, Counts, Strings

LEMMA KeyRoot ==
  ASSUME IInv, NEW k \in DOMAIN dict, dict[k] \in Addr
  PROVE  /\ <<"key", k, k, dict[k]>> \in Roots
         /\ <<"key", k, k, dict[k]>> \in Owners(Roots, obj)
         /\ dict[k] \in HeldBy(Owners(Roots, obj))
         /\ obj[dict[k]] # NULL
<1> DEFINE p == <<"key", k, k, dict[k]>>
<1>1. p \in Roots /\ p[4] = dict[k]
  BY DEF Roots, RootsOf, KeyOwners
<1> HIDE DEF p
<1>2. Sound(Roots, obj, argv)
  BY DEF IInv
<1>3. p \in Owners(Roots, obj) /\ p[4] \in HeldBy(Owners(Roots, obj)) /\ obj[p[4]] # NULL
  BY <1>1, <1>2, SoundFacts
<1> QED
  BY <1>1, <1>3 DEF p

(* The value of a key is freed at once. *)
LEMMA UnlinkNow ==
  ASSUME IInv, NEW k \in DOMAIN dict
  PROVE  LET R2 == RootsOf(Without(dict, k), arg, Range(todo), orphans \cup Orphaned(dict[k]))
             g == DecrRefCount(dict[k], obj)
         IN  /\ Sound(R2, g, argv)
             /\ HeldBy(Owners(R2, g)) \subseteq HeldBy(Owners(Roots, obj))
             /\ Orphaned(dict[k]) \subseteq Addr
<1> DEFINE R2 == RootsOf(Without(dict, k), arg, Range(todo), orphans \cup Orphaned(dict[k]))
           g == DecrRefCount(dict[k], obj)
           p == <<"key", k, k, dict[k]>>
<1>1. Sound(Roots, obj, argv) /\ StateType
  BY DEF IInv
<1>2. CASE dict[k] \in SmallInts
  <2>1. g = obj /\ Orphaned(dict[k]) = {}
    BY <1>2, KeyspaceAssumption DEF DecrRefCount, Orphaned
  <2>2. p \notin KeyOwners(dict)
    <3>1. \A w \in KeyOwners(dict) : w[4] \in Addr
      BY DEF KeyOwners
    <3> QED
      BY <1>2, <3>1, KeyspaceAssumption
  <2>3. KeyOwners(Without(dict, k)) = KeyOwners(dict)
    <3>1. KeyOwners(Without(dict, k)) = KeyOwners(dict) \ {p}
      BY KeyRemoved
    <3> HIDE DEF p
    <3> QED
      BY <2>2, <3>1
  <2>4. R2 = Roots
    BY <2>1, <2>3 DEF Roots, RootsOf
  <2> QED
    BY <1>1, <2>1, <2>4
<1>3. CASE dict[k] \in Addr
  <2>1. p \in Roots /\ p[4] = dict[k] /\ dict[k] \in HeldBy(Owners(Roots, obj)) /\ obj[dict[k]] # NULL
    BY <1>3, KeyRoot
  <2>2. Orphaned(dict[k]) = LeftBehind(dict[k], obj)
    <3>1. CASE obj[dict[k]].type = "heapq"
      <4>1. obj[dict[k]].ref = 1
        BY <1>1, <1>3, <2>1, <3>1, CollectionAlone
      <4>2. \A f \in DOMAIN obj[dict[k]].part : obj[dict[k]].part[f] \in Ref
        BY <1>1, <1>3, <2>1, ObjectAt DEF Sound
      <4>3. Range(obj[dict[k]].part) \ SmallInts = Range(obj[dict[k]].part) \cap Addr
        BY <4>2, KeyspaceAssumption DEF Range, Ref
      <4> QED
        BY <1>3, <3>1, <4>1, <4>3 DEF Orphaned, LeftBehind
    <3>2. CASE obj[dict[k]].type # "heapq"
      BY <3>2 DEF Orphaned, LeftBehind
    <3> QED
      BY <3>1, <3>2
  <2>3. Orphaned(dict[k]) \subseteq Addr
    BY <2>2 DEF LeftBehind
  <2>4. R2 = (Roots \ {p}) \cup OrphanOwners(LeftBehind(dict[k], obj))
    <3>1. KeyOwners(Without(dict, k)) = KeyOwners(dict) \ {p}
      BY KeyRemoved
    <3>2. p \notin TaskOwners(arg, Range(todo)) /\ p \notin OrphanOwners(orphans)
      <4>1. p[1] = "key"
        OBVIOUS
      <4> HIDE DEF p
      <4> QED
        BY <4>1, Kinds
    <3> HIDE DEF p
    <3> QED
      BY <2>2, <3>1, <3>2, OrphansAdded DEF Roots, RootsOf
  <2> HIDE DEF p, R2
  <2>5. LET Q == (Roots \ {p}) \cup OrphanOwners(LeftBehind(p[4], obj))
            h == DecrRefCount(p[4], obj)
        IN  Sound(Q, h, argv) /\ HeldBy(Owners(Q, h)) \subseteq HeldBy(Owners(Roots, obj))
    BY <1>1, <2>1, DropRoot
  <2> QED
    BY <2>1, <2>3, <2>4, <2>5 DEF R2
<1> QED
  BY <1>1, <1>2, <1>3 DEF StateType, Ref

(* The value of a key is handed to the background thread. *)
LEMMA UnlinkLazily ==
  ASSUME IInv, NEW k \in DOMAIN dict, GoesLazily(k), AddTask(k)
  PROVE  LET R2 == RootsOf(Without(dict, k), arg', Range(todo'), orphans)
         IN  /\ Sound(R2, obj, argv)
             /\ HeldBy(Owners(R2, obj)) = HeldBy(Owners(Roots, obj))
             /\ Orphaned(dict[k]) = {}
             /\ todo' \in Seq(Tasks) /\ Distinct(todo') /\ Range(todo') \subseteq DOMAIN arg'
<1> DEFINE R2 == RootsOf(Without(dict, k), arg', Range(todo'), orphans)
           p == <<"key", k, k, dict[k]>>
<1>1. Sound(Roots, obj, argv) /\ StateType
  BY DEF IInv
<1>2. TypeOf(dict[k]) = "trie"
  BY KeyspaceAssumption DEF GoesLazily, FreeEffort
<1>3. dict[k] \in Addr /\ obj[dict[k]].type = "trie"
  BY <1>1, <1>2 DEF TypeOf, StateType, Ref
<1>4. PICK t \in Tasks \ DOMAIN arg : arg' = Assign(arg, t, dict[k]) /\ todo' = Append(todo, t)
  BY DEF AddTask, TQ!Submit
<1>5. /\ todo' \in Seq(Tasks) /\ Distinct(todo') /\ Range(todo') = Range(todo) \cup {t}
      /\ Range(todo') \subseteq DOMAIN arg'
  <2>1. t \notin Elems(todo)
    BY <1>1, RangeElems DEF StateType
  <2>2. /\ AddNodeTail(todo, t) \in Seq(Tasks) /\ Distinct(AddNodeTail(todo, t))
        /\ Elems(AddNodeTail(todo, t)) = Elems(todo) \cup {t}
    BY <1>1, <2>1, TailEndElems DEF StateType
  <2>3. todo' \in Seq(Tasks) /\ Distinct(todo') /\ Range(todo') = Range(todo) \cup {t}
    BY <1>4, <2>2, RangeElems DEF AddNodeTail
  <2>4. DOMAIN arg' = DOMAIN arg \cup {t}
    BY <1>4 DEF Assign
  <2> QED
    BY <1>1, <2>3, <2>4 DEF StateType
<1>6. p \in Roots /\ p[4] = dict[k]
  BY <1>3, KeyRoot
<1>7. R2 = (Roots \ {p}) \cup {<<"task", t, t, dict[k]>>}
  <2>1. KeyOwners(Without(dict, k)) = KeyOwners(dict) \ {p}
    BY KeyRemoved
  <2>2. p \notin TaskOwners(arg, Range(todo)) /\ p \notin OrphanOwners(orphans)
    <3>1. p[1] = "key"
      OBVIOUS
    <3> HIDE DEF p
    <3> QED
      BY <3>1, Kinds
  <2>3. TaskOwners(arg', Range(todo')) = TaskOwners(arg, Range(todo)) \cup {<<"task", t, t, dict[k]>>}
    <3>1. Range(todo) \subseteq DOMAIN arg
      BY <1>1 DEF StateType
    <3> QED
      BY <1>4, <1>5, <3>1, TaskAdded
  <2> DEFINE s == <<"task", t, t, dict[k]>>
  <2> HIDE DEF p, s
  <2> QED
    BY <2>1, <2>2, <2>3 DEF Roots, RootsOf, s
<1>8. Orphaned(dict[k]) = {}
  BY <1>3 DEF Orphaned
<1> HIDE DEF p, R2
<1>9. LET Q == (Roots \ {p}) \cup {<<"task", t, t, p[4]>>}
      IN  Sound(Q, obj, argv) /\ HeldBy(Owners(Q, obj)) = HeldBy(Owners(Roots, obj))
  BY <1>1, <1>3, <1>6, HandOver
<1> QED
  BY <1>5, <1>6, <1>7, <1>8, <1>9 DEF R2

(* The argument of a command that has not run yet. *)
LEMMA Argument ==
  ASSUME IInv, argv # NULL, reply = NULL
  PROVE  /\ argv \in Addr /\ obj[argv] # NULL /\ obj[argv].type = "string" /\ obj[argv].val \in Values
         /\ argv \notin HeldBy(Owners(Roots, obj))
<1>1. argv \in Addr /\ argv \notin HeldBy(Owners(Roots, obj))
  BY DEF IInv, StateType, RequestApart, Ref
<1>2. obj[argv] # NULL /\ obj[argv].type = "string"
  BY <1>1 DEF IInv, Sound, Counts, Strings
<1>3. obj[argv].val \in Values
  BY <1>1, <1>2 DEF IInv, Sound, HeapType
<1> QED
  BY <1>1, <1>2, <1>3

LEMMA Encoded ==
  ASSUME IInv, argv # NULL, reply = NULL, NEW t
  PROVE  /\ Shares(t) => EncodedArg(t) \in SmallInts /\ EncodedArg(t) \notin Addr /\ EncodedArg(t) # NULL
         /\ ~Shares(t) => EncodedArg(t) = argv
         /\ EncodedArg(t) \in Ref
<1>1. argv \in Addr
  BY Argument
<1> QED
  BY <1>1, KeyspaceAssumption DEF Shares, EncodedArg, Ref

LEMMA OkIsReply == <<"ok">> # NULL
BY KeyspaceAssumption

LEMMA ReadRequestStep ==
  ASSUME IInv, NEW v \in Values, ReadRequest(v)
  PROVE  IInv'
<1>1. Sound(Roots, obj, argv) /\ StateType /\ argv = NULL /\ reply = NULL /\ argv \notin Addr
  BY KeyspaceAssumption DEF IInv, ReadRequest, Runs
<1>2. PICK a \in Addr : obj[a] = NULL /\ argv' = a /\ obj' = WithObject(a, StringObject(v), obj)
  BY DEF ReadRequest, FreeAddr, WithObject
<1>3. UNCHANGED <<dict, arg, todo, orphans, reply>>
  BY DEF ReadRequest, queue
<1>4. Roots' = Roots
  BY <1>3 DEF Roots
<1>5. Sound(Roots, obj', a) /\ a \notin HeldBy(Owners(Roots, obj'))
  BY <1>1, <1>2, NewRequest
<1>6. StateType'
  BY <1>1, <1>2, <1>3 DEF StateType, Ref
<1>7. \A p \in FieldOwners(obj') : p[4] # a
  BY <1>5 DEF HeldBy, Owners
<1>8. RequestApart'
  BY <1>2, <1>4, <1>5, <1>7, KeyspaceAssumption DEF RequestApart
<1> QED
  BY <1>2, <1>4, <1>5, <1>6, <1>8 DEF IInv

LEMMA ResetClientStep ==
  ASSUME IInv, ResetClient
  PROVE  IInv'
<1>1. Sound(Roots, obj, argv) /\ StateType /\ NULL \notin Addr /\ NULL \notin SmallInts
  BY KeyspaceAssumption DEF IInv
<1>2. /\ obj' = (IF argv = NULL THEN obj ELSE DecrRefCount(argv, obj)) /\ argv' = NULL
      /\ UNCHANGED <<dict, arg, todo, orphans>>
  BY DEF ResetClient, queue
<1>3. Roots' = Roots
  BY <1>2 DEF Roots
<1>4. Sound(Roots, obj', NULL)
  <2>1. CASE argv = NULL
    BY <1>1, <1>2, <2>1
  <2>2. CASE argv \in SmallInts
    <3>1. obj' = obj /\ argv \notin Addr
      BY <1>1, <1>2, <2>2, KeyspaceAssumption DEF DecrRefCount
    <3> QED
      BY <1>1, <3>1, NoRequest
  <2>3. CASE argv \in Addr
    BY <1>1, <1>2, <2>3, DropRequest
  <2> QED
    BY <1>1, <2>1, <2>2, <2>3 DEF StateType, Ref
<1>5. \A p \in Owners(Roots, obj') : p[4] \in Addr
  BY <1>4, SoundFacts
<1>6. NULL \notin HeldBy(Owners(Roots, obj')) /\ \A p \in FieldOwners(obj') : p[4] # NULL
  BY <1>1, <1>5 DEF HeldBy, Owners
<1>7. RequestApart'
  BY <1>1, <1>2, <1>3, <1>6 DEF RequestApart
<1>8. StateType'
  BY <1>1, <1>2 DEF StateType
<1> QED
  BY <1>2, <1>3, <1>4, <1>7, <1>8 DEF IInv

LEMMA SetStep ==
  ASSUME IInv, NEW k \in Keys, RrCmdSet(k)
  PROVE  IInv'
<1> DEFINE heap == IF k \in DOMAIN dict THEN Replaced(k) ELSE obj
           R1 == RootsOf(Without(dict, k), arg', Range(todo'), orphans')
           r == EncodedArg("string")
<1>1. Sound(Roots, obj, argv) /\ StateType /\ argv # NULL /\ reply = NULL
  BY DEF IInv, RrCmdSet, RunsWithValue
<1>2. argv \in Addr /\ argv \notin HeldBy(Owners(Roots, obj))
  BY <1>1, Argument
<1>3. /\ orphans' = orphans \cup (IF k \in DOMAIN dict THEN Orphaned(dict[k]) ELSE {})
      /\ obj' = IncrRefCount(r, EncodedHeap("string", heap))
      /\ dict' = Assign(dict, k, r) /\ argv' = r /\ reply' = <<"ok">>
      /\ IF k \in DOMAIN dict /\ GoesLazily(k) THEN AddTask(k) ELSE UNCHANGED queue
  BY DEF RrCmdSet
<1>4. /\ Sound(R1, heap, argv) /\ argv \notin HeldBy(Owners(R1, heap))
      /\ todo' \in Seq(Tasks) /\ Distinct(todo') /\ Range(todo') \subseteq DOMAIN arg' /\ orphans' \subseteq Addr
  <2>1. CASE k \notin DOMAIN dict
    <3>1. heap = obj /\ orphans' = orphans /\ UNCHANGED <<arg, todo>>
      BY <1>3, <2>1 DEF queue
    <3>2. R1 = Roots
      BY <2>1, <3>1, KeyAbsent DEF Roots, RootsOf
    <3> HIDE DEF R1, heap
    <3> QED
      BY <1>1, <1>2, <3>1, <3>2 DEF StateType
  <2>2. CASE k \in DOMAIN dict /\ ~GoesLazily(k)
    <3>1. /\ heap = DecrRefCount(dict[k], obj) /\ orphans' = orphans \cup Orphaned(dict[k])
          /\ UNCHANGED <<arg, todo>>
      BY <1>3, <2>2 DEF queue, Replaced
    <3>2. R1 = RootsOf(Without(dict, k), arg, Range(todo), orphans \cup Orphaned(dict[k]))
      BY <3>1
    <3> HIDE DEF R1, heap
    <3>3. /\ Sound(R1, heap, argv) /\ HeldBy(Owners(R1, heap)) \subseteq HeldBy(Owners(Roots, obj))
          /\ Orphaned(dict[k]) \subseteq Addr
      BY <2>2, <3>1, <3>2, UnlinkNow
    <3> QED
      BY <1>1, <1>2, <3>1, <3>3 DEF StateType
  <2>3. CASE k \in DOMAIN dict /\ GoesLazily(k)
    <3>1. heap = obj /\ orphans' = orphans \cup Orphaned(dict[k]) /\ AddTask(k)
      BY <1>3, <2>3 DEF Replaced
    <3> DEFINE R2 == RootsOf(Without(dict, k), arg', Range(todo'), orphans)
    <3>2. /\ Sound(R2, obj, argv) /\ HeldBy(Owners(R2, obj)) = HeldBy(Owners(Roots, obj))
          /\ Orphaned(dict[k]) = {}
          /\ todo' \in Seq(Tasks) /\ Distinct(todo') /\ Range(todo') \subseteq DOMAIN arg'
      BY <2>3, <3>1, UnlinkLazily
    <3>3. orphans' = orphans /\ R1 = R2
      BY <3>1, <3>2
    <3> HIDE DEF R1, R2, heap
    <3> QED
      BY <1>1, <1>2, <3>1, <3>2, <3>3 DEF StateType
  <2> QED
    BY <2>1, <2>2, <2>3
<1>5. /\ Shares("string") => r \in SmallInts /\ r \notin Addr
      /\ ~Shares("string") => r = argv
      /\ r \in Ref
  BY <1>1, Encoded
<1>6. StateType'
  <2>1. DOMAIN dict' = DOMAIN dict \cup {k} /\ \A x \in DOMAIN dict' : dict'[x] = r \/ (x \in DOMAIN dict /\ dict'[x] = dict[x])
    BY <1>3 DEF Assign
  <2> HIDE DEF r
  <2> QED
    BY <1>1, <1>3, <1>4, <1>5, <2>1 DEF StateType
<1>7. Roots' = RootsOf(dict', arg', Range(todo'), orphans')
  BY DEF Roots
<1> HIDE DEF r, R1, heap
<1>8. CASE Shares("string")
  <2>1. obj' = DecrRefCount(argv, heap)
    BY <1>3, <1>5, <1>8 DEF EncodedHeap, IncrRefCount
  <2>2. Sound(R1, obj', NULL)
    BY <1>2, <1>4, <2>1, DropRequest
  <2>3. Sound(R1, obj', argv')
    BY <1>3, <1>5, <1>8, <2>2, NoRequest, KeyspaceAssumption
  <2>4. Roots' = R1
    BY <1>3, <1>5, <1>7, <1>8, KeyAssigned DEF R1, RootsOf
  <2>5. \A p \in FieldOwners(obj') : p[4] # argv'
    BY <1>3, <1>5, <1>8, <2>3, SoundFacts
  <2>6. RequestApart'
    BY <1>3, <2>5, OkIsReply DEF RequestApart
  <2> QED
    BY <1>6, <2>3, <2>4, <2>6 DEF IInv
<1>9. CASE ~Shares("string")
  <2> DEFINE s == <<"key", k, k, argv>>
  <2>1. obj' = IncrRefCount(argv, heap) /\ argv' = argv
    BY <1>3, <1>5, <1>9 DEF EncodedHeap
  <2>2. Sound(R1 \cup {s}, obj', argv)
    BY <1>2, <1>4, <2>1, RetainRequest
  <2>3. Roots' = R1 \cup {s}
    <3>1. KeyOwners(dict') = KeyOwners(Without(dict, k)) \cup {s}
      BY <1>2, <1>3, <1>5, <1>9, KeyAssigned
    <3> HIDE DEF s
    <3> QED
      BY <1>7, <3>1 DEF R1, RootsOf
  <2>4. ASSUME NEW p \in FieldOwners(obj'), p[4] = argv'
        PROVE  FALSE
    <3>1. s \in R1 \cup {s} /\ s[4] = argv /\ s[1] = "key"
      OBVIOUS
    <3> DEFINE R3 == R1 \cup {s}
    <3>2. Sound(R3, obj', argv) /\ s \in R3
      BY <2>2
    <3> HIDE DEF R3, s
    <3>3. p \in Owners(R3, obj') /\ s \in Owners(R3, obj') /\ p[1] = "field"
      BY <3>2, SoundFacts
    <3>4. p = s
      BY <2>1, <2>4, <3>1, <3>2, <3>3 DEF Sound, OneOwner
    <3> QED
      BY <3>1, <3>3, <3>4
  <2>5. RequestApart'
    <3>1. reply' # NULL
      BY <1>3, OkIsReply
    <3> QED
      BY <2>4, <3>1 DEF RequestApart
  <2> QED
    BY <1>6, <2>1, <2>2, <2>3, <2>5 DEF IInv
<1> QED
  BY <1>8, <1>9

LEMMA DelStep ==
  ASSUME IInv, NEW k \in Keys, RrCmdDel(k)
  PROVE  IInv'
<1>1. Sound(Roots, obj, argv) /\ StateType /\ argv = NULL /\ argv' = argv /\ NULL \notin Addr /\ NULL \notin SmallInts
  BY KeyspaceAssumption DEF IInv, RrCmdDel, Runs
<1>2. Sound(Roots', obj', argv') /\ StateType'
  <2>1. CASE k \notin DOMAIN dict
    <3>1. UNCHANGED <<dict, obj, orphans, arg, todo>>
      BY <2>1 DEF RrCmdDel, store, queue
    <3>2. Roots' = Roots
      BY <3>1 DEF Roots
    <3> QED
      BY <1>1, <3>1, <3>2 DEF StateType
  <2>2. CASE k \in DOMAIN dict
    <3>1. RrDbDel(k) /\ dict' = Without(dict, k)
      BY <2>2 DEF RrCmdDel, RrDbDel, Unlinked
    <3>2. DOMAIN dict' = DOMAIN dict \ {k} /\ \A x \in DOMAIN dict' : dict'[x] = dict[x]
      BY <3>1 DEF Without, Restrict
    <3>3. Roots' = RootsOf(Without(dict, k), arg', Range(todo'), orphans')
      BY <3>1 DEF Roots
    <3>4. CASE GoesLazily(k)
      <4>1. AddTask(k) /\ UNCHANGED <<obj, orphans>>
        BY <3>1, <3>4 DEF RrDbDel
      <4>2. /\ Sound(Roots', obj', argv')
            /\ todo' \in Seq(Tasks) /\ Distinct(todo') /\ Range(todo') \subseteq DOMAIN arg'
        BY <1>1, <2>2, <3>3, <3>4, <4>1, UnlinkLazily
      <4> QED
        BY <1>1, <3>2, <4>1, <4>2 DEF StateType
    <3>5. CASE ~GoesLazily(k)
      <4>1. obj' = DecrRefCount(dict[k], obj) /\ orphans' = orphans \cup Orphaned(dict[k]) /\ UNCHANGED <<arg, todo>>
        BY <3>1, <3>5 DEF RrDbDel, queue
      <4>2. Sound(Roots', obj', argv') /\ Orphaned(dict[k]) \subseteq Addr
        BY <1>1, <2>2, <3>3, <4>1, UnlinkNow
      <4> QED
        BY <1>1, <3>2, <4>1, <4>2 DEF StateType
    <3> QED
      BY <3>4, <3>5
  <2> QED
    BY <2>1, <2>2
<1>3. \A p \in Owners(Roots', obj') : p[4] # argv'
  BY <1>1, <1>2, SoundFacts
<1>4. RequestApart'
  <2>1. argv' \notin HeldBy(Owners(Roots', obj')) /\ \A p \in FieldOwners(obj') : p[4] # argv'
    BY <1>3 DEF HeldBy, Owners
  <2> QED
    BY <1>1, <2>1 DEF RequestApart
<1> QED
  BY <1>2, <1>4 DEF IInv

(* A field of a collection that a key or a task holds is removed. *)
LEMMA RemoveStep ==
  ASSUME IInv, NEW c \in Addr, obj[c] # NULL, obj[c].type # "string", NEW f \in DOMAIN obj[c].part,
         obj' = DecrStrings(Single(f, obj[c].part[f]), [obj EXCEPT ![c].part = Without(@, f)]),
         UNCHANGED <<dict, arg, todo, orphans, argv>>,
         reply # NULL => reply' # NULL
  PROVE  IInv'
<1>1. Sound(Roots, obj, argv) /\ StateType /\ RequestApart
  BY DEF IInv
<1>2. obj' = DecrStrings(Single(f, obj[c].part[f]), WithPart(c, Without(obj[c].part, f), obj))
  BY DEF WithPart
<1>3. Roots' = Roots
  BY DEF Roots
<1>4. /\ Sound(Roots, obj', argv)
      /\ FieldOwners(obj') \subseteq FieldOwners(obj)
  BY <1>1, <1>2, DropField
<1>5. HeldBy(Owners(Roots, obj')) \subseteq HeldBy(Owners(Roots, obj))
  BY <1>4 DEF HeldBy, Owners
<1>6. RequestApart'
  BY <1>1, <1>3, <1>4, <1>5 DEF RequestApart
<1>7. StateType'
  BY <1>1 DEF StateType
<1> QED
  BY <1>3, <1>4, <1>6, <1>7 DEF IInv

LEMMA PutFieldStep ==
  ASSUME IInv, NEW k \in Keys, NEW t \in Collections, NEW f \in Fields, PutField(k, t, f)
  PROVE  IInv'
<1>1. /\ Sound(Roots, obj, argv) /\ StateType /\ argv # NULL /\ reply = NULL /\ RequestApart
      /\ UNCHANGED <<arg, todo, orphans>> /\ t # "string"
  BY KeyspaceAssumption DEF IInv, PutField, RunsWithValue, queue
<1>2. argv \in Addr /\ argv \notin HeldBy(Owners(Roots, obj)) /\ obj[argv].type = "string"
  BY <1>1, Argument
<1>3. CASE k \in DOMAIN dict /\ TypeOf(dict[k]) # t
  <2>1. UNCHANGED <<argv, dict, obj>>
    BY <1>3 DEF PutField
  <2>2. Roots' = Roots
    BY <1>1, <2>1 DEF Roots
  <2>3. RequestApart'
    BY <1>1, <1>2, <2>1, <2>2 DEF RequestApart
  <2> QED
    BY <1>1, <2>1, <2>2, <2>3 DEF IInv, StateType
<1>4. CASE ~(k \in DOMAIN dict /\ TypeOf(dict[k]) # t)
  <2> DEFINE r == EncodedArg(t)
             heapOf(c) == IF k \in DOMAIN dict THEN obj ELSE WithObject(c, CollectionObject(t), obj)
  <2>1. PICK c \in IF k \in DOMAIN dict THEN {dict[k]} ELSE FreeAddr :
          /\ obj' = IncrRefCount(r, Stored(c, f, r, EncodedHeap(t, heapOf(c))))
          /\ dict' = Assign(dict, k, c) /\ argv' = r /\ reply' = <<"ok">>
    BY <1>4 DEF PutField, WithObject
  <2> DEFINE heap == heapOf(c)
             s == <<"key", k, k, c>>
  <2>2. /\ c \in Addr /\ Sound(Roots', heap, argv) /\ argv \notin HeldBy(Owners(Roots', heap))
        /\ heap[c] # NULL /\ heap[c].type # "string" /\ c # argv /\ s \in Roots'
    <3>1. Roots' = RootsOf(Assign(dict, k, c), arg, Range(todo), orphans)
      BY <1>1, <2>1 DEF Roots
    <3>2. CASE k \in DOMAIN dict
      <4>1. c = dict[k] /\ TypeOf(c) = t /\ heap = obj
        BY <1>4, <2>1, <3>2
      <4>2. c \in Addr /\ obj[c].type = t
        BY <1>1, <3>2, <4>1 DEF TypeOf, StateType, Ref
      <4>3. s \in Roots /\ c \in HeldBy(Owners(Roots, obj)) /\ obj[c] # NULL /\ s \in KeyOwners(dict)
        <5>1. s \in KeyOwners(dict)
          BY <3>2, <4>1, <4>2 DEF KeyOwners
        <5> QED
          BY <3>2, <4>1, <4>2, <5>1, KeyRoot
      <4>4. Roots' = Roots
        <5>1. KeyOwners(Without(dict, k)) = KeyOwners(dict) \ {s}
          BY <3>2, <4>1, KeyRemoved
        <5>2. KeyOwners(Assign(dict, k, c)) = KeyOwners(Without(dict, k)) \cup {s}
          BY <4>2, KeyAssigned
        <5> HIDE DEF s
        <5> QED
          BY <3>1, <4>3, <5>1, <5>2 DEF Roots, RootsOf
      <4> HIDE DEF s
      <4> QED
        BY <1>1, <1>2, <4>1, <4>2, <4>3, <4>4
    <3>3. CASE k \notin DOMAIN dict
      <4>1. c \in Addr /\ obj[c] = NULL /\ heap = WithObject(c, CollectionObject(t), obj)
        BY <2>1, <3>3 DEF FreeAddr
      <4>2. Roots' = Roots \cup {s}
        <5>1. KeyOwners(Assign(dict, k, c)) = KeyOwners(Without(dict, k)) \cup {s}
          BY <4>1, KeyAssigned
        <5>2. KeyOwners(Without(dict, k)) = KeyOwners(dict)
          BY <3>3, KeyAbsent
        <5> HIDE DEF s
        <5> QED
          BY <3>1, <5>1, <5>2 DEF Roots, RootsOf
      <4>3. heap[c] = CollectionObject(t) /\ heap[c] # NULL
        <5>1. obj \in [Addr -> Object \cup {NULL}]
          BY <1>1 DEF Sound, HeapType
        <5> QED
          BY <4>1, <5>1, FreshObjects DEF WithObject
      <4> HIDE DEF heapOf
      <4>4. /\ Sound(Roots', heap, argv) /\ c # argv
            /\ HeldBy(Owners(Roots', heap)) = HeldBy(Owners(Roots, obj)) \cup {c}
        <5> DEFINE g == WithObject(c, CollectionObject(t), obj)
                   R2 == Roots \cup {s}
        <5>1. Sound(R2, g, argv) /\ c # argv /\ HeldBy(Owners(R2, g)) = HeldBy(Owners(Roots, obj)) \cup {c}
          <6>1. Sound(Roots, obj, argv)
            BY <1>1
          <6>2. c \in Addr /\ obj[c] = NULL
            BY <4>1
          <6>3. /\ Sound(Roots \cup {<<"key", k, k, c>>}, WithObject(c, CollectionObject(t), obj), argv)
                /\ HeldBy(Owners(Roots \cup {<<"key", k, k, c>>}, WithObject(c, CollectionObject(t), obj))) =
                     HeldBy(Owners(Roots, obj)) \cup {c}
                /\ c # argv
            BY <6>1, <6>2, NewCollection
          <6> QED
            BY <6>3
        <5>2. heap = g /\ Roots' = R2
          BY <4>1, <4>2
        <5> HIDE DEF g, R2, heap
        <5> QED
          BY <5>1, <5>2
      <4>5. s \in Roots'
        BY <4>2
      <4>6. heap[c].type = t
        BY <4>3 DEF CollectionObject
      <4> HIDE DEF s
      <4> QED
        BY <1>1, <1>2, <4>1, <4>3, <4>4, <4>5, <4>6
    <3> QED
      BY <3>2, <3>3
  <2> HIDE DEF heapOf
  <2>3. /\ Shares(t) => r \in SmallInts /\ r \notin Addr
        /\ ~Shares(t) => r = argv
        /\ r \in Ref
    BY <1>1, Encoded
  <2> HIDE DEF r
  <2>4. Sound(Roots', obj', argv') /\ \A p \in FieldOwners(obj') : p[4] = argv' => p[2] = c
    <3>1. CASE Shares(t)
      <4> DEFINE g == DecrRefCount(argv, heap)
      <4>1. EncodedHeap(t, heap) = g
        BY <3>1 DEF EncodedHeap
      <4>2. Sound(Roots', g, NULL)
        BY <1>2, <2>2, DropRequest
      <4>3. g[c] = heap[c]
        <5>1. HeapType(heap) /\ heap[argv] # NULL /\ heap[argv].type = "string"
          BY <1>2, <2>2 DEF Sound, Counts, Strings
        <5>2. g = Release({argv}, heap)
          BY <1>2, <5>1, DecrString
        <5> QED
          BY <2>2, <5>2 DEF Release
      <4> HIDE DEF g, heap
      <4>4. /\ Sound(Roots', obj', NULL)
            /\ \A p \in FieldOwners(obj') : p[4] = r => p[2] = c
        BY <2>1, <2>2, <2>3, <3>1, <4>1, <4>2, <4>3, PutIn DEF heap
      <4>5. Sound(Roots', obj', r)
        BY <2>3, <3>1, <4>4, NoRequest, KeyspaceAssumption
      <4> QED
        BY <2>1, <4>4, <4>5
    <3>2. CASE ~Shares(t)
      <4>1. EncodedHeap(t, heap) = heap /\ r = argv
        BY <2>3, <3>2 DEF EncodedHeap
      <4> HIDE DEF heap
      <4>2. /\ Sound(Roots', obj', argv)
            /\ \A p \in FieldOwners(obj') : p[4] = argv => p[2] = c
        BY <1>2, <2>1, <2>2, <4>1, PutIn DEF heap
      <4> QED
        BY <2>1, <4>1, <4>2
    <3> QED
      BY <3>1, <3>2
  <2>5. ASSUME NEW p \in FieldOwners(obj'), NEW u \in Range(todo'), p[4] = argv', p[2] = arg'[u]
        PROVE  FALSE
    <3> DEFINE w == <<"task", u, u, c>>
    <3>1. arg'[u] = c
      BY <2>4, <2>5
    <3>2. w \in Roots' /\ w[4] = c /\ w[1] = "task" /\ s[4] = c /\ s[1] = "key"
      BY <3>1 DEF Roots, RootsOf, TaskOwners
    <3> HIDE DEF w, s
    <3>3. w = s
      BY <2>2, <2>4, <3>2 DEF Sound, OneOwner, Owners
    <3> QED
      BY <3>2, <3>3
  <2>6. RequestApart'
    BY <2>1, <2>5, OkIsReply DEF RequestApart
  <2>7. StateType'
    <3>1. /\ DOMAIN dict' = DOMAIN dict \cup {k}
          /\ \A x \in DOMAIN dict' : dict'[x] = c \/ (x \in DOMAIN dict /\ dict'[x] = dict[x])
      BY <2>1 DEF Assign
    <3>2. c \in Ref /\ argv' \in Ref
      BY <2>1, <2>2, <2>3 DEF Ref
    <3> QED
      BY <1>1, <3>1, <3>2 DEF StateType
  <2> QED
    BY <2>4, <2>6, <2>7 DEF IInv
<1> QED
  BY <1>3, <1>4

LEMMA RemoveFieldStep ==
  ASSUME IInv, NEW k \in Keys, NEW t \in Collections, NEW f \in Fields, RemoveField(k, t, f)
  PROVE  IInv'
<1>1. /\ Sound(Roots, obj, argv) /\ StateType /\ RequestApart /\ argv = NULL /\ reply = NULL
      /\ UNCHANGED <<arg, todo, orphans, argv, dict>> /\ t # "string"
  BY KeyspaceAssumption DEF IInv, RemoveField, Runs, queue
<1>2. CASE obj' = obj
  <2>1. Roots' = Roots
    BY <1>1 DEF Roots
  <2>2. RequestApart'
    BY <1>1, <1>2, <2>1 DEF RequestApart
  <2> QED
    BY <1>1, <1>2, <2>1, <2>2 DEF IInv, StateType
<1>3. CASE obj' # obj
  <2> DEFINE c == dict[k]
  <2>1. /\ k \in DOMAIN dict /\ TypeOf(c) = t /\ f \in DOMAIN obj[c].part
        /\ obj' = DecrStrings(Single(f, obj[c].part[f]), [obj EXCEPT ![c].part = Without(@, f)])
    BY <1>3 DEF RemoveField
  <2>2. c \in Addr /\ obj[c].type # "string"
    BY <1>1, <2>1 DEF TypeOf, StateType, Ref
  <2>3. obj[c] # NULL
    BY <2>1, <2>2, KeyRoot
  <2> HIDE DEF c
  <2> QED
    BY <1>1, <2>1, <2>2, <2>3, RemoveStep
<1> QED
  BY <1>2, <1>3

(* The value of a pending task. *)
LEMMA TaskRoot ==
  ASSUME IInv, NEW t \in Range(todo)
  PROVE  /\ <<"task", t, t, arg[t]>> \in Roots
         /\ <<"task", t, t, arg[t]>> \in Owners(Roots, obj)
         /\ arg[t] \in HeldBy(Owners(Roots, obj)) /\ arg[t] \in Addr
         /\ obj[arg[t]] # NULL /\ obj[arg[t]].type = "trie" /\ obj[arg[t]].ref = 1
         /\ arg[t] # argv
<1> DEFINE p == <<"task", t, t, arg[t]>>
<1>1. p \in Roots /\ p[4] = arg[t] /\ p[1] = "task"
  BY DEF Roots, RootsOf, TaskOwners
<1> HIDE DEF p
<1>2. Sound(Roots, obj, argv)
  BY DEF IInv
<1>3. /\ p \in Owners(Roots, obj) /\ p[4] \in HeldBy(Owners(Roots, obj))
      /\ p[4] \in Addr /\ obj[p[4]] # NULL
  BY <1>1, <1>2, SoundFacts
<1>4. obj[p[4]].type = "trie"
  BY <1>1, <1>2 DEF Sound, RootType
<1>5. obj[p[4]].ref = 1 /\ p[4] # argv
  BY <1>2, <1>3, <1>4, CollectionAlone
<1> QED
  BY <1>1, <1>3, <1>4, <1>5 DEF p

LEMMA HeadPending ==
  ASSUME IInv, todo # << >>
  PROVE  /\ Head(todo) \in Range(todo)
         /\ Tail(todo) \in Seq(Tasks) /\ Distinct(Tail(todo))
         /\ Range(Tail(todo)) = Range(todo) \ {Head(todo)}
BY TailElems, RangeElems DEF IInv, StateType

LEMMA FreeElementStep ==
  ASSUME IInv, FreeElement
  PROVE  IInv'
<1>1. Head(todo) \in Range(todo)
  BY HeadPending DEF FreeElement
<1>2. Victim \in Addr /\ obj[Victim] # NULL /\ obj[Victim].type # "string"
  BY <1>1, TaskRoot DEF Victim
<1>3. PICK f \in DOMAIN obj[Victim].part :
        obj' = DecrStrings(Single(f, obj[Victim].part[f]), [obj EXCEPT ![Victim].part = Without(@, f)])
  BY DEF FreeElement
<1>4. UNCHANGED <<dict, arg, todo, orphans, argv, reply>>
  BY DEF FreeElement, queue
<1> QED
  BY <1>2, <1>3, <1>4, RemoveStep

LEMMA FreeShellStep ==
  ASSUME IInv, FreeShell
  PROVE  IInv'
<1> DEFINE t == Head(todo)
           p == <<"task", t, t, Victim>>
<1>1. Sound(Roots, obj, argv) /\ StateType /\ RequestApart
  BY DEF IInv
<1>2. /\ todo # << >> /\ obj' = DecrRefCount(Victim, obj) /\ todo' = Tail(todo)
      /\ UNCHANGED <<dict, arg, orphans, argv, reply>>
  BY DEF FreeShell, TQ!Execute
<1>3. /\ t \in Range(todo) /\ todo' \in Seq(Tasks) /\ Distinct(todo')
      /\ Range(todo') = Range(todo) \ {t}
  BY <1>2, HeadPending
<1>4. /\ p \in Roots /\ p[4] = Victim /\ p[1] = "task" /\ obj[Victim].type = "trie"
      /\ Victim \in Addr
  BY <1>3, TaskRoot DEF Victim
<1>5. Roots' = (Roots \ {p}) \cup OrphanOwners(LeftBehind(Victim, obj))
  <2>1. OrphanOwners(LeftBehind(Victim, obj)) = {}
    BY <1>4 DEF LeftBehind, OrphanOwners
  <2>2. TaskOwners(arg, Range(todo) \ {t}) = TaskOwners(arg, Range(todo)) \ {p}
    BY <1>3, TaskRemoved DEF Victim
  <2>3. p \notin KeyOwners(dict) /\ p \notin OrphanOwners(orphans)
    <3> HIDE DEF p
    <3> QED
      BY <1>4, Kinds
  <2> HIDE DEF p
  <2> QED
    BY <1>2, <1>3, <2>1, <2>2, <2>3 DEF Roots, RootsOf
<1> HIDE DEF p
<1>6. /\ Sound(Roots', obj', argv)
      /\ HeldBy(Owners(Roots', obj')) \subseteq HeldBy(Owners(Roots, obj))
  BY <1>1, <1>2, <1>4, <1>5, DropRoot
<1>7. FieldOwners(obj') \subseteq FieldOwners(obj)
  <2>1. Victim \in HeldBy(Owners(Roots, obj)) /\ obj[Victim] # NULL /\ obj[Victim].ref = 1
    BY <1>3, TaskRoot DEF Victim
  <2>2. HeapType(obj) /\ OneOwner(FieldOwners(obj)) /\ Counts(HeldBy(Owners(Roots, obj)), obj, argv)
    BY <1>1, SoundFacts DEF Sound
  <2> DEFINE D == {Victim} \cup (Range(Owned(obj[Victim])) \cap Addr)
  <2>3. obj' = Release(D, obj)
    BY <1>2, <1>4, <2>1, <2>2, DecrCollection, CollectionsDiffer
  <2>4. D \in SUBSET Addr /\ D \subseteq HeldBy(Owners(Roots, obj))
    <3>1. Range(Owned(obj[Victim])) \cap Addr = HeldBy(FieldsOfOwner(Victim, obj))
      BY <1>4, <2>1, <2>2, CollectionOwns DEF Owned
    <3>2. HeldBy(FieldsOfOwner(Victim, obj)) \subseteq HeldBy(Owners(Roots, obj))
      BY DEF HeldBy, FieldsOfOwner, Owners
    <3> QED
      BY <1>4, <2>1, <3>1, <3>2
  <2> HIDE DEF D
  <2>5. \A a \in D : obj[a] # NULL /\ obj[a].ref > 0
    BY <2>2, <2>4, ReleasedCounts
  <2> QED
    BY <2>2, <2>3, <2>4, <2>5, ReleasedFields
<1>8. RequestApart'
  BY <1>1, <1>2, <1>3, <1>6, <1>7 DEF RequestApart
<1>9. StateType'
  BY <1>1, <1>2, <1>3 DEF StateType
<1> QED
  BY <1>2, <1>6, <1>8, <1>9 DEF IInv

LEMMA InitIInv == Init => IInv
<1> SUFFICES ASSUME Init
             PROVE  IInv
  OBVIOUS
<1> USE DEF Init, TQ!QueueInit
<1>1. DOMAIN dict = {} /\ Range(todo) = {} /\ DOMAIN arg = {}
  BY DEF Range
<1>2. Roots = {}
  BY <1>1 DEF Roots, RootsOf, KeyOwners, TaskOwners, OrphanOwners
<1>3. \A a \in Addr : obj[a] = NULL
  OBVIOUS
<1>4. FieldOwners(obj) = {} /\ Owners(Roots, obj) = {} /\ HeldBy(Owners(Roots, obj)) = {}
  BY <1>2, <1>3 DEF FieldOwners, Owners, HeldBy
<1>5. Sound(Roots, obj, argv)
  <2>1. HeapType(obj)
    BY DEF HeapType
  <2>2. RootType(Roots, obj) /\ OneOwner(Owners(Roots, obj)) /\ Strings(obj, argv)
    BY <1>2, <1>4, KeyspaceAssumption DEF RootType, OneOwner, Strings
  <2>3. Counts(HeldBy(Owners(Roots, obj)), obj, argv)
    BY <1>3, <1>4, KeyspaceAssumption DEF Counts
  <2> QED
    BY <2>1, <2>2, <2>3 DEF Sound
<1>6. StateType
  BY <1>1 DEF StateType, Distinct
<1>7. RequestApart
  BY <1>4, KeyspaceAssumption DEF RequestApart
<1> QED
  BY <1>5, <1>6, <1>7 DEF IInv

(* A step that leaves the request and all that is stored alone. *)
LEMMA IdleStep ==
  ASSUME IInv, UNCHANGED <<dict, obj, orphans, arg, todo, argv>>,
         reply' = NULL => reply = NULL \/ argv = NULL
  PROVE  IInv'
<1>1. Roots' = Roots
  BY DEF Roots
<1>2. Sound(Roots, obj, argv) /\ StateType /\ RequestApart
  BY DEF IInv
<1>3. argv = NULL => argv \notin SmallInts /\ argv \notin HeldBy(Owners(Roots, obj))
  BY <1>2, SoundFacts, KeyspaceAssumption DEF HeldBy
<1>4. RequestApart'
  BY <1>1, <1>2, <1>3 DEF RequestApart
<1> QED
  BY <1>1, <1>2, <1>4 DEF IInv, StateType

LEMMA NextIInv ==
  ASSUME IInv, [Next]_vars
  PROVE  IInv'
<1>1. CASE \E v \in Values : ReadRequest(v)
  BY <1>1, ReadRequestStep
<1>2. CASE ResetClient
  BY <1>2, ResetClientStep
<1>3. CASE \E k \in Keys : RrCmdSet(k)
  BY <1>3, SetStep
<1>4. CASE \E k \in Keys : RrCmdDel(k)
  BY <1>4, DelStep
<1>5. CASE Looks
  <2>1. UNCHANGED <<dict, obj, orphans, arg, todo, argv>> /\ argv = NULL
    BY <1>5 DEF Looks, Runs, store, queue
  <2> QED
    BY <2>1, IdleStep
<1>6. CASE \E k \in Keys, t \in Collections, f \in Fields : PutField(k, t, f)
  BY <1>6, PutFieldStep
<1>7. CASE \E k \in Keys, t \in Collections, f \in Fields : RemoveField(k, t, f)
  BY <1>7, RemoveFieldStep
<1>8. CASE FreeElement
  BY <1>8, FreeElementStep
<1>9. CASE FreeShell
  BY <1>9, FreeShellStep
<1>10. CASE UNCHANGED vars
  <2>1. UNCHANGED <<dict, obj, orphans, arg, todo, argv, reply>>
    BY <1>10 DEF vars, store, queue
  <2> QED
    BY <2>1, IdleStep
<1> QED
  BY <1>1, <1>2, <1>3, <1>4, <1>5, <1>6, <1>7, <1>8, <1>9, <1>10
  DEF Next, RrCmdGet, RrCmdExists, RrCmdType, RrCmdLen, GetField

-----------------------------------------------------------------------------
(* The number of elements of a set with one element at most. *)
LEMMA AtMostOne ==
  ASSUME NEW S, \A x, y \in S : x = y
  PROVE  Cardinality(S) = IF S = {} THEN 0 ELSE 1
<1>1. CASE S = {}
  BY <1>1, FS_EmptySet
<1>2. CASE S # {}
  <2>1. PICK x : S = {x}
    BY <1>2
  <2> QED
    BY <1>2, <2>1, FS_Singleton
<1> QED
  BY <1>1, <1>2

LEMMA ExactCounts == IInv => RefCountsExact
<1> SUFFICES ASSUME IInv, NEW a \in Addr
             PROVE  IF obj[a] = NULL THEN Holders(a) = 0 /\ a \notin orphans
                    ELSE obj[a].ref = Holders(a) + (IF a \in orphans THEN 1 ELSE 0)
  BY DEF RefCountsExact
<1> DEFINE H == Owners(Roots, obj)
           K == {k \in DOMAIN dict : dict[k] = a}
           T == {t \in Range(todo) : arg[t] = a}
           F == {p \in Addr \X Fields :
                   obj[p[1]] # NULL /\ p[2] \in DOMAIN obj[p[1]].part /\ obj[p[1]].part[p[2]] = a}
<1>1. Sound(Roots, obj, argv) /\ StateType /\ OneOwner(H)
  BY DEF IInv, Sound
<1>2. \A p1, p2 \in H : p1[4] = a /\ p2[4] = a => p1 = p2
  BY <1>1 DEF OneOwner
<1>3. \A k \in K : <<"key", k, k, a>> \in H
  BY DEF Owners, Roots, RootsOf, KeyOwners
<1>4. \A t \in T : <<"task", t, t, a>> \in H
  BY DEF Owners, Roots, RootsOf, TaskOwners
<1>5. a \in orphans => <<"orphan", a, a, a>> \in H
  BY DEF Owners, Roots, RootsOf, OrphanOwners
<1>6. \A p \in F : <<"field", p[1], p[2], a>> \in H
  BY DEF Owners, FieldOwners
<1>7. ASSUME a \in HeldBy(H)
      PROVE  K # {} \/ T # {} \/ F # {} \/ a \in orphans
  <2>1. PICK p \in H : p[4] = a
    BY <1>7 DEF HeldBy
  <2>2. CASE p \in KeyOwners(dict)
    BY <2>1, <2>2 DEF KeyOwners
  <2>3. CASE p \in TaskOwners(arg, Range(todo))
    BY <2>1, <2>3 DEF TaskOwners
  <2>4. CASE p \in OrphanOwners(orphans)
    BY <2>1, <2>4 DEF OrphanOwners
  <2>5. CASE p \in FieldOwners(obj)
    <3>1. <<p[2], p[3]>> \in F
      BY <2>1, <2>5 DEF FieldOwners
    <3> QED
      BY <3>1
  <2> QED
    BY <2>1, <2>2, <2>3, <2>4, <2>5 DEF Owners, Roots, RootsOf
<1>8. /\ \A k1, k2 \in K : k1 = k2
      /\ \A t1, t2 \in T : t1 = t2
  BY <1>2, <1>3, <1>4
<1>9. \A p1, p2 \in F : p1 = p2
  <2> SUFFICES ASSUME NEW p1 \in F, NEW p2 \in F
               PROVE  p1 = p2
    OBVIOUS
  <2>1. <<"field", p1[1], p1[2], a>> = <<"field", p2[1], p2[2], a>>
    BY <1>2, <1>6
  <2>2. p1 = <<p1[1], p1[2]>> /\ p2 = <<p2[1], p2[2]>>
    OBVIOUS
  <2> QED
    BY <2>1, <2>2
<1>10. /\ (K # {} => T = {} /\ F = {} /\ a \notin orphans)
       /\ (T # {} => F = {} /\ a \notin orphans)
       /\ (F # {} => a \notin orphans)
  <2>1. \A k \in K, t \in T : FALSE
    BY <1>2, <1>3, <1>4
  <2>2. \A k \in K, p \in F : FALSE
    BY <1>2, <1>3, <1>6
  <2>3. \A t \in T, p \in F : FALSE
    BY <1>2, <1>4, <1>6
  <2>4. a \in orphans => \A k \in K : FALSE
    BY <1>2, <1>3, <1>5
  <2>5. a \in orphans => \A t \in T : FALSE
    BY <1>2, <1>4, <1>5
  <2>6. a \in orphans => \A p \in F : FALSE
    BY <1>2, <1>5, <1>6
  <2> HIDE DEF K, T, F
  <2> QED
    BY <2>1, <2>2, <2>3, <2>4, <2>5, <2>6
<1>11. (K # {} \/ T # {} \/ F # {} \/ a \in orphans) => a \in HeldBy(H)
  <2>1. \A p \in H : p[4] = a => a \in HeldBy(H)
    BY DEF HeldBy
  <2>2. (\E k \in K : TRUE) => a \in HeldBy(H)
    BY <1>3, <2>1
  <2>3. (\E t \in T : TRUE) => a \in HeldBy(H)
    BY <1>4, <2>1
  <2>4. (\E p \in F : TRUE) => a \in HeldBy(H)
    BY <1>6, <2>1
  <2>5. a \in orphans => a \in HeldBy(H)
    BY <1>5, <2>1
  <2> HIDE DEF K, T, F, H
  <2> QED
    BY <2>2, <2>3, <2>4, <2>5
<1>12. Holders(a) = (IF K = {} THEN 0 ELSE 1) + (IF argv = a THEN 1 ELSE 0)
                      + (IF T = {} THEN 0 ELSE 1) + (IF F = {} THEN 0 ELSE 1)
  <2>1. Holders(a) = Cardinality(K) + (IF argv = a THEN 1 ELSE 0) + Cardinality(T) + Cardinality(F)
    BY DEF Holders
  <2> HIDE DEF K, T, F
  <2> QED
    BY <1>8, <1>9, <2>1, AtMostOne
<1>13. IF obj[a] = NULL THEN a \notin HeldBy(H) /\ a # argv
       ELSE obj[a].ref = (IF a \in HeldBy(H) THEN 1 ELSE 0) + (IF a = argv THEN 1 ELSE 0)
  BY <1>1 DEF Sound, Counts
<1> HIDE DEF K, T, F, H
<1> QED
  BY <1>7, <1>10, <1>11, <1>12, <1>13

(* What is within reach is there itself or owned by a field of what is there. *)
LEMMA ReachOwned ==
  ASSUME IInv, NEW rs, NEW x \in Reach(rs)
  PROVE  /\ x \in Addr
         /\ x \in rs \/ \E p \in FieldOwners(obj) : p[4] = x /\ p[2] \in rs
<1>1. HeapType(obj)
  BY DEF IInv, Sound
<1>2. x \in Addr
  BY DEF Reach
<1>3. ASSUME x \notin rs
      PROVE  \E p \in FieldOwners(obj) : p[4] = x /\ p[2] \in rs
  <2>1. PICK c \in rs \cap Addr : obj[c] # NULL /\ x \in Range(obj[c].part)
    BY <1>3 DEF Reach
  <2>2. x \in HeldBy(FieldsOfOwner(c, obj))
    BY <1>1, <1>2, <2>1, CollectionOwns
  <2>3. PICK p \in FieldOwners(obj) : p[4] = x /\ p[2] = c
    BY <2>2 DEF HeldBy, FieldsOfOwner
  <2> QED
    BY <2>1, <2>3
<1> QED
  BY <1>2, <1>3

LEMMA ThreadsApart == IInv => OneThread
<1> SUFFICES ASSUME IInv
             PROVE  OneThread
  OBVIOUS
<1> DEFINE H == Owners(Roots, obj)
<1>1. Sound(Roots, obj, argv) /\ OneOwner(H) /\ RequestApart
  BY DEF IInv, Sound
<1>2. ASSUME NEW t \in Range(todo)
      PROVE  \E p \in H : p[1] = "task" /\ p[2] = t /\ p[4] = arg[t]
  <2>1. <<"task", t, t, arg[t]>> \in H
    BY TaskRoot
  <2> HIDE DEF H
  <2> QED
    BY <2>1
<1>3. ASSUME NEW k \in DOMAIN dict, dict[k] \in Addr
      PROVE  \E p \in H : p[1] = "key" /\ p[4] = dict[k]
  <2>1. <<"key", k, k, dict[k]>> \in H
    BY <1>3, KeyRoot
  <2> HIDE DEF H
  <2> QED
    BY <2>1
<1>4. \A p \in FieldOwners(obj) : p \in H /\ p[1] = "field" /\ p[2] \in Addr /\ obj[p[2]].type # "string"
  BY <1>1, SoundFacts
<1>5. argv \in Addr => obj[argv].type = "string"
  BY <1>1 DEF Sound, Strings
<1> HIDE DEF H
<1>6. \A p1, p2 \in H : p1[4] = p2[4] => p1 = p2
  BY <1>1 DEF OneOwner
<1>7. ASSUME NEW k \in DOMAIN dict, NEW t \in Range(todo), dict[k] \in Addr
      PROVE  dict[k] # arg[t]
  BY <1>2, <1>3, <1>6, <1>7
<1>8. ASSUME NEW s \in Range(todo), NEW t \in Range(todo), s # t
      PROVE  arg[s] # arg[t]
  BY <1>2, <1>6, <1>8
<1>9. ASSUME NEW x \in Reach(Range(dict) \cup {argv}), x \in Reach(Pending)
      PROVE  FALSE
  <2>1. PICK t \in Range(todo) : x = arg[t] \/ \E p \in FieldOwners(obj) : p[4] = x /\ p[2] = arg[t]
    <3>1. x \in Pending \/ \E p \in FieldOwners(obj) : p[4] = x /\ p[2] \in Pending
      BY <1>9, ReachOwned
    <3> QED
      BY <3>1 DEF Pending
  <2>2. /\ x \in Addr
        /\ x \in Range(dict) \cup {argv} \/ \E p \in FieldOwners(obj) : p[4] = x /\ p[2] \in Range(dict) \cup {argv}
    BY ReachOwned
  <2>3. CASE x = arg[t]
    <3>1. PICK w \in H : w[1] = "task" /\ w[4] = x
      BY <1>2, <2>3
    <3>2. x # argv
      BY <2>3, TaskRoot
    <3>3. x \notin Range(dict)
      BY <1>7, <2>2, <2>3 DEF Range
    <3>4. \A p \in FieldOwners(obj) : p[4] # x
      BY <1>4, <1>6, <3>1
    <3> QED
      BY <2>2, <3>2, <3>3, <3>4
  <2>4. CASE x # arg[t]
    <3>1. PICK p \in FieldOwners(obj) : p[4] = x /\ p[2] = arg[t]
      BY <2>1, <2>4
    <3>2. x # argv
      BY <1>1, <3>1 DEF RequestApart
    <3>3. x \notin Range(dict)
      BY <1>3, <1>4, <1>6, <2>2, <3>1 DEF Range
    <3>4. PICK w \in FieldOwners(obj) : w[4] = x /\ w[2] \in Range(dict) \cup {argv}
      BY <2>2, <3>2, <3>3
    <3>5. w = p
      BY <1>4, <1>6, <3>1, <3>4
    <3>6. arg[t] \in Addr /\ (arg[t] \in Range(dict) \/ arg[t] = argv)
      BY <1>4, <3>1, <3>4, <3>5
    <3> QED
      BY <1>7, <3>6, TaskRoot DEF Range
  <2> QED
    BY <2>3, <2>4
<1>10. ASSUME NEW s \in Range(todo), NEW t \in Range(todo), s # t,
              NEW x \in Reach({arg[s]}), x \in Reach({arg[t]})
       PROVE  FALSE
  <2>1. /\ x = arg[s] \/ \E p \in FieldOwners(obj) : p[4] = x /\ p[2] = arg[s]
        /\ x = arg[t] \/ \E p \in FieldOwners(obj) : p[4] = x /\ p[2] = arg[t]
    BY <1>10, ReachOwned
  <2>2. \A u \in Range(todo) : \A p \in FieldOwners(obj) : p[4] # arg[u]
    BY <1>2, <1>4, <1>6
  <2>3. \A p, w \in FieldOwners(obj) : p[4] = w[4] => p = w
    BY <1>4, <1>6
  <2> QED
    BY <1>8, <1>10, <2>1, <2>2, <2>3
<1> QED
  BY <1>9, <1>10 DEF OneThread

(* Reference counts equal the references held, whatever the order of        *)
(* commands and however far the background thread has come (robj.c).        *)
THEOREM CountsExact == Spec => []RefCountsExact
BY InitIInv, NextIInv, ExactCounts, PTL DEF Spec

(* The main thread and the background thread never reach the same counted   *)
(* object, so plain counts are enough (rr_db_del, rr_bgt_add_task).         *)
THEOREM NoSharedCounts == Spec => []OneThread
BY InitIInv, NextIInv, ThreadsApart, PTL DEF Spec

-----------------------------------------------------------------------------
(* What clients see.  Whatever the commands and the background thread do to *)
(* counts, an object that is still there keeps its type and its value, and  *)
(* its fields unless it is the collection a command works on.               *)

(* A heap of objects, in whatever state their counts are. *)
Shape(h) ==
  /\ h = [a \in Addr |-> h[a]]
  /\ \A a \in Addr : h[a] # NULL =>
       h[a] = [type |-> h[a].type, val |-> h[a].val, ref |-> h[a].ref, part |-> h[a].part]

(* The objects of g are those of h, but for counts and the fields of c. *)
Lasts(h, g, c) ==
  /\ Shape(g)
  /\ \A a \in Addr : g[a] # NULL =>
       /\ h[a] # NULL /\ g[a].type = h[a].type /\ g[a].val = h[a].val
       /\ a # c => g[a].part = h[a].part

(* The same of the objects that are in both. *)
Keeps(h, g, c) ==
  \A a \in Addr : h[a] # NULL /\ g[a] # NULL =>
    /\ g[a].type = h[a].type /\ g[a].val = h[a].val
    /\ a # c => g[a].part = h[a].part

LEMMA HeapShape ==
  ASSUME NEW h, HeapType(h)
  PROVE  Shape(h)
<1>1. h = [a \in Addr |-> h[a]] /\ \A a \in Addr : h[a] # NULL => h[a] \in Object
  BY DEF HeapType
<1>2. \A o \in Object : o = [type |-> o.type, val |-> o.val, ref |-> o.ref, part |-> o.part]
  BY DEF Object
<1> QED
  BY <1>1, <1>2 DEF Shape

LEMMA LastsOn ==
  ASSUME NEW h, NEW m, NEW g, NEW c, Lasts(h, m, c), Lasts(m, g, NULL)
  PROVE  Lasts(h, g, c)
<1>1. \A a \in Addr : a # NULL
  BY KeyspaceAssumption
<1> QED
  BY <1>1 DEF Lasts

LEMMA LastsAny ==
  ASSUME NEW h, NEW g, NEW c, Lasts(h, g, NULL)
  PROVE  Lasts(h, g, c)
<1>1. \A a \in Addr : a # NULL
  BY KeyspaceAssumption
<1> QED
  BY <1>1 DEF Lasts

LEMMA LastsSame ==
  ASSUME NEW h, Shape(h), NEW c
  PROVE  Lasts(h, h, c)
BY DEF Lasts

(* Values that are released. *)
LEMMA DecrStringsLasts ==
  ASSUME NEW h, Shape(h), NEW part,
         \A f \in DOMAIN part : part[f] \in Addr => h[part[f]] # NULL
  PROVE  /\ Lasts(h, DecrStrings(part, h), NULL)
         /\ \A a \in Addr : a \notin Range(part) => DecrStrings(part, h)[a] = h[a]
<1> DEFINE held(a) == Cardinality({f \in DOMAIN part : part[f] = a})
           g == DecrStrings(part, h)
<1>1. g = [a \in Addr |-> IF held(a) = 0 THEN h[a]
                          ELSE IF h[a].ref = held(a) THEN NULL
                          ELSE [h[a] EXCEPT !.ref = @ - held(a)]]
  BY DEF DecrStrings
<1>2. ASSUME NEW a \in Addr, a \notin Range(part) PROVE held(a) = 0
  <2>1. {f \in DOMAIN part : part[f] = a} = {}
    BY <1>2 DEF Range
  <2> QED
    BY <2>1, FS_EmptySet
<1> HIDE DEF held
<1>3. \A a \in Addr : a \notin Range(part) => g[a] = h[a]
  BY <1>1, <1>2
<1>4. g = [a \in Addr |-> g[a]]
  BY <1>1
<1>5. ASSUME NEW a \in Addr, g[a] # NULL
      PROVE  /\ h[a] # NULL
             /\ g[a] = [type |-> h[a].type, val |-> h[a].val, ref |-> g[a].ref, part |-> h[a].part]
  <2>1. CASE a \notin Range(part)
    BY <1>3, <1>5, <2>1 DEF Shape
  <2>2. CASE a \in Range(part)
    <3>1. h[a] # NULL
      BY <2>2 DEF Range
    <3>2. h[a] = [type |-> h[a].type, val |-> h[a].val, ref |-> h[a].ref, part |-> h[a].part]
      BY <3>1 DEF Shape
    <3>3. g[a] = h[a] \/ g[a] = [h[a] EXCEPT !.ref = @ - held(a)]
      BY <1>1, <1>5
    <3> QED
      BY <3>1, <3>2, <3>3
  <2> QED
    BY <2>1, <2>2
<1> HIDE DEF g
<1>6. Shape(g)
  BY <1>4, <1>5 DEF Shape
<1>7. \A a \in Addr : g[a] # NULL =>
        h[a] # NULL /\ g[a].type = h[a].type /\ g[a].val = h[a].val /\ g[a].part = h[a].part
  <2> SUFFICES ASSUME NEW a \in Addr, g[a] # NULL
               PROVE  h[a] # NULL /\ g[a].type = h[a].type /\ g[a].val = h[a].val /\ g[a].part = h[a].part
    OBVIOUS
  <2> DEFINE o == h[a]
             u == g[a].ref
             w == g[a]
  <2>1. o # NULL /\ w = [type |-> o.type, val |-> o.val, ref |-> u, part |-> o.part]
    BY <1>5
  <2> HIDE DEF o, u, w
  <2>2. o # NULL /\ w.type = o.type /\ w.val = o.val /\ w.part = o.part
    BY <2>1
  <2> QED
    BY <2>2 DEF o, w
<1> QED
  BY <1>3, <1>6, <1>7 DEF Lasts, g

LEMMA DecrLasts ==
  ASSUME NEW h, Shape(h), NEW r \in Ref,
         r \in Addr => h[r] # NULL
                       /\ \A f \in DOMAIN h[r].part : h[r].part[f] \in Addr => h[h[r].part[f]] # NULL
  PROVE  /\ Lasts(h, DecrRefCount(r, h), NULL)
         /\ \A a \in Addr : a # r /\ (r \in Addr => a \notin Range(h[r].part))
              => DecrRefCount(r, h)[a] = h[a]
<1>1. CASE r \in SmallInts
  BY <1>1, LastsSame DEF DecrRefCount
<1>2. CASE r \in Addr /\ r \notin SmallInts /\ h[r].ref # 1
  <2> DEFINE g == [h EXCEPT ![r].ref = @ - 1]
  <2>1. DecrRefCount(r, h) = g
    BY <1>2 DEF DecrRefCount
  <2>2. /\ g = [a \in Addr |-> g[a]]
        /\ \A a \in Addr : a # r => g[a] = h[a]
        /\ g[r] = [h[r] EXCEPT !.ref = @ - 1]
    BY <1>2 DEF Shape
  <2>3. h[r] = [type |-> h[r].type, val |-> h[r].val, ref |-> h[r].ref, part |-> h[r].part]
    BY <1>2 DEF Shape
  <2>4. g[r] = [type |-> h[r].type, val |-> h[r].val, ref |-> h[r].ref - 1, part |-> h[r].part]
    BY <2>2, <2>3
  <2> HIDE DEF g
  <2>5. Shape(g)
    BY <2>2, <2>4 DEF Shape
  <2>6. Lasts(h, g, NULL)
    BY <1>2, <2>2, <2>4, <2>5 DEF Lasts
  <2> QED
    BY <2>1, <2>2, <2>6
<1>3. CASE r \in Addr /\ r \notin SmallInts /\ h[r].ref = 1
  <2> DEFINE part == Owned(h[r])
             m == DecrStrings(part, h)
             g == [m EXCEPT ![r] = NULL]
  <2>1. DecrRefCount(r, h) = g
    BY <1>3 DEF DecrRefCount
  <2>2. part = h[r].part \/ part = << >>
    BY DEF Owned
  <2>3. DOMAIN << >> = {}
    OBVIOUS
  <2>4. /\ \A f \in DOMAIN part : part[f] \in Addr => h[part[f]] # NULL
        /\ Range(part) \subseteq Range(h[r].part)
    BY <1>3, <2>2, <2>3 DEF Range
  <2>5. Lasts(h, m, NULL) /\ \A a \in Addr : a \notin Range(part) => m[a] = h[a]
    <3> HIDE DEF part
    <3> QED
      BY <2>4, DecrStringsLasts
  <2>6. /\ g = [a \in Addr |-> g[a]]
        /\ \A a \in Addr : a # r => g[a] = m[a]
        /\ g[r] = NULL
    <3> HIDE DEF m
    <3> QED
      BY <1>3, <2>5 DEF Lasts, Shape
  <2> HIDE DEF g, m, part
  <2>7. Shape(g) /\ \A a \in Addr : g[a] # NULL => g[a] = m[a]
    BY <1>3, <2>5, <2>6 DEF Lasts, Shape
  <2>8. Lasts(h, g, NULL)
    BY <2>5, <2>7 DEF Lasts
  <2> QED
    BY <1>3, <2>1, <2>4, <2>5, <2>6, <2>8
<1> QED
  BY <1>1, <1>2, <1>3 DEF Ref

LEMMA IncrLasts ==
  ASSUME NEW h, Shape(h), NEW r \in Ref, r \in Addr => h[r] # NULL
  PROVE  Lasts(h, IncrRefCount(r, h), NULL)
<1>1. CASE r \in SmallInts
  BY <1>1, LastsSame DEF IncrRefCount
<1>2. CASE r \in Addr /\ r \notin SmallInts
  <2> DEFINE g == [h EXCEPT ![r].ref = @ + 1]
  <2>1. IncrRefCount(r, h) = g
    BY <1>2 DEF IncrRefCount
  <2>2. /\ g = [a \in Addr |-> g[a]]
        /\ \A a \in Addr : a # r => g[a] = h[a]
        /\ g[r] = [h[r] EXCEPT !.ref = @ + 1]
    BY <1>2 DEF Shape
  <2>3. h[r] = [type |-> h[r].type, val |-> h[r].val, ref |-> h[r].ref, part |-> h[r].part]
    BY <1>2 DEF Shape
  <2>4. g[r] = [type |-> h[r].type, val |-> h[r].val, ref |-> h[r].ref + 1, part |-> h[r].part]
    BY <2>2, <2>3
  <2> HIDE DEF g
  <2>5. Shape(g)
    BY <2>2, <2>4 DEF Shape
  <2> QED
    BY <1>2, <2>1, <2>2, <2>4, <2>5 DEF Lasts
<1> QED
  BY <1>1, <1>2 DEF Ref

LEMMA WithPartLasts ==
  ASSUME NEW h, Shape(h), NEW c \in Addr, h[c] # NULL, NEW part
  PROVE  /\ Lasts(h, WithPart(c, part, h), c)
         /\ WithPart(c, part, h)[c].part = part
         /\ \A a \in Addr : a # c => WithPart(c, part, h)[a] = h[a]
<1> DEFINE g == WithPart(c, part, h)
<1>2. /\ g = [a \in Addr |-> g[a]]
      /\ \A a \in Addr : a # c => g[a] = h[a]
      /\ g[c] = [h[c] EXCEPT !.part = part]
  BY DEF Shape, WithPart
<1>3. h[c] = [type |-> h[c].type, val |-> h[c].val, ref |-> h[c].ref, part |-> h[c].part]
  BY DEF Shape
<1>4. g[c] = [type |-> h[c].type, val |-> h[c].val, ref |-> h[c].ref, part |-> part]
  BY <1>2, <1>3
<1> HIDE DEF g
<1>5. Shape(g)
  BY <1>2, <1>4 DEF Shape
<1> QED
  BY <1>2, <1>4, <1>5 DEF Lasts, g

(* A field is set: the other objects and the other fields last. *)
LEMMA StoredLasts ==
  ASSUME NEW h, Shape(h), NEW c \in Addr, h[c] # NULL, NEW f, NEW r \in Ref,
         r \in Addr => h[r] # NULL /\ r # c /\ r \notin Range(h[c].part),
         \A e \in DOMAIN h[c].part : h[c].part[e] \in Addr => h[h[c].part[e]] # NULL /\ h[c].part[e] # c
  PROVE  /\ Lasts(h, IncrRefCount(r, Stored(c, f, r, h)), c)
         /\ IncrRefCount(r, Stored(c, f, r, h))[c] # NULL =>
              IncrRefCount(r, Stored(c, f, r, h))[c].part = Assign(h[c].part, f, r)
<1> DEFINE part == Assign(h[c].part, f, r)
           old == Restrict(h[c].part, {f} \cap DOMAIN h[c].part)
           h1 == WithPart(c, part, h)
           m == DecrStrings(old, h1)
           g == IncrRefCount(r, m)
<1>1. Stored(c, f, r, h) = m
  BY DEF Stored, WithPart
<1>2. /\ DOMAIN old \subseteq DOMAIN h[c].part
      /\ \A e \in DOMAIN old : old[e] = h[c].part[e]
  BY DEF Restrict
<1> HIDE DEF part, old
<1>3. Lasts(h, h1, c) /\ h1[c].part = part /\ \A a \in Addr : a # c => h1[a] = h[a]
  BY WithPartLasts
<1> HIDE DEF h1
<1>4. /\ \A e \in DOMAIN old : old[e] \in Addr => h1[old[e]] # NULL
      /\ r \in Addr => r \notin Range(old) /\ h1[r] # NULL
  BY <1>2, <1>3 DEF Range
<1>5. Lasts(h1, m, NULL) /\ \A a \in Addr : a \notin Range(old) => m[a] = h1[a]
  BY <1>3, <1>4, DecrStringsLasts DEF Lasts
<1> HIDE DEF m
<1>6. Lasts(m, g, NULL)
  <2>1. Shape(m) /\ (r \in Addr => m[r] # NULL)
    BY <1>4, <1>5 DEF Lasts
  <2> QED
    BY <2>1, IncrLasts
<1> HIDE DEF g
<1>7. Lasts(h1, g, NULL)
  BY <1>5, <1>6, LastsOn
<1>8. Lasts(h, g, c)
  BY <1>3, <1>7, LastsOn
<1>9. g[c] # NULL => g[c].part = part
  BY <1>3, <1>7, KeyspaceAssumption DEF Lasts
<1> QED
  BY <1>1, <1>8, <1>9 DEF g, part

-----------------------------------------------------------------------------
(* The value of a pointer, and the entry of KeyMap for it, in heap h. *)
Kind(r, h) == IF r \in SmallInts THEN "string" ELSE h[r].type

Val(r, h) == IF r \in SmallInts THEN r ELSE h[r].val

Entry(r, h) ==
  [type |-> Kind(r, h),
   at   |-> IF Kind(r, h) = "string" THEN Single(Self, Val(r, h))
            ELSE [f \in DOMAIN h[r].part |-> Val(h[r].part[f], h)]]

LEMMA ContentEntries ==
  /\ Content = [k \in DOMAIN dict |-> Entry(dict[k], obj)]
  /\ Content' = [k \in DOMAIN dict' |-> Entry(dict'[k], obj')]
BY DEF Content, Entry, Kind, Val, TypeOf, ValueOf

(* The value of a field is there. *)
LEMMA FieldThere ==
  ASSUME NEW R, NEW h, NEW q, Sound(R, h, q), NEW a \in Addr, h[a] # NULL,
         NEW f \in DOMAIN h[a].part
  PROVE  /\ h[a].part[f] \in Ref
         /\ h[a].part[f] \in Addr =>
              /\ h[h[a].part[f]] # NULL /\ h[h[a].part[f]].type = "string"
              /\ h[a].part[f] \in HeldBy(Owners(R, h))
              /\ h[a].part[f] # a
<1> DEFINE x == h[a].part[f]
<1>1. h[a].part[f] \in Ref /\ f \in Fields
  BY ObjectAt DEF Sound
<1>2. ASSUME x \in Addr
      PROVE  h[x] # NULL /\ h[x].type = "string" /\ x \in HeldBy(Owners(R, h)) /\ x # a
  <2> DEFINE p == <<"field", a, f, x>>
  <2>1. p \in FieldOwners(h) /\ p[4] = x /\ p[2] = a
    BY <1>1, <1>2 DEF FieldOwners
  <2> HIDE DEF p, x
  <2> QED
    BY <2>1, SoundFacts
<1> QED
  BY <1>1, <1>2

(* A value whose object is still there reads as before. *)
LEMMA SameVal ==
  ASSUME NEW h, NEW g, NEW c, Keeps(h, g, c), NEW r \in Ref,
         r \in Addr => h[r] # NULL /\ g[r] # NULL
  PROVE  Kind(r, g) = Kind(r, h) /\ Val(r, g) = Val(r, h)
BY KeyspaceAssumption DEF Keeps, Kind, Val, Ref

(* So does an entry, unless it is the collection a command works on. *)
LEMMA SameFields ==
  ASSUME NEW R, NEW h, NEW q, Sound(R, h, q), NEW R2, NEW g, NEW q2, Sound(R2, g, q2),
         NEW c, Keeps(h, g, c), NEW a \in Addr, h[a] # NULL, g[a] # NULL,
         NEW f \in DOMAIN h[a].part, f \in DOMAIN g[a].part, g[a].part[f] = h[a].part[f]
  PROVE  Val(g[a].part[f], g) = Val(h[a].part[f], h)
<1> DEFINE x == h[a].part[f]
<1>1. x \in Ref /\ (x \in Addr => h[x] # NULL)
  BY FieldThere
<1>2. x \in Addr => g[x] # NULL
  BY FieldThere
<1> HIDE DEF x
<1>3. Val(x, g) = Val(x, h)
  BY <1>1, <1>2, SameVal
<1> QED
  BY <1>3 DEF x

LEMMA SameEntry ==
  ASSUME NEW R, NEW h, NEW q, Sound(R, h, q), NEW R2, NEW g, NEW q2, Sound(R2, g, q2),
         NEW c, Keeps(h, g, c), NEW r \in Ref, r # c, r \in Addr => h[r] # NULL /\ g[r] # NULL
  PROVE  Entry(r, g) = Entry(r, h)
<1>1. Kind(r, g) = Kind(r, h) /\ Val(r, g) = Val(r, h)
  BY SameVal
<1>2. CASE Kind(r, h) = "string"
  BY <1>1, <1>2 DEF Entry
<1>3. CASE Kind(r, h) # "string"
  <2>1. r \in Addr /\ h[r] # NULL /\ g[r] # NULL
    BY <1>3 DEF Kind, Ref
  <2>2. g[r].part = h[r].part
    BY <2>1 DEF Keeps
  <2>3. \A f \in DOMAIN h[r].part : Val(g[r].part[f], g) = Val(h[r].part[f], h)
    <3> TAKE f \in DOMAIN h[r].part
    <3> QED
      BY <2>1, <2>2, SameFields
  <2>4. [f \in DOMAIN g[r].part |-> Val(g[r].part[f], g)] =
        [f \in DOMAIN h[r].part |-> Val(h[r].part[f], h)]
    BY <2>2, <2>3
  <2> QED
    BY <1>1, <1>3, <2>4 DEF Entry
<1> QED
  BY <1>2, <1>3

(* The values of keys are there, before and after a step. *)
LEMMA KeyThere ==
  ASSUME IInv
  PROVE  \A k \in DOMAIN dict : dict[k] \in Ref /\ (dict[k] \in Addr => obj[dict[k]] # NULL)
BY KeyRoot DEF IInv, StateType

LEMMA KeyThereNext ==
  ASSUME IInv'
  PROVE  \A k \in DOMAIN dict' : dict'[k] \in Ref /\ (dict'[k] \in Addr => obj'[dict'[k]] # NULL)
<1> SUFFICES ASSUME NEW k \in DOMAIN dict', dict'[k] \in Addr
             PROVE  obj'[dict'[k]] # NULL
  BY DEF IInv, StateType
<1> DEFINE p == <<"key", k, k, dict'[k]>>
<1>1. p \in KeyOwners(dict')
  BY DEF KeyOwners
<1>2. p \in Roots' /\ p[4] = dict'[k]
  BY <1>1 DEF Roots, RootsOf
<1>3. Sound(Roots', obj', argv')
  BY DEF IInv
<1> HIDE DEF p
<1>4. p \in Owners(Roots', obj')
  BY <1>2 DEF Owners
<1> QED
  BY <1>2, <1>3, <1>4, SoundFacts

(* A key that no command touches keeps its entry. *)
LEMMA SameKey ==
  ASSUME IInv, IInv', NEW c, Keeps(obj, obj', c), NEW k \in DOMAIN dict, k \in DOMAIN dict',
         dict'[k] = dict[k], dict[k] # c
  PROVE  Content'[k] = Content[k]
<1>1. Sound(Roots, obj, argv) /\ Sound(Roots', obj', argv')
  BY DEF IInv
<1>2. dict[k] \in Ref /\ (dict[k] \in Addr => obj[dict[k]] # NULL /\ obj'[dict[k]] # NULL)
  BY KeyThere, KeyThereNext
<1>3. Entry(dict[k], obj') = Entry(dict[k], obj)
  BY <1>1, <1>2, SameEntry
<1> QED
  BY <1>3, ContentEntries

LEMMA SameContent ==
  ASSUME IInv, IInv', NEW c, Keeps(obj, obj', c), dict' = dict, \A k \in DOMAIN dict : dict[k] # c
  PROVE  Content' = Content
<1>1. \A k \in DOMAIN dict : Content'[k] = Content[k]
  BY SameKey
<1>2. Content = [k \in DOMAIN dict |-> Content[k]] /\ Content' = [k \in DOMAIN dict |-> Content'[k]]
  BY ContentEntries
<1> QED
  BY <1>1, <1>2

LEMMA LastsKeeps ==
  ASSUME NEW h, NEW g, NEW c, Lasts(h, g, c)
  PROVE  Keeps(h, g, c)
BY DEF Lasts, Keeps

(* A new object changes none of the others. *)
LEMMA NewKeeps ==
  ASSUME NEW h, HeapType(h), NEW a \in Addr, h[a] = NULL, NEW o, NEW g, NEW c,
         Lasts(WithObject(a, o, h), g, c)
  PROVE  Keeps(h, g, c)
<1>1. \A x \in Addr : x # a => WithObject(a, o, h)[x] = h[x]
  BY DEF WithObject, HeapType
<1> QED
  BY <1>1 DEF Lasts, Keeps

LEMMA LastsThen ==
  ASSUME NEW h, NEW m, NEW g, NEW c, Lasts(h, m, NULL), Lasts(m, g, c)
  PROVE  Lasts(h, g, c)
<1>1. \A a \in Addr : a # NULL
  BY KeyspaceAssumption
<1> QED
  BY <1>1 DEF Lasts

(* A field is removed: the other objects and the other fields last. *)
LEMMA RemovedLasts ==
  ASSUME NEW R, NEW h, NEW q, Sound(R, h, q), NEW c \in Addr, h[c] # NULL,
         NEW f \in DOMAIN h[c].part
  PROVE  LET g == DecrStrings(Single(f, h[c].part[f]), WithPart(c, Without(h[c].part, f), h))
         IN  Lasts(h, g, c) /\ (g[c] # NULL => g[c].part = Without(h[c].part, f))
<1> DEFINE part == Without(h[c].part, f)
           x == h[c].part[f]
           h1 == WithPart(c, part, h)
           g == DecrStrings(Single(f, x), h1)
<1>1. Shape(h)
  BY HeapShape DEF Sound
<1>2. x \in Addr => h[x] # NULL /\ x # c
  BY FieldThere
<1>3. DOMAIN Single(f, x) = {f} /\ Single(f, x)[f] = x
  BY DEF Single
<1> HIDE DEF part, x
<1>4. Lasts(h, h1, c) /\ h1[c].part = part /\ \A a \in Addr : a # c => h1[a] = h[a]
  BY <1>1, WithPartLasts
<1> HIDE DEF h1
<1>5. Lasts(h1, g, NULL)
  <2>1. Shape(h1) /\ (x \in Addr => h1[x] # NULL)
    BY <1>2, <1>4 DEF Lasts
  <2> QED
    BY <1>3, <2>1, DecrStringsLasts
<1> HIDE DEF g
<1>6. Lasts(h, g, c)
  BY <1>4, <1>5, LastsOn
<1>7. g[c] # NULL => g[c].part = part
  BY <1>4, <1>5, KeyspaceAssumption DEF Lasts
<1> QED
  BY <1>6, <1>7 DEF g, h1, x, part

(* No two keys, and no key and task, have the same object. *)
LEMMA KeysApart ==
  ASSUME IInv, NEW k \in DOMAIN dict, dict[k] \in Addr
  PROVE  /\ \A x \in DOMAIN dict : dict[x] = dict[k] => x = k
         /\ \A t \in Range(todo) : arg[t] # dict[k]
<1> DEFINE p == <<"key", k, k, dict[k]>>
<1>1. p \in Owners(Roots, obj) /\ OneOwner(Owners(Roots, obj))
      /\ p[1] = "key" /\ p[2] = k /\ p[4] = dict[k]
  BY KeyRoot DEF IInv, Sound
<1> HIDE DEF p
<1>2. ASSUME NEW x \in DOMAIN dict, dict[x] = dict[k] PROVE x = k
  <2> DEFINE w == <<"key", x, x, dict[x]>>
  <2>1. w \in Owners(Roots, obj) /\ w[2] = x /\ w[4] = dict[x]
    BY <1>2, KeyRoot
  <2> HIDE DEF w
  <2> QED
    BY <1>1, <1>2, <2>1 DEF OneOwner
<1>3. ASSUME NEW t \in Range(todo), arg[t] = dict[k] PROVE FALSE
  <2> DEFINE w == <<"task", t, t, arg[t]>>
  <2>1. w \in Owners(Roots, obj) /\ w[1] = "task" /\ w[4] = arg[t]
    BY TaskRoot
  <2> HIDE DEF w
  <2>2. w = p
    BY <1>1, <1>3, <2>1 DEF OneOwner
  <2> QED
    BY <1>1, <2>1, <2>2
<1> QED
  BY <1>2, <1>3

LEMMA ContentAssigned ==
  ASSUME IInv, IInv', NEW k, NEW r, dict' = Assign(dict, k, r), NEW c, Keeps(obj, obj', c),
         \A x \in DOMAIN dict : x # k => dict[x] # c
  PROVE  Content' = Assign(Content, k, Entry(r, obj'))
<1>1. DOMAIN dict' = DOMAIN dict \cup {k} /\ dict'[k] = r
      /\ \A x \in DOMAIN dict : x # k => dict'[x] = dict[x]
  BY DEF Assign
<1>2. /\ DOMAIN Content = DOMAIN dict
      /\ Content' = [x \in DOMAIN dict' |-> Content'[x]] /\ Content'[k] = Entry(r, obj')
  BY <1>1, ContentEntries
<1>3. \A x \in DOMAIN dict : x # k => Content'[x] = Content[x]
  BY <1>1, SameKey
<1>4. Content' = [x \in DOMAIN dict \cup {k} |-> IF x = k THEN Entry(r, obj') ELSE Content[x]]
  BY <1>1, <1>2, <1>3
<1> QED
  BY <1>2, <1>4 DEF Assign

LEMMA ContentRemoved ==
  ASSUME IInv, IInv', NEW k, dict' = Without(dict, k), Keeps(obj, obj', NULL)
  PROVE  Content' = Without(Content, k)
<1>1. DOMAIN dict' = DOMAIN dict \ {k} /\ \A x \in DOMAIN dict' : dict'[x] = dict[x]
  BY DEF Without, Restrict
<1>2. DOMAIN Content = DOMAIN dict /\ Content' = [x \in DOMAIN dict' |-> Content'[x]]
  BY ContentEntries
<1>3. \A x \in DOMAIN dict' : Content'[x] = Content[x]
  <2> TAKE x \in DOMAIN dict'
  <2>1. x \in DOMAIN dict /\ dict'[x] = dict[x]
    BY <1>1
  <2>2. dict[x] # NULL
    BY <2>1, KeyThere, KeyspaceAssumption DEF Ref
  <2> QED
    BY <2>1, <2>2, SameKey
<1>4. Content' = [x \in DOMAIN dict \ {k} |-> Content[x]]
  BY <1>1, <1>2, <1>3
<1> QED
  BY <1>2, <1>4 DEF Without, Restrict

(* Nothing has the argument of a command that has not run yet. *)
LEMMA ArgumentApart ==
  ASSUME IInv, argv # NULL, reply = NULL, NEW a \in Addr, obj[a] # NULL
  PROVE  /\ argv \notin Range(obj[a].part)
         /\ \A k \in DOMAIN dict : dict[k] # argv
<1>1. argv \in Addr /\ argv \notin HeldBy(Owners(Roots, obj))
  BY Argument
<1>2. ASSUME argv \in Range(obj[a].part) PROVE FALSE
  <2>1. PICK f \in DOMAIN obj[a].part : obj[a].part[f] = argv
    BY <1>2 DEF Range
  <2> QED
    BY <1>1, <2>1, FieldThere DEF IInv
<1>3. \A k \in DOMAIN dict : dict[k] # argv
  BY <1>1, KeyRoot
<1> QED
  BY <1>2, <1>3

(* tryObjectEncoding of the argument, in a heap that has it untouched: the  *)
(* others last, and the value of the result is that of the argument.        *)
LEMMA EncodedLasts ==
  ASSUME IInv, argv # NULL, reply = NULL, NEW t, NEW h, Shape(h), h[argv] = obj[argv]
  PROVE  /\ Lasts(h, EncodedHeap(t, h), NULL)
         /\ \A a \in Addr : a # argv \/ ~Shares(t) => EncodedHeap(t, h)[a] = h[a]
<1>1. argv \in Addr /\ h[argv] # NULL /\ h[argv].type = "string"
  BY Argument
<1>2. DOMAIN h[argv].part = {}
  BY <1>1 DEF IInv, Sound, HeapType
<1>3. CASE Shares(t)
  <2>1. EncodedHeap(t, h) = DecrRefCount(argv, h) /\ argv \in Ref
    BY <1>1, <1>3 DEF EncodedHeap, Ref
  <2>2. Range(h[argv].part) = {}
    BY <1>2 DEF Range
  <2> QED
    BY <1>1, <1>2, <1>3, <2>1, <2>2, DecrLasts
<1>4. CASE ~Shares(t)
  BY <1>4, LastsSame DEF EncodedHeap
<1> QED
  BY <1>3, <1>4

LEMMA EncodedVal ==
  ASSUME IInv, argv # NULL, reply = NULL, NEW t, NEW g,
         EncodedArg(t) = argv => g[argv].type = "string" /\ g[argv].val = obj[argv].val
  PROVE  Kind(EncodedArg(t), g) = "string" /\ Val(EncodedArg(t), g) = obj[argv].val
BY Argument, Encoded, KeyspaceAssumption DEF Kind, Val, EncodedArg, Shares

-----------------------------------------------------------------------------
(* Each step is a step of KeyMap, or does not show. *)

LEMMA MapOps ==
  /\ \A f, x, v : KM!Assign(f, x, v) = Assign(f, x, v)
  /\ \A f, x : KM!Without(f, x) = Without(f, x)
  /\ \A x, v : KM!Single(x, v) = Single(x, v)
BY DEF KM!Assign, Assign, KM!Without, Without, KM!Restrict, Restrict, KM!Single, Single

LEMMA SetMaps ==
  ASSUME IInv, IInv', NEW k \in Keys, RrCmdSet(k)
  PROVE  KM!Set(k, obj[argv].val) /\ obj[argv].val \in Values
<1> DEFINE heap == IF k \in DOMAIN dict THEN Replaced(k) ELSE obj
           e == EncodedHeap("string", heap)
           r == EncodedArg("string")
<1>1. argv # NULL /\ reply = NULL /\ Shape(obj)
  BY HeapShape DEF IInv, Sound, RrCmdSet, RunsWithValue
<1>2. argv \in Addr /\ obj[argv] # NULL /\ obj[argv].type = "string" /\ obj[argv].val \in Values
  BY <1>1, Argument
<1>3. obj' = IncrRefCount(r, e) /\ dict' = Assign(dict, k, r) /\ reply' = <<"ok">>
  BY DEF RrCmdSet
<1>4. Lasts(obj, heap, NULL) /\ heap[argv] = obj[argv]
  <2>1. CASE heap = obj
    BY <1>1, <2>1, LastsSame
  <2>2. CASE heap # obj
    <3>1. k \in DOMAIN dict /\ heap = DecrRefCount(dict[k], obj)
      BY <2>2 DEF Replaced
    <3>2. dict[k] \in Ref /\ (dict[k] \in Addr => obj[dict[k]] # NULL)
      BY <3>1, KeyThere
    <3>3. dict[k] # argv /\ (dict[k] \in Addr => argv \notin Range(obj[dict[k]].part))
      BY <1>1, <1>2, <3>1, <3>2, ArgumentApart
    <3>4. dict[k] \in Addr => \A f \in DOMAIN obj[dict[k]].part :
            obj[dict[k]].part[f] \in Addr => obj[obj[dict[k]].part[f]] # NULL
      BY <3>2, FieldThere DEF IInv
    <3> DEFINE u == dict[k]
    <3> HIDE DEF u, heap
    <3>5. Lasts(obj, DecrRefCount(u, obj), NULL) /\ DecrRefCount(u, obj)[argv] = obj[argv]
      BY <1>1, <1>2, <3>2, <3>3, <3>4, DecrLasts DEF u
    <3> QED
      BY <3>1, <3>5 DEF u
  <2> QED
    BY <2>1, <2>2
<1>5. /\ Lasts(heap, e, NULL)
      /\ \A a \in Addr : a # argv \/ ~Shares("string") => e[a] = heap[a]
  <2> HIDE DEF heap
  <2>1. Shape(heap)
    BY <1>4 DEF Lasts
  <2> QED
    BY <1>1, <1>4, <2>1, EncodedLasts
<1>6. /\ Shares("string") => r \in SmallInts /\ r \notin Addr
      /\ ~Shares("string") => r = argv
      /\ r \in Ref
  BY <1>1, Encoded
<1> HIDE DEF heap, e
<1>7. Lasts(e, obj', NULL)
  <2>1. r \in Addr => e[r] # NULL
    BY <1>2, <1>4, <1>5, <1>6
  <2>2. Shape(e)
    BY <1>5 DEF Lasts
  <2> HIDE DEF r
  <2> QED
    BY <1>3, <1>6, <2>1, <2>2, IncrLasts
<1>8. Lasts(obj, obj', NULL)
  <2>1. Lasts(obj, e, NULL)
    BY <1>4, <1>5, LastsOn
  <2> QED
    BY <1>7, <2>1, LastsOn
<1>9. Content' = Assign(Content, k, Entry(r, obj'))
  <2>1. \A x \in DOMAIN dict : dict[x] # NULL
    BY KeyThere, KeyspaceAssumption DEF Ref
  <2>2. Keeps(obj, obj', NULL)
    BY <1>8, LastsKeeps
  <2> HIDE DEF r
  <2> QED
    BY <1>3, <2>1, <2>2, ContentAssigned
<1>10. Kind(r, obj') = "string" /\ Val(r, obj') = obj[argv].val
  <2>1. dict'[k] = r /\ k \in DOMAIN dict'
    BY <1>3 DEF Assign
  <2>2. r = argv => obj'[argv].type = "string" /\ obj'[argv].val = obj[argv].val
    BY <1>2, <1>8, <2>1, KeyThereNext DEF Lasts
  <2> QED
    BY <1>1, <2>2, EncodedVal
<1>11. Entry(r, obj') = [type |-> "string", at |-> Single(Self, obj[argv].val)]
  BY <1>10 DEF Entry
<1> QED
  BY <1>1, <1>2, <1>3, <1>9, <1>11, MapOps DEF KM!Set, KM!Answer

LEMMA DelMaps ==
  ASSUME IInv, IInv', NEW k \in Keys, RrCmdDel(k)
  PROVE  KM!Del(k)
<1>1. reply = NULL /\ Shape(obj) /\ DOMAIN Content = DOMAIN dict
  BY HeapShape, ContentEntries DEF IInv, Sound, RrCmdDel, Runs
<1>2. CASE k \notin DOMAIN dict
  <2>1. dict' = dict /\ obj' = obj /\ reply' = <<"zero">>
    BY <1>2 DEF RrCmdDel, store
  <2>2. Content' = Content
    BY <2>1, ContentEntries
  <2>3. Without(Content, k) = Content
    <3>1. DOMAIN Content \ {k} = DOMAIN Content
      BY <1>1, <1>2
    <3>2. Content = [x \in DOMAIN Content |-> Content[x]]
      BY ContentEntries
    <3> QED
      BY <3>1, <3>2 DEF Without, Restrict
  <2> QED
    BY <1>1, <1>2, <2>1, <2>2, <2>3, MapOps DEF KM!Del, KM!Answer
<1>3. CASE k \in DOMAIN dict
  <2>1. dict' = Without(dict, k) /\ reply' = <<"one">>
        /\ (obj' = obj \/ obj' = DecrRefCount(dict[k], obj))
    BY <1>3 DEF RrCmdDel, RrDbDel, Unlinked
  <2>2. Lasts(obj, obj', NULL)
    <3>1. CASE obj' = obj
      BY <1>1, <3>1, LastsSame
    <3>2. CASE obj' = DecrRefCount(dict[k], obj)
      <4> DEFINE u == dict[k]
      <4>1. u \in Ref /\ (u \in Addr => obj[u] # NULL)
        BY <1>3, KeyThere
      <4>2. u \in Addr => \A f \in DOMAIN obj[u].part :
              obj[u].part[f] \in Addr => obj[obj[u].part[f]] # NULL
        BY <4>1, FieldThere DEF IInv
      <4>3. obj' = DecrRefCount(u, obj)
        BY <3>2
      <4> HIDE DEF u
      <4> QED
        BY <1>1, <4>1, <4>2, <4>3, DecrLasts
    <3> QED
      BY <2>1, <3>1, <3>2
  <2>3. Content' = Without(Content, k)
    BY <2>1, <2>2, LastsKeeps, ContentRemoved
  <2> QED
    BY <1>1, <1>3, <2>1, <2>3, MapOps DEF KM!Del, KM!Answer
<1> QED
  BY <1>2, <1>3

(* Steps that move memory only. *)
LEMMA ReadRequestMaps ==
  ASSUME IInv, IInv', NEW v \in Values, ReadRequest(v)
  PROVE  Content' = Content /\ reply' = reply
<1>1. PICK a \in Addr : obj[a] = NULL /\ obj' = WithObject(a, StringObject(v), obj)
  BY DEF ReadRequest, FreeAddr, WithObject
<1>2. dict' = dict /\ reply' = reply
  BY DEF ReadRequest
<1>3. Lasts(WithObject(a, StringObject(v), obj), obj', NULL)
  <2>1. Shape(obj')
    BY HeapShape DEF IInv, Sound
  <2> QED
    BY <1>1, <2>1, LastsSame
<1>4. Keeps(obj, obj', NULL)
  BY <1>1, <1>3, NewKeeps DEF IInv, Sound
<1>5. \A x \in DOMAIN dict : dict[x] # NULL
  BY KeyThere, KeyspaceAssumption DEF Ref
<1> QED
  BY <1>2, <1>4, <1>5, SameContent

LEMMA ResetClientMaps ==
  ASSUME IInv, IInv', ResetClient
  PROVE  KM!Send
<1>1. /\ obj' = (IF argv = NULL THEN obj ELSE DecrRefCount(argv, obj))
      /\ dict' = dict /\ reply # NULL /\ reply' = NULL /\ Shape(obj)
  BY HeapShape DEF ResetClient, IInv, Sound
<1>2. Lasts(obj, obj', NULL)
  <2>1. CASE argv = NULL
    BY <1>1, <2>1, LastsSame
  <2>2. CASE argv # NULL
    <3>1. argv \in Ref /\ (argv \in Addr => obj[argv] # NULL)
      BY <2>2 DEF IInv, StateType, Sound, Counts
    <3>2. argv \in Addr => \A f \in DOMAIN obj[argv].part :
            obj[argv].part[f] \in Addr => obj[obj[argv].part[f]] # NULL
      BY <3>1, FieldThere DEF IInv
    <3> QED
      BY <1>1, <2>2, <3>1, <3>2, DecrLasts
  <2> QED
    BY <2>1, <2>2
<1>3. Content' = Content
  <2>1. \A x \in DOMAIN dict : dict[x] # NULL
    BY KeyThere, KeyspaceAssumption DEF Ref
  <2> QED
    BY <1>1, <1>2, <2>1, LastsKeeps, SameContent
<1> QED
  BY <1>1, <1>3 DEF KM!Send

LEMMA FreeElementMaps ==
  ASSUME IInv, IInv', FreeElement
  PROVE  Content' = Content /\ reply' = reply
<1>1. Head(todo) \in Range(todo)
  BY HeadPending DEF FreeElement
<1>2. Victim \in Addr /\ obj[Victim] # NULL
  BY <1>1, TaskRoot DEF Victim
<1>3. PICK f \in DOMAIN obj[Victim].part :
        obj' = DecrStrings(Single(f, obj[Victim].part[f]), WithPart(Victim, Without(obj[Victim].part, f), obj))
  BY DEF FreeElement, WithPart
<1>4. dict' = dict /\ reply' = reply
  BY DEF FreeElement
<1>5. Lasts(obj, obj', Victim)
  BY <1>2, <1>3, RemovedLasts DEF IInv
<1>6. \A k \in DOMAIN dict : dict[k] # Victim
  BY <1>1, <1>2, KeysApart DEF Victim
<1> QED
  BY <1>4, <1>5, <1>6, LastsKeeps, SameContent

LEMMA FreeShellMaps ==
  ASSUME IInv, IInv', FreeShell
  PROVE  Content' = Content /\ reply' = reply
<1>1. Head(todo) \in Range(todo)
  BY HeadPending DEF FreeShell
<1>2. Victim \in Addr /\ obj[Victim] # NULL /\ Victim \in Ref
  BY <1>1, TaskRoot DEF Victim, Ref
<1>3. obj' = DecrRefCount(Victim, obj) /\ dict' = dict /\ reply' = reply /\ Shape(obj)
  BY HeapShape DEF FreeShell, IInv, Sound
<1>4. \A f \in DOMAIN obj[Victim].part :
        obj[Victim].part[f] \in Addr => obj[obj[Victim].part[f]] # NULL
  BY <1>2, FieldThere DEF IInv
<1>5. Lasts(obj, obj', NULL)
  BY <1>2, <1>3, <1>4, DecrLasts
<1>6. \A x \in DOMAIN dict : dict[x] # NULL
  BY KeyThere, KeyspaceAssumption DEF Ref
<1> QED
  BY <1>3, <1>5, <1>6, LastsKeeps, SameContent

(* rr_db_lookup_or_create and the field. *)
LEMMA PutFieldMaps ==
  ASSUME IInv, IInv', NEW k \in Keys, NEW t \in Collections, NEW f \in Fields, PutField(k, t, f)
  PROVE  KM!Put(k, t, f, obj[argv].val) /\ obj[argv].val \in Values
<1>1. argv # NULL /\ reply = NULL /\ Shape(obj) /\ HeapType(obj) /\ t # "string"
  BY HeapShape, KeyspaceAssumption DEF IInv, Sound, PutField, RunsWithValue
<1>2. argv \in Addr /\ obj[argv] # NULL /\ obj[argv].type = "string" /\ obj[argv].val \in Values
  BY <1>1, Argument
<1>3. /\ DOMAIN Content = DOMAIN dict
      /\ \A x \in DOMAIN dict : Content[x] = Entry(dict[x], obj) /\ Content[x].type = TypeOf(dict[x])
  BY ContentEntries DEF Entry, Kind, TypeOf
<1>4. CASE k \in DOMAIN dict /\ TypeOf(dict[k]) # t
  <2>1. UNCHANGED <<dict, obj>> /\ reply' = <<"wrongtype">>
    BY <1>4 DEF PutField
  <2>2. Content' = Content
    BY <2>1, ContentEntries
  <2>3. ~KM!IsA(k, t)
    BY <1>3, <1>4 DEF KM!IsA
  <2> QED
    BY <1>1, <1>2, <2>1, <2>2, <2>3 DEF KM!Put, KM!Answer
<1>5. CASE ~(k \in DOMAIN dict /\ TypeOf(dict[k]) # t)
  <2> DEFINE r == EncodedArg(t)
             heapOf(c) == IF k \in DOMAIN dict THEN obj ELSE WithObject(c, CollectionObject(t), obj)
  <2>1. PICK c \in IF k \in DOMAIN dict THEN {dict[k]} ELSE FreeAddr :
          /\ obj' = IncrRefCount(r, Stored(c, f, r, EncodedHeap(t, heapOf(c))))
          /\ dict' = Assign(dict, k, c) /\ argv' = r /\ reply' = <<"ok">>
    BY <1>5 DEF PutField, WithObject
  <2> DEFINE heap == heapOf(c)
             e == EncodedHeap(t, heap)
  <2>2. /\ c \in Addr /\ c # argv /\ \A x \in DOMAIN dict : x # k => dict[x] # c
        /\ heap[c] # NULL /\ heap[c].type = t /\ Shape(heap)
        /\ \A a \in Addr : a # c => heap[a] = obj[a]
        /\ k \in DOMAIN dict => dict[k] = c /\ heap = obj
        /\ k \notin DOMAIN dict => obj[c] = NULL /\ heap = WithObject(c, CollectionObject(t), obj)
                                   /\ heap[c].part = << >>
    <3>1. CASE k \in DOMAIN dict
      <4>1. c = dict[k] /\ TypeOf(c) = t /\ heap = obj
        BY <1>5, <2>1, <3>1
      <4>2. c \in Addr /\ obj[c].type = t /\ obj[c] # NULL
        BY <1>1, <3>1, <4>1, KeyThere DEF TypeOf, Ref
      <4>3. \A x \in DOMAIN dict : x # k => dict[x] # c
        BY <3>1, <4>1, <4>2, KeysApart
      <4> HIDE DEF heap
      <4> QED
        BY <1>1, <1>2, <3>1, <4>1, <4>2, <4>3
    <3>2. CASE k \notin DOMAIN dict
      <4>1. c \in Addr /\ obj[c] = NULL /\ heap = WithObject(c, CollectionObject(t), obj)
        BY <2>1, <3>2 DEF FreeAddr
      <4>2. \A x \in DOMAIN dict : dict[x] # c
        BY <4>1, KeyThere
      <4> DEFINE o == CollectionObject(t)
      <4>3. o # NULL /\ o.type = t /\ o.part = << >>
            /\ o = [type |-> o.type, val |-> o.val, ref |-> o.ref, part |-> o.part]
        BY <1>1, FreshObjects DEF CollectionObject
      <4> HIDE DEF o, heap
      <4>4. heap = [obj EXCEPT ![c] = o]
        BY <4>1 DEF WithObject, o
      <4>5. heap = [a \in Addr |-> heap[a]] /\ heap[c] = o /\ \A a \in Addr : a # c => heap[a] = obj[a]
        BY <1>1, <4>1, <4>4 DEF Shape
      <4>6. Shape(heap)
        BY <1>1, <4>3, <4>5 DEF Shape
      <4> QED
        BY <1>2, <3>2, <4>1, <4>2, <4>3, <4>5, <4>6
    <3> QED
      BY <3>1, <3>2
  <2> HIDE DEF heapOf
  <2>3. /\ Lasts(heap, e, NULL) /\ \A a \in Addr : a # argv \/ ~Shares(t) => e[a] = heap[a]
    <3> HIDE DEF heap
    <3>1. heap[argv] = obj[argv]
      BY <1>2, <2>2
    <3> QED
      BY <1>1, <2>2, <3>1, EncodedLasts
  <2>4. /\ Shares(t) => r \in SmallInts /\ r \notin Addr
        /\ ~Shares(t) => r = argv
        /\ r \in Ref
    BY <1>1, Encoded
  <2> HIDE DEF heap, e, r
  <2>5. \A d \in DOMAIN heap[c].part :
          heap[c].part[d] \in Addr =>
            heap[heap[c].part[d]] # NULL /\ heap[c].part[d] # c /\ heap[c].part[d] # argv
    <3> SUFFICES ASSUME NEW d \in DOMAIN heap[c].part, heap[c].part[d] \in Addr
                 PROVE  heap[heap[c].part[d]] # NULL /\ heap[c].part[d] # c /\ heap[c].part[d] # argv
      OBVIOUS
    <3>1. k \in DOMAIN dict
      <4>1. DOMAIN << >> = {}
        OBVIOUS
      <4> QED
        BY <2>2, <4>1
    <3>2. heap = obj /\ obj[c] # NULL
      BY <2>2, <3>1
    <3>3. obj[obj[c].part[d]] # NULL /\ obj[c].part[d] # c
      BY <2>2, <3>2, FieldThere DEF IInv
    <3>4. obj[c].part[d] # argv
      BY <1>1, <2>2, <3>2, ArgumentApart DEF Range
    <3> QED
      BY <3>2, <3>3, <3>4
  <2>6. /\ e[c] = heap[c] /\ Shape(e)
        /\ r \in Addr => e[r] # NULL /\ r # c /\ r \notin Range(e[c].part)
        /\ \A d \in DOMAIN e[c].part : e[c].part[d] \in Addr => e[e[c].part[d]] # NULL /\ e[c].part[d] # c
    <3>1. e[c] = heap[c] /\ Shape(e)
      BY <2>2, <2>3 DEF Lasts
    <3>2. r \in Addr => ~Shares(t) /\ r = argv /\ e[r] # NULL
      BY <1>2, <2>2, <2>3, <2>4
    <3>3. r \in Addr => r \notin Range(e[c].part)
      BY <2>5, <3>1, <3>2 DEF Range
    <3>4. \A d \in DOMAIN e[c].part : e[c].part[d] \in Addr => e[e[c].part[d]] # NULL /\ e[c].part[d] # c
      BY <2>3, <2>5, <3>1
    <3> QED
      BY <1>2, <2>2, <3>1, <3>2, <3>3, <3>4
  <2>7. /\ Lasts(e, obj', c)
        /\ obj'[c] # NULL => obj'[c].part = Assign(heap[c].part, f, r)
    BY <2>1, <2>2, <2>4, <2>6, StoredLasts DEF e, heap
  <2>8. Lasts(heap, obj', c)
    BY <2>3, <2>7, LastsThen
  <2>9. Keeps(obj, obj', c)
    <3>1. CASE k \in DOMAIN dict
      BY <2>2, <2>8, <3>1, LastsKeeps
    <3>2. CASE k \notin DOMAIN dict
      <4> DEFINE o == CollectionObject(t)
      <4>1. Lasts(WithObject(c, o, obj), obj', c) /\ obj[c] = NULL
        BY <2>2, <2>8, <3>2
      <4> HIDE DEF o
      <4> QED
        BY <1>1, <2>2, <4>1, NewKeeps
    <3> QED
      BY <3>1, <3>2
  <2>10. Content' = Assign(Content, k, Entry(c, obj'))
    BY <2>1, <2>2, <2>9, ContentAssigned
  <2>11. obj'[c] # NULL /\ obj'[c].type = t /\ obj'[c].part = Assign(heap[c].part, f, r)
    <3>1. k \in DOMAIN dict' /\ dict'[k] = c
      BY <2>1 DEF Assign
    <3> QED
      BY <2>2, <2>7, <2>8, <3>1, KeyThereNext DEF Lasts
  <2>12. Val(r, obj') = obj[argv].val
    <3>1. f \in DOMAIN obj'[c].part /\ obj'[c].part[f] = r
      BY <2>11 DEF Assign
    <3>2. r = argv => obj'[argv] # NULL
      BY <1>2, <2>2, <2>11, <3>1, FieldThere DEF IInv
    <3>3. r = argv => obj'[argv].type = "string" /\ obj'[argv].val = obj[argv].val
      BY <1>2, <2>9, <3>2 DEF Keeps
    <3> QED
      BY <1>1, <3>3, EncodedVal DEF r
  <2>13. [d \in DOMAIN obj'[c].part |-> Val(obj'[c].part[d], obj')] =
           Assign(KM!FieldsOf(k), f, obj[argv].val)
    <3> DEFINE F == KM!FieldsOf(k)
    <3>1. /\ DOMAIN F = DOMAIN heap[c].part
          /\ \A d \in DOMAIN F : k \in DOMAIN dict /\ F[d] = Val(obj[c].part[d], obj)
      <4>1. CASE k \in DOMAIN dict
        <5>1. F = Content[k].at /\ Content[k] = Entry(c, obj) /\ heap = obj
          BY <1>3, <2>2, <4>1 DEF KM!FieldsOf
        <5>2. Kind(c, obj) = t
          <6>1. TypeOf(dict[k]) = t /\ dict[k] = c
            BY <1>5, <2>2, <4>1
          <6> QED
            BY <6>1 DEF TypeOf, Kind
        <5>3. F = [d \in DOMAIN obj[c].part |-> Val(obj[c].part[d], obj)]
          BY <1>1, <5>1, <5>2 DEF Entry
        <5> QED
          BY <4>1, <5>1, <5>3
      <4>2. CASE k \notin DOMAIN dict
        <5>1. F = << >> /\ heap[c].part = << >>
          BY <1>3, <2>2, <4>2 DEF KM!FieldsOf
        <5>2. DOMAIN << >> = {}
          OBVIOUS
        <5> QED
          BY <5>1, <5>2
      <4> QED
        BY <4>1, <4>2
    <3> HIDE DEF F
    <3>2. /\ DOMAIN obj'[c].part = DOMAIN F \cup {f} /\ obj'[c].part[f] = r
          /\ \A d \in DOMAIN F : d # f => obj'[c].part[d] = heap[c].part[d]
      BY <2>11, <3>1 DEF Assign
    <3>3. ASSUME NEW d \in DOMAIN F, d # f PROVE Val(obj'[c].part[d], obj') = F[d]
      <4>1. k \in DOMAIN dict /\ heap = obj /\ d \in DOMAIN obj[c].part /\ d \in DOMAIN obj'[c].part
            /\ obj'[c].part[d] = obj[c].part[d] /\ obj[c] # NULL
        BY <2>2, <3>1, <3>2, <3>3
      <4>2. Sound(Roots, obj, argv) /\ Sound(Roots', obj', argv')
        BY DEF IInv
      <4>3. Val(obj'[c].part[d], obj') = Val(obj[c].part[d], obj)
        BY <2>2, <2>9, <2>11, <4>1, <4>2, SameFields
      <4> QED
        BY <3>1, <4>3
    <3> DEFINE p == obj'[c].part
               w == obj[argv].val
               V(d) == Val(p[d], obj')
    <3>4. DOMAIN p = DOMAIN F \cup {f} /\ V(f) = w /\ \A d \in DOMAIN F : d # f => V(d) = F[d]
      BY <2>12, <3>2, <3>3
    <3> HIDE DEF p, w, V
    <3>5. [d \in DOMAIN p |-> V(d)] = Assign(F, f, w)
      BY <3>4 DEF Assign
    <3> QED
      BY <3>5 DEF F, p, w, V
  <2>14. Entry(c, obj') = [type |-> t, at |-> Assign(KM!FieldsOf(k), f, obj[argv].val)]
    <3>1. c \notin SmallInts
      BY <2>2, KeyspaceAssumption
    <3>2. Kind(c, obj') = t
      BY <2>11, <3>1 DEF Kind
    <3> QED
      BY <1>1, <2>13, <3>2 DEF Entry
  <2>15. KM!IsA(k, t)
    BY <1>3, <1>5 DEF KM!IsA
  <2> QED
    BY <1>1, <1>2, <2>1, <2>10, <2>14, <2>15, MapOps DEF KM!Put, KM!Answer
<1> QED
  BY <1>4, <1>5

(* What KeyMap has for a key, against the program's own state. *)
LEMMA ContentAt ==
  ASSUME IInv
  PROVE  /\ DOMAIN Content = DOMAIN dict
         /\ \A k \in DOMAIN dict :
              /\ Content[k].type = TypeOf(dict[k])
              /\ TypeOf(dict[k]) = "string" =>
                   Content[k].at = Single(Self, ValueOf(dict[k]))
              /\ TypeOf(dict[k]) # "string" =>
                   Content[k].at = [f \in DOMAIN obj[dict[k]].part |-> ValueOf(obj[dict[k]].part[f])]
BY DEF Content

LEMMA RemoveFieldMaps ==
  ASSUME IInv, IInv', NEW k \in Keys, NEW t \in Collections, NEW f \in Fields, RemoveField(k, t, f)
  PROVE  KM!Remove(k, t, f) \/ UNCHANGED <<Content, reply>>
<1>1. reply = NULL /\ t # "string" /\ dict' = dict
  BY KeyspaceAssumption DEF RemoveField, Runs
<1>2. DOMAIN Content = DOMAIN dict /\ \A x \in DOMAIN dict : Content[x].type = TypeOf(dict[x])
  BY ContentAt
<1>3. obj' = obj => Content' = Content
  BY <1>1, ContentEntries
<1>4. CASE k \notin DOMAIN dict
  <2>1. reply' = AbsentReply /\ obj' = obj
    BY <1>4 DEF RemoveField
  <2>2. KM!Refusal(k, t) = {AbsentReply}
    BY <1>1, <1>2, <1>4 DEF KM!Refusal
  <2> QED
    BY <1>1, <1>3, <2>1, <2>2 DEF KM!Remove, KM!Answer
<1>5. CASE k \in DOMAIN dict /\ TypeOf(dict[k]) # t
  <2>1. reply' = <<"wrongtype">> /\ obj' = obj
    BY <1>5 DEF RemoveField
  <2>2. KM!Refusal(k, t) = {<<"wrongtype">>}
    BY <1>2, <1>5 DEF KM!Refusal
  <2> QED
    BY <1>1, <1>3, <2>1, <2>2 DEF KM!Remove, KM!Answer
<1>6. CASE k \in DOMAIN dict /\ TypeOf(dict[k]) = t
  <2> DEFINE c == dict[k]
             F == Content[k].at
  <2>1. KM!Refusal(k, t) = {}
    BY <1>2, <1>6 DEF KM!Refusal
  <2>2. /\ DOMAIN F = DOMAIN obj[c].part /\ F = [d \in DOMAIN F |-> F[d]]
        /\ \A d \in DOMAIN F : F[d] = Val(obj[c].part[d], obj)
    <3>1. F = [d \in DOMAIN obj[c].part |-> ValueOf(obj[c].part[d])]
      BY <1>1, <1>6, ContentAt
    <3> QED
      BY <3>1 DEF Val, ValueOf
  <2>3. Content = [x \in DOMAIN dict |-> Content[x]] /\ Content[k] = [type |-> t, at |-> F]
    <3>1. Content[k] = Entry(c, obj) /\ Content = [x \in DOMAIN dict |-> Content[x]]
      BY <1>6, ContentEntries
    <3>2. Content[k].type = t
      BY <1>2, <1>6
    <3> QED
      BY <3>1, <3>2 DEF Entry
  <2>4. CASE f \notin DOMAIN obj[c].part
    <3>1. obj' = obj /\ (reply' = reply \/ reply' = <<"zero">>)
      BY <1>6, <2>4 DEF RemoveField
    <3>2. Without(F, f) = F
      <4>1. DOMAIN F \ {f} = DOMAIN F
        BY <2>2, <2>4
      <4> HIDE DEF F
      <4> QED
        BY <2>2, <4>1 DEF Without, Restrict
    <3> HIDE DEF F
    <3>3. [Content EXCEPT ![k].at = Without(@, f)] = Content
      <4>1. [Content EXCEPT ![k].at = Without(@, f)] = [Content EXCEPT ![k].at = F]
        BY <3>2 DEF F
      <4>2. [Content[k] EXCEPT !.at = F] = Content[k]
        BY <2>3
      <4>3. [Content EXCEPT ![k].at = F] = [Content EXCEPT ![k] = [Content[k] EXCEPT !.at = F]]
        OBVIOUS
      <4> QED
        BY <2>3, <4>1, <4>2, <4>3
    <3> QED
      BY <1>1, <1>3, <2>1, <2>2, <2>4, <3>1, <3>3, MapOps DEF KM!Remove, KM!Answer, F
  <2>5. CASE f \in DOMAIN obj[c].part
    <3>1. /\ obj' = DecrStrings(Single(f, obj[c].part[f]), WithPart(c, Without(obj[c].part, f), obj))
          /\ reply' = <<"one">>
      BY <1>6, <2>5 DEF RemoveField, WithPart
    <3>2. c \in Addr /\ obj[c] # NULL /\ obj[c].type = t
      BY <1>1, <1>6, KeyThere DEF TypeOf, Ref
    <3>3. obj'[c] # NULL
      BY <1>1, <1>6, <3>2, KeyThereNext
    <3>4. /\ Sound(Roots, obj, argv) /\ Sound(Roots', obj', argv')
          /\ \A x \in DOMAIN dict : x # k => dict[x] # c
      BY <1>6, <3>2, KeysApart DEF IInv
    <3> HIDE DEF c
    <3>5. Lasts(obj, obj', c) /\ obj'[c].part = Without(obj[c].part, f)
      BY <2>5, <3>1, <3>2, <3>3, <3>4, RemovedLasts
    <3>6. Keeps(obj, obj', c)
      BY <3>5, LastsKeeps
    <3>7. \A x \in DOMAIN dict : x # k => Content'[x] = Content[x]
      BY <1>1, <3>4, <3>6, SameKey
    <3>8. Entry(c, obj') = [type |-> t, at |-> Without(F, f)]
      <4>1. Kind(c, obj') = t
        BY <3>2, <3>3, <3>5, KeyspaceAssumption DEF Kind, Lasts
      <4> DEFINE p == obj'[c].part
                 V(d) == Val(p[d], obj')
      <4>2. /\ DOMAIN p = DOMAIN F \ {f}
            /\ \A d \in DOMAIN p : d \in DOMAIN obj[c].part /\ p[d] = obj[c].part[d]
        BY <2>2, <3>5 DEF Without, Restrict
      <4>3. ASSUME NEW d \in DOMAIN p PROVE V(d) = F[d]
        <5>1. d \in DOMAIN obj[c].part /\ d \in DOMAIN obj'[c].part
              /\ obj'[c].part[d] = obj[c].part[d] /\ d \in DOMAIN F
          BY <4>2, <4>3
        <5>2. Val(obj'[c].part[d], obj') = Val(obj[c].part[d], obj)
          BY <3>2, <3>3, <3>4, <3>6, <5>1, SameFields
        <5> QED
          BY <2>2, <5>1, <5>2
      <4>4. [d \in DOMAIN obj'[c].part |-> Val(obj'[c].part[d], obj')] = [d \in DOMAIN p |-> V(d)]
        OBVIOUS
      <4> HIDE DEF p, V, F
      <4>5. [d \in DOMAIN p |-> V(d)] = Without(F, f)
        BY <4>2, <4>3 DEF Without, Restrict
      <4> QED
        BY <1>1, <4>1, <4>4, <4>5 DEF Entry
    <3>9. Content' = [x \in DOMAIN dict |-> Content'[x]] /\ Content'[k] = Entry(c, obj')
      BY <1>1, <1>6, ContentEntries DEF c
    <3> DEFINE w == Without(F, f)
    <3> HIDE DEF F, w
    <3>10. Content' = [Content EXCEPT ![k].at = w]
      <4>1. [Content[k] EXCEPT !.at = w] = [type |-> t, at |-> w]
        BY <2>3
      <4>2. Content'[k] = [type |-> t, at |-> w]
        BY <3>8, <3>9 DEF w
      <4>3. [Content EXCEPT ![k].at = w] = [Content EXCEPT ![k] = [Content[k] EXCEPT !.at = w]]
        OBVIOUS
      <4>4. [Content EXCEPT ![k].at = w] = [x \in DOMAIN dict |-> IF x = k THEN Content'[k] ELSE Content[x]]
        BY <1>2, <4>1, <4>2, <4>3
      <4> QED
        BY <3>7, <3>9, <4>4
    <3>11. f \in DOMAIN Content[k].at
      BY <2>2, <2>5 DEF F, c
    <3>12. Content' = [Content EXCEPT ![k].at = Without(@, f)]
      BY <3>10 DEF w, F
    <3> QED
      BY <1>1, <2>1, <3>1, <3>11, <3>12, MapOps DEF KM!Remove, KM!Answer
  <2> QED
    BY <2>4, <2>5
<1> QED
  BY <1>4, <1>5, <1>6

LEMMA OnlyLooks ==
  ASSUME IInv, Looks
  PROVE  Content' = Content /\ reply = NULL
BY ContentEntries DEF Looks, Runs, store

LEMMA GetMaps ==
  ASSUME IInv, NEW k \in Keys, RrCmdGet(k)
  PROVE  KM!Look(k, "string", Self)
<1>1. Content' = Content /\ reply = NULL
  BY OnlyLooks DEF RrCmdGet
<1>2. CASE k \notin DOMAIN dict
  <2>1. KM!Refusal(k, "string") = {<<"nil">>}
    BY <1>2, ContentAt DEF KM!Refusal
  <2>2. reply' = <<"nil">>
    BY <1>2 DEF RrCmdGet
  <2> QED
    BY <1>1, <2>1, <2>2 DEF KM!Look, KM!Answer
<1>3. CASE k \in DOMAIN dict /\ TypeOf(dict[k]) # "string"
  <2>1. KM!Refusal(k, "string") = {<<"wrongtype">>}
    BY <1>3, ContentAt DEF KM!Refusal
  <2>2. reply' = <<"wrongtype">>
    BY <1>3 DEF RrCmdGet
  <2> QED
    BY <1>1, <2>1, <2>2 DEF KM!Look, KM!Answer
<1>4. CASE k \in DOMAIN dict /\ TypeOf(dict[k]) = "string"
  <2>1. KM!Refusal(k, "string") = {} /\ Content[k].at = Single(Self, ValueOf(dict[k]))
    BY <1>4, ContentAt DEF KM!Refusal
  <2>2. reply' = <<"value", ValueOf(dict[k])>>
    BY <1>4 DEF RrCmdGet
  <2>3. Self \in DOMAIN Content[k].at /\ Content[k].at[Self] = ValueOf(dict[k])
    BY <2>1 DEF Single
  <2> QED
    BY <1>1, <2>1, <2>2, <2>3 DEF KM!Look, KM!Answer
<1> QED
  BY <1>2, <1>3, <1>4

LEMMA GetFieldMaps ==
  ASSUME IInv, NEW k \in Keys, NEW t \in Collections, NEW f \in Fields, GetField(k, t, f)
  PROVE  KM!Look(k, t, f)
<1>1. Content' = Content /\ reply = NULL /\ t # "string"
  BY OnlyLooks, KeyspaceAssumption DEF GetField
<1>2. CASE k \notin DOMAIN dict
  <2>1. KM!Refusal(k, t) = {AbsentReply}
    BY <1>1, <1>2, ContentAt DEF KM!Refusal
  <2>2. reply' = AbsentReply
    BY <1>2 DEF GetField
  <2> QED
    BY <1>1, <2>1, <2>2 DEF KM!Look, KM!Answer
<1>3. CASE k \in DOMAIN dict /\ TypeOf(dict[k]) # t
  <2>1. KM!Refusal(k, t) = {<<"wrongtype">>}
    BY <1>3, ContentAt DEF KM!Refusal
  <2>2. reply' = <<"wrongtype">>
    BY <1>3 DEF GetField
  <2> QED
    BY <1>1, <2>1, <2>2 DEF KM!Look, KM!Answer
<1>4. CASE k \in DOMAIN dict /\ TypeOf(dict[k]) = t
  <2>1. KM!Refusal(k, t) = {}
    BY <1>4, ContentAt DEF KM!Refusal
  <2>2. Content[k].at = [d \in DOMAIN obj[dict[k]].part |-> ValueOf(obj[dict[k]].part[d])]
    BY <1>1, <1>4, ContentAt
  <2>3. reply' = IF f \notin DOMAIN obj[dict[k]].part THEN <<"nil">>
                 ELSE <<"value", ValueOf(obj[dict[k]].part[f])>>
    BY <1>4 DEF GetField
  <2>4. /\ DOMAIN Content[k].at = DOMAIN obj[dict[k]].part
        /\ f \in DOMAIN Content[k].at => Content[k].at[f] = ValueOf(obj[dict[k]].part[f])
    BY <2>2
  <2>5. reply' = IF f \in DOMAIN Content[k].at THEN <<"value", Content[k].at[f]>> ELSE <<"nil">>
    BY <2>3, <2>4
  <2> QED
    BY <1>1, <2>1, <2>5 DEF KM!Look, KM!Answer
<1> QED
  BY <1>2, <1>3, <1>4

LEMMA KeyLooksMap ==
  ASSUME IInv, NEW k \in Keys
  PROVE  /\ RrCmdExists(k) => KM!Exists(k)
         /\ RrCmdType(k) => KM!Type(k)
<1>1. Looks => Content' = Content /\ reply = NULL
  BY OnlyLooks
<1>2. DOMAIN Content = DOMAIN dict /\ (k \in DOMAIN dict => Content[k].type = TypeOf(dict[k]))
  BY ContentAt
<1>3. RrCmdExists(k) => KM!Exists(k)
  BY <1>1, <1>2 DEF RrCmdExists, KM!Exists, KM!Answer
<1>4. RrCmdType(k) => KM!Type(k)
  BY <1>1, <1>2 DEF RrCmdType, KM!Type, KM!Answer
<1> QED
  BY <1>3, <1>4

LEMMA LenMaps ==
  ASSUME IInv, RrCmdLen
  PROVE  KM!Len
<1>1. Content' = Content /\ reply = NULL /\ DOMAIN Content = DOMAIN dict
  BY OnlyLooks, ContentAt DEF RrCmdLen
<1>2. KM!Cardinality(DOMAIN dict) = Cardinality(DOMAIN dict)
  BY Zenon DEF KM!Cardinality, Cardinality
<1> QED
  BY <1>1, <1>2 DEF RrCmdLen, KM!Len, KM!Answer

LEMMA NextMaps ==
  ASSUME IInv, IInv', [Next]_vars
  PROVE  [KM!Next]_<<Content, reply>>
<1>1. CASE UNCHANGED vars
  BY <1>1, ContentEntries DEF vars, store
<1>2. ASSUME NEW v \in Values, ReadRequest(v) PROVE UNCHANGED <<Content, reply>>
  BY <1>2, ReadRequestMaps
<1>3. CASE ResetClient
  BY <1>3, ResetClientMaps DEF KM!Next
<1>4. ASSUME NEW k \in Keys, RrCmdSet(k) PROVE KM!Next
  BY <1>4, SetMaps DEF KM!Next
<1>5. ASSUME NEW k \in Keys, RrCmdDel(k) PROVE KM!Next
  BY <1>5, DelMaps DEF KM!Next
<1>6. ASSUME NEW k \in Keys, RrCmdGet(k) PROVE KM!Next
  BY <1>6, GetMaps DEF KM!Next
<1>7. ASSUME NEW k \in Keys, RrCmdExists(k) PROVE KM!Next
  BY <1>7, KeyLooksMap DEF KM!Next
<1>8. ASSUME NEW k \in Keys, RrCmdType(k) PROVE KM!Next
  BY <1>8, KeyLooksMap DEF KM!Next
<1>9. ASSUME NEW k \in Keys, NEW t \in Collections, NEW f \in Fields, PutField(k, t, f) PROVE KM!Next
  BY <1>9, PutFieldMaps DEF KM!Next
<1>10. ASSUME NEW k \in Keys, NEW t \in Collections, NEW f \in Fields, RemoveField(k, t, f)
       PROVE  KM!Next \/ UNCHANGED <<Content, reply>>
  BY <1>10, RemoveFieldMaps DEF KM!Next
<1>11. ASSUME NEW k \in Keys, NEW t \in Collections, NEW f \in Fields, GetField(k, t, f) PROVE KM!Next
  BY <1>11, GetFieldMaps DEF KM!Next
<1>12. CASE RrCmdLen
  BY <1>12, LenMaps DEF KM!Next
<1>13. CASE FreeElement
  BY <1>13, FreeElementMaps
<1>14. CASE FreeShell
  BY <1>14, FreeShellMaps
<1> QED
  BY <1>1, <1>2, <1>3, <1>4, <1>5, <1>6, <1>7, <1>8, <1>9, <1>10, <1>11, <1>12, <1>13, <1>14 DEF Next

(* The key space implements KeyMap.  Commands that share, encode and        *)
(* overwrite objects, and a background thread that frees large values       *)
(* between them, show clients nothing but a map from keys to values.        *)
THEOREM KeyspaceImplementsKeyMap == Spec => Implements
<1>1. Init => KM!Init
  <2>1. Init => Content = << >>
    <3> HAVE Init
    <3>1. dict = << >> /\ DOMAIN << >> = {}
      BY DEF Init
    <3>2. Content = [k \in {} |-> Entry(dict[k], obj)]
      BY <3>1, ContentEntries
    <3> QED
      BY <3>2
  <2> QED
    BY <2>1 DEF Init, KM!Init
<1>2. IInv /\ [Next]_vars => IInv'
  BY NextIInv
<1>3. IInv /\ IInv' /\ [Next]_vars => [KM!Next]_<<Content, reply>>
  BY NextMaps
<1> QED
  BY <1>1, <1>2, <1>3, InitIInv, PTL DEF Spec, Implements, KM!Spec
=============================================================================
