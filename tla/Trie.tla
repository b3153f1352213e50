-------------------------------- MODULE Trie --------------------------------
(***************************************************************************)
(* One trie of the keyspace: the crit-bit tree of rr_dict.c with the       *)
(* commands of rr_cmd_trie.c.  A pointer to a Dict is the path from the    *)
(* root, a sequence of directions; the tree maps the paths it has to       *)
(* leaves (a key and its value) and inner nodes (the byte and the bit at   *)
(* which the keys of the two children part).                               *)
(*                                                                         *)
(* A key is a sequence of non-zero bytes (a C string); a value is an       *)
(* object, of which the references held by the trie are counted.  Failing  *)
(* allocations are left out.                                               *)
(***************************************************************************)
EXTENDS Integers, FiniteSetsExt, SequencesExt, Maps

CONSTANTS
  Keys,      \* the keys clients use
  Asked,     \* the prefixes they ask for
  Values     \* the objects they store

NoValue == "NULL"   \* what dict_get and dict_del return for an absent key

ASSUME TrieAssumption ==
  /\ \A k \in Keys \cup Asked : k \in Seq(1 .. 255)
  /\ IsFiniteSet(Keys)
  /\ << >> \in Asked
  /\ NoValue \notin Values

VARIABLES
  tree,    \* dict->dict, what is at each path
  size,    \* dict->size
  refs,    \* for each object, the references to it that the trie holds
  stack,   \* iter->stack, paths, the top first
  kvs,     \* the pairs collected for the reply
  prefix,  \* the prefix asked for
  pc       \* "idle", "list" while an iterator runs, or the NULL dereference
           \* that ended the server: "no key" in rdel, "no prefix" in rpget

dictVars == <<tree, size, refs>>
iterVars == <<stack, kvs, prefix>>
trieVars == <<dictVars, iterVars, pc>>

NoTree == << >>   \* no paths
Root  == << >>   \* the path of length 0

Leaf(k, v) == [kind |-> "leaf", key |-> k, val |-> v]

Node(byte, bit) == [kind |-> "node", byte |-> byte, bit |-> bit]

IsLeaf(p) == tree[p].kind = "leaf"

Leaves == {p \in DOMAIN tree : IsLeaf(p)}

Up(p, i) == SubSeq(p, 1, i)   \* the first i steps of p

Below(p) == {q \in DOMAIN tree : IsPrefix(p, q)}

(* dict_create: the trie is empty, as it is again when its last key is gone. *)
TrieInit ==
  /\ tree = NoTree /\ size = 0
  /\ refs = [v \in Values |-> 0]
  /\ stack = << >> /\ kvs = << >> /\ prefix = << >>
  /\ pc = "idle"

-----------------------------------------------------------------------------
(* Operators named Bug... are variants of the definition that follows them, *)
(* each with one mistake that could be made in the code.  No specification  *)
(* uses them.                                                               *)

Bit(byte, i) == (byte \div 2^i) % 2

(* The byte at index i, counted from 0; the terminating zero behind the end. *)
ByteAt(k, i) == IF i < Len(k) THEN k[i + 1] ELSE 0

Direction(k, p) == Bit(ByteAt(k, tree[p].byte), tree[p].bit)

(* closest: the leaf at the end of the path that k's bits choose. *)
Closest(k) ==
  CHOOSE p \in Leaves : \A i \in DOMAIN p : p[i] = Direction(k, Up(p, i - 1))

(* dict_get *)
Get(k) ==
  IF tree = NoTree \/ tree[Closest(k)].key # k THEN NoValue ELSE tree[Closest(k)].val

(* The first byte at which two keys differ, the terminating zero included. *)
DiffByte(k, l) ==
  Min({i \in 0 .. Len(k) : ByteAt(k, i) # ByteAt(l, i)})

(* The lowest differing bit. *)
BugDiffBit(a, b) == Min({i \in 0 .. 7 : Bit(a, i) # Bit(b, i)})

(* The highest differing bit. *)
DiffBit(a, b) == Max({i \in 0 .. 7 : Bit(a, i) # Bit(b, i)})

(* Bit numbers are compared forwards. *)
BugPartsBelow(p, byte, bit) ==
  tree[p].byte > byte \/ (tree[p].byte = byte /\ tree[p].bit > bit)

(* The keys below p part after the given bit. *)
PartsBelow(p, byte, bit) ==
  tree[p].byte > byte \/ (tree[p].byte = byte /\ tree[p].bit < bit)

(* What is below one path, put below another. *)
Moved(from, to) ==
  LET rest(p, q) == SubSeq(p, Len(q) + 1, Len(p))
  IN  [p \in {to \o rest(q, from) : q \in Below(from)} |-> tree[from \o rest(p, to)]]

(* dict_set, a new key: a node for the new bit on the path of the key,      *)
(* above the first node that parts at a later one.                          *)
Insert(k, v, byte, bit) ==
  LET path == Closest(k)
      at   == Up(path, Min({i \in 0 .. Len(path) :
                              IsLeaf(Up(path, i)) \/ PartsBelow(Up(path, i), byte, bit)}))
      dir  == Bit(ByteAt(k, byte), bit)
      kept == Restrict(tree, DOMAIN tree \ Below(at))
  IN  Override(Assign(Assign(kept, at, Node(byte, bit)), Append(at, dir), Leaf(k, v)),
               Moved(at, Append(at, 1 - dir)))

(* dict_del: the sibling of the leaf takes the place of their parent. *)
Delete(k) ==
  LET path   == Closest(k)
      parent == Front(path)
  IN  IF path = Root THEN NoTree
      ELSE Override(Restrict(tree, DOMAIN tree \ Below(parent)),
                    Moved(Append(parent, 1 - Last(path)), parent))

(* The strncmp with the key found is left out. *)
BugMatches(p, k) == TRUE

Matches(p, k) == IsPrefix(p, k)

(* The top is lowered at nodes behind the prefix too. *)
BugTop(p) == Closest(p)

(* The matching keys are below the last node of the path that parts within  *)
(* the prefix.                                                              *)
Top(p) ==
  LET path == Closest(p)
  IN  Up(path, Max({0} \cup {i \in DOMAIN path : tree[Up(path, i - 1)].byte < Len(p)}))

(* dict_has_prefix: get_prefix does not return an empty tree. *)
HasPrefix(p) == tree # NoTree /\ Matches(p, tree[Closest(p)].key)

-----------------------------------------------------------------------------
(* rr_cmd_rset, rr_cmd_rdel and the deletion of the trie.                   *)

(* The reference to the old value is kept. *)
BugRsetOverwrite(k, v) ==
  /\ pc = "idle"
  /\ Get(k) # NoValue
  /\ tree' = [tree EXCEPT ![Closest(k)].val = v]
  /\ refs' = [refs EXCEPT ![v] = @ + 1]
  /\ UNCHANGED <<size, iterVars, pc>>

RsetOverwrite(k, v) ==
  /\ pc = "idle"
  /\ Get(k) # NoValue
  /\ tree' = [tree EXCEPT ![Closest(k)].val = v]
  /\ refs' = [[refs EXCEPT ![Get(k)] = @ - 1] EXCEPT ![v] = @ + 1]
  /\ UNCHANGED <<size, iterVars, pc>>

RsetNew(k, v) ==
  /\ pc = "idle"
  /\ Get(k) = NoValue
  /\ tree' = IF tree = NoTree THEN Single(Root, Leaf(k, v))
             ELSE LET near == tree[Closest(k)].key
                      byte == DiffByte(k, near)
                  IN  Insert(k, v, byte, DiffBit(ByteAt(k, byte), ByteAt(near, byte)))
  /\ size' = size + 1
  /\ refs' = [refs EXCEPT ![v] = @ + 1]
  /\ UNCHANGED <<iterVars, pc>>

(* The size is not counted down with the last key. *)
BugRdel(k) ==
  /\ pc = "idle"
  /\ Get(k) # NoValue
  /\ tree' = Delete(k)
  /\ size' = IF size = 1 THEN size ELSE size - 1
  /\ refs' = [refs EXCEPT ![Get(k)] = @ - 1]
  /\ UNCHANGED <<iterVars, pc>>

Rdel(k) ==
  /\ pc = "idle"
  /\ Get(k) # NoValue
  /\ tree' = Delete(k)
  /\ size' = size - 1
  /\ refs' = [refs EXCEPT ![Get(k)] = @ - 1]
  /\ UNCHANGED <<iterVars, pc>>

(* decrRefCount(NULL) *)
RdelAbsent(k) ==
  /\ pc = "idle"
  /\ Get(k) = NoValue
  /\ pc' = "no key"
  /\ UNCHANGED <<dictVars, iterVars>>

(* dict_clear, when the last reference to the trie is dropped *)
Clear ==
  /\ pc = "idle"
  /\ tree' = NoTree /\ size' = 0
  /\ refs' = [v \in Values |-> refs[v] - Cardinality({p \in Leaves : tree[p].val = v})]
  /\ UNCHANGED <<iterVars, pc>>

-----------------------------------------------------------------------------
(* rr_cmd_rpget, rr_cmd_rkeys, rr_cmd_rvalues, rr_cmd_rgetall.              *)

(* The way from p down to its first leaf, the leaf first. *)
Descend(p) ==
  LET first == CHOOSE q \in Below(p) \cap Leaves : \A i \in Len(p) + 1 .. Len(q) : q[i] = 0
  IN  [i \in 1 .. Len(first) - Len(p) + 1 |-> Up(first, Len(first) + 1 - i)]

(* iter_create *)
IterCreate(p) == IF size = 0 THEN << >> ELSE Descend(p)

Rgetall ==
  /\ pc = "idle"
  /\ prefix' = << >>
  /\ stack' = IterCreate(Root)
  /\ pc' = "list"
  /\ UNCHANGED <<dictVars, kvs>>

Rpget(p) ==
  /\ pc = "idle"
  /\ size = 0 \/ HasPrefix(p)
  /\ prefix' = p
  /\ stack' = IterCreate(Top(p))
  /\ pc' = "list"
  /\ UNCHANGED <<dictVars, kvs>>

(* iter_create descends from the empty tree of get_prefix: its child        *)
(* pointer is NULL.                                                         *)
RpgetAbsent(p) ==
  /\ pc = "idle"
  /\ size # 0 /\ ~HasPrefix(p)
  /\ pc' = "no prefix"
  /\ UNCHANGED <<dictVars, iterVars>>

(* The inner node on top gives way to its right child. *)
Advance(s) == IF s = << >> THEN s ELSE Descend(Append(Head(s), 1)) \o Tail(s)

(* dict_iter_next *)
IterNext ==
  /\ pc = "list"
  /\ stack # << >>
  /\ kvs' = Append(kvs, <<tree[Head(stack)].key, tree[Head(stack)].val>>)
  /\ stack' = Advance(Tail(stack))
  /\ UNCHANGED <<dictVars, prefix, pc>>

ListDone ==
  /\ pc = "list"
  /\ stack = << >>
  /\ kvs' = << >>
  /\ prefix' = << >>
  /\ pc' = "idle"
  /\ UNCHANGED <<dictVars, stack>>

TrieNext ==
  \/ \E k \in Keys, v \in Values : RsetOverwrite(k, v) \/ RsetNew(k, v)
  \/ \E k \in Keys : Rdel(k) \/ RdelAbsent(k)
  \/ Clear
  \/ Rgetall
  \/ \E p \in Asked : Rpget(p) \/ RpgetAbsent(p)
  \/ IterNext \/ ListDone

TrieSpec == TrieInit /\ [][TrieNext]_trieVars

-----------------------------------------------------------------------------
(* What dict_get finds. *)
content == LET found == [k \in Keys |-> Get(k)]
           IN  Restrict(found, {k \in Keys : found[k] # NoValue})

Map == INSTANCE TrieMap

TypeOK ==
  /\ size \in 0 .. Cardinality(Keys)
  /\ refs \in [Values -> 0 .. Cardinality(Keys)]
  /\ prefix \in Asked
  /\ pc \in {"idle", "list", "no key", "no prefix"}

(* dict_set and dict_del change what dict_get finds at their key and at no  *)
(* other: no sequence of insertions and deletions, of keys that share       *)
(* prefixes or end where others go on, moves a key off the path on which it *)
(* is looked up.                                                            *)
ImplementsMap == Map!Spec

(* The length that rlen reports, and that iter_create trusts to tell an     *)
(* empty tree, is the number of keys that can be found.                     *)
SizeExact == size = Cardinality(DOMAIN content)

(* The trie holds one reference to a value for each key that has it: values *)
(* overwritten, deleted or cleared away are released once.                  *)
ValuesReferenced ==
  LET c == content
  IN  \A v \in Values : refs[v] = Cardinality({k \in DOMAIN c : c[k] = v})

KeysBelow(p) == {tree[q].key : q \in Below(p) \cap Leaves}

(* The keys below a node agree on all bits before the node's and are in the *)
(* child for the value of that bit.  Bits of a byte go from high to low,    *)
(* the subtle point of the comment in dict_set.                             *)
CritBits ==
  TypeOK /\ \A p \in DOMAIN tree \ Leaves :
    /\ \A k, l \in KeysBelow(p) :
         /\ \A i \in 0 .. tree[p].byte - 1 : ByteAt(k, i) = ByteAt(l, i)
         /\ \A i \in tree[p].bit + 1 .. 7 :
              Bit(ByteAt(k, tree[p].byte), i) = Bit(ByteAt(l, tree[p].byte), i)
    /\ \A d \in {0, 1} : \A k \in KeysBelow(Append(p, d)) : Direction(k, p) = d

(* The order of strcmp. *)
Before(k, l) ==
  \E i \in 0 .. Len(k) :
    ByteAt(k, i) < ByteAt(l, i) /\ \A j \in 0 .. i - 1 : ByteAt(k, j) = ByteAt(l, j)

(* The assertions of dict_iter_next: the top of the stack is a leaf, and    *)
(* what is below it is not.                                                 *)
IteratorAsserts ==
  \A i \in DOMAIN stack : IsLeaf(stack[i]) <=> i = 1

(* rpget and rgetall reply with exactly the keys that have the prefix, each *)
(* once and with its value, in the order that test_dict.c expects, and the  *)
(* assertions of dict_iter_next hold all the way.                           *)
ListsMatching ==
  /\ IteratorAsserts
  /\ pc = "list" /\ stack = << >> =>
      /\ LET c == content
         IN  ToSet(kvs) = {<<k, c[k]>> : k \in {x \in DOMAIN c : IsPrefix(prefix, x)}}
      /\ \A i, j \in DOMAIN kvs : i < j => Before(kvs[i][1], kvs[j][1])

(* dict_has_prefix answers whether any key has the prefix. *)
HasPrefixExact ==
  LET c == content
  IN  \A p \in Asked : HasPrefix(p) <=> \E k \in DOMAIN c : IsPrefix(p, k)
=============================================================================
