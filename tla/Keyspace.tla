------------------------------ MODULE Keyspace ------------------------------
(***************************************************************************)
(* The keys of one database (rr_db.c), the objects that hold their values  *)
(* with their reference counts (robj.c), and the background thread that    *)
(* frees large tries.  Commands run one after the other on the main        *)
(* thread; the background thread works between and during them, and the    *)
(* counts are plain integers.                                              *)
(*                                                                         *)
(* Of the task runner only its promise is used (TaskQueue, which BgTask    *)
(* implements).  A collection is abstracted to its fields with one object  *)
(* each: the value of a trie's key, an item of a queue, a document (which  *)
(* keeps its title alive exactly as long).  Keys are copied, so a request  *)
(* has one object that can outlive it: its value.                          *)
(***************************************************************************)
EXTENDS Integers, FiniteSets, Sequences, Maps, Shared

CONSTANTS
  Keys, Fields, Values,
  SmallInts,          \* the values that are integers below OBJ_SHARED_INTEGERS
  Addr,               \* addresses of objects
  Collections,        \* the types of collections
  Self,               \* the one field of a string, as clients see it
  Tasks,              \* tasks that may be handed to the background thread
  LazyfreeThreshold,  \* LAZYFREE_THRESHOLD
  NULL

(* A pointer to an object: an address, or one of shared.integers. *)
Ref == Addr \cup SmallInts

(* The fields of a collection, and an object (robj). *)
Parts == UNION {[S -> Ref] : S \in SUBSET Fields}

Object == [type: {"string"} \cup Collections, val: Values \cup {NULL}, ref: Nat, part: Parts]

ASSUME KeyspaceAssumption ==
  /\ SmallInts \subseteq Values
  /\ Addr \cap Values = {} /\ NULL \notin Addr \cup Values \cup Object \cup {<<"ok">>}
  /\ Collections \subseteq {"trie", "heapq", "fts"}
  /\ LazyfreeThreshold \in Nat \ {0}  \* 64

VARIABLES
  up,        \* the process has not crashed
  lazyfree,  \* server.lazyfree_server_del
  maxmem,    \* server.max_memory is not 0
  dict,      \* the keys of the database with their values
  obj,       \* the object at each address, NULL where none is allocated
  argv,      \* the value of the request in hand, NULL without one
  arg,       \* the object handed over with each task
  todo, finished,  \* the tasks, see TaskQueue
  orphans,   \* objects left behind by minheap_free
  reply      \* the reply to the command that ran, NULL before

config == <<lazyfree, maxmem>>
queue  == <<arg, todo, finished>>
store  == <<dict, obj, orphans>>
vars   == <<up, config, argv, queue, store, reply>>

TQ == INSTANCE TaskQueue

Init ==
  /\ up = TRUE
  /\ lazyfree \in BOOLEAN
  /\ maxmem \in BOOLEAN
  /\ dict = << >>
  /\ obj = [a \in Addr |-> NULL]
  /\ argv = NULL
  /\ arg = << >>
  /\ TQ!QueueInit
  /\ orphans = {}
  /\ reply = NULL

FreeAddr == {a \in Addr : obj[a] = NULL}

(* createStringObject *)
StringObject(v) == [type |-> "string", val |-> v, ref |-> 1, part |-> << >>]

(* createCollectionObject *)
CollectionObject(t) == [type |-> t, val |-> NULL, ref |-> 1, part |-> << >>]

TypeOf(r) == IF r \in SmallInts THEN "string" ELSE obj[r].type

PartOf(r) == IF r \in SmallInts THEN << >> ELSE obj[r].part

ValueOf(r) == IF r \in SmallInts THEN r ELSE obj[r].val

(* incrRefCount *)
IncrRefCount(r, heap) == IF r \in SmallInts THEN heap ELSE [heap EXCEPT ![r].ref = @ + 1]

(* decrRefCount of the strings in the fields of part *)
DecrStrings(part, heap) ==
  LET held(a) == Cardinality({f \in DOMAIN part : part[f] = a})
  IN  [a \in Addr |-> IF held(a) = 0 THEN heap[a]
                      ELSE IF heap[a].ref = held(a) THEN NULL
                      ELSE [heap[a] EXCEPT !.ref = @ - held(a)]]

(* What an object frees with itself.  minheap_free hands its callback the   *)
(* slots of the heap and not the objects in them.                           *)
Owned(o) == IF o.type = "heapq" THEN << >> ELSE o.part

(* decrRefCount *)
DecrRefCount(r, heap) ==
  IF r \in SmallInts THEN heap
  ELSE IF heap[r].ref # 1 THEN [heap EXCEPT ![r].ref = @ - 1]
  ELSE [DecrStrings(Owned(heap[r]), heap) EXCEPT ![r] = NULL]

(* The objects DecrRefCount(r, obj) leaves without an owner. *)
Orphaned(r) ==
  IF r \in Addr /\ obj[r].type = "heapq" /\ obj[r].ref = 1
  THEN Range(obj[r].part) \ SmallInts ELSE {}

-----------------------------------------------------------------------------
(* One command runs at a time, with the value of its request or without one. *)
RunsWithValue == up /\ argv # NULL /\ reply = NULL

Runs == up /\ argv = NULL /\ reply = NULL

(* A request with a value arrives: the object of its argument is created. *)
ReadRequest(v) ==
  /\ Runs
  /\ \E a \in FreeAddr : argv' = a /\ obj' = [obj EXCEPT ![a] = StringObject(v)]
  /\ UNCHANGED <<up, config, queue, dict, orphans, reply>>

(* The reply is sent off and rr_client_reset releases the argument. *)
ResetClient ==
  /\ up
  /\ reply # NULL
  /\ obj' = IF argv = NULL THEN obj ELSE DecrRefCount(argv, obj)
  /\ argv' = NULL
  /\ reply' = NULL
  /\ UNCHANGED <<up, config, queue, dict, orphans>>

(* tryObjectEncoding of the argument: a small integer is replaced by its    *)
(* shared object unless memory is limited, other values keep an object of   *)
(* their own.  set, rset and hqpush call it, dset does not.                 *)
Shares(t) == t # "fts" /\ ~maxmem /\ obj[argv].val \in SmallInts

EncodedArg(t) == IF Shares(t) THEN obj[argv].val ELSE argv

EncodedHeap(t, heap) == IF Shares(t) THEN DecrRefCount(argv, heap) ELSE heap

-----------------------------------------------------------------------------
(* get_lazyfree_effort: only a trie has the encoding whose size is counted. *)
FreeEffort(r) == IF TypeOf(r) = "trie" THEN Cardinality(DOMAIN PartOf(r)) ELSE 1

GoesLazily(k) == lazyfree /\ FreeEffort(dict[k]) > LazyfreeThreshold

(* rr_bgt_add_task with the value of key k. *)
AddTask(k) ==
  \E t \in Tasks \ DOMAIN arg :
    /\ arg' = Assign(arg, t, dict[k])
    /\ TQ!Submit(t)

(* The key stays while the background thread frees its value. *)
BugUnlinked(k) == IF GoesLazily(k) THEN dict ELSE Without(dict, k)

Unlinked(k) == Without(dict, k)

(* rr_db_del of a key that exists: the value is unlinked, then handed over  *)
(* or freed at once.                                                        *)
RrDbDel(k) ==
  /\ dict' = Unlinked(k)
  /\ IF GoesLazily(k)
     THEN AddTask(k) /\ UNCHANGED <<obj, orphans>>
     ELSE /\ obj' = DecrRefCount(dict[k], obj)
          /\ orphans' = orphans \cup Orphaned(dict[k])
          /\ UNCHANGED queue

(* A deletion is reported only where the value was freed at once. *)
BugRrCmdDel(k) ==
  /\ Runs
  /\ IF k \in DOMAIN dict
     THEN RrDbDel(k) /\ reply' = IF GoesLazily(k) THEN <<"zero">> ELSE <<"one">>
     ELSE reply' = <<"zero">> /\ UNCHANGED <<store, queue>>
  /\ UNCHANGED <<up, config, argv>>

RrCmdDel(k) ==
  /\ Runs
  /\ IF k \in DOMAIN dict
     THEN RrDbDel(k) /\ reply' = <<"one">>
     ELSE reply' = <<"zero">> /\ UNCHANGED <<store, queue>>
  /\ UNCHANGED <<up, config, argv>>

(* The heap once the value of key k is replaced: rr_db_del where it frees   *)
(* lazily, dict_set where it overwrites.                                    *)
Replaced(k) == IF GoesLazily(k) THEN obj ELSE DecrRefCount(dict[k], obj)

RrCmdSet(k) ==
  /\ RunsWithValue
  /\ IF k \in DOMAIN dict /\ GoesLazily(k) THEN AddTask(k) ELSE UNCHANGED queue
  /\ orphans' = orphans \cup (IF k \in DOMAIN dict THEN Orphaned(dict[k]) ELSE {})
  /\ LET heap == IF k \in DOMAIN dict THEN Replaced(k) ELSE obj
     IN  obj' = IncrRefCount(EncodedArg("string"), EncodedHeap("string", heap))
  /\ dict' = Assign(dict, k, EncodedArg("string"))
  /\ argv' = EncodedArg("string")
  /\ reply' = <<"ok">>
  /\ UNCHANGED <<up, config>>

-----------------------------------------------------------------------------
(* Commands on one field of a collection: rset, dset and hqpush store one,  *)
(* rdel, ddel and hqpop remove one.                                         *)

(* The value that is overwritten is not released. *)
BugStored(c, f, r, heap) == [heap EXCEPT ![c].part = Assign(@, f, r)]

(* Field f of collection c is r, and the value that was there is released. *)
Stored(c, f, r, heap) ==
  DecrStrings(Restrict(heap[c].part, {f} \cap DOMAIN heap[c].part),
              [heap EXCEPT ![c].part = Assign(@, f, r)])

(* rr_db_lookup_or_create, then the field.  A queue never overwrites. *)
PutField(k, t, f) ==
  /\ RunsWithValue
  /\ IF k \in DOMAIN dict /\ TypeOf(dict[k]) # t
     THEN /\ reply' = <<"wrongtype">>
          /\ UNCHANGED <<argv, dict, obj>>
     ELSE \E c \in IF k \in DOMAIN dict THEN {dict[k]} ELSE FreeAddr :
            LET heap == IF k \in DOMAIN dict THEN obj
                        ELSE [obj EXCEPT ![c] = CollectionObject(t)]
            IN  /\ t = "heapq" => f \notin DOMAIN heap[c].part
                /\ obj' = IncrRefCount(EncodedArg(t),
                            Stored(c, f, EncodedArg(t), EncodedHeap(t, heap)))
                /\ dict' = Assign(dict, k, c)
                /\ argv' = EncodedArg(t)
                /\ reply' = <<"ok">>
  /\ UNCHANGED <<up, config, queue, orphans>>

(* rr_db_lookup_or_reply: what its callers mean as the null reply goes out  *)
(* as a bulk, with a header of its own.                                     *)
AbsentReply == <<"value", NullBulk>>

(* rdel of a field that is not there passes NULL to decrRefCount, which     *)
(* reads through it: the process dies.  ddel replies instead.  Which item   *)
(* hqpop takes, and from an empty queue, is the subject of HeapQueue.       *)
RemoveField(k, t, f) ==
  /\ Runs
  /\ t = "heapq" => k \in DOMAIN dict /\ f \in DOMAIN PartOf(dict[k])
  /\ IF k \notin DOMAIN dict
     THEN reply' = AbsentReply /\ UNCHANGED <<up, obj>>
     ELSE LET c == dict[k]
          IN  IF TypeOf(c) # t
              THEN reply' = <<"wrongtype">> /\ UNCHANGED <<up, obj>>
              ELSE IF f \in DOMAIN obj[c].part
              THEN /\ obj' = DecrStrings(Single(f, obj[c].part[f]),
                                         [obj EXCEPT ![c].part = Without(@, f)])
                   /\ reply' = <<"one">>
                   /\ UNCHANGED up
              ELSE IF t = "trie"
              THEN up' = FALSE /\ UNCHANGED <<obj, reply>>
              ELSE reply' = <<"zero">> /\ UNCHANGED <<up, obj>>
  /\ UNCHANGED <<config, argv, queue, dict, orphans>>

-----------------------------------------------------------------------------
(* Commands that only look. *)
Looks ==
  /\ Runs
  /\ UNCHANGED <<up, config, argv, queue, store>>

RrCmdGet(k) ==
  /\ Looks
  /\ reply' = IF k \notin DOMAIN dict THEN <<"nil">>
              ELSE IF TypeOf(dict[k]) # "string" THEN <<"wrongtype">>
              ELSE <<"value", ValueOf(dict[k])>>

(* rget, dget *)
GetField(k, t, f) ==
  /\ t # "heapq"
  /\ Looks
  /\ reply' = IF k \notin DOMAIN dict THEN AbsentReply
              ELSE IF TypeOf(dict[k]) # t THEN <<"wrongtype">>
              ELSE IF f \notin DOMAIN obj[dict[k]].part THEN <<"nil">>
              ELSE <<"value", ValueOf(obj[dict[k]].part[f])>>

RrCmdExists(k) ==
  Looks /\ reply' = IF k \in DOMAIN dict THEN <<"one">> ELSE <<"zero">>

RrCmdType(k) ==
  Looks /\ reply' = IF k \in DOMAIN dict THEN <<"type", TypeOf(dict[k])>> ELSE <<"none">>

RrCmdLen == Looks /\ reply' = <<"length", Cardinality(DOMAIN dict)>>

-----------------------------------------------------------------------------
(* The background thread: decrRefCount of the value of the oldest task,     *)
(* one element at a time.                                                   *)
Victim == arg[Head(todo)]

FreeElement ==
  /\ up
  /\ todo # << >>
  /\ obj[Victim].ref = 1
  /\ \E f \in DOMAIN obj[Victim].part :
       obj' = DecrStrings(Single(f, obj[Victim].part[f]),
                          [obj EXCEPT ![Victim].part = Without(@, f)])
  /\ UNCHANGED <<up, config, argv, queue, dict, orphans, reply>>

FreeShell ==
  /\ up
  /\ todo # << >>
  /\ obj[Victim].ref = 1 => obj[Victim].part = << >>
  /\ obj' = DecrRefCount(Victim, obj)
  /\ TQ!Execute
  /\ UNCHANGED <<up, config, argv, arg, dict, orphans, reply>>

Next ==
  \/ \E v \in Values : ReadRequest(v)
  \/ ResetClient
  \/ \E k \in Keys :
       \/ RrCmdSet(k) \/ RrCmdDel(k) \/ RrCmdGet(k) \/ RrCmdExists(k) \/ RrCmdType(k)
       \/ \E t \in Collections, f \in Fields :
            PutField(k, t, f) \/ RemoveField(k, t, f) \/ GetField(k, t, f)
  \/ RrCmdLen
  \/ FreeElement
  \/ FreeShell

Spec == Init /\ [][Next]_vars

-----------------------------------------------------------------------------
Pending == {arg[t] : t \in Range(todo)}

(* The references to address a that the program holds: keys, the request,   *)
(* tasks, and the fields of the collections.                                *)
Holders(a) ==
  Cardinality({k \in DOMAIN dict : dict[k] = a})
  + (IF argv = a THEN 1 ELSE 0)
  + Cardinality({t \in Range(todo) : arg[t] = a})
  + Cardinality({p \in Addr \X Fields :
                   obj[p[1]] # NULL /\ p[2] \in DOMAIN obj[p[1]].part /\ obj[p[1]].part[p[2]] = a})

(* Every count equals the references the program holds, at every moment the *)
(* background thread may look: nothing is freed that is still used, and     *)
(* nothing but the items of a deleted queue is left behind.                 *)
RefCountsExact ==
  \A a \in Addr :
    IF obj[a] = NULL THEN Holders(a) = 0 /\ a \notin orphans
    ELSE obj[a].ref = Holders(a) + (IF a \in orphans THEN 1 ELSE 0)

Reach(rs) ==
  (rs \cup UNION {Range(obj[a].part) : a \in {b \in rs \cap Addr : obj[b] # NULL}}) \cap Addr

(* The counts are not atomic, so no object may be in reach of both threads: *)
(* what a task frees cannot be reached from a key or from the request, and  *)
(* no two tasks share an object.  Shared integers are never counted.        *)
OneThread ==
  /\ Reach(Range(dict) \cup {argv}) \cap Reach(Pending) = {}
  /\ \A s, t \in Range(todo) : s # t => Reach({arg[s]}) \cap Reach({arg[t]}) = {}

(* For clients none of this shows: the key space is a map from keys to      *)
(* values, whichever way values are shared, encoded, handed over or freed.  *)
Content ==
  [k \in DOMAIN dict |->
     [type |-> TypeOf(dict[k]),
      at   |-> IF TypeOf(dict[k]) = "string" THEN Single(Self, ValueOf(dict[k]))
               ELSE [f \in DOMAIN obj[dict[k]].part |-> ValueOf(obj[dict[k]].part[f])]]]

KM == INSTANCE KeyMap WITH content <- Content, Absent <- AbsentReply

Implements == KM!Spec

(* "You can use most of existing Redis clients [...] without any extra      *)
(* adaption" (README.md): to them a collection that does not exist is nil.  *)
NilMap == INSTANCE KeyMap WITH content <- Content, Absent <- <<"nil">>

AbsentIsNil == NilMap!Spec
=============================================================================
