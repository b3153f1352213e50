----------------------------- MODULE HeapQueue -----------------------------
(***************************************************************************)
(* The heap queue commands of rr_cmd_heapq.c on one key.  The arguments of *)
(* a request are objects with one reference, which rr_client_reset drops   *)
(* when the command is done; a queue holds one reference to each object in *)
(* it.  Scores are doubles; only their order matters, and NaN is refused.  *)
(***************************************************************************)
EXTENDS Integers, FiniteSets, Sequences, Shared

CONSTANTS
  Objects,    \* addresses of the objects pushed
  Scores,     \* the scores
  InitSlots,  \* slots of a new queue, 8 in createHeapqObject
  NULL

VARIABLES
  hq,      \* the heap of the queue, NULL while the key does not exist
  ref,     \* the reference count of each object, 0 when it is not allocated
  orphans, \* objects that were in a queue when it was freed
  reply    \* what the last command sent

vars == <<hq, ref, orphans, reply>>

HqItem == [score: Scores, obj: Objects]

hq_cmp(a, b) == a.score < b.score

H == INSTANCE MinHeap WITH Item <- HqItem, Junk <- NULL, Before <- hq_cmp

(* An address is one of finitely many, and NULL is that of no object,      *)
(* queue or queued item.                                                    *)
ASSUME HeapQueueAssumption ==
  /\ IsFiniteSet(Objects)
  /\ NULL \notin Objects \cup HqItem
  /\ NULL \notin H!Heap
  /\ Scores \subseteq Int
  /\ InitSlots \in Nat

Silent == [announced |-> 0, objects |-> << >>]

Init ==
  /\ hq = NULL
  /\ ref = [o \in Objects |-> 0]
  /\ orphans = {}
  /\ reply = Silent

Len0 == IF hq = NULL THEN 0 ELSE hq.len

Queued == {hq.elm[i].obj : i \in 1..Len0}

(* decrRefCount of each object of a set *)
Released(objs) == [o \in Objects |-> IF o \in objs THEN ref[o] - 1 ELSE ref[o]]

-----------------------------------------------------------------------------
(* The queue's reference is not counted. *)
BugRrCmdHqpush(o, s) ==
  /\ ref[o] = 0
  /\ hq' = H!Push(IF hq = NULL THEN H!Create(InitSlots) ELSE hq,
                  [score |-> s, obj |-> o])
  /\ reply' = Silent
  /\ UNCHANGED <<ref, orphans>>

(* qpush: the argument o is created with one reference, the queue adds one *)
(* and the reset of the client drops the first.                            *)
RrCmdHqpush(o, s) ==
  /\ ref[o] = 0
  /\ hq' = H!Push(IF hq = NULL THEN H!Create(InitSlots) ELSE hq,
                  [score |-> s, obj |-> o])
  /\ ref' = [ref EXCEPT ![o] = 1]
  /\ reply' = Silent
  /\ UNCHANGED orphans

(* A score that is not a float, or a count that is not an integer or is     *)
(* negative: an error reply.                                                *)
Refused ==
  /\ reply' = Silent
  /\ UNCHANGED <<hq, ref, orphans>>

(* rr_db_lookup_or_reply: to a command other than qpush on a key that does  *)
(* not exist shared.nullbulk is sent as a bulk.                             *)
AbsentQueue == [announced |-> 1, objects |-> <<NullBulk>>]

NoQueue ==
  /\ hq = NULL
  /\ reply' = AbsentQueue
  /\ UNCHANGED <<hq, ref, orphans>>

(* qpop and qpeek of a queue that is empty: a null reply. *)
NothingQueued ==
  /\ hq # NULL /\ hq.len = 0
  /\ Refused

RrCmdHqpop ==
  /\ Len0 > 0
  /\ LET p == H!Pop(hq)
     IN  /\ hq' = p.heap
         /\ reply' = [announced |-> 1, objects |-> <<p.item.obj>>]
         /\ ref' = Released({p.item.obj})
  /\ UNCHANGED orphans

RrCmdHqpeek ==
  /\ Len0 > 0
  /\ reply' = [announced |-> 1, objects |-> <<H!Min(hq).obj>>]
  /\ UNCHANGED <<hq, ref, orphans>>

(* The announced length is the count asked for. *)
BugAnnounced(n) == n

(* qpopn announces no more than there is. *)
Announced(n) == IF n < hq.len THEN n ELSE hq.len

RrCmdHqpopn(n) ==
  /\ hq # NULL
  /\ LET k   == IF n < hq.len THEN n ELSE hq.len
         p   == H!PopN(hq, k)
         out == [i \in 1..k |-> p.items[i].obj]
     IN  /\ hq' = p.heap
         /\ reply' = [announced |-> Announced(n), objects |-> out]
         /\ ref' = Released({out[i] : i \in 1..k})
  /\ UNCHANGED orphans

(* del: minheap_free hands its free callback the address of each slot, not *)
(* the object in it, so the objects keep the references of the queue.       *)
FreeHeapqObject ==
  /\ hq # NULL
  /\ hq' = NULL
  /\ orphans' = orphans \cup Queued
  /\ reply' = Silent
  /\ UNCHANGED ref

Next ==
  \/ \E o \in Objects, s \in Scores : RrCmdHqpush(o, s)
  \/ Refused
  \/ NoQueue
  \/ NothingQueued
  \/ RrCmdHqpop
  \/ RrCmdHqpeek
  \/ \E n \in 0..Cardinality(Objects) : RrCmdHqpopn(n)
  \/ FreeHeapqObject

Spec == Init /\ [][Next]_vars

-----------------------------------------------------------------------------
(* The heap is stored in order, in slots the array has given out; and the   *)
(* slots given out and those it believes to have left make up the block it  *)
(* has allocated, however often it grew and was drained.                    *)
HeapOrdered ==
  hq # NULL =>
    /\ hq \in H!Heap
    /\ hq.len <= Len(hq.elm)
    /\ \A i \in 1..Len(hq.elm) : i <= hq.len <=> hq.elm[i] # NULL
    /\ \A i \in 1..(hq.len - 1) :
         ~ hq_cmp(H!At(hq.elm, i), H!At(hq.elm, H!Parent(i)))
    /\ Len(hq.elm) + hq.nrest = hq.cap

(* An object has one reference while it is queued and none once it was      *)
(* popped, in whatever order objects come and go; only those in a queue     *)
(* that is deleted as a whole keep theirs for good.                         *)
ReferencesExact ==
  \A o \in Objects :
    ref[o] = Cardinality({i \in 1..Len0 : hq.elm[i].obj = o})
             + (IF o \in orphans THEN 1 ELSE 0)

(* The commands implement a priority queue: qpop, qpopn and qpeek serve the *)
(* objects with the least scores, in order, as many as announced.           *)
Content ==
  [o \in Queued |-> hq.elm[CHOOSE i \in 1..Len0 : hq.elm[i].obj = o].score]

PQ == INSTANCE PriorityQueue WITH content <- Content, Absent <- AbsentQueue

Implements == PQ!Spec
=============================================================================
