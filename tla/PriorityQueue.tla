--------------------------- MODULE PriorityQueue ---------------------------
(***************************************************************************)
(* What the q commands promise: a queue of objects with scores from which  *)
(* objects are taken in the order of their scores, and a reply that holds  *)
(* as many objects as it announces.                                        *)
(***************************************************************************)
EXTENDS Integers, FiniteSets, Sequences

CONSTANTS
  Objects, Scores,
  Absent  \* the reply where there is no queue

VARIABLES
  content,  \* the objects queued, each with its score
  reply     \* the last reply: how many objects it announces, and the objects

Nothing == [announced |-> 0, objects |-> << >>]

Init == content = << >> /\ reply = Nothing

Push(o, s) ==
  /\ o \notin DOMAIN content
  /\ content' = [x \in DOMAIN content \cup {o} |->
                   IF x = o THEN s ELSE content[x]]
  /\ reply' = Nothing

(* The objects of the reply, first to last, are the first of the queue. *)
Served ==
  LET out == reply'.objects
  IN  /\ reply'.announced = Len(out)
      /\ \A i \in DOMAIN out : out[i] \in DOMAIN content
      /\ \A i, j \in DOMAIN out :
           i < j => out[i] # out[j] /\ content[out[i]] <= content[out[j]]
      /\ \A i \in DOMAIN out, o \in DOMAIN content :
           (\A j \in DOMAIN out : out[j] # o) => content[out[i]] <= content[o]

Take(n) ==
  /\ Served
  /\ Len(reply'.objects) =
       IF n < Cardinality(DOMAIN content) THEN n ELSE Cardinality(DOMAIN content)
  /\ content' = [o \in {x \in DOMAIN content :
                          \A i \in DOMAIN reply'.objects : reply'.objects[i] # x}
                   |-> content[o]]

Peek ==
  /\ Served
  /\ DOMAIN content # {} => Len(reply'.objects) = 1
  /\ UNCHANGED content

Clear == content' = << >> /\ reply' = Nothing

Refuse == reply' = Nothing /\ UNCHANGED content

(* A queue that does not exist has no objects, nor has one that was drained. *)
Miss == DOMAIN content = {} /\ reply' = Absent /\ UNCHANGED content

Next ==
  \/ \E o \in Objects, s \in Scores : Push(o, s)
  \/ \E n \in 0..Cardinality(Objects) : Take(n)
  \/ Peek
  \/ Clear
  \/ Refuse
  \/ Miss

Spec == Init /\ [][Next]_<<content, reply>>
=============================================================================
