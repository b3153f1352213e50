------------------------------ MODULE TaskQueue ------------------------------
(***************************************************************************)
(* What rr_bgtask.h promises its callers: a task handed to rr_bgt_add_task *)
(* is carried out once, later, by somebody else, and tasks are carried out *)
(* in the order in which they were handed over.                            *)
(***************************************************************************)
EXTENDS Sequences

CONSTANT Tasks

VARIABLES
  todo,     \* tasks handed over and not yet carried out, oldest first
  finished  \* tasks carried out, in that order

queueVars == <<todo, finished>>

QueueInit == todo = << >> /\ finished = << >>

Known == {todo[i] : i \in DOMAIN todo} \cup {finished[i] : i \in DOMAIN finished}

Submit(t) ==
  /\ t \notin Known
  /\ todo' = Append(todo, t)
  /\ UNCHANGED finished

Execute ==
  /\ todo # << >>
  /\ finished' = Append(finished, Head(todo))
  /\ todo' = Tail(todo)

QueueNext == Execute \/ \E t \in Tasks : Submit(t)

QueueSpec == QueueInit /\ [][QueueNext]_queueVars

FairQueueSpec == QueueSpec /\ WF_queueVars(Execute)
=============================================================================
