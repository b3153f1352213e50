------------------------------- MODULE BgTask -------------------------------
(***************************************************************************)
(* The background task runner, rr_bgtask.c: the server's thread queues     *)
(* objects to be freed with rr_bgt_add_task, one worker thread per task    *)
(* type takes them from the head of the list (TASK_NTYPES is 1).  A step   *)
(* is what a thread does between two points where the other may run.       *)
(*                                                                         *)
(* The worker leaves a task's node in the list while it frees the object   *)
(* without holding the mutex, and deletes the node after locking again.    *)
(***************************************************************************)
EXTENDS Integers, Sequences, Lists

CONSTANTS
  Tasks,  \* the tasks (struct Task blocks) that are ever handed over
  NoTask

ASSUME TasksAssumption == NoTask \notin Tasks

VARIABLES
  lock,       \* who holds locks[type]
  waiting,    \* the worker is in the wait set of cons[type]
  tasks,      \* tasks[type]: the list of tasks, head first
  mpc,        \* where the server's thread is in rr_bgt_add_task
  mtask,      \* its local variable task
  wpc,        \* where the worker is in thread_handler
  wtask,      \* its local variables ln and task
  submitted,  \* tasks handed over so far
  freed       \* tasks whose object was released, in order

mainVars   == <<mpc, mtask, submitted>>
workerVars == <<wpc, wtask, freed>>
bgtVars == <<lock, waiting, tasks, mainVars, workerVars>>

Free   == "free"
Main   == "main"
Worker == "worker"

TypeOK ==
  /\ lock \in {Free, Main, Worker}
  /\ waiting \in BOOLEAN
  /\ tasks \in Seq(Tasks)
  /\ mpc \in {"idle", "lock", "append", "signal", "unlock"}
  /\ mtask \in Tasks \cup {NoTask}
  /\ wpc \in {"start", "check", "wait", "process", "relock", "delete"}
  /\ wtask \in Tasks \cup {NoTask}
  /\ submitted \subseteq Tasks
  /\ freed \in Seq(Tasks)

(* rr_bgt_init *)
BgtInit ==
  /\ lock = Free
  /\ waiting = FALSE
  /\ tasks = << >>
  /\ mpc = "idle"
  /\ mtask = NoTask
  /\ wpc = "start"
  /\ wtask = NoTask
  /\ submitted = {}
  /\ freed = << >>

-----------------------------------------------------------------------------
(* rr_bgt_add_task, on the server's thread. *)

AddTask(t) ==
  /\ mpc = "idle"
  /\ t \notin submitted
  /\ mtask' = t
  /\ submitted' = submitted \cup {t}
  /\ mpc' = "lock"
  /\ UNCHANGED <<lock, waiting, tasks, workerVars>>

AddLock ==
  /\ mpc = "lock"
  /\ lock = Free
  /\ lock' = Main
  /\ mpc' = "append"
  /\ UNCHANGED <<waiting, tasks, mtask, submitted, workerVars>>

(* Operators named Bug... are variants of the definition that follows them, *)
(* each with one mistake that could be made in the code.  No specification  *)
(* uses them.                                                               *)

(* A new task goes to the head of the list. *)
BugAddAppendAtHead ==
  /\ mpc = "append"
  /\ tasks' = AddNodeHead(tasks, mtask)
  /\ mpc' = "signal"
  /\ UNCHANGED <<lock, waiting, mtask, submitted, workerVars>>

(* The condition is not signalled. *)
BugAddAppendSilent ==
  /\ mpc = "append"
  /\ tasks' = AddNodeTail(tasks, mtask)
  /\ mpc' = "unlock"
  /\ UNCHANGED <<lock, waiting, mtask, submitted, workerVars>>

AddAppend ==
  /\ mpc = "append"
  /\ tasks' = AddNodeTail(tasks, mtask)
  /\ mpc' = "signal"
  /\ UNCHANGED <<lock, waiting, mtask, submitted, workerVars>>

(* The signal is for the condition of another task type. *)
BugAddSignalElsewhere ==
  /\ mpc = "signal"
  /\ mpc' = "unlock"
  /\ UNCHANGED <<lock, waiting, tasks, mtask, submitted, workerVars>>

AddSignal ==
  /\ mpc = "signal"
  /\ waiting' = FALSE
  /\ mpc' = "unlock"
  /\ UNCHANGED <<lock, tasks, mtask, submitted, workerVars>>

AddUnlock ==
  /\ mpc = "unlock"
  /\ lock' = Free
  /\ mpc' = "idle"
  /\ mtask' = NoTask
  /\ UNCHANGED <<waiting, tasks, submitted, workerVars>>

-----------------------------------------------------------------------------
(* thread_handler, on the worker. *)

WorkerStart ==
  /\ wpc = "start"
  /\ lock = Free
  /\ lock' = Worker
  /\ wpc' = "check"
  /\ UNCHANGED <<waiting, tasks, mainVars, wtask, freed>>

(* pthread_cond_wait releases the mutex and joins the wait set in one step. *)
WorkerWait ==
  /\ wpc = "check"
  /\ tasks = << >>
  /\ waiting' = TRUE
  /\ lock' = Free
  /\ wpc' = "wait"
  /\ UNCHANGED <<tasks, mainVars, wtask, freed>>

(* pthread_cond_wait may return without a signal. *)
SpuriousWakeup ==
  /\ waiting
  /\ waiting' = FALSE
  /\ UNCHANGED <<lock, tasks, mainVars, workerVars>>

WorkerWakeUp ==
  /\ wpc = "wait"
  /\ ~waiting
  /\ lock = Free
  /\ lock' = Worker
  /\ wpc' = "check"
  /\ UNCHANGED <<waiting, tasks, mainVars, wtask, freed>>

(* listFirst, then the mutex is released. *)
WorkerTake ==
  /\ wpc = "check"
  /\ tasks # << >>
  /\ wtask' = Head(tasks)
  /\ lock' = Free
  /\ wpc' = "process"
  /\ UNCHANGED <<waiting, tasks, mainVars, freed>>

(* decrRefCount of the object and rr_free of the task, without the mutex. *)
WorkerProcess ==
  /\ wpc = "process"
  /\ freed' = Append(freed, wtask)
  /\ wpc' = "relock"
  /\ UNCHANGED <<lock, waiting, tasks, mainVars, wtask>>

WorkerRelock ==
  /\ wpc = "relock"
  /\ lock = Free
  /\ lock' = Worker
  /\ wpc' = "delete"
  /\ UNCHANGED <<waiting, tasks, mainVars, wtask, freed>>

(* The node stays in the list. *)
BugWorkerDeleteForgets ==
  /\ wpc = "delete"
  /\ wtask' = NoTask
  /\ wpc' = "check"
  /\ UNCHANGED <<lock, waiting, tasks, mainVars, freed>>

(* listDelNode unlinks the node taken before, wherever it is by now. *)
WorkerDelete ==
  /\ wpc = "delete"
  /\ \E i \in DOMAIN tasks : tasks[i] = wtask /\ tasks' = DelNode(tasks, i)
  /\ wtask' = NoTask
  /\ wpc' = "check"
  /\ UNCHANGED <<lock, waiting, mainVars, freed>>

-----------------------------------------------------------------------------
MainStep == AddLock \/ AddAppend \/ AddSignal \/ AddUnlock

WorkerStep ==
  \/ WorkerStart \/ WorkerWait \/ WorkerWakeUp
  \/ WorkerTake \/ WorkerProcess \/ WorkerRelock \/ WorkerDelete

BgtNext ==
  \/ \E t \in Tasks : AddTask(t)
  \/ MainStep
  \/ WorkerStep
  \/ SpuriousWakeup

BgtSpec == BgtInit /\ [][BgtNext]_bgtVars

(* The threads run, and a thread that wants the mutex gets it if it is      *)
(* released again and again.  Nothing is assumed about spurious wakeups.    *)
Fairness ==
  /\ WF_bgtVars(MainStep)
  /\ SF_bgtVars(AddLock)
  /\ WF_bgtVars(WorkerStep)
  /\ SF_bgtVars(WorkerStart \/ WorkerWakeUp \/ WorkerRelock)

FairBgtSpec == BgtSpec /\ Fairness

-----------------------------------------------------------------------------
(* Safety. *)

(* The list is only touched with the mutex held, by either thread. *)
ListGuarded ==
  /\ mpc \in {"append", "signal", "unlock"} <=> lock = Main
  /\ wpc \in {"check", "delete"} <=> lock = Worker

(* While the worker works without the mutex, the node it took stays the     *)
(* head of the list, whatever rr_bgt_add_task does meanwhile: the node it   *)
(* deletes later is the one whose task it carried out.                      *)
Holding == wpc \in {"process", "relock", "delete"}

HeldNodeIsHead == Holding => tasks # << >> /\ Head(tasks) = wtask

(* A worker that is waiting to be woken while there is work is about to be  *)
(* signalled: the signal cannot fall between its test of the list's length  *)
(* and pthread_cond_wait.                                                   *)
NoLostWakeup == waiting /\ tasks # << >> => mpc = "signal"

(* No object is released twice, and none that was not handed over; one that *)
(* is released is not still queued, but for the node about to be deleted.   *)
Todo == IF wpc \in {"relock", "delete"} THEN Tail(tasks) ELSE tasks

ReleasedOnce ==
  /\ Distinct(freed)
  /\ Elems(freed) \subseteq submitted
  /\ Elems(Todo) \cap Elems(freed) = {}

(* The inductive invariant. *)
Fresh ==
  /\ mpc \in {"lock", "append"} =>
       mtask \in Tasks \ (Elems(tasks) \cup Elems(freed)) /\ mtask \in submitted
  /\ Elems(tasks) \subseteq submitted
  /\ Distinct(tasks)

BgtInv ==
  /\ TypeOK /\ ListGuarded /\ HeldNodeIsHead /\ NoLostWakeup /\ ReleasedOnce /\ Fresh
  /\ waiting => wpc = "wait"

-----------------------------------------------------------------------------
(* The runner implements the queue of its interface: rr_bgt_add_task takes  *)
(* effect at the append, a task when its object is released.                *)
Q == INSTANCE TaskQueue WITH todo <- Todo, finished <- freed

Implements == Q!QueueSpec

(* With fair threads every task handed over is carried out in the end.      *)
ImplementsFairly == Q!FairQueueSpec
=============================================================================
