------------------------------- MODULE Server -------------------------------
(***************************************************************************)
(* The server process: Startup, and once it runs the event loop with its   *)
(* cron timer, whose period comes from the configuration.                  *)
(***************************************************************************)
EXTENDS Startup, Timers

VARIABLE cronloops  \* server.cronloops, odd or even

vars == <<startupVars, timerVars, cronloops>>

Init ==
  /\ StartupInit
  /\ TimersInit
  /\ cronloops = 0

Starts ==
  /\ Boot
  /\ UNCHANGED <<timerVars, cronloops>>

(* The last steps of rr_server_init: the first run is one millisecond away. *)
StartsCron ==
  /\ Databases
  /\ AddTimer(1)
  /\ UNCHANGED cronloops

(* 1000/server.hz, rounded towards zero. *)
Period == LET hz == cfg["cron_frequency"]
          IN  IF hz > 0 THEN MsPerSec \div hz ELSE -(MsPerSec \div (-hz))

(* server_cron returns the period; a frequency of 0 ends the process.       *)
(* What else it does is the subject of ClientLifecycle.                     *)
ServerCron ==
  /\ pc = "running"
  /\ IF cfg["cron_frequency"] = 0
     THEN at = "process" /\ IsPast(due) /\ pc' = "fault" /\ UNCHANGED <<timerVars, cronloops>>
     ELSE /\ RunTimer(Period)
          /\ cronloops' = 1 - cronloops
          /\ UNCHANGED pc
  /\ UNCHANGED <<parsing, resources>>

Loop ==
  \/ pc = "running" /\ (GetTimeout \/ PollTimesOut \/ NotDue) /\ UNCHANGED <<startupVars, cronloops>>
  \/ ServerCron

(* Something happens on a descriptor, or a signal arrives. *)
Interrupt == pc = "running" /\ PollInterrupted /\ UNCHANGED <<startupVars, cronloops>>

(* Time also passes before the timer is added. *)
Time == pc \in {"timer", "running"} /\ Tick /\ UNCHANGED <<startupVars, cronloops>>

Next == Starts \/ StartsCron \/ Loop \/ Interrupt \/ Time

(* The process is scheduled, and time passes; nothing else has to happen. *)
Spec == Init /\ [][Next]_vars /\ WF_vars(Loop) /\ WF_vars(Time)

(* The cron job of a running server runs again and again, whatever          *)
(* frequency the file names and the handler accepts, and however busy the   *)
(* loop is: nothing else closes clients asynchronously or obeys a signal.   *)
CronRuns ==
  \A n \in {0, 1} :
    (pc = "running" /\ "cron_frequency" \in named /\ cronloops = n)
      ~> (pc # "running" \/ cronloops # n)
=============================================================================
