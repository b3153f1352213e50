------------------------------- MODULE Timers -------------------------------
(***************************************************************************)
(* The timer of the event loop: when it is due, how long el_main sleeps    *)
(* for it and when it runs (rr_event.c, rr_datetime.c).  The server has    *)
(* one timer, its cron job, so the heap of timers has one entry.           *)
(*                                                                         *)
(* Time is what gettimeofday returns, in seconds and milliseconds.  The    *)
(* code only compares and subtracts, so seconds are kept relative to the   *)
(* current one: when the second turns, that of the timer is one closer.    *)
(***************************************************************************)
EXTENDS Integers

CONSTANTS
  MsPerSec,  \* 1000
  MaxLag,    \* bound: how far behind the loop may fall, in milliseconds
  NoTimer    \* no timer, and so no end to a sleep

ASSUME TimersAssumption ==
  /\ MsPerSec \in Nat \ {0}
  /\ MaxLag \in Nat
  /\ NoTimer \notin Int /\ NoTimer \notin [sec: Int, ms: Int]

VARIABLES
  ms,    \* milliseconds of the current second
  due,   \* when the timer is due, NoTimer when there is none
  left,  \* milliseconds left to sleep, NoTimer for ever
  at     \* where el_main is: "prepare", "poll" or "process"

timerVars == <<ms, due, left, at>>

TimersInit ==
  /\ ms = 0
  /\ due = NoTimer
  /\ left = NoTimer
  /\ at = "prepare"

(* rr_dt_expire_at *)
ExpireAt(delta) ==
  LET s == delta \div MsPerSec
      m == ms + (delta % MsPerSec)
  IN  IF m >= MsPerSec THEN [sec |-> s + 1, ms |-> m - MsPerSec]
      ELSE [sec |-> s, ms |-> m]

(* rr_dt_is_past *)
IsPast(t) == 0 > t.sec \/ (0 = t.sec /\ ms >= t.ms)

(* The second that is borrowed for the milliseconds is not given back. *)
BugTimeout(t) ==
  LET m == IF t.ms < ms THEN t.ms + MsPerSec - ms ELSE t.ms - ms
      s == t.sec
  IN  (IF s < 0 THEN 0 ELSE s) * MsPerSec + m

(* el_poll_get_timeout; seconds that are past count as none, milliseconds   *)
(* are taken as they come out.                                              *)
Timeout(t) ==
  LET m == IF t.ms < ms THEN t.ms + MsPerSec - ms ELSE t.ms - ms
      s == IF t.ms < ms THEN t.sec - 1 ELSE t.sec
  IN  (IF s < 0 THEN 0 ELSE s) * MsPerSec + m

-----------------------------------------------------------------------------
(* el_timer_add *)
AddTimer(delta) == due' = ExpireAt(delta) /\ UNCHANGED <<ms, left, at>>

(* The timer is due in Ahead milliseconds. *)
Ahead == due.sec * MsPerSec + due.ms - ms

(* A negative timeout is not cut off at zero: epoll_wait sleeps for ever.   *)
BugGetTimeout ==
  /\ at = "prepare"
  /\ left' = IF due = NoTimer \/ Ahead < 0 THEN NoTimer ELSE Ahead
  /\ at' = "poll"
  /\ UNCHANGED <<ms, due>>

GetTimeout ==
  /\ at = "prepare"
  /\ left' = IF due = NoTimer THEN NoTimer ELSE Timeout(due)
  /\ at' = "poll"
  /\ UNCHANGED <<ms, due>>

(* el_loop_poll comes back: nothing is left to sleep, or there are events   *)
(* or a signal (what it does with events is the subject of                  *)
(* ClientLifecycle).                                                        *)
PollReturns ==
  /\ at = "poll"
  /\ at' = "process"
  /\ UNCHANGED <<ms, due, left>>

PollTimesOut == left = 0 /\ PollReturns

PollInterrupted == PollReturns

(* el_timer_process while the timer is not due. *)
NotDue ==
  /\ at = "process"
  /\ due # NoTimer => ~IsPast(due)
  /\ at' = "prepare"
  /\ UNCHANGED <<ms, due, left>>

(* el_timer_process: the callback has returned delta, and the timer is put  *)
(* back unless that is zero.                                                *)
RunTimer(delta) ==
  /\ at = "process"
  /\ due # NoTimer /\ IsPast(due)
  /\ due' = IF delta > 0 THEN ExpireAt(delta) ELSE NoTimer
  /\ at' = "prepare"
  /\ UNCHANGED <<ms, left>>

(* A millisecond passes, in poll or while the loop works.  The bound is for *)
(* the loop's work: a poll that has time left always sleeps on.             *)
Tick ==
  /\ due # NoTimer => Ahead > - MaxLag \/ (at = "poll" /\ left \notin {NoTimer, 0})
  /\ ms' = (ms + 1) % MsPerSec
  /\ due' = IF due # NoTimer /\ ms' = 0 THEN [due EXCEPT !.sec = @ - 1] ELSE due
  /\ left' = IF at = "poll" /\ left \notin {NoTimer, 0} THEN left - 1 ELSE left
  /\ UNCHANGED at

-----------------------------------------------------------------------------
(* el_main sleeps exactly until a timer that is not due yet, across the     *)
(* turn of seconds (el_poll_get_timeout).                                   *)
SleepExact ==
  at = "poll" /\ due # NoTimer =>
    /\ left # NoTimer
    /\ Ahead > 0 => left = Ahead

(* "run it every millisecond" (rhino-rox.ini): el_main does not sleep when  *)
(* its timer is due already.                                                *)
NoSleepWhenDue ==
  at = "poll" /\ due # NoTimer /\ Ahead <= 0 => left = 0
=============================================================================
