----------------------------- MODULE ReplyStream -----------------------------
(***************************************************************************)
(* What rr_replying.c promises a client: its replies are one stream of     *)
(* bytes, of which the socket gets every byte once and in order, however   *)
(* the bytes are buffered and however much each write(2) takes; only a     *)
(* write error ends the connection with bytes unsent.  A byte is known by  *)
(* its position in the stream.                                             *)
(***************************************************************************)
EXTENDS Integers, Sequences

CONSTANT MaxBytes  \* bound: bytes of output ever produced

VARIABLES
  produced,   \* bytes of reply added so far
  delivered,  \* the bytes written to the socket, in order
  state       \* "open", "closed" or "failed"

streamVars == <<produced, delivered, state>>

StreamInit == produced = 0 /\ delivered = << >> /\ state = "open"

Produce ==
  /\ state = "open"
  /\ produced' \in produced .. MaxBytes
  /\ UNCHANGED <<delivered, state>>

Deliver ==
  /\ state = "open"
  /\ \E k \in Len(delivered) + 1 .. produced : delivered' = [i \in 1 .. k |-> i]
  /\ UNCHANGED <<produced, state>>

(* The server closes the connection when it owes nothing. *)
Close ==
  /\ state = "open"
  /\ Len(delivered) = produced
  /\ state' = "closed"
  /\ UNCHANGED <<produced, delivered>>

Fail ==
  /\ state = "open"
  /\ state' = "failed"
  /\ UNCHANGED <<produced, delivered>>

StreamNext == Produce \/ Deliver \/ Close \/ Fail

StreamSpec == StreamInit /\ [][StreamNext]_streamVars

FairStreamSpec == StreamSpec /\ WF_streamVars(Deliver)
=============================================================================
