-------------------------- MODULE MCClientLifecycle --------------------------
(***************************************************************************)
(* Model-checking instances of ClientLifecycle.  Descriptors 0 to 4 are    *)
(* stdin, stdout, stderr, epoll and the listening socket, as after         *)
(* rr_server_init; the event table has room for two clients.               *)
(***************************************************************************)
EXTENDS ClientLifecycle, TLC

AddrSymmetry == Permutations(Addr)
=============================================================================
