------------------------------ MODULE MCBgTask ------------------------------
(***************************************************************************)
(* Model-checking instances of BgTask, for three or four tasks.  The       *)
(* refinement is a temporal property, so the tasks are not declared        *)
(* symmetric.                                                              *)
(***************************************************************************)
EXTENDS BgTask, TLC
=============================================================================
