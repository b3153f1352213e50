---------------------------- MODULE MCReplyBuffer ----------------------------
(***************************************************************************)
(* Model-checking instances of ReplyBuffer: a buffer of two bytes, replies *)
(* of up to three, so that chunks are glued, split off and left empty.     *)
(***************************************************************************)
EXTENDS ReplyBuffer
=============================================================================
