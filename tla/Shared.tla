------------------------------- MODULE Shared -------------------------------
(***************************************************************************)
(* Of the shared replies of createSharedObjects (robj.c) the one that      *)
(* clients may see as a text.                                              *)
(***************************************************************************)

CONSTANT NullBulk  \* shared.nullbulk as a text: a dollar sign, -1, CR and LF
=============================================================================
