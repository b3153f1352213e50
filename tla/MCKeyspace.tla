----------------------------- MODULE MCKeyspace -----------------------------
(* Instance of Keyspace for TLC. *)
EXTENDS Keyspace, TLC

Symmetry == Permutations(Addr) \cup Permutations(Keys) \cup Permutations(Fields)
            \cup Permutations(Tasks)
=============================================================================
