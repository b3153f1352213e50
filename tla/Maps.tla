-------------------------------- MODULE Maps --------------------------------
(* Functions with a finite domain that grows and shrinks. *)
EXTENDS Functions

(* The function with the one argument x. *)
Single(x, v) == [y \in {x} |-> v]

(* f with v at x, which need not be in its domain yet. *)
Assign(f, x, v) == [y \in DOMAIN f \cup {x} |-> IF y = x THEN v ELSE f[y]]

(* f, with what g has. *)
Override(f, g) ==
  [y \in DOMAIN f \cup DOMAIN g |-> IF y \in DOMAIN g THEN g[y] ELSE f[y]]

(* f without x. *)
Without(f, x) == Restrict(f, DOMAIN f \ {x})
=============================================================================
