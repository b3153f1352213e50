-------------------------------- MODULE Lists --------------------------------
(***************************************************************************)
(* The linked lists of adlist.c, as the server and the task runner use     *)
(* them: a list is the sequence of its nodes' values, head first.          *)
(***************************************************************************)
EXTENDS Integers, Sequences

AddNodeHead(list, value) == <<value>> \o list

AddNodeTail(list, value) == Append(list, value)

(* listDelNode of the node at position i. *)
DelNode(list, i) ==
  [j \in 1 .. Len(list) - 1 |-> IF j < i THEN list[j] ELSE list[j + 1]]

(* The values in a list, and that no value is in it twice. *)
Elems(list) == {list[i] : i \in DOMAIN list}

Distinct(list) == \A i, j \in DOMAIN list : list[i] = list[j] => i = j
=============================================================================
