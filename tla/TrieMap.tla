------------------------------ MODULE TrieMap ------------------------------
(***************************************************************************)
(* What a trie promises: a map from keys to values that rset and rdel      *)
(* change at one key and that deleting the trie empties.                   *)
(***************************************************************************)
EXTENDS Maps

CONSTANTS Keys, Values

VARIABLE content   \* the keys that are set, with their values

Init == content = << >>

Put(k, v) == content' = Assign(content, k, v)

Remove(k) ==
  /\ k \in DOMAIN content
  /\ content' = Without(content, k)

Clear == content' = << >>

Next ==
  \/ \E k \in Keys, v \in Values : Put(k, v)
  \/ \E k \in Keys : Remove(k)
  \/ Clear

Spec == Init /\ [][Next]_content
=============================================================================
