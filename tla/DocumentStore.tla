---------------------------- MODULE DocumentStore ----------------------------
(***************************************************************************)
(* What the full text commands promise: documents under titles, and for a  *)
(* query every document that shares a term with it, once.                  *)
(***************************************************************************)
EXTENDS FiniteSets, Integers, Sequences, Maps

CONSTANTS
  Titles, Texts, TermOf, NoTerm,
  Absent  \* the reply where there is no store

VARIABLES
  texts,  \* the text under each title that exists
  reply   \* the reply to the last command

(* The terms of a text. *)
Terms(text) == {TermOf[text[i]] : i \in DOMAIN text} \ {NoTerm}

Matches(q) == {t \in DOMAIN texts : Terms(texts[t]) \cap Terms(q) # {}}

Init == texts = << >> /\ reply = <<"ok">>

Dset(t, text) == texts' = Assign(texts, t, text) /\ reply' = <<"ok">>

(* A store that does not exist has no texts, nor has one that was emptied. *)
Missing == IF texts = << >> THEN {Absent} ELSE {}

Ddel(t) ==
  /\ texts' = Without(texts, t)
  /\ reply' \in IF t \in DOMAIN texts THEN {<<"one">>}
                ELSE {<<"zero">>} \cup Missing

Dget(t) ==
  /\ reply' \in IF t \in DOMAIN texts THEN {<<"text", texts[t]>>} ELSE {<<"nil">>} \cup Missing
  /\ UNCHANGED texts

Dlen ==
  /\ reply' \in {<<"length", Cardinality(DOMAIN texts)>>} \cup Missing
  /\ UNCHANGED texts

(* Titles and documents, after a header with the number of both. *)
Dsearch(q) ==
  /\ reply' \in {<<"found", 2 * Cardinality(Matches(q)),
                    {<<t, texts[t]>> : t \in Matches(q)}>>} \cup Missing
  /\ UNCHANGED texts

(* The key is deleted. *)
Clear == texts' = << >> /\ reply' = <<"one">>

Next ==
  \/ Dlen
  \/ Clear
  \/ \E t \in Titles : Ddel(t) \/ Dget(t) \/ \E text \in Texts : Dset(t, text)
  \/ \E q \in Texts : Dsearch(q)

Spec == Init /\ [][Next]_<<texts, reply>>
=============================================================================
