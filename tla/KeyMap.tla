------------------------------- MODULE KeyMap -------------------------------
(***************************************************************************)
(* What the key space promises its clients: a key has a value of one type  *)
(* that only commands on that key change, whatever becomes of the memory   *)
(* of values that were deleted.  A string has the one field Self, and get  *)
(* of a key that does not exist is nil; what the commands on collections   *)
(* say of such a key is the constant Absent.                               *)
(***************************************************************************)
EXTENDS FiniteSets, Maps

CONSTANTS
  Keys, Fields, Values, Collections, Self, NULL,
  Absent  \* the reply where there is no collection

VARIABLES
  content,  \* the keys that exist, each with its type and its fields
  reply     \* the reply to the command that ran, NULL before

Init == content = << >> /\ reply = NULL

Answer(r) == reply = NULL /\ reply' = r

Send == reply # NULL /\ reply' = NULL /\ UNCHANGED content

Set(k, v) ==
  /\ content' = Assign(content, k, [type |-> "string", at |-> Single(Self, v)])
  /\ Answer(<<"ok">>)

Del(k) ==
  /\ content' = Without(content, k)
  /\ Answer(IF k \in DOMAIN content THEN <<"one">> ELSE <<"zero">>)

(* The fields of collection k of type t, none if it does not exist yet. *)
FieldsOf(k) == IF k \in DOMAIN content THEN content[k].at ELSE << >>

IsA(k, t) == k \in DOMAIN content => content[k].type = t

Put(k, t, f, v) ==
  IF IsA(k, t)
  THEN /\ content' = Assign(content, k, [type |-> t, at |-> Assign(FieldsOf(k), f, v)])
       /\ Answer(<<"ok">>)
  ELSE Answer(<<"wrongtype">>) /\ UNCHANGED content

(* The reply to a command that needs a key k of type t. *)
Refusal(k, t) ==
  IF k \notin DOMAIN content THEN {IF t = "string" THEN <<"nil">> ELSE Absent}
  ELSE IF content[k].type # t THEN {<<"wrongtype">>} ELSE {}

Remove(k, t, f) ==
  \/ /\ \E r \in Refusal(k, t) : Answer(r)
     /\ UNCHANGED content
  \/ /\ Refusal(k, t) = {}
     /\ content' = [content EXCEPT ![k].at = Without(@, f)]
     /\ Answer(IF f \in DOMAIN content[k].at THEN <<"one">> ELSE <<"zero">>)

Look(k, t, f) ==
  /\ Answer(IF Refusal(k, t) # {} THEN CHOOSE r \in Refusal(k, t) : TRUE
            ELSE IF f \in DOMAIN content[k].at THEN <<"value", content[k].at[f]>>
            ELSE <<"nil">>)
  /\ UNCHANGED content

Exists(k) ==
  /\ Answer(IF k \in DOMAIN content THEN <<"one">> ELSE <<"zero">>)
  /\ UNCHANGED content

Type(k) ==
  /\ Answer(IF k \in DOMAIN content THEN <<"type", content[k].type>> ELSE <<"none">>)
  /\ UNCHANGED content

Len == Answer(<<"length", Cardinality(DOMAIN content)>>) /\ UNCHANGED content

Next ==
  \/ Send
  \/ Len
  \/ \E k \in Keys :
       \/ Del(k) \/ Exists(k) \/ Type(k) \/ Look(k, "string", Self)
       \/ \E v \in Values : Set(k, v)
       \/ \E t \in Collections, f \in Fields :
            Remove(k, t, f) \/ Look(k, t, f) \/ \E v \in Values : Put(k, t, f, v)

Spec == Init /\ [][Next]_<<content, reply>>
=============================================================================
