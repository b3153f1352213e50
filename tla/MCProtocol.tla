----------------------------- MODULE MCProtocol -----------------------------
(***************************************************************************)
(* Model-checking instances of Protocol: sessions of up to three requests, *)
(* as clients encode them.  The lengths are the code's divided by 8K:      *)
(* reads of 2 bytes, big arguments from 4, lines up to 8.                  *)
(***************************************************************************)
EXTENDS Protocol

NumeralBytes == {"-1", "0", "1", "2", "3", "4", "5", "6", "7", "8", "9", "huge"}

MCNumeral ==
  [b \in NumeralBytes |->
     CASE b = "-1" -> -1 [] b = "0" -> 0 [] b = "1" -> 1 [] b = "2" -> 2 [] b = "3" -> 3
       [] b = "4" -> 4 [] b = "5" -> 5 [] b = "6" -> 6 [] b = "7" -> 7 [] b = "8" -> 8
       [] b = "9" -> 9 [] b = "huge" -> 10]

MCQuit == <<"q">>

Request(bytes, args) == [bytes |-> bytes, argv |-> args, ok |-> TRUE]

Malformed(bytes, args) == [bytes |-> bytes, argv |-> args, ok |-> FALSE]

Bulks(args) == Request(Announced(Len(args), args), args)

(* An argument of four bytes or more is big; arguments may hold any byte.   *)
(* The one of nine is longer than a line may be and is not the last of its  *)
(* request.                                                                 *)
WellFormed ==
  { Bulks(<< <<"g">>, <<CR, LF, "$">> >>),
    Bulks(<< <<"s">>, <<"a", CR, LF, "*", "1", CR, LF, "b", "c">>, << >> >>),
    Bulks(<< <<"x">>, <<"b", "i", "g", "!">> >>),
    Bulks(<< MCQuit >>),
    Request(<<"*", "0", CR, LF>>, << >>),
    Request(<<"g", SP, QUOTE, "a", SP, "b", QUOTE, CR, LF>>, << <<"g">>, <<"a", SP, "b">> >>),
    Request(<<SP, "g", SP, SP, QUOTE, QUOTE, CR, LF>>, << <<"g">> >>),
    Request(<<CR, LF>>, << >>) }

Refused ==
  { Malformed(<<"*", "huge", CR, LF>>, << >>),
    Malformed(<<"*", "x", CR, LF>>, << >>),
    Malformed(<<"*", "1", "1", "1", "1", "1", "1", "1", "1", "1">>, << >>),
    Malformed(Announced(1, << >>) \o <<"x", "1", CR, LF>>, << >>),
    Malformed(Announced(2, << <<"g">> >>) \o <<"$", "-1", CR, LF>>, << <<"g">> >>),
    Malformed(Announced(1, << >>) \o <<"$", "1", "1", "1", "1", "1", "1", "1", "1", "1">>, << >>),
    Malformed(<<QUOTE, "a", QUOTE, "b", CR, LF>>, << >>),
    Malformed(<<QUOTE, "a", CR, LF>>, << >>) }

SessionsOf(requests, max) == UNION {[1 .. n -> requests] : n \in 1 .. max}

MixedSessions == SessionsOf(WellFormed, 3) \cup SessionsOf(WellFormed \cup Refused, 2)
=============================================================================
