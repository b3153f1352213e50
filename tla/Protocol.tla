------------------------------ MODULE Protocol ------------------------------
(***************************************************************************)
(* The request parser of rr_server.c, for one client: read(2) appends a    *)
(* fragment of the byte stream to c->query, process_user_input takes as    *)
(* many requests from it as are complete and leaves the rest for the next  *)
(* read.  Requests are inline (a line of words) or multi bulk (a count and *)
(* then that many length-prefixed arguments).                              *)
(*                                                                         *)
(* A byte is a string; a decimal number is one byte, with its value given  *)
(* by Numeral.  Escapes inside quotes and NUL bytes are left out.          *)
(***************************************************************************)
EXTENDS Integers, Sequences, FiniteSetsExt, SequencesExt

CONSTANTS
  IoBufLen,    \* PROTO_IOBUF_LEN
  BigArg,      \* PROTO_MBULK_BIG_ARG
  InlineMax,   \* PROTO_INLINE_MAX_LEN
  MaxBulks,    \* the largest count of a multi bulk request, 1024*1024
  MaxBulkLen,  \* the largest length of an argument, 512*1024*1024
  Numeral,     \* the values of the bytes that are numbers
  Quit,        \* the first argument of a QUIT request
  Sessions     \* what a client may send: sequences of messages

(* A message is a request, with its bytes, the arguments they encode and    *)
(* whether it is well formed; of a malformed one, the arguments up to the   *)
(* error.                                                                   *)
Message == [bytes: Seq(STRING), argv: Seq(Seq(STRING)), ok: BOOLEAN]

CR    == "CR"
LF    == "LF"
SP    == "SP"
QUOTE == "QUOTE"
Unknown == -1   \* c->bulk_len before the length is read

ASSUME ProtocolAssumption ==
  /\ Sessions \subseteq Seq(Message)
  /\ Numeral \in [DOMAIN Numeral -> Int] /\ CR \notin DOMAIN Numeral
  /\ {IoBufLen, BigArg, InlineMax, MaxBulks, MaxBulkLen} \subseteq Nat \ {0}
  /\ BigArg >= 3 /\ BigArg + IoBufLen <= InlineMax   \* 32K + 16K <= 64K

VARIABLES
  session,    \* what this client sends
  input,      \* its bytes that read(2) has not returned yet
  query,      \* c->query
  pos,        \* the local variable pos of process_multi_bulk_input
  reqType,    \* c->req_type
  multibulk,  \* c->multibulk_len
  bulk,       \* c->bulk_len
  argv,       \* c->argv[0 .. c->argc)
  closing,    \* CLIENT_CLOSE_AFTER_REPLY
  errors,     \* protocol errors replied
  executed,   \* the commands run, in order
  pc          \* waiting for the socket, or where process_user_input is

parserVars == <<reqType, multibulk, bulk, argv>>
vars == <<session, input, query, pos, parserVars, closing, errors, executed, pc>>

Bytes(requests) == FlattenSeq([i \in DOMAIN requests |-> requests[i].bytes])

(* rr_client_create *)
Init ==
  /\ session \in Sessions
  /\ input = Bytes(session)
  /\ query = << >> /\ pos = 0
  /\ reqType = "none" /\ multibulk = 0 /\ bulk = Unknown /\ argv = << >>
  /\ closing = FALSE /\ errors = 0
  /\ executed = << >>
  /\ pc = "read"

(* sdsrange(s, n, -1) *)
Drop(s, n) == SubSeq(s, n + 1, Len(s))

(* strchr(c->query + from, b): the position of the first b after from, or 0. *)
Find(b, from) ==
  LET found == {i \in from + 1 .. Len(query) : query[i] = b}
  IN  IF found = {} THEN 0 ELSE Min(found)

(* string2ll of query[from + 1 .. to]: is it a number, and which? *)
IsNumber(from, to) == to = from + 1 /\ query[to] \in DOMAIN Numeral

Number(to) == Numeral[query[to]]

-----------------------------------------------------------------------------
(* handle_read_from_client.                                                 *)
(* Operators named Bug... are variants of the definition that follows them, *)
(* each with one mistake that could be made in the code.  No specification  *)
(* uses them.                                                               *)

(* The read is not cut to the big argument. *)
BugReadLenUncut == IoBufLen

(* The line end after the argument is not counted. *)
BugReadLenShort ==
  IF reqType = "multibulk" /\ multibulk > 0 /\ bulk >= BigArg
  THEN Min({IoBufLen, bulk - Len(query)})
  ELSE IoBufLen

(* While a big argument is read, no byte after it is. *)
ReadLen ==
  IF reqType = "multibulk" /\ multibulk > 0 /\ bulk >= BigArg
  THEN Min({IoBufLen, bulk + 2 - Len(query)})
  ELSE IoBufLen

Read(n) ==
  /\ pc = "read"
  /\ n <= ReadLen /\ n <= Len(input)
  /\ query' = query \o SubSeq(input, 1, n)
  /\ input' = Drop(input, n)
  /\ pc' = "parse"
  /\ UNCHANGED <<session, pos, parserVars, closing, errors, executed>>

-----------------------------------------------------------------------------
(* process_user_input: one request per turn of its loop.                    *)

ParseDone ==
  /\ pc = "parse"
  /\ query = << >> \/ closing
  /\ pc' = "read"
  /\ UNCHANGED <<session, input, query, pos, parserVars, closing, errors, executed>>

RequestType ==
  IF reqType # "none" THEN reqType
  ELSE IF query[1] = "*" THEN "multibulk" ELSE "inline"

Parsing(type) ==
  /\ pc = "parse"
  /\ query # << >> /\ ~closing
  /\ RequestType = type
  /\ reqType' = type
  /\ UNCHANGED <<session, input, executed>>

(* A protocol error that closes the connection, with n bytes done. *)
ProtocolError(n) ==
  /\ errors' = errors + 1
  /\ closing' = TRUE
  /\ query' = Drop(query, n)
  /\ pos' = 0
  /\ pc' = "read"
  /\ UNCHANGED <<multibulk, bulk, argv>>

(* The request is not complete yet; n bytes are done. *)
Incomplete(n) ==
  /\ query' = Drop(query, n)
  /\ pos' = 0
  /\ pc' = "read"
  /\ UNCHANGED <<multibulk, bulk, argv, closing, errors>>

-----------------------------------------------------------------------------
(* process_inline_input *)

(* sdssplitargs: words, where quotes hold a word with blanks together. *)
Blank(b) == b \in {SP, CR}

SplitStep(st, b) ==
  CASE st.mode = "blank" /\ Blank(b)   -> st
    [] st.mode = "plain" /\ Blank(b)   -> [mode |-> "blank", word |-> << >>, args |-> Append(st.args, st.word)]
    [] st.mode = "closed" /\ Blank(b)  -> [mode |-> "blank", word |-> << >>, args |-> Append(st.args, st.word)]
    [] st.mode = "closed" /\ ~Blank(b) -> [st EXCEPT !.mode = "wrong"]
    [] st.mode = "wrong"               -> st
    [] st.mode = "quoted" /\ b = QUOTE -> [st EXCEPT !.mode = "closed"]
    [] st.mode = "quoted" /\ b # QUOTE -> [st EXCEPT !.word = Append(@, b)]
    [] st.mode \in {"blank", "plain"} /\ b = QUOTE -> [st EXCEPT !.mode = "quoted"]
    [] st.mode \in {"blank", "plain"} /\ b # QUOTE /\ ~Blank(b) ->
         [st EXCEPT !.mode = "plain", !.word = Append(@, b)]

Split(line) ==
  FoldLeft(SplitStep, [mode |-> "blank", word |-> << >>, args |-> << >>], line)

Balanced(line) == Split(line).mode \in {"blank", "plain", "closed"}

Words(line) ==
  LET st == Split(line)
  IN  IF st.mode = "blank" THEN st.args ELSE Append(st.args, st.word)

(* Empty words are dropped. *)
Arguments(line) == SelectSeq(Words(line), LAMBDA w : w # << >>)

(* The line ends before LF, or before the CR in front of it. *)
LineLen ==
  LET lf == Find(LF, 0)
  IN  IF lf > 1 /\ query[lf - 1] = CR THEN lf - 2 ELSE lf - 1

InlineIncomplete ==
  /\ Parsing("inline")
  /\ Find(LF, 0) = 0
  /\ errors' = IF Len(query) > InlineMax THEN errors + 1 ELSE errors
  /\ pc' = "read"
  /\ UNCHANGED <<query, pos, multibulk, bulk, argv, closing>>

InlineUnbalanced ==
  /\ Parsing("inline")
  /\ Find(LF, 0) # 0
  /\ ~Balanced(SubSeq(query, 1, LineLen))
  /\ ProtocolError(0)

(* Two bytes are taken for the end of the line. *)
InlineRequest ==
  /\ Parsing("inline")
  /\ Find(LF, 0) # 0
  /\ Balanced(SubSeq(query, 1, LineLen))
  /\ argv' = Arguments(SubSeq(query, 1, LineLen))
  /\ query' = Drop(query, LineLen + 2)
  /\ pc' = "run"
  /\ UNCHANGED <<pos, multibulk, bulk, closing, errors>>

-----------------------------------------------------------------------------
(* process_multi_bulk_input: the count line. *)

WholeLine(cr) == cr # 0 /\ cr < Len(query)

CountIncomplete ==
  /\ Parsing("multibulk")
  /\ multibulk = 0
  /\ ~WholeLine(Find(CR, 0))
  /\ IF Find(CR, 0) = 0 /\ Len(query) > InlineMax THEN ProtocolError(0) ELSE Incomplete(0)

CountValid == IsNumber(1, Find(CR, 0) - 1) /\ Number(Find(CR, 0) - 1) <= MaxBulks

CountWrong ==
  /\ Parsing("multibulk")
  /\ multibulk = 0
  /\ WholeLine(Find(CR, 0))
  /\ ~CountValid
  /\ ProtocolError(0)

Count ==
  /\ Parsing("multibulk")
  /\ multibulk = 0
  /\ WholeLine(Find(CR, 0))
  /\ CountValid
  /\ LET n  == Number(Find(CR, 0) - 1)
         at == Find(CR, 0) + 1
     IN  IF n <= 0
         THEN query' = Drop(query, at) /\ pc' = "run" /\ UNCHANGED <<multibulk, pos>>
         ELSE multibulk' = n /\ pos' = at /\ pc' = "bulk" /\ UNCHANGED query
  /\ UNCHANGED <<bulk, argv, closing, errors>>

Resume ==
  /\ Parsing("multibulk")
  /\ multibulk > 0
  /\ pc' = "bulk"
  /\ pos' = 0
  /\ UNCHANGED <<query, multibulk, bulk, argv, closing, errors>>

-----------------------------------------------------------------------------
(* process_multi_bulk_input: the loop over the arguments.                   *)

InBulk == pc = "bulk" /\ UNCHANGED <<session, input, reqType, executed>>

LengthIncomplete ==
  /\ InBulk
  /\ bulk = Unknown
  /\ ~WholeLine(Find(CR, pos))
  /\ IF Find(CR, pos) = 0 /\ Len(query) > InlineMax THEN ProtocolError(0) ELSE Incomplete(pos)

(* The '$' is not looked at. *)
BugLengthValid ==
  /\ IsNumber(pos + 1, Find(CR, pos) - 1)
  /\ Number(Find(CR, pos) - 1) \in 0 .. MaxBulkLen

LengthValid ==
  /\ query[pos + 1] = "$"
  /\ IsNumber(pos + 1, Find(CR, pos) - 1)
  /\ Number(Find(CR, pos) - 1) \in 0 .. MaxBulkLen

LengthWrong ==
  /\ InBulk
  /\ bulk = Unknown
  /\ WholeLine(Find(CR, pos))
  /\ ~LengthValid
  /\ ProtocolError(pos)

(* A big argument is moved to the start of the query buffer. *)
Length ==
  /\ InBulk
  /\ bulk = Unknown
  /\ WholeLine(Find(CR, pos))
  /\ LengthValid
  /\ bulk' = Number(Find(CR, pos) - 1)
  /\ LET at == Find(CR, pos) + 1
     IN  IF bulk' >= BigArg
         THEN query' = Drop(query, at) /\ pos' = 0
         ELSE pos' = at /\ UNCHANGED query
  /\ UNCHANGED <<multibulk, argv, closing, errors, pc>>

HaveArgument == Len(query) - pos >= bulk + 2

ArgumentIncomplete ==
  /\ InBulk
  /\ bulk # Unknown
  /\ ~HaveArgument
  /\ Incomplete(pos)

(* The query buffer itself becomes the argument when it holds nothing else; *)
(* otherwise the argument is copied.  After the last one the loop ends.     *)
Argument ==
  /\ InBulk
  /\ bulk # Unknown
  /\ HaveArgument
  /\ argv' = Append(argv, SubSeq(query, pos + 1, pos + bulk))
  /\ multibulk' = multibulk - 1
  /\ bulk' = Unknown
  /\ LET whole == pos = 0 /\ bulk >= BigArg /\ Len(query) = bulk + 2
         rest  == IF whole THEN << >> ELSE query
         at    == IF whole THEN 0 ELSE pos + bulk + 2
     IN  IF multibulk' = 0
         THEN query' = Drop(rest, at) /\ pos' = 0 /\ pc' = "run"
         ELSE query' = rest /\ pos' = at /\ UNCHANGED pc
  /\ UNCHANGED <<closing, errors>>

-----------------------------------------------------------------------------
(* cmd_process and rr_client_reset.                                         *)

Reset ==
  /\ reqType' = "none" /\ multibulk' = 0 /\ bulk' = Unknown /\ argv' = << >>
  /\ pc' = "parse"
  /\ UNCHANGED <<session, input, query, pos, errors>>

RunNothing ==
  /\ pc = "run"
  /\ argv = << >>
  /\ Reset
  /\ UNCHANGED <<closing, executed>>

RunCommand ==
  /\ pc = "run"
  /\ argv # << >> /\ argv[1] # Quit
  /\ executed' = Append(executed, argv)
  /\ Reset
  /\ UNCHANGED closing

(* QUIT goes on with the requests behind it. *)
BugRunQuit ==
  /\ pc = "run"
  /\ argv # << >> /\ argv[1] = Quit
  /\ executed' = Append(executed, argv)
  /\ Reset
  /\ UNCHANGED closing

(* QUIT: the client is not reset. *)
RunQuit ==
  /\ pc = "run"
  /\ argv # << >> /\ argv[1] = Quit
  /\ executed' = Append(executed, argv)
  /\ closing' = TRUE
  /\ pc' = "parse"
  /\ UNCHANGED <<session, input, query, pos, parserVars, errors>>

Next ==
  \/ \E n \in 1 .. IoBufLen : Read(n)
  \/ ParseDone
  \/ InlineIncomplete \/ InlineUnbalanced \/ InlineRequest
  \/ CountIncomplete \/ CountWrong \/ Count \/ Resume
  \/ LengthIncomplete \/ LengthWrong \/ Length
  \/ ArgumentIncomplete \/ Argument
  \/ RunNothing \/ RunCommand \/ RunQuit

Spec == Init /\ [][Next]_vars

-----------------------------------------------------------------------------
(* The messages of the protocol, as a client puts them together.            *)

EndOfLine == <<CR, LF>>

Never(b, s) == \A i \in DOMAIN s : s[i] # b

Digit(n) == CHOOSE b \in DOMAIN Numeral : Numeral[b] = n

BulkBytes(arg) == <<"$", Digit(Len(arg))>> \o EndOfLine \o arg \o EndOfLine

(* n arguments are announced, these are the first of them. *)
Announced(n, args) ==
  <<"*", Digit(n)>> \o EndOfLine \o FlattenSeq([i \in DOMAIN args |-> BulkBytes(args[i])])

CanAnnounce(n, args) ==
  /\ n \in 1 .. MaxBulks /\ n \in Range(Numeral)
  /\ \A i \in DOMAIN args : Len(args[i]) <= MaxBulkLen /\ Len(args[i]) \in Range(Numeral)

CountLines  == {<<"*", b>> : b \in {d \in DOMAIN Numeral : Numeral[d] <= MaxBulks}}
LengthLines == {<<"$", b>> : b \in {d \in DOMAIN Numeral : Numeral[d] \in 0 .. MaxBulkLen}}

(* A line that is none of those allowed, or one that does not end. *)
Broken(s, allowed) ==
  \/ Never(CR, s) /\ Len(s) >= InlineMax + IoBufLen
  \/ \E line \in {SubSeq(s, 1, Len(s) - 2)} :
       s = line \o EndOfLine /\ Never(CR, line) /\ line \notin allowed

MultiBulk(m) ==
  m.ok /\ CanAnnounce(Len(m.argv), m.argv) /\ m.bytes = Announced(Len(m.argv), m.argv)

NoBulk(m) ==
  /\ m.ok /\ m.argv = << >>
  /\ \E b \in DOMAIN Numeral : Numeral[b] <= 0 /\ m.bytes = <<"*", b>> \o EndOfLine

BrokenCount(m) == ~m.ok /\ m.bytes[1] = "*" /\ Broken(m.bytes, CountLines)

BrokenLength(m) ==
  /\ ~m.ok
  /\ \E n \in Len(m.argv) + 1 .. MaxBulks :
       \E s \in {SubSeq(m.bytes, Len(Announced(n, m.argv)) + 1, Len(m.bytes))} :
         /\ CanAnnounce(n, m.argv)
         /\ m.bytes = Announced(n, m.argv) \o s
         /\ Broken(s, LengthLines)

(* A line as it is typed; it is malformed if its quotes are. *)
Inline(m) ==
  \E line \in {SubSeq(m.bytes, 1, Len(m.bytes) - 2)} :
    /\ m.bytes = line \o EndOfLine
    /\ Never(LF, line) /\ m.bytes[1] # "*"
    /\ m.ok = Balanced(line)
    /\ m.ok => Len(line) < InlineMax /\ m.argv = Arguments(line)

ASSUME GrammarAssumption ==
  \A s \in Sessions : \A i \in DOMAIN s :
    MultiBulk(s[i]) \/ NoBulk(s[i]) \/ BrokenCount(s[i]) \/ BrokenLength(s[i]) \/ Inline(s[i])

-----------------------------------------------------------------------------
(* What a session asks for, independently of the parser.                    *)

(* The number of bytes up to the end of the i-th request. *)
End(i) == Len(Bytes(SubSeq(session, 1, i)))

Received == End(Len(session)) - Len(input)

(* The requests that are answered with a command: those before the first    *)
(* malformed one and up to QUIT.                                            *)
Answered(i) ==
  /\ session[i].ok
  /\ \A j \in 1 .. i - 1 : session[j].ok /\ (session[j].argv = << >> \/ session[j].argv[1] # Quit)

(* A request without arguments asks for nothing. *)
Command(m) == IF m.argv = << >> THEN << >> ELSE << m.argv >>

Expected ==
  FlattenSeq([i \in DOMAIN session |->
                IF Answered(i) /\ End(i) <= Received THEN Command(session[i]) ELSE << >>])

TypeOK ==
  /\ session \in Sessions
  /\ pos \in 0 .. Len(query)
  /\ reqType \in {"none", "inline", "multibulk"}
  /\ multibulk \in 0 .. MaxBulks /\ bulk \in {Unknown} \cup 0 .. MaxBulkLen
  /\ closing \in BOOLEAN /\ errors \in Nat
  /\ pc \in {"read", "parse", "bulk", "run"}

(* However the network cuts the stream into fragments, whenever the server  *)
(* goes back to the socket it has run exactly the requests that have        *)
(* arrived, in order, with the arguments their sender encoded (which may    *)
(* hold line ends and protocol characters): none waits in the query buffer, *)
(* none is run twice, none behind QUIT or a malformed request is run.       *)
RunsWhatArrived == pc = "read" => executed = Expected

(* A well-formed session is never refused.  The limit on a count or length  *)
(* line is tested against the whole query buffer, arguments included; that  *)
(* no argument can make it true depends on ReadLen stopping at the end of a *)
(* big argument.                                                            *)
RefusesOnlyMalformed == errors > 0 => \E i \in DOMAIN session : ~session[i].ok

(* A malformed request is answered with an error and closes the connection. *)
ClosesOnMalformed ==
  pc = "read" /\ (\E i \in DOMAIN session : ~session[i].ok /\ End(i) <= Received) => closing

(* read(2) is never asked for zero bytes: its 0 would be taken for the end  *)
(* of the connection.  Nor does the parser look behind the end of the query *)
(* buffer (TypeOK).                                                         *)
AsksForBytes == TypeOK /\ (pc = "read" => ReadLen > 0)
=============================================================================
