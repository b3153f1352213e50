----------------------------- MODULE ReplyBuffer -----------------------------
(***************************************************************************)
(* The output buffers of one client, rr_replying.c.  Replies go to a fixed *)
(* buffer (c->buf) while there is room and to a list of chunks (c->reply)  *)
(* from then on; reply_write_to_client drains first the buffer and then    *)
(* the list, in as many turns as the socket needs.  One cursor,            *)
(* c->buf_sent_len, counts the bytes already sent of whichever of the two  *)
(* is being drained.                                                       *)
(*                                                                         *)
(* A byte is its position in the stream of replies, so a byte that is      *)
(* lost, sent twice or sent out of order shows.                            *)
(***************************************************************************)
EXTENDS Integers, Sequences, SequencesExt, Lists

CONSTANTS
  ReplyMaxLen,  \* PROTO_REPLY_MAX_LEN: the size of c->buf and of a glued chunk
  WriteCap,     \* NET_MAX_WRITES_PER_EVENT
  MaxReply,     \* bound: bytes of one reply_add_* call
  MaxBytes      \* bound: bytes of output ever produced

ASSUME ReplyAssumption ==
  {ReplyMaxLen, WriteCap, MaxReply, MaxBytes} \subseteq Nat \ {0}

VARIABLES
  buf,         \* c->buf[0 .. c->buf_offset)
  reply,       \* c->reply, a list of chunks
  sent,        \* c->buf_sent_len
  repliedLen,  \* c->replied_len
  closing,     \* CLIENT_CLOSE_AFTER_REPLY
  pc,          \* "idle", in the loop of reply_write_to_client, after it, or freed
  written,     \* totwritten
  produced,    \* bytes of reply added so far
  wire         \* what the socket got

bufVars == <<buf, reply, sent, repliedLen>>
vars == <<bufVars, closing, pc, written, produced, wire>>

(* c->buf is never filled past its end. *)
TypeOK ==
  /\ buf \in Seq(1 .. MaxBytes) /\ Len(buf) <= ReplyMaxLen
  /\ reply \in Seq(Seq(1 .. MaxBytes))
  /\ sent \in 0 .. MaxBytes /\ repliedLen \in 0 .. MaxBytes
  /\ closing \in BOOLEAN
  /\ pc \in {"idle", "write", "after", "closed", "failed"}
  /\ written \in 0 .. MaxBytes /\ produced \in 0 .. MaxBytes
  /\ wire \in Seq(1 .. MaxBytes)

Init ==
  /\ buf = << >> /\ reply = << >> /\ sent = 0 /\ repliedLen = 0
  /\ closing = FALSE
  /\ pc = "idle"
  /\ written = 0
  /\ produced = 0
  /\ wire = << >>

(* client_has_pending_replies *)
Pending == buf # << >> \/ reply # << >>

-----------------------------------------------------------------------------
(* The reply_add_* functions: n more bytes of reply.                        *)
(* Operators named Bug... are variants of the definition that follows them, *)
(* each with one mistake that could be made in the code.  No specification  *)
(* uses them.                                                               *)

NewBytes(n) == [i \in 1 .. n |-> produced + i]

(* add_reply_to_buffer does not look at the list. *)
BugFitsBuffer(n) == Len(buf) + n <= ReplyMaxLen

(* add_reply_to_buffer: only while the list is empty. *)
FitsBuffer(n) == reply = << >> /\ Len(buf) + n <= ReplyMaxLen

(* add_reply_object_to_list, add_reply_sds_to_list, add_reply_str_to_list:  *)
(* glued to the last chunk if the two are not too long together.            *)
AddToList(s) ==
  IF reply # << >> /\ Len(Last(reply)) + Len(s) <= ReplyMaxLen
  THEN [reply EXCEPT ![Len(reply)] = @ \o s]
  ELSE AddNodeTail(reply, s)

AddReply(n) ==
  /\ pc = "idle"
  /\ ~closing
  /\ produced + n <= MaxBytes
  /\ produced' = produced + n
  /\ IF FitsBuffer(n)
     THEN /\ buf' = buf \o NewBytes(n)
          /\ UNCHANGED <<reply, repliedLen>>
     ELSE /\ reply' = AddToList(NewBytes(n))
          /\ repliedLen' = repliedLen + n
          /\ UNCHANGED buf
  /\ UNCHANGED <<sent, closing, pc, written, wire>>

(* QUIT and protocol errors; from here on the reply_add_* add nothing. *)
CloseAfterReply ==
  /\ pc = "idle"
  /\ closing' = TRUE
  /\ UNCHANGED <<bufVars, pc, written, produced, wire>>

-----------------------------------------------------------------------------
(* reply_write_to_client, called by before_polling and by the write event.  *)

WriteStart ==
  /\ pc = "idle"
  /\ pc' = "write"
  /\ written' = 0
  /\ UNCHANGED <<bufVars, closing, produced, wire>>

(* After a write: over the cap the turn ends, unless memory is over         *)
(* max_memory, which may be the case at any time.                           *)
Sent(bytes) ==
  /\ wire' = wire \o bytes
  /\ written' = written + Len(bytes)
  /\ pc' \in {"write"} \cup (IF written' > WriteCap THEN {"after"} ELSE {})
  /\ UNCHANGED <<closing, produced>>

(* The cursor is not reset with the buffer. *)
BugWriteBuf(n) ==
  /\ pc = "write"
  /\ buf # << >>
  /\ n \in 1 .. Len(buf) - sent
  /\ Sent(SubSeq(buf, sent + 1, sent + n))
  /\ buf' = IF sent + n = Len(buf) THEN << >> ELSE buf
  /\ sent' = sent + n
  /\ UNCHANGED <<reply, repliedLen>>

(* write(2) takes n bytes of the buffer. *)
WriteBuf(n) ==
  /\ pc = "write"
  /\ buf # << >>
  /\ n \in 1 .. Len(buf) - sent
  /\ Sent(SubSeq(buf, sent + 1, sent + n))
  /\ IF sent + n = Len(buf)
     THEN buf' = << >> /\ sent' = 0
     ELSE sent' = sent + n /\ UNCHANGED buf
  /\ UNCHANGED <<reply, repliedLen>>

(* An empty chunk ends the turn. *)
BugDropEmptyNode ==
  /\ pc = "write"
  /\ buf = << >> /\ reply # << >> /\ Head(reply) = << >>
  /\ pc' = "after"
  /\ UNCHANGED <<bufVars, closing, written, produced, wire>>

(* An empty chunk is dropped without a write(2). *)
DropEmptyNode ==
  /\ pc = "write"
  /\ buf = << >> /\ reply # << >> /\ Head(reply) = << >>
  /\ reply' = DelNode(reply, 1)
  /\ UNCHANGED <<buf, sent, repliedLen, closing, pc, written, produced, wire>>

(* The length is reduced by what this write(2) took. *)
BugWriteNode(n) ==
  /\ pc = "write"
  /\ buf = << >> /\ reply # << >>
  /\ n \in 1 .. Len(Head(reply)) - sent
  /\ Sent(SubSeq(Head(reply), sent + 1, sent + n))
  /\ IF sent + n = Len(Head(reply))
     THEN reply' = DelNode(reply, 1) /\ sent' = 0 /\ repliedLen' = repliedLen - n
     ELSE sent' = sent + n /\ UNCHANGED <<reply, repliedLen>>
  /\ UNCHANGED buf

(* write(2) takes n bytes of the chunk at the head of the list. *)
WriteNode(n) ==
  /\ pc = "write"
  /\ buf = << >> /\ reply # << >>
  /\ n \in 1 .. Len(Head(reply)) - sent
  /\ Sent(SubSeq(Head(reply), sent + 1, sent + n))
  /\ IF sent + n = Len(Head(reply))
     THEN /\ reply' = DelNode(reply, 1)
          /\ sent' = 0
          /\ repliedLen' = repliedLen - Len(Head(reply))
     ELSE sent' = sent + n /\ UNCHANGED <<reply, repliedLen>>
  /\ UNCHANGED buf

(* EAGAIN, or nothing is pending any more. *)
WriteStop ==
  /\ pc = "write"
  /\ pc' = "after"
  /\ buf = << >> /\ reply # << >> => Head(reply) # << >>
  /\ UNCHANGED <<bufVars, closing, written, produced, wire>>

(* Any other error: the client is freed. *)
WriteError ==
  /\ pc = "write"
  /\ buf # << >> \/ (reply # << >> /\ Head(reply) # << >>)
  /\ pc' = "failed"
  /\ UNCHANGED <<bufVars, closing, written, produced, wire>>

WriteEnd ==
  /\ pc = "after"
  /\ sent' = IF Pending THEN sent ELSE 0
  /\ pc' = IF ~Pending /\ closing THEN "closed" ELSE "idle"
  /\ UNCHANGED <<buf, reply, repliedLen, closing, written, produced, wire>>

-----------------------------------------------------------------------------
WriteSome == \E n \in 1 .. MaxBytes : WriteBuf(n) \/ WriteNode(n)

WriteTurn == WriteStart \/ WriteSome \/ DropEmptyNode \/ WriteStop \/ WriteError \/ WriteEnd

Next == WriteTurn \/ CloseAfterReply \/ \E n \in 0 .. MaxReply : AddReply(n)

Spec == Init /\ [][Next]_vars

(* A client with output gets turn after turn (ClientLifecycle shows that it *)
(* is queued or has a write handler), and its socket takes bytes sometimes. *)
Fairness ==
  /\ WF_vars(WriteStart /\ Pending)
  /\ WF_vars(WriteSome \/ DropEmptyNode \/ WriteStop \/ WriteEnd)
  /\ SF_vars(WriteSome)

FairSpec == Spec /\ Fairness

-----------------------------------------------------------------------------
(* The stream of replies arrives intact: nothing that reply_write_to_client *)
(* sends is lost, repeated or overtaken by a later reply, whatever the      *)
(* split between buffer and list, and a connection that is closed after its *)
(* reply has got all of it.                                                 *)
Stream == INSTANCE ReplyStream WITH
            delivered <- wire,
            state <- IF pc \in {"closed", "failed"} THEN pc ELSE "open"

DeliversStream == Stream!StreamSpec

(* Unless the socket fails, everything that was produced is delivered.      *)
DeliversAll == Stream!FairStreamSpec

(* The shared cursor never reaches the end of the chunk it points into: if  *)
(* it did, write(2) would be asked for zero bytes, return 0, and the client *)
(* would hang with output pending for ever.  Nor is c->buf ever filled past *)
(* its end (TypeOK).                                                        *)
CursorInChunk ==
  TypeOK /\
  CASE buf # << >>   -> sent < Len(buf)
    [] buf = << >> /\ reply # << >> -> sent < Len(Head(reply)) \/ (sent = 0 /\ Head(reply) = << >>)
    [] OTHER         -> sent = 0

(* c->replied_len is the number of bytes in the list, however the chunks    *)
(* were glued together and however many writes it took to send them.        *)
RepliedLenExact == repliedLen = Len(FlattenSeq(reply))
=============================================================================
