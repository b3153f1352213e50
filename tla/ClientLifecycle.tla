--------------------------- MODULE ClientLifecycle ---------------------------
(***************************************************************************)
(* The life of a client connection in rhino-rox: the single-threaded event *)
(* loop (rr_event.c over rr_epoll.c), the accept, read and write handlers  *)
(* and the cron job of rr_server.c, and the part of rr_replying.c that     *)
(* decides who is responsible for sending a client's buffered replies.     *)
(*                                                                         *)
(* One heap block (an element of Addr) holds one rr_client_t; blocks and   *)
(* file descriptors are reused as malloc(3) and accept(2) reuse them.      *)
(* Pointers to a client live in five places: server.clients,               *)
(* server.clients_with_pending_writes, server.clients_to_close, the event  *)
(* table (events[fd].ud) and the handler that is running.                  *)
(*                                                                         *)
(* Abstracted: request bytes (a read yields a number of replies, or ends   *)
(* the connection), reply bytes (units of output), and the clock (the cron *)
(* timer is due or not whenever the timers are processed).                 *)
(***************************************************************************)
EXTENDS Integers, Sequences, FiniteSets, Lists

CONSTANTS
  Addr,         \* heap blocks that rr_malloc may return for an rr_client_t
  NULL,         \* the null pointer
  MaxClients,   \* server.max_clients, also the size of the event table
  BaseFd,       \* descriptors taken before the first client (stdio, epoll, listeners)
  ListenFds,    \* the listening sockets (TCP and, if configured, Unix domain)
  NumFds,       \* RLIMIT_NOFILE
  MaxOut,       \* bound: units of buffered output of one client
  CtlFailures,  \* the epoll_ctl operations that may fail: subset of {"ADD", "MOD"}
  ReadMayEnd    \* may a read end the connection (EOF, error, query too long)?

Fd == 0 .. NumFds - 1

ASSUME LifecycleAssumption ==
  /\ NULL \notin Addr
  /\ MaxClients \in Nat /\ BaseFd \in Nat /\ NumFds \in Nat /\ MaxOut \in Nat
  /\ ListenFds \subseteq 0 .. BaseFd - 1
  /\ 0 < BaseFd /\ BaseFd <= MaxClients /\ MaxClients <= NumFds
  /\ CtlFailures \subseteq {"ADD", "MOD"}
  /\ ReadMayEnd \in BOOLEAN

Mask   == {"READ", "WRITE"}
Flags  == {"PENDING_WRITE", "CLOSE_ASAP", "CLOSE_AFTER_REPLY"}
Phases == {"before", "poll", "events", "read", "write", "timers", "cron", "exit"}
NoFd   == -1

VARIABLES
  phase,          \* where el_main is
  fired,          \* el->fired: the reported mask of each descriptor still to dispatch
  cur,            \* the descriptor being dispatched
  alloc,          \* blocks that hold a live rr_client_t
  cfd,            \* c->fd
  flags,          \* c->flags
  out,            \* c->buf and c->reply: units not yet written to the socket
  clients,        \* server.clients
  pendingWrites,  \* server.clients_with_pending_writes, head first
  toClose,        \* server.clients_to_close, head first
  mask,           \* el->events[fd].mask
  ud,             \* el->events[fd].ud
  open,           \* the process's open descriptors
  shutdown,       \* server.shutdown
  accepted        \* what became of the last accepted connection

loopVars   == <<phase, fired, cur>>
clientVars == <<alloc, cfd, flags, out>>
listVars   == <<clients, pendingWrites, toClose>>
eventVars  == <<mask, ud, open>>
vars == <<loopVars, clientVars, listVars, eventVars, shutdown, accepted>>

TypeOK ==
  /\ phase \in Phases
  /\ fired \in [Fd -> SUBSET Mask]
  /\ cur \in Fd \cup {NoFd}
  /\ alloc \subseteq Addr
  /\ cfd \in [Addr -> Fd \cup {NoFd}]
  /\ flags \in [Addr -> SUBSET Flags]
  /\ out \in [Addr -> 0 .. MaxOut]
  /\ clients \subseteq Addr
  /\ pendingWrites \in Seq(Addr)
  /\ toClose \in Seq(Addr)
  /\ mask \in [Fd -> SUBSET Mask]
  /\ ud \in [Fd -> Addr \cup {NULL}]
  /\ open \subseteq Fd
  /\ shutdown \in BOOLEAN
  /\ accepted \in {"none", "served", "rejected", "dropped"}

(* rr_server_init: the listeners are registered for reading, no client yet. *)
Init ==
  /\ phase = "before"
  /\ fired = [fd \in Fd |-> {}]
  /\ cur = NoFd
  /\ alloc = {}
  /\ cfd = [c \in Addr |-> NoFd]
  /\ flags = [c \in Addr |-> {}]
  /\ out = [c \in Addr |-> 0]
  /\ clients = {}
  /\ pendingWrites = << >>
  /\ toClose = << >>
  /\ mask = [fd \in Fd |-> IF fd \in ListenFds THEN {"READ"} ELSE {}]
  /\ ud = [fd \in Fd |-> NULL]
  /\ open = 0 .. BaseFd - 1
  /\ shutdown = FALSE
  /\ accepted = "none"

-----------------------------------------------------------------------------
(* Operations on one client. *)

(* Operators named Bug... are variants of the definition that follows them, *)
(* each with one mistake that could be made in the code.  No specification  *)
(* uses them; a property is worth checking if one of them violates it.      *)

(* close(2) of a descriptor, whoever has it; nothing happens if nobody has. *)
Close(fd, fds) == fds \ {fd}

(* unlink_client forgets close(c->fd). *)
BugFreeClientLeaksFd(c) ==
  /\ alloc' = alloc \ {c}
  /\ flags' = [flags EXCEPT ![c] = {}]
  /\ out' = [out EXCEPT ![c] = 0]
  /\ cfd' = [cfd EXCEPT ![c] = NoFd]
  /\ clients' = clients \ {c}
  /\ mask' = [mask EXCEPT ![cfd[c]] = {}]
  /\ UNCHANGED <<ud, open>>

(* rr_client_free with unlink_client.  The descriptor test is the code's; a *)
(* freed block keeps fd = -1, its other contents are no longer modelled.    *)
FreeClient(c) ==
  /\ alloc' = alloc \ {c}
  /\ flags' = [flags EXCEPT ![c] = {}]
  /\ out' = [out EXCEPT ![c] = 0]
  /\ cfd' = [cfd EXCEPT ![c] = NoFd]
  /\ IF cfd[c] = NoFd
     THEN UNCHANGED <<clients, mask, open>>
     ELSE /\ clients' = clients \ {c}
          /\ mask' = [mask EXCEPT ![cfd[c]] = {}]
          /\ open' = Close(cfd[c], open)
  /\ UNCHANGED ud

(* prepare_client_to_write does not ask for replies that are pending. *)
BugQueueRepliesTwice(c, n, newFlags) ==
  LET queue == "PENDING_WRITE" \notin flags[c]
  IN  /\ out' = [out EXCEPT ![c] = @ + n]
      /\ flags' = [flags EXCEPT ![c] =
                     @ \cup newFlags \cup (IF queue THEN {"PENDING_WRITE"} ELSE {})]
      /\ pendingWrites' = IF queue THEN AddNodeHead(pendingWrites, c) ELSE pendingWrites

(* prepare_client_to_write, then the reply itself: the client is queued for *)
(* before_polling only if it had no output and is not queued already.       *)
QueueReplies(c, n, newFlags) ==
  LET queue == out[c] = 0 /\ "PENDING_WRITE" \notin flags[c]
  IN  /\ out' = [out EXCEPT ![c] = @ + n]
      /\ flags' = [flags EXCEPT ![c] =
                     @ \cup newFlags \cup (IF queue THEN {"PENDING_WRITE"} ELSE {})]
      /\ pendingWrites' = IF queue THEN AddNodeHead(pendingWrites, c) ELSE pendingWrites

-----------------------------------------------------------------------------
(* before_polling: handle_clients_with_pending_writes, one client per step. *)

(* The flag survives listDelNode. *)
BugUnflaggedKeeps(c) == flags[c]

Unflagged(c) == flags[c] \ {"PENDING_WRITE"}

(* The head of the list is taken off before its socket is written. *)
TakePending(c) ==
  /\ phase = "before"
  /\ pendingWrites # << >>
  /\ c = Head(pendingWrites)
  /\ pendingWrites' = Tail(pendingWrites)
  /\ UNCHANGED <<loopVars, shutdown, accepted>>

(* write(2) fails, or everything was sent to a client that has to be closed *)
(* after its reply: reply_write_to_client frees it and returns RR_ERROR.    *)
FlushFree(c) ==
  /\ TakePending(c)
  /\ out[c] > 0 \/ "CLOSE_AFTER_REPLY" \in flags[c]
  /\ FreeClient(c)
  /\ UNCHANGED toClose

FlushAll(c) ==
  /\ TakePending(c)
  /\ "CLOSE_AFTER_REPLY" \notin flags[c]
  /\ out' = [out EXCEPT ![c] = 0]
  /\ flags' = [flags EXCEPT ![c] = Unflagged(c)]
  /\ UNCHANGED <<alloc, cfd, clients, toClose, eventVars>>

(* Output is left (EAGAIN or the write cap): the write handler takes over. *)
FlushPart(c, left) ==
  /\ TakePending(c)
  /\ left \in 1 .. out[c]
  /\ out' = [out EXCEPT ![c] = left]
  /\ flags' = [flags EXCEPT ![c] = Unflagged(c)]
  /\ mask' = [mask EXCEPT ![cfd[c]] = @ \cup {"WRITE"}]
  /\ ud' = [ud EXCEPT ![cfd[c]] = c]
  /\ UNCHANGED <<alloc, cfd, clients, toClose, open>>

(* The write handler cannot be installed: free_client_async. *)
FlushPartFails(c, left) ==
  /\ "MOD" \in CtlFailures
  /\ TakePending(c)
  /\ left \in 1 .. out[c]
  /\ out' = [out EXCEPT ![c] = left]
  /\ flags' = [flags EXCEPT ![c] = Unflagged(c) \cup {"CLOSE_ASAP"}]
  /\ toClose' = IF "CLOSE_ASAP" \in flags[c] THEN toClose ELSE AddNodeTail(toClose, c)
  /\ UNCHANGED <<alloc, cfd, clients, eventVars>>

FlushDone ==
  /\ phase = "before"
  /\ pendingWrites = << >>
  /\ phase' = "poll"
  /\ UNCHANGED <<fired, cur, clientVars, listVars, eventVars, shutdown, accepted>>

-----------------------------------------------------------------------------
(* el_context_poll and the dispatch loop of el_loop_poll. *)

(* epoll reports subscribed events; EPOLLERR and EPOLLHUP come unasked and  *)
(* are turned into WRITE.                                                   *)
Registered == {fd \in Fd : mask[fd] # {}}

Poll(ready) ==
  /\ phase = "poll"
  /\ ready \in [Registered -> SUBSET Mask]
  /\ \A fd \in Registered : ready[fd] \subseteq mask[fd] \cup {"WRITE"}
  /\ fired' = [fd \in Fd |-> IF fd \in Registered THEN ready[fd] ELSE {}]
  /\ phase' = "events"
  /\ UNCHANGED <<cur, clientVars, listVars, eventVars, shutdown, accepted>>

(* The order of the fired array is the kernel's. *)
NextEvent(fd) ==
  /\ phase = "events"
  /\ fired[fd] # {}
  /\ cur' = fd
  /\ phase' = "read"
  /\ UNCHANGED <<fired, clientVars, listVars, eventVars, shutdown, accepted>>

EventsDone ==
  /\ phase = "events"
  /\ \A fd \in Fd : fired[fd] = {}
  /\ phase' = "timers"
  /\ UNCHANGED <<fired, cur, clientVars, listVars, eventVars, shutdown, accepted>>

(* The reported mask is trusted after the read callback. *)
BugFiresStale(ev) == ev \in fired[cur]

(* The event table's mask is read again before each of the two callbacks. *)
Fires(ev) == ev \in fired[cur] \cap mask[cur]

ReadNotFired ==
  /\ phase = "read"
  /\ ~Fires("READ")
  /\ phase' = "write"
  /\ UNCHANGED <<fired, cur, clientVars, listVars, eventVars, shutdown, accepted>>

-----------------------------------------------------------------------------
(* handle_accept and handle_unix_domain_sock_accept: a loop of accept(2).   *)

Accepting == phase = "read" /\ Fires("READ") /\ cur \in ListenFds

(* accept(2) returns the lowest free descriptor. *)
IsNextFd(fd) == fd \in Fd \ open /\ \A g \in Fd \ open : fd <= g

(* The table is given room for the server's own descriptors. *)
BugAddSucceedsRoomy(fd) == fd < MaxClients + BaseFd

(* el_event_add of a new descriptor: the table is as large as max_clients. *)
AddSucceeds(fd) == fd < MaxClients

(* add_client: the connection gets a client, unless that makes one too many. *)
AcceptClient(c, fd) ==
  /\ Accepting
  /\ IsNextFd(fd)
  /\ c \in Addr \ alloc
  /\ AddSucceeds(fd)
  /\ IF Cardinality(clients \cup {c}) > MaxClients
     THEN /\ accepted' = "rejected"
          /\ UNCHANGED <<clientVars, clients, eventVars>>
     ELSE /\ accepted' = "served"
          /\ alloc' = alloc \cup {c}
          /\ cfd' = [cfd EXCEPT ![c] = fd]
          /\ flags' = [flags EXCEPT ![c] = {}]
          /\ out' = [out EXCEPT ![c] = 0]
          /\ clients' = clients \cup {c}
          /\ mask' = [mask EXCEPT ![fd] = @ \cup {"READ"}]
          /\ ud' = [ud EXCEPT ![fd] = c]
          /\ open' = open \cup {fd}
  /\ UNCHANGED <<loopVars, pendingWrites, toClose, shutdown>>

(* rr_client_create returns NULL (no memory, or the descriptor cannot be    *)
(* registered): add_client closes the connection without a word to the      *)
(* peer, for the second time if registering failed.  In between only rr_log *)
(* opens a file, and closes it.                                             *)
AcceptDrop(fd) ==
  /\ Accepting
  /\ IsNextFd(fd)
  /\ Addr = alloc \/ ~AddSucceeds(fd) \/ "ADD" \in CtlFailures
  /\ accepted' = "dropped"
  /\ LET connected == open \cup {fd}
         unwound   == IF Addr = alloc THEN connected ELSE Close(fd, connected)
     IN  open' = Close(fd, unwound)
  /\ UNCHANGED <<loopVars, clientVars, listVars, mask, ud, shutdown>>

(* accept(2) fails (EWOULDBLOCK, EMFILE...) or RR_NET_MAXACCEPT is reached. *)
AcceptEnd ==
  /\ Accepting
  /\ phase' = "write"
  /\ UNCHANGED <<fired, cur, clientVars, listVars, eventVars, shutdown, accepted>>

-----------------------------------------------------------------------------
(* handle_read_from_client for the client in events[fd].ud.                 *)

Reading(c) ==
  /\ phase = "read"
  /\ Fires("READ")
  /\ cur \notin ListenFds
  /\ c = ud[cur]

(* EAGAIN, an incomplete request, or a client that is to be closed after    *)
(* its reply, whose requests process_user_input ignores.                    *)
ReadIdle(c) ==
  /\ Reading(c)
  /\ phase' = "write"
  /\ UNCHANGED <<fired, cur, clientVars, listVars, eventVars, shutdown, accepted>>

(* Error, end of file, or a query buffer over client_max_query_len. *)
ReadEnds(c) ==
  /\ ReadMayEnd
  /\ Reading(c)
  /\ FreeClient(c)
  /\ phase' = "write"
  /\ UNCHANGED <<fired, cur, pendingWrites, toClose, shutdown, accepted>>

(* process_user_input runs requests that produce n units of output; QUIT    *)
(* and protocol errors set CLOSE_AFTER_REPLY after queueing their reply.    *)
ReadRequests(c, n, newFlags) ==
  /\ Reading(c)
  /\ "CLOSE_AFTER_REPLY" \notin flags[c]
  /\ n \in 1 .. MaxOut - out[c]
  /\ newFlags \in {{}, {"CLOSE_AFTER_REPLY"}}
  /\ QueueReplies(c, n, newFlags)
  /\ phase' = "write"
  /\ UNCHANGED <<fired, cur, alloc, cfd, clients, toClose, eventVars, shutdown, accepted>>

(* rr_cmd_admin_shutdown calls exit(0) from the read handler. *)
ReadShutdown(c) ==
  /\ Reading(c)
  /\ "CLOSE_AFTER_REPLY" \notin flags[c]
  /\ phase' = "exit"
  /\ UNCHANGED <<fired, cur, clientVars, listVars, eventVars, shutdown, accepted>>

-----------------------------------------------------------------------------
(* reply_write_callback for the client in events[fd].ud.                    *)

EventDone ==
  /\ phase' = "events"
  /\ fired' = [fired EXCEPT ![cur] = {}]
  /\ cur' = NoFd

WriteNotFired ==
  /\ phase = "write"
  /\ ~Fires("WRITE")
  /\ EventDone
  /\ UNCHANGED <<clientVars, listVars, eventVars, shutdown, accepted>>

Writing(c) ==
  /\ phase = "write"
  /\ Fires("WRITE")
  /\ cur \notin ListenFds
  /\ c = ud[cur]
  /\ EventDone
  /\ UNCHANGED <<pendingWrites, toClose, shutdown, accepted>>

(* A write error, or the last unit sent to a client to close afterwards. *)
WriteFree(c) ==
  /\ Writing(c)
  /\ out[c] > 0 \/ "CLOSE_AFTER_REPLY" \in flags[c]
  /\ FreeClient(c)

(* The write handler stays installed when everything is sent. *)
BugWriteAllStaysArmed(c) ==
  /\ Writing(c)
  /\ "CLOSE_AFTER_REPLY" \notin flags[c]
  /\ out' = [out EXCEPT ![c] = 0]
  /\ UNCHANGED <<alloc, cfd, flags, clients, eventVars>>

(* CLOSE_AFTER_REPLY is not looked at when everything is sent. *)
BugWriteAllNeverCloses(c) ==
  /\ Writing(c)
  /\ out' = [out EXCEPT ![c] = 0]
  /\ mask' = [mask EXCEPT ![cur] = @ \ {"WRITE"}]
  /\ UNCHANGED <<alloc, cfd, flags, clients, ud, open>>

(* Everything is sent: the write handler is removed. *)
WriteAll(c) ==
  /\ Writing(c)
  /\ "CLOSE_AFTER_REPLY" \notin flags[c]
  /\ out' = [out EXCEPT ![c] = 0]
  /\ mask' = [mask EXCEPT ![cur] = @ \ {"WRITE"}]
  /\ UNCHANGED <<alloc, cfd, flags, clients, ud, open>>

WritePart(c, left) ==
  /\ Writing(c)
  /\ left \in 1 .. out[c]
  /\ out' = [out EXCEPT ![c] = left]
  /\ UNCHANGED <<alloc, cfd, flags, clients, eventVars>>

-----------------------------------------------------------------------------
(* el_timer_process: server_cron, if its timer has expired.                 *)

TimersNotDue ==
  /\ phase = "timers"
  /\ phase' = "before"
  /\ UNCHANGED <<fired, cur, clientVars, listVars, eventVars, shutdown, accepted>>

(* server_cron returns before it looks at server.shutdown. *)
BugCronStartDeaf ==
  /\ phase = "timers"
  /\ phase' = "cron"
  /\ UNCHANGED <<fired, cur, clientVars, listVars, eventVars, shutdown, accepted>>

CronStart ==
  /\ phase = "timers"
  /\ phase' = IF shutdown THEN "exit" ELSE "cron"
  /\ UNCHANGED <<fired, cur, clientVars, listVars, eventVars, shutdown, accepted>>

(* handle_async_freed_clients, one client per step. *)
CronFree(c) ==
  /\ phase = "cron"
  /\ toClose # << >>
  /\ c = Head(toClose)
  /\ FreeClient(c)
  /\ toClose' = Tail(toClose)
  /\ UNCHANGED <<loopVars, pendingWrites, shutdown, accepted>>

(* handle_async_freed_clients is not called to the end of the list. *)
BugCronDoneEarly ==
  /\ phase = "cron"
  /\ phase' = "before"
  /\ UNCHANGED <<fired, cur, clientVars, listVars, eventVars, shutdown, accepted>>

CronDone ==
  /\ phase = "cron"
  /\ toClose = << >>
  /\ phase' = "before"
  /\ UNCHANGED <<fired, cur, clientVars, listVars, eventVars, shutdown, accepted>>

(* SIGTERM or SIGINT: rr_server_shutdown runs between any two steps. *)
Signal ==
  /\ phase # "exit"
  /\ shutdown' = TRUE
  /\ UNCHANGED <<loopVars, clientVars, listVars, eventVars, accepted>>

-----------------------------------------------------------------------------
Flush(c) ==
  \/ FlushFree(c)
  \/ FlushAll(c)
  \/ \E left \in 1 .. MaxOut : FlushPart(c, left) \/ FlushPartFails(c, left)

Read(c) ==
  \/ ReadIdle(c)
  \/ ReadEnds(c)
  \/ \E n \in 1 .. MaxOut, f \in {{}, {"CLOSE_AFTER_REPLY"}} : ReadRequests(c, n, f)
  \/ ReadShutdown(c)

Write(c) ==
  \/ WriteFree(c)
  \/ WriteAll(c)
  \/ \E left \in 1 .. MaxOut : WritePart(c, left)

(* The steps of the server's thread. *)
Loop ==
  \/ FlushDone
  \/ \E ready \in [Registered -> SUBSET Mask] : Poll(ready)
  \/ \E fd \in Fd : NextEvent(fd) \/ AcceptDrop(fd)
  \/ \E c \in Addr, fd \in Fd : AcceptClient(c, fd)
  \/ \E c \in Addr : Flush(c) \/ Read(c) \/ Write(c) \/ CronFree(c)
  \/ ReadNotFired \/ AcceptEnd \/ WriteNotFired \/ EventsDone
  \/ TimersNotDue \/ CronStart \/ CronDone

Next == Loop \/ Signal

Spec == Init /\ [][Next]_vars

-----------------------------------------------------------------------------
(* Safety. *)

(* Every pointer to a client that the server keeps is to a live client, and *)
(* the right one: the list of clients, the queue of pending writes, the     *)
(* queue of asynchronous closes and the event table.  rr_client_free        *)
(* removes the client from server.clients and the event table only.         *)
ClientsLive == clients = alloc

PendingLive == Elems(pendingWrites) \subseteq alloc

ToCloseLive == Elems(toClose) \subseteq alloc

TableLive ==
  \A fd \in Fd \ ListenFds :
    mask[fd] # {} => ud[fd] \in alloc /\ cfd[ud[fd]] = fd

NoDanglingClient == ClientsLive /\ PendingLive /\ ToCloseLive /\ TableLive

(* A callback is only ever run for a live client, although the write        *)
(* callback of an event follows a read callback that may have freed it and  *)
(* an accept in the same batch may have given the descriptor to another.    *)
HandlersGetLiveClient ==
  \A ev \in Mask :
    (phase = (IF ev = "READ" THEN "read" ELSE "write") /\ Fires(ev) /\ cur \notin ListenFds)
      => ud[cur] \in alloc /\ cfd[ud[cur]] = cur

(* The flags mirror the two queues, and no client is queued twice: that is  *)
(* what prepare_client_to_write and free_client_async test instead of       *)
(* searching the list.                                                      *)
Mirrors(flag, queue) ==
  /\ \A c \in Addr : flag \in flags[c] <=> c \in Elems(queue)
  /\ Distinct(queue)

FlagsMirrorQueues ==
  /\ Mirrors("PENDING_WRITE", pendingWrites)
  /\ Mirrors("CLOSE_ASAP", toClose)

(* When the server goes to sleep in epoll, exactly the clients with output  *)
(* left, except those about to be closed, have a write handler.  One less   *)
(* would leave a reply unsent for ever; one more would spin on a socket     *)
(* that is always writable.                                                 *)
WriteHandlerIffOutput ==
  phase = "poll" =>
    \A c \in alloc :
      "WRITE" \in mask[cfd[c]] <=> (out[c] > 0 /\ "CLOSE_ASAP" \notin flags[c])

(* The descriptors in use are the server's own and one per live client: no  *)
(* path through accept, drop, reject and free leaks or double-books one.    *)
DescriptorsExact ==
  /\ open = 0 .. BaseFd - 1 \cup {cfd[c] : c \in alloc}
  /\ \A c \in alloc : cfd[c] >= BaseFd
  /\ \A c, d \in alloc : cfd[c] = cfd[d] => c = d

(* The event table has max_clients entries and the descriptors of the       *)
(* server itself take some of them, so fewer than max_clients clients are   *)
(* ever connected and the test in add_client cannot succeed.                *)
BelowLimit == Cardinality(clients) <= MaxClients - BaseFd

(* The inductive invariant.  OneSender is its heart: a client with output   *)
(* has exactly one party that will deal with it, so a client that one of    *)
(* them frees is known not to be queued with another.  PendingDispatched    *)
(* covers the one path on which that is not enough: a read handler frees    *)
(* its client without looking at the queue of pending writes, and is safe   *)
(* only because no descriptor is dispatched twice between two flushes.      *)
FreedBlank ==
  \A c \in Addr \ alloc : flags[c] = {} /\ cfd[c] = NoFd

OwnsDescriptor ==
  \A c \in alloc :
    cfd[c] \in BaseFd .. MaxClients - 1 /\ "READ" \in mask[cfd[c]] /\ ud[cfd[c]] = c

OneSender ==
  \A c \in alloc :
    LET pending == "PENDING_WRITE" \in flags[c]
        closing == "CLOSE_ASAP" \in flags[c]
        armed   == "WRITE" \in mask[cfd[c]]
    IN  /\ out[c] > 0 <=> (pending \/ closing \/ armed)
        /\ ~(pending /\ closing) /\ ~(pending /\ armed) /\ ~(closing /\ armed)

PendingDispatched ==
  \A c \in Elems(pendingWrites) :
    fired[cfd[c]] = {} \/ (phase = "write" /\ cur = cfd[c])

ListenersArmed == \A fd \in ListenFds : mask[fd] = {"READ"}

PhaseInv ==
  /\ phase = "poll" => pendingWrites = << >>
  /\ phase \in {"read", "write"} => cur \in Fd

(* free_client_async is only safe when no read handler can free the client  *)
(* before the cron job does; this states when the two cannot meet.          *)
NoAsyncReadRace == "MOD" \notin CtlFailures \/ ~ReadMayEnd

IInv ==
  /\ TypeOK
  /\ ClientsLive /\ FreedBlank /\ OwnsDescriptor /\ TableLive
  /\ FlagsMirrorQueues /\ OneSender /\ PendingDispatched
  /\ ListenersArmed /\ PhaseInv /\ DescriptorsExact
  /\ ReadMayEnd => toClose = << >>

(* rhino-rox.ini on max_clients, and the comment in add_client: a new       *)
(* connection is dropped because the limit is reached, not before.          *)
DropOnlyAtLimit ==
  [][accepted' # accepted /\ accepted' \in {"rejected", "dropped"}
       => Cardinality(clients) >= MaxClients]_vars

-----------------------------------------------------------------------------
(* Liveness.  The loop runs (weak fairness of its steps) and its timer      *)
(* expires again and again.  About the peers only this is assumed: a socket *)
(* watched for writing is not for ever reported as not writable, and once   *)
(* reported, write(2) does not for ever send nothing; a peer that neither   *)
(* reads nor goes away does stall its connection.                           *)
ReportsWritable(c) ==
  \E ready \in [Registered -> SUBSET Mask] :
    /\ cfd[c] \in Registered
    /\ {"WRITE"} \subseteq ready[cfd[c]] \cap mask[cfd[c]]
    /\ Poll(ready)

Sends(c) == WriteFree(c) \/ WriteAll(c) \/ \E left \in 1 .. out[c] - 1 : WritePart(c, left)

Fairness ==
  /\ WF_vars(Loop)
  /\ SF_vars(CronStart)
  /\ \A c \in Addr : SF_vars(ReportsWritable(c)) /\ SF_vars(Sends(c))

FairSpec == Spec /\ Fairness

(* A client that sent QUIT or broke the protocol is closed in the end: its  *)
(* last reply always has somebody to send it, and that somebody closes it.  *)
QuitCloses ==
  \A c \in Addr :
    "CLOSE_AFTER_REPLY" \in flags[c]
      ~> ("CLOSE_AFTER_REPLY" \notin flags[c] \/ phase = "exit")

(* A client handed to free_client_async is freed by a later cron run.       *)
AsyncCloses ==
  \A c \in Addr :
    "CLOSE_ASAP" \in flags[c] ~> ("CLOSE_ASAP" \notin flags[c] \/ phase = "exit")

(* After SIGTERM the server exits, whatever its clients do. *)
SignalExits == shutdown ~> phase = "exit"
=============================================================================
