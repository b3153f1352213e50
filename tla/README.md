# TLA+ verification of rhino-rox

rhino-rox is a single-node, in-memory data structure server that speaks the
Redis protocol. One thread runs an event loop that accepts connections, reads
and runs requests, sends replies and runs a periodic cron job; one background
thread frees large values. This directory holds a TLA+ model of that
server, the TLC configurations that check it on small instances, and TLAPS
proofs of its central safety properties for every size. Paths such as
`rr_server.c:458` are files of `src/src/`.

## Inventory

| Part | State | Operations | Interacts with |
|---|---|---|---|
| event loop (`rr_event.c`, `rr_epoll.c`) | event table (mask, callbacks, user data per descriptor), fired array, timer heap | `el_event_add/del`, `el_loop_poll`, `el_timer_process`, `el_main` | calls the handlers of `rr_server.c`; the table holds client pointers |
| client lifecycle (`rr_server.c`) | `server.clients`, `clients_with_pending_writes`, `clients_to_close`, per-client flags, `server.shutdown` | accept, read, flush, write, asynchronous close, cron, signal | event table, reply buffers, kernel descriptors |
| request parser (`rr_server.c:494-822`) | `query`, `req_type`, `multibulk_len`, `bulk_len`, `argv` | `process_inline_input`, `process_multi_bulk_input`, `cmd_process`, `rr_client_reset` | fed by read(2), runs commands, adds replies |
| reply buffers (`rr_replying.c`) | `buf`, `reply` list, `buf_sent_len`, `replied_len` | `reply_add_*`, `reply_write_to_client` | fills while requests run, drained by flush and write events |
| background tasks (`rr_bgtask.c`) | list of tasks, mutex, condition | `rr_bgt_add_task`, `thread_handler` | fed by `rr_db_del_async` |
| linked lists (`adlist.c`) | – | used by all of the above | |
| keyspace (`rr_db.c`, `robj.c`) | dictionary of objects, reference counts | `get`, `set`, `del`, `exists`, `type`, lazy free | background tasks; the collections are its values |
| trie (`rr_dict.c`, `rr_cmd_trie.c`) | crit-bit tree, its size | the `r*` commands | also the dictionary of the keyspace, of the documents and of the index |
| heap queue (`rr_minheap.c`, `rr_array.c`, `rr_cmd_heapq.c`) | binary heap in a growing array | the `q*` commands | the event loop keeps its timers in such a heap |
| full text search (`rr_fts.c`, `rr_cmd_fts.c`) | documents, inverted index, total length | the `d*` commands | tokenizer and stemmer |
| configuration and start (`rr_config.c`, `main`, `rr_server_init` and `rr_server_adjust_max_clients` of `rr_server.c`) | the configuration, `max_clients`, limit on open files | the command line and file handlers, `rr_server_adjust_max_clients`, `rr_server_init` | sizes the event table, sets the period of the cron timer |
| ini parser, network, memory, logging, strings | – | helpers | |

What is hard here: client structures are freed in the middle of a batch of
events while five places may hold pointers to them; the flags that say "already
queued" stand in for searches of the queues; one cursor is shared by two output
buffers; the parser restarts from a buffer that was cut anywhere; a list is
shared by two threads with a node in use while the lock is released; objects
with plain reference counts are handed from one thread to the other; the index
holds raw pointers to documents whose addresses are reused; the poll timeout
and the number of clients are differences that may go below zero.
`PROJECT.json` lists these hazards at their lines with the properties for them.

## Modules

* `ClientLifecycle` – the event loop and the life of a client. State: where
  `el_main` is, the fired events, the event table (`mask`, `ud`), the open
  descriptors, the heap blocks that hold a live `rr_client_t` with its `fd`,
  `flags` and amount of unsent output, and the three lists of clients. One action per
  handler outcome: `Flush*` is `before_polling`, `Poll`/`NextEvent` the
  dispatch, `Accept*`, `Read*`, `Write*` the handlers, `Cron*` the cron job,
  `Signal` the signal handler. Blocks and descriptors are reused, so a stale
  pointer can hit a new client. A connection whose registration fails is closed twice,
  by `rr_client_create` and by `add_client` (`AcceptDrop`); in between only
  `rr_log` opens a file, which it closes again, and the background thread opens none,
  so the second finds the descriptor closed (lemma `DropCloses`). Abstracted: request bytes (module `Protocol`),
  reply bytes (module `ReplyBuffer`) and the clock (the cron timer is due or
  not).
* `Protocol` – the request parser for one client: `Read` delivers a fragment,
  the other actions are the branches of `process_user_input`,
  `process_inline_input` and `process_multi_bulk_input`. A session is a
  sequence of messages with their bytes and, separately, the arguments they
  encode, so the parser is compared with what the sender meant. How one encodes
  the other is a grammar, stated apart from the parser and put together from the sender's
  side (`GrammarAssumption`): a count and arguments (`MultiBulk`), a count of
  zero or less (`NoBulk`), a count or length line that is wrong or does not end
  (`BrokenCount`, `BrokenLength`; the second after the arguments before it), and a
  typed line with or without balanced quotes (`Inline`). A line that does not end is
  long enough for any read to notice, and a well-formed inline line is within
  the limit: the one over it is reported below. A number is one
  byte; NUL bytes and escapes inside quotes are left out, and so is the
  `client_max_query_len` test (it ends the connection: `ReadEnds` in
  `ClientLifecycle`).
* `ReplyBuffer` implements `ReplyStream` – the two output buffers of a client,
  and the stream they promise. A byte is its position in the stream, so losing,
  repeating or reordering one is visible.
* `BgTask` implements `TaskQueue` – the background task runner with its mutex
  and condition variable, and the FIFO queue it promises.
* `Trie` implements `TrieMap` – the crit-bit tree of `rr_dict.c` with the trie
  commands, and the map it promises. A pointer into the tree is the path from the
  root, so walking down, inserting a node and raising a sibling are stated
  without recursion. The refinement mapping is what `dict_get` finds. Keys are
  byte sequences without NUL; failing allocations are left out. One trie is
  modelled; when it is deleted the model goes on with the next, empty one.
* `MinHeap` – the operations of `rr_minheap.c` on the array of `rr_array.c`, as
  operators; `HeapQueue` implements `PriorityQueue` – the queue commands on one
  key, and the priority queue they promise. The array keeps its own count of
  spare slots, which must agree with the block it has allocated (`cap`). The two
  loops of the heap and the loop of `qpopn` are a body and a number of turns
  (`Repeat`); a turn after the loop's end changes nothing.
* `Keyspace` implements `KeyMap` – the commands on keys, objects with reference
  counts, shared integers, and the background thread that frees a large trie
  element by element between and during commands. Of the task runner it uses
  only the promise (`TaskQueue`, which `BgTask` is shown to implement). A
  collection is reduced to its fields; its inside is the subject of `Trie`,
  `HeapQueue` and `Fts`. A request first allocates its arguments, then runs its
  command, then drops them (`rr_client_reset`).
* `Fts` implements `DocumentStore` – the documents and the inverted index of one
  key, and the promise that a search finds the documents that share a term with
  the query. The term of a word is a constant function, which stands for
  `sds_tokenize`, the stop words and the stemmer.
* `Startup` – from `main` to the event loop: the command line, the configuration
  file, the limit on open files with its unsigned arithmetic, the event table
  and the listening sockets, each with the ways it can fail. The configuration
  is an uninitialised variable of `main`, so an item the file leaves out has any
  value of `Garbage`.
* `Timers` – the clock, the one timer of the server and the poll timeout.
* `Server` composes `Startup` and `Timers`: the period of the timer comes from the
  configuration that was accepted.
* `Shared` – the null bulk, which some commands send as a text.
* `Lists` – `adlist.c` as operations on sequences.
* `Maps` – functions as maps: adding, removing and overriding keys.
* `ListTheorems`, `ClientLifecycleProofs`, `ServerProofs` (with those of
  `BgTask`), `KeyspaceProofs`, `ReplyBufferProofs`, `ProtocolProofs`,
  `TrieProofs`, `CollectionProofs` (`HeapQueue` and `Fts`) – the proofs.
* `MCClientLifecycle`, `MCProtocol`, `MCReplyBuffer`, `MCBgTask`, `MCCollections`
  (`Trie`, `HeapQueue` and `Fts`), `MCKeyspace`, `MCServer` – the instances for TLC.

Definitions named `Bug...` are variants of the definition after them, each with
one plausible mistake. No specification uses them; `PROJECT.json` pairs each
property with one that violates it.

Besides by `INSTANCE` and `EXTENDS` the modules meet at four points. `out[c]` of `ClientLifecycle` is the number of
unsent bytes of `ReplyBuffer` (scaled down), and the fairness that `ReplyBuffer` assumes for the
write turns is what `WriteHandlerIffOutput` justifies: a client with output has
a write handler whenever the server sleeps. `ReadRequests` of `ClientLifecycle`
is one run of `Protocol` from a read back to the socket. `MaxClients` and `BaseFd`
of `ClientLifecycle` are `maxClients` and `nextFd` of `Startup`, and its
assumption `BaseFd <= MaxClients` is a part of `LimitHonoured`. The strong
fairness of its cron timer is what `CronRuns` of `Server` shows.

## Runs

| Run | Config | Shows |
|---|---|---|
| `server` | `MCServer.cfg` | a server that runs has room for the clients it admits, sleeps exactly until a timer that is ahead, and runs its cron job for ever |
| `keyspace` | `MCKeyspace.cfg` | reference counts are exact at every moment, no object is in reach of both threads, clients see a plain map that says a missing collection in its own way |
| `collections` | `MCCollections.cfg` | trie: the tree implements a map; sizes, references, order and prefix search are exact. Heap queue: the array is a heap with the slots it believes to have, queued objects hold one reference, the queue serves the least scores in order. Full text search: the index mirrors the documents, the numbers BM25 computes with are defined, a search finds exactly what matches |
| `lifecycle` | `MCClientLifecycle.cfg` | no dangling client pointer, handlers get live clients, flags mirror the queues, write handlers are exactly those needed, descriptors never leak, the limit is never reached |
| `lifecycle_live` | `MCClientLive.cfg` | QUIT closes, asynchronous closes happen, a signal ends the server |
| `bgtask` | `MCBgTask.cfg` | held node stays head, no lost wakeup, no double free, refinement of the FIFO queue with and without fairness |
| `replies` | `MCReplyBuffer.cfg` | replies arrive as one intact stream, and all of it unless the socket fails; cursor and length accounting |
| `parser` | `MCProtocol.cfg` | any fragmentation runs the same requests, promptly; valid sessions are never refused; malformed ones close the connection |
| `read_then_cron` | `MCClientReadThenCron.cfg` | violation, see findings |
| `limit` | `MCClientLimit.cfg` | violation, see findings |
| `late_cron` | `MCServerLate.cfg` | violation, see findings |
| `absent_key` | `MCKeyspaceAbsent.cfg` | violation, see findings |

Bounds. Client runs: three heap blocks, room for two clients and one more
descriptor than the table holds, two units of output, so that two clients
interfere, blocks and descriptors are reused, a reply is sent in parts and the
table overflows; the blocks are symmetric. Further clients add no new kind of pair, and the
safety properties are proved for all sizes anyway. The liveness run
has one client slot and two blocks, because its properties speak of one client
at a time. Task runner: four tasks, which lets the list grow while the worker
holds a node and empty again. Reply buffers: a buffer of two bytes and replies
of zero to three of at most seven bytes in all, so that chunks are glued, split
off, larger than a chunk and empty. Parser: lengths are the code's divided by
8K (reads of 2, big arguments from 4, line limit 8), sessions of three requests
from eight well-formed ones and of two from sixteen; one argument is longer than
the line limit. Trie: six keys, among them the empty one, that end where others
go on and part at both bits of one byte, and two values; every subset and every
order of insertion is reached, and trees up to depth four. Heap queue: five
objects, a heap of three levels, three scores so that some are equal, and
an array of one slot that doubles three times. Keyspace: two keys, two fields, a
shared and an unshared value, four addresses, two tasks, and a lazy free
threshold of one, so that a trie of two fields goes to the background thread
while the same key is written again; without a free address or task a command
that needs one is not taken. Full text search: four titles, one of them an
integer, more document addresses than titles and still reused, and six texts
with a stop word, two words of one stem and repeated terms. Server: 32 files that
put values on both sides of every check or leave items out, five command lines,
eight limits on open files (none, below the reserve of 32, below and above what
is asked for, and `getrlimit` failing), a second of four milliseconds, so that
its turn falls everywhere in a period, and a loop that falls at most six
milliseconds behind; the moduli of the unsigned numbers are scaled to 4096 and
512.

The three collections share nothing but addresses, and a key holds one of them:
in run `collections` an initial choice (`type`) says which, the other two stay as they are,
and the addresses are symmetric.

`CHECK_DEADLOCK FALSE` stands where the system stops: the server exits, the
client is closed, the session is over, the start fails, or the process ends at
one of the faults listed under findings.

Fairness. `ClientLifecycle`: weak fairness of the loop's own steps (a running
thread runs) and strong fairness of the cron timer (`server_cron` re-arms it
every 1000/hz ms); of the peer, that a watched socket is reported writable and
takes bytes again and again. A peer that neither reads nor disconnects does
stall its connection: the code has no client timeout. `BgTask`: threads run and
a mutex that is released again and again is obtained. `ReplyBuffer`: a client with
output gets turns and its socket takes bytes again and again. `Server`: weak
fairness of the process and of time. The process includes a poll whose timeout has run
out (`PollTimesOut`), but not one that an event or a signal ends (`Interrupt`), which may
never happen: the timeout alone must bring the loop back to its timer, and with an endless
timeout the server sleeps for ever (this is the mutant of `CronRuns`).

## Findings

* `free_client_async` (`rr_server.c:458`) leaves the client registered for
  reading. A read event before the next cron run can free it, and
  `clients_to_close` keeps the pointer (`read_then_cron`). All other pointer
  properties are checked and proved with this meeting excluded: either
  `epoll_ctl` MOD does not fail or reads do not end connections
  (`NoAsyncReadRace`). Run `lifecycle` takes the first alternative,
  `lifecycle_live` the second, and the proofs cover both.
* The event table is as large as `max_clients` and is indexed by descriptor, so
  connections are dropped silently before the documented limit (`limit`), and
  the code that rejects a client with a message is never reached
  (`BelowLimit`, proved).
* A timer that is overdue when the loop comes to sleep gets a timeout of up to 999 ms
  instead of 0 (`rr_event.c:201-208`): the seconds go to -1, of which only the
  milliseconds are kept. `rhino-rox.ini:10-11` lets the cron job run every
  millisecond (`late_cron` starts from one file, with that frequency). A timer that is ahead is slept for
  exactly (`SleepExact`, proved).
* `rr_db_lookup_or_reply` (`rr_db.c:30`) sends `shared.nullbulk` as the content of a bulk:
  for a key that does not exist the commands on collections reply with the text
  `$-1\r\n`, five bytes, where a Redis client expects nil and where `get`, or a missing field, gives
  nil (`absent_key`). `KeyMap`, `PriorityQueue` and `DocumentStore` take that reply as a constant,
  `Absent`. The refinements that are checked and proved give it the value that the code
  sends (the text `NullBulk`, module `Shared`); with nil in its place, `AbsentIsNil`,
  the refinement of `KeyMap` fails.

Seen while modelling, and certain rather than a matter of order, so that no run is
spent on them. Where a model reaches one of these it says so (the process stops,
or an `orphans` set keeps what leaked), and the properties speak of everything else:

* `rpget` with a prefix that no key of a non-empty trie has ends the server:
  `iter_create` descends from the empty tree that `get_prefix` returns
  (`rr_dict.c:348`). `rdel` of an absent key does so too, by `decrRefCount(NULL)`
  (`rr_cmd_trie.c:144`, action `RdelAbsent` of `Trie`).
* `dset` with a title that reads as an integer: `tryObjectEncoding` leaves no
  string for the dictionary to copy (`rr_cmd_fts.c:13`).
* Deleting a heap queue leaks the objects in it: `minheap_free` passes the address of
  the slot to a callback that expects the object (`rr_minheap.c:36`,
  `robj.c:219`).
* `dsearch` does not release the iterator over its scores.
* An inline request ended by a bare LF deletes the first byte of the request
  pipelined behind it (`rr_server.c:528`). An inline request over
  `PROTO_INLINE_MAX_LEN` gets a protocol error and is run nevertheless when its
  line end arrives (`rr_server.c:505`).
* `cron_frequency` 0 is accepted, and `server_cron` divides by it
  (`rr_config.c:126`). A frequency that divides 1000 to zero would let the timer lapse,
  but the range excludes it.
* `tcp_backlog`, `server_del` and `max_dbs` are checked by testing `port`, so
  their own values are never refused; items the file leaves out stay
  uninitialised; the option that overrides `unix_domain_perm` is looked up as
  `unix_sock_perm` (`rr_config.c:157`); a `max_memory` that `memtoll` cannot read
  becomes 0 without an error, also the `1024*1024` that `rhino-rox.ini:7` offers.
* A limit on open files below the reserve makes `max_clients` wrap around
  (`rr_server.c:392`); the server then ends in `rr_malloc` instead of with the
  message for it. When `getrlimit` fails, `max_clients` becomes 992 even if it was less.

## Proofs

`ClientLifecycleProofs` proves for every value of the constants that satisfies
`LifecycleAssumption` (and, except for types, under `NoAsyncReadRace`):
`NoDanglingClient`, `HandlersGetLiveClient`, `FlagsMirrorQueues`,
`WriteHandlerIffOutput`, `DescriptorsExact` and `BelowLimit`. The argument is
one inductive invariant, `IInv`, checked by the runs before it was proved.
`rr_client_free` searches neither queue, so that a freed client is in neither
must follow from something else. `OneSender` says that a client with output has
exactly one of: an entry in the queue of pending writes, an entry in the queue
of closes, a write handler. So the write handler cannot free a queued client.
`PendingDispatched` says that a queued client's descriptor is no longer among
the fired events, so the read handler cannot either: no descriptor is dispatched
twice between two flushes. `OwnsDescriptor` and `TableLive` make the
event table and the descriptors a bijection, from which `BelowLimit` follows by
counting. Lemmas `FreeStep` and `UpdateStep` treat what all freeing and all
reply-queueing actions share; `ListTheorems` has the facts about lists.

`KeyspaceProofs` proves `RefCountsExact`, `OneThread` and the refinement of
`KeyMap` for all sets of keys, fields, values, addresses and tasks and every
lazy free threshold. The first two are not inductive: that a count is exact now
says nothing about who will drop it. `IInv` says who owns an object: besides the
request, exactly one key, task or field holds it or it is an orphan
(`OneOwner`), only collections own others and only strings are owned by them or
are arguments (`Strings`), and the argument of a request is owned by
nothing before its command has run and by nothing handed to a task afterwards
(`RequestApart`). So a count is 1 or 2, and no counting is needed
until the last step. A collection that is dropped releases exactly the objects
it owns (`DropRoot`), and a task gets an object that nobody else owns
(`UnlinkLazily`). The refinement then needs only that what the keys reach lasts
through a step (`Lasts`, `Keeps`): freeing cannot touch it, because it has
another owner.

`ReplyBufferProofs` proves `CursorInChunk`, `RepliedLenExact` and the refinement
of `ReplyStream` for buffers, chunks and replies of any size. A byte is its
position in the stream, so `IInv` can say that what was sent, `c->buf` and the
chunks of the list are intervals that follow one another up to the last byte
produced (`Tiled`). `replied_len` is then the length of the last part, and a write
from the cursor continues the stream. Gluing, splitting off and dropping a chunk
each keep the tiling.

`CollectionProofs` proves `HeapOrdered`, `ReferencesExact` and the refinement of
`PriorityQueue` by `HeapQueue` for all objects and scores and every initial size of the array.
The heart of it are the invariants of the two loops: in `shiftdown` the order
fails at most between the element moved and its parent (`Rising`), in `shiftup`
also between it and its children (`Sinking`), and in both its children are not
smaller than its parent, which is what keeps an exchange from breaking the order
next to it. Exchanges permute the first `len` slots (`Shuffled`). That the root is least
follows along the parents. `IInv` adds that objects in a queue are pairwise
different, and different from those a deleted queue leaked.

`CollectionProofs` further proves `IndexMirrorsDocs`, `ScoreDefined` and the
refinement of `DocumentStore` by `Fts`, for all titles, texts, terms and
addresses. `IndexMirrorsDocs` says nothing of the middle of a command, where
`fts_index_add` and `fts_index_del` go over the terms of a text one by one. So the
index is compared with a table of counts: `Mirrors(index, c)` says that the
list of each term has exactly the documents with a positive count, each once
with that count, and one turn of a loop adds one to (or takes away) the count of one term.
At the end of the loop the table is that of the documents (`DocCounts`). A document
that goes takes all its postings along, so its address has no count when it is
used again, which is what makes the raw pointers of the index safe. The total length is the
number of places in the live documents that are not stop words (`Tokens`); every posting
is such a place, so BM25 has a length to divide by. `FtsInv` collects this;
for the refinement, a search is a loop that gathers the documents of one term
after the other (`SearchFinds`).

`TrieProofs` proves `SizeExact`, `ValuesReferenced`, `CritBits`, `HasPrefixExact`,
`ListsMatching` and the refinement of `TrieMap`, for any finite set of keys and any values. A node
is known by its path, so the invariant `CritBitTree` is about paths: every node hangs from one above it
(`Shape`), bits grow downwards (`Ordered`), a key lies on the path that its own bits
lead along (`OnPath`), and the keys below a node agree up to its bit
(`Sharing`). Together they say that what a lookup ends at is the
only key that can be equal to the one sought, and that any leaf below a node
will do to find the first bit in which a new key differs. Inserting puts a node
where that bit belongs and keeps the four parts; deleting pulls a sibling up and keeps
them too (`PulledTree`). `DictInv` adds the size and the references. For the listing, `ListInv` says of each
turn of the iterator that its stack is a way down through the tree (`Walk`) and that the
reply has, in order, the leaves to the left of the one it is at (`Passed`).

`ServerProofs` proves `LimitHonoured` for all files, command lines and limits
that have the types of `StartupAssumption`, and `SleepExact` for every length of a
second and every accepted frequency. For the first, `IInv` keeps, stage by stage of the
start, how `max_clients`, the table and the limit on open files are related, with
the invariant of the `setrlimit` loop: the value tried is the one asked for, or one
step less than one that was refused (`LastTry`). It uses that a step is not larger than
the reserve. For the second, while the loop sleeps and the timer is ahead, the time left
is exactly the distance to the timer, also across the turn of a second.

`ServerProofs` also proves `HeldNodeIsHead`, `NoLostWakeup`, `ReleasedOnce` and the
refinement of `TaskQueue` for any set of tasks, from the invariant `BgtInv`:
it adds that a task on its way into the list is new (`Fresh`) and that
the list has no duplicates, so that the node deleted is the one taken.

`ProtocolProofs` proves `AsksForBytes` from `IInv`, its type invariant
with `Between`, which says where a request may be left half read. The length of
an argument is known only inside a multi bulk request, and the server goes back
to the socket only when that many bytes have not arrived; hence a read for a big
argument asks for at least one byte.

It also proves `RunsWhatArrived`, `RefusesOnlyMalformed` and `ClosesOnMalformed`, for any
session of the grammar, any fragmentation and any limits that fit each other. Their
common invariant is `Follows`. `Carried` says that the query buffer and the input are
what follows in the stream at some position. `Progress(i)` says that the requests before
message `i` have been run and no others, and that the parser is at the start of message `i`
(`AtStart`), behind some of its arguments (`InBulks`) or about to run it (`ToRun`).
`Near(i)` bounds how far the buffer reaches past that: what is left of a line or a
small argument and one read, or a big argument and exactly its line end. This is where
`ReadLen` counts: without its cut the limit on a line could be exceeded
by a well-formed session. `Settled(i)` is the rest of the connection after QUIT
or a malformed message. The shape of each kind of message is stated by byte positions
(`InlineShape`, `CountShape`, `BulkShape`), so that what `Find` returns on the
buffer is found without taking sequences apart, and the `Glue` lemmas
give the position and the bytes of each part of a flattened sequence.

Induction over data is done with a least counterexample: `FirstPosition` of
`ListTheorems` (a set of numbers that is not empty has a least element) shows
that a recursive function exists up to every position and has the property
claimed at each. `FlattenType`, `FlattenTiled`, `Glued` and, for loops of any body,
`LoopKeeps`, `Turns` and `Unrolls` are proved so; the properties of a loop are a
family of sets, one for each turn.

The assumptions of these proofs are the named `ASSUME`s of the modules, which TLC
evaluates on the instances: types of the constants, `NULL` apart from what it is
compared with, `BaseFd <= MaxClients`, `DecrStep <= ReservedFds`,
`ReservedFds <= AssumedLimit`, `BigArg >= 3`, `BigArg + IoBufLen <= InlineMax`
(32K, 16K and 64K in the code), a carriage return that is no number, the grammar of
messages, and finitely many objects or keys.

Only model-checked: all liveness (`CronRuns`, `QuitCloses`, `AsyncCloses`, `SignalExits`,
`ImplementsFairly`, `DeliversAll`), which is beyond the prover's reach. Every
invariant of a passing run is also a theorem.

## Not modelled

Not modelled for good: the stemmer, stop words and the order of search results
(text and floating point), the text of ini lines and the string library
(third-party), the kqueue backend (same interface as epoll), allocator
accounting, logging, socket options, jumps of the wall clock (the timer has
no monotonic clock), and `qlen`, which only reads. Not called by the server, and
left out: `dict_foreach`, `dict_copy`, `array_push_n`, `rr_bgt_terminate`,
`listDup`, `listIndex`, `listRotate`.
