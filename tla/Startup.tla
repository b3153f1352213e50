------------------------------ MODULE Startup -------------------------------
(***************************************************************************)
(* From main to el_main: the command line, the configuration file          *)
(* (rr_config.c), the limit on open files (rr_server_adjust_max_clients),  *)
(* and rr_server_init with the listening sockets of rr_network.c.          *)
(*                                                                         *)
(* A value is a number followed by a text: [n |-> 512, text |-> "mb"].     *)
(* Of a path the text says whether it is empty, a file that opens, or one  *)
(* that does not.  The configuration is an uninitialised variable of main: *)
(* an item the file does not name keeps whatever was there.                *)
(***************************************************************************)
EXTENDS Integers, Sequences, Maps

CONSTANTS
  Files,          \* configuration files, each a sequence of items with values
  CommandLines,   \* what follows the file's name, a sequence of options and values
  Limits,         \* limits on open files [cur, hard]; NULL: getrlimit fails
  Garbage,        \* what an uninitialised number may hold
  Units,          \* the multipliers memtoll knows
  Levels,         \* the names of LOG_LEVEL_ENUM
  MaxFrequency,   \* SERVER_CRON_MAX_FREQUENCY
  MaxPort,        \* 65535
  MaxPerm,        \* 0777
  ReservedFds,    \* SERVER_RESERVED_FDS
  DecrStep,       \* decr_step of rr_server_adjust_max_clients
  AssumedLimit,   \* 1024, assumed when getrlimit fails
  UIntMod,        \* 2^32
  LongLongMod,    \* 2^64
  FirstFd,        \* the first descriptor that is free, after stdio
  NULL

Scalar == [n: Int, text: STRING]

Setting == [item: STRING, value: Scalar]

Argument == [kind: {"help"}] \cup [kind: {"option"}, name: STRING] \cup [kind: {"value"}, value: Scalar]

Limit == [cur: Nat, hard: Nat]

ASSUME StartupAssumption ==
  /\ Files \ {NULL} \subseteq Seq(Setting)
  /\ CommandLines \subseteq Seq(Argument)
  /\ Limits \ {NULL} \subseteq Limit
  /\ \A l \in Limits \ {NULL} : l.cur <= l.hard
  /\ NULL \notin Seq(Setting) /\ NULL \notin Limit
  /\ Garbage \subseteq Int
  /\ Units \in [DOMAIN Units -> Int]
  /\ {ReservedFds, DecrStep, FirstFd, UIntMod, LongLongMod} \subseteq Nat \ {0}
  /\ DecrStep <= ReservedFds      \* 16 <= 32
  /\ AssumedLimit \in Nat
  /\ ReservedFds <= AssumedLimit  \* 32 <= 1024
  /\ 2 * AssumedLimit < UIntMod

Items == {"max_clients", "cron_frequency", "max_memory", "pidfile", "unix_domain_socket",
          "unix_domain_perm", "log_level", "log_file", "port", "bind", "tcp_backlog",
          "server_del", "max_dbs"}

TextItems == {"pidfile", "unix_domain_socket", "log_file", "bind"}

VARIABLES
  pc,       \* the next step, "running", or how the process ended
  args,     \* arguments of the command line not yet parsed
  option,   \* the option whose value is next, or NULL
  options,  \* the values given on the command line
  lines,    \* lines of the file not yet parsed, NULL if it cannot be opened
  named,    \* the items the file names
  failed,   \* the handler has refused a line
  cfg,      \* rr_configuration
  os,       \* the limit on open files in force, and the highest permitted
  maxClients,  \* server.max_clients
  best,     \* bestlimit
  nextFd    \* the descriptor the next call returns

parsing   == <<args, option, options, lines, named, failed, cfg>>
resources == <<os, maxClients, best, nextFd>>
startupVars == <<pc, parsing, resources>>

StartupInit ==
  /\ pc = "args"
  /\ args \in CommandLines
  /\ option = NULL
  /\ options = << >>
  /\ lines \in Files
  /\ named = {}
  /\ failed = FALSE
  /\ \E g \in Garbage : cfg = [i \in Items |-> IF i \in TextItems THEN "empty" ELSE g]
  /\ os \in Limits
  /\ maxClients = 0
  /\ best = 0
  /\ nextFd = FirstFd

(* Conversion of x to a signed type of the given width. *)
Signed(x, mod) == IF x % mod < mod \div 2 THEN x % mod ELSE (x % mod) - mod

Goto(step) == pc' = step

-----------------------------------------------------------------------------
(* main: the arguments. *)
ArgHelp ==
  /\ pc = "args" /\ args # << >> /\ Head(args).kind = "help"
  /\ Goto("exit")
  /\ UNCHANGED <<parsing, resources>>

ArgOption ==
  /\ pc = "args" /\ args # << >> /\ Head(args).kind = "option"
  /\ option' = Head(args).name
  /\ args' = Tail(args)
  /\ UNCHANGED <<pc, options, lines, named, failed, cfg, resources>>

(* A value without an option before it: usage. *)
ArgValue ==
  /\ pc = "args" /\ args # << >> /\ Head(args).kind = "value"
  /\ IF option = NULL
     THEN Goto("exit") /\ UNCHANGED <<args, option, options>>
     ELSE /\ options' = Assign(options, option, Head(args).value)
          /\ option' = NULL
          /\ args' = Tail(args)
          /\ UNCHANGED pc
  /\ UNCHANGED <<lines, named, failed, cfg, resources>>

ArgsDone ==
  /\ pc = "args" /\ args = << >>
  /\ Goto("config")
  /\ UNCHANGED <<parsing, resources>>

-----------------------------------------------------------------------------
(* memtoll: 0 for a unit it does not know, which the handler does not see. *)
Memtoll(v) ==
  IF v.text \in DOMAIN Units THEN Signed(v.n * Units[v.text], LongLongMod) ELSE 0

(* SETVAL: the command line wins.  unix_domain_perm is looked up under      *)
(* another name.                                                            *)
OptionName(item) == IF item = "unix_domain_perm" THEN "unix_sock_perm" ELSE item

Chosen(item, v) == IF OptionName(item) \in DOMAIN options THEN options[OptionName(item)] ELSE v

(* A permission is cast to mode_t, which is unsigned. *)
Converted(item, v) ==
  CASE item \in TextItems \cup {"log_level"} -> v.text
    [] item = "max_memory"       -> Memtoll(v)
    [] item = "unix_domain_perm" -> v.n % UIntMod
    [] OTHER                     -> v.n

(* What handler accepts, once the value is stored in c.  For the last three *)
(* numbers it looks at the port, named before them or not.                  *)
Accepts(item, c) ==
  CASE item \in {"max_clients", "max_memory"} -> c[item] >= 0
    [] item = "cron_frequency"   -> c[item] \in 0..MaxFrequency
    [] item \in {"pidfile", "log_file"} -> c[item] # "unopenable"
    [] item = "log_level"        -> c[item] \in Levels
    [] item = "unix_domain_perm" -> c[item] <= MaxPerm
    [] item = "port"             -> c[item] \in 0..MaxPort
    [] item \in {"tcp_backlog", "server_del", "max_dbs"} -> c["port"] >= 0
    [] item \in {"bind", "unix_domain_socket"} -> TRUE

ConfigLine ==
  /\ pc = "config" /\ lines \notin {NULL, << >>}
  /\ LET item == Head(lines).item
         c    == [cfg EXCEPT ![item] = Converted(item, Chosen(item, Head(lines).value))]
     IN  IF item \in Items
         THEN cfg' = c /\ failed' = (failed \/ ~Accepts(item, c)) /\ named' = named \cup {item}
         ELSE failed' = TRUE /\ UNCHANGED <<cfg, named>>
  /\ lines' = Tail(lines)
  /\ UNCHANGED <<pc, args, option, options, resources>>

(* ini_parse goes through the whole file and reports an error at its end. *)
ConfigDone ==
  /\ pc = "config" /\ lines \in {NULL, << >>}
  /\ Goto(IF failed \/ lines = NULL THEN "exit" ELSE "limit")
  /\ UNCHANGED <<parsing, resources>>

-----------------------------------------------------------------------------
(* rr_server_init reads a path the file did not name through a pointer that *)
(* was never set; it may also find nothing there.                           *)
UnsetPath ==
  /\ pc = "limit" /\ ~(TextItems \subseteq named)
  /\ Goto("fault")
  /\ UNCHANGED <<parsing, resources>>

(* rr_server_adjust_max_clients, in unsigned arithmetic. *)
Requested == cfg["max_clients"] % UIntMod

MaxFiles == (Requested + ReservedFds) % UIntMod

Getrlimit ==
  /\ pc = "limit"
  /\ IF os = NULL
     THEN maxClients' = AssumedLimit - ReservedFds /\ Goto("loop") /\ UNCHANGED best
     ELSE /\ maxClients' = Requested
          /\ best' = MaxFiles
          /\ Goto(IF os.cur < MaxFiles THEN "raise" ELSE "loop")
  /\ UNCHANGED <<parsing, os, nextFd>>

Setrlimit ==
  /\ pc = "raise" /\ best > os.cur
  /\ IF best <= os.hard
     THEN os' = [os EXCEPT !.cur = best] /\ Goto("reduce") /\ UNCHANGED best
     ELSE IF best < DecrStep
     THEN Goto("reduce") /\ UNCHANGED <<os, best>>
     ELSE best' = best - DecrStep /\ UNCHANGED <<pc, os>>
  /\ UNCHANGED <<parsing, maxClients, nextFd>>

SetrlimitEnds ==
  /\ pc = "raise" /\ best <= os.cur
  /\ Goto("reduce")
  /\ UNCHANGED <<parsing, resources>>

(* The reserve is forgotten. *)
BugReduced(limit) == limit % UIntMod

Reduced(limit) == (limit - ReservedFds) % UIntMod

Reduce ==
  /\ pc = "reduce"
  /\ LET limit == IF best < os.cur THEN os.cur ELSE best
     IN  IF limit < MaxFiles
         THEN /\ maxClients' = Reduced(limit)
              /\ Goto(IF Reduced(limit) < 1 THEN "exit" ELSE "loop")
         ELSE Goto("loop") /\ UNCHANGED maxClients
  /\ UNCHANGED <<parsing, os, best, nextFd>>

-----------------------------------------------------------------------------
(* A call that returns a descriptor, which may fail. *)
Opens(next) ==
  \/ /\ os # NULL => nextFd < os.cur
     /\ nextFd' = nextFd + 1
     /\ Goto(next)
  \/ UNCHANGED nextFd /\ Goto("exit")

(* el_loop_create takes the size as an int; rr_malloc aborts when there is  *)
(* not enough memory, as for a negative size.                               *)
TableSize == Signed(maxClients, UIntMod)

LoopCreate ==
  /\ pc = "loop"
  /\ IF TableSize < 0 THEN Goto("abort") /\ UNCHANGED nextFd ELSE Opens("tcp")
  /\ UNCHANGED <<parsing, os, maxClients, best>>

(* rr_net_tcpserver or rr_net_unixserver, rr_net_nonblock and el_event_add, *)
(* which refuses descriptors beyond the table.                              *)
Listen(next) == Opens(IF nextFd >= TableSize THEN "exit" ELSE next)

TcpServer ==
  /\ pc = "tcp"
  /\ Listen("unix")
  /\ UNCHANGED <<parsing, os, maxClients, best>>

UnixServer ==
  /\ pc = "unix"
  /\ IF cfg["unix_domain_socket"] = "empty" THEN Goto("timer") /\ UNCHANGED nextFd
     ELSE Listen("timer")
  /\ UNCHANGED <<parsing, os, maxClients, best>>

(* After the timer the databases: their number is not checked. *)
Databases ==
  /\ pc = "timer"
  /\ Goto(IF cfg["max_dbs"] < 0 THEN "abort" ELSE "running")
  /\ UNCHANGED <<parsing, resources>>

Boot ==
  \/ ArgHelp \/ ArgOption \/ ArgValue \/ ArgsDone
  \/ ConfigLine \/ ConfigDone
  \/ UnsetPath \/ Getrlimit \/ Setrlimit \/ SetrlimitEnds \/ Reduce
  \/ LoopCreate \/ TcpServer \/ UnixServer

-----------------------------------------------------------------------------
(* A server that runs has room for every client it admits and for its own   *)
(* descriptors, whatever the operating system granted and however the       *)
(* unsigned arithmetic went: it never admits more clients than configured,  *)
(* and fewer only if the limit it may set is within one step of too low.    *)
LimitHonoured ==
  pc = "running" =>
    /\ nextFd <= maxClients
    /\ os # NULL =>
         /\ maxClients + ReservedFds <= os.cur
         /\ maxClients <= Requested
         /\ maxClients < Requested => maxClients + ReservedFds > os.hard - DecrStep
=============================================================================
