---------------------------- MODULE ServerProofs ----------------------------
(***************************************************************************)
(* The server's two threads.                                               *)
(*                                                                         *)
(* The main one: that a server that runs has room for its clients          *)
(* (LimitHonoured) and that el_main sleeps exactly until a timer to come   *)
(* (SleepExact), for every configuration, command line, limit on open      *)
(* files and length of a second.                                           *)
(*                                                                         *)
(* The background one: the inductive invariant of BgTask, and that the     *)
(* task runner implements TaskQueue, for any set of tasks.                 *)
(***************************************************************************)
EXTENDS Server, BgTask, ListTheorems, SequenceTheorems, TLAPS

Numbers == Items \ (TextItems \cup {"log_level"})

ParsingType ==
  /\ args \in Seq(Argument)
  /\ \A o \in DOMAIN options : options[o] \in Scalar
  /\ lines \in Seq(Setting) \cup {NULL}
  /\ DOMAIN cfg = Items
  /\ \A i \in Numbers : cfg[i] \in Int

ResourceType ==
  /\ os \in Limit \cup {NULL}
  /\ os # NULL => os.cur <= os.hard
  /\ maxClients \in 0 .. UIntMod - 1
  /\ best \in Nat
  /\ nextFd \in Nat

Due == [sec: Int, ms: 0 .. MsPerSec - 1]

TimerType ==
  /\ ms \in 0 .. MsPerSec - 1
  /\ due \in Due \cup {NoTimer}
  /\ left \in Nat \cup {NoTimer}
  /\ at \in {"prepare", "poll", "process"}

(* The values tried go down by one step at a time from the one asked for,   *)
(* so the last one refused was above the highest permitted.                 *)
LastTry ==
  /\ os # NULL
  /\ maxClients = Requested
  /\ best <= MaxFiles
  /\ best = MaxFiles \/ best + DecrStep > os.hard

(* What rr_server_adjust_max_clients is for. *)
Fits ==
  os # NULL =>
    /\ maxClients + ReservedFds <= os.cur
    /\ maxClients <= Requested
    /\ maxClients < Requested => maxClients + ReservedFds > os.hard - DecrStep

(* Where the arithmetic wrapped around, the size of the event table is      *)
(* negative and the server does not get past creating it.                   *)
Stages ==
  /\ pc = "raise" => LastTry /\ os.cur < MaxFiles
  /\ pc = "reduce" => LastTry /\ os.cur <= MaxFiles /\ (best <= os.cur \/ best < DecrStep)
  /\ pc = "loop" => TableSize < 0 \/ Fits
  /\ pc \in {"tcp", "unix", "timer", "running"} => Fits
  /\ pc \in {"unix", "timer", "running"} => nextFd <= maxClients

(* The loop has not begun when the timer is added. *)
NotLooping == pc \notin {"running", "fault"} => at = "prepare"

IInv ==
  /\ ParsingType
  /\ ResourceType
  /\ TimerType
  /\ Stages
  /\ NotLooping
  /\ SleepExact

-----------------------------------------------------------------------------
(* Remainders of numbers at most one modulus away. *)
LEMMA Remainders ==
  ASSUME NEW m \in Nat \ {0}
  PROVE  /\ \A x \in Int : x % m \in 0 .. m - 1
         /\ \A x \in 0 .. m - 1 : x % m = x
         /\ \A x \in m .. 2 * m - 1 : x % m = x - m
         /\ \A x \in -m .. -1 : x % m = x + m
<1>1. \A x \in Int : x % m \in 0 .. m - 1
  OBVIOUS
<1>2. \A x \in 0 .. m - 1 : x % m = x
  OBVIOUS
<1>3. \A x \in m .. 2 * m - 1 : x % m = x - m
  OBVIOUS
<1>4. \A x \in -m .. -1 : x % m = x + m
  OBVIOUS
<1> QED
  BY <1>1, <1>2, <1>3, <1>4

(* Conversion to a signed number subtracts the modulus or nothing. *)
LEMMA SignedValue ==
  ASSUME NEW m \in Nat \ {0}, NEW x \in Int
  PROVE  /\ Signed(x, m) \in Int
         /\ x \in 0 .. m - 1 =>
              /\ Signed(x, m) <= x
              /\ x >= m \div 2 => Signed(x, m) < 0
<1>1. x % m \in 0 .. m - 1 /\ m \div 2 \in Int
  OBVIOUS
<1>2. x \in 0 .. m - 1 => x % m = x
  BY Remainders
<1> QED
  BY <1>1, <1>2 DEF Signed

(* The configuration the file yields has numbers where numbers belong. *)
LEMMA ConvertedNumber ==
  ASSUME NEW item \in Numbers, NEW v \in Scalar
  PROVE  Converted(item, v) \in Int
<1>1. v.n \in Int
  BY DEF Scalar
<1>2. LongLongMod \in Nat \ {0}
  BY StartupAssumption
<1>3. v.text \in DOMAIN Units => Signed(v.n * Units[v.text], LongLongMod) \in Int
  <2> SUFFICES ASSUME v.text \in DOMAIN Units
               PROVE  Signed(v.n * Units[v.text], LongLongMod) \in Int
    OBVIOUS
  <2>1. Units[v.text] \in Int
    BY StartupAssumption
  <2>2. v.n * Units[v.text] \in Int
    BY <1>1, <2>1
  <2> QED
    BY <1>2, <2>2, SignedValue
<1>4. Memtoll(v) \in Int
  BY <1>3 DEF Memtoll
<1>5. v.n % UIntMod \in Int
  BY <1>1, StartupAssumption
<1> QED
  BY <1>1, <1>4, <1>5 DEF Converted, Numbers

-----------------------------------------------------------------------------
(* The start. *)

LEMMA StartupConstants ==
  /\ ReservedFds \in Nat \ {0} /\ DecrStep \in Nat \ {0} /\ FirstFd \in Nat \ {0}
  /\ UIntMod \in Nat \ {0} /\ AssumedLimit \in Nat
  /\ DecrStep <= ReservedFds /\ ReservedFds <= AssumedLimit /\ 2 * AssumedLimit < UIntMod
BY StartupAssumption

LEMMA InitIInv == Init => IInv
<1> SUFFICES ASSUME Init
             PROVE  IInv
  OBVIOUS
<1> USE DEF Init, StartupInit, TimersInit
<1>1. ParsingType
  <2>1. PICK g \in Garbage : cfg = [i \in Items |-> IF i \in TextItems THEN "empty" ELSE g]
    OBVIOUS
  <2>2. g \in Int
    BY StartupAssumption
  <2>3. DOMAIN cfg = Items /\ \A i \in Numbers : cfg[i] \in Int
    BY <2>1, <2>2 DEF Numbers
  <2>4. args \in Seq(Argument) /\ lines \in Seq(Setting) \cup {NULL}
    BY StartupAssumption
  <2> QED
    BY <2>3, <2>4 DEF ParsingType
<1>2. ResourceType
  BY StartupAssumption DEF ResourceType
<1>3. TimerType
  BY TimersAssumption DEF TimerType
<1>4. Stages /\ NotLooping /\ SleepExact
  BY DEF Stages, NotLooping, SleepExact
<1> QED
  BY <1>1, <1>2, <1>3, <1>4 DEF IInv

LEMMA BootParsing ==
  ASSUME ParsingType, Boot
  PROVE  ParsingType'
<1>1. CASE ArgOption
  <2>1. args # << >> /\ args' = Tail(args) /\ UNCHANGED <<options, lines, cfg>>
    BY <1>1 DEF ArgOption
  <2>2. args' \in Seq(Argument)
    BY <2>1 DEF ParsingType
  <2> QED
    BY <2>1, <2>2 DEF ParsingType
<1>2. CASE ArgValue
  <2>1. CASE option = NULL
    BY <1>2, <2>1 DEF ArgValue, ParsingType
  <2>2. CASE option # NULL
    <3>1. /\ args # << >> /\ Head(args).kind = "value"
          /\ args' = Tail(args)
          /\ options' = Assign(options, option, Head(args).value)
          /\ UNCHANGED <<lines, cfg>>
      BY <1>2, <2>2 DEF ArgValue
    <3>2. Head(args) \in Argument /\ args' \in Seq(Argument)
      BY <3>1 DEF ParsingType
    <3>3. Head(args).value \in Scalar
      BY <3>1, <3>2 DEF Argument
    <3>4. \A o \in DOMAIN options' : options'[o] \in Scalar
      BY <3>1, <3>3 DEF ParsingType, Assign
    <3> QED
      BY <3>1, <3>2, <3>4 DEF ParsingType
  <2> QED
    BY <2>1, <2>2
<1>3. CASE ConfigLine
  <2> DEFINE item == Head(lines).item
             v == Chosen(item, Head(lines).value)
             c == [cfg EXCEPT ![item] = Converted(item, v)]
  <2>1. /\ lines # NULL /\ lines # << >>
        /\ lines' = Tail(lines)
        /\ UNCHANGED <<args, options>>
        /\ (item \in Items /\ cfg' = c) \/ cfg' = cfg
    BY <1>3 DEF ConfigLine
  <2>2. lines' \in Seq(Setting) /\ Head(lines) \in Setting
    BY <2>1 DEF ParsingType
  <2>3. v \in Scalar
    BY <2>2 DEF ParsingType, Chosen, Setting
  <2>4. DOMAIN cfg' = Items /\ \A i \in Numbers : cfg'[i] \in Int
    <3>1. CASE cfg' = cfg
      BY <3>1 DEF ParsingType
    <3>2. CASE item \in Items /\ cfg' = c
      <4>1. item \in Numbers => Converted(item, v) \in Int
        BY <2>3, ConvertedNumber
      <4> HIDE DEF v
      <4>2. DOMAIN cfg' = Items
        BY <3>2 DEF ParsingType
      <4>3. ASSUME NEW i \in Numbers
            PROVE  cfg'[i] \in Int
        <5>1. i \in DOMAIN cfg
          BY DEF ParsingType, Numbers
        <5>2. CASE i = item
          BY <3>2, <4>1, <5>1, <5>2
        <5>3. CASE i # item
          BY <3>2, <5>1, <5>3 DEF ParsingType
        <5> QED
          BY <5>2, <5>3
      <4> QED
        BY <4>2, <4>3
    <3> QED
      BY <2>1, <3>1, <3>2
  <2> QED
    BY <2>1, <2>2, <2>4 DEF ParsingType
<1>4. CASE UNCHANGED parsing
  BY <1>4 DEF ParsingType, parsing
<1> QED
  BY <1>1, <1>2, <1>3, <1>4
  DEF Boot, ArgHelp, ArgsDone, ConfigDone, UnsetPath, Getrlimit, Setrlimit, SetrlimitEnds,
      Reduce, LoopCreate, TcpServer, UnixServer

(* max_clients as an unsigned number, and the descriptors it asks for. *)
LEMMA RequestedFiles ==
  ASSUME ParsingType
  PROVE  /\ Requested \in 0 .. UIntMod - 1
         /\ MaxFiles \in 0 .. UIntMod - 1
         /\ \/ MaxFiles = Requested + ReservedFds
            \/ Requested + ReservedFds >= UIntMod /\ MaxFiles = Requested + ReservedFds - UIntMod
<1>1. cfg["max_clients"] \in Int
  BY DEF ParsingType, Numbers, Items, TextItems
<1>2. Requested \in 0 .. UIntMod - 1
  BY <1>1, StartupConstants DEF Requested
<1>3. Requested + ReservedFds \in 0 .. 2 * UIntMod - 1
  BY <1>2, StartupConstants
<1> HIDE DEF Requested
<1>4. CASE Requested + ReservedFds < UIntMod
  <2>1. Requested + ReservedFds \in 0 .. UIntMod - 1
    BY <1>3, <1>4, StartupConstants
  <2>2. MaxFiles = Requested + ReservedFds
    BY <2>1, Remainders, StartupConstants DEF MaxFiles
  <2> QED
    BY <1>2, <2>1, <2>2
<1>5. CASE Requested + ReservedFds >= UIntMod
  <2> DEFINE x == Requested + ReservedFds
  <2>1. x \in Int /\ x \in UIntMod .. 2 * UIntMod - 1 /\ UIntMod \in Nat \ {0}
    BY <1>2, <1>3, <1>5, StartupConstants
  <2>2. MaxFiles = Requested + ReservedFds - UIntMod
    <3> HIDE DEF x
    <3>1. x % UIntMod = x - UIntMod
      BY <2>1
    <3> QED
      BY <1>2, <2>1, <3>1, StartupConstants DEF MaxFiles, x
  <2>3. Requested + ReservedFds - UIntMod \in 0 .. UIntMod - 1
    BY <1>2, <1>5, StartupConstants
  <2> QED
    BY <1>2, <1>5, <2>2, <2>3
<1> QED
  BY <1>2, <1>3, <1>4, <1>5, StartupConstants

(* A number of clients within the reserve of the modulus does not get past  *)
(* el_loop_create.                                                          *)
LEMMA WrappedTable ==
  ASSUME NEW c \in 0 .. UIntMod - 1
  PROVE  /\ Signed(c, UIntMod) \in Int
         /\ Signed(c, UIntMod) <= c
         /\ c + ReservedFds >= UIntMod => Signed(c, UIntMod) < 0
<1>1. UIntMod \div 2 \in Int /\ 2 * (UIntMod \div 2) <= UIntMod
  BY StartupConstants
<1>2. c + ReservedFds >= UIntMod => c >= UIntMod \div 2
  BY <1>1, StartupConstants
<1> QED
  BY <1>2, SignedValue, StartupConstants

(* rr_server_adjust_max_clients reduces the number of clients. *)
LEMMA ReduceFits ==
  ASSUME ParsingType, ResourceType, Stages, Reduce
  PROVE  ResourceType' /\ Stages'
<1> DEFINE limit == IF best < os.cur THEN os.cur ELSE best
<1>1. /\ LastTry /\ os.cur <= MaxFiles /\ (best <= os.cur \/ best < DecrStep)
      /\ os \in Limit /\ os.cur \in Nat /\ os.hard \in Nat /\ os # NULL
      /\ UNCHANGED <<parsing, os, best, nextFd>>
  BY DEF Reduce, Stages, ResourceType, Limit, LastTry
<1>2. Requested' = Requested /\ MaxFiles' = MaxFiles
  BY <1>1 DEF Requested, MaxFiles, parsing
<1>3. limit \in Nat /\ limit >= best /\ limit >= os.cur
  BY <1>1 DEF ResourceType
<1>4. /\ Requested \in 0 .. UIntMod - 1 /\ MaxFiles \in 0 .. UIntMod - 1
      /\ \/ MaxFiles = Requested + ReservedFds
         \/ Requested + ReservedFds >= UIntMod /\ MaxFiles = Requested + ReservedFds - UIntMod
  BY RequestedFiles
<1>5. CASE limit < MaxFiles
  <2>1. maxClients' = Reduced(limit) /\ pc' = IF Reduced(limit) < 1 THEN "exit" ELSE "loop"
    BY <1>5 DEF Reduce, Goto
  <2>2. limit - ReservedFds \in Int /\ limit < UIntMod
    BY <1>3, <1>4, <1>5, StartupConstants
  <2>3. Reduced(limit) \in 0 .. UIntMod - 1
    <3> HIDE DEF limit
    <3> QED
      BY <2>2, Remainders, StartupConstants DEF Reduced
  <2>4. ResourceType'
    BY <1>1, <2>1, <2>3 DEF ResourceType
  <2>5. CASE limit < ReservedFds
    <3>1. Reduced(limit) = limit - ReservedFds + UIntMod
      <4>1. limit - ReservedFds \in -UIntMod .. -1
        BY <1>3, <2>5, StartupConstants
      <4> HIDE DEF limit
      <4> QED
        BY <4>1, Remainders, StartupConstants DEF Reduced
    <3>2. maxClients' + ReservedFds >= UIntMod
      BY <1>3, <2>1, <3>1, StartupConstants
    <3>3. TableSize' < 0
      BY <2>1, <2>3, <3>2, WrappedTable DEF TableSize
    <3> QED
      BY <2>1, <2>4, <3>3 DEF Stages
  <2>6. CASE limit >= ReservedFds
    <3>1. Reduced(limit) = limit - ReservedFds
      <4>1. limit - ReservedFds \in 0 .. UIntMod - 1
        BY <1>3, <2>2, <2>6, StartupConstants
      <4> HIDE DEF limit
      <4> QED
        BY <4>1, Remainders, StartupConstants DEF Reduced
    <3>2. best <= os.cur
      BY <1>1, <1>3, <2>6, StartupConstants DEF ResourceType
    <3>3. limit = os.cur
      BY <1>1, <3>2 DEF ResourceType
    <3>4. best < MaxFiles /\ best + DecrStep > os.hard
      BY <1>1, <1>3, <1>4, <1>5, StartupConstants DEF LastTry, ResourceType
    <3>5. limit - ReservedFds <= Requested /\ limit > os.hard - DecrStep
      BY <1>1, <1>3, <1>4, <1>5, <3>4, StartupConstants DEF ResourceType
    <3>6. Fits'
      BY <1>1, <1>2, <1>3, <2>1, <3>1, <3>3, <3>5, StartupConstants DEF Fits
    <3> QED
      BY <2>1, <2>4, <3>6 DEF Stages
  <2> QED
    BY <1>3, <2>5, <2>6, StartupConstants
<1>6. CASE ~(limit < MaxFiles)
  <2>1. pc' = "loop" /\ maxClients' = maxClients /\ maxClients = Requested
    BY <1>1, <1>6 DEF Reduce, Goto, LastTry
  <2>2. ResourceType'
    BY <1>1, <2>1 DEF ResourceType
  <2>3. os.cur = MaxFiles \/ (best = MaxFiles /\ best < DecrStep)
    BY <1>1, <1>3, <1>4, <1>6, StartupConstants DEF LastTry, ResourceType
  <2>4. CASE MaxFiles = Requested + ReservedFds
    <3>1. os.cur = MaxFiles
      BY <1>4, <2>3, <2>4, StartupConstants
    <3>2. Fits'
      BY <1>1, <1>2, <1>4, <2>1, <2>4, <3>1, StartupConstants DEF Fits
    <3> QED
      BY <2>1, <2>2, <3>2 DEF Stages
  <2>5. CASE Requested + ReservedFds >= UIntMod
    <3>1. TableSize' < 0
      BY <1>4, <2>1, <2>5, WrappedTable DEF TableSize
    <3> QED
      BY <2>1, <2>2, <3>1 DEF Stages
  <2> QED
    BY <1>4, <2>4, <2>5
<1> QED
  BY <1>5, <1>6

(* The calls that open a descriptor: nothing else of the resources changes, *)
(* and the sockets are within the event table.                              *)
LEMMA ListenFits ==
  ASSUME ResourceType, NEW next, Listen(next)
  PROVE  /\ nextFd' \in Nat
         /\ pc' = "exit" \/ (pc' = next /\ nextFd' <= maxClients)
<1>1. maxClients \in Nat /\ nextFd \in Nat
  BY StartupConstants DEF ResourceType
<1>2. TableSize \in Int /\ TableSize <= maxClients
  BY WrappedTable DEF TableSize, ResourceType
<1>3. CASE UNCHANGED nextFd /\ pc' = "exit"
  BY <1>1, <1>3
<1>4. CASE nextFd' = nextFd + 1 /\ pc' = IF nextFd >= TableSize THEN "exit" ELSE next
  <2>1. nextFd' \in Nat
    BY <1>1, <1>4
  <2>2. CASE nextFd >= TableSize
    BY <1>4, <2>1, <2>2
  <2>3. CASE ~(nextFd >= TableSize)
    BY <1>1, <1>2, <1>4, <2>1, <2>3
  <2> QED
    BY <2>2, <2>3
<1> QED
  BY <1>3, <1>4 DEF Listen, Opens, Goto

LEMMA ResourcesFit ==
  ASSUME ParsingType, ResourceType, Stages, Boot \/ Databases
  PROVE  ResourceType' /\ Stages'
<1>1. CASE pc \in {"args", "config"} /\ UNCHANGED resources /\ pc' \in {"args", "config", "limit", "exit"}
  BY <1>1 DEF ResourceType, Stages, resources
<1>2. CASE UnsetPath
  BY <1>2 DEF UnsetPath, Goto, ResourceType, Stages, resources
<1>3. CASE Getrlimit
  <2>1. CASE os = NULL
    <3>1. maxClients' = AssumedLimit - ReservedFds /\ pc' = "loop" /\ UNCHANGED <<os, best, nextFd>>
      BY <1>3, <2>1 DEF Getrlimit, Goto
    <3>2. maxClients' \in 0 .. UIntMod - 1
      BY <3>1, StartupConstants
    <3> QED
      BY <2>1, <3>1, <3>2 DEF ResourceType, Stages, Fits
  <2>2. CASE os # NULL
    <3>1. /\ maxClients' = Requested /\ best' = MaxFiles /\ UNCHANGED <<os, nextFd, parsing>>
          /\ pc' = IF os.cur < MaxFiles THEN "raise" ELSE "loop"
      BY <1>3, <2>2 DEF Getrlimit, Goto
    <3>2. /\ Requested \in 0 .. UIntMod - 1 /\ MaxFiles \in 0 .. UIntMod - 1
          /\ \/ MaxFiles = Requested + ReservedFds
             \/ Requested + ReservedFds >= UIntMod /\ MaxFiles = Requested + ReservedFds - UIntMod
      BY RequestedFiles
    <3>3. Requested' = Requested /\ MaxFiles' = MaxFiles
      BY <3>1 DEF Requested, MaxFiles, parsing
    <3>4. os.cur \in Nat /\ os.hard \in Nat
      BY <2>2 DEF ResourceType, Limit
    <3>5. ResourceType'
      BY <3>1, <3>2 DEF ResourceType
    <3>6. CASE os.cur < MaxFiles
      <4>1. LastTry' /\ (os.cur < MaxFiles)'
        BY <2>2, <3>1, <3>2, <3>3, <3>6 DEF LastTry
      <4> QED
        BY <3>1, <3>5, <3>6, <4>1 DEF Stages
    <3>7. CASE ~(os.cur < MaxFiles)
      <4>1. CASE MaxFiles = Requested + ReservedFds
        <5>1. Fits'
          BY <3>1, <3>2, <3>3, <3>4, <3>7, <4>1, StartupConstants DEF Fits
        <5> QED
          BY <3>1, <3>5, <3>7, <5>1 DEF Stages
      <4>2. CASE Requested + ReservedFds >= UIntMod
        <5>1. TableSize' < 0
          BY <3>1, <3>2, <4>2, WrappedTable DEF TableSize
        <5> QED
          BY <3>1, <3>5, <3>7, <5>1 DEF Stages
      <4> QED
        BY <3>2, <4>1, <4>2
    <3> QED
      BY <3>6, <3>7
  <2> QED
    BY <2>1, <2>2
<1>4. CASE Setrlimit
  <2>1. /\ LastTry /\ os.cur < MaxFiles /\ os # NULL /\ best > os.cur
        /\ os \in Limit /\ os.cur \in Nat /\ os.hard \in Nat /\ best \in Nat
        /\ UNCHANGED <<parsing, maxClients, nextFd>>
    BY <1>4 DEF Setrlimit, Stages, LastTry, ResourceType, Limit
  <2>2. Requested' = Requested /\ MaxFiles' = MaxFiles /\ MaxFiles \in Nat
    BY <2>1, RequestedFiles, StartupConstants DEF Requested, MaxFiles, parsing
  <2> HIDE DEF Requested, MaxFiles
  <2>3. CASE best <= os.hard
    <3>1. os' = [os EXCEPT !.cur = best] /\ pc' = "reduce" /\ best' = best
      BY <1>4, <2>3 DEF Setrlimit, Goto
    <3>2. os' \in Limit /\ os'.cur = best /\ os'.hard = os.hard
      BY <2>1, <3>1 DEF Limit
    <3>3. os' # NULL
      BY <3>2, StartupAssumption
    <3>4. ResourceType'
      BY <2>1, <2>3, <3>1, <3>2, <3>3 DEF ResourceType
    <3>5. LastTry' /\ os'.cur <= MaxFiles' /\ best' <= os'.cur
      BY <2>1, <2>2, <3>1, <3>2, <3>3 DEF LastTry
    <3> QED
      BY <3>1, <3>4, <3>5 DEF Stages
  <2>4. CASE ~(best <= os.hard) /\ best < DecrStep
    <3>1. pc' = "reduce" /\ UNCHANGED <<os, best>>
      BY <1>4, <2>4 DEF Setrlimit, Goto
    <3>2. ResourceType'
      BY <2>1, <3>1 DEF ResourceType
    <3>3. LastTry' /\ os'.cur <= MaxFiles' /\ best' < DecrStep
      BY <2>1, <2>2, <2>4, <3>1 DEF LastTry
    <3> QED
      BY <3>1, <3>2, <3>3 DEF Stages
  <2>5. CASE ~(best <= os.hard) /\ ~(best < DecrStep)
    <3>1. best' = best - DecrStep /\ UNCHANGED <<pc, os>> /\ pc = "raise"
      BY <1>4, <2>5 DEF Setrlimit
    <3>2. best' \in Nat /\ best' <= best /\ best' + DecrStep > os.hard
      BY <2>1, <2>5, <3>1, StartupConstants
    <3>3. ResourceType'
      BY <2>1, <3>1, <3>2 DEF ResourceType
    <3>4. LastTry' /\ os'.cur < MaxFiles'
      BY <2>1, <2>2, <3>1, <3>2 DEF LastTry
    <3> QED
      BY <3>1, <3>3, <3>4 DEF Stages
  <2> QED
    BY <2>3, <2>4, <2>5
<1>5. CASE SetrlimitEnds
  <2>1. /\ LastTry /\ os.cur < MaxFiles /\ best <= os.cur /\ os # NULL
        /\ os.cur \in Nat
        /\ UNCHANGED <<parsing, resources>> /\ pc' = "reduce"
    BY <1>5 DEF SetrlimitEnds, Stages, LastTry, ResourceType, Limit, Goto
  <2>2. Requested' = Requested /\ MaxFiles' = MaxFiles /\ MaxFiles \in Nat
    BY <2>1, RequestedFiles, StartupConstants DEF Requested, MaxFiles, parsing
  <2>3. LastTry' /\ os'.cur <= MaxFiles' /\ best' <= os'.cur
    BY <2>1, <2>2 DEF LastTry, resources
  <2> QED
    BY <2>1, <2>3 DEF ResourceType, Stages, resources
<1>6. CASE Reduce
  BY <1>6, ReduceFits
<1>7. CASE LoopCreate
  <2>1. Fits' = Fits
    BY <1>7 DEF LoopCreate, Fits, Requested, parsing
  <2>2. nextFd' \in Nat /\ (pc' \in {"abort", "exit"} \/ (pc' = "tcp" /\ Fits))
    BY <1>7 DEF LoopCreate, Opens, Goto, ResourceType, Stages
  <2> QED
    BY <1>7, <2>1, <2>2 DEF LoopCreate, ResourceType, Stages
<1>8. CASE TcpServer
  <2>1. Fits' = Fits /\ Fits
    BY <1>8 DEF TcpServer, Fits, Requested, parsing, Stages
  <2>2. nextFd' \in Nat /\ (pc' = "exit" \/ (pc' = "unix" /\ nextFd' <= maxClients))
    BY <1>8, ListenFits DEF TcpServer
  <2> QED
    BY <1>8, <2>1, <2>2 DEF TcpServer, ResourceType, Stages
<1>9. CASE UnixServer
  <2>1. Fits' = Fits /\ Fits /\ nextFd <= maxClients
    BY <1>9 DEF UnixServer, Fits, Requested, parsing, Stages
  <2>2. nextFd' \in Nat /\ (pc' = "exit" \/ (pc' = "timer" /\ nextFd' <= maxClients))
    BY <1>9, <2>1, ListenFits DEF UnixServer, Goto, ResourceType
  <2> QED
    BY <1>9, <2>1, <2>2 DEF UnixServer, ResourceType, Stages
<1>10. CASE Databases
  <2>1. Fits' = Fits /\ Fits /\ nextFd <= maxClients /\ UNCHANGED resources
    BY <1>10 DEF Databases, Fits, Requested, parsing, resources, Stages
  <2> QED
    BY <1>10, <2>1 DEF Databases, Goto, resources, ResourceType, Stages
<1>11. CASE ArgHelp \/ ArgOption \/ ArgValue \/ ArgsDone \/ ConfigLine \/ ConfigDone
  <2>1. pc \in {"args", "config"} /\ UNCHANGED resources /\ pc' \in {"args", "config", "limit", "exit"}
    BY <1>11 DEF ArgHelp, ArgOption, ArgValue, ArgsDone, ConfigLine, ConfigDone, Goto, resources
  <2> QED
    BY <1>1, <2>1
<1> QED
  BY <1>2, <1>3, <1>4, <1>5, <1>6, <1>7, <1>8, <1>9, <1>10, <1>11 DEF Boot

-----------------------------------------------------------------------------
(* The timer. *)

LEMMA ExpireAtType ==
  ASSUME TimerType, NEW delta \in Int
  PROVE  ExpireAt(delta) \in Due
<1>1. delta \div MsPerSec \in Int /\ delta % MsPerSec \in 0 .. MsPerSec - 1 /\ MsPerSec \in Nat \ {0}
  BY TimersAssumption
<1>2. ms \in 0 .. MsPerSec - 1
  BY DEF TimerType
<1> QED
  BY <1>1, <1>2 DEF ExpireAt, Due

(* el_poll_get_timeout returns the milliseconds up to a timer to come.      *)
LEMMA TimeoutExact ==
  ASSUME TimerType, due # NoTimer
  PROVE  /\ Timeout(due) \in Nat
         /\ Ahead \in Int
         /\ Ahead > 0 => Timeout(due) = Ahead
<1> DEFINE m == IF due.ms < ms THEN due.ms + MsPerSec - ms ELSE due.ms - ms
           s == IF due.ms < ms THEN due.sec - 1 ELSE due.sec
<1>1. /\ MsPerSec \in Nat \ {0} /\ ms \in 0 .. MsPerSec - 1
      /\ due.sec \in Int /\ due.ms \in 0 .. MsPerSec - 1
  BY TimersAssumption DEF TimerType, Due
<1>2. m \in 0 .. MsPerSec - 1 /\ s \in Int
  BY <1>1
<1>3. Ahead = s * MsPerSec + m
  <2>1. (due.sec - 1) * MsPerSec = due.sec * MsPerSec - MsPerSec
    BY <1>1
  <2> QED
    BY <1>1, <2>1 DEF Ahead
<1>4. Timeout(due) = (IF s < 0 THEN 0 ELSE s) * MsPerSec + m
  BY DEF Timeout
<1> HIDE DEF m, s
<1>5. s * MsPerSec \in Int
  BY <1>1, <1>2
<1>6. CASE s < 0
  <2>1. s * MsPerSec <= - MsPerSec
    BY <1>1, <1>2, <1>6
  <2>2. Timeout(due) = m
    BY <1>1, <1>2, <1>4, <1>6
  <2> QED
    BY <1>1, <1>2, <1>3, <1>5, <2>1, <2>2
<1>7. CASE ~(s < 0)
  <2>1. s * MsPerSec >= 0
    BY <1>1, <1>2, <1>7
  <2>2. Timeout(due) = s * MsPerSec + m
    BY <1>4, <1>7
  <2> QED
    BY <1>1, <1>2, <1>3, <1>5, <2>1, <2>2
<1> QED
  BY <1>6, <1>7

(* A millisecond brings the timer closer by one, at the turn of the second  *)
(* too.                                                                     *)
LEMMA TickAhead ==
  ASSUME TimerType, Tick
  PROVE  /\ ms' \in 0 .. MsPerSec - 1
         /\ due' \in Due \cup {NoTimer}
         /\ (due' = NoTimer) = (due = NoTimer)
         /\ due # NoTimer => Ahead' = Ahead - 1 /\ Ahead \in Int
<1>1. /\ MsPerSec \in Nat \ {0} /\ ms \in 0 .. MsPerSec - 1 /\ NoTimer \notin Int
      /\ ms' = (ms + 1) % MsPerSec
      /\ due' = IF due # NoTimer /\ ms' = 0 THEN [due EXCEPT !.sec = @ - 1] ELSE due
  BY TimersAssumption DEF TimerType, Tick
<1>2. \/ ms + 1 < MsPerSec /\ ms' = ms + 1
      \/ ms + 1 = MsPerSec /\ ms' = 0
  BY <1>1
<1>3. ms' \in 0 .. MsPerSec - 1
  BY <1>1, <1>2
<1>4. CASE due = NoTimer
  BY <1>1, <1>3, <1>4
<1>5. CASE due # NoTimer
  <2>1. due \in Due /\ due.sec \in Int /\ due.ms \in Int
    BY <1>1, <1>5 DEF TimerType, Due
  <2>2. due.sec * MsPerSec \in Int /\ (due.sec - 1) * MsPerSec = due.sec * MsPerSec - MsPerSec
    BY <1>1, <2>1
  <2>3. CASE ms' # 0
    <3>1. due' = due /\ ms' = ms + 1
      BY <1>1, <1>2, <2>3
    <3> QED
      BY <1>1, <1>3, <1>5, <2>1, <2>2, <3>1 DEF Ahead
  <2>4. CASE ms' = 0
    <3>1. due' = [due EXCEPT !.sec = @ - 1] /\ ms + 1 = MsPerSec
      BY <1>1, <1>2, <1>5, <2>4
    <3>2. due' \in Due /\ due'.sec = due.sec - 1 /\ due'.ms = due.ms
      BY <2>1, <3>1 DEF Due
    <3>3. due' # NoTimer
      <4>1. due' \in [sec: Int, ms: Int]
        BY <3>2 DEF Due
      <4> QED
        BY <4>1, TimersAssumption
    <3>4. Ahead' = Ahead - 1 /\ Ahead \in Int
      BY <1>1, <2>1, <2>2, <2>4, <3>1, <3>2 DEF Ahead
    <3> QED
      BY <1>3, <1>5, <3>2, <3>3, <3>4
  <2> QED
    BY <2>3, <2>4
<1> QED
  BY <1>4, <1>5

LEMMA SleepStep ==
  ASSUME IInv, Next
  PROVE  TimerType' /\ SleepExact'
<1>1. /\ TimerType /\ SleepExact /\ NotLooping /\ ParsingType
      /\ NoTimer \notin Int /\ MsPerSec \in Nat \ {0}
  BY TimersAssumption DEF IInv
<1>2. CASE UNCHANGED timerVars
  <2>1. SleepExact' = SleepExact
    BY <1>2 DEF SleepExact, Ahead, timerVars
  <2> QED
    BY <1>1, <1>2, <2>1 DEF TimerType, timerVars
<1>3. CASE StartsCron
  <2>1. /\ due' = ExpireAt(1) /\ UNCHANGED <<ms, left, at>> /\ at = "prepare"
    BY <1>1, <1>3 DEF StartsCron, Databases, AddTimer, NotLooping
  <2>2. ExpireAt(1) \in Due
    BY <1>1, ExpireAtType
  <2> QED
    BY <1>1, <2>1, <2>2 DEF TimerType, SleepExact
<1>4. CASE GetTimeout
  <2>1. /\ left' = IF due = NoTimer THEN NoTimer ELSE Timeout(due)
        /\ at' = "poll" /\ UNCHANGED <<ms, due>> /\ Ahead' = Ahead
    BY <1>4 DEF GetTimeout, Ahead
  <2>2. CASE due = NoTimer
    BY <1>1, <2>1, <2>2 DEF TimerType, SleepExact
  <2>3. CASE due # NoTimer
    <3>1. left' = Timeout(due) /\ left' \in Nat /\ left' # NoTimer
      BY <1>1, <2>1, <2>3, TimeoutExact
    <3>2. Ahead' > 0 => left' = Ahead'
      BY <1>1, <2>1, <2>3, <3>1, TimeoutExact
    <3> QED
      BY <1>1, <2>1, <3>1, <3>2 DEF TimerType, SleepExact
  <2> QED
    BY <2>2, <2>3
<1>5. CASE PollTimesOut \/ PollInterrupted \/ NotDue
  <2>1. at' \in {"process", "prepare"} /\ UNCHANGED <<ms, due, left>>
    BY <1>5 DEF PollTimesOut, PollInterrupted, PollReturns, NotDue
  <2> QED
    BY <1>1, <2>1 DEF TimerType, SleepExact
<1>6. CASE ServerCron /\ cfg["cron_frequency"] # 0
  <2> DEFINE hz == cfg["cron_frequency"]
  <2>1. hz \in Int /\ hz # 0
    BY <1>1, <1>6 DEF ParsingType, Numbers, Items, TextItems
  <2>2. Period \in Int
    <3> HIDE DEF hz
    <3>1. CASE hz > 0
      <4>1. MsPerSec \div hz \in Int
        BY <1>1, <2>1, <3>1
      <4> QED
        BY <3>1, <4>1 DEF Period, hz
    <3>2. CASE ~(hz > 0)
      <4>1. -hz \in Nat \ {0}
        BY <2>1, <3>2
      <4>2. MsPerSec \div (-hz) \in Int
        BY <1>1, <4>1
      <4>3. -(MsPerSec \div (-hz)) \in Int
        BY <4>2
      <4> QED
        BY <3>2, <4>3 DEF Period, hz
    <3> QED
      BY <3>1, <3>2
  <2>3. /\ due' = IF Period > 0 THEN ExpireAt(Period) ELSE NoTimer
        /\ at' = "prepare" /\ UNCHANGED <<ms, left>>
    BY <1>6 DEF ServerCron, RunTimer
  <2>4. ExpireAt(Period) \in Due
    BY <1>1, <2>2, ExpireAtType
  <2> QED
    BY <1>1, <2>3, <2>4 DEF TimerType, SleepExact
<1>7. CASE Tick
  <2>1. /\ ms' \in 0 .. MsPerSec - 1
        /\ due' \in Due \cup {NoTimer}
        /\ (due' = NoTimer) = (due = NoTimer)
        /\ due # NoTimer => Ahead' = Ahead - 1 /\ Ahead \in Int
    BY <1>1, <1>7, TickAhead
  <2>2. /\ left' = IF at = "poll" /\ left \notin {NoTimer, 0} THEN left - 1 ELSE left
        /\ at' = at
    BY <1>7 DEF Tick
  <2>3. left' \in Nat \cup {NoTimer} /\ (left' = NoTimer) = (left = NoTimer)
    BY <1>1, <2>2 DEF TimerType
  <2>4. TimerType'
    BY <1>1, <2>1, <2>2, <2>3 DEF TimerType
  <2>5. ASSUME at = "poll", due # NoTimer
        PROVE  left' # NoTimer /\ (Ahead' > 0 => left' = Ahead')
    <3>1. left \in Nat /\ left # NoTimer /\ Ahead \in Int /\ Ahead' = Ahead - 1
          /\ (Ahead > 0 => left = Ahead)
      BY <1>1, <2>1, <2>5 DEF TimerType, SleepExact
    <3>2. left' = (IF left = 0 THEN 0 ELSE left - 1)
      BY <2>2, <2>5, <3>1
    <3>3. left' \in Nat /\ left' # NoTimer
      BY <1>1, <3>1, <3>2
    <3>4. CASE Ahead > 0
      BY <1>1, <3>1, <3>2, <3>3, <3>4
    <3>5. CASE ~(Ahead > 0)
      BY <1>1, <3>1, <3>2, <3>3, <3>5
    <3> QED
      BY <3>4, <3>5
  <2> QED
    BY <2>1, <2>2, <2>4, <2>5 DEF SleepExact
<1> QED
  BY <1>2, <1>3, <1>4, <1>5, <1>6, <1>7 DEF Next, Starts, Loop, Interrupt, ServerCron, Time

LEMMA NextIInv ==
  ASSUME IInv, [Next]_vars
  PROVE  IInv'
<1>1. CASE Next
  <2>1. ParsingType /\ ResourceType /\ Stages /\ NotLooping
    BY DEF IInv
  <2>2. TimerType' /\ SleepExact'
    BY <1>1, SleepStep
  <2>3. CASE Starts \/ StartsCron
    <3>1. Boot \/ Databases
      BY <2>3 DEF Starts, StartsCron
    <3>2. ParsingType'
      <4>1. CASE Boot
        BY <2>1, <4>1, BootParsing
      <4>2. CASE Databases
        BY <2>1, <4>2 DEF Databases, ParsingType, parsing
      <4> QED
        BY <3>1, <4>1, <4>2
    <3>3. ResourceType' /\ Stages'
      BY <2>1, <3>1, ResourcesFit
    <3>4. NotLooping'
      <4>1. pc \notin {"running", "fault", "exit", "abort"} /\ at' = at
        BY <2>3 DEF Starts, StartsCron, Boot, Databases, AddTimer, timerVars, ArgHelp, ArgOption, ArgValue,
           ArgsDone, ConfigLine, ConfigDone, UnsetPath, Getrlimit, Setrlimit, SetrlimitEnds,
           Reduce, LoopCreate, TcpServer, UnixServer
      <4> QED
        BY <2>1, <4>1 DEF NotLooping
    <3> QED
      BY <2>2, <3>2, <3>3, <3>4 DEF IInv
  <2>4. CASE Loop \/ Interrupt \/ Time
    <3>1. UNCHANGED <<parsing, resources>> /\ (pc' = pc \/ pc' = "fault")
      BY <2>4 DEF Loop, Interrupt, Time, ServerCron, startupVars
    <3>2. /\ ParsingType' /\ ResourceType'
      BY <2>1, <3>1 DEF ParsingType, ResourceType, parsing, resources
    <3>3. Stages'
      <4>1. Fits' = Fits /\ LastTry' = LastTry /\ TableSize' = TableSize /\ MaxFiles' = MaxFiles
        BY <3>1 DEF Fits, LastTry, TableSize, MaxFiles, Requested, parsing, resources
      <4> QED
        BY <2>1, <3>1, <4>1 DEF Stages, resources
    <3>4. NotLooping'
      <4>1. CASE pc = "running"
        BY <3>1, <4>1 DEF NotLooping
      <4>2. CASE pc # "running"
        <5>1. Time
          BY <2>4, <4>2 DEF Loop, Interrupt, ServerCron
        <5> QED
          BY <2>1, <5>1 DEF Time, Tick, NotLooping, startupVars
      <4> QED
        BY <4>1, <4>2
    <3> QED
      BY <2>2, <3>2, <3>3, <3>4 DEF IInv
  <2> QED
    BY <1>1, <2>3, <2>4 DEF Next
<1>2. CASE UNCHANGED vars
  <2>1. UNCHANGED <<pc, parsing, resources, timerVars>>
    BY <1>2 DEF vars, startupVars
  <2>2. /\ Fits' = Fits /\ LastTry' = LastTry /\ TableSize' = TableSize /\ MaxFiles' = MaxFiles
        /\ SleepExact' = SleepExact
    BY <2>1 DEF Fits, LastTry, TableSize, MaxFiles, Requested, SleepExact, Ahead, parsing, resources, timerVars
  <2>3. ParsingType' /\ ResourceType' /\ TimerType' /\ NotLooping'
    BY <2>1 DEF IInv, ParsingType, ResourceType, TimerType, NotLooping, parsing, resources, timerVars
  <2>4. Stages' /\ SleepExact'
    BY <2>1, <2>2 DEF IInv, Stages, resources
  <2> QED
    BY <2>3, <2>4 DEF IInv
<1> QED
  BY <1>1, <1>2

(* Whatever the file and the command line ask for and whatever the limit on *)
(* open files is: a server that runs has room for its clients and for its   *)
(* own descriptors, admits no more clients than configured and no fewer     *)
(* than it has to (rr_server_adjust_max_clients, rr_server_init).           *)
THEOREM RoomForClients == Spec => []LimitHonoured
<1>1. IInv => LimitHonoured
  BY DEF IInv, Stages, Fits, LimitHonoured
<1> QED
  BY <1>1, InitIInv, NextIInv, PTL DEF Spec

(* el_main sleeps exactly until a timer that is not due yet, for every      *)
(* period and length of a second (el_poll_get_timeout).                     *)
THEOREM SleepsUntilTimer == Spec => []SleepExact
<1>1. IInv => SleepExact
  BY DEF IInv
<1> QED
  BY <1>1, InitIInv, NextIInv, PTL DEF Spec

-----------------------------------------------------------------------------
(* The background tasks: every step of either thread keeps BgtInv.          *)

LEMMA BgtInitInv == BgtInit => BgtInv
<1> SUFFICES ASSUME BgtInit PROVE BgtInv
  OBVIOUS
<1>1. TypeOK
  <2>1. tasks \in Seq(Tasks) /\ freed \in Seq(Tasks)
    BY EmptySeq DEF BgtInit
  <2> QED
    BY <2>1 DEF BgtInit, TypeOK, Free, Main, Worker
<1>2. Elems(tasks) = {} /\ Elems(freed) = {} /\ Distinct(tasks) /\ Distinct(freed)
  BY DEF BgtInit, Elems, Distinct
<1>3. Todo = tasks
  BY DEF BgtInit, Todo
<1> QED
  BY <1>1, <1>2, <1>3 DEF BgtInit, BgtInv, ListGuarded, HeldNodeIsHead, Holding, NoLostWakeup,
     ReleasedOnce, Fresh, Free, Main, Worker

(* A step that changes neither the list, nor what was released, nor whether *)
(* the head of the list is done with.                                       *)
LEMMA SameLists ==
  ASSUME BgtInv, UNCHANGED <<tasks, freed, submitted>>,
         wpc' \in {"relock", "delete"} <=> wpc \in {"relock", "delete"}
  PROVE  ReleasedOnce'
<1>1. Todo' = Todo
  BY DEF Todo
<1> QED
  BY <1>1 DEF BgtInv, ReleasedOnce

(* After appending, the part of the list still to be done is one longer. *)
LEMMA TodoAppend ==
  ASSUME BgtInv, mtask \in Tasks, tasks' = AddNodeTail(tasks, mtask), wpc' = wpc
  PROVE  /\ Todo \in Seq(Tasks)
         /\ Todo' = AddNodeTail(Todo, mtask)
<1>1. tasks \in Seq(Tasks)
  BY DEF BgtInv, TypeOK
<1>2. CASE wpc \in {"relock", "delete"}
  <2>1. tasks # << >>
    BY <1>2 DEF BgtInv, HeldNodeIsHead, Holding
  <2>2. Tail(tasks) \in Seq(Tasks) /\ Tail(AddNodeTail(tasks, mtask)) = AddNodeTail(Tail(tasks), mtask)
    BY <1>1, <2>1, HeadTailAppend, HeadTailProperties DEF AddNodeTail
  <2> QED
    BY <1>2, <2>2 DEF Todo
<1>3. CASE wpc \notin {"relock", "delete"}
  BY <1>1, <1>3 DEF Todo
<1> QED
  BY <1>2, <1>3

(* What is still to be done is a part of the list. *)
LEMMA TodoInList ==
  ASSUME BgtInv
  PROVE  Todo \in Seq(Tasks) /\ Elems(Todo) \subseteq Elems(tasks)
<1>1. tasks \in Seq(Tasks) /\ Distinct(tasks)
  BY DEF BgtInv, TypeOK, Fresh
<1>2. CASE wpc \in {"relock", "delete"}
  <2>1. tasks # << >>
    BY <1>2 DEF BgtInv, HeldNodeIsHead, Holding
  <2> QED
    BY <1>1, <1>2, <2>1, TailElems DEF Todo
<1>3. CASE wpc \notin {"relock", "delete"}
  BY <1>1, <1>3 DEF Todo
<1> QED
  BY <1>2, <1>3

(* The node the worker deletes is the head of the list. *)
LEMMA DeletesHead ==
  ASSUME BgtInv, WorkerDelete
  PROVE  tasks # << >> /\ tasks' = Tail(tasks)
<1>1. tasks \in Seq(Tasks) /\ Distinct(tasks) /\ tasks # << >> /\ Head(tasks) = wtask
  BY DEF WorkerDelete, BgtInv, TypeOK, Fresh, HeldNodeIsHead, Holding
<1>2. PICK i \in DOMAIN tasks : tasks[i] = wtask /\ tasks' = DelNode(tasks, i)
  BY DEF WorkerDelete
<1>3. 1 \in DOMAIN tasks /\ tasks[1] = Head(tasks)
  BY <1>1
<1>4. i = 1
  BY <1>1, <1>2, <1>3 DEF Distinct
<1> QED
  BY <1>1, <1>2, <1>4, DelFirst

(* The inductive invariant is kept by every step of either thread. *)
LEMMA BgtNextInv == BgtInv /\ [BgtNext]_bgtVars => BgtInv'
<1> SUFFICES ASSUME BgtInv, [BgtNext]_bgtVars
             PROVE  BgtInv'
  OBVIOUS
<1> USE TasksAssumption DEF Free, Main, Worker
<1>0. tasks \in Seq(Tasks) /\ freed \in Seq(Tasks) /\ Distinct(tasks)
  BY DEF BgtInv, TypeOK, Fresh
<1>1. ASSUME NEW t \in Tasks, AddTask(t)
      PROVE  BgtInv'
  <2>1. UNCHANGED <<lock, waiting, tasks, wpc, wtask, freed>>
    BY <1>1 DEF AddTask, workerVars
  <2>2. ReleasedOnce'
    BY <1>1, <2>1 DEF AddTask, BgtInv, ReleasedOnce, Todo
  <2>3. Fresh'
    BY <1>1, <2>1 DEF AddTask, BgtInv, Fresh, ReleasedOnce, TypeOK
  <2>4. TypeOK' /\ ListGuarded' /\ HeldNodeIsHead' /\ NoLostWakeup' /\ (waiting' => wpc' = "wait")
    BY <1>1, <2>1 DEF AddTask, BgtInv, TypeOK, ListGuarded, HeldNodeIsHead, Holding, NoLostWakeup
  <2> QED
    BY <2>2, <2>3, <2>4 DEF BgtInv
<1>2. CASE AddLock \/ AddSignal \/ AddUnlock
  <2>1. UNCHANGED <<tasks, freed, submitted, wpc, wtask>>
    BY <1>2 DEF AddLock, AddSignal, AddUnlock, workerVars
  <2>2. ReleasedOnce'
    BY <2>1, SameLists
  <2>3. Fresh'
    BY <1>2, <2>1 DEF AddLock, AddSignal, AddUnlock, BgtInv, Fresh, TypeOK
  <2>4. TypeOK' /\ ListGuarded'
    BY <1>2, <2>1 DEF AddLock, AddSignal, AddUnlock, BgtInv, TypeOK, ListGuarded
  <2>5. HeldNodeIsHead' /\ NoLostWakeup' /\ (waiting' => wpc' = "wait")
    BY <1>2, <2>1 DEF AddLock, AddSignal, AddUnlock, BgtInv, HeldNodeIsHead, Holding, NoLostWakeup
  <2> QED
    BY <2>2, <2>3, <2>4, <2>5 DEF BgtInv
<1>3. CASE AddAppend
  <2>1. /\ mpc = "append" /\ mpc' = "signal" /\ tasks' = AddNodeTail(tasks, mtask)
        /\ mtask \in Tasks /\ mtask \notin Elems(tasks) /\ mtask \notin Elems(freed)
        /\ mtask \in submitted
        /\ UNCHANGED <<lock, waiting, mtask, submitted, wpc, wtask, freed>>
    BY <1>3 DEF AddAppend, workerVars, BgtInv, Fresh
  <2>2. /\ tasks' \in Seq(Tasks) /\ Distinct(tasks')
        /\ Elems(tasks') = Elems(tasks) \cup {mtask}
    BY <1>0, <2>1, TailEndElems
  <2>3. Fresh'
    BY <2>1, <2>2 DEF BgtInv, Fresh
  <2>4. Elems(Todo') = Elems(Todo) \cup {mtask}
    BY <2>1, TodoAppend, TailEndElems
  <2>5. ReleasedOnce'
    BY <2>1, <2>4 DEF BgtInv, ReleasedOnce
  <2>6. HeldNodeIsHead'
    <3>1. tasks # << >> => tasks' # << >> /\ Head(tasks') = Head(tasks)
      BY <1>0, <2>1, HeadTailAppend, AppendProperties DEF AddNodeTail
    <3> QED
      BY <2>1, <3>1 DEF BgtInv, HeldNodeIsHead, Holding
  <2>7. TypeOK' /\ ListGuarded' /\ NoLostWakeup' /\ (waiting' => wpc' = "wait")
    BY <2>1, <2>2 DEF BgtInv, TypeOK, ListGuarded, NoLostWakeup
  <2> QED
    BY <2>3, <2>5, <2>6, <2>7 DEF BgtInv
<1>4. CASE WorkerStart \/ WorkerWait \/ WorkerWakeUp \/ WorkerTake \/ WorkerRelock \/ SpuriousWakeup
  <2>1. UNCHANGED <<tasks, freed, submitted, mpc, mtask>>
    BY <1>4 DEF WorkerStart, WorkerWait, WorkerWakeUp, WorkerTake, WorkerRelock,
                SpuriousWakeup, mainVars, workerVars
  <2>2. wpc' \in {"relock", "delete"} <=> wpc \in {"relock", "delete"}
    BY <1>4 DEF WorkerStart, WorkerWait, WorkerWakeUp, WorkerTake, WorkerRelock,
                SpuriousWakeup, workerVars
  <2>3. ReleasedOnce'
    BY <2>1, <2>2, SameLists
  <2>4. Fresh'
    BY <2>1 DEF BgtInv, Fresh
  <2>5. TypeOK'
    <3>1. tasks # << >> => Head(tasks) \in Tasks
      BY <1>0, HeadTailProperties
    <3> QED
      BY <1>4, <2>1, <3>1 DEF WorkerStart, WorkerWait, WorkerWakeUp, WorkerTake, WorkerRelock,
                SpuriousWakeup, workerVars, BgtInv, TypeOK
  <2>6. ListGuarded' /\ HeldNodeIsHead' /\ NoLostWakeup' /\ (waiting' => wpc' = "wait")
    BY <1>4, <2>1 DEF WorkerStart, WorkerWait, WorkerWakeUp, WorkerTake, WorkerRelock,
              SpuriousWakeup, workerVars, BgtInv, TypeOK, ListGuarded, HeldNodeIsHead, Holding,
              NoLostWakeup
  <2> QED
    BY <2>3, <2>4, <2>5, <2>6 DEF BgtInv
<1>5. CASE WorkerProcess
  <2>1. /\ wpc = "process" /\ wpc' = "relock" /\ freed' = AddNodeTail(freed, wtask)
        /\ UNCHANGED <<lock, waiting, tasks, mpc, mtask, submitted, wtask>>
    BY <1>5 DEF WorkerProcess, mainVars, AddNodeTail
  <2>2. /\ tasks # << >> /\ Head(tasks) = wtask /\ wtask \in Tasks /\ wtask \in Elems(tasks)
        /\ Elems(Tail(tasks)) = Elems(tasks) \ {wtask}
    BY <1>0, <2>1, TailElems DEF BgtInv, HeldNodeIsHead, Holding
  <2>3. Todo = tasks /\ Todo' = Tail(tasks)
    BY <2>1 DEF Todo
  <2>4. wtask \notin Elems(freed)
    BY <2>2, <2>3 DEF BgtInv, ReleasedOnce
  <2>5. Distinct(freed)
    BY DEF BgtInv, ReleasedOnce
  <2>6. /\ freed' \in Seq(Tasks) /\ Distinct(freed')
        /\ Elems(freed') = Elems(freed) \cup {wtask}
    <3>1. wtask \in Tasks
      BY <2>2
    <3>2. /\ AddNodeTail(freed, wtask) \in Seq(Tasks) /\ Distinct(AddNodeTail(freed, wtask))
          /\ Elems(AddNodeTail(freed, wtask)) = Elems(freed) \cup {wtask}
      BY <1>0, <2>4, <2>5, <3>1, TailEndElems
    <3> QED
      BY <2>1, <3>2
  <2>7. ReleasedOnce'
    BY <2>1, <2>2, <2>3, <2>6 DEF BgtInv, ReleasedOnce, Fresh
  <2>8. Fresh'
    BY <2>1, <2>2, <2>6 DEF BgtInv, Fresh
  <2>9. /\ TypeOK' /\ ListGuarded' /\ HeldNodeIsHead' /\ NoLostWakeup'
        /\ (waiting' => wpc' = "wait")
    BY <2>1, <2>6 DEF BgtInv, TypeOK, ListGuarded, HeldNodeIsHead, Holding, NoLostWakeup
  <2> QED
    BY <2>7, <2>8, <2>9 DEF BgtInv
<1>6. CASE WorkerDelete
  <2>1. /\ wpc = "delete" /\ wpc' = "check" /\ tasks # << >> /\ tasks' = Tail(tasks)
        /\ wtask' = NoTask
        /\ UNCHANGED <<lock, waiting, mpc, mtask, submitted, freed>>
    BY <1>6, DeletesHead DEF WorkerDelete, mainVars
  <2>2. tasks' \in Seq(Tasks) /\ Distinct(tasks') /\ Elems(tasks') \subseteq Elems(tasks)
    BY <1>0, <2>1, TailElems
  <2>3. Todo' = Todo
    BY <2>1 DEF Todo
  <2>4. ReleasedOnce' /\ Fresh'
    BY <2>1, <2>2, <2>3 DEF BgtInv, ReleasedOnce, Fresh
  <2>5. /\ TypeOK' /\ ListGuarded' /\ HeldNodeIsHead' /\ NoLostWakeup'
        /\ (waiting' => wpc' = "wait")
    BY <2>1, <2>2 DEF BgtInv, TypeOK, ListGuarded, HeldNodeIsHead, Holding, NoLostWakeup
  <2> QED
    BY <2>4, <2>5 DEF BgtInv
<1>7. CASE UNCHANGED bgtVars
  <2>1. UNCHANGED <<lock, waiting, tasks, mpc, mtask, submitted, wpc, wtask, freed>>
    BY <1>7 DEF bgtVars, mainVars, workerVars
  <2>2. ReleasedOnce'
    BY <2>1, SameLists
  <2>3. /\ TypeOK' /\ ListGuarded' /\ HeldNodeIsHead' /\ NoLostWakeup' /\ Fresh'
        /\ (waiting' => wpc' = "wait")
    BY <2>1 DEF BgtInv, TypeOK, ListGuarded, HeldNodeIsHead, Holding, NoLostWakeup, Fresh
  <2> QED
    BY <2>2, <2>3 DEF BgtInv
<1> QED
  BY <1>1, <1>2, <1>3, <1>4, <1>5, <1>6, <1>7 DEF BgtNext, MainStep, WorkerStep

LEMMA BgtInvAlways == BgtSpec => []BgtInv
  BY BgtInitInv, BgtNextInv, PTL DEF BgtSpec

(* The variables keep their types. *)
THEOREM BgtTypeCorrect == BgtSpec => []TypeOK
  BY BgtInvAlways, PTL DEF BgtInv

(* The node the worker works on without the mutex stays the head of the     *)
(* list, for any number of tasks and any interleaving.                      *)
THEOREM HeldNodeStaysHead == BgtSpec => []HeldNodeIsHead
  BY BgtInvAlways, PTL DEF BgtInv

(* The worker never sleeps on a list that has work without a signal coming. *)
THEOREM WakeupNotLost == BgtSpec => []NoLostWakeup
  BY BgtInvAlways, PTL DEF BgtInv

(* No object is released twice by the background thread. *)
THEOREM NeverReleasedTwice == BgtSpec => []ReleasedOnce
  BY BgtInvAlways, PTL DEF BgtInv

-----------------------------------------------------------------------------
(* The refinement. *)

LEMMA BgtInitImplements == BgtInit => Q!QueueInit
  BY DEF BgtInit, Q!QueueInit, Todo

LEMMA BgtStepImplements ==
  ASSUME BgtInv, BgtInv', [BgtNext]_bgtVars
  PROVE  [Q!QueueNext]_Q!queueVars
<1> USE DEF Q!queueVars
<1>1. CASE AddAppend
  <2>1. /\ tasks' = AddNodeTail(tasks, mtask) /\ wpc' = wpc /\ freed' = freed
        /\ mtask \in Tasks /\ mtask \notin Elems(tasks) /\ mtask \notin Elems(freed)
    BY <1>1 DEF AddAppend, workerVars, BgtInv, Fresh
  <2>2. Todo' = Append(Todo, mtask)
    BY <2>1, TodoAppend DEF AddNodeTail
  <2>3. mtask \notin Q!Known
    BY <2>1, TodoInList DEF Q!Known, Elems
  <2>4. Q!Submit(mtask)
    BY <2>1, <2>2, <2>3 DEF Q!Submit
  <2> QED
    BY <2>1, <2>4 DEF Q!QueueNext
<1>2. CASE WorkerProcess
  <2>1. /\ Todo = tasks /\ Todo' = Tail(tasks) /\ tasks # << >> /\ Head(tasks) = wtask
        /\ freed' = Append(freed, wtask)
    BY <1>2 DEF WorkerProcess, Todo, BgtInv, HeldNodeIsHead, Holding
  <2> QED
    BY <2>1 DEF Q!QueueNext, Q!Execute
<1>3. CASE WorkerDelete
  <2>1. Todo = Tail(tasks) /\ Todo' = Tail(tasks) /\ freed' = freed
    BY <1>3, DeletesHead DEF WorkerDelete, Todo
  <2> QED
    BY <2>1
<1>4. CASE \/ \E t \in Tasks : AddTask(t)
           \/ AddLock \/ AddSignal \/ AddUnlock
           \/ WorkerStart \/ WorkerWait \/ WorkerWakeUp \/ WorkerTake \/ WorkerRelock
           \/ SpuriousWakeup \/ UNCHANGED bgtVars
  <2>1. UNCHANGED <<tasks, freed>>
    BY <1>4 DEF AddTask, AddLock, AddSignal, AddUnlock, WorkerStart, WorkerWait, WorkerWakeUp,
       WorkerTake, WorkerRelock, SpuriousWakeup, bgtVars, mainVars, workerVars
  <2>2. wpc' \in {"relock", "delete"} <=> wpc \in {"relock", "delete"}
    BY <1>4 DEF AddTask, AddLock, AddSignal, AddUnlock, WorkerStart, WorkerWait, WorkerWakeUp,
       WorkerTake, WorkerRelock, SpuriousWakeup, bgtVars, mainVars, workerVars
  <2> QED
    BY <2>1, <2>2 DEF Todo
<1> QED
  BY <1>1, <1>2, <1>3, <1>4 DEF BgtNext, MainStep, WorkerStep

(* The mutex, the condition variable and the delayed deletion implement the *)
(* queue of the interface: every step of the threads is a submission, an    *)
(* execution of the oldest task, or invisible.                              *)
THEOREM BgtRefinement == BgtSpec => Implements
<1>1. BgtInv /\ BgtInv' /\ [BgtNext]_bgtVars => [Q!QueueNext]_Q!queueVars
  BY BgtStepImplements
<1> QED
  BY <1>1, BgtInitImplements, BgtInvAlways, PTL DEF BgtSpec, Implements, Q!QueueSpec
=============================================================================
