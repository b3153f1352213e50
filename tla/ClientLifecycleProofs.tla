------------------------ MODULE ClientLifecycleProofs ------------------------
(***************************************************************************)
(* Theorems about ClientLifecycle, for every number of blocks, descriptors *)
(* and units of output.                                                    *)
(***************************************************************************)
EXTENDS ClientLifecycle, ListTheorems, FiniteSetTheorems, TLAPS

-----------------------------------------------------------------------------
(* Type correctness. *)

LEMMA InitType == Init => TypeOK
<1> SUFFICES ASSUME Init PROVE TypeOK
  OBVIOUS
<1> USE LifecycleAssumption DEF Init
<1>1. open \subseteq Fd /\ ListenFds \subseteq Fd
  BY DEF Fd
<1>2. mask \in [Fd -> SUBSET Mask] /\ fired \in [Fd -> SUBSET Mask]
  BY DEF Mask
<1>3. pendingWrites \in Seq(Addr) /\ toClose \in Seq(Addr)
  OBVIOUS
<1>4. /\ flags \in [Addr -> SUBSET Flags] /\ out \in [Addr -> 0 .. MaxOut]
      /\ cfd \in [Addr -> Fd \cup {NoFd}] /\ ud \in [Fd -> Addr \cup {NULL}]
  OBVIOUS
<1> QED
  BY <1>1, <1>2, <1>3, <1>4 DEF TypeOK, Phases

(* A connection that is dropped leaves the descriptors as they were, though *)
(* its own may be closed twice: nobody has it in between.                   *)
LEMMA DropCloses ==
  ASSUME NEW fd \in Fd, AcceptDrop(fd)
  PROVE  open' = open
<1>1. fd \notin open
  BY DEF AcceptDrop, IsNextFd
<1>2. open' = Close(fd, open \cup {fd}) \/ open' = Close(fd, Close(fd, open \cup {fd}))
  BY DEF AcceptDrop
<1> QED
  BY <1>1, <1>2 DEF Close

LEMMA FreeType ==
  ASSUME TypeOK, NEW c \in Addr, FreeClient(c)
  PROVE  /\ alloc' \subseteq Addr /\ clients' \subseteq Addr /\ open' \subseteq Fd
         /\ flags' \in [Addr -> SUBSET Flags] /\ out' \in [Addr -> 0 .. MaxOut]
         /\ cfd' \in [Addr -> Fd \cup {NoFd}]
         /\ mask' \in [Fd -> SUBSET Mask]
         /\ ud' \in [Fd -> Addr \cup {NULL}]
<1>1. CASE cfd[c] = NoFd
  BY <1>1, LifecycleAssumption DEF TypeOK, FreeClient, Close
<1>2. CASE cfd[c] # NoFd
  BY <1>2, LifecycleAssumption DEF TypeOK, FreeClient, Close
<1> QED
  BY <1>1, <1>2

(* Every step keeps every variable in its type. *)
LEMMA NextType == TypeOK /\ [Next]_vars => TypeOK'
<1> SUFFICES ASSUME TypeOK, [Next]_vars
             PROVE  TypeOK'
  OBVIOUS
<1> USE LifecycleAssumption
<1>1. ASSUME NEW c \in Addr, Flush(c)
      PROVE  TypeOK'
  <2>1. pendingWrites' \in Seq(Addr) /\ UNCHANGED <<loopVars, shutdown, accepted>>
    <3>1. TakePending(c)
      BY <1>1 DEF Flush, FlushFree, FlushAll, FlushPart, FlushPartFails
    <3> QED
      BY <3>1 DEF TakePending, TypeOK
  <2>2. CASE FlushFree(c)
    BY <2>1, <2>2, FreeType DEF FlushFree, TypeOK, loopVars
  <2>3. CASE FlushAll(c)
    BY <2>1, <2>3 DEF FlushAll, TypeOK, loopVars, eventVars, Unflagged
  <2>4. ASSUME NEW left \in 1 .. MaxOut, FlushPart(c, left)
        PROVE  TypeOK'
    <3>1. mask' \in [Fd -> SUBSET Mask] /\ ud' \in [Fd -> Addr \cup {NULL}]
      BY <2>4 DEF FlushPart, TypeOK, Mask
    <3>2. out' \in [Addr -> 0 .. MaxOut] /\ flags' \in [Addr -> SUBSET Flags]
      BY <2>4 DEF FlushPart, TypeOK, Unflagged
    <3> QED
      BY <2>1, <2>4, <3>1, <3>2 DEF FlushPart, TypeOK, loopVars
  <2>5. ASSUME NEW left \in 1 .. MaxOut, FlushPartFails(c, left)
        PROVE  TypeOK'
    <3>1. toClose' \in Seq(Addr)
      <4>1. AddNodeTail(toClose, c) \in Seq(Addr)
        BY TailEndElems DEF TypeOK
      <4> QED
        BY <2>5, <4>1 DEF FlushPartFails, TypeOK
    <3>2. flags' \in [Addr -> SUBSET Flags]
      BY <2>5 DEF FlushPartFails, TypeOK, Unflagged, Flags
    <3> QED
      BY <2>1, <2>5, <3>1, <3>2 DEF FlushPartFails, TypeOK, loopVars, eventVars
  <2> QED
    BY <1>1, <2>2, <2>3, <2>4, <2>5 DEF Flush
<1>2. ASSUME NEW c \in Addr, Read(c)
      PROVE  TypeOK'
  <2>1. CASE ReadIdle(c) \/ ReadShutdown(c)
    BY <2>1 DEF ReadIdle, ReadShutdown, TypeOK, clientVars, listVars, eventVars, Phases
  <2>2. CASE ReadEnds(c)
    BY <2>2, FreeType DEF ReadEnds, TypeOK, Phases
  <2>3. ASSUME NEW n \in 1 .. MaxOut, NEW f \in {{}, {"CLOSE_AFTER_REPLY"}},
               ReadRequests(c, n, f)
        PROVE  TypeOK'
    <3>1. pendingWrites' \in Seq(Addr)
      BY <2>3, HeadElems DEF ReadRequests, QueueReplies, TypeOK
    <3>2. out' \in [Addr -> 0 .. MaxOut] /\ flags' \in [Addr -> SUBSET Flags]
      BY <2>3 DEF ReadRequests, QueueReplies, TypeOK, Flags
    <3> QED
      BY <2>3, <3>1, <3>2 DEF ReadRequests, TypeOK, eventVars, Phases
  <2> QED
    BY <1>2, <2>1, <2>2, <2>3 DEF Read
<1>3. ASSUME NEW c \in Addr, Write(c)
      PROVE  TypeOK'
  <2>1. /\ fired' \in [Fd -> SUBSET Mask] /\ cur' \in Fd \cup {NoFd} /\ phase' \in Phases
        /\ UNCHANGED <<pendingWrites, toClose, shutdown, accepted>>
    <3>1. Writing(c)
      BY <1>3 DEF Write, WriteFree, WriteAll, WritePart
    <3> QED
      BY <3>1 DEF Writing, EventDone, TypeOK, Phases
  <2>2. CASE WriteFree(c)
    BY <2>1, <2>2, FreeType DEF WriteFree, TypeOK
  <2>3. CASE WriteAll(c)
    <3>0. /\ mask' = [mask EXCEPT ![cur] = mask[cur] \ {"WRITE"}]
          /\ out' = [out EXCEPT ![c] = 0]
      BY <2>3 DEF WriteAll
    <3>1. mask' \in [Fd -> SUBSET Mask]
      <4>1. ASSUME NEW fd \in Fd PROVE mask'[fd] \in SUBSET Mask
        BY <3>0 DEF TypeOK
      <4> QED
        BY <3>0, <4>1 DEF TypeOK
    <3>2. out' \in [Addr -> 0 .. MaxOut]
      BY <3>0 DEF TypeOK
    <3> QED
      BY <2>1, <2>3, <3>1, <3>2 DEF WriteAll, TypeOK
  <2>4. ASSUME NEW left \in 1 .. MaxOut, WritePart(c, left)
        PROVE  TypeOK'
    BY <2>1, <2>4 DEF WritePart, TypeOK, eventVars
  <2> QED
    BY <1>3, <2>2, <2>3, <2>4 DEF Write
<1>4. ASSUME NEW c \in Addr, CronFree(c)
      PROVE  TypeOK'
  BY <1>4, FreeType DEF CronFree, TypeOK, loopVars
<1>5. ASSUME NEW c \in Addr, NEW fd \in Fd, AcceptClient(c, fd)
      PROVE  TypeOK'
  <2>1. CASE Cardinality(clients \cup {c}) > MaxClients
    BY <1>5, <2>1 DEF AcceptClient, TypeOK, loopVars, clientVars, eventVars
  <2>2. CASE ~(Cardinality(clients \cup {c}) > MaxClients)
    <3>0. /\ mask' = [mask EXCEPT ![fd] = @ \cup {"READ"}]
          /\ ud' = [ud EXCEPT ![fd] = c]
          /\ cfd' = [cfd EXCEPT ![c] = fd]
          /\ flags' = [flags EXCEPT ![c] = {}]
          /\ out' = [out EXCEPT ![c] = 0]
      BY <1>5, <2>2 DEF AcceptClient
    <3>1. mask' \in [Fd -> SUBSET Mask] /\ ud' \in [Fd -> Addr \cup {NULL}]
      BY <3>0 DEF TypeOK, Mask
    <3>2. /\ out' \in [Addr -> 0 .. MaxOut] /\ flags' \in [Addr -> SUBSET Flags]
          /\ cfd' \in [Addr -> Fd \cup {NoFd}]
      BY <3>0 DEF TypeOK
    <3> QED
      BY <1>5, <2>2, <3>1, <3>2 DEF AcceptClient, TypeOK, loopVars
  <2> QED
    BY <2>1, <2>2
<1>6. ASSUME NEW fd \in Fd, NextEvent(fd) \/ AcceptDrop(fd)
      PROVE  TypeOK'
  <2>1. AcceptDrop(fd) => UNCHANGED <<loopVars, clientVars, listVars, eventVars, shutdown>>
    BY DropCloses DEF AcceptDrop, eventVars
  <2> QED
    BY <1>6, <2>1 DEF NextEvent, AcceptDrop, TypeOK, loopVars, clientVars, listVars, eventVars, Phases
<1>7. ASSUME NEW ready \in [Registered -> SUBSET Mask], Poll(ready)
      PROVE  TypeOK'
  BY <1>7 DEF Poll, TypeOK, clientVars, listVars, eventVars, Phases
<1>8. CASE WriteNotFired
  BY <1>8 DEF WriteNotFired, EventDone, TypeOK, clientVars, listVars, eventVars, Phases
<1>9. CASE FlushDone \/ ReadNotFired \/ AcceptEnd \/ EventsDone
           \/ TimersNotDue \/ CronStart \/ CronDone
  BY <1>9 DEF FlushDone, ReadNotFired, AcceptEnd, EventsDone, TimersNotDue, CronStart,
              CronDone, TypeOK, clientVars, listVars, eventVars, Phases
<1>10. CASE Signal
  BY <1>10 DEF Signal, TypeOK, loopVars, clientVars, listVars, eventVars
<1>11. CASE UNCHANGED vars
  BY <1>11 DEF vars, loopVars, clientVars, listVars, eventVars, TypeOK
<1> QED
  BY <1>1, <1>2, <1>3, <1>4, <1>5, <1>6, <1>7, <1>8, <1>9, <1>10, <1>11 DEF Next, Loop

(* The variables keep their types in every behaviour of the server. *)
THEOREM TypeCorrect == Spec => []TypeOK
  BY InitType, NextType, PTL DEF Spec

-----------------------------------------------------------------------------
(* Client lifetimes. *)

LEMMA InitInv == Init => IInv
<1> SUFFICES ASSUME Init PROVE IInv
  OBVIOUS
<1> USE LifecycleAssumption
<1>1. TypeOK
  BY InitType
<1>2. ListenFds \subseteq Fd /\ 0 .. BaseFd - 1 \subseteq Fd
  BY DEF Fd
<1>3. Elems(pendingWrites) = {} /\ Elems(toClose) = {}
  BY DEF Init, Elems
<1>4. Distinct(pendingWrites) /\ Distinct(toClose)
  BY DEF Init, Distinct
<1>5. FlagsMirrorQueues /\ PendingDispatched
  BY <1>3, <1>4 DEF Init, FlagsMirrorQueues, Mirrors, PendingDispatched
<1>6. ClientsLive /\ FreedBlank /\ OwnsDescriptor /\ TableLive /\ OneSender
  BY DEF Init, ClientsLive, FreedBlank, OwnsDescriptor, TableLive, OneSender
<1>7. ListenersArmed /\ PhaseInv
  BY <1>2 DEF Init, ListenersArmed, PhaseInv
<1>8. DescriptorsExact
  BY DEF Init, DescriptorsExact
<1> QED
  BY <1>1, <1>5, <1>6, <1>7, <1>8 DEF IInv, Init

(* A step that touches nothing but the loop's own variables only has the    *)
(* two conjuncts about the loop to keep.                                    *)
LEMMA LoopOnly ==
  ASSUME IInv, TypeOK', UNCHANGED <<clientVars, listVars, eventVars>>,
         PendingDispatched', PhaseInv'
  PROVE  IInv'
<1> USE DEF clientVars, listVars, eventVars
<1>1. ClientsLive' /\ FreedBlank' /\ OwnsDescriptor' /\ TableLive' /\ ListenersArmed'
  BY DEF IInv, ClientsLive, FreedBlank, OwnsDescriptor, TableLive, ListenersArmed
<1>2. FlagsMirrorQueues' /\ OneSender' /\ DescriptorsExact'
  BY DEF IInv, FlagsMirrorQueues, Mirrors, OneSender, DescriptorsExact
<1> QED
  BY <1>1, <1>2 DEF IInv

(* A descriptor that fires belongs to a live client.  *)
LEMMA FiredClient ==
  ASSUME IInv, NEW c \in Addr, cur \in Fd, cur \notin ListenFds, c = ud[cur],
         mask[cur] # {}
  PROVE  c \in alloc /\ cfd[c] = cur
  BY DEF IInv, TableLive

(* Freeing a live client that is taken off both queues in the same step     *)
(* keeps everything that does not depend on the loop.                       *)
LEMMA FreeStep ==
  ASSUME IInv, TypeOK', NEW c \in alloc, FreeClient(c),
         Distinct(pendingWrites'), Distinct(toClose'),
         Elems(pendingWrites') = Elems(pendingWrites) \ {c},
         Elems(toClose') = Elems(toClose) \ {c}
  PROVE  /\ ClientsLive' /\ FreedBlank' /\ OwnsDescriptor' /\ TableLive'
         /\ FlagsMirrorQueues' /\ OneSender' /\ ListenersArmed' /\ DescriptorsExact'
         /\ \A d \in Elems(pendingWrites') : d \in Elems(pendingWrites) /\ cfd'[d] = cfd[d]
<1> USE LifecycleAssumption
<1> DEFINE fd == cfd[c]
<1>1. c \in Addr /\ fd \in Fd /\ fd \in BaseFd .. MaxClients - 1 /\ fd # NoFd /\ ud[fd] = c
  <2>1. fd \in BaseFd .. MaxClients - 1 /\ ud[fd] = c
    BY DEF IInv, OwnsDescriptor
  <2>2. c \in Addr
    BY DEF IInv, TypeOK
  <2> HIDE DEF fd
  <2>3. fd \in Fd /\ fd # NoFd
    BY <2>1 DEF Fd, NoFd
  <2> QED
    BY <2>1, <2>2, <2>3
<1>2. /\ alloc' = alloc \ {c}
      /\ clients' = clients \ {c}
      /\ flags' = [flags EXCEPT ![c] = {}]
      /\ out' = [out EXCEPT ![c] = 0]
      /\ cfd' = [cfd EXCEPT ![c] = NoFd]
      /\ mask' = [mask EXCEPT ![fd] = {}]
      /\ open' = open \ {fd}
      /\ ud' = ud
  BY <1>1 DEF FreeClient, Close
<1>3. \A d \in alloc' : d \in alloc /\ d \in Addr /\ d # c /\ cfd'[d] = cfd[d]
                        /\ cfd[d] # fd /\ cfd[d] \in Fd /\ cfd[d] \in BaseFd .. MaxClients - 1
                        /\ flags'[d] = flags[d] /\ out'[d] = out[d]
                        /\ mask'[cfd[d]] = mask[cfd[d]]
  <2> SUFFICES ASSUME NEW d \in alloc'
               PROVE  /\ d \in alloc /\ d \in Addr /\ d # c /\ cfd'[d] = cfd[d]
                      /\ cfd[d] # fd /\ cfd[d] \in Fd /\ cfd[d] \in BaseFd .. MaxClients - 1
                      /\ flags'[d] = flags[d] /\ out'[d] = out[d]
                      /\ mask'[cfd[d]] = mask[cfd[d]]
    OBVIOUS
  <2>1. d \in alloc /\ d \in Addr /\ d # c
    BY <1>2 DEF IInv, TypeOK
  <2>2. cfd[d] \in BaseFd .. MaxClients - 1 /\ ud[cfd[d]] = d
    BY <2>1 DEF IInv, OwnsDescriptor
  <2> HIDE DEF fd
  <2>3. cfd[d] \in Fd /\ cfd[d] # fd
    BY <1>1, <2>1, <2>2 DEF Fd
  <2>4. cfd'[d] = cfd[d] /\ flags'[d] = flags[d] /\ out'[d] = out[d]
    BY <1>2, <2>1 DEF IInv, TypeOK
  <2>5. mask'[cfd[d]] = mask[cfd[d]]
    BY <1>2, <2>3 DEF IInv, TypeOK
  <2> QED
    BY <2>1, <2>2, <2>3, <2>4, <2>5
<1> HIDE DEF fd
<1>4. ClientsLive'
  BY <1>2 DEF IInv, ClientsLive
<1>5. FreedBlank'
  BY <1>1, <1>2 DEF IInv, FreedBlank, TypeOK
<1>6. OwnsDescriptor'
  BY <1>2, <1>3 DEF IInv, OwnsDescriptor
<1>7. TableLive'
  <2> SUFFICES ASSUME NEW g \in Fd \ ListenFds, mask'[g] # {}
               PROVE  ud'[g] \in alloc' /\ cfd'[ud'[g]] = g
    BY DEF TableLive
  <2>1. g # fd /\ mask[g] # {}
    BY <1>1, <1>2 DEF IInv, TypeOK
  <2>2. ud[g] \in alloc /\ cfd[ud[g]] = g
    BY <2>1 DEF IInv, TableLive
  <2>3. ud[g] # c
    BY <2>1, <2>2 DEF fd
  <2> QED
    BY <1>2, <1>3, <2>2, <2>3
<1>8. FlagsMirrorQueues'
  <2>1. ASSUME NEW d \in Addr
        PROVE  /\ "PENDING_WRITE" \in flags'[d] <=> d \in Elems(pendingWrites')
               /\ "CLOSE_ASAP" \in flags'[d] <=> d \in Elems(toClose')
    <3>1. CASE d = c
      BY <3>1, <1>1, <1>2 DEF IInv, TypeOK
    <3>2. CASE d # c
      <4>1. flags'[d] = flags[d]
        BY <3>2, <1>2 DEF IInv, TypeOK
      <4> QED
        BY <3>2, <4>1 DEF IInv, FlagsMirrorQueues, Mirrors
    <3> QED
      BY <3>1, <3>2
  <2> QED
    BY <2>1 DEF FlagsMirrorQueues, Mirrors
<1>9. OneSender'
  BY <1>3 DEF IInv, OneSender
<1>10. ListenersArmed'
  <2>1. \A g \in ListenFds : g # fd /\ g \in Fd
    BY <1>1 DEF Fd
  <2> QED
    BY <1>1, <1>2, <2>1 DEF IInv, ListenersArmed, TypeOK
<1>11. DescriptorsExact'
  <2>1. open = 0 .. BaseFd - 1 \cup {cfd[d] : d \in alloc}
    BY DEF IInv, DescriptorsExact
  <2>2. fd \notin 0 .. BaseFd - 1
    BY <1>1
  <2>3. {cfd'[d] : d \in alloc'} = {cfd[d] : d \in alloc} \ {fd}
    BY <1>2, <1>3 DEF fd
  <2>4. open' = 0 .. BaseFd - 1 \cup {cfd'[d] : d \in alloc'}
    BY <1>2, <2>1, <2>2, <2>3
  <2>5. \A d \in alloc' : cfd'[d] >= BaseFd
    BY <1>3
  <2>6. \A d, e \in alloc' : cfd'[d] = cfd'[e] => d = e
    BY <1>3 DEF IInv, DescriptorsExact
  <2> QED
    BY <2>4, <2>5, <2>6 DEF DescriptorsExact
<1>12. \A d \in Elems(pendingWrites') : d \in Elems(pendingWrites) /\ cfd'[d] = cfd[d]
  <2>1. Elems(pendingWrites) \subseteq Addr
    BY DEF IInv, TypeOK, Elems
  <2> QED
    BY <1>2, <2>1 DEF IInv, TypeOK
<1> QED
  BY <1>4, <1>5, <1>6, <1>7, <1>8, <1>9, <1>10, <1>11, <1>12

(* A client in a queue is live, and in one queue only. *)
LEMMA QueuedLive ==
  ASSUME IInv, NEW c \in Addr, c \in Elems(pendingWrites) \/ c \in Elems(toClose)
  PROVE  /\ c \in alloc
         /\ ~(c \in Elems(pendingWrites) /\ c \in Elems(toClose))
         /\ "WRITE" \notin mask[cfd[c]]
         /\ out[c] > 0
<1>1. "PENDING_WRITE" \in flags[c] <=> c \in Elems(pendingWrites)
  BY DEF IInv, FlagsMirrorQueues, Mirrors
<1>2. "CLOSE_ASAP" \in flags[c] <=> c \in Elems(toClose)
  BY DEF IInv, FlagsMirrorQueues, Mirrors
<1>3. c \in alloc
  BY <1>1, <1>2 DEF IInv, FreedBlank
<1> QED
  BY <1>1, <1>2, <1>3 DEF IInv, OneSender

(* A step that keeps all clients and changes the flags, the output and the  *)
(* event mask of one of them, leaving it with exactly one sender.           *)
SenderOf(c) ==
  /\ out[c] > 0 <=> \/ "PENDING_WRITE" \in flags[c]
                    \/ "CLOSE_ASAP" \in flags[c]
                    \/ "WRITE" \in mask[cfd[c]]
  /\ ~("PENDING_WRITE" \in flags[c] /\ "CLOSE_ASAP" \in flags[c])
  /\ ~("PENDING_WRITE" \in flags[c] /\ "WRITE" \in mask[cfd[c]])
  /\ ~("CLOSE_ASAP" \in flags[c] /\ "WRITE" \in mask[cfd[c]])

LEMMA UpdateStep ==
  ASSUME IInv, NEW c \in alloc,
         UNCHANGED <<alloc, cfd, clients, ud, open>>,
         \A d \in Addr : d # c => flags'[d] = flags[d] /\ out'[d] = out[d],
         \A g \in Fd : g # cfd[c] => mask'[g] = mask[g],
         "READ" \in mask'[cfd[c]],
         SenderOf(c)'
  PROVE  /\ ClientsLive' /\ FreedBlank' /\ OwnsDescriptor' /\ TableLive'
         /\ OneSender' /\ ListenersArmed' /\ DescriptorsExact'
<1> USE LifecycleAssumption
<1>1. /\ c \in Addr /\ cfd[c] \in Fd /\ cfd[c] \in BaseFd .. MaxClients - 1
      /\ ud[cfd[c]] = c
  <2>1. c \in Addr
    BY DEF IInv, TypeOK
  <2>2. cfd[c] \in BaseFd .. MaxClients - 1 /\ ud[cfd[c]] = c
    BY DEF IInv, OwnsDescriptor
  <2>3. cfd[c] \in Fd
    BY <2>2 DEF Fd
  <2> QED
    BY <2>1, <2>2, <2>3
<1>2. ClientsLive' /\ FreedBlank'
  BY DEF IInv, TypeOK, ClientsLive, FreedBlank
<1>3. \A d \in alloc : d # c => /\ d \in Addr /\ cfd[d] \in Fd /\ cfd[d] # cfd[c]
                                /\ mask'[cfd[d]] = mask[cfd[d]]
  <2> SUFFICES ASSUME NEW d \in alloc, d # c
               PROVE  /\ d \in Addr /\ cfd[d] \in Fd /\ cfd[d] # cfd[c]
                      /\ mask'[cfd[d]] = mask[cfd[d]]
    OBVIOUS
  <2>1. cfd[d] \in BaseFd .. MaxClients - 1 /\ ud[cfd[d]] = d
    BY DEF IInv, OwnsDescriptor
  <2>2. cfd[d] \in Fd
    BY <2>1 DEF Fd
  <2> QED
    BY <1>1, <2>1, <2>2 DEF IInv, TypeOK
<1>4. OwnsDescriptor'
  BY <1>3 DEF IInv, OwnsDescriptor
<1>5. TableLive'
  BY <1>1 DEF IInv, TableLive
<1>6. OneSender'
  <2> SUFFICES ASSUME NEW d \in alloc
               PROVE  SenderOf(d)'
    BY DEF OneSender, SenderOf
  <2>1. CASE d = c
    BY <2>1
  <2>2. CASE d # c
    BY <2>2, <1>3 DEF IInv, OneSender, SenderOf
  <2> QED
    BY <2>1, <2>2
<1>7. ListenersArmed'
  <2>1. \A g \in ListenFds : g \in Fd /\ g # cfd[c]
    BY <1>1 DEF Fd
  <2> QED
    BY <2>1 DEF IInv, ListenersArmed
<1>8. DescriptorsExact'
  BY DEF IInv, DescriptorsExact
<1> QED
  BY <1>2, <1>4, <1>5, <1>6, <1>7, <1>8

LEMMA FlushInv ==
  ASSUME IInv, NoAsyncReadRace, TypeOK', NEW c \in Addr, Flush(c)
  PROVE  IInv'
<1> USE LifecycleAssumption
<1>1. TakePending(c)
  BY DEF Flush, FlushFree, FlushAll, FlushPart, FlushPartFails
<1>2. /\ phase = "before" /\ c = Head(pendingWrites) /\ pendingWrites # << >>
      /\ pendingWrites \in Seq(Addr) /\ Distinct(pendingWrites) /\ Distinct(toClose)
      /\ UNCHANGED <<phase, fired, cur>>
  BY <1>1 DEF TakePending, loopVars, IInv, TypeOK, FlagsMirrorQueues, Mirrors
<1>3. /\ Elems(pendingWrites') = Elems(pendingWrites) \ {c}
      /\ Distinct(pendingWrites')
      /\ c \in Elems(pendingWrites)
  BY <1>1, <1>2, TailElems DEF TakePending
<1>4. c \in alloc /\ c \notin Elems(toClose) /\ "WRITE" \notin mask[cfd[c]]
  BY <1>3, QueuedLive
<1>5. cfd[c] \in Fd /\ cfd[c] \in BaseFd .. MaxClients - 1 /\ ud[cfd[c]] = c
  BY <1>4 DEF IInv, OwnsDescriptor, Fd
<1>6. PhaseInv'
  BY <1>2 DEF PhaseInv
<1>7. CASE FlushFree(c)
  <2>1. toClose' = toClose /\ FreeClient(c)
    BY <1>7 DEF FlushFree
  <2>2. Elems(toClose') = Elems(toClose) \ {c} /\ Distinct(toClose')
    BY <1>2, <1>4, <2>1
  <2>3. /\ ClientsLive' /\ FreedBlank' /\ OwnsDescriptor' /\ TableLive'
        /\ FlagsMirrorQueues' /\ OneSender' /\ ListenersArmed' /\ DescriptorsExact'
        /\ \A d \in Elems(pendingWrites') : d \in Elems(pendingWrites) /\ cfd'[d] = cfd[d]
    BY <1>3, <1>4, <2>1, <2>2, FreeStep
  <2>4. PendingDispatched'
    BY <1>2, <2>3 DEF IInv, PendingDispatched
  <2> QED
    BY <1>6, <2>1, <2>3, <2>4 DEF IInv
<1>8. CASE ~FlushFree(c)
  <2> DEFINE Part == \E left \in 1 .. MaxOut : FlushPart(c, left)
             Fails == \E left \in 1 .. MaxOut : FlushPartFails(c, left)
  <2>1. FlushAll(c) \/ Part \/ Fails
    BY <1>8 DEF Flush
  <2>2. /\ UNCHANGED <<alloc, cfd, clients, open>>
        /\ ud' = ud
        /\ \A d \in Addr : d # c => flags'[d] = flags[d] /\ out'[d] = out[d]
        /\ \A g \in Fd : g # cfd[c] => mask'[g] = mask[g]
        /\ mask[cfd[c]] \subseteq mask'[cfd[c]]
    <3>1. CASE FlushAll(c)
      BY <3>1 DEF FlushAll, eventVars, IInv, TypeOK
    <3>2. CASE Part
      BY <3>2, <1>5 DEF FlushPart, IInv, TypeOK
    <3>3. CASE Fails
      BY <3>3 DEF FlushPartFails, eventVars, IInv, TypeOK
    <3> QED
      BY <2>1, <3>1, <3>2, <3>3
  <2>3. /\ "PENDING_WRITE" \notin flags'[c]
        /\ \/ /\ out'[c] = 0
              /\ "CLOSE_ASAP" \notin flags'[c] /\ "WRITE" \notin mask'[cfd[c]]
              /\ toClose' = toClose
           \/ /\ out'[c] > 0
              /\ "CLOSE_ASAP" \notin flags'[c] /\ "WRITE" \in mask'[cfd[c]]
              /\ toClose' = toClose
           \/ /\ out'[c] > 0
              /\ "CLOSE_ASAP" \in flags'[c] /\ "WRITE" \notin mask'[cfd[c]]
              /\ toClose' = AddNodeTail(toClose, c)
              /\ ~ReadMayEnd
    <3>0. "CLOSE_ASAP" \notin flags[c]
      BY <1>4 DEF IInv, FlagsMirrorQueues, Mirrors
    <3>1. CASE FlushAll(c)
      BY <3>0, <3>1, <1>4 DEF FlushAll, Unflagged, eventVars, IInv, TypeOK
    <3>2. CASE Part
      BY <3>0, <3>2, <1>5 DEF FlushPart, Unflagged, IInv, TypeOK
    <3>3. CASE Fails
      BY <3>0, <3>3, <1>4 DEF FlushPartFails, Unflagged, eventVars, IInv, TypeOK, NoAsyncReadRace
    <3> QED
      BY <2>1, <3>1, <3>2, <3>3
  <2> HIDE DEF Part, Fails
  <2>4. "READ" \in mask'[cfd[c]] /\ SenderOf(c)'
    BY <1>4, <2>2, <2>3 DEF IInv, OwnsDescriptor, SenderOf
  <2>5. /\ ClientsLive' /\ FreedBlank' /\ OwnsDescriptor' /\ TableLive'
        /\ OneSender' /\ ListenersArmed' /\ DescriptorsExact'
    BY <1>4, <2>2, <2>4, UpdateStep
  <2>6. Mirrors("PENDING_WRITE", pendingWrites)'
    BY <1>3, <2>2, <2>3 DEF IInv, FlagsMirrorQueues, Mirrors
  <2>7. Mirrors("CLOSE_ASAP", toClose)'
    <3>1. CASE toClose' = toClose
      <4>1. toClose' # AddNodeTail(toClose, c)
        BY <3>1, <1>4, TailEndElems DEF IInv, TypeOK
      <4>2. "CLOSE_ASAP" \notin flags'[c]
        BY <4>1, <2>3
      <4> QED
        BY <3>1, <4>2, <1>4, <2>2 DEF IInv, FlagsMirrorQueues, Mirrors
    <3>2. CASE toClose' = AddNodeTail(toClose, c) /\ "CLOSE_ASAP" \in flags'[c]
      <4>1. Elems(toClose') = Elems(toClose) \cup {c} /\ Distinct(toClose')
        <5>1. toClose \in Seq(Addr) /\ Distinct(toClose) /\ c \notin Elems(toClose)
          BY <1>2, <1>4 DEF IInv, TypeOK
        <5>2. /\ Elems(AddNodeTail(toClose, c)) = Elems(toClose) \cup {c}
              /\ Distinct(AddNodeTail(toClose, c))
          BY <5>1, TailEndElems
        <5> QED
          BY <3>2, <5>2
      <4> QED
        BY <3>2, <4>1, <2>2 DEF IInv, FlagsMirrorQueues, Mirrors
    <3> QED
      BY <2>3, <3>1, <3>2
  <2>8. PendingDispatched'
    BY <1>2, <1>3, <2>2 DEF IInv, PendingDispatched
  <2>9. ReadMayEnd => toClose' = << >>
    BY <2>3 DEF IInv
  <2> QED
    BY <1>6, <2>5, <2>6, <2>7, <2>8, <2>9 DEF IInv, FlagsMirrorQueues
<1> QED
  BY <1>7, <1>8

LEMMA ReadInv ==
  ASSUME IInv, TypeOK', NEW c \in Addr, Read(c)
  PROVE  IInv'
<1> USE LifecycleAssumption
<1>1. Reading(c) /\ UNCHANGED <<fired, cur>>
  BY DEF Read, ReadIdle, ReadEnds, ReadRequests, ReadShutdown
<1>2. /\ phase = "read" /\ cur \in Fd /\ fired[cur] # {} /\ mask[cur] # {}
      /\ cur \notin ListenFds /\ c = ud[cur]
  BY <1>1 DEF Reading, Fires, IInv, PhaseInv
<1>3. c \in alloc /\ cfd[c] = cur
  BY <1>2, FiredClient
<1>4. \A d \in Elems(pendingWrites) : d # c /\ fired[cfd[d]] = {}
  BY <1>2, <1>3 DEF IInv, PendingDispatched
<1>5. CASE ReadIdle(c) \/ ReadShutdown(c)
  <2>1. PendingDispatched' /\ PhaseInv'
    BY <1>1, <1>2, <1>4, <1>5
       DEF ReadIdle, ReadShutdown, PendingDispatched, PhaseInv, clientVars, listVars
  <2> QED
    BY <1>5, <2>1, LoopOnly DEF ReadIdle, ReadShutdown
<1>6. CASE ReadEnds(c)
  <2>1. FreeClient(c) /\ phase' = "write" /\ UNCHANGED <<pendingWrites, toClose>> /\ ReadMayEnd
    BY <1>6 DEF ReadEnds
  <2>2. toClose = << >>
    BY <2>1 DEF IInv
  <2>3. /\ Distinct(pendingWrites') /\ Distinct(toClose')
        /\ Elems(pendingWrites') = Elems(pendingWrites) \ {c}
    BY <1>4, <2>1 DEF IInv, FlagsMirrorQueues, Mirrors
  <2>4. Elems(toClose') = Elems(toClose) \ {c}
    BY <2>1, <2>2 DEF Elems
  <2>5. /\ ClientsLive' /\ FreedBlank' /\ OwnsDescriptor' /\ TableLive'
        /\ FlagsMirrorQueues' /\ OneSender' /\ ListenersArmed' /\ DescriptorsExact'
        /\ \A d \in Elems(pendingWrites') : d \in Elems(pendingWrites) /\ cfd'[d] = cfd[d]
    BY <1>3, <2>1, <2>3, <2>4, FreeStep
  <2>6. PendingDispatched' /\ PhaseInv'
    BY <1>1, <1>2, <1>4, <2>1, <2>5 DEF PendingDispatched, PhaseInv
  <2> QED
    BY <2>1, <2>2, <2>5, <2>6 DEF IInv
<1>7. ASSUME NEW n \in 1 .. MaxOut, NEW f \in {{}, {"CLOSE_AFTER_REPLY"}},
             ReadRequests(c, n, f)
      PROVE  IInv'
  <2> DEFINE queue == out[c] = 0 /\ "PENDING_WRITE" \notin flags[c]
  <2>1. /\ UNCHANGED <<alloc, cfd, clients, toClose, mask, ud, open>>
        /\ phase' = "write"
        /\ out' = [out EXCEPT ![c] = out[c] + n]
        /\ flags' = [flags EXCEPT ![c] =
                       flags[c] \cup f \cup (IF queue THEN {"PENDING_WRITE"} ELSE {})]
        /\ pendingWrites' = IF queue THEN AddNodeHead(pendingWrites, c) ELSE pendingWrites
    BY <1>7 DEF ReadRequests, QueueReplies, eventVars
  <2>2. SenderOf(c)
    BY <1>3 DEF IInv, OneSender, SenderOf
  <2>3. /\ "PENDING_WRITE" \in flags'[c] <=> queue \/ "PENDING_WRITE" \in flags[c]
        /\ "CLOSE_ASAP" \in flags'[c] <=> "CLOSE_ASAP" \in flags[c]
        /\ out'[c] > 0
    BY <2>1 DEF IInv, TypeOK
  <2>4. out[c] \in Nat
    BY DEF IInv, TypeOK
  <2>5. SenderOf(c)'
    BY <2>1, <2>2, <2>3, <2>4 DEF SenderOf
  <2>6. \A d \in Addr : d # c => flags'[d] = flags[d] /\ out'[d] = out[d]
    BY <2>1 DEF IInv, TypeOK
  <2>7. "READ" \in mask'[cfd[c]]
    BY <1>3, <2>1 DEF IInv, OwnsDescriptor
  <2>8. /\ ClientsLive' /\ FreedBlank' /\ OwnsDescriptor' /\ TableLive'
        /\ OneSender' /\ ListenersArmed' /\ DescriptorsExact'
    BY <1>3, <2>1, <2>5, <2>6, <2>7, UpdateStep
  <2>9. /\ Elems(pendingWrites') = Elems(pendingWrites) \cup (IF queue THEN {c} ELSE {})
        /\ Distinct(pendingWrites')
    <3>1. pendingWrites \in Seq(Addr) /\ Distinct(pendingWrites) /\ c \notin Elems(pendingWrites)
      BY <1>4 DEF IInv, TypeOK, FlagsMirrorQueues, Mirrors
    <3>2. /\ Elems(AddNodeHead(pendingWrites, c)) = Elems(pendingWrites) \cup {c}
          /\ Distinct(AddNodeHead(pendingWrites, c))
      BY <3>1, HeadElems
    <3> QED
      BY <2>1, <3>1, <3>2
  <2> HIDE DEF queue
  <2>10. Mirrors("PENDING_WRITE", pendingWrites)'
    BY <2>3, <2>6, <2>9 DEF IInv, FlagsMirrorQueues, Mirrors
  <2>11. Mirrors("CLOSE_ASAP", toClose)'
    BY <2>1, <2>3, <2>6 DEF IInv, FlagsMirrorQueues, Mirrors
  <2>12. PendingDispatched' /\ PhaseInv'
    BY <1>1, <1>2, <1>3, <1>4, <2>1, <2>9 DEF PendingDispatched, PhaseInv
  <2> QED
    BY <2>1, <2>8, <2>10, <2>11, <2>12 DEF IInv, FlagsMirrorQueues
<1> QED
  BY <1>5, <1>6, <1>7 DEF Read

LEMMA WriteInv ==
  ASSUME IInv, TypeOK', NEW c \in Addr, Write(c)
  PROVE  IInv'
<1> USE LifecycleAssumption
<1>1. Writing(c)
  BY DEF Write, WriteFree, WriteAll, WritePart
<1>2. /\ phase = "write" /\ cur \in Fd /\ "WRITE" \in mask[cur]
      /\ cur \notin ListenFds /\ c = ud[cur]
      /\ UNCHANGED <<pendingWrites, toClose>>
      /\ phase' = "events" /\ fired' = [fired EXCEPT ![cur] = {}]
  BY <1>1 DEF Writing, EventDone, Fires, IInv, PhaseInv
<1>3. c \in alloc /\ cfd[c] = cur
  BY <1>2, FiredClient
<1>4. c \notin Elems(pendingWrites) /\ c \notin Elems(toClose)
  BY <1>2, <1>3, QueuedLive
<1>5. \A d \in Elems(pendingWrites) : fired'[cfd[d]] = {}
  <2> SUFFICES ASSUME NEW d \in Elems(pendingWrites)
               PROVE  fired'[cfd[d]] = {}
    OBVIOUS
  <2>1. d \in Addr
    BY DEF IInv, TypeOK, Elems
  <2>2. d \in alloc
    BY <2>1, QueuedLive
  <2>3. cfd[d] \in Fd
    BY <2>2 DEF IInv, OwnsDescriptor, Fd
  <2> QED
    BY <1>2, <2>3 DEF IInv, TypeOK, PendingDispatched
<1>6. PhaseInv'
  BY <1>2 DEF PhaseInv
<1>7. CASE WriteFree(c)
  <2>1. FreeClient(c)
    BY <1>7 DEF WriteFree
  <2>2. /\ Distinct(pendingWrites') /\ Distinct(toClose')
        /\ Elems(pendingWrites') = Elems(pendingWrites) \ {c}
        /\ Elems(toClose') = Elems(toClose) \ {c}
    BY <1>2, <1>4 DEF IInv, FlagsMirrorQueues, Mirrors
  <2>3. /\ ClientsLive' /\ FreedBlank' /\ OwnsDescriptor' /\ TableLive'
        /\ FlagsMirrorQueues' /\ OneSender' /\ ListenersArmed' /\ DescriptorsExact'
        /\ \A d \in Elems(pendingWrites') : d \in Elems(pendingWrites) /\ cfd'[d] = cfd[d]
    BY <1>3, <2>1, <2>2, FreeStep
  <2>4. PendingDispatched'
    BY <1>5, <2>3 DEF PendingDispatched
  <2> QED
    BY <1>2, <1>6, <2>3, <2>4 DEF IInv
<1>8. CASE ~WriteFree(c)
  <2> DEFINE Part == \E left \in 1 .. MaxOut : WritePart(c, left)
  <2>1. WriteAll(c) \/ Part
    BY <1>8 DEF Write
  <2>2. /\ UNCHANGED <<alloc, cfd, clients, ud, open, flags>>
        /\ \A d \in Addr : d # c => flags'[d] = flags[d] /\ out'[d] = out[d]
        /\ \A g \in Fd : g # cfd[c] => mask'[g] = mask[g]
    BY <1>3, <2>1 DEF WriteAll, WritePart, eventVars, IInv, TypeOK
  <2>3. /\ "PENDING_WRITE" \notin flags'[c] /\ "CLOSE_ASAP" \notin flags'[c]
        /\ "READ" \in mask'[cfd[c]]
        /\ out'[c] > 0 <=> "WRITE" \in mask'[cfd[c]]
    <3>0. /\ "PENDING_WRITE" \notin flags[c] /\ "CLOSE_ASAP" \notin flags[c]
          /\ "READ" \in mask[cfd[c]]
      BY <1>3, <1>4 DEF IInv, FlagsMirrorQueues, Mirrors, OwnsDescriptor
    <3>1. CASE WriteAll(c)
      BY <3>0, <3>1, <1>2, <1>3, <2>2 DEF WriteAll, IInv, TypeOK
    <3>2. CASE Part
      BY <3>0, <3>2, <1>2, <1>3, <2>2 DEF WritePart, eventVars, IInv, TypeOK
    <3> QED
      BY <2>1, <3>1, <3>2
  <2> HIDE DEF Part
  <2>4. SenderOf(c)'
    BY <2>3, <2>2 DEF SenderOf
  <2>5. /\ ClientsLive' /\ FreedBlank' /\ OwnsDescriptor' /\ TableLive'
        /\ OneSender' /\ ListenersArmed' /\ DescriptorsExact'
    BY <1>3, <2>2, <2>3, <2>4, UpdateStep
  <2>6. FlagsMirrorQueues'
    BY <1>2, <2>2 DEF IInv, FlagsMirrorQueues, Mirrors
  <2>7. PendingDispatched'
    BY <1>2, <1>5, <2>2 DEF PendingDispatched
  <2> QED
    BY <1>2, <1>6, <2>5, <2>6, <2>7 DEF IInv
<1> QED
  BY <1>7, <1>8

LEMMA CronFreeInv ==
  ASSUME IInv, TypeOK', NEW c \in Addr, CronFree(c)
  PROVE  IInv'
<1>1. /\ toClose # << >> /\ c = Head(toClose) /\ FreeClient(c) /\ toClose' = Tail(toClose)
      /\ phase = "cron" /\ UNCHANGED <<phase, fired, cur, pendingWrites>>
  BY DEF CronFree, loopVars
<1>2. /\ c \in Elems(toClose)
      /\ Elems(toClose') = Elems(toClose) \ {c} /\ Distinct(toClose')
      /\ Distinct(pendingWrites')
  BY <1>1, TailElems DEF IInv, TypeOK, FlagsMirrorQueues, Mirrors
<1>3. c \in alloc /\ Elems(pendingWrites') = Elems(pendingWrites) \ {c}
  BY <1>1, <1>2, QueuedLive
<1>4. /\ ClientsLive' /\ FreedBlank' /\ OwnsDescriptor' /\ TableLive'
      /\ FlagsMirrorQueues' /\ OneSender' /\ ListenersArmed' /\ DescriptorsExact'
      /\ \A d \in Elems(pendingWrites') : d \in Elems(pendingWrites) /\ cfd'[d] = cfd[d]
  BY <1>1, <1>2, <1>3, FreeStep
<1>5. PendingDispatched' /\ PhaseInv'
  BY <1>1, <1>4 DEF IInv, PendingDispatched, PhaseInv
<1>6. ~ReadMayEnd
  BY <1>1 DEF IInv
<1> QED
  BY <1>4, <1>5, <1>6 DEF IInv

LEMMA AcceptInv ==
  ASSUME IInv, TypeOK', NEW c \in Addr, NEW fd \in Fd, AcceptClient(c, fd)
  PROVE  IInv'
<1> USE LifecycleAssumption
<1>1. /\ phase = "read" /\ fd \notin open /\ c \notin alloc /\ fd < MaxClients
      /\ UNCHANGED <<phase, fired, cur, pendingWrites, toClose>>
  BY DEF AcceptClient, Accepting, IsNextFd, AddSucceeds, loopVars
<1>2. CASE Cardinality(clients \cup {c}) > MaxClients
  <2>1. UNCHANGED <<clientVars, listVars, eventVars>>
    BY <1>1, <1>2 DEF AcceptClient, listVars
  <2>2. PendingDispatched' /\ PhaseInv'
    BY <1>1, <2>1 DEF IInv, PendingDispatched, PhaseInv, clientVars
  <2> QED
    BY <2>1, <2>2, LoopOnly
<1>3. CASE ~(Cardinality(clients \cup {c}) > MaxClients)
  <2>1. /\ alloc' = alloc \cup {c}
        /\ cfd' = [cfd EXCEPT ![c] = fd]
        /\ flags' = [flags EXCEPT ![c] = {}]
        /\ out' = [out EXCEPT ![c] = 0]
        /\ clients' = clients \cup {c}
        /\ mask' = [mask EXCEPT ![fd] = mask[fd] \cup {"READ"}]
        /\ ud' = [ud EXCEPT ![fd] = c]
        /\ open' = open \cup {fd}
    BY <1>3 DEF AcceptClient
  <2>2. /\ open = 0 .. BaseFd - 1 \cup {cfd[d] : d \in alloc}
        /\ \A d \in alloc : cfd[d] # fd
    BY <1>1 DEF IInv, DescriptorsExact
  <2>3. fd \in BaseFd .. MaxClients - 1 /\ fd \notin ListenFds
    BY <1>1, <2>2 DEF Fd
  <2>4. mask[fd] = {}
    BY <2>2, <2>3 DEF IInv, TableLive
  <2>5. flags[c] = {}
    BY <1>1 DEF IInv, FreedBlank
  <2>6. \A d \in alloc : /\ d \in Addr /\ d # c /\ cfd'[d] = cfd[d] /\ cfd[d] \in Fd
                        /\ flags'[d] = flags[d] /\ out'[d] = out[d]
                        /\ mask'[cfd[d]] = mask[cfd[d]] /\ ud'[cfd[d]] = ud[cfd[d]]
    <3> SUFFICES ASSUME NEW d \in alloc
                 PROVE  /\ d \in Addr /\ d # c /\ cfd'[d] = cfd[d] /\ cfd[d] \in Fd
                        /\ flags'[d] = flags[d] /\ out'[d] = out[d]
                        /\ mask'[cfd[d]] = mask[cfd[d]] /\ ud'[cfd[d]] = ud[cfd[d]]
      OBVIOUS
    <3>1. d \in Addr /\ d # c
      BY <1>1 DEF IInv, TypeOK
    <3>2. cfd[d] \in Fd
      BY DEF IInv, OwnsDescriptor, Fd
    <3> QED
      BY <2>1, <2>2, <3>1, <3>2 DEF IInv, TypeOK
  <2>7. /\ cfd'[c] = fd /\ flags'[c] = {} /\ out'[c] = 0 /\ mask'[fd] = {"READ"}
        /\ ud'[fd] = c
    BY <2>1, <2>4 DEF IInv, TypeOK
  <2>8. ClientsLive'
    BY <2>1 DEF IInv, ClientsLive
  <2>9. FreedBlank'
    BY <2>1 DEF IInv, FreedBlank, TypeOK
  <2>10. OwnsDescriptor'
    BY <2>1, <2>3, <2>6, <2>7 DEF IInv, OwnsDescriptor
  <2>11. TableLive'
    <3> SUFFICES ASSUME NEW g \in Fd \ ListenFds, mask'[g] # {}
                 PROVE  ud'[g] \in alloc' /\ cfd'[ud'[g]] = g
      BY DEF TableLive
    <3>1. CASE g = fd
      BY <3>1, <2>1, <2>7
    <3>2. CASE g # fd
      <4>1. mask[g] # {} /\ ud'[g] = ud[g]
        BY <3>2, <2>1 DEF IInv, TypeOK
      <4>2. ud[g] \in alloc /\ cfd[ud[g]] = g
        BY <4>1 DEF IInv, TableLive
      <4> QED
        BY <2>1, <2>6, <4>1, <4>2
    <3> QED
      BY <3>1, <3>2
  <2>12. FlagsMirrorQueues'
    <3>1. \A d \in Addr : flags'[d] = flags[d]
      BY <2>1, <2>5 DEF IInv, TypeOK
    <3> QED
      BY <1>1, <3>1 DEF IInv, FlagsMirrorQueues, Mirrors
  <2>13. OneSender'
    <3> SUFFICES ASSUME NEW d \in alloc'
                 PROVE  SenderOf(d)'
      BY DEF OneSender, SenderOf
    <3>1. CASE d = c
      BY <3>1, <2>7 DEF SenderOf
    <3>2. CASE d # c
      BY <3>2, <2>1, <2>6 DEF IInv, OneSender, SenderOf
    <3> QED
      BY <3>1, <3>2
  <2>14. PendingDispatched'
    <3>1. \A d \in Elems(pendingWrites) : d \in alloc
      <4>1. Elems(pendingWrites) \subseteq Addr
        BY DEF IInv, TypeOK, Elems
      <4> QED
        BY <4>1, QueuedLive
    <3> QED
      BY <1>1, <2>6, <3>1 DEF IInv, PendingDispatched
  <2>15. ListenersArmed'
    <3>1. \A g \in ListenFds : g \in Fd /\ g # fd
      BY <2>3 DEF Fd
    <3> QED
      BY <2>1, <3>1 DEF IInv, ListenersArmed, TypeOK
  <2>16. PhaseInv'
    BY <1>1 DEF IInv, PhaseInv
  <2>17. DescriptorsExact'
    <3>1. {cfd'[d] : d \in alloc'} = {cfd[d] : d \in alloc} \cup {fd}
      <4>1. \A d \in alloc' : d \in alloc \/ d = c
        BY <2>1
      <4>2. c \in alloc' /\ alloc \subseteq alloc'
        BY <2>1
      <4> QED
        BY <4>1, <4>2, <2>6, <2>7
    <3>2. open' = 0 .. BaseFd - 1 \cup {cfd'[d] : d \in alloc'}
      BY <2>1, <2>2, <3>1
    <3>3. \A d \in alloc' : cfd'[d] >= BaseFd
      BY <2>1, <2>3, <2>6, <2>7 DEF IInv, DescriptorsExact
    <3>4. \A d, e \in alloc' : cfd'[d] = cfd'[e] => d = e
      BY <2>1, <2>2, <2>6, <2>7 DEF IInv, DescriptorsExact
    <3> QED
      BY <3>2, <3>3, <3>4 DEF DescriptorsExact
  <2>18. ReadMayEnd => toClose' = << >>
    BY <1>1 DEF IInv
  <2> QED
    BY <2>8, <2>9, <2>10, <2>11, <2>12, <2>13, <2>14, <2>15, <2>16, <2>17, <2>18 DEF IInv
<1> QED
  BY <1>2, <1>3

(* Every step of the server keeps the inductive invariant, provided that a  *)
(* failed epoll_ctl and a connection ending in a read handler do not meet.  *)
LEMMA NextInv ==
  ASSUME NoAsyncReadRace
  PROVE  IInv /\ [Next]_vars => IInv'
<1> SUFFICES ASSUME IInv, [Next]_vars
             PROVE  IInv'
  OBVIOUS
<1> USE LifecycleAssumption
<1>0. TypeOK'
  BY NextType DEF IInv
<1>1. ASSUME NEW c \in Addr, Flush(c) \/ Read(c) \/ Write(c) \/ CronFree(c)
      PROVE  IInv'
  BY <1>0, <1>1, FlushInv, ReadInv, WriteInv, CronFreeInv
<1>2. ASSUME NEW c \in Addr, NEW fd \in Fd, AcceptClient(c, fd)
      PROVE  IInv'
  BY <1>0, <1>2, AcceptInv
<1>3. ASSUME NEW ready \in [Registered -> SUBSET Mask], Poll(ready)
      PROVE  IInv'
  <2>1. PendingDispatched' /\ PhaseInv'
    <3>1. Elems(pendingWrites') = {}
      BY <1>3 DEF Poll, IInv, PhaseInv, listVars, Elems
    <3> QED
      BY <1>3, <3>1 DEF Poll, PendingDispatched, PhaseInv
  <2> QED
    BY <1>0, <1>3, <2>1, LoopOnly DEF Poll
<1>4. ASSUME NEW fd \in Fd, NextEvent(fd)
      PROVE  IInv'
  <2>1. PendingDispatched' /\ PhaseInv'
    BY <1>4 DEF NextEvent, IInv, PendingDispatched, PhaseInv, clientVars, listVars
  <2> QED
    BY <1>0, <1>4, <2>1, LoopOnly DEF NextEvent
<1>5. ASSUME NEW fd \in Fd, AcceptDrop(fd)
      PROVE  IInv'
  <2>1. PendingDispatched' /\ PhaseInv'
    BY <1>5 DEF AcceptDrop, IInv, PendingDispatched, PhaseInv, loopVars, clientVars, listVars
  <2> QED
    BY <1>0, <1>5, <2>1, DropCloses, LoopOnly DEF AcceptDrop, eventVars
<1>6. CASE ReadNotFired \/ AcceptEnd \/ EventsDone
           \/ TimersNotDue \/ CronStart \/ CronDone \/ FlushDone
  <2>1. phase # "write" /\ UNCHANGED <<fired, cur, clientVars, listVars, eventVars>>
    BY <1>6 DEF ReadNotFired, AcceptEnd, Accepting, EventsDone, TimersNotDue, CronStart,
                CronDone, FlushDone
  <2>2. PendingDispatched'
    BY <2>1 DEF IInv, PendingDispatched, clientVars, listVars
  <2>3. PhaseInv'
    BY <1>6 DEF ReadNotFired, AcceptEnd, Accepting, EventsDone, TimersNotDue, CronStart,
                CronDone, FlushDone, IInv, PhaseInv, clientVars, listVars
  <2> QED
    BY <1>0, <2>1, <2>2, <2>3, LoopOnly
<1>7. CASE WriteNotFired
  <2>1. /\ phase = "write" /\ cur \in Fd /\ phase' = "events"
        /\ fired' = [fired EXCEPT ![cur] = {}]
        /\ UNCHANGED <<clientVars, listVars, eventVars>>
    BY <1>7 DEF WriteNotFired, EventDone, IInv, PhaseInv
  <2>2. \A d \in Elems(pendingWrites) : cfd[d] \in Fd
    <3>1. \A d \in Elems(pendingWrites) : d \in alloc
      <4>1. Elems(pendingWrites) \subseteq Addr
        BY DEF IInv, TypeOK, Elems
      <4> QED
        BY <4>1, QueuedLive
    <3> QED
      BY <3>1 DEF IInv, OwnsDescriptor, Fd
  <2>3. PendingDispatched' /\ PhaseInv'
    BY <2>1, <2>2 DEF IInv, TypeOK, PendingDispatched, PhaseInv, clientVars, listVars
  <2> QED
    BY <1>0, <2>1, <2>3, LoopOnly
<1>8. CASE Signal \/ UNCHANGED vars
  <2>1. UNCHANGED <<loopVars, clientVars, listVars, eventVars>>
    BY <1>8 DEF Signal, vars
  <2>2. PendingDispatched' /\ PhaseInv'
    BY <2>1 DEF IInv, PendingDispatched, PhaseInv, loopVars, clientVars, listVars
  <2> QED
    BY <1>0, <2>1, <2>2, LoopOnly
<1> QED
  BY <1>1, <1>2, <1>3, <1>4, <1>5, <1>6, <1>7, <1>8 DEF Next, Loop

LEMMA InvAlways ==
  ASSUME NoAsyncReadRace
  PROVE  Spec => []IInv
<1>1. Init => IInv
  BY InitInv
<1>2. IInv /\ [Next]_vars => IInv'
  BY NextInv
<1> QED
  BY <1>1, <1>2, PTL DEF Spec

(* The inductive invariant implies the properties the runs check. *)
LEMMA InvImplies ==
  ASSUME IInv
  PROVE  /\ NoDanglingClient /\ FlagsMirrorQueues /\ DescriptorsExact
         /\ WriteHandlerIffOutput /\ BelowLimit /\ HandlersGetLiveClient
<1> USE LifecycleAssumption
<1>1. NoDanglingClient
  <2>1. Elems(pendingWrites) \subseteq Addr /\ Elems(toClose) \subseteq Addr
    BY DEF IInv, TypeOK, Elems
  <2>2. PendingLive /\ ToCloseLive
    BY <2>1, QueuedLive DEF PendingLive, ToCloseLive
  <2> QED
    BY <2>2 DEF IInv, NoDanglingClient
<1>2. WriteHandlerIffOutput
  <2> SUFFICES ASSUME phase = "poll", NEW c \in alloc
               PROVE  "WRITE" \in mask[cfd[c]]
                        <=> (out[c] > 0 /\ "CLOSE_ASAP" \notin flags[c])
    BY DEF WriteHandlerIffOutput
  <2>1. Elems(pendingWrites) = {}
    BY DEF IInv, PhaseInv, Elems
  <2>2. "PENDING_WRITE" \notin flags[c]
    BY <2>1 DEF IInv, TypeOK, FlagsMirrorQueues, Mirrors
  <2> QED
    BY <2>2 DEF IInv, OneSender
<1>3. BelowLimit
  <2> DEFINE T == BaseFd .. MaxClients - 1
             f == [c \in clients |-> cfd[c]]
  <2>1. f \in [clients -> T]
    BY DEF IInv, ClientsLive, OwnsDescriptor
  <2>2. f \in Injection(clients, T)
    BY <2>1 DEF IInv, ClientsLive, DescriptorsExact, Injection, IsInjective
  <2>3. IsFiniteSet(T) /\ Cardinality(T) = MaxClients - BaseFd
    BY FS_Interval
  <2> HIDE DEF f, T
  <2> QED
    BY <2>2, <2>3, FS_Injection DEF BelowLimit
<1>4. HandlersGetLiveClient
  <2> SUFFICES ASSUME NEW ev \in Mask, phase \in {"read", "write"}, Fires(ev),
                      cur \notin ListenFds
               PROVE  ud[cur] \in alloc /\ cfd[ud[cur]] = cur
    BY DEF HandlersGetLiveClient
  <2>1. cur \in Fd \ ListenFds /\ mask[cur] # {}
    BY DEF IInv, PhaseInv, Fires
  <2> QED
    BY <2>1 DEF IInv, TableLive
<1> QED
  BY <1>1, <1>2, <1>3, <1>4 DEF IInv

(* For any number of clients, descriptors and units of output: the client   *)
(* lists, the two queues and the event table never hold a pointer to a      *)
(* freed client, although rr_client_free searches neither queue.            *)
THEOREM ClientPointersLive ==
  ASSUME NoAsyncReadRace
  PROVE  Spec => []NoDanglingClient
  BY InvAlways, InvImplies, PTL

(* The callbacks of el_loop_poll run for live clients only, because the     *)
(* event table's mask is read again before each of them.                    *)
THEOREM CallbacksGetLiveClients ==
  ASSUME NoAsyncReadRace
  PROVE  Spec => []HandlersGetLiveClient
  BY InvAlways, InvImplies, PTL

(* The flag tests in prepare_client_to_write and free_client_async are      *)
(* exact: flag set if and only if queued, and never queued twice.           *)
THEOREM FlagsExact ==
  ASSUME NoAsyncReadRace
  PROVE  Spec => []FlagsMirrorQueues
  BY InvAlways, InvImplies, PTL

(* Whenever the server sleeps in epoll, the write handlers are exactly      *)
(* those of the clients with output left to send.                           *)
THEOREM WriteHandlersExact ==
  ASSUME NoAsyncReadRace
  PROVE  Spec => []WriteHandlerIffOutput
  BY InvAlways, InvImplies, PTL

(* No descriptor is leaked or shared by two clients. *)
THEOREM DescriptorsNeverLeak ==
  ASSUME NoAsyncReadRace
  PROVE  Spec => []DescriptorsExact
  BY InvAlways, InvImplies, PTL

(* The number of clients never reaches max_clients, so the test of          *)
(* add_client that rejects a client with a message is never true.           *)
THEOREM LimitNeverReached ==
  ASSUME NoAsyncReadRace
  PROVE  Spec => []BelowLimit
  BY InvAlways, InvImplies, PTL
=============================================================================
