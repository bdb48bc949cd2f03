---------------------------- MODULE ServerProofs ----------------------------
(***************************************************************************)
(* Theorems about Server for every set of connections and descriptors,      *)
(* every number of frames and responses, and every choice of the switches.  *)
(***************************************************************************)
EXTENDS Server, SequenceTheorems, TLAPS

\* Where the worker still uses handlerIter, and where it has called handleFrame.
Referring == {"found", "erase", "call", "handling", "notify", "handled"}
Called == {"handling", "notify", "handled", "close", "wclose", "wdel", "wdestroy"}

\* What each program counter promises about the locals the next step reads.
LocalsOK ==
    /\ ListenFd \in DOMAIN batch => backlog # <<>>
    /\ EventFd \in DOMAIN batch => eventFdOut > 0
    /\ iopc \in {"create", "client", "destroy"} => iofd \in ClientFds
    /\ iopc \in {"create", "deliver"} => ioitem # <<>>
    /\ wpc # "idle" => witem # <<>>
    /\ wpc \in Referring => wnode \in Item
    /\ wpc \in Called => wctx \in Item

SInv == TypeOK /\ LocalsOK

-----------------------------------------------------------------------------
(* Tables. *)

LEMMA WithoutType ==
    ASSUME NEW S, NEW T, NEW f \in PartialFn(S, T), NEW x
    PROVE  /\ Without(f, x) \in PartialFn(S, T)
           /\ DOMAIN Without(f, x) = DOMAIN f \ {x}
<1>1. PICK D \in SUBSET S : f \in [D -> T]
  BY DEF PartialFn
<1>2. Without(f, x) \in [D \ {x} -> T]
  BY <1>1 DEF Without, Restrict
<1>3. QED
  BY <1>1, <1>2 DEF PartialFn

LEMMA WithoutDomain ==
    ASSUME NEW f, NEW x
    PROVE  DOMAIN Without(f, x) = DOMAIN f \ {x}
  BY DEF Without, Restrict

LEMMA EmplaceType ==
    ASSUME NEW S, NEW T, NEW f \in PartialFn(S, T), NEW x \in S, NEW v \in T
    PROVE  Emplace(f, x, v) \in PartialFn(S, T)
<1>1. PICK D \in SUBSET S : f \in [D -> T]
  BY DEF PartialFn
<1>2. Emplace(f, x, v) \in [D \union {x} -> T]
  BY <1>1 DEF Emplace
<1>3. QED
  BY <1>2 DEF PartialFn

LEMMA ValueType ==
    ASSUME NEW S, NEW T, NEW f \in PartialFn(S, T), NEW x \in DOMAIN f
    PROVE  f[x] \in T /\ x \in S
  BY DEF PartialFn

LEMMA SetTxType ==
    ASSUME fdInfoTable \in PartialFn(ClientFds, [conn : Conns, tx : Conns \union {NoConn}]),
           NEW x \in DOMAIN fdInfoTable, NEW v \in Conns \union {NoConn},
           fdInfoTable' = [fdInfoTable EXCEPT ![x].tx = v]
    PROVE  fdInfoTable' \in PartialFn(ClientFds, [conn : Conns, tx : Conns \union {NoConn}])
<1> DEFINE FdInfo == [conn : Conns, tx : Conns \union {NoConn}]
<1>1. PICK D \in SUBSET ClientFds : fdInfoTable \in [D -> FdInfo]
  BY DEF PartialFn
<1>2. [fdInfoTable[x] EXCEPT !.tx = v] \in FdInfo
  BY <1>1
<1>3. [fdInfoTable EXCEPT ![x].tx = v] \in [D -> FdInfo]
  BY <1>1, <1>2
<1>4. QED
  BY <1>1, <1>3 DEF PartialFn

-----------------------------------------------------------------------------
(* The kernel and the clients. *)

LEMMA CloseFdType ==
    ASSUME KernelTypeOK, NEW fd, CloseFd(fd)
    PROVE  /\ sockOf' \in PartialFn(ClientFds, Conns)
           /\ epollSet' \subseteq ClientFds /\ edge' \subseteq epollSet'
  BY WithoutType DEF KernelTypeOK, CloseFd

LEMMA ReceivedType ==
    ASSUME KernelTypeOK, NEW c \in Conns, NEW asker, Received(c, asker)
    PROVE  answered' \in [Conns -> Nat] /\ stray' \subseteq Conns
  BY DEF KernelTypeOK, Received

LEMMA RaiseEdgeType ==
    ASSUME KernelTypeOK, NEW c, RaiseEdge(c)
    PROVE  edge' \subseteq epollSet
  BY DEF KernelTypeOK, RaiseEdge

LEMMA AcceptKernel ==
    ASSUME SInv, AcceptClient
    PROVE  KernelTypeOK'
<1> USE DEF SInv, TypeOK, LocalsOK, historyVars
<1>1. Head(backlog) \in Conns /\ Tail(backlog) \in Seq(Conns)
  BY HeadTailProperties DEF AcceptClient, AtEvent, KernelTypeOK
<1>2. CASE acceptFails(Head(backlog))
  BY <1>1, <1>2 DEF AcceptClient, acceptFails, KernelTypeOK
<1>3. ASSUME NEW fd \in ClientFds, LowestFree(fd), backlog' = Tail(backlog),
             acceptAdds(Head(backlog), fd)
      PROVE  KernelTypeOK'
  <2>1. sockOf' \in PartialFn(ClientFds, Conns)
    BY <1>1, <1>3, EmplaceType DEF acceptAdds, KernelTypeOK
  <2>2. QED
    BY <1>1, <1>3, <2>1 DEF AcceptClient, acceptAdds, KernelTypeOK
<1>4. ASSUME NEW fd \in ClientFds, LowestFree(fd), backlog' = Tail(backlog),
             acceptAddFails(Head(backlog))
      PROVE  KernelTypeOK'
  BY <1>1, <1>4 DEF AcceptClient, acceptAddFails, KernelTypeOK
<1>5. QED
  BY <1>2, <1>3, <1>4 DEF AcceptClient

\* What a client event on an open descriptor works with.
LEMMA EventConn ==
    ASSUME SInv, ~Faulty(iofd)
    PROVE  iofd \in DOMAIN sockOf /\ sockOf[iofd] \in Conns
  BY ValueType DEF SInv, TypeOK, KernelTypeOK, Faulty

LEMMA ReadyKernel ==
    ASSUME SInv, iofd \in DOMAIN fdInfoTable, ClientReady
    PROVE  KernelTypeOK'
<1> USE DEF SInv, TypeOK
<1> DEFINE c == sockOf[iofd]
<1>1. c \in Conns
  BY EventConn DEF ClientReady
<1>2. rx' \in [Conns -> Nat]
  BY <1>1 DEF ClientReady, readAll, KernelTypeOK
<1>3. CASE closeClient(iofd) /\ UNCHANGED <<answered, stray, peer>>
  BY <1>2, <1>3, CloseFdType DEF ClientReady, closeClient, KernelTypeOK
<1>4. CASE ClientOutput(c) /\ UNCHANGED <<sockOf, epollSet>>
  <2>1. answered' \in [Conns -> Nat] /\ stray' \subseteq Conns
    BY <1>1, <1>4, ReceivedType DEF ClientOutput, KernelTypeOK
  <2>2. peer' \in [Conns -> {"none", "open", "fin", "reset"}] /\ edge' \subseteq epollSet
    BY <1>1, <1>4, RaiseEdgeType DEF ClientOutput, KernelTypeOK
  <2>3. QED
    BY <1>2, <1>4, <2>1, <2>2 DEF ClientReady, KernelTypeOK
<1>5. QED
  BY <1>3, <1>4 DEF ClientReady

LEMMA SendKernel ==
    ASSUME SInv, Deliver
    PROVE  KernelTypeOK'
<1> USE DEF SInv, TypeOK
<1> DEFINE it == Head(ioitem)
           c == sockOf[it.fd]
<1>1. CASE DropItem(it) /\ UNCHANGED <<backlog, sockOf, epollSet, rx, sent, lost>>
  BY <1>1 DEF DropItem, KernelTypeOK
<1>2. CASE Dies
  BY <1>2 DEF Dies, kernelVars, historyVars, KernelTypeOK
<1>3. CASE ~Faulty(it.fd) /\ SendItem(it) /\ UNCHANGED <<backlog, sockOf, epollSet, rx, sent, lost>>
  <2>1. c \in Conns
    BY <1>3, ValueType DEF Faulty, KernelTypeOK
  <2>2. answered' \in [Conns -> Nat] /\ stray' \subseteq Conns
    BY <1>3, <2>1, ReceivedType DEF SendItem, KernelTypeOK
  <2>3. peer' \in [Conns -> {"none", "open", "fin", "reset"}] /\ edge' \subseteq epollSet
    BY <1>3, <2>1, RaiseEdgeType DEF SendItem, KernelTypeOK
  <2>4. full' \in [Conns -> BOOLEAN]
    BY <1>3, <2>1 DEF SendItem, KernelTypeOK
  <2>5. QED
    BY <1>3, <2>2, <2>3, <2>4 DEF KernelTypeOK
<1>4. QED
  BY <1>1, <1>2, <1>3 DEF Deliver

LEMMA ClientKernel ==
    ASSUME KernelTypeOK, NEW c \in Conns, Client(c)
    PROVE  KernelTypeOK'
<1> USE DEF historyVars
<1>1. CASE Connect(c)
  BY <1>1, AppendProperties DEF Connect, KernelTypeOK
<1>2. CASE Request(c)
  BY <1>2, RaiseEdgeType DEF Request, KernelTypeOK
<1>3. CASE Leave(c)
  <2>1. peer' \in [Conns -> {"none", "open", "fin", "reset"}]
    BY <1>3 DEF Leave, KernelTypeOK
  <2>2. QED
    BY <1>3, <2>1, RaiseEdgeType DEF Leave, KernelTypeOK
<1>4. CASE Drain(c)
  BY <1>4, RaiseEdgeType DEF Drain, KernelTypeOK
<1>5. QED
  BY <1>1, <1>2, <1>3, <1>4 DEF Client

LEMMA KernelStep ==
    ASSUME SInv, Next
    PROVE  KernelTypeOK'
<1> USE DEF SInv, TypeOK, kernelVars, historyVars
<1>1. CASE EpollWait
  BY <1>1 DEF EpollWait, KernelTypeOK
<1>2. CASE AcceptClient
  BY <1>2, AcceptKernel
<1>3. CASE CreateHandler \/ (\E fd \in ClientFds : LockTable(fd)) \/ ReadEventFd \/ FetchOut
  BY <1>3 DEF CreateHandler, LockTable, ReadEventFd, FetchOut, KernelTypeOK
<1>4. CASE ClientEvent
  <2>1. CASE ContextNotFound \/ ClientIdle
    BY <2>1 DEF ContextNotFound, ClientIdle, KernelTypeOK
  <2>2. CASE ClientHungUp
    BY <2>2, CloseFdType DEF ClientHungUp, closeClient, KernelTypeOK
  <2>3. CASE ClientFaulty
    BY <2>3 DEF ClientFaulty, Dies, KernelTypeOK
  <2>4. QED
    BY <1>4, <2>1, <2>2, <2>3, ReadyKernel DEF ClientEvent
<1>5. CASE DestroyContext
  BY <1>5 DEF DestroyContext, KernelTypeOK
<1>6. CASE Deliver
  BY <1>6, SendKernel
<1>7. CASE \/ WorkerFetch \/ FirstIsActive \/ EraseNode \/ CallHandler \/ UseOfErased
           \/ Respond \/ Notify \/ SecondIsActive \/ DestroyHandler
  BY <1>7 DEF WorkerFetch, FirstIsActive, EraseNode, CallHandler, UseOfErased, Respond, Notify,
              SecondIsActive, DestroyHandler, Dies, KernelTypeOK
<1>11. CASE EndFrame \/ CloseFind
  <2>1. lost' \subseteq Conns
    <3>1. wctx.conn \in Conns
      BY <1>11 DEF EndFrame, CloseFind, LocalsOK, Called, Item
    <3> QED
      BY <1>11, <3>1 DEF EndFrame, CloseFind, KernelTypeOK
  <2> QED
    BY <1>11, <2>1 DEF EndFrame, CloseFind, KernelTypeOK
<1>8. CASE CloseClose
  BY <1>8, CloseFdType DEF CloseClose, KernelTypeOK
<1>9. CASE CloseDel
  BY <1>9 DEF CloseDel, KernelTypeOK
<1>10. QED
  BY <1>1, <1>2, <1>3, <1>4, <1>5, <1>6, <1>7, <1>8, <1>9, <1>11, ClientKernel
     DEF Next, IO, Worker

-----------------------------------------------------------------------------
(* The members of Server and the I/O thread's locals. *)

LEMMA ItemType == ASSUME NEW fd \in ClientFds, NEW c \in Conns
                  PROVE  [fd |-> fd, conn |-> c] \in Item
  BY DEF Item

LEMMA FetchedItem ==
    ASSUME NEW q \in Seq(Item), q # <<>>
    PROVE  /\ Head(q) \in Item /\ Tail(q) \in Seq(Item)
           /\ <<Head(q)>> \in Seq(Item) /\ <<Head(q)>> # <<>>
           /\ Len(Tail(q)) = Len(q) - 1
  BY HeadTailProperties

LEMMA CreateServer ==
    ASSUME SInv, CreateHandler
    PROVE  ServerTypeOK'
<1> USE DEF SInv, TypeOK, LocalsOK
<1>1. Head(ioitem) \in Item
  BY FetchedItem DEF CreateHandler, ServerTypeOK
<1>2. [conn |-> Head(ioitem).conn, tx |-> NoConn] \in [conn : Conns, tx : Conns \union {NoConn}]
  BY <1>1 DEF Item
<1>3. fdInfoTable' \in PartialFn(ClientFds, [conn : Conns, tx : Conns \union {NoConn}])
  BY <1>2, EmplaceType DEF CreateHandler, ServerTypeOK
<1>4. <<>> \in Seq(Item)
  BY EmptySeq
<1>5. QED
  BY <1>3, <1>4 DEF CreateHandler, ServerTypeOK, queueVars

LEMMA EndEventServer ==
    ASSUME SInv, EndEvent, UNCHANGED <<wqOut, eventFdOut>>,
           wqIn' \in Seq(Item),
           fdInfoTable' \in PartialFn(ClientFds, [conn : Conns, tx : Conns \union {NoConn}])
    PROVE  ServerTypeOK'
<1>1. DOMAIN batch' \subseteq DOMAIN batch
  BY WithoutDomain DEF EndEvent
<1>2. QED
  BY <1>1 DEF SInv, TypeOK, ServerTypeOK, EndEvent

LEMMA CloseServer ==
    ASSUME SInv, iopc = "client", closeClient(iofd), UNCHANGED <<wqOut, eventFdOut>>,
           wqIn' \in Seq(Item)
    PROVE  ServerTypeOK'
<1>1. fdInfoTable' \in PartialFn(ClientFds, [conn : Conns, tx : Conns \union {NoConn}])
  BY WithoutType DEF SInv, TypeOK, ServerTypeOK, closeClient
<1>2. QED
  BY <1>1 DEF SInv, TypeOK, ServerTypeOK, closeClient

LEMMA ReadAllType ==
    ASSUME SInv, NEW c \in Conns, NEW fd \in ClientFds, readAll(c, fd)
    PROVE  wqIn' \in Seq(Item)
<1>1. rx[c] \in Nat /\ wqIn \in Seq(Item)
  BY DEF SInv, TypeOK, KernelTypeOK, ServerTypeOK
<1>2. [i \in 1 .. rx[c] |-> [fd |-> fd, conn |-> c]] \in Seq(Item)
  <2>1. [i \in 1 .. rx[c] |-> [fd |-> fd, conn |-> c]] \in [1 .. rx[c] -> Item]
    BY ItemType
  <2>2. QED
    BY <1>1, <2>1
<1>3. QED
  BY <1>1, <1>2, ConcatProperties DEF readAll

LEMMA ReadyServer ==
    ASSUME SInv, iopc = "client", iofd \in DOMAIN fdInfoTable, ClientReady
    PROVE  ServerTypeOK'
<1> USE DEF SInv, TypeOK
<1> DEFINE c == sockOf[iofd]
<1>1. c \in Conns /\ iofd \in ClientFds
  BY EventConn DEF ClientReady, LocalsOK
<1>2. wqIn' \in Seq(Item)
  BY <1>1, ReadAllType DEF ClientReady, ServerTypeOK
<1>3. CASE closeClient(iofd)
  BY <1>2, <1>3, CloseServer DEF ClientReady
<1>4. CASE ClientOutput(c) /\ EndEvent
  <2>1. fdInfoTable' \in PartialFn(ClientFds, [conn : Conns, tx : Conns \union {NoConn}])
    <3>1. NoConn \in Conns \union {NoConn}
      OBVIOUS
    <3>2. QED
      BY <1>4, <3>1, SetTxType DEF ClientOutput, ServerTypeOK
  <2>2. QED
    BY <1>2, <1>4, <2>1, EndEventServer DEF ClientReady
<1>5. QED
  BY <1>3, <1>4 DEF ClientReady

LEMMA DeliverServer ==
    ASSUME SInv, Deliver
    PROVE  ServerTypeOK'
<1> USE DEF SInv, TypeOK, LocalsOK, queueVars
<1> DEFINE it == Head(ioitem)
<1>1. it \in Item
  BY FetchedItem DEF Deliver, ServerTypeOK
<1>2. <<>> \in Seq(Item)
  BY EmptySeq
<1>3. CASE DropItem(it) /\ UNCHANGED <<batch, iofd, queueVars, running, fdTableMtx>>
  BY <1>2, <1>3 DEF DropItem, Deliver, ServerTypeOK
<1>4. CASE Dies
  BY <1>4 DEF Dies, ioVars, tableVars, ServerTypeOK
<1>5. CASE /\ it.fd \in DOMAIN fdInfoTable /\ SendItem(it)
           /\ UNCHANGED <<batch, iofd, queueVars, running, fdTableMtx>>
  <2>1. fdInfoTable' \in PartialFn(ClientFds, [conn : Conns, tx : Conns \union {NoConn}])
    <3>1. it.conn \in Conns \union {NoConn}
      BY <1>1 DEF Item
    <3>2. QED
      BY <1>5, <3>1, SetTxType DEF SendItem, ServerTypeOK
  <2>2. QED
    BY <1>2, <1>5, <2>1 DEF SendItem, Deliver, ServerTypeOK
<1>6. QED
  BY <1>3, <1>4, <1>5 DEF Deliver

LEMMA ServerStep ==
    ASSUME SInv, Next
    PROVE  ServerTypeOK'
<1> USE DEF SInv, TypeOK, queueVars, tableVars, ioVars, codeVars
<1>1. CASE EpollWait
  <2>1. DOMAIN batch' \subseteq ClientFds \union {ListenFd, EventFd}
    BY <1>1 DEF EpollWait, Ready, KernelTypeOK
  <2>2. QED
    BY <1>1, <2>1 DEF EpollWait, ServerTypeOK
<1>2. CASE AcceptClient
  <2>1. DOMAIN batch' \subseteq DOMAIN batch
    BY <1>2, WithoutDomain DEF AcceptClient
  <2>2. Head(backlog) \in Conns
    BY <1>2, HeadTailProperties DEF AcceptClient, AtEvent, KernelTypeOK, LocalsOK
  <2>3. CASE acceptFails(Head(backlog))
    BY <1>2, <2>1, <2>3 DEF AcceptClient, AtEvent, acceptFails, ServerTypeOK
  <2>4. ASSUME NEW fd \in ClientFds, iopc' = "create", iofd' = fd,
               ioitem' = <<[fd |-> fd, conn |-> Head(backlog)]>>, UNCHANGED running
        PROVE  ServerTypeOK'
    <3>1. ioitem' \in Seq(Item)
      BY <2>2, <2>4, ItemType
    <3>2. QED
      BY <1>2, <2>1, <2>4, <3>1 DEF AcceptClient, AtEvent, ServerTypeOK
  <2>5. QED
    BY <1>2, <2>3, <2>4 DEF AcceptClient
<1>3. CASE CreateHandler
  BY <1>3, CreateServer
<1>4. ASSUME NEW fd \in ClientFds, LockTable(fd) PROVE ServerTypeOK'
  BY <1>4 DEF LockTable, ServerTypeOK
<1>5. CASE ClientEvent
  <2>1. CASE ContextNotFound \/ ClientIdle
    BY <2>1, EndEventServer DEF ContextNotFound, ClientIdle, ServerTypeOK
  <2>2. CASE ClientHungUp
    BY <1>5, <2>2, CloseServer DEF ClientEvent, ClientHungUp, ServerTypeOK
  <2>3. CASE ClientFaulty
    BY <2>3 DEF ClientFaulty, Dies, ServerTypeOK
  <2>4. QED
    BY <1>5, <2>1, <2>2, <2>3, ReadyServer DEF ClientEvent
<1>6. CASE DestroyContext
  BY <1>6, EndEventServer DEF DestroyContext, ServerTypeOK
<1>7. CASE ReadEventFd
  <2>1. DOMAIN batch' \subseteq DOMAIN batch
    BY <1>7, WithoutDomain DEF ReadEventFd
  <2>2. eventFdOut' \in Nat
    BY <1>7 DEF ReadEventFd, AtEvent, LocalsOK, ServerTypeOK
  <2>3. QED
    BY <1>7, <2>1, <2>2 DEF ReadEventFd, AtEvent, ServerTypeOK
<1>8. CASE FetchOut
  BY <1>8, FetchedItem DEF FetchOut, TakeItem, ServerTypeOK
<1>9. CASE Deliver
  BY <1>9, DeliverServer
<1>10. CASE Worker
  <2>1. CASE WorkerFetch
    BY <2>1, FetchedItem DEF WorkerFetch, ServerTypeOK
  <2>2. CASE Respond
    <3>1. Head(witem) \in Item /\ wctx \in Item
      BY <2>2, FetchedItem DEF Respond, LocalsOK, Called, WorkerTypeOK
    <3>4. Response \in Item
      BY <3>1 DEF Response, Item
    <3>2. wqOut' \in Seq(Item)
      BY <2>2, <3>4, AppendProperties DEF Respond, writeFrame, ServerTypeOK
    <3>3. QED
      BY <2>2, <3>2 DEF Respond, ServerTypeOK
  <2>3. CASE Notify
    BY <2>3 DEF Notify, ServerTypeOK
  <2>4. CASE \/ FirstIsActive \/ EraseNode \/ CallHandler \/ UseOfErased \/ EndFrame
             \/ SecondIsActive \/ CloseFind \/ CloseClose \/ CloseDel
    <3>1. UNCHANGED <<running, fdInfoTable, wqIn, wqOut, eventFdOut, iopc, batch, iofd,
                      ioitem, fdTableMtx>>
      BY <2>4 DEF FirstIsActive, EraseNode, CallHandler, UseOfErased, EndFrame, SecondIsActive,
                  CloseFind, CloseClose, CloseDel, Dies
    <3>2. alive' = alive \/ alive' = FALSE
      BY <2>4 DEF FirstIsActive, EraseNode, CallHandler, UseOfErased, EndFrame, SecondIsActive,
                  CloseFind, CloseClose, CloseDel, Dies
    <3>3. QED
      BY <3>1, <3>2 DEF ServerTypeOK
  <2>5. CASE DestroyHandler
    BY <2>5, WithoutType DEF DestroyHandler, ServerTypeOK
  <2>6. QED
    BY <1>10, <2>1, <2>2, <2>3, <2>4, <2>5 DEF Worker
<1>11. ASSUME NEW c \in Conns, Client(c) PROVE ServerTypeOK'
  BY <1>11 DEF Client, Connect, Request, Leave, Drain, ServerTypeOK
<1>12. QED
  BY <1>1, <1>2, <1>3, <1>4, <1>5, <1>6, <1>7, <1>8, <1>9, <1>10, <1>11 DEF Next, IO

-----------------------------------------------------------------------------
(* The worker. *)

LEMMA WorkerIdleType ==
    ASSUME WorkerIdle, inactive' \subseteq Conns, handlerTable' \in PartialFn(ClientFds, Conns)
    PROVE  WorkerTypeOK'
<1>1. <<>> \in Seq(Item)
  BY EmptySeq
<1>2. cctx' \in [fd : ClientFds \union {ListenFd}, freed : BOOLEAN]
  BY DEF WorkerIdle, NoContext
<1>4. NoSession \in Session
  BY DEF NoSession, Session
<1>3. QED
  BY <1>1, <1>2, <1>4 DEF WorkerIdle, WorkerTypeOK

LEMMA CloseClientWorker ==
    ASSUME WorkerTypeOK, NEW fd, closeClient(fd)
    PROVE  cctx' \in [fd : ClientFds \union {ListenFd}, freed : BOOLEAN]
<1>1. PICK b : cctx' = [cctx EXCEPT !.freed = @ \/ b] /\ b \in BOOLEAN
  BY DEF closeClient
<1>2. (cctx.freed \/ b) \in BOOLEAN
  OBVIOUS
<1>3. QED
  BY <1>1, <1>2 DEF WorkerTypeOK

LEMMA ItemIsSession == Item \subseteq Session
  BY DEF Item, Session

\* The steps from the lookup to the handler.
LEMMA FetchWorker ==
    ASSUME SInv, WorkerFetch \/ FirstIsActive \/ EraseNode \/ CallHandler \/ UseOfErased
    PROVE  WorkerTypeOK'
<1> USE DEF SInv, TypeOK, tableVars, workerVars
<1>1. CASE WorkerFetch
  <2>1. Head(wqIn) \in Item /\ <<Head(wqIn)>> \in Seq(Item)
    BY <1>1, FetchedItem DEF WorkerFetch, ServerTypeOK
  <2>2. CASE SkipItem(Head(wqIn))
    BY <1>1, <2>2 DEF WorkerFetch, SkipItem, WorkerTypeOK
  <2>3. CASE FindHandler(Head(wqIn))
    <3>1. handlerTable[Head(wqIn).fd] \in Conns
      BY <2>3, ValueType DEF FindHandler, WorkerTypeOK
    <3>2. wnode' \in Session
      BY <2>1, <2>3, <3>1 DEF FindHandler, Item, Session
    <3>3. QED
      BY <1>1, <2>1, <2>3, <3>2 DEF WorkerFetch, FindHandler, WorkerTypeOK
  <2>4. QED
    BY <1>1, <2>2, <2>3 DEF WorkerFetch
<1>2. CASE FirstIsActive
  BY <1>2 DEF FirstIsActive, WorkerTypeOK
<1>3. CASE EraseNode
  <2>1. handlerTable' \in PartialFn(ClientFds, Conns)
    BY <1>3, WithoutType DEF EraseNode, WorkerTypeOK
  <2> QED
    BY <1>3, <2>1, WorkerIdleType DEF EraseNode, WorkerTypeOK
<1>4. CASE CallHandler
  <2>1. wleft' \in Nat
    BY <1>4, ServerAssumption DEF CallHandler
  <2> QED
    BY <1>4, <2>1 DEF CallHandler, WorkerTypeOK
<1>5. CASE UseOfErased
  BY <1>5 DEF UseOfErased, Dies, WorkerTypeOK
<1> QED
  BY <1>1, <1>2, <1>3, <1>4, <1>5

LEMMA WorkerStep ==
    ASSUME SInv, Next
    PROVE  WorkerTypeOK'
<1> USE DEF SInv, TypeOK, tableVars, workerVars, codeVars
<1>1. CASE CreateHandler
  <2>1. /\ Head(ioitem) \in Session
        /\ Head(ioitem).conn \in Conns /\ iofd \in ClientFds
    BY <1>1, FetchedItem, ItemIsSession DEF CreateHandler, LocalsOK, ServerTypeOK, Item
  <2>2. handlerTable' \in PartialFn(ClientFds, Conns)
    BY <1>1, <2>1, EmplaceType DEF CreateHandler, WorkerTypeOK
  <2>3. cctx' \in [fd : ClientFds \union {ListenFd}, freed : BOOLEAN]
    <3>1. CASE UNCHANGED cctx
      BY <3>1 DEF WorkerTypeOK
    <3>2. CASE cctx' = [fd |-> iofd, freed |-> TRUE]
      BY <2>1, <3>2
    <3>3. QED
      BY <1>1, <3>1, <3>2 DEF CreateHandler
  <2>5. wnode' \in Session
    BY <1>1, <2>1 DEF CreateHandler, WorkerTypeOK
  <2>4. QED
    BY <1>1, <2>2, <2>3, <2>5 DEF CreateHandler, WorkerTypeOK
<1>2. CASE ClientEvent
  <2>1. CASE /\ closeClient(iofd)
             /\ UNCHANGED <<wpc, witem, wnode, wctx, wleft, handlerTable, inactive>>
    BY <2>1, CloseClientWorker DEF WorkerTypeOK
  <2>2. CASE UNCHANGED <<workerVars, handlerTable, inactive>>
    BY <2>2 DEF WorkerTypeOK
  <2>3. QED
    BY <1>2, <2>1, <2>2 DEF ClientEvent, ContextNotFound, ClientHungUp, ClientFaulty,
                            ClientReady, ClientIdle, Dies
<1>3. CASE DestroyContext
  BY <1>3, WithoutType DEF DestroyContext, destroyContext, WorkerTypeOK
<1>4. CASE EpollWait \/ AcceptClient \/ (\E fd \in ClientFds : LockTable(fd))
           \/ ReadEventFd \/ FetchOut \/ Deliver
  <2>1. UNCHANGED <<workerVars, handlerTable, inactive>>
    BY <1>4 DEF EpollWait, AcceptClient, LockTable, ReadEventFd, FetchOut, Deliver, Dies
  <2>2. QED
    BY <2>1 DEF WorkerTypeOK
<1>5. CASE WorkerFetch \/ FirstIsActive \/ EraseNode \/ CallHandler \/ UseOfErased
  BY <1>5, FetchWorker
<1>6. CASE Respond
  BY <1>6 DEF Respond, writeFrame, WorkerTypeOK
<1>7. CASE Notify \/ CloseClose \/ CloseDel
  BY <1>7 DEF Notify, CloseClose, CloseDel, WorkerTypeOK
<1>8. CASE EndFrame
  <2>1. wctx.conn \in Conns
    BY <1>8 DEF EndFrame, LocalsOK, Called, Item
  <2>2. QED
    BY <1>8, <2>1 DEF EndFrame, WorkerTypeOK
<1>12. CASE SecondIsActive
  <2>1. NoSession \in Session
    BY DEF NoSession, Session
  <2>2. CASE WorkerIdle
    BY <1>12, <2>2, WorkerIdleType DEF SecondIsActive, WorkerTypeOK
  <2>3. CASE wpc' = "close" /\ wnode' = NoSession /\ UNCHANGED <<witem, wctx, wleft, cctx>>
    BY <1>12, <2>1, <2>3 DEF SecondIsActive, WorkerTypeOK
  <2>4. QED
    BY <1>12, <2>2, <2>3 DEF SecondIsActive, AfterFrame
<1>9. CASE CloseFind
  <2>1. CASE WorkerIdle
    BY <1>9, <2>1, WorkerIdleType DEF CloseFind, WorkerTypeOK
  <2>2. CASE /\ Head(witem).fd \in DOMAIN fdInfoTable /\ wpc' = "wclose"
             /\ cctx' = [fd |-> Head(witem).fd, freed |-> FALSE]
             /\ UNCHANGED <<witem, wnode, wctx, wleft>>
    <3>1. Head(witem).fd \in ClientFds
      BY <2>2, ValueType DEF ServerTypeOK
    <3>2. QED
      BY <1>9, <2>2, <3>1 DEF CloseFind, WorkerTypeOK
  <2>3. QED
    BY <1>9, <2>1, <2>2 DEF CloseFind
<1>10. CASE DestroyHandler
  BY <1>10, WorkerIdleType, WithoutType DEF DestroyHandler, WorkerTypeOK
<1>11. ASSUME NEW c \in Conns, Client(c) PROVE WorkerTypeOK'
  BY <1>11 DEF Client, Connect, Request, Leave, Drain, WorkerTypeOK
<1>13. QED
  BY <1>1, <1>2, <1>3, <1>4, <1>5, <1>6, <1>7, <1>8, <1>9, <1>10, <1>11, <1>12
     DEF Next, IO, Worker

-----------------------------------------------------------------------------
(* The locals. *)

LEMMA IoLocals ==
    ASSUME SInv, IO
    PROVE  LocalsOK'
<1> USE DEF SInv, TypeOK, LocalsOK, kernelVars, queueVars, workerVars, tableVars, ioVars
<1>1. CASE EpollWait
  <2>1. DOMAIN batch' = Ready
    BY <1>1 DEF EpollWait
  <2>2. ListenFd \in Ready => backlog # <<>>
    BY ServerAssumption DEF Ready, KernelTypeOK
  <2>3. EventFd \in Ready => eventFdOut > 0
    BY ServerAssumption DEF Ready, KernelTypeOK
  <2>4. QED
    BY <1>1, <2>1, <2>2, <2>3 DEF EpollWait
<1>2. CASE AcceptClient
  <2>1. ListenFd \notin DOMAIN batch' /\ DOMAIN batch' \subseteq DOMAIN batch
    BY <1>2, WithoutDomain DEF AcceptClient
  <2>2. CASE acceptFails(Head(backlog))
    BY <1>2, <2>1, <2>2 DEF AcceptClient, AtEvent, acceptFails
  <2>3. ASSUME NEW fd \in ClientFds, iopc' = "create", iofd' = fd,
               ioitem' = <<[fd |-> fd, conn |-> Head(backlog)]>>
        PROVE  LocalsOK'
    BY <1>2, <2>1, <2>3 DEF AcceptClient
  <2>4. QED
    BY <1>2, <2>2, <2>3 DEF AcceptClient
<1>3. CASE CreateHandler
  <2>1. Head(ioitem) \in Item
    BY <1>3, FetchedItem DEF CreateHandler, ServerTypeOK
  <2> QED
    BY <1>3, <2>1 DEF CreateHandler
<1>4. ASSUME NEW fd \in ClientFds, LockTable(fd) PROVE LocalsOK'
  BY <1>4 DEF LockTable
<1>5. ASSUME EndEvent, UNCHANGED <<backlog, eventFdOut, wpc, witem, wnode, wctx>>
      PROVE  LocalsOK'
  <2>1. DOMAIN batch' \subseteq DOMAIN batch
    BY <1>5, WithoutDomain DEF EndEvent
  <2>2. QED
    BY <1>5, <2>1 DEF EndEvent
<1>6. CASE ClientEvent
  <2>1. CASE closeClient(iofd) /\ UNCHANGED <<backlog, eventFdOut, wpc, witem, wnode, wctx>>
    BY <1>6, <2>1 DEF ClientEvent, closeClient
  <2>2. CASE Dies
    BY <2>2 DEF Dies
  <2>3. QED
    BY <1>5, <1>6, <2>1, <2>2 DEF ClientEvent, ContextNotFound, ClientHungUp, ClientFaulty,
                                  ClientReady, ClientIdle
<1>7. CASE DestroyContext
  BY <1>5, <1>7 DEF DestroyContext
<1>8. CASE ReadEventFd
  <2>1. DOMAIN batch' = DOMAIN batch \ {EventFd}
    BY <1>8, WithoutDomain DEF ReadEventFd
  <2>2. QED
    BY <1>8, <2>1 DEF ReadEventFd
<1>9. CASE FetchOut
  BY <1>9 DEF FetchOut, TakeItem
<1>10. CASE Deliver
  BY <1>10 DEF Deliver, DropItem, SendItem, Dies
<1>11. QED
  BY <1>1, <1>2, <1>3, <1>4, <1>6, <1>7, <1>8, <1>9, <1>10 DEF IO

LEMMA WorkerLocals ==
    ASSUME SInv, Worker
    PROVE  LocalsOK'
<1> USE DEF SInv, TypeOK, LocalsOK, kernelVars, queueVars, workerVars, ioVars
<1>1. CASE WorkerFetch
  <2>1. CASE FindHandler(Head(wqIn))
    <3>1. handlerTable[Head(wqIn).fd] \in Conns
      BY <2>1, ValueType DEF FindHandler, WorkerTypeOK
    <3>2. Head(wqIn) \in Item
      BY <1>1, FetchedItem DEF WorkerFetch, ServerTypeOK
    <3>3. wnode' \in Item
      BY <2>1, <3>1, <3>2 DEF FindHandler, Item
    <3>4. QED
      BY <1>1, <2>1, <3>3 DEF WorkerFetch, FindHandler, Referring, Called
  <2>2. QED
    BY <1>1, <2>1 DEF WorkerFetch, SkipItem
<1>2. CASE Respond
  BY <1>2 DEF Respond, writeFrame, Referring, Called
<1>3. CASE Notify
  <2>1. eventFdOut' > 0
    BY <1>3 DEF Notify, ServerTypeOK
  <2>2. QED
    BY <1>3, <2>1 DEF Notify, Referring, Called
<1>4. CASE FirstIsActive \/ EraseNode \/ CallHandler \/ UseOfErased
  BY <1>4 DEF FirstIsActive, EraseNode, CallHandler, UseOfErased, WorkerIdle, Dies, Referring,
              Called
<1>5. CASE EndFrame \/ SecondIsActive
  BY <1>5 DEF EndFrame, SecondIsActive, AfterFrame, WorkerIdle, Referring, Called
<1>6. CASE CloseFind \/ CloseClose \/ CloseDel \/ DestroyHandler
  BY <1>6 DEF CloseFind, CloseClose, CloseDel, DestroyHandler, WorkerIdle, Referring, Called
<1>7. QED
  BY <1>1, <1>2, <1>3, <1>4, <1>5, <1>6 DEF Worker

LEMMA ClientLocals ==
    ASSUME SInv, NEW c \in Conns, Client(c)
    PROVE  LocalsOK'
<1> USE DEF SInv, LocalsOK, queueVars, workerVars, ioVars, codeVars
<1>1. CASE Connect(c)
  <2>1. backlog' # <<>>
    BY <1>1, AppendProperties DEF Connect, TypeOK, KernelTypeOK
  <2>2. QED
    BY <1>1, <2>1 DEF Connect
<1>2. CASE Request(c) \/ Leave(c) \/ Drain(c)
  BY <1>2 DEF Request, Leave, Drain
<1>3. QED
  BY <1>1, <1>2 DEF Client

-----------------------------------------------------------------------------
(* The theorems. *)

LEMMA SInvInit == Init => SInv
<1> SUFFICES ASSUME Init PROVE SInv
  OBVIOUS
<1> USE DEF Init
<1>1. <<>> \in Seq(Conns) /\ <<>> \in Seq(Item)
  BY EmptySeq
<1>2. DOMAIN <<>> = {}
  OBVIOUS
<1>3. ASSUME NEW S, NEW T PROVE <<>> \in PartialFn(S, T)
  <2>1. <<>> \in [{} -> T]
    OBVIOUS
  <2>2. QED
    BY <2>1 DEF PartialFn
<1>4. KernelTypeOK
  BY <1>1, <1>3 DEF KernelTypeOK
<1>5. ServerTypeOK
  BY <1>1, <1>2, <1>3 DEF ServerTypeOK
<1>9. NoSession \in Session
  BY DEF NoSession, Session
<1>6. WorkerTypeOK
  BY <1>1, <1>3, <1>9 DEF WorkerTypeOK
<1>7. LocalsOK
  BY <1>2 DEF LocalsOK, Referring, Called
<1>8. QED
  BY <1>4, <1>5, <1>6, <1>7 DEF SInv, TypeOK

LEMMA SInvStep == SInv /\ [Next]_vars => SInv'
<1> SUFFICES ASSUME SInv, [Next]_vars PROVE SInv'
  OBVIOUS
<1>1. CASE Next
  <2>1. TypeOK'
    BY <1>1, KernelStep, ServerStep, WorkerStep DEF TypeOK
  <2>2. LocalsOK'
    BY <1>1, IoLocals, WorkerLocals, ClientLocals DEF Next
  <2>3. QED
    BY <2>1, <2>2 DEF SInv
<1>2. CASE UNCHANGED vars
  BY <1>2, SMTT(40)
     DEF vars, kernelVars, historyVars, ioVars, workerVars, tableVars, queueVars, SInv,
              TypeOK, KernelTypeOK, ServerTypeOK, WorkerTypeOK, LocalsOK
<1>3. QED
  BY <1>1, <1>2

LEMMA SInvAlways == Spec => []SInv
  BY SInvInit, SInvStep, PTL DEF Spec

\* Type correctness; the locals each step reads are there, the eventfd is never
\* read at zero, and the mutex is held exactly inside the critical section.
THEOREM TypeCorrect == Spec => []TypeOK
  BY SInvAlways, PTL DEF SInv

\* Every response in wqOut has exactly one notification on its way, for any number
\* of connections, of responses per frame and of frames, in every interleaving of
\* the two threads: FrameSink::writeFrame adds an item and then a notification, the
\* I/O thread takes a notification and then an item.
THEOREM NotificationsAccounted == Spec => []NotificationAccounting
<1> USE DEF NotificationAccounting, ioVars, workerVars, queueVars, codeVars
<1>1. Init => NotificationAccounting
  BY DEF Init
<1>2. NotificationAccounting /\ SInv /\ [Next]_vars => NotificationAccounting'
  <2> SUFFICES ASSUME NotificationAccounting, SInv, [Next]_vars
               PROVE  NotificationAccounting'
    OBVIOUS
  <2>0. /\ wqOut \in Seq(Item) /\ eventFdOut \in Nat
        /\ Len(wqOut) \in Nat
    BY DEF SInv, TypeOK, ServerTypeOK
  <2>1. CASE Respond
    <3>1. Len(wqOut') = Len(wqOut) + 1
      BY <2>0, <2>1, AppendProperties DEF Respond, writeFrame
    <3>2. QED
      BY <2>0, <2>1, <3>1 DEF Respond, writeFrame
  <2>2. CASE Notify
    BY <2>0, <2>2 DEF Notify
  <2>3. CASE ReadEventFd
    BY <2>0, <2>3 DEF ReadEventFd, AtEvent
  <2>4. CASE FetchOut
    <3>1. wqOut # <<>>
      BY <2>0, <2>4 DEF FetchOut
    <3>2. Len(wqOut') = Len(wqOut) - 1
      BY <2>0, <2>4, <3>1, FetchedItem DEF FetchOut, TakeItem
    <3>3. QED
      BY <2>0, <2>4, <3>1, <3>2 DEF FetchOut, TakeItem
  <2>5. ASSUME UNCHANGED <<wqOut, eventFdOut>>,
               (iopc' = "fetch") <=> (iopc = "fetch"), (wpc' = "notify") <=> (wpc = "notify")
        PROVE  NotificationAccounting'
    BY <2>5
  <2>6. CASE EpollWait \/ AcceptClient \/ CreateHandler \/ (\E fd \in ClientFds : LockTable(fd))
             \/ DestroyContext \/ Deliver
    BY <2>5, <2>6 DEF EpollWait, AcceptClient, CreateHandler, LockTable, DestroyContext, Deliver,
                      AtEvent, acceptFails, EndEvent, DropItem, SendItem, Dies
  <2>7. CASE ClientEvent
    BY <2>5, <2>7 DEF ClientEvent, ContextNotFound, ClientHungUp, ClientFaulty, ClientReady,
                      ClientIdle, EndEvent, closeClient, Dies
  <2>8. CASE \/ WorkerFetch \/ FirstIsActive \/ EraseNode \/ CallHandler \/ UseOfErased
             \/ EndFrame \/ SecondIsActive \/ CloseFind \/ CloseClose \/ CloseDel
             \/ DestroyHandler
    BY <2>5, <2>8 DEF WorkerFetch, SkipItem, FindHandler, FirstIsActive, EraseNode, CallHandler,
                      UseOfErased, EndFrame, SecondIsActive, AfterFrame, WorkerIdle, CloseFind,
                      CloseClose, CloseDel, DestroyHandler, Dies
  <2>9. ASSUME NEW c \in Conns, Client(c) PROVE NotificationAccounting'
    BY <2>5, <2>9 DEF Client, Connect, Request, Leave, Drain
  <2>10. CASE UNCHANGED vars
    BY <2>5, <2>10 DEF vars
  <2>11. QED
    BY <2>1, <2>2, <2>3, <2>4, <2>6, <2>7, <2>8, <2>9, <2>10 DEF Next, IO, Worker
<1>3. QED
  BY <1>1, <1>2, SInvAlways, PTL DEF Spec

-----------------------------------------------------------------------------
(* The tables of a Server whose sessions do not end by themselves and whose  *)
(* epoll_ctl does not fail, so that only the I/O thread closes connections.  *)

\* The sessions are never ended, so the worker closes nothing.
WorkerClosesNot ==
    inactive = {} /\ wpc \in {"idle", "found", "call", "handling", "notify", "handled"}

\* TablesAgree, also between accept and createHandler and inside closeClient.
Registries ==
    /\ epollSet = DOMAIN sockOf
    /\ DOMAIN fdInfoTable = DOMAIN sockOf \ (IF iopc = "create" THEN {iofd} ELSE {})
    /\ DOMAIN handlerTable = DOMAIN fdInfoTable \union (IF iopc = "destroy" THEN {iofd} ELSE {})
    /\ \A fd \in DOMAIN fdInfoTable :
        fdInfoTable[fd].conn = sockOf[fd] /\ handlerTable[fd] = sockOf[fd]
    /\ iopc = "create" =>
        iofd \in DOMAIN sockOf /\ Head(ioitem) = [fd |-> iofd, conn |-> sockOf[iofd]]
    /\ iopc = "destroy" => iofd \notin DOMAIN sockOf

Quiet(fd) == rx[sockOf[fd]] = 0 /\ peer[sockOf[fd]] = "open"

\* What an event in the batch still says of its descriptor when it is looked at.
Current(fd) ==
    /\ fd \in DOMAIN sockOf
    /\ "HUP" \in batch[fd] => peer[sockOf[fd]] = "reset"
    /\ "IN" \notin batch[fd] => Quiet(fd) \/ fd \in edge

BatchCurrent ==
    /\ iopc = "client" => iofd \in DOMAIN batch
    /\ \A fd \in DOMAIN batch \cap ClientFds : (iopc = "destroy" /\ fd = iofd) \/ Current(fd)

\* A connection is accepted once, after it connected.
ConnsOnce ==
    /\ \A i \in DOMAIN backlog : peer[backlog[i]] # "none"
    /\ \A fd \in DOMAIN sockOf : peer[sockOf[fd]] # "none"
    /\ \A i, j \in DOMAIN backlog : backlog[i] = backlog[j] => i = j
    /\ \A fd \in DOMAIN sockOf, i \in DOMAIN backlog : sockOf[fd] # backlog[i]
    /\ \A fd, g \in DOMAIN sockOf : sockOf[fd] = sockOf[g] => fd = g

RInv ==
    SInv /\ WorkerClosesNot /\ Registries /\ BatchCurrent /\ NoStrandedInput /\ ConnsOnce

-----------------------------------------------------------------------------
(* Helpers. *)

LEMMA WithoutValue ==
    ASSUME NEW f, NEW x
    PROVE  /\ DOMAIN Without(f, x) = DOMAIN f \ {x}
           /\ \A y \in DOMAIN f \ {x} : Without(f, x)[y] = f[y]
  BY DEF Without, Restrict

LEMMA SockConn ==
    ASSUME KernelTypeOK, NEW fd \in DOMAIN sockOf
    PROVE  sockOf[fd] \in Conns /\ fd \in ClientFds
  BY ValueType DEF KernelTypeOK

LEMMA InfoType ==
    ASSUME ServerTypeOK, NEW fd \in DOMAIN fdInfoTable
    PROVE  fdInfoTable[fd] \in [conn : Conns, tx : Conns \union {NoConn}]
<1>1. PICK D \in SUBSET ClientFds :
        fdInfoTable \in [D -> [conn : Conns, tx : Conns \union {NoConn}]]
  BY DEF ServerTypeOK, PartialFn
<1>2. QED
  BY <1>1

\* The end of an event whose input was read, or which another edge will follow.
LEMMA EventOver ==
    ASSUME RInv, EndEvent, iopc \in {"client", "destroy"},
           UNCHANGED <<sockOf, rx, peer>>, edge \subseteq edge',
           iofd \in DOMAIN sockOf => Quiet(iofd) \/ iofd \in edge'
    PROVE  BatchCurrent' /\ NoStrandedInput'
<1>1. DOMAIN batch' = DOMAIN batch \ {iofd} /\ \A fd \in DOMAIN batch' : batch'[fd] = batch[fd]
  BY WithoutValue DEF EndEvent
<1>2. BatchCurrent'
  BY <1>1 DEF RInv, BatchCurrent, Current, Quiet, EndEvent
<1>3. NoStrandedInput'
  BY <1>1 DEF RInv, NoStrandedInput, Quiet
<1>4. QED
  BY <1>2, <1>3

\* Whatever happens to connection c raises an edge.
LEMMA EdgeRaised ==
    ASSUME RInv, NEW c \in Conns, RaiseEdge(c),
           \A d \in Conns \ {c} : rx'[d] = rx[d] /\ peer'[d] = peer[d],
           peer[c] = "reset" => peer'[c] = "reset",
           UNCHANGED <<sockOf, epollSet>>
    PROVE  /\ \A fd \in DOMAIN sockOf :
                (rx'[sockOf[fd]] > 0 \/ peer'[sockOf[fd]] # "open") =>
                    fd \in edge' \union DOMAIN batch
           /\ \A fd \in DOMAIN batch \cap ClientFds :
                Current(fd) =>
                    /\ "HUP" \in batch[fd] => peer'[sockOf[fd]] = "reset"
                    /\ "IN" \notin batch[fd] =>
                        (rx'[sockOf[fd]] = 0 /\ peer'[sockOf[fd]] = "open") \/ fd \in edge'
<1>1. \A fd \in DOMAIN sockOf : sockOf[fd] \in Conns
  BY SockConn DEF RInv, SInv, TypeOK
<1>2. \A fd \in DOMAIN sockOf : sockOf[fd] = c => fd \in edge'
  BY DEF RInv, Registries, RaiseEdge, FdsOf
<1>3. edge \subseteq edge'
  BY DEF RaiseEdge
<1>4. QED
  BY <1>1, <1>2, <1>3 DEF RInv, NoStrandedInput, Current, Quiet

-----------------------------------------------------------------------------
(* The steps of the I/O thread. *)

\* Steps that leave tables and connections alone and take nothing of a client's
\* out of the batch.
LEMMA BetweenEvents ==
    ASSUME RInv, UNCHANGED <<sockOf, epollSet, edge, peer, rx, fdInfoTable, handlerTable>>,
           iopc \notin {"create", "destroy"}, iopc' \notin {"create", "destroy"},
           iopc' = "client" => iofd' \in DOMAIN batch',
           DOMAIN batch' \cap ClientFds = DOMAIN batch \cap ClientFds,
           \A fd \in DOMAIN batch \cap ClientFds : batch'[fd] = batch[fd]
    PROVE  Registries' /\ BatchCurrent' /\ NoStrandedInput'
<1>1. Registries'
  BY DEF RInv, Registries
<1>2. BatchCurrent'
  BY DEF RInv, BatchCurrent, Current, Quiet
<1>3. NoStrandedInput'
  <2>1. DOMAIN sockOf \subseteq ClientFds
    BY SockConn DEF RInv, SInv, TypeOK
  <2>2. QED
    BY <2>1 DEF RInv, NoStrandedInput
<1>4. QED
  BY <1>1, <1>2, <1>3

LEMMA WaitKeeps ==
    ASSUME RInv, EpollWait
    PROVE  Registries' /\ BatchCurrent' /\ NoStrandedInput'
<1>1. /\ UNCHANGED <<sockOf, epollSet, peer, rx, fdInfoTable, handlerTable, iopc, iofd, ioitem>>
      /\ iopc = "loop" /\ DOMAIN batch' = Ready /\ edge' = {}
      /\ \A fd \in Ready \cap ClientFds : batch'[fd] = Readiness(fd)
  BY DEF EpollWait, tableVars, ioVars
<1>2. ListenFd \notin ClientFds /\ EventFd \notin ClientFds
  BY ServerAssumption
<1>3. Ready \cap ClientFds = {f \in edge : Readiness(f) # {}}
  BY <1>2 DEF Ready, RInv, SInv, TypeOK, KernelTypeOK
<1>4. \A fd \in DOMAIN sockOf :
        /\ "HUP" \in Readiness(fd) => peer[sockOf[fd]] = "reset"
        /\ "IN" \in Readiness(fd) <=> rx[sockOf[fd]] > 0 \/ peer[sockOf[fd]] # "open"
  BY DEF Readiness
<1>5. Registries'
  BY <1>1 DEF RInv, Registries
<1>6. edge \subseteq DOMAIN sockOf
  BY DEF RInv, SInv, TypeOK, KernelTypeOK, Registries
<1>7. \A fd \in DOMAIN sockOf : sockOf[fd] \in Conns /\ rx[sockOf[fd]] \in Nat
  BY SockConn DEF RInv, SInv, TypeOK, KernelTypeOK
<1>8. BatchCurrent'
  BY <1>1, <1>3, <1>4, <1>6, <1>7 DEF BatchCurrent, Current, Quiet
<1>9. NoStrandedInput'
  <2>1. DOMAIN batch = {}
    BY DEF EpollWait
  <2>2. \A fd \in DOMAIN sockOf :
            (rx[sockOf[fd]] > 0 \/ peer[sockOf[fd]] # "open") => fd \in Ready
    BY <1>4, <2>1 DEF RInv, NoStrandedInput, Ready
  <2>3. QED
    BY <1>1, <2>2 DEF NoStrandedInput
<1>10. QED
  BY <1>5, <1>8, <1>9

LEMMA AcceptKeeps ==
    ASSUME RInv, ~AddMayFail, AcceptClient
    PROVE  Registries' /\ BatchCurrent' /\ NoStrandedInput'
<1>0. ListenFd \notin ClientFds
  BY ServerAssumption
<1>1. /\ iopc = "loop" /\ UNCHANGED <<rx, fdInfoTable, handlerTable>>
      /\ DOMAIN batch' = DOMAIN batch \ {ListenFd}
      /\ \A fd \in DOMAIN batch \cap ClientFds : batch'[fd] = batch[fd]
  BY <1>0, WithoutValue DEF AcceptClient, AtEvent, tableVars
<1>2. DOMAIN batch' \cap ClientFds = DOMAIN batch \cap ClientFds
  BY <1>0, <1>1
<1>3. CASE acceptFails(Head(backlog))
  BY <1>1, <1>2, <1>3, BetweenEvents DEF acceptFails
<1>4. ASSUME NEW fd \in ClientFds, LowestFree(fd), acceptAdds(Head(backlog), fd),
             iopc' = "create", iofd' = fd,
             ioitem' = <<[fd |-> fd, conn |-> Head(backlog)]>>
      PROVE  Registries' /\ BatchCurrent' /\ NoStrandedInput'
  <2>1. fd \notin DOMAIN sockOf
    BY <1>4 DEF LowestFree
  <2>2. /\ DOMAIN sockOf' = DOMAIN sockOf \union {fd} /\ sockOf'[fd] = Head(backlog)
        /\ \A g \in DOMAIN sockOf : sockOf'[g] = sockOf[g]
        /\ epollSet' = epollSet \union {fd} /\ edge' = edge \union {fd} /\ UNCHANGED peer
    BY <1>4, <2>1 DEF acceptAdds, Emplace
  <2>3. Head(ioitem') = [fd |-> fd, conn |-> Head(backlog)]
    BY <1>4
  <2>4. Registries'
    BY <1>1, <1>4, <2>1, <2>2, <2>3 DEF RInv, Registries
  <2>5. BatchCurrent'
    BY <1>1, <1>2, <1>4, <2>1, <2>2 DEF RInv, BatchCurrent, Current, Quiet
  <2>6. NoStrandedInput'
    <3>1. DOMAIN sockOf \subseteq ClientFds
      BY SockConn DEF RInv, SInv, TypeOK
    <3>2. QED
      BY <1>1, <1>2, <2>2, <3>1 DEF RInv, NoStrandedInput
  <2>7. QED
    BY <2>4, <2>5, <2>6
<1>5. QED
  BY <1>3, <1>4 DEF AcceptClient, acceptAddFails

LEMMA CreateKeeps ==
    ASSUME RInv, CreateHandler
    PROVE  Registries' /\ BatchCurrent' /\ NoStrandedInput'
<1>1. /\ iopc = "create" /\ iopc' = "loop"
      /\ UNCHANGED <<sockOf, epollSet, edge, peer, rx, batch>>
      /\ fdInfoTable' = Emplace(fdInfoTable, iofd, [conn |-> Head(ioitem).conn, tx |-> NoConn])
      /\ handlerTable' = Emplace(handlerTable, iofd, Head(ioitem).conn)
  BY DEF CreateHandler, kernelVars
<1>2. Registries'
  <2>1. iofd \notin DOMAIN fdInfoTable /\ iofd \notin DOMAIN handlerTable
    BY <1>1 DEF RInv, Registries
  <2>2. /\ DOMAIN fdInfoTable' = DOMAIN fdInfoTable \union {iofd}
        /\ DOMAIN handlerTable' = DOMAIN handlerTable \union {iofd}
        /\ fdInfoTable'[iofd].conn = Head(ioitem).conn
        /\ handlerTable'[iofd] = Head(ioitem).conn
        /\ \A fd \in DOMAIN fdInfoTable : fdInfoTable'[fd] = fdInfoTable[fd]
        /\ \A fd \in DOMAIN handlerTable : handlerTable'[fd] = handlerTable[fd]
    BY <1>1, <2>1 DEF Emplace
  <2>3. Head(ioitem).conn = sockOf[iofd] /\ iofd \in DOMAIN sockOf
    BY <1>1 DEF RInv, Registries
  <2>4. QED
    BY <1>1, <2>2, <2>3 DEF RInv, Registries
<1>3. BatchCurrent'
  <2>1. UNCHANGED <<sockOf, edge, peer, rx, batch>> /\ iopc = "create" /\ iopc' = "loop"
    BY <1>1
  <2> QED
    BY <2>1 DEF RInv, BatchCurrent, Current, Quiet
<1>4. NoStrandedInput'
  BY <1>1 DEF RInv, NoStrandedInput
<1>5. QED
  BY <1>2, <1>3, <1>4

\* closeClient(ConnectionContext&), whatever was read before.
LEMMA CloseKeeps ==
    ASSUME RInv, iopc = "client", iofd \in DOMAIN sockOf, closeClient(iofd),
           \A fd \in DOMAIN sockOf \ {iofd} : rx'[sockOf[fd]] <= rx[sockOf[fd]],
           \A c \in Conns : rx'[c] \in Nat,
           UNCHANGED <<peer, handlerTable>>
    PROVE  Registries' /\ BatchCurrent' /\ NoStrandedInput'
<1>1. /\ DOMAIN sockOf' = DOMAIN sockOf \ {iofd}
      /\ \A fd \in DOMAIN sockOf' : sockOf'[fd] = sockOf[fd]
      /\ DOMAIN fdInfoTable' = DOMAIN fdInfoTable \ {iofd}
      /\ \A fd \in DOMAIN fdInfoTable' : fdInfoTable'[fd] = fdInfoTable[fd]
      /\ epollSet' = epollSet \ {iofd} /\ edge' = edge \ {iofd}
      /\ iopc' = "destroy" /\ UNCHANGED <<iofd, batch>>
  BY WithoutValue DEF closeClient, CloseFd
<1>2. Registries'
  BY <1>1 DEF RInv, Registries
<1>3. \A fd \in DOMAIN sockOf : sockOf[fd] \in Conns /\ rx[sockOf[fd]] \in Nat
  BY SockConn DEF RInv, SInv, TypeOK, KernelTypeOK
<1>4. BatchCurrent'
  BY <1>1, <1>3 DEF RInv, BatchCurrent, Current, Quiet
<1>5. NoStrandedInput'
  BY <1>1, <1>3 DEF RInv, NoStrandedInput
<1>6. QED
  BY <1>2, <1>4, <1>5

LEMMA ReadyKeeps ==
    ASSUME RInv, KernelTypeOK', iopc = "client", ClientReady
    PROVE  Registries' /\ BatchCurrent' /\ NoStrandedInput'
<1> DEFINE c == sockOf[iofd]
<1>1. /\ iofd \in DOMAIN sockOf /\ c \in Conns /\ iofd \in DOMAIN batch
      /\ iofd \in ClientFds /\ peer[c] \in {"open", "fin"} /\ Current(iofd)
  <2>1. iofd \in DOMAIN sockOf /\ peer[c] # "reset"
    BY DEF ClientReady, Faulty
  <2>2. c \in Conns /\ iofd \in ClientFds
    BY <2>1, SockConn DEF RInv, SInv, TypeOK
  <2>3. peer[c] \in {"none", "open", "fin", "reset"} /\ peer[c] # "none"
    BY <2>1, <2>2 DEF RInv, SInv, TypeOK, KernelTypeOK, ConnsOnce
  <2>4. QED
    BY <2>1, <2>2, <2>3 DEF RInv, BatchCurrent
<1>2. /\ \A d \in Conns : rx'[d] <= rx[d] /\ rx'[d] \in Nat /\ rx[d] \in Nat
      /\ "IN" \in batch[iofd] => rx'[c] = 0
      /\ "IN" \notin batch[iofd] => rx' = rx
      /\ UNCHANGED handlerTable
  <2>1. rx \in [Conns -> Nat]
    BY DEF RInv, SInv, TypeOK, KernelTypeOK
  <2>2. /\ "IN" \in batch[iofd] => rx' = [rx EXCEPT ![c] = 0]
        /\ "IN" \notin batch[iofd] => rx' = rx
        /\ UNCHANGED handlerTable
    BY DEF ClientReady, readAll
  <2>3. QED
    BY <1>1, <2>1, <2>2
<1>3. CASE "IN" \in batch[iofd] /\ isReadEof(c)
  <2>1. closeClient(iofd) /\ UNCHANGED peer
    BY <1>3 DEF ClientReady
  <2>2. \A fd \in DOMAIN sockOf : sockOf[fd] \in Conns
    BY SockConn DEF RInv, SInv, TypeOK
  <2>3. QED
    BY <1>1, <1>2, <2>1, <2>2, CloseKeeps
<1>4. CASE ~("IN" \in batch[iofd] /\ isReadEof(c))
  <2>1. ClientOutput(c) /\ EndEvent /\ UNCHANGED <<sockOf, epollSet>>
    BY <1>4 DEF ClientReady
  <2>2. /\ DOMAIN batch' = DOMAIN batch \ {iofd} /\ iopc' = "loop"
        /\ \A fd \in DOMAIN batch' : batch'[fd] = batch[fd]
    BY <2>1, WithoutValue DEF EndEvent
  <2>3. Registries'
    <3>1. /\ DOMAIN fdInfoTable' = DOMAIN fdInfoTable
          /\ \A fd \in DOMAIN fdInfoTable : fdInfoTable'[fd].conn = fdInfoTable[fd].conn
      <4>1. CASE UNCHANGED fdInfoTable
        BY <4>1
      <4>2. CASE fdInfoTable' = [fdInfoTable EXCEPT ![iofd].tx = NoConn]
        <5>1. iofd \in DOMAIN fdInfoTable
          BY <1>1 DEF RInv, Registries
        <5>2. fdInfoTable[iofd] \in [conn : Conns, tx : Conns \union {NoConn}]
          BY <5>1, InfoType DEF RInv, SInv, TypeOK
        <5>3. QED
          BY <4>2, <5>1, <5>2
      <4>3. QED
        BY <2>1, <4>1, <4>2 DEF ClientOutput
    <3>2. QED
      BY <1>2, <2>1, <2>2, <3>1 DEF RInv, Registries
  <2>4. \/ UNCHANGED <<peer, edge>>
        \/ peer[c] = "fin" /\ peer' = [peer EXCEPT ![c] = "reset"] /\ RaiseEdge(c)
    BY <2>1 DEF ClientOutput
  <2>5. /\ edge \subseteq edge'
        /\ \A fd \in DOMAIN sockOf : peer[sockOf[fd]] = "reset" => peer'[sockOf[fd]] = "reset"
        /\ \A fd \in DOMAIN sockOf : peer'[sockOf[fd]] # peer[sockOf[fd]] => fd \in edge'
    <3>1. CASE UNCHANGED <<peer, edge>>
      BY <3>1
    <3>2. CASE peer[c] = "fin" /\ peer' = [peer EXCEPT ![c] = "reset"] /\ RaiseEdge(c)
      <4>1. peer \in [Conns -> {"none", "open", "fin", "reset"}]
        BY DEF RInv, SInv, TypeOK, KernelTypeOK
      <4>2. \A fd \in DOMAIN sockOf : sockOf[fd] \in Conns
        BY SockConn DEF RInv, SInv, TypeOK
      <4>3. QED
        BY <1>1, <3>2, <4>1, <4>2 DEF RaiseEdge, FdsOf, RInv, Registries
    <3>3. QED
      BY <2>4, <3>1, <3>2
  <2>6. \A fd \in DOMAIN sockOf : sockOf[fd] \in Conns
    BY SockConn DEF RInv, SInv, TypeOK
  <2>7. (rx'[c] = 0 /\ peer'[c] = "open") \/ iofd \in edge'
    BY <1>1, <1>2, <1>4, <2>5 DEF isReadEof, Current, Quiet
  <2>8. BatchCurrent'
    BY <1>2, <2>1, <2>2, <2>5, <2>6 DEF RInv, BatchCurrent, Current, Quiet
  <2>9. NoStrandedInput'
    BY <1>2, <2>1, <2>2, <2>5, <2>6, <2>7 DEF RInv, NoStrandedInput
  <2>10. QED
    BY <2>3, <2>8, <2>9
<1>5. QED
  BY <1>3, <1>4

LEMMA EventKeeps ==
    ASSUME RInv, KernelTypeOK', ClientEvent
    PROVE  Registries' /\ BatchCurrent' /\ NoStrandedInput'
<1> USE DEF kernelVars, tableVars
<1>1. iopc = "client" /\ iofd \in DOMAIN batch /\ iofd \in ClientFds
  BY DEF ClientEvent, RInv, SInv, LocalsOK, BatchCurrent
<1>2. iofd \in DOMAIN sockOf /\ Current(iofd) /\ iofd \in DOMAIN fdInfoTable
  BY <1>1 DEF RInv, BatchCurrent, Current, Registries
<1>3. CASE ClientHungUp
  <2>1. \A fd \in DOMAIN sockOf : sockOf[fd] \in Conns /\ rx[sockOf[fd]] \in Nat
    BY SockConn DEF RInv, SInv, TypeOK, KernelTypeOK
  <2>2. \A d \in Conns : rx'[d] \in Nat
    BY DEF KernelTypeOK
  <2>3. QED
    BY <1>1, <1>2, <1>3, <2>1, <2>2, CloseKeeps DEF ClientHungUp
<1>4. CASE ClientFaulty
  BY <1>1, <1>4, BetweenEvents DEF ClientFaulty, Dies, ioVars
<1>5. CASE ClientIdle
  <2>1. iofd \in edge \/ Quiet(iofd)
    BY <1>2, <1>5 DEF ClientIdle, Current
  <2>2. BatchCurrent' /\ NoStrandedInput'
    BY <1>1, <1>5, <2>1, EventOver DEF ClientIdle
  <2>3. Registries'
    BY <1>1, <1>5 DEF ClientIdle, EndEvent, RInv, Registries
  <2>4. QED
    BY <2>2, <2>3
<1>6. QED
  BY <1>1, <1>2, <1>3, <1>4, <1>5, ReadyKeeps DEF ClientEvent, ContextNotFound

LEMMA DestroyKeeps ==
    ASSUME RInv, DestroyContext
    PROVE  Registries' /\ BatchCurrent' /\ NoStrandedInput'
<1>1. iopc = "destroy" /\ iofd \notin DOMAIN sockOf
  BY DEF DestroyContext, RInv, Registries
<1>2. BatchCurrent' /\ NoStrandedInput'
  BY <1>1, EventOver DEF DestroyContext, kernelVars
<1>3. /\ DOMAIN handlerTable' = DOMAIN handlerTable \ {iofd}
      /\ \A fd \in DOMAIN handlerTable' : handlerTable'[fd] = handlerTable[fd]
  BY WithoutValue DEF DestroyContext, destroyContext
<1>4. Registries'
  BY <1>1, <1>3 DEF DestroyContext, EndEvent, kernelVars, RInv, Registries
<1>5. QED
  BY <1>2, <1>4

LEMMA DeliverKeeps ==
    ASSUME RInv, Deliver
    PROVE  Registries' /\ BatchCurrent' /\ NoStrandedInput'
<1> DEFINE it == Head(ioitem)
           c == sockOf[it.fd]
<1>1. CASE DropItem(it) /\ UNCHANGED <<sockOf, epollSet, rx, batch, iofd, handlerTable>>
  BY <1>1, BetweenEvents DEF Deliver, DropItem
<1>2. CASE Dies
  BY <1>2, BetweenEvents DEF Deliver, Dies, kernelVars, ioVars, tableVars
<1>3. CASE /\ it.fd \in DOMAIN fdInfoTable /\ SendItem(it)
           /\ UNCHANGED <<sockOf, epollSet, rx, batch, iofd, handlerTable>>
  <2>1. iopc = "deliver" /\ iopc' = "loop"
    BY <1>3 DEF Deliver, SendItem
  <2>2. it.fd \in DOMAIN sockOf /\ c \in Conns
    BY <1>3, SockConn DEF RInv, SInv, TypeOK, Registries
  <2>3. Registries'
    <3>1. /\ DOMAIN fdInfoTable' = DOMAIN fdInfoTable
          /\ \A fd \in DOMAIN fdInfoTable : fdInfoTable'[fd].conn = fdInfoTable[fd].conn
      <4>1. fdInfoTable[it.fd] \in [conn : Conns, tx : Conns \union {NoConn}]
        BY <1>3, InfoType DEF RInv, SInv, TypeOK
      <4>2. \/ UNCHANGED fdInfoTable
            \/ fdInfoTable' = [fdInfoTable EXCEPT ![it.fd].tx = it.conn]
        BY <1>3 DEF SendItem
      <4>3. QED
        BY <1>3, <4>1, <4>2
    <3>2. QED
      BY <1>3, <2>1, <3>1 DEF RInv, Registries
  <2>4. CASE UNCHANGED <<peer, edge>>
    <3>1. BatchCurrent'
      BY <1>3, <2>1, <2>4 DEF RInv, BatchCurrent, Current, Quiet
    <3>2. NoStrandedInput'
      BY <1>3, <2>4 DEF RInv, NoStrandedInput
    <3>3. QED
      BY <2>3, <3>1, <3>2
  <2>5. CASE peer[c] = "fin" /\ peer' = [peer EXCEPT ![c] = "reset"] /\ RaiseEdge(c)
    <3>1. \A d \in Conns \ {c} : rx'[d] = rx[d] /\ peer'[d] = peer[d]
      BY <1>3, <2>5
    <3>2. /\ \A fd \in DOMAIN sockOf :
                (rx'[sockOf[fd]] > 0 \/ peer'[sockOf[fd]] # "open") =>
                    fd \in edge' \union DOMAIN batch
          /\ \A fd \in DOMAIN batch \cap ClientFds :
                Current(fd) =>
                    /\ "HUP" \in batch[fd] => peer'[sockOf[fd]] = "reset"
                    /\ "IN" \notin batch[fd] =>
                        (rx'[sockOf[fd]] = 0 /\ peer'[sockOf[fd]] = "open") \/ fd \in edge'
      BY <1>3, <2>2, <2>5, <3>1, EdgeRaised
    <3>3. BatchCurrent'
      BY <1>3, <2>1, <3>2 DEF RInv, BatchCurrent, Current, Quiet
    <3>4. NoStrandedInput'
      BY <1>3, <3>2 DEF NoStrandedInput
    <3>5. QED
      BY <2>3, <3>3, <3>4
  <2>6. QED
    BY <1>3, <2>4, <2>5 DEF SendItem
<1>4. QED
  BY <1>1, <1>2, <1>3 DEF Deliver

LEMMA IOKeeps ==
    ASSUME RInv, KernelTypeOK', ~AddMayFail, IO
    PROVE  Registries' /\ BatchCurrent' /\ NoStrandedInput'
<1>1. CASE \E fd \in ClientFds : LockTable(fd)
  BY <1>1, BetweenEvents DEF LockTable, AtEvent, kernelVars, tableVars
<1>2. CASE ReadEventFd
  <2>1. EventFd \notin ClientFds
    BY ServerAssumption
  <2>2. /\ DOMAIN batch' = DOMAIN batch \ {EventFd}
        /\ \A fd \in DOMAIN batch' : batch'[fd] = batch[fd]
    BY <1>2, WithoutValue DEF ReadEventFd
  <2>3. iopc = "loop" /\ iopc' = "fetch"
    BY <1>2 DEF ReadEventFd, AtEvent
  <2>4. QED
    BY <1>2, <2>1, <2>2, <2>3, BetweenEvents DEF ReadEventFd, kernelVars, tableVars
<1>3. CASE FetchOut
  BY <1>3, BetweenEvents DEF FetchOut, TakeItem, kernelVars, tableVars
<1>4. QED
  BY <1>1, <1>2, <1>3, WaitKeeps, AcceptKeeps, CreateKeeps, EventKeeps, DestroyKeeps,
     DeliverKeeps DEF IO

-----------------------------------------------------------------------------
(* The steps of the others. *)

\* Nothing of what the tables and events are about changes.
LEMMA AllSame ==
    ASSUME RInv, UNCHANGED <<kernelVars, ioVars, fdInfoTable, handlerTable>>
    PROVE  Registries' /\ BatchCurrent' /\ NoStrandedInput'
<1>1. UNCHANGED <<sockOf, epollSet, edge, peer, rx, iopc, batch, iofd, ioitem, fdInfoTable,
                  handlerTable>>
  BY DEF kernelVars, ioVars
<1>2. QED
  BY <1>1 DEF RInv, Registries, BatchCurrent, Current, Quiet, NoStrandedInput

LEMMA WorkerKeeps ==
    ASSUME RInv, ~Deactivates, Worker
    PROVE  /\ Registries' /\ BatchCurrent' /\ NoStrandedInput'
           /\ WorkerClosesNot' /\ UNCHANGED kernelVars
<1> USE DEF RInv, WorkerClosesNot
<1>1. ~EraseNode /\ ~CloseFind /\ ~CloseClose /\ ~CloseDel /\ ~DestroyHandler
  BY DEF EraseNode, CloseFind, CloseClose, CloseDel, DestroyHandler
<1>2. Deactivates = FALSE
  BY ServerAssumption
<1>3. CASE WorkerFetch \/ FirstIsActive \/ CallHandler \/ SecondIsActive
  <2>1. UNCHANGED <<kernelVars, ioVars, fdInfoTable, handlerTable, inactive>>
    BY <1>3 DEF WorkerFetch, FirstIsActive, CallHandler, SecondIsActive, tableVars
  <2>2. wpc' \in {"idle", "found", "call", "handling"}
    BY <1>3 DEF WorkerFetch, SkipItem, FindHandler, FirstIsActive, CallHandler, SecondIsActive,
                AfterFrame, WorkerIdle
  <2>3. QED
    BY <2>1, <2>2, AllSame
<1>4. CASE Respond \/ Notify
  BY <1>4, AllSame DEF Respond, Notify, writeFrame, tableVars
<1>5. CASE EndFrame
  BY <1>2, <1>5, AllSame DEF EndFrame
<1>7. CASE UseOfErased
  BY <1>7, AllSame DEF UseOfErased, Dies, tableVars, workerVars
<1>6. QED
  BY <1>1, <1>3, <1>4, <1>5, <1>7 DEF Worker

LEMMA ClientKeeps ==
    ASSUME RInv, NEW c \in Conns, Client(c)
    PROVE  Registries' /\ BatchCurrent' /\ NoStrandedInput'
<1> USE DEF codeVars, ioVars, tableVars, historyVars
<1>1. UNCHANGED <<sockOf, epollSet, batch, iopc, iofd, ioitem, fdInfoTable, handlerTable>>
  BY DEF Client, Connect, Request, Leave, Drain
<1>2. Registries'
  BY <1>1 DEF RInv, Registries
<1>3. peer \in [Conns -> {"none", "open", "fin", "reset"}] /\ rx \in [Conns -> Nat]
  BY DEF RInv, SInv, TypeOK, KernelTypeOK
<1>4. CASE Connect(c)
  <2>1. \A fd \in DOMAIN sockOf : sockOf[fd] \in Conns /\ sockOf[fd] # c
    BY <1>4, SockConn DEF Connect, RInv, SInv, TypeOK, ConnsOnce
  <2>2. \A fd \in DOMAIN sockOf :
            peer'[sockOf[fd]] = peer[sockOf[fd]] /\ rx'[sockOf[fd]] = rx[sockOf[fd]]
    BY <1>3, <1>4, <2>1 DEF Connect
  <2>3. UNCHANGED edge
    BY <1>4 DEF Connect
  <2>4. QED
    BY <1>1, <1>2, <2>2, <2>3 DEF RInv, BatchCurrent, Current, Quiet, NoStrandedInput
<1>5. CASE Request(c) \/ Leave(c) \/ Drain(c)
  <2>1. RaiseEdge(c)
    BY <1>5 DEF Request, Leave, Drain
  <2>2. /\ \A d \in Conns \ {c} : rx'[d] = rx[d] /\ peer'[d] = peer[d]
        /\ peer[c] = "reset" => peer'[c] = "reset"
    BY <1>3, <1>5 DEF Request, Leave, Drain
  <2>3. /\ \A fd \in DOMAIN sockOf :
              (rx'[sockOf[fd]] > 0 \/ peer'[sockOf[fd]] # "open") =>
                  fd \in edge' \union DOMAIN batch
        /\ \A fd \in DOMAIN batch \cap ClientFds :
              Current(fd) =>
                  /\ "HUP" \in batch[fd] => peer'[sockOf[fd]] = "reset"
                  /\ "IN" \notin batch[fd] =>
                      (rx'[sockOf[fd]] = 0 /\ peer'[sockOf[fd]] = "open") \/ fd \in edge'
    BY <1>1, <2>1, <2>2, EdgeRaised
  <2>4. BatchCurrent'
    BY <1>1, <2>3 DEF RInv, BatchCurrent, Current, Quiet
  <2>5. NoStrandedInput'
    BY <1>1, <2>3 DEF NoStrandedInput
  <2>6. QED
    BY <1>2, <2>4, <2>5
<1>6. QED
  BY <1>4, <1>5 DEF Client

\* What a step may do to backlog, connections and clients: nothing new comes, the
\* front of the backlog goes or is accepted, or a client connects.
PeersStay == \A d \in Conns : peer[d] # "none" => peer'[d] # "none"

NothingNew ==
    /\ UNCHANGED backlog /\ PeersStay
    /\ DOMAIN sockOf' \subseteq DOMAIN sockOf
    /\ \A fd \in DOMAIN sockOf' : sockOf'[fd] = sockOf[fd]

FrontGoes ==
    /\ backlog # <<>> /\ backlog' = Tail(backlog)
    /\ UNCHANGED sockOf /\ PeersStay

FrontAccepted ==
    /\ backlog # <<>> /\ backlog' = Tail(backlog) /\ UNCHANGED peer
    /\ \E fd \in ClientFds \ DOMAIN sockOf :
        /\ DOMAIN sockOf' = DOMAIN sockOf \union {fd} /\ sockOf'[fd] = Head(backlog)
        /\ \A g \in DOMAIN sockOf : sockOf'[g] = sockOf[g]

Connects ==
    \E c \in Conns :
        /\ peer[c] = "none" /\ backlog' = Append(backlog, c)
        /\ peer'[c] # "none" /\ PeersStay /\ UNCHANGED sockOf

LEMMA ConnStep ==
    ASSUME RInv, Next
    PROVE  NothingNew \/ FrontGoes \/ FrontAccepted \/ Connects
<1> USE DEF PeersStay
<1>0. peer \in [Conns -> {"none", "open", "fin", "reset"}]
  BY DEF RInv, SInv, TypeOK, KernelTypeOK
<1>1. ASSUME UNCHANGED <<backlog, sockOf>>, PeersStay PROVE NothingNew
  BY <1>1 DEF NothingNew
<1>2. CASE AcceptClient
  <2>1. backlog # <<>>
    BY <1>2 DEF AcceptClient, AtEvent, RInv, SInv, LocalsOK
  <2>2. CASE acceptFails(Head(backlog))
    BY <1>1, <2>1, <2>2 DEF acceptFails, FrontGoes
  <2>3. ASSUME NEW fd \in ClientFds, LowestFree(fd), backlog' = Tail(backlog),
               acceptAdds(Head(backlog), fd)
        PROVE  FrontAccepted
    <3>1. fd \notin DOMAIN sockOf
      BY <2>3 DEF LowestFree
    <3>2. /\ DOMAIN sockOf' = DOMAIN sockOf \union {fd} /\ sockOf'[fd] = Head(backlog)
          /\ \A g \in DOMAIN sockOf : sockOf'[g] = sockOf[g]
          /\ UNCHANGED peer
      BY <2>3, <3>1 DEF acceptAdds, Emplace
    <3>3. QED
      BY <2>1, <2>3, <3>1, <3>2 DEF FrontAccepted
  <2>4. ASSUME backlog' = Tail(backlog), acceptAddFails(Head(backlog))
        PROVE  FrontGoes
    BY <1>0, <2>1, <2>4 DEF acceptAddFails, FrontGoes
  <2>5. QED
    BY <1>2, <2>2, <2>3, <2>4 DEF AcceptClient
<1>3. ASSUME NEW fd, CloseFd(fd), UNCHANGED <<backlog, peer>> PROVE NothingNew
  BY <1>3, WithoutValue DEF CloseFd, NothingNew
<1>4. CASE ClientEvent
  <2>1. UNCHANGED backlog
    BY <1>4 DEF ClientEvent, ContextNotFound, ClientHungUp, ClientFaulty, ClientReady,
                ClientIdle, Dies, kernelVars
  <2>2. CASE closeClient(iofd) /\ UNCHANGED peer
    BY <1>3, <2>1, <2>2 DEF closeClient
  <2>3. CASE UNCHANGED sockOf /\ (UNCHANGED peer \/ \E c : peer' = [peer EXCEPT ![c] = "reset"])
    BY <1>0, <1>1, <2>1, <2>3
  <2>4. QED
    BY <1>4, <2>2, <2>3 DEF ClientEvent, ContextNotFound, ClientHungUp, ClientFaulty,
                            ClientReady, ClientOutput, ClientIdle, Dies, kernelVars
<1>5. CASE Deliver
  <2>1. UNCHANGED <<backlog, sockOf>>
    BY <1>5 DEF Deliver, Dies, kernelVars
  <2>2. UNCHANGED peer \/ \E c : peer' = [peer EXCEPT ![c] = "reset"]
    BY <1>5 DEF Deliver, DropItem, SendItem, Dies, kernelVars
  <2>3. QED
    BY <1>0, <1>1, <2>1, <2>2
<1>6. CASE EpollWait \/ CreateHandler \/ (\E fd \in ClientFds : LockTable(fd))
           \/ DestroyContext \/ ReadEventFd \/ FetchOut
  BY <1>1, <1>6 DEF EpollWait, CreateHandler, LockTable, DestroyContext, ReadEventFd,
                    FetchOut, kernelVars
<1>7. CASE Worker
  <2>1. CASE CloseClose
    BY <1>3, <2>1 DEF CloseClose
  <2>2. CASE ~CloseClose
    <3>1. UNCHANGED <<backlog, sockOf, peer>>
      BY <1>7, <2>2 DEF Worker, WorkerFetch, FirstIsActive, EraseNode, CallHandler, UseOfErased,
                        Respond, Notify, EndFrame, SecondIsActive, Dies, CloseFind, CloseDel,
                        DestroyHandler, kernelVars
    <3>2. QED
      BY <1>1, <3>1
  <2>3. QED
    BY <2>1, <2>2
<1>8. ASSUME NEW c \in Conns, Connect(c) PROVE Connects
  BY <1>0, <1>8 DEF Connect, Connects
<1>9. ASSUME NEW c \in Conns, Request(c) \/ Leave(c) \/ Drain(c) PROVE NothingNew
  <2>1. UNCHANGED <<backlog, sockOf>> /\ PeersStay
    BY <1>0, <1>9 DEF Request, Leave, Drain
  <2>2. QED
    BY <1>1, <2>1
<1>10. QED
  BY <1>2, <1>4, <1>5, <1>6, <1>7, <1>8, <1>9 DEF Next, IO, Client

LEMMA Front ==
    ASSUME RInv, backlog # <<>>
    PROVE  /\ Head(backlog) = backlog[1] /\ 1 \in DOMAIN backlog
           /\ \A i \in DOMAIN Tail(backlog) :
                i + 1 \in DOMAIN backlog /\ i + 1 # 1 /\ Tail(backlog)[i] = backlog[i + 1]
           /\ \A i \in DOMAIN Tail(backlog) : i \in Int
<1>1. backlog \in Seq(Conns)
  BY DEF RInv, SInv, TypeOK, KernelTypeOK
<1>2. QED
  BY <1>1

LEMMA Back ==
    ASSUME RInv, NEW c \in Conns
    PROVE  /\ DOMAIN Append(backlog, c) = DOMAIN backlog \union {Len(backlog) + 1}
           /\ Len(backlog) + 1 \notin DOMAIN backlog
           /\ \A i \in DOMAIN backlog : Append(backlog, c)[i] = backlog[i]
           /\ Append(backlog, c)[Len(backlog) + 1] = c
<1>1. backlog \in Seq(Conns)
  BY DEF RInv, SInv, TypeOK, KernelTypeOK
<1>2. QED
  BY <1>1, AppendProperties

LEMMA KnownConns ==
    ASSUME RInv
    PROVE  /\ \A fd \in DOMAIN sockOf : sockOf[fd] \in Conns
           /\ \A i \in DOMAIN backlog : backlog[i] \in Conns
<1>1. backlog \in Seq(Conns)
  BY DEF RInv, SInv, TypeOK, KernelTypeOK
<1>2. QED
  BY <1>1, SockConn DEF RInv, SInv, TypeOK

\* Connections are accepted once.
LEMMA ConnsOnceKeeps ==
    ASSUME RInv, Next
    PROVE  ConnsOnce'
<1> USE KnownConns DEF RInv, ConnsOnce, PeersStay
<1>1. CASE NothingNew
  BY <1>1 DEF NothingNew
<1>2. CASE FrontGoes
  BY <1>2, Front DEF FrontGoes
<1>3. CASE FrontAccepted
  BY <1>3, Front DEF FrontAccepted
<1>4. CASE Connects
  <2>1. PICK c \in Conns : /\ peer[c] = "none" /\ backlog' = Append(backlog, c)
                           /\ peer'[c] # "none" /\ PeersStay /\ UNCHANGED sockOf
    BY <1>4 DEF Connects
  <2>2. /\ DOMAIN backlog' = DOMAIN backlog \union {Len(backlog) + 1}
        /\ \A i \in DOMAIN backlog : backlog'[i] = backlog[i]
        /\ backlog'[Len(backlog) + 1] = c
    BY <2>1, Back
  <2>3. QED
    BY <2>1, <2>2
<1>5. QED
  BY <1>1, <1>2, <1>3, <1>4, ConnStep

\* A connection that is neither new nor waiting to be accepted is never opened again.
LEMMA NeverReopened ==
    ASSUME RInv, Next, NEW c \in Conns, peer[c] # "none",
           \A i \in DOMAIN backlog : backlog[i] # c
    PROVE  /\ peer'[c] # "none" /\ \A i \in DOMAIN backlog' : backlog'[i] # c
           /\ \A fd \in DOMAIN sockOf' :
                sockOf'[fd] = c => fd \in DOMAIN sockOf /\ sockOf[fd] = c
<1>1. CASE NothingNew
  BY <1>1 DEF NothingNew, PeersStay
<1>2. CASE FrontGoes
  BY <1>2, Front DEF FrontGoes, PeersStay
<1>3. CASE FrontAccepted
  BY <1>3, Front DEF FrontAccepted
<1>4. CASE Connects
  <2>1. PICK d \in Conns : /\ peer[d] = "none" /\ backlog' = Append(backlog, d)
                           /\ peer'[d] # "none" /\ PeersStay /\ UNCHANGED sockOf
    BY <1>4 DEF Connects
  <2>2. QED
    BY <2>1, Back DEF PeersStay
<1>5. QED
  BY <1>1, <1>2, <1>3, <1>4, ConnStep

-----------------------------------------------------------------------------
(* The invariant. *)

LEMMA WorkerClosesNotKeeps ==
    ASSUME RInv, ~Deactivates, Next
    PROVE  WorkerClosesNot'
<1>1. CASE IO
  <2>1. UNCHANGED <<inactive, wpc>>
    <3> USE DEF workerVars, tableVars
    <3>1. CASE EpollWait \/ AcceptClient \/ CreateHandler \/ (\E fd \in ClientFds : LockTable(fd))
               \/ DestroyContext \/ ReadEventFd \/ FetchOut
      BY <3>1 DEF EpollWait, AcceptClient, CreateHandler, LockTable, DestroyContext,
                  ReadEventFd, FetchOut
    <3>2. CASE ClientEvent
      BY <3>2 DEF ClientEvent, ContextNotFound, ClientHungUp, ClientFaulty, ClientReady,
                  ClientIdle, Dies
    <3>3. CASE Deliver
      BY <3>3 DEF Deliver, Dies
    <3>4. QED
      BY <1>1, <3>1, <3>2, <3>3 DEF IO
  <2>2. QED
    BY <2>1 DEF RInv, WorkerClosesNot
<1>2. CASE Worker
  BY <1>2, WorkerKeeps
<1>3. CASE \E c \in Conns : Client(c)
  BY <1>3 DEF Client, Connect, Request, Leave, Drain, codeVars, workerVars, tableVars, RInv,
              WorkerClosesNot
<1>4. QED
  BY <1>1, <1>2, <1>3 DEF Next

LEMMA RInvInit == Init => RInv
<1> SUFFICES ASSUME Init PROVE RInv
  OBVIOUS
<1>1. DOMAIN <<>> = {}
  OBVIOUS
<1>2. /\ sockOf = <<>> /\ epollSet = {} /\ fdInfoTable = <<>> /\ handlerTable = <<>>
      /\ iopc = "loop" /\ batch = <<>> /\ backlog = <<>> /\ inactive = {} /\ wpc = "idle"
  BY DEF Init
<1>3. DOMAIN sockOf = {} /\ DOMAIN fdInfoTable = {} /\ DOMAIN handlerTable = {}
      /\ DOMAIN batch = {} /\ DOMAIN backlog = {}
  BY <1>1, <1>2
<1>4. Registries /\ BatchCurrent /\ NoStrandedInput /\ ConnsOnce /\ WorkerClosesNot
  BY <1>2, <1>3 DEF Registries, BatchCurrent, NoStrandedInput, ConnsOnce, WorkerClosesNot
<1>5. QED
  BY <1>4, SInvInit DEF RInv

LEMMA RInvStep ==
    ASSUME ~Deactivates, ~AddMayFail, RInv, [Next]_vars
    PROVE  RInv'
<1>1. SInv'
  BY SInvStep DEF RInv
<1>2. CASE Next
  <2>1. Registries' /\ BatchCurrent' /\ NoStrandedInput'
    <3>1. KernelTypeOK'
      BY <1>1 DEF SInv, TypeOK
    <3>2. QED
      BY <1>2, <3>1, IOKeeps, WorkerKeeps, ClientKeeps DEF Next
  <2>2. QED
    BY <1>1, <1>2, <2>1, ConnsOnceKeeps, WorkerClosesNotKeeps DEF RInv
<1>3. CASE UNCHANGED vars
  <2>1. UNCHANGED <<kernelVars, ioVars, fdInfoTable, handlerTable, inactive, wpc>>
    BY <1>3 DEF vars, tableVars, workerVars
  <2>2. UNCHANGED <<backlog, sockOf, peer>>
    BY <2>1 DEF kernelVars
  <2>3. ConnsOnce' /\ WorkerClosesNot'
    BY <2>1, <2>2 DEF RInv, ConnsOnce, WorkerClosesNot
  <2>4. QED
    BY <1>1, <2>1, <2>3, AllSame DEF RInv
<1>4. QED
  BY <1>2, <1>3

LEMMA RInvAlways ==
    ASSUME ~Deactivates, ~AddMayFail
    PROVE  Spec => []RInv
<1>1. RInv /\ [Next]_vars => RInv'
  BY RInvStep
<1>2. QED
  BY <1>1, RInvInit, PTL DEF Spec

-----------------------------------------------------------------------------
(* The theorems. *)

\* Where no session ends by itself and epoll_ctl does not fail, input that nobody
\* has read, and the end of a stream, always has an edge to come, an event in the
\* batch or the I/O thread at work on it: EPOLLET strands nothing, because every
\* readAll drains the socket.
THEOREM InputNeverStranded ==
    ASSUME ~Deactivates, ~AddMayFail
    PROVE  Spec => []NoStrandedInput
<1>1. RInv => NoStrandedInput
  BY DEF RInv
<1>2. QED
  BY <1>1, RInvAlways, PTL

\* Under the same assumption the descriptor table, epoll, fdInfoTable and
\* handlerTable agree whenever the I/O thread is between two events, for any
\* number of connections and however descriptors are handed out again.
THEOREM RegistriesAgree ==
    ASSUME ~Deactivates, ~AddMayFail
    PROVE  Spec => []TablesAgree
<1>1. RInv => TablesAgree
  <2> SUFFICES ASSUME RInv, iopc = "loop"
               PROVE  /\ DOMAIN sockOf = epollSet
                      /\ DOMAIN fdInfoTable = DOMAIN sockOf
                      /\ handlerTable = sockOf
                      /\ \A fd \in DOMAIN fdInfoTable : fdInfoTable[fd].conn = sockOf[fd]
    BY DEF TablesAgree
  <2>1. /\ DOMAIN sockOf = epollSet /\ DOMAIN fdInfoTable = DOMAIN sockOf
        /\ DOMAIN handlerTable = DOMAIN sockOf
        /\ \A fd \in DOMAIN sockOf :
              fdInfoTable[fd].conn = sockOf[fd] /\ handlerTable[fd] = sockOf[fd]
    BY DEF RInv, Registries
  <2>2. PICK D \in SUBSET ClientFds : sockOf \in [D -> Conns]
    BY DEF RInv, SInv, TypeOK, KernelTypeOK, PartialFn
  <2>3. PICK E \in SUBSET ClientFds : handlerTable \in [E -> Conns]
    BY DEF RInv, SInv, TypeOK, WorkerTypeOK, PartialFn
  <2>4. D = DOMAIN sockOf /\ E = D
    BY <2>1, <2>2, <2>3
  <2>5. handlerTable = sockOf
    BY <2>1, <2>2, <2>3, <2>4
  <2>6. QED
    BY <2>1, <2>5
<1>2. QED
  BY <1>1, RInvAlways, PTL

\* Under the same assumption the server closes a connection that epoll watches
\* only when its client hung up: no late event closes the connection that got the
\* descriptor since.
THEOREM ClosesGoneOnly ==
    ASSUME ~Deactivates, ~AddMayFail
    PROVE  Spec => ClosedOnlyIfGone
<1> DEFINE Step == \A fd \in DOMAIN sockOf :
                       (fd \in epollSet /\ fd \notin DOMAIN sockOf') => peer[sockOf[fd]] # "open"
<1>1. RInv /\ [Next]_vars => [Step]_vars
  <2> SUFFICES ASSUME RInv, Next, NEW fd \in DOMAIN sockOf, fd \notin DOMAIN sockOf'
               PROVE  peer[sockOf[fd]] # "open"
    OBVIOUS
  <2>1. ClientEvent /\ closeClient(iofd)
    <3>1. ~Worker
      BY WorkerKeeps DEF kernelVars
    <3>2. UNCHANGED sockOf \/ ~(\E c \in Conns : Client(c))
      BY DEF Client, Connect, Request, Leave, Drain
    <3>3. UNCHANGED sockOf \/ ClientEvent \/ AcceptClient \/ ~IO
      BY DEF IO, EpollWait, CreateHandler, LockTable, DestroyContext, ReadEventFd, FetchOut,
             Deliver, Dies, kernelVars
    <3>4. CASE AcceptClient
      BY <3>4 DEF AcceptClient, acceptFails, acceptAdds, acceptAddFails, Emplace
    <3>5. QED
      BY <3>1, <3>2, <3>3, <3>4 DEF Next, ClientEvent, ContextNotFound, ClientHungUp,
                                   ClientFaulty, ClientReady, ClientIdle, Dies, kernelVars
  <2>2. fd = iofd
    BY <2>1, WithoutValue DEF closeClient, CloseFd
  <2>3. Current(iofd)
    BY <2>1, <2>2, SockConn DEF ClientEvent, RInv, SInv, TypeOK, BatchCurrent
  <2>4. CASE ClientHungUp
    BY <2>2, <2>3, <2>4 DEF ClientHungUp, Current
  <2>5. CASE ~ClientHungUp
    <3>1. iopc' = "destroy"
      BY <2>1 DEF closeClient
    <3>2. ClientReady
      BY <2>1, <2>5, <3>1 DEF ClientEvent, ContextNotFound, ClientFaulty, ClientIdle, EndEvent,
                              Dies, ioVars
    <3>3. isReadEof(sockOf[iofd])
      BY <3>1, <3>2 DEF ClientReady, EndEvent
    <3>4. QED
      BY <2>2, <3>3 DEF isReadEof
  <2>6. QED
    BY <2>4, <2>5
<1>2. QED
  BY <1>1, RInvAlways, PTL DEF Spec, ClosedOnlyIfGone

-----------------------------------------------------------------------------
(* A request is handled by its own session. *)

\* What an item in wqIn, or in the worker's hands, still says: its connection is
\* never opened again, and is open on the item's descriptor if at all.
ItemOK(it) ==
    /\ it.conn \in Conns /\ peer[it.conn] # "none"
    /\ \A i \in DOMAIN backlog : backlog[i] # it.conn
    /\ \A fd \in DOMAIN sockOf : sockOf[fd] = it.conn => fd = it.fd

OInv ==
    /\ \A i \in DOMAIN wqIn : ItemOK(wqIn[i])
    /\ wpc # "idle" =>
        /\ ItemOK(Head(witem))
        /\ Head(witem).conn \in OpenConns =>
            wnode = Head(witem) /\ (wpc \in Called => wctx = Head(witem))

\* An item stays as good as it was.
LEMMA ItemKeeps ==
    ASSUME RInv, Next, NEW it, ItemOK(it)
    PROVE  ItemOK(it)'
<1>1. /\ peer'[it.conn] # "none" /\ \A i \in DOMAIN backlog' : backlog'[i] # it.conn
      /\ \A fd \in DOMAIN sockOf' :
            sockOf'[fd] = it.conn => fd \in DOMAIN sockOf /\ sockOf[fd] = it.conn
  BY NeverReopened DEF ItemOK
<1>2. QED
  BY <1>1 DEF ItemOK

LEMMA OpenAsBefore ==
    ASSUME RInv, Next, NEW it, ItemOK(it), it.conn \in OpenConns'
    PROVE  it.conn \in OpenConns
<1>1. \A fd \in DOMAIN sockOf' :
            sockOf'[fd] = it.conn => fd \in DOMAIN sockOf /\ sockOf[fd] = it.conn
  BY NeverReopened DEF ItemOK
<1>2. QED
  BY <1>1 DEF OpenConns, Range

\* The elements of a sequence that n copies of x were appended to.
LEMMA Extended ==
    ASSUME NEW S, NEW q \in Seq(S), NEW n \in Nat, NEW x \in S,
           NEW r, r = q \o [k \in 1 .. n |-> x], NEW i \in DOMAIN r
    PROVE  (i \in DOMAIN q /\ r[i] = q[i]) \/ r[i] = x
<1>1. PICK t : t = [k \in 1 .. n |-> x]
  OBVIOUS
<1>2. t \in [1 .. n -> S]
  BY <1>1
<1>3. t \in Seq(S) /\ Len(t) = n /\ \A k \in 1 .. n : t[k] = x
  BY <1>1, <1>2
<1>4. r = q \o t
  BY <1>1
<1>5. /\ r \in Seq(S) /\ Len(r) = Len(q) + n
      /\ \A k \in 1 .. Len(q) + n : r[k] = IF k <= Len(q) THEN q[k] ELSE t[k - Len(q)]
  BY <1>3, <1>4, ConcatProperties
<1>6. Len(q) \in Nat /\ DOMAIN q = 1 .. Len(q) /\ i \in 1 .. Len(q) + n
  BY <1>5
<1>7. CASE i <= Len(q)
  BY <1>5, <1>6, <1>7
<1>8. CASE ~(i <= Len(q))
  <2>1. i - Len(q) \in 1 .. n
    BY <1>6, <1>8
  <2>2. QED
    BY <1>3, <1>5, <1>6, <1>8, <2>1
<1>9. QED
  BY <1>7, <1>8

\* Where the items of wqIn come from.
LEMMA QueueIn ==
    ASSUME RInv, Next, NEW i \in DOMAIN wqIn'
    PROVE  \/ \E j \in DOMAIN wqIn : wqIn'[i] = wqIn[j]
           \/ /\ iofd \in DOMAIN sockOf
              /\ wqIn'[i] = [fd |-> iofd, conn |-> sockOf[iofd]]
<1>0. wqIn \in Seq(Item) /\ rx \in [Conns -> Nat]
  BY DEF RInv, SInv, TypeOK, ServerTypeOK, KernelTypeOK
<1>1. CASE UNCHANGED wqIn
  BY <1>1
<1>2. CASE WorkerFetch
  <2>1. wqIn # <<>> /\ wqIn' = Tail(wqIn)
    BY <1>2 DEF WorkerFetch
  <2>2. i + 1 \in DOMAIN wqIn /\ wqIn'[i] = wqIn[i + 1]
    BY <1>0, <2>1
  <2>3. QED
    BY <2>2
<1>3. ASSUME ClientReady, ~UNCHANGED wqIn
      PROVE  /\ iofd \in DOMAIN sockOf
             /\ \/ \E j \in DOMAIN wqIn : wqIn'[i] = wqIn[j]
                \/ wqIn'[i] = [fd |-> iofd, conn |-> sockOf[iofd]]
  <2> DEFINE c == sockOf[iofd]
             it == [fd |-> iofd, conn |-> c]
  <2>1. iofd \in DOMAIN sockOf
    BY <1>3 DEF ClientReady, Faulty
  <2>2. c \in Conns /\ rx[c] \in Nat /\ it \in Item
    BY <1>0, <2>1, SockConn DEF RInv, SInv, TypeOK, Item
  <2>3. wqIn' = wqIn \o [k \in 1 .. rx[c] |-> it]
    BY <1>3 DEF ClientReady, readAll
  <2>4. (i \in DOMAIN wqIn /\ wqIn'[i] = wqIn[i]) \/ wqIn'[i] = it
    <3> HIDE DEF it
    <3>1. QED
      BY <1>0, <2>2, <2>3, Extended
  <2>5. QED
    BY <2>1, <2>4
<1>4. UNCHANGED wqIn \/ WorkerFetch \/ ClientReady
  <2> USE DEF queueVars
  <2>1. CASE IO
    <3>1. CASE ClientEvent
      BY <3>1 DEF ClientEvent, ContextNotFound, ClientHungUp, ClientFaulty, ClientIdle, Dies
    <3>2. CASE Deliver
      BY <3>2 DEF Deliver, Dies
    <3>3. CASE ~ClientEvent /\ ~Deliver
      BY <2>1, <3>3 DEF IO, EpollWait, AcceptClient, CreateHandler, LockTable, DestroyContext,
                        ReadEventFd, FetchOut
    <3>4. QED
      BY <3>1, <3>2, <3>3
  <2>2. CASE Worker
    BY <2>2 DEF Worker, FirstIsActive, EraseNode, CallHandler, UseOfErased, Respond, Notify,
                EndFrame, SecondIsActive, Dies, CloseFind, CloseClose, CloseDel, DestroyHandler
  <2>3. CASE \E c \in Conns : Client(c)
    BY <2>3 DEF Client, Connect, Request, Leave, Drain, codeVars
  <2>4. QED
    BY <2>1, <2>2, <2>3 DEF Next
<1>5. QED
  BY <1>1, <1>2, <1>3, <1>4

\* What the worker has in its hands: what it had, with another session in the node
\* if that was erased and handed out again, or the front of wqIn with the session
\* the table holds for it.
Still ==
    /\ wpc # "idle" /\ UNCHANGED witem
    /\ UNCHANGED wnode \/ (NodeGone /\ iopc = "create" /\ wnode' = Head(ioitem))
    /\ wpc' \in Called =>
        (wpc \in Called /\ UNCHANGED wctx) \/ (wctx' = wnode /\ UNCHANGED wnode)

Found ==
    /\ wqIn # <<>> /\ witem' = <<Head(wqIn)>>
    /\ Head(wqIn).fd \in DOMAIN handlerTable
    /\ wnode' = [fd |-> Head(wqIn).fd, conn |-> handlerTable[Head(wqIn).fd]]
    /\ wpc' \notin Called

LEMMA InHand ==
    ASSUME RInv, ~Deactivates, Next, wpc' # "idle"
    PROVE  Still \/ Found
<1> USE DEF workerVars
<1>1. CASE IO
  <2>1. CASE ClientEvent
    BY <2>1 DEF ClientEvent, ContextNotFound, ClientHungUp, ClientFaulty, ClientReady,
                ClientIdle, Dies, Still
  <2>2. CASE Deliver
    BY <2>2 DEF Deliver, Dies, Still
  <2>3. CASE CreateHandler
    BY <2>3 DEF CreateHandler, Still
  <2>4. CASE ~ClientEvent /\ ~Deliver /\ ~CreateHandler
    BY <1>1, <2>4 DEF IO, EpollWait, AcceptClient, LockTable, DestroyContext, ReadEventFd,
                      FetchOut, Still
  <2>5. QED
    BY <2>1, <2>2, <2>3, <2>4
<1>2. CASE WorkerFetch
  BY <1>2 DEF WorkerFetch, SkipItem, FindHandler, Found, Called
<1>3. CASE FirstIsActive \/ CallHandler \/ UseOfErased
  BY <1>3 DEF FirstIsActive, CallHandler, UseOfErased, Dies, Still, Called
<1>4. CASE Respond \/ Notify \/ EndFrame
  BY <1>4 DEF Respond, writeFrame, Notify, EndFrame, Still, Called
<1>5. wnode.conn \notin inactive
  BY DEF RInv, WorkerClosesNot
<1>6. ~EraseNode /\ ~SecondIsActive /\ ~CloseFind /\ ~CloseClose /\ ~CloseDel /\ ~DestroyHandler
  BY <1>5 DEF EraseNode, SecondIsActive, AfterFrame, WorkerIdle, CloseFind, CloseClose, CloseDel,
              DestroyHandler, RInv, WorkerClosesNot
<1>7. CASE \E c \in Conns : Client(c)
  BY <1>7 DEF Client, Connect, Request, Leave, Drain, codeVars, Still
<1>8. QED
  BY <1>1, <1>2, <1>3, <1>4, <1>6, <1>7 DEF Next, Worker

\* An open connection has its descriptor and, once it is created, its session.
LEMMA OpenItem ==
    ASSUME RInv, NEW it, ItemOK(it), it.conn \in OpenConns
    PROVE  /\ it.fd \in DOMAIN sockOf /\ sockOf[it.fd] = it.conn
           /\ it.fd \in DOMAIN handlerTable => handlerTable[it.fd] = it.conn
           /\ ~(iopc = "create" /\ it.fd = iofd) =>
                it.fd \in DOMAIN handlerTable /\ handlerTable[it.fd] = it.conn
<1>1. it.fd \in DOMAIN sockOf /\ sockOf[it.fd] = it.conn
  BY DEF OpenConns, Range, ItemOK
<1> QED
  BY <1>1 DEF RInv, Registries

LEMMA QueueFirst ==
    ASSUME NEW q \in Seq(Item), q # <<>>
    PROVE  1 \in DOMAIN q /\ q[1] = Head(q) /\ Head(q) \in Item
  BY HeadTailProperties

LEMMA OInvNext ==
    ASSUME RInv, ~Deactivates, OInv, Next
    PROVE  OInv'
<1>1. ASSUME NEW i \in DOMAIN wqIn' PROVE ItemOK(wqIn[i])'
  <2>1. CASE \E j \in DOMAIN wqIn : wqIn'[i] = wqIn[j]
    <3>1. PICK j \in DOMAIN wqIn : wqIn'[i] = wqIn[j]
      BY <2>1
    <3>2. PICK it : it = wqIn[j]
      OBVIOUS
    <3>3. ItemOK(it)
      BY <3>2 DEF OInv
    <3>4. ItemOK(it)'
      BY <3>3, ItemKeeps
    <3>5. QED
      BY <3>1, <3>2, <3>4 DEF ItemOK
  <2>2. CASE iofd \in DOMAIN sockOf /\ wqIn'[i] = [fd |-> iofd, conn |-> sockOf[iofd]]
    <3>1. PICK it : it = [fd |-> iofd, conn |-> sockOf[iofd]]
      OBVIOUS
    <3>2. ItemOK(it)
      BY <2>2, <3>1, KnownConns DEF ItemOK, RInv, ConnsOnce
    <3>3. ItemOK(it)'
      BY <3>2, ItemKeeps
    <3>4. QED
      BY <2>2, <3>1, <3>3 DEF ItemOK
  <2>3. QED
    BY <1>1, <2>1, <2>2, QueueIn
<1>2. ASSUME wpc' # "idle"
      PROVE  /\ ItemOK(Head(witem))'
             /\ Head(witem').conn \in OpenConns' =>
                    wnode' = Head(witem') /\ (wpc' \in Called => wctx' = Head(witem'))
  <2>1. CASE Still
    <3>1. PICK it : it = Head(witem)
      OBVIOUS
    <3>2. /\ ItemOK(it)
          /\ it.conn \in OpenConns => wnode = it /\ (wpc \in Called => wctx = it)
      BY <2>1, <3>1 DEF OInv, Still
    <3>3. ItemOK(it)' /\ (it.conn \in OpenConns' => it.conn \in OpenConns)
      BY <3>2, ItemKeeps, OpenAsBefore
    <3>4. Head(witem') = it /\ witem' = witem
      BY <2>1, <3>1 DEF Still
    <3>5. ASSUME it.conn \in OpenConns PROVE wnode' = it
      <4>1. wnode = it
        BY <3>2, <3>5
      <4>2. CASE NodeGone /\ iopc = "create" /\ wnode' = Head(ioitem)
        <5>1. it.fd = iofd
          BY <3>2, <3>5, <4>1, <4>2, OpenItem DEF NodeGone
        <5>2. Head(ioitem) = [fd |-> iofd, conn |-> sockOf[iofd]]
          BY <4>2 DEF RInv, Registries
        <5>3. sockOf[iofd] = it.conn
          BY <3>2, <3>5, <5>1, OpenItem
        <5>4. it \in Item
          <6>1. witem \in Seq(Item) /\ witem # <<>>
            BY <2>1 DEF Still, RInv, SInv, TypeOK, WorkerTypeOK, LocalsOK
          <6> QED
            BY <3>1, <6>1, FetchedItem
        <5>5. it = [fd |-> it.fd, conn |-> it.conn]
          BY <5>4 DEF Item
        <5> QED
          BY <4>2, <5>1, <5>2, <5>3, <5>5
      <4> QED
        BY <2>1, <4>1, <4>2 DEF Still
    <3>6. ASSUME it.conn \in OpenConns, wpc' \in Called PROVE wctx' = it
      BY <2>1, <3>2, <3>6 DEF Still
    <3>7. QED
      BY <3>1, <3>3, <3>4, <3>5, <3>6 DEF ItemOK
  <2>2. CASE Found
    <3>1. PICK it : it = Head(wqIn)
      OBVIOUS
    <3>2. wqIn \in Seq(Item) /\ wqIn # <<>>
      BY <2>2 DEF RInv, SInv, TypeOK, ServerTypeOK, Found
    <3>3. ItemOK(it) /\ it \in Item
      BY <3>1, <3>2, QueueFirst DEF OInv
    <3>4. ItemOK(it)' /\ (it.conn \in OpenConns' => it.conn \in OpenConns)
      BY <3>3, ItemKeeps, OpenAsBefore
    <3>5. it.conn \in OpenConns => handlerTable[it.fd] = it.conn
      BY <2>2, <3>1, <3>3, OpenItem DEF Found
    <3>6. Head(witem') = it /\ wnode' = [fd |-> it.fd, conn |-> handlerTable[it.fd]]
          /\ wpc' \notin Called
      BY <2>2, <3>1 DEF Found
    <3>8. it = [fd |-> it.fd, conn |-> it.conn]
      BY <3>3 DEF Item
    <3>7. QED
      BY <3>4, <3>5, <3>6, <3>8 DEF ItemOK
  <2>3. QED
    BY <1>2, <2>1, <2>2, InHand
<1>3. QED
  BY <1>1, <1>2 DEF OInv

LEMMA OInvAlways ==
    ASSUME ~Deactivates, ~AddMayFail
    PROVE  Spec => []OInv
<1>1. Init => OInv
  <2>1. DOMAIN <<>> = {}
    OBVIOUS
  <2>2. QED
    BY <2>1 DEF Init, OInv
<1>2. RInv /\ OInv /\ [Next]_vars => OInv'
  <2>1. ASSUME OInv, UNCHANGED vars PROVE OInv'
    <3>1. UNCHANGED <<wqIn, peer, backlog, sockOf, wpc, witem, wnode, wctx>>
      BY <2>1 DEF vars, queueVars, kernelVars, workerVars
    <3>2. QED
      BY <2>1, <3>1 DEF OInv, ItemOK, OpenConns
  <2>2. QED
    BY <2>1, OInvNext
<1>4. QED
  BY <1>1, <1>2, RInvAlways, PTL DEF Spec

\* Where no session ends by itself and epoll_ctl does not fail, a request of a
\* connection that is still open is handled by the session made for it, for any
\* number of connections and however often its descriptor was reused while the
\* request waited in wqIn.
THEOREM HandledByOwnSession ==
    ASSUME ~Deactivates, ~AddMayFail
    PROVE  Spec => []OwnSession
<1>1. OInv => OwnSession
  BY DEF OInv, OwnSession, Called
<1>2. QED
  BY <1>1, OInvAlways, PTL

-----------------------------------------------------------------------------
(* A client that waits for each answer gets no other. *)

\* Where the one request of an orderly client can be, as a request or as its answer.
Places == {"socket", "wqIn", "worker", "wqOut", "io", "tx"}

\* The worker has a frame in its hands that is not answered yet.
Holding == wpc \in {"found", "call"} \/ (wpc # "idle" /\ wleft > 0)

At(p, c) ==
    \/ p = "socket" /\ rx[c] > 0
    \/ p = "wqIn" /\ \E i \in DOMAIN wqIn : wqIn[i].conn = c
    \/ p = "worker" /\ Holding /\ Head(witem).conn = c
    \/ p = "wqOut" /\ \E i \in DOMAIN wqOut : wqOut[i].conn = c
    \/ p = "io" /\ iopc = "deliver" /\ Head(ioitem).conn = c
    \/ p = "tx" /\ \E fd \in DOMAIN fdInfoTable : fdInfoTable[fd].tx = c

\* The descriptor of an item still is its connection's.
Placed(it) == it.fd \in DOMAIN sockOf /\ sockOf[it.fd] = it.conn

\* A request is in one place only, and its client is still there, waiting.
Awaited ==
    \A c \in Conns :
        /\ \A p, q \in Places : At(p, c) /\ At(q, c) => p = q
        /\ \A p \in Places : At(p, c) => peer[c] = "open" /\ answered[c] < sent[c]
        /\ rx[c] <= 1

QueuedOnce(q) ==
    /\ \A i \in DOMAIN q : Placed(q[i])
    /\ \A i, j \in DOMAIN q : q[i].conn = q[j].conn => i = j

AddressedRight ==
    /\ QueuedOnce(wqIn) /\ QueuedOnce(wqOut)
    /\ wleft <= 1 /\ (Holding => Placed(Head(witem)))
    /\ iopc = "deliver" => Placed(Head(ioitem))
    /\ \A fd \in DOMAIN fdInfoTable :
        fdInfoTable[fd].tx \in {NoConn, fdInfoTable[fd].conn}

AInv == Awaited /\ AddressedRight /\ stray = {}

\* Nothing is asked or answered, requests only get lost, and clients stay as long as
\* there is something for them on its way.
NoneAdded ==
    /\ \A c \in Conns, p \in Places : At(p, c)' => At(p, c)
    /\ \A c \in Conns : peer[c] = "open" => peer'[c] = "open"
    /\ UNCHANGED <<answered, sent>>

\* The request of c is now in place p and nowhere else.
Goes(c, p) ==
    /\ \A q \in Places : At(q, c)' => q = p
    /\ \A d \in Conns \ {c}, q \in Places : At(q, d)' => At(q, d)

LEMMA NoneAddedKeeps ==
    ASSUME Awaited, NoneAdded, \A c \in Conns : rx'[c] <= 1
    PROVE  Awaited'
<1> SUFFICES ASSUME NEW c \in Conns
             PROVE  /\ \A p, q \in Places : At(p, c)' /\ At(q, c)' => p = q
                    /\ \A p \in Places : At(p, c)' => peer'[c] = "open" /\ answered'[c] < sent'[c]
                    /\ rx'[c] <= 1
  BY DEF Awaited
<1>1. \A p \in Places : At(p, c)' => At(p, c)
  BY DEF NoneAdded
<1>2. /\ \A p, q \in Places : At(p, c) /\ At(q, c) => p = q
      /\ \A p \in Places : At(p, c) => peer[c] = "open" /\ answered[c] < sent[c]
  BY DEF Awaited
<1> HIDE DEF At
<1> QED
  BY <1>1, <1>2 DEF NoneAdded

LEMMA GoesKeeps ==
    ASSUME Awaited, NEW c \in Conns, NEW p \in Places, NEW from \in Places,
           At(from, c), Goes(c, p),
           UNCHANGED <<answered, sent, peer>>, \A d \in Conns : rx'[d] <= 1
    PROVE  Awaited'
<1> SUFFICES ASSUME NEW d \in Conns
             PROVE  /\ \A q, r \in Places : At(q, d)' /\ At(r, d)' => q = r
                    /\ \A q \in Places : At(q, d)' => peer'[d] = "open" /\ answered'[d] < sent'[d]
                    /\ rx'[d] <= 1
  BY DEF Awaited
<1>1. \A e \in Conns :
        /\ \A q, r \in Places : At(q, e) /\ At(r, e) => q = r
        /\ \A q \in Places : At(q, e) => peer[e] = "open" /\ answered[e] < sent[e]
  BY DEF Awaited
<1>2. peer[c] = "open" /\ answered[c] < sent[c]
  BY <1>1
<1>3. /\ \A q \in Places : At(q, c)' => q = p
      /\ d # c => \A q \in Places : At(q, d)' => At(q, d)
  BY DEF Goes
<1> HIDE DEF At
<1> QED
  BY <1>1, <1>2, <1>3

\* The elements of a queue without its front, and with one more.
LEMMA QueueFront ==
    ASSUME NEW q \in Seq(Item), q # <<>>
    PROVE  /\ 1 \in DOMAIN q /\ q[1] = Head(q) /\ Head(q) \in Item
           /\ \A i \in DOMAIN Tail(q) :
                i + 1 \in DOMAIN q /\ i + 1 # 1 /\ Tail(q)[i] = q[i + 1] /\ i \in Int
  BY HeadTailProperties

LEMMA QueueBack ==
    ASSUME NEW q \in Seq(Item), NEW it \in Item
    PROVE  /\ DOMAIN Append(q, it) = DOMAIN q \union {Len(q) + 1}
           /\ \A i \in DOMAIN q : Append(q, it)[i] = q[i]
           /\ Append(q, it)[Len(q) + 1] = it
  BY AppendProperties

\* Connections whose client is there keep their descriptors.
Kept ==
    \A fd \in DOMAIN sockOf :
        peer[sockOf[fd]] = "open" => fd \in DOMAIN sockOf' /\ sockOf'[fd] = sockOf[fd]

LEMMA PlacedKept ==
    ASSUME Kept, NEW it, Placed(it), peer[it.conn] = "open"
    PROVE  Placed(it)'
  BY DEF Kept, Placed

LEMMA ItemAwaited ==
    ASSUME AInv, NEW p \in Places, NEW c \in Conns, At(p, c)
    PROVE  peer[c] = "open" /\ answered[c] < sent[c]
  BY DEF AInv, Awaited

LEMMA QueuedAwaited ==
    ASSUME AInv, SInv
    PROVE  /\ \A i \in DOMAIN wqIn : wqIn[i] \in Item /\ peer[wqIn[i].conn] = "open"
           /\ \A i \in DOMAIN wqOut : wqOut[i] \in Item /\ peer[wqOut[i].conn] = "open"
           /\ wpc # "idle" => Head(witem) \in Item
           /\ Holding => peer[Head(witem).conn] = "open"
           /\ iopc = "deliver" => Head(ioitem) \in Item /\ peer[Head(ioitem).conn] = "open"
<1>1. /\ wqIn \in Seq(Item) /\ wqOut \in Seq(Item) /\ witem \in Seq(Item) /\ ioitem \in Seq(Item)
      /\ wpc # "idle" => witem # <<>>
      /\ iopc = "deliver" => ioitem # <<>>
  BY DEF SInv, TypeOK, ServerTypeOK, WorkerTypeOK, LocalsOK
<1>2. ASSUME NEW i \in DOMAIN wqIn PROVE wqIn[i] \in Item /\ peer[wqIn[i].conn] = "open"
  <2>1. wqIn[i] \in Item
    BY <1>1
  <2>3. wqIn[i].conn \in Conns
    BY <2>1 DEF Item
  <2>2. At("wqIn", wqIn[i].conn) /\ "wqIn" \in Places
    BY DEF At, Holding, Places
  <2> QED
    BY <2>1, <2>2, <2>3, ItemAwaited
<1>3. ASSUME NEW i \in DOMAIN wqOut PROVE wqOut[i] \in Item /\ peer[wqOut[i].conn] = "open"
  <2>1. wqOut[i] \in Item
    BY <1>1
  <2>3. wqOut[i].conn \in Conns
    BY <2>1 DEF Item
  <2>2. At("wqOut", wqOut[i].conn) /\ "wqOut" \in Places
    BY DEF At, Holding, Places
  <2> QED
    BY <2>1, <2>2, <2>3, ItemAwaited
<1>4. wpc # "idle" => Head(witem) \in Item
  BY <1>1, HeadTailProperties
<1>5. ASSUME Holding PROVE peer[Head(witem).conn] = "open"
  <2>1. At("worker", Head(witem).conn) /\ "worker" \in Places
    BY <1>5 DEF At, Places
  <2>2. wpc # "idle"
    BY <1>5 DEF Holding
  <2> QED
    BY <1>4, <2>1, <2>2, ItemAwaited DEF Item
<1>6. ASSUME iopc = "deliver"
      PROVE  Head(ioitem) \in Item /\ peer[Head(ioitem).conn] = "open"
  <2>1. Head(ioitem) \in Item
    BY <1>1, <1>6, HeadTailProperties
  <2>2. At("io", Head(ioitem).conn) /\ "io" \in Places
    BY <1>6 DEF At, Holding, Places
  <2> QED
    BY <2>1, <2>2, ItemAwaited DEF Item
<1> QED
  BY <1>2, <1>3, <1>4, <1>5, <1>6

\* The worker takes no other frame into its hands.
HandsKept == wleft' <= 1 /\ (Holding' => Holding /\ witem' = witem)

\* Steps that at most lose requests: the queues and the worker's hands stay as they
\* are, and what the descriptors stand for does not change where a client is.
LEMMA RestKeeps ==
    ASSUME AInv, SInv, Kept,
           UNCHANGED <<rx, wqIn, wqOut, answered, sent, stray>>,
           \A c \in Conns : peer[c] = "open" => peer'[c] = "open",
           HandsKept,
           iopc' = "deliver" => iopc = "deliver" /\ UNCHANGED ioitem,
           \A fd \in DOMAIN fdInfoTable' :
               \/ fdInfoTable'[fd].tx = NoConn
               \/ fd \in DOMAIN fdInfoTable /\ fdInfoTable'[fd] = fdInfoTable[fd]
    PROVE  AInv'
<1>1. \A c \in Conns : c # NoConn
  BY ServerAssumption
<1>2. NoneAdded
  <2>1. ASSUME NEW c \in Conns, NEW p \in Places, At(p, c)' PROVE At(p, c)
    BY <1>1, <2>1 DEF At, HandsKept
  <2> QED
    BY <2>1 DEF NoneAdded
<1>3. \A c \in Conns : rx'[c] <= 1
  BY DEF AInv, Awaited
<1>4. Awaited'
  BY <1>2, <1>3, NoneAddedKeeps DEF AInv
<1>5. QueuedOnce(wqIn)' /\ QueuedOnce(wqOut)'
  BY QueuedAwaited, PlacedKept DEF AInv, AddressedRight, QueuedOnce
<1>6. /\ wleft' <= 1
      /\ Holding' => Placed(Head(witem))'
  <2>1. Holding => Placed(Head(witem)) /\ peer[Head(witem).conn] = "open"
    BY QueuedAwaited DEF AInv, AddressedRight
  <2>2. Holding => \E it : it = Head(witem) /\ Placed(it)'
    BY <2>1, PlacedKept
  <2> QED
    BY <2>2 DEF Placed, HandsKept
<1>7. iopc' = "deliver" => Placed(Head(ioitem))'
  <2>1. iopc = "deliver" => Placed(Head(ioitem)) /\ peer[Head(ioitem).conn] = "open"
    BY QueuedAwaited DEF AInv, AddressedRight
  <2>2. iopc = "deliver" => \E it : it = Head(ioitem) /\ Placed(it)'
    BY <2>1, PlacedKept
  <2> QED
    BY <2>2 DEF Placed
<1>8. \A fd \in DOMAIN fdInfoTable' : fdInfoTable'[fd].tx \in {NoConn, fdInfoTable'[fd].conn}
  BY DEF AInv, AddressedRight
<1> QED
  BY <1>4, <1>5, <1>6, <1>7, <1>8 DEF AInv, AddressedRight

LEMMA WorkerSame ==
    ASSUME AInv, UNCHANGED <<wpc, witem, wleft>>
    PROVE  HandsKept
  BY DEF AInv, AddressedRight, Holding, HandsKept

\* The fdInfoTable of a server where only the I/O thread closes.
LEMMA InfoConn ==
    ASSUME RInv, NEW fd \in DOMAIN fdInfoTable
    PROVE  /\ fd \in DOMAIN sockOf /\ fdInfoTable[fd].conn = sockOf[fd] /\ sockOf[fd] \in Conns
           /\ fdInfoTable[fd] \in [conn : Conns, tx : Conns \union {NoConn}]
  BY InfoType, SockConn DEF RInv, SInv, TypeOK, Registries

LEMMA AcceptRest ==
    ASSUME AInv, RInv, ~AddMayFail, AcceptClient
    PROVE  AInv'
<1>1. /\ iopc = "loop"
      /\ UNCHANGED <<rx, wqIn, wqOut, witem, wleft, wpc, answered, sent, stray, fdInfoTable, peer>>
      /\ iopc' \in {"loop", "create"}
  BY DEF AcceptClient, AtEvent, acceptFails, acceptAdds, acceptAddFails, historyVars, workerVars,
         tableVars, queueVars
<1>2. Kept
  <2>1. CASE UNCHANGED sockOf
    BY <2>1 DEF Kept
  <2>2. ASSUME NEW fd, NEW c, fd \notin DOMAIN sockOf, sockOf' = Emplace(sockOf, fd, c)
        PROVE  Kept
    BY <2>2 DEF Emplace, Kept
  <2> QED
    BY <2>1, <2>2 DEF AcceptClient, acceptFails, acceptAdds, acceptAddFails, LowestFree
<1> QED
  BY <1>1, <1>2, WorkerSame, RestKeeps DEF RInv

LEMMA CreateRest ==
    ASSUME AInv, RInv, CreateHandler
    PROVE  AInv'
<1>1. /\ UNCHANGED <<rx, wqIn, wqOut, witem, wleft, wpc, answered, sent, stray, peer, sockOf>>
      /\ iopc' = "loop"
      /\ fdInfoTable' = Emplace(fdInfoTable, iofd, [conn |-> Head(ioitem).conn, tx |-> NoConn])
  BY DEF CreateHandler, kernelVars, historyVars, queueVars
<1>2. \A fd \in DOMAIN fdInfoTable' :
        \/ fdInfoTable'[fd].tx = NoConn
        \/ fd \in DOMAIN fdInfoTable /\ fdInfoTable'[fd] = fdInfoTable[fd]
  BY <1>1 DEF Emplace
<1>3. Kept
  BY <1>1 DEF Kept
<1> QED
  BY <1>1, <1>2, <1>3, WorkerSame, RestKeeps DEF RInv

\* Steps that leave connections and tables alone.
LEMMA WorkerRest ==
    ASSUME AInv, RInv,
           UNCHANGED <<rx, wqIn, wqOut, answered, sent, stray, sockOf, fdInfoTable, peer>>,
           HandsKept,
           iopc' = "deliver" => iopc = "deliver" /\ UNCHANGED ioitem
    PROVE  AInv'
<1>1. Kept
  BY DEF Kept
<1> QED
  BY <1>1, RestKeeps DEF RInv

LEMMA QuietRest ==
    ASSUME AInv, RInv,
           UNCHANGED <<rx, wqIn, wqOut, answered, sent, stray, sockOf, fdInfoTable, peer>>,
           UNCHANGED <<wpc, witem, wleft>>,
           iopc' = "deliver" => iopc = "deliver" /\ UNCHANGED ioitem
    PROVE  AInv'
  BY WorkerSame, WorkerRest

\* A connection is closed, whose client is gone.
LEMMA CloseRest ==
    ASSUME AInv, RInv, closeClient(iofd), iofd \in DOMAIN sockOf, peer[sockOf[iofd]] # "open",
           UNCHANGED <<rx, wqIn, wqOut, witem, wleft, wpc, answered, sent, stray, peer>>
    PROVE  AInv'
<1>1. /\ sockOf' = Without(sockOf, iofd) /\ fdInfoTable' = Without(fdInfoTable, iofd)
      /\ iopc' = "destroy"
  BY DEF closeClient, CloseFd
<1>2. Kept
  <2> DEFINE left == Without(sockOf, iofd)
  <2>1. /\ DOMAIN left = DOMAIN sockOf \ {iofd}
        /\ \A fd \in DOMAIN sockOf \ {iofd} : left[fd] = sockOf[fd]
    BY WithoutValue, Zenon
  <2>2. sockOf' = left
    BY <1>1
  <2> HIDE DEF left
  <2>3. \A fd \in DOMAIN sockOf : fd # iofd => fd \in DOMAIN sockOf' /\ sockOf'[fd] = sockOf[fd]
    BY <2>1, <2>2
  <2> QED
    BY <2>3 DEF Kept
<1>3. \A fd \in DOMAIN fdInfoTable' :
        fd \in DOMAIN fdInfoTable /\ fdInfoTable'[fd] = fdInfoTable[fd]
  BY <1>1, WithoutValue
<1> QED
  BY <1>1, <1>2, <1>3, WorkerSame, RestKeeps DEF RInv

-----------------------------------------------------------------------------
(* The way of a request. *)

LEMMA AppendedOnce ==
    ASSUME NEW q \in Seq(Item), NEW it \in Item, QueuedOnce(q), Placed(it),
           \A i \in DOMAIN q : q[i].conn # it.conn
    PROVE  QueuedOnce(Append(q, it))
<1>1. /\ DOMAIN Append(q, it) = DOMAIN q \union {Len(q) + 1}
      /\ \A i \in DOMAIN q : Append(q, it)[i] = q[i]
      /\ Append(q, it)[Len(q) + 1] = it
  BY QueueBack
<1> DEFINE r == Append(q, it)
           n == Len(q) + 1
<1>2. DOMAIN r = DOMAIN q \union {n} /\ (\A i \in DOMAIN q : r[i] = q[i]) /\ r[n] = it
  BY <1>1
<1> HIDE DEF r, n
<1>3. QueuedOnce(r)
  BY <1>2 DEF QueuedOnce
<1> QED
  BY <1>3 DEF r

LEMMA TailOnce ==
    ASSUME NEW q \in Seq(Item), q # <<>>, QueuedOnce(q)
    PROVE  /\ QueuedOnce(Tail(q))
           /\ \A i \in DOMAIN Tail(q) : Tail(q)[i].conn # Head(q).conn
           /\ \A i \in DOMAIN Tail(q) : \E j \in DOMAIN q : Tail(q)[i] = q[j]
<1>1. /\ 1 \in DOMAIN q /\ q[1] = Head(q)
      /\ \A i \in DOMAIN Tail(q) :
            i + 1 \in DOMAIN q /\ i + 1 # 1 /\ Tail(q)[i] = q[i + 1] /\ i \in Int
  BY QueueFront
<1>2. \A i \in DOMAIN Tail(q) : Placed(Tail(q)[i])
  BY <1>1 DEF QueuedOnce
<1>3. ASSUME NEW i \in DOMAIN Tail(q), NEW j \in DOMAIN Tail(q),
             Tail(q)[i].conn = Tail(q)[j].conn
      PROVE  i = j
  <2>1. i + 1 = j + 1
    BY <1>1, <1>3 DEF QueuedOnce
  <2> QED
    BY <1>1, <2>1
<1>4. \A i \in DOMAIN Tail(q) : Tail(q)[i].conn # Head(q).conn
  BY <1>1 DEF QueuedOnce
<1> QED
  BY <1>1, <1>2, <1>3, <1>4 DEF QueuedOnce

\* readAll: the request of c goes from the socket to wqIn.
LEMMA Read ==
    ASSUME AInv, RInv, NEW fd \in DOMAIN sockOf, readAll(sockOf[fd], fd), rx[sockOf[fd]] > 0,
           UNCHANGED <<sockOf, wqOut, witem, wleft, wpc, fdInfoTable, peer, answered, sent, stray>>,
           iopc' # "deliver"
    PROVE  AInv'
<1>0. PICK c : c = sockOf[fd]
  OBVIOUS
<1> DEFINE it == [fd |-> fd, conn |-> c]
<1>1. c \in Conns /\ it \in Item /\ it.conn = c /\ Placed(it)
  BY <1>0, SockConn DEF RInv, SInv, TypeOK, Item, Placed
<1>2. rx \in [Conns -> Nat] /\ wqIn \in Seq(Item)
  BY DEF RInv, SInv, TypeOK, KernelTypeOK, ServerTypeOK
<1>3. rx[c] = 1
  <2>1. rx[c] <= 1 /\ rx[c] > 0 /\ rx[c] \in Nat
    BY <1>0, <1>1, <1>2 DEF AInv, Awaited
  <2> QED
    BY <2>1
<1>4. wqIn' = Append(wqIn, it)
  <2> HIDE DEF it
  <2>1. wqIn' = wqIn \o [k \in 1 .. 1 |-> it]
    BY <1>0, <1>3 DEF readAll, it
  <2>2. [k \in 1 .. 1 |-> it] = <<it>>
    OBVIOUS
  <2> QED
    BY <1>1, <1>2, <2>1, <2>2, AppendProperties
<1>5. At("socket", c) /\ "socket" \in Places
  BY <1>3 DEF At, Holding, Places
<1>6. \A p \in Places : At(p, c) => p = "socket"
  BY <1>1, <1>5 DEF AInv, Awaited
<1>7. \A i \in DOMAIN wqIn : wqIn[i].conn # c
  <2>1. ~At("wqIn", c)
    BY <1>6 DEF Places
  <2> QED
    BY <2>1 DEF At, Holding
<1> HIDE DEF it
<1>8. \A d \in Conns : rx'[d] = IF d = c THEN 0 ELSE rx[d]
  BY <1>0, <1>2 DEF readAll
<1>9. \A i \in DOMAIN wqIn' :
        wqIn'[i].conn = c \/ \E j \in DOMAIN wqIn : wqIn'[i] = wqIn[j]
  BY <1>1, <1>2, <1>4, QueueBack
<1>10. Goes(c, "wqIn")
  <2>1. ASSUME NEW p \in Places, At(p, c)' PROVE p = "wqIn"
    <3>1. p # "socket" /\ p # "wqIn" => At(p, c)
      BY <2>1 DEF At, Holding
    <3>2. p # "socket"
      BY <1>1, <1>8, <2>1 DEF At, Holding
    <3> QED
      BY <1>6, <3>1, <3>2
  <2>2. ASSUME NEW d \in Conns \ {c}, NEW p \in Places, At(p, d)' PROVE At(p, d)
    BY <1>8, <1>9, <2>2 DEF At, Holding
  <2> QED
    BY <2>1, <2>2 DEF Goes
<1>11. \A d \in Conns : rx'[d] <= 1
  BY <1>2, <1>8 DEF AInv, Awaited
<1>12. Awaited'
  BY <1>1, <1>5, <1>10, <1>11, GoesKeeps DEF AInv, Places
<1>13. QueuedOnce(wqIn)'
  <2>1. QueuedOnce(Append(wqIn, it))
    BY <1>1, <1>2, <1>7, AppendedOnce DEF AInv, AddressedRight, Holding
  <2> QED
    BY <1>4, <2>1 DEF QueuedOnce, Placed
<1> QED
  BY <1>12, <1>13 DEF AInv, AddressedRight, Holding, QueuedOnce, Placed

\* The response leaves the server on descriptor fd, for the connection that asked.
LEMMA Answer ==
    ASSUME AInv, RInv, NEW c \in Conns, NEW p \in Places, At(p, c), Received(c, c),
           \A q \in Places : ~At(q, c)',
           \A d \in Conns \ {c}, q \in Places : At(q, d)' => At(q, d),
           UNCHANGED <<rx, sockOf, wqIn, wqOut, witem, wleft, wpc, sent>>,
           \A d \in Conns : peer[d] = "open" => peer'[d] = "open",
           iopc' # "deliver",
           \A fd \in DOMAIN fdInfoTable' :
               fdInfoTable'[fd].tx \in {NoConn, fdInfoTable'[fd].conn}
    PROVE  AInv'
<1>1. answered \in [Conns -> Nat] /\ sent \in [Conns -> Nat]
  BY DEF RInv, SInv, TypeOK, KernelTypeOK
<1>2. \A d \in Conns \ {c} : answered'[d] = answered[d]
  BY <1>1 DEF Received
<1>3. UNCHANGED stray
  BY DEF Received
<1>4. ASSUME NEW d \in Conns
      PROVE  /\ \A q, r \in Places : At(q, d)' /\ At(r, d)' => q = r
             /\ \A q \in Places : At(q, d)' => peer'[d] = "open" /\ answered'[d] < sent'[d]
             /\ rx'[d] <= 1
  <2>1. /\ \A q, r \in Places : At(q, d) /\ At(r, d) => q = r
        /\ \A q \in Places : At(q, d) => peer[d] = "open" /\ answered[d] < sent[d]
        /\ rx[d] <= 1
    BY DEF AInv, Awaited
  <2> HIDE DEF At
  <2> QED
    BY <1>2, <2>1
<1>5. Awaited'
  BY <1>4 DEF Awaited
<1>6. QueuedOnce(wqIn)' /\ QueuedOnce(wqOut)'
  BY DEF AInv, AddressedRight, Holding, QueuedOnce, Placed
<1> QED
  BY <1>3, <1>5, <1>6 DEF AInv, AddressedRight, Holding, Placed

LEMMA FetchKeeps ==
    ASSUME AInv, RInv, WorkerFetch
    PROVE  AInv'
<1>1. wqIn \in Seq(Item) /\ wqIn # <<>> /\ wqIn' = Tail(wqIn) /\ wpc = "idle"
  BY DEF WorkerFetch, RInv, SInv, TypeOK, ServerTypeOK
<1>2. PICK it : it = Head(wqIn)
  OBVIOUS
<1>3. PICK c : c = it.conn
  OBVIOUS
<1>4. it \in Item /\ c \in Conns
  <2>1. it \in Item
    BY <1>1, <1>2, QueueFront
  <2> QED
    BY <1>3, <2>1 DEF Item
<1>5. UNCHANGED <<rx, wqOut, sockOf, peer, answered, sent, stray, iopc, ioitem, fdInfoTable>>
  BY DEF WorkerFetch, kernelVars, historyVars, ioVars, tableVars
<1>6. \/ UNCHANGED <<wpc, witem, wleft>>
      \/ wpc' = "found" /\ witem' = <<it>> /\ UNCHANGED wleft
  <2>1. UNCHANGED wleft
    BY DEF WorkerFetch
  <2>2. CASE SkipItem(Head(wqIn))
    BY <2>1, <2>2 DEF SkipItem
  <2>3. CASE FindHandler(Head(wqIn))
    BY <1>2, <2>1, <2>3 DEF FindHandler
  <2> QED
    BY <2>2, <2>3 DEF WorkerFetch
<1>7. /\ QueuedOnce(wqIn')
      /\ \A i \in DOMAIN wqIn' : wqIn'[i].conn # c
      /\ \A i \in DOMAIN wqIn' : \E j \in DOMAIN wqIn : wqIn'[i] = wqIn[j]
  BY <1>1, <1>2, <1>3, TailOnce DEF AInv, AddressedRight, Holding
<1>8. At("wqIn", c) /\ Placed(it)
  BY <1>1, <1>2, <1>3, QueueFront DEF At, AInv, AddressedRight, Holding, QueuedOnce
<1>9. Goes(c, "worker")
  <2>1. ASSUME NEW p \in Places, At(p, c)' PROVE p = "worker"
    <3>1. p # "wqIn"
      BY <1>7, <2>1 DEF At, Holding
    <3>2. p # "worker" => At(p, c)
      BY <1>5, <2>1, <3>1 DEF At, Holding
    <3>3. At(p, c) => p = "wqIn"
      BY <1>4, <1>8 DEF AInv, Awaited, Places
    <3> QED
      BY <3>1, <3>2, <3>3
  <2>2. ASSUME NEW d \in Conns \ {c}, NEW p \in Places, At(p, d)' PROVE At(p, d)
    BY <1>1, <1>3, <1>5, <1>6, <1>7, <2>2 DEF At, Holding
  <2> QED
    BY <2>1, <2>2 DEF Goes
<1>10. Awaited'
  BY <1>4, <1>5, <1>8, <1>9, GoesKeeps DEF AInv, Awaited, Places
<1>11. QueuedOnce(wqIn)' /\ QueuedOnce(wqOut)'
  BY <1>5, <1>7 DEF AInv, AddressedRight, Holding, QueuedOnce, Placed
<1>12. wleft' <= 1 /\ (Holding' => Placed(Head(witem))')
  BY <1>1, <1>5, <1>6, <1>8 DEF AInv, AddressedRight, Holding, Placed
<1> QED
  BY <1>5, <1>10, <1>11, <1>12 DEF AInv, AddressedRight, Holding, Placed

LEMMA RespondKeeps ==
    ASSUME AInv, RInv, OInv, Respond
    PROVE  AInv'
<1>1. /\ wqOut \in Seq(Item) /\ wleft \in Nat
      /\ wpc = "handling" /\ wpc' = "notify" /\ wleft > 0
      /\ wqOut' = Append(wqOut, Response) /\ wleft' = wleft - 1
      /\ UNCHANGED <<rx, wqIn, sockOf, peer, answered, sent, stray, iopc, ioitem, fdInfoTable>>
  BY DEF Respond, writeFrame, kernelVars, historyVars, ioVars, tableVars,
         RInv, SInv, TypeOK, ServerTypeOK, WorkerTypeOK
<1>2. wleft' = 0
  BY <1>1 DEF AInv, AddressedRight, Holding
<1>3. PICK it : it = Head(witem)
  OBVIOUS
<1>4. PICK c : c = it.conn
  OBVIOUS
<1>5. it \in Item /\ c \in Conns /\ Placed(it) /\ At("worker", c)
  <2>1. it \in Item
    BY <1>1, <1>3, QueuedAwaited DEF RInv
  <2>2. Placed(it) /\ At("worker", c)
    BY <1>1, <1>3, <1>4 DEF At, AInv, AddressedRight, Holding
  <2> QED
    BY <1>4, <2>1, <2>2 DEF Item
<1>11. Response = it
  <2>1. it.conn \in OpenConns
    BY <1>5 DEF Placed, OpenConns, Range
  <2>2. wctx = it
    BY <1>1, <1>3, <2>1 DEF OInv, Called
  <2>3. it = [fd |-> it.fd, conn |-> it.conn]
    BY <1>5 DEF Item
  <2> QED
    BY <1>3, <2>2, <2>3 DEF Response
<1>6. \A p \in Places : At(p, c) => p = "worker"
  BY <1>5 DEF AInv, Awaited, Places
<1>7. \A i \in DOMAIN wqOut : wqOut[i].conn # c
  BY <1>6 DEF At, Holding, Places
<1>8. \A i \in DOMAIN wqOut' :
        wqOut'[i].conn = c \/ \E j \in DOMAIN wqOut : wqOut'[i] = wqOut[j]
  BY <1>1, <1>3, <1>4, <1>5, <1>11, QueueBack
<1>9. Goes(c, "wqOut")
  <2>1. ASSUME NEW p \in Places, At(p, c)' PROVE p = "wqOut"
    <3>1. p # "worker"
      <4>1. ~Holding'
        BY <1>1, <1>2 DEF Holding
      <4> QED
        BY <2>1, <4>1 DEF At
    <3>2. p # "wqOut" => At(p, c)
      BY <1>1, <2>1, <3>1 DEF At, Holding
    <3> QED
      BY <1>6, <3>1, <3>2
  <2>2. ASSUME NEW d \in Conns \ {c}, NEW p \in Places, At(p, d)' PROVE At(p, d)
    BY <1>1, <1>2, <1>8, <2>2 DEF At, Holding
  <2> QED
    BY <2>1, <2>2 DEF Goes
<1>10. Awaited'
  BY <1>1, <1>5, <1>9, GoesKeeps DEF AInv, Awaited, Places
<1>12. QueuedOnce(wqIn)' /\ QueuedOnce(wqOut)'
  <2>1. QueuedOnce(Append(wqOut, it))
    BY <1>1, <1>4, <1>5, <1>7, AppendedOnce DEF AInv, AddressedRight, Holding
  <2> QED
    BY <1>1, <1>3, <1>11, <2>1 DEF AInv, AddressedRight, Holding, QueuedOnce, Placed
<1> QED
  BY <1>1, <1>2, <1>10, <1>12 DEF AInv, AddressedRight, Holding, Placed

LEMMA TakeKeeps ==
    ASSUME AInv, RInv, FetchOut
    PROVE  AInv'
<1>1. /\ wqOut \in Seq(Item) /\ iopc = "fetch"
      /\ UNCHANGED <<rx, wqIn, sockOf, peer, answered, sent, stray, fdInfoTable, wpc, witem, wleft>>
  BY DEF FetchOut, kernelVars, historyVars, workerVars, tableVars,
         RInv, SInv, TypeOK, ServerTypeOK
<1>2. CASE wqOut = <<>>
  BY <1>1, <1>2, QuietRest DEF FetchOut, TakeItem
<1>3. CASE wqOut # <<>>
  <2>1. PICK it : it = Head(wqOut)
    OBVIOUS
  <2>2. PICK c : c = it.conn
    OBVIOUS
  <2>3. iopc' = "deliver" /\ ioitem' = <<it>> /\ wqOut' = Tail(wqOut)
    BY <1>3, <2>1 DEF FetchOut, TakeItem
  <2>4. it \in Item /\ c \in Conns
    <3>1. it \in Item
      BY <1>1, <1>3, <2>1, QueueFront
    <3> QED
      BY <2>2, <3>1 DEF Item
  <2>5. /\ QueuedOnce(wqOut')
        /\ \A i \in DOMAIN wqOut' : wqOut'[i].conn # c
        /\ \A i \in DOMAIN wqOut' : \E j \in DOMAIN wqOut : wqOut'[i] = wqOut[j]
    BY <1>1, <1>3, <2>1, <2>2, <2>3, TailOnce DEF AInv, AddressedRight, Holding
  <2>6. At("wqOut", c) /\ Placed(it)
    BY <1>1, <1>3, <2>1, <2>2, QueueFront DEF At, AInv, AddressedRight, Holding, QueuedOnce
  <2>7. Goes(c, "io")
    <3>1. ASSUME NEW p \in Places, At(p, c)' PROVE p = "io"
      <4>1. p # "wqOut"
        BY <2>5, <3>1 DEF At, Holding
      <4>2. p # "io" => At(p, c)
        BY <1>1, <3>1, <4>1 DEF At, Holding
      <4>3. At(p, c) => p = "wqOut"
        BY <2>4, <2>6 DEF AInv, Awaited, Places
      <4> QED
        BY <4>1, <4>2, <4>3
    <3>2. ASSUME NEW d \in Conns \ {c}, NEW p \in Places, At(p, d)' PROVE At(p, d)
      BY <1>1, <2>2, <2>3, <2>5, <3>2 DEF At, Holding
    <3> QED
      BY <3>1, <3>2 DEF Goes
  <2>8. Awaited'
    BY <1>1, <2>4, <2>6, <2>7, GoesKeeps DEF AInv, Awaited, Places
  <2>9. QueuedOnce(wqIn)' /\ QueuedOnce(wqOut)'
    BY <1>1, <2>5 DEF AInv, AddressedRight, Holding, QueuedOnce, Placed
  <2> QED
    BY <1>1, <2>3, <2>6, <2>8, <2>9 DEF AInv, AddressedRight, Holding, Placed
<1> QED
  BY <1>2, <1>3

LEMMA DeliverAnswers ==
    ASSUME AInv, RInv, Deliver
    PROVE  AInv'
<1>1. /\ iopc = "deliver"
      /\ UNCHANGED <<rx, wqIn, wqOut, sockOf, sent, wpc, witem, wleft>>
  BY DEF Deliver, Dies, kernelVars, historyVars, workerVars, queueVars
<1>2. PICK it : it = Head(ioitem)
  OBVIOUS
<1>3. PICK c : c = it.conn
  OBVIOUS
<1>4. it \in Item /\ c \in Conns /\ it.fd \in DOMAIN sockOf /\ sockOf[it.fd] = c
  <2>1. it \in Item
    BY <1>1, <1>2, QueuedAwaited DEF RInv
  <2>2. Placed(it)
    BY <1>1, <1>2 DEF AInv, AddressedRight, Holding
  <2> QED
    BY <1>3, <2>1, <2>2 DEF Item, Placed
<1>5. At("io", c)
  BY <1>1, <1>2, <1>3 DEF At, Holding
<1>6. \A p \in Places : At(p, c) => p = "io"
  BY <1>4, <1>5 DEF AInv, Awaited, Places
<1>7. CASE DropItem(it)
  BY <1>1, <1>7, QuietRest DEF DropItem
<1>8. CASE Dies
  BY <1>1, <1>8, QuietRest DEF Dies, ioVars, kernelVars, historyVars, tableVars
<1>9. CASE it.fd \in DOMAIN fdInfoTable /\ SendItem(it)
  <2>1. iopc' = "loop"
    BY <1>9 DEF SendItem
  <2>2. CASE Received(c, c) /\ UNCHANGED fdInfoTable /\ (UNCHANGED peer \/ peer[c] = "fin")
    <3>1. UNCHANGED peer
      BY <1>4, <1>5, <2>2, ItemAwaited DEF Places
    <3>2. \A p \in Places : ~At(p, c)'
      <4>1. ASSUME NEW p \in Places, At(p, c)' PROVE p # "io" /\ At(p, c)
        BY <1>1, <2>1, <2>2, <4>1 DEF At, Holding
      <4> QED
        BY <1>6, <4>1
    <3>3. \A d \in Conns \ {c}, p \in Places : At(p, d)' => At(p, d)
      BY <1>1, <2>1, <2>2 DEF At, Holding
    <3>4. \A fd \in DOMAIN fdInfoTable' : fdInfoTable'[fd].tx \in {NoConn, fdInfoTable'[fd].conn}
      BY <2>2 DEF AInv, AddressedRight, Holding
    <3> QED
      BY <1>1, <1>4, <1>5, <2>1, <2>2, <3>1, <3>2, <3>3, <3>4, Answer DEF Places
  <2>3. CASE /\ fdInfoTable' = [fdInfoTable EXCEPT ![it.fd].tx = it.conn]
             /\ UNCHANGED <<answered, stray, peer>>
    <3>1. /\ fdInfoTable[it.fd].conn = c
          /\ fdInfoTable[it.fd] \in [conn : Conns, tx : Conns \union {NoConn}]
      BY <1>4, <1>9, InfoConn
    <3>2. /\ DOMAIN fdInfoTable' = DOMAIN fdInfoTable
          /\ \A fd \in DOMAIN fdInfoTable :
                fd # it.fd => fdInfoTable'[fd] = fdInfoTable[fd]
          /\ fdInfoTable'[it.fd].tx = c /\ fdInfoTable'[it.fd].conn = c
      BY <1>3, <1>9, <2>3, <3>1
    <3>3. Goes(c, "tx")
      <4>1. ASSUME NEW p \in Places, At(p, c)' PROVE p = "tx"
        <5>1. p # "tx" => p # "io" /\ At(p, c)
          BY <1>1, <2>1, <4>1 DEF At, Holding
        <5> QED
          BY <1>6, <5>1
      <4>2. ASSUME NEW d \in Conns \ {c}, NEW p \in Places, At(p, d)' PROVE At(p, d)
        BY <1>1, <2>1, <3>2, <4>2 DEF At, Holding
      <4> QED
        BY <4>1, <4>2 DEF Goes
    <3>4. Awaited'
      BY <1>1, <1>4, <1>5, <2>3, <3>3, GoesKeeps DEF AInv, Awaited, Places
    <3>5. \A fd \in DOMAIN fdInfoTable' : fdInfoTable'[fd].tx \in {NoConn, fdInfoTable'[fd].conn}
      BY <3>2 DEF AInv, AddressedRight, Holding
    <3>6. QueuedOnce(wqIn)' /\ QueuedOnce(wqOut)'
      BY <1>1 DEF AInv, AddressedRight, Holding, QueuedOnce, Placed
    <3> QED
      BY <1>1, <2>1, <2>3, <3>4, <3>5, <3>6 DEF AInv, AddressedRight, Holding, Placed
  <2> QED
    BY <1>3, <1>4, <1>9, <2>2, <2>3 DEF SendItem
<1> QED
  BY <1>2, <1>7, <1>8, <1>9 DEF Deliver

\* Nothing to read.
LEMMA NothingRead ==
    ASSUME RInv, NEW c \in Conns, NEW fd, rx[c] = 0, readAll(c, fd)
    PROVE  UNCHANGED <<wqIn, rx>>
<1>1. rx \in [Conns -> Nat] /\ wqIn \in Seq(Item)
  BY DEF RInv, SInv, TypeOK, KernelTypeOK, ServerTypeOK
<1>2. UNCHANGED rx
  BY <1>1 DEF readAll
<1>3. wqIn' = wqIn \o <<>>
  <2>1. 1 .. 0 = {}
    OBVIOUS
  <2>2. [i \in {} |-> [fd |-> fd, conn |-> c]] = <<>>
    OBVIOUS
  <2> QED
    BY <2>1, <2>2 DEF readAll
<1> QED
  BY <1>1, <1>2, <1>3

LEMMA ReadyAnswers ==
    ASSUME AInv, RInv, iofd \in DOMAIN fdInfoTable, iopc = "client", ClientReady
    PROVE  AInv'
<1>1. PICK c : c = sockOf[iofd]
  OBVIOUS
<1>2. /\ iofd \in DOMAIN sockOf /\ c \in Conns
      /\ fdInfoTable[iofd].conn = c
      /\ fdInfoTable[iofd] \in [conn : Conns, tx : Conns \union {NoConn}]
  BY <1>1, InfoConn
<1>3. /\ IF "IN" \in batch[iofd] THEN readAll(c, iofd) ELSE UNCHANGED <<wqIn, rx>>
      /\ UNCHANGED <<sent, wpc, witem, wleft, wqOut>>
  BY <1>1 DEF ClientReady
<1>4. rx \in [Conns -> Nat]
  BY DEF RInv, SInv, TypeOK, KernelTypeOK
<1>5. rx[c] # 0 => At("socket", c) /\ peer[c] = "open"
  <2>1. ASSUME rx[c] # 0 PROVE At("socket", c)
    BY <1>2, <1>4, <2>1 DEF At, Holding
  <2> QED
    BY <1>2, <2>1, ItemAwaited DEF Places
<1>6. rx[c] = 0 => UNCHANGED <<wqIn, rx>>
  BY <1>2, <1>3, NothingRead
<1>7. CASE "IN" \in batch[iofd] /\ isReadEof(c)
  <2>1. closeClient(iofd) /\ UNCHANGED <<answered, stray, peer>>
    BY <1>1, <1>7 DEF ClientReady
  <2>2. peer[sockOf[iofd]] # "open" /\ rx[c] = 0
    BY <1>1, <1>5, <1>7 DEF isReadEof
  <2> QED
    BY <1>2, <1>3, <1>6, <2>1, <2>2, CloseRest
<1>8. CASE ~("IN" \in batch[iofd] /\ isReadEof(c))
  <2>1. /\ ClientOutput(c) /\ UNCHANGED sockOf
        /\ iopc' = "loop"
    BY <1>1, <1>8 DEF ClientReady, EndEvent
  <2>2. CASE Finishes /\ ~full[c]
    <3>1. /\ Received(c, fdInfoTable[iofd].tx)
          /\ fdInfoTable' = [fdInfoTable EXCEPT ![iofd].tx = NoConn]
          /\ fdInfoTable[iofd].tx # NoConn
          /\ UNCHANGED peer \/ peer[c] = "fin"
      BY <2>1, <2>2 DEF ClientOutput, Finishes, Busy
    <3>2. fdInfoTable[iofd].tx = c
      BY <1>2, <3>1 DEF AInv, AddressedRight, Holding
    <3>3. At("tx", c)
      BY <3>2 DEF At, Holding
    <3>4. \A p \in Places : At(p, c) => p = "tx"
      BY <1>2, <3>3 DEF AInv, Awaited, Places
    <3>5. UNCHANGED <<wqIn, rx>>
      BY <1>5, <1>6, <3>4 DEF Places
    <3>6. UNCHANGED peer
      BY <1>2, <3>1, <3>3, ItemAwaited DEF Places
    <3>7. /\ DOMAIN fdInfoTable' = DOMAIN fdInfoTable
          /\ \A fd \in DOMAIN fdInfoTable :
                fd # iofd => fdInfoTable'[fd] = fdInfoTable[fd]
          /\ fdInfoTable'[iofd].tx = NoConn /\ fdInfoTable'[iofd].conn = c
      BY <1>2, <3>1
    <3>8. c # NoConn
      BY <1>2, ServerAssumption
    <3>9. \A fd \in DOMAIN fdInfoTable : fdInfoTable[fd].tx = c => fd = iofd
      <4>1. ASSUME NEW fd \in DOMAIN fdInfoTable, fdInfoTable[fd].tx = c
            PROVE  fd = iofd
        <5>1. fdInfoTable[fd].conn = c
          BY <3>8, <4>1 DEF AInv, AddressedRight, Holding
        <5>2. fd \in DOMAIN sockOf /\ sockOf[fd] = c
          BY <5>1, InfoConn
        <5> QED
          BY <1>1, <1>2, <5>2 DEF RInv, ConnsOnce
      <4> QED
        BY <4>1
    <3>10. \A p \in Places : ~At(p, c)'
      <4>1. ASSUME NEW p \in Places, At(p, c)' PROVE p # "tx" /\ At(p, c)
        <5>1. p # "tx"
          BY <3>7, <3>8, <3>9, <4>1 DEF At, Holding
        <5> QED
          BY <1>3, <2>1, <3>5, <4>1, <5>1 DEF At, Holding
      <4> QED
        BY <3>4, <4>1
    <3>11. \A d \in Conns \ {c}, p \in Places : At(p, d)' => At(p, d)
      <4>1. ASSUME NEW d \in Conns \ {c}, NEW p \in Places, At(p, d)' PROVE At(p, d)
        <5>1. d # NoConn
          BY ServerAssumption
        <5> QED
          BY <1>3, <2>1, <3>5, <3>7, <4>1, <5>1 DEF At, Holding
      <4> QED
        BY <4>1
    <3>12. \A fd \in DOMAIN fdInfoTable' : fdInfoTable'[fd].tx \in {NoConn, fdInfoTable'[fd].conn}
      BY <3>7 DEF AInv, AddressedRight, Holding
    <3> QED
      BY <1>2, <1>3, <2>1, <3>1, <3>2, <3>3, <3>5, <3>6, <3>10, <3>11, <3>12, Answer DEF Places
  <2>3. CASE ~(Finishes /\ ~full[c])
    <3>1. UNCHANGED <<answered, stray, fdInfoTable, peer>>
      BY <2>1, <2>3 DEF ClientOutput
    <3>2. CASE UNCHANGED <<wqIn, rx>>
      BY <1>3, <2>1, <3>1, <3>2, QuietRest
    <3>3. CASE rx[c] # 0 /\ readAll(c, iofd)
      <4>1. rx[c] > 0
        BY <1>2, <1>4, <3>3
      <4> QED
        BY <1>1, <1>2, <1>3, <2>1, <3>1, <3>3, <4>1, Read
    <3> QED
      BY <1>3, <1>6, <3>2, <3>3
  <2> QED
    BY <2>2, <2>3
<1> QED
  BY <1>7, <1>8

LEMMA EventAnswers ==
    ASSUME AInv, RInv, ClientEvent
    PROVE  AInv'
<1>1. iopc = "client" /\ wpc' = wpc
  BY DEF ClientEvent, ContextNotFound, ClientHungUp, ClientFaulty, ClientReady, ClientIdle, Dies,
         workerVars
<1>2. CASE ContextNotFound \/ ClientIdle
  BY <1>1, <1>2, QuietRest DEF ContextNotFound, ClientIdle, EndEvent, kernelVars, historyVars,
                               workerVars, tableVars, queueVars
<1>3. CASE ClientFaulty
  BY <1>1, <1>3, QuietRest DEF ClientFaulty, Dies, kernelVars, historyVars, ioVars, workerVars,
                               tableVars, queueVars
<1>4. CASE ClientHungUp
  <2>1. iofd \in DOMAIN batch /\ iofd \in ClientFds
    BY <1>1 DEF RInv, SInv, LocalsOK, BatchCurrent
  <2>2. iofd \in DOMAIN sockOf /\ peer[sockOf[iofd]] = "reset"
    BY <1>1, <1>4, <2>1 DEF ClientHungUp, RInv, BatchCurrent, Current
  <2> QED
    BY <1>1, <1>4, <2>2, CloseRest DEF ClientHungUp, historyVars, queueVars
<1>5. CASE iofd \in DOMAIN fdInfoTable /\ ClientReady
  BY <1>1, <1>5, ReadyAnswers
<1> QED
  BY <1>2, <1>3, <1>4, <1>5 DEF ClientEvent

LEMMA IOAnswers ==
    ASSUME AInv, RInv, ~AddMayFail, IO
    PROVE  AInv'
<1>1. CASE AcceptClient
  BY <1>1, AcceptRest
<1>2. CASE CreateHandler
  BY <1>2, CreateRest
<1>3. CASE ClientEvent
  BY <1>3, EventAnswers
<1>4. CASE FetchOut
  BY <1>4, TakeKeeps
<1>5. CASE Deliver
  BY <1>5, DeliverAnswers
<1>6. CASE EpollWait \/ (\E fd \in ClientFds : LockTable(fd)) \/ ReadEventFd
  BY <1>6, QuietRest DEF EpollWait, LockTable, ReadEventFd, AtEvent, kernelVars, historyVars,
                         ioVars, workerVars, tableVars, queueVars
<1>7. CASE DestroyContext
  BY <1>7, QuietRest DEF DestroyContext, EndEvent, kernelVars, historyVars, workerVars, queueVars
<1> QED
  BY <1>1, <1>2, <1>3, <1>4, <1>5, <1>6, <1>7 DEF IO

LEMMA WorkerAnswers ==
    ASSUME AInv, RInv, OInv, Replies \subseteq {0, 1}, Worker
    PROVE  AInv'
<1>1. ~EraseNode /\ ~CloseFind /\ ~CloseClose /\ ~CloseDel /\ ~DestroyHandler
  BY DEF EraseNode, CloseFind, CloseClose, CloseDel, DestroyHandler, RInv, WorkerClosesNot
<1>2. CASE WorkerFetch
  BY <1>2, FetchKeeps
<1>3. CASE Respond
  BY <1>3, RespondKeeps
<1>4. CASE FirstIsActive \/ CallHandler \/ UseOfErased \/ Notify \/ EndFrame \/ SecondIsActive
  <2>1. UNCHANGED <<rx, wqIn, wqOut, answered, sent, stray, sockOf, fdInfoTable, peer, iopc,
                    ioitem>>
    BY <1>4 DEF FirstIsActive, CallHandler, UseOfErased, Notify, EndFrame, SecondIsActive, Dies,
                kernelVars, historyVars, ioVars, tableVars, queueVars
  <2>2. wleft <= 1
    BY DEF AInv, AddressedRight
  <2>3. HandsKept
    <3>1. CASE FirstIsActive \/ UseOfErased \/ Notify \/ EndFrame
      BY <2>2, <3>1 DEF FirstIsActive, UseOfErased, Notify, EndFrame, Dies, workerVars, Holding,
                        HandsKept
    <3>2. CASE CallHandler
      BY <3>2 DEF CallHandler, Holding, HandsKept
    <3>3. CASE SecondIsActive
      BY <2>2, <3>3 DEF SecondIsActive, AfterFrame, WorkerIdle, Holding, HandsKept
    <3> QED
      BY <1>4, <3>1, <3>2, <3>3
  <2> QED
    BY <2>1, <2>3, WorkerRest
<1> QED
  BY <1>1, <1>2, <1>3, <1>4 DEF Worker

\* A client that has its answer has nothing on its way.
LEMMA AnsweredIdle ==
    ASSUME AInv, SInv, NEW c \in Conns, Answered(c)
    PROVE  \A p \in Places : ~At(p, c)
<1>1. sent[c] \in Nat /\ answered[c] = sent[c]
  BY DEF SInv, TypeOK, KernelTypeOK, Answered
<1>2. ~(answered[c] < sent[c])
  BY <1>1
<1> QED
  BY <1>2, ItemAwaited

LEMMA ClientAnswers ==
    ASSUME AInv, RInv, Orderly, NEW c \in Conns, Client(c)
    PROVE  AInv'
<1>1. UNCHANGED <<wqIn, wqOut, sockOf, witem, wleft, wpc, stray, answered, fdInfoTable, iopc,
                  ioitem>>
  BY DEF Client, Connect, Request, Leave, Drain, codeVars, historyVars, ioVars, workerVars,
         tableVars, queueVars
<1>2. /\ peer \in [Conns -> {"none", "open", "fin", "reset"}]
      /\ rx \in [Conns -> Nat] /\ sent \in [Conns -> Nat] /\ answered \in [Conns -> Nat]
  BY DEF RInv, SInv, TypeOK, KernelTypeOK
<1>3. CASE Connect(c) \/ Drain(c)
  <2>1. UNCHANGED <<rx, sent>> /\ \A d \in Conns : peer[d] = "open" => peer'[d] = "open"
    BY <1>2, <1>3 DEF Connect, Drain, historyVars
  <2>2. Kept
    BY <1>1 DEF Kept
  <2> QED
    BY <1>1, <2>1, <2>2, WorkerSame, RestKeeps DEF RInv
<1>4. CASE Leave(c)
  <2>1. UNCHANGED <<rx, sent>> /\ \A d \in Conns \ {c} : peer'[d] = peer[d]
    BY <1>2, <1>4 DEF Leave, historyVars
  <2>2. \A p \in Places : ~At(p, c)
    BY <1>4, AnsweredIdle DEF Leave, RInv
  <2>3. \A d \in Conns, p \in Places : At(p, d)' => At(p, d)
    BY <1>1, <2>1 DEF At, Holding
  <2>4. ASSUME NEW d \in Conns
        PROVE  /\ \A p, q \in Places : At(p, d)' /\ At(q, d)' => p = q
               /\ \A p \in Places : At(p, d)' => peer'[d] = "open" /\ answered'[d] < sent'[d]
               /\ rx'[d] <= 1
    <3>1. /\ \A p, q \in Places : At(p, d) /\ At(q, d) => p = q
          /\ \A p \in Places : At(p, d) => peer[d] = "open" /\ answered[d] < sent[d]
          /\ rx[d] <= 1
      BY DEF AInv, Awaited
    <3> HIDE DEF At
    <3> QED
      BY <1>1, <2>1, <2>2, <2>3, <3>1
  <2>5. Awaited'
    BY <2>4 DEF Awaited
  <2> QED
    BY <1>1, <2>5 DEF AInv, AddressedRight, Holding, QueuedOnce, Placed
<1>5. CASE Request(c)
  <2>1. /\ peer[c] = "open" /\ Answered(c) /\ UNCHANGED peer
        /\ rx'[c] = rx[c] + 1 /\ sent'[c] = sent[c] + 1
        /\ \A d \in Conns \ {c} : rx'[d] = rx[d] /\ sent'[d] = sent[d]
    BY <1>2, <1>5 DEF Request
  <2>2. \A p \in Places : ~At(p, c)
    BY <2>1, AnsweredIdle DEF RInv
  <2>3. rx[c] = 0 /\ rx'[c] = 1
    <3>1. ~(rx[c] > 0)
      BY <2>2 DEF At, Holding, Places
    <3> QED
      BY <1>2, <2>1, <3>1
  <2>4. answered'[c] < sent'[c]
    <3>1. answered[c] = sent[c] /\ sent[c] \in Nat
      BY <1>2, <2>1 DEF Answered
    <3> QED
      BY <1>1, <2>1, <3>1
  <2>5. \A p \in Places : At(p, c)' => p = "socket"
    <3>1. ASSUME NEW p \in Places, At(p, c)', p # "socket" PROVE At(p, c)
      BY <1>1, <3>1 DEF At, Holding
    <3> QED
      BY <2>2, <3>1
  <2>6. \A d \in Conns \ {c}, p \in Places : At(p, d)' => At(p, d)
    BY <1>1, <2>1 DEF At, Holding
  <2>7. ASSUME NEW d \in Conns
        PROVE  /\ \A p, q \in Places : At(p, d)' /\ At(q, d)' => p = q
               /\ \A p \in Places : At(p, d)' => peer'[d] = "open" /\ answered'[d] < sent'[d]
               /\ rx'[d] <= 1
    <3>1. /\ \A p, q \in Places : At(p, d) /\ At(q, d) => p = q
          /\ \A p \in Places : At(p, d) => peer[d] = "open" /\ answered[d] < sent[d]
          /\ rx[d] <= 1
      BY DEF AInv, Awaited
    <3> HIDE DEF At
    <3>2. CASE d = c
      BY <2>1, <2>3, <2>4, <2>5, <3>2
    <3>3. CASE d # c
      BY <1>1, <2>1, <2>6, <3>1, <3>3
    <3> QED
      BY <3>2, <3>3
  <2>8. Awaited'
    BY <2>7 DEF Awaited
  <2> QED
    BY <1>1, <2>8 DEF AInv, AddressedRight, Holding, QueuedOnce, Placed
<1> QED
  BY <1>3, <1>4, <1>5 DEF Client

LEMMA AInvInit == Init => AInv
<1> SUFFICES ASSUME Init PROVE AInv
  OBVIOUS
<1>1. /\ wqIn = <<>> /\ wqOut = <<>> /\ wpc = "idle" /\ wleft = 0 /\ iopc = "loop"
      /\ fdInfoTable = <<>> /\ stray = {} /\ rx = [c \in Conns |-> 0]
  BY DEF Init
<1>2. DOMAIN wqIn = {} /\ DOMAIN wqOut = {} /\ DOMAIN fdInfoTable = {}
  BY <1>1
<1>3. \A c \in Conns, p \in Places : ~At(p, c)
  BY <1>1, <1>2 DEF At, Holding
<1>4. Awaited
  BY <1>1, <1>3 DEF Awaited
<1> QED
  BY <1>1, <1>2, <1>4 DEF AInv, AddressedRight, Holding, QueuedOnce

LEMMA AInvStep ==
    ASSUME AInv, RInv, OInv, ~AddMayFail, Orderly, Replies \subseteq {0, 1}, [Next]_vars
    PROVE  AInv'
<1>1. CASE Next
  BY <1>1, IOAnswers, WorkerAnswers, ClientAnswers DEF Next
<1>2. CASE UNCHANGED vars
  BY <1>2, QuietRest DEF vars, kernelVars, historyVars, ioVars, workerVars, tableVars, queueVars
<1> QED
  BY <1>1, <1>2

\* Where every client waits for its answer before it asks again or leaves, a handler
\* writes at most one response per frame, no session ends by itself and epoll_ctl does
\* not fail, nobody receives the response to somebody else's request: for any number
\* of connections and descriptors, whichever of the frames the descriptors' table
\* lost, and however often a descriptor was used again.
THEOREM AnswersToOwnRequests ==
    ASSUME ~Deactivates, ~AddMayFail, Orderly, Replies \subseteq {0, 1}
    PROVE  Spec => []AnswersOwnRequest
<1>1. AInv => AnswersOwnRequest
  BY DEF AInv, AnswersOwnRequest
<1> QED
  BY <1>1, AInvInit, AInvStep, RInvAlways, OInvAlways, PTL DEF Spec
=============================================================================
