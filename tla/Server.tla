------------------------------- MODULE Server -------------------------------
(***************************************************************************)
(* Server.cpp and ServerWorker.cpp: one I/O thread in an epoll loop and one  *)
(* worker thread, joined by two WorkQueues whose items name a connection by *)
(* its file descriptor only.                                                *)
(*                                                                         *)
(* The kernel (descriptor table, epoll with EPOLLET, eventfd semaphore, TCP *)
(* sockets) and the clients are external: they are modelled by what the     *)
(* code relies on.  A frame arrives whole and well formed here; a frame that *)
(* does not fit the socket's send buffer blocks once (full).                *)
(*                                                                         *)
(* One action is one stretch of code whose accesses to shared state no step *)
(* of the other thread can tell apart.  htMutex is only ever taken inside a *)
(* critical section of fdTableMtx, so it does not appear; the worker's      *)
(* lookups take no lock, and they and every later use of what they found    *)
(* are steps of their own.                                                  *)
(***************************************************************************)
EXTENDS Naturals, Sequences, FiniteSets, Functions

CONSTANTS
    Conns,        \* the connections clients may open
    ClientFds,    \* the descriptors left for clients (RLIMIT_NOFILE)
    ListenFd,     \* Server::fd
    EventFd,      \* Server::eventFdOut, as a descriptor
    NoConn,       \* not a connection: "no frame is being written"
    MaxFrames,    \* bound: requests one connection sends
    Replies,      \* how many responses a handler may write for one frame
    Deactivates,  \* may a handler end its session (setState(nullptr))?
    Orderly,      \* does every client wait for the answer before it goes on?
    AddMayFail,   \* may epoll_ctl(EPOLL_CTL_ADD) fail?
    Rehash        \* is the handler table large enough for an emplace to move it?

ASSUME ServerAssumption ==
    /\ IsFiniteSet(Conns) /\ NoConn \notin Conns
    /\ ClientFds \subseteq Nat
    /\ {ListenFd, EventFd} \subseteq Nat \ ClientFds /\ ListenFd # EventFd
    /\ MaxFrames \in Nat
    /\ Replies \subseteq Nat
    /\ {Deactivates, Orderly, AddMayFail, Rehash} \subseteq BOOLEAN

VARIABLES
    \* kernel and clients (external)
    backlog,      \* connections not yet accepted, in order
    sockOf,       \* open client descriptor -> its connection
    epollSet,     \* client descriptors registered with epoll
    edge,         \* registered descriptors with an edge not reported yet
    peer,         \* what each client did with its end
    rx,           \* frames received for a connection and not read yet
    full,         \* connections whose send buffer is full
    eventFdOut,   \* the counter of the eventfd
    \* history
    sent,         \* requests each client sent
    answered,     \* responses to its own requests each client received
    stray,        \* connections that received a response to somebody else's request
    lost,         \* sessions that ended and closeClient missed
    \* Server
    running, alive, fdTableMtx, fdInfoTable, wqIn, wqOut,
    iopc, batch, iofd, ioitem,
    \* ServerWorker
    handlerTable, inactive, wpc, witem, wnode, wctx, wleft, cctx

kernelVars  == <<backlog, sockOf, epollSet, edge, peer, rx, full>>
historyVars == <<sent, answered, stray, lost>>
ioVars      == <<iopc, batch, iofd, ioitem>>
workerVars  == <<wpc, witem, wnode, wctx, wleft, cctx>>
tableVars   == <<fdInfoTable, handlerTable, inactive>>
queueVars   == <<wqIn, wqOut, eventFdOut>>
vars == <<kernelVars, historyVars, ioVars, workerVars, tableVars, queueVars,
          running, alive, fdTableMtx>>

Item == [fd : ClientFds, conn : Conns]  \* conn is history: the code has the fd only

\* A session: a ProtocolContext, made for a connection, with the descriptor that
\* connection had then (FrameSink::targetFd).  It is never deleted.
Session == [fd : ClientFds \union {ListenFd}, conn : Conns \union {NoConn}]
NoSession == [fd |-> ListenFd, conn |-> NoConn]

Init ==
    /\ backlog = <<>> /\ sockOf = <<>> /\ epollSet = {} /\ edge = {}
    /\ peer = [c \in Conns |-> "none"]
    /\ rx = [c \in Conns |-> 0] /\ full = [c \in Conns |-> FALSE]
    /\ sent = [c \in Conns |-> 0] /\ answered = [c \in Conns |-> 0] /\ stray = {}
    /\ lost = {}
    /\ running = TRUE /\ alive = TRUE /\ fdTableMtx = "free"
    /\ fdInfoTable = <<>> /\ handlerTable = <<>> /\ inactive = {}
    /\ wqIn = <<>> /\ wqOut = <<>> /\ eventFdOut = 0
    /\ iopc = "loop" /\ batch = <<>> /\ iofd = ListenFd /\ ioitem = <<>>
    /\ wpc = "idle" /\ witem = <<>> /\ wnode = NoSession /\ wctx = NoSession /\ wleft = 0
    /\ cctx = [fd |-> ListenFd, freed |-> FALSE]

-----------------------------------------------------------------------------
(* Helpers. *)

Without(f, x) == Restrict(f, DOMAIN f \ {x})

\* unordered_map::emplace: an entry that is there already stays.
Emplace(table, fd, value) ==
    [f \in DOMAIN table \union {fd} |-> IF f \in DOMAIN table THEN table[f] ELSE value]

OpenConns == Range(sockOf)
FdsOf(c) == {f \in DOMAIN sockOf : sockOf[f] = c}
RaiseEdge(c) == edge' = edge \union (FdsOf(c) \intersect epollSet)

\* The process ends: a std::system_error nobody catches, SIGPIPE, or the use of
\* freed memory.
Dies ==
    /\ alive' = FALSE
    /\ UNCHANGED <<kernelVars, historyVars, ioVars, workerVars, tableVars, queueVars,
                   running, fdTableMtx>>

CloseFd(fd) ==
    /\ sockOf' = Without(sockOf, fd)
    /\ epollSet' = epollSet \ {fd}
    /\ edge' = edge \ {fd}

-----------------------------------------------------------------------------
(* The I/O thread: Server::run. *)

Readiness(fd) ==
    LET c == sockOf[fd]
    IN  (IF rx[c] > 0 \/ peer[c] # "open" THEN {"IN"} ELSE {})
        \union (IF full[c] THEN {} ELSE {"OUT"})
        \union (IF peer[c] = "reset" THEN {"HUP"} ELSE {})

Ready ==
    {f \in edge : Readiness(f) # {}}
    \union (IF backlog # <<>> THEN {ListenFd} ELSE {})
    \union (IF eventFdOut > 0 THEN {EventFd} ELSE {})

EpollWait ==
    /\ iopc = "loop" /\ batch = <<>> /\ running
    /\ Ready # {}
    /\ batch' = [f \in Ready |-> IF f \in ClientFds THEN Readiness(f) ELSE {"IN"}]
    /\ edge' = {}
    /\ UNCHANGED <<backlog, sockOf, epollSet, peer, rx, full, historyVars, iopc, iofd,
                   ioitem, workerVars, tableVars, queueVars, running, alive, fdTableMtx>>

AtEvent(fd) == iopc = "loop" /\ fd \in DOMAIN batch

\* The kernel hands out the lowest free descriptor.
LowestFree(fd) ==
    LET free == ClientFds \ DOMAIN sockOf
    IN  fd \in free /\ \A other \in free : fd <= other

acceptFails(c) ==
    /\ \/ peer[c] = "reset" /\ backlog' = Tail(backlog) /\ UNCHANGED running   \* ECONNABORTED
       \/ ClientFds \subseteq DOMAIN sockOf /\ running' = FALSE /\ UNCHANGED backlog  \* EMFILE
    /\ UNCHANGED <<sockOf, epollSet, edge, iopc, iofd, ioitem, peer>>

acceptAdds(c, fd) ==
    /\ sockOf' = Emplace(sockOf, fd, c)
    /\ epollSet' = epollSet \union {fd}
    /\ edge' = edge \union {fd}
    /\ UNCHANGED peer

\* epoll_ctl failed: the descriptor is closed, the rest of acceptClient runs.
acceptAddFails(c) ==
    /\ AddMayFail
    /\ peer' = [peer EXCEPT ![c] = "reset"]
    /\ UNCHANGED <<sockOf, epollSet, edge>>

AcceptClient ==
    /\ AtEvent(ListenFd)
    /\ batch' = Without(batch, ListenFd)
    /\ LET c == Head(backlog)
       IN  \/ acceptFails(c)
           \/ \E fd \in ClientFds :
                /\ LowestFree(fd)
                /\ backlog' = Tail(backlog)
                /\ acceptAdds(c, fd) \/ acceptAddFails(c)
                /\ iopc' = "create" /\ iofd' = fd
                /\ ioitem' = <<[fd |-> fd, conn |-> c]>>
                /\ UNCHANGED running
    /\ UNCHANGED <<rx, full, historyVars, workerVars, tableVars, queueVars, alive, fdTableMtx>>

\* The worker holds handlerIter, and the I/O thread has erased its node.
NodeGone ==
    /\ wpc \in {"found", "erase", "call", "handling", "notify", "handled"}
    /\ ~(wnode.fd \in DOMAIN handlerTable /\ handlerTable[wnode.fd] = wnode.conn)

\* createHandler and createContext, under both mutexes.  A node erased before may
\* be handed out again here, with the worker's reference or iterator still on it.
CreateHandler ==
    /\ iopc = "create" /\ fdTableMtx = "free"
    /\ LET c == Head(ioitem).conn
       IN  /\ fdInfoTable' = Emplace(fdInfoTable, iofd, [conn |-> c, tx |-> NoConn])
           /\ handlerTable' = Emplace(handlerTable, iofd, c)
    /\ \/ UNCHANGED cctx
       \/ cctx.freed /\ cctx' = [fd |-> iofd, freed |-> TRUE]
    /\ \/ UNCHANGED wnode
       \/ NodeGone /\ wnode' = Head(ioitem)
    /\ iopc' = "loop" /\ ioitem' = <<>> /\ iofd' = ListenFd
    /\ UNCHANGED <<kernelVars, historyVars, batch, wpc, witem, wctx, wleft, inactive,
                   queueVars, running, alive, fdTableMtx>>

LockTable(fd) ==
    /\ AtEvent(fd) /\ fd \in ClientFds /\ fdTableMtx = "free"
    /\ fdTableMtx' = "io" /\ iopc' = "client" /\ iofd' = fd
    /\ UNCHANGED <<kernelVars, historyVars, batch, ioitem, workerVars, tableVars, queueVars,
                   running, alive>>

-----------------------------------------------------------------------------
(* Events on a client's descriptor: one lock_guard from the lookup to the end. *)

Busy(fd) == fdInfoTable[fd].tx # NoConn

\* send and recv fail with something else than EAGAIN.
Faulty(fd) == fd \in DOMAIN sockOf => peer[sockOf[fd]] = "reset"

\* Mutant: an early "continue" that does not release the mutex.
EndEventLocked ==
    /\ iopc' = "loop" /\ batch' = Without(batch, iofd) /\ iofd' = ListenFd
    /\ UNCHANGED <<ioitem, running, alive, fdTableMtx>>

EndEvent ==
    /\ iopc' = "loop" /\ batch' = Without(batch, iofd) /\ fdTableMtx' = "free"
    /\ iofd' = ListenFd
    /\ UNCHANGED <<ioitem, running, alive>>

ContextNotFound ==
    /\ iofd \notin DOMAIN fdInfoTable
    /\ EndEvent
    /\ UNCHANGED <<kernelVars, historyVars, workerVars, tableVars, queueVars>>

\* Mutant: the client's descriptor is closed but not forgotten.
closeClientForgetsFd(fd) ==
    /\ fdInfoTable' = Without(fdInfoTable, fd) /\ iopc' = "destroy"
    /\ UNCHANGED <<sockOf, epollSet, edge, cctx, batch, iofd, ioitem, running, alive, fdTableMtx>>

\* closeClient(ConnectionContext&) up to fdInfoTable.erase, which frees the node
\* the worker may hold a reference to.
closeClient(fd) ==
    /\ CloseFd(fd)
    /\ fdInfoTable' = Without(fdInfoTable, fd)
    /\ cctx' = [cctx EXCEPT !.freed = @ \/ (wpc \in {"wclose", "wdel", "wdestroy"} /\ cctx.fd = fd)]
    /\ iopc' = "destroy"
    /\ UNCHANGED <<batch, iofd, ioitem, running, alive, fdTableMtx>>

\* Mutant: the handler of a closed connection stays in the table.
destroyContextNot(fd) == UNCHANGED handlerTable

destroyContext(fd) == handlerTable' = Without(handlerTable, fd)

\* The rest of closeClient: worker->destroyContext, then the lock is released.
DestroyContext ==
    /\ iopc = "destroy"
    /\ destroyContext(iofd)
    /\ EndEvent
    /\ UNCHANGED <<kernelVars, historyVars, workerVars, fdInfoTable, inactive, queueVars>>

ClientHungUp ==
    /\ "HUP" \in batch[iofd]
    /\ closeClient(iofd)
    /\ UNCHANGED <<backlog, peer, rx, full, historyVars, wpc, witem, wnode, wctx, wleft,
                   handlerTable, inactive, queueVars>>

Finishes == "OUT" \in batch[iofd] /\ Busy(iofd)

ClientFaulty ==
    /\ "HUP" \notin batch[iofd] /\ Faulty(iofd)
    /\ "IN" \in batch[iofd] \/ Finishes
    /\ Dies

\* Connection c gets the response to a request of connection asker.
Received(c, asker) ==
    /\ answered' = [answered EXCEPT ![c] = IF c = asker /\ peer[c] = "open" THEN @ + 1 ELSE @]
    /\ stray' = IF c # asker /\ peer[c] = "open" THEN stray \union {c} ELSE stray

\* Mutant: one frame is read per event although the events are edges.
readOne(c, fd) ==
    /\ wqIn' = IF rx[c] = 0 THEN wqIn ELSE Append(wqIn, [fd |-> fd, conn |-> c])
    /\ rx' = [rx EXCEPT ![c] = IF @ = 0 THEN 0 ELSE @ - 1]

readAll(c, fd) ==
    /\ wqIn' = wqIn \o [i \in 1 .. rx[c] |-> [fd |-> fd, conn |-> c]]
    /\ rx' = [rx EXCEPT ![c] = 0]

\* Mutant: readAll stopped, so the stream is taken to have ended.
readStopped(c) == TRUE

\* isReadEof after readAll: the last recv returned 0, not EAGAIN.
isReadEof(c) == peer[c] = "fin"

\* EPOLLOUT: the blocked frame goes out; then EPOLLIN: every frame there is.
\* A peer that has closed answers data with a reset.
ClientOutput(c) ==
    IF Finishes /\ ~full[c]
    THEN /\ Received(c, fdInfoTable[iofd].tx)
         /\ fdInfoTable' = [fdInfoTable EXCEPT ![iofd].tx = NoConn]
         /\ IF peer[c] = "fin"
            THEN peer' = [peer EXCEPT ![c] = "reset"] /\ RaiseEdge(c)
            ELSE UNCHANGED <<peer, edge>>
    ELSE UNCHANGED <<answered, stray, fdInfoTable, peer, edge>>

ClientReady ==
    /\ "HUP" \notin batch[iofd] /\ ~Faulty(iofd)
    /\ LET c == sockOf[iofd]
       IN  /\ IF "IN" \in batch[iofd] THEN readAll(c, iofd) ELSE UNCHANGED <<wqIn, rx>>
           /\ IF "IN" \in batch[iofd] /\ isReadEof(c)
              THEN /\ closeClient(iofd)
                   /\ UNCHANGED <<answered, stray, peer>>
              ELSE /\ ClientOutput(c) /\ EndEvent
                   /\ UNCHANGED <<sockOf, epollSet, cctx>>
    /\ UNCHANGED <<backlog, full, sent, lost, wpc, witem, wnode, wctx, wleft, handlerTable,
                   inactive, wqOut, eventFdOut>>

\* EPOLLOUT alone, nothing to write: no call that could fail.
ClientIdle ==
    /\ batch[iofd] = {"OUT"} /\ Faulty(iofd) /\ ~Busy(iofd)
    /\ EndEvent
    /\ UNCHANGED <<kernelVars, historyVars, workerVars, tableVars, queueVars>>

ClientEvent ==
    /\ iopc = "client"
    /\ \/ ContextNotFound
       \/ /\ iofd \in DOMAIN fdInfoTable
          /\ ClientHungUp \/ ClientFaulty \/ ClientReady \/ ClientIdle

-----------------------------------------------------------------------------
(* The event of the worker: handleDataOut. *)

ReadEventFd ==
    /\ AtEvent(EventFd)
    /\ eventFdOut' = eventFdOut - 1
    /\ batch' = Without(batch, EventFd) /\ iopc' = "fetch"
    /\ UNCHANGED <<kernelVars, historyVars, iofd, ioitem, workerVars, tableVars, wqIn, wqOut,
                   running, alive, fdTableMtx>>

\* Mutant: the front is copied and queue.pop() forgotten.
TakeFrontOnly ==
    /\ iopc' = IF wqOut = <<>> THEN "loop" ELSE "deliver"
    /\ ioitem' = IF wqOut = <<>> THEN <<>> ELSE <<Head(wqOut)>>
    /\ UNCHANGED wqOut

TakeItem ==
    IF wqOut = <<>>
    THEN iopc' = "loop" /\ UNCHANGED <<wqOut, ioitem>>
    ELSE iopc' = "deliver" /\ ioitem' = <<Head(wqOut)>> /\ wqOut' = Tail(wqOut)

FetchOut ==
    /\ iopc = "fetch"
    /\ TakeItem
    /\ UNCHANGED <<kernelVars, historyVars, batch, iofd, workerVars, tableVars, wqIn,
                   eventFdOut, running, alive, fdTableMtx>>

\* setSentItem refuses, or there is no context: the item is dropped.
DropItem(it) ==
    /\ it.fd \in DOMAIN fdInfoTable => Busy(it.fd)
    /\ iopc' = "loop" /\ ioitem' = <<>>
    /\ UNCHANGED <<answered, stray, fdInfoTable, full, peer, edge, alive>>

SendItem(it) ==
    LET c == sockOf[it.fd]
    IN  /\ iopc' = "loop" /\ ioitem' = <<>>
        /\ \/ /\ ~full[c]
              /\ Received(c, it.conn)
              /\ IF peer[c] = "fin"
                 THEN peer' = [peer EXCEPT ![c] = "reset"] /\ RaiseEdge(c)
                 ELSE UNCHANGED <<peer, edge>>
              /\ UNCHANGED <<fdInfoTable, full>>
           \/ /\ peer[c] = "open"   \* EAGAIN: the rest waits for EPOLLOUT
              /\ fdInfoTable' = [fdInfoTable EXCEPT ![it.fd].tx = it.conn]
              /\ full' = [full EXCEPT ![c] = TRUE]
              /\ UNCHANGED <<answered, stray, peer, edge>>
        /\ UNCHANGED alive

Deliver ==
    /\ iopc = "deliver" /\ fdTableMtx = "free"
    /\ LET it == Head(ioitem)
           ready == it.fd \in DOMAIN fdInfoTable /\ ~Busy(it.fd)
       IN  \/ DropItem(it)
              /\ UNCHANGED <<backlog, sockOf, epollSet, rx, sent, lost, batch, iofd,
                             workerVars, handlerTable, inactive, queueVars, running,
                             fdTableMtx>>
           \/ ready /\ Faulty(it.fd) /\ Dies
           \/ ready /\ ~Faulty(it.fd) /\ SendItem(it)
              /\ UNCHANGED <<backlog, sockOf, epollSet, rx, sent, lost, batch, iofd,
                             workerVars, handlerTable, inactive, queueVars, running,
                             fdTableMtx>>

IO ==
    /\ alive
    /\ \/ EpollWait \/ AcceptClient \/ CreateHandler
       \/ \E fd \in ClientFds : LockTable(fd)
       \/ ClientEvent \/ DestroyContext
       \/ ReadEventFd \/ FetchOut \/ Deliver

-----------------------------------------------------------------------------
(* The worker thread: ServerWorker::run. *)

NoContext == [fd |-> ListenFd, freed |-> FALSE]

\* find does not take htMutex: while the I/O thread moves the table it may miss.
TableMoves == Rehash /\ iopc = "create"

SkipItem(it) ==
    /\ it.fd \notin DOMAIN handlerTable \/ TableMoves
    /\ UNCHANGED <<wpc, witem, wnode>>

FindHandler(it) ==
    /\ it.fd \in DOMAIN handlerTable
    /\ wpc' = "found" /\ witem' = <<it>>
    /\ wnode' = [fd |-> it.fd, conn |-> handlerTable[it.fd]]

\* fetchItemBlocking and find: the I/O thread does no more to wqIn than append.
WorkerFetch ==
    /\ wpc = "idle" /\ wqIn # <<>>
    /\ wqIn' = Tail(wqIn)
    /\ LET it == Head(wqIn) IN SkipItem(it) \/ FindHandler(it)
    /\ UNCHANGED <<kernelVars, historyVars, ioVars, wctx, wleft, cctx, tableVars, wqOut,
                   eventFdOut, running, alive, fdTableMtx>>

WorkerIdle ==
    /\ wpc' = "idle" /\ witem' = <<>> /\ wnode' = NoSession /\ wctx' = NoSession
    /\ wleft' = 0 /\ cctx' = NoContext

\* The first isActive, and the three other uses of handlerIter below: each reads
\* the node as it is by then, handed out again (CreateHandler) or erased.
FirstIsActive ==
    /\ wpc = "found"
    /\ wpc' = IF wnode.conn \in inactive THEN "erase" ELSE "call"
    /\ UNCHANGED <<kernelVars, historyVars, ioVars, witem, wnode, wctx, wleft, cctx, tableVars,
                   queueVars, running, alive, fdTableMtx>>

\* The session ended but its entry is still there.  An iterator to no entry of the
\* table runs erase off the end of its bucket (UseOfErased).
EraseNode ==
    /\ wpc = "erase" /\ ~NodeGone
    /\ handlerTable' = Without(handlerTable, wnode.fd)
    /\ WorkerIdle
    /\ UNCHANGED <<kernelVars, historyVars, ioVars, fdInfoTable, inactive, queueVars, running,
                   alive, fdTableMtx>>

CallHandler ==
    /\ wpc = "call"
    /\ wpc' = "handling" /\ wctx' = wnode /\ wleft' \in Replies
    /\ UNCHANGED <<kernelVars, historyVars, ioVars, witem, wnode, cctx, tableVars, queueVars,
                   running, alive, fdTableMtx>>

UseOfErased == wpc \in {"found", "erase", "call", "handled"} /\ NodeGone /\ Dies

\* The frame goes where the session came from; conn is who asked for it.
Response == [fd |-> wctx.fd, conn |-> Head(witem).conn]

\* Mutant: the frame is queued and the I/O thread is not told.
writeFrameUnnotified ==
    /\ wqOut' = Append(wqOut, Response)
    /\ UNCHANGED wpc

\* FrameSink::writeFrame: first the queue, then the eventfd (Notify).
writeFrame ==
    /\ wqOut' = Append(wqOut, Response)
    /\ wpc' = "notify"

Respond ==
    /\ wpc = "handling" /\ wleft > 0
    /\ wleft' = wleft - 1
    /\ writeFrame
    /\ UNCHANGED <<kernelVars, historyVars, ioVars, witem, wnode, wctx, cctx, tableVars, wqIn,
                   eventFdOut, running, alive, fdTableMtx>>

Notify ==
    /\ wpc = "notify"
    /\ eventFdOut' = eventFdOut + 1 /\ wpc' = "handling"
    /\ UNCHANGED <<kernelVars, historyVars, ioVars, witem, wnode, wctx, wleft, cctx, tableVars,
                   wqIn, wqOut, running, alive, fdTableMtx>>

\* handleFrame returns.  It may have ended its session; closeClient will be asked
\* for the descriptor of the item, whatever descriptor the session has.
EndFrame ==
    /\ wpc = "handling" /\ wleft = 0
    /\ wpc' = "handled"
    /\ \/ UNCHANGED <<inactive, lost>>
       \/ /\ Deactivates
          /\ inactive' = inactive \union {wctx.conn}
          /\ lost' = IF wctx.fd = Head(witem).fd THEN lost ELSE lost \union {wctx.conn}
    /\ UNCHANGED <<kernelVars, sent, answered, stray, ioVars, witem, wnode, wctx, wleft, cctx,
                   fdInfoTable, handlerTable, queueVars, running, alive, fdTableMtx>>

\* Mutant: isActive is not asked again after handleFrame.
AfterFrameOnly == WorkerIdle

\* The second isActive decides; a node handed out again answers for its new session.
AfterFrame ==
    \/ /\ wnode.conn \in inactive
       /\ wpc' = "close" /\ wnode' = NoSession
       /\ UNCHANGED <<witem, wctx, wleft, cctx>>
    \/ wnode.conn \notin inactive /\ WorkerIdle

SecondIsActive ==
    /\ wpc = "handled"
    /\ AfterFrame
    /\ UNCHANGED <<kernelVars, historyVars, ioVars, tableVars, queueVars, running, alive,
                   fdTableMtx>>

\* closeClient(int): the lookup takes no lock; the reference it yields is read
\* again by close, epollDelClient and destroyHandler.
CloseFind ==
    /\ wpc = "close"
    /\ LET fd == Head(witem).fd
       IN  \/ fd \notin DOMAIN fdInfoTable /\ WorkerIdle /\ UNCHANGED lost
           \/ fd \in DOMAIN fdInfoTable /\ TableMoves /\ WorkerIdle
              /\ lost' = lost \union {wctx.conn}
           \/ /\ fd \in DOMAIN fdInfoTable
              /\ wpc' = "wclose" /\ cctx' = [fd |-> fd, freed |-> FALSE]
              /\ UNCHANGED <<witem, wnode, wctx, wleft, lost>>
    /\ UNCHANGED <<kernelVars, sent, answered, stray, ioVars, tableVars, queueVars, running,
                   alive, fdTableMtx>>

CloseClose ==
    /\ wpc = "wclose"
    /\ CloseFd(cctx.fd)
    /\ wpc' = "wdel"
    /\ UNCHANGED <<backlog, peer, rx, full, historyVars, ioVars, witem, wnode, wctx, wleft,
                   cctx, tableVars, queueVars, running, alive, fdTableMtx>>

\* The descriptor is closed by now: this removes whoever has it since.
CloseDel ==
    /\ wpc = "wdel"
    /\ epollSet' = epollSet \ {cctx.fd} /\ edge' = edge \ {cctx.fd}
    /\ wpc' = "wdestroy"
    /\ UNCHANGED <<backlog, sockOf, peer, rx, full, historyVars, ioVars, witem, wnode, wctx, wleft,
                   cctx, tableVars, queueVars, running, alive, fdTableMtx>>

DestroyHandler ==
    /\ wpc = "wdestroy" /\ fdTableMtx = "free"
    /\ fdInfoTable' = Without(fdInfoTable, cctx.fd)
    /\ handlerTable' = Without(handlerTable, cctx.fd)
    /\ WorkerIdle
    /\ UNCHANGED <<kernelVars, historyVars, ioVars, inactive, queueVars, running, alive,
                   fdTableMtx>>

Worker ==
    /\ alive
    /\ \/ WorkerFetch \/ FirstIsActive \/ EraseNode \/ CallHandler \/ UseOfErased
       \/ Respond \/ Notify \/ EndFrame \/ SecondIsActive
       \/ CloseFind \/ CloseClose \/ CloseDel \/ DestroyHandler

-----------------------------------------------------------------------------
(* The clients (external). *)

codeVars == <<ioVars, workerVars, tableVars, queueVars, running, alive, fdTableMtx>>

Connected(c) == c \in Range(backlog) \union OpenConns
Answered(c) == answered[c] = sent[c]

Connect(c) ==
    /\ peer[c] = "none"
    /\ peer' = [peer EXCEPT ![c] = "open"]
    /\ backlog' = Append(backlog, c)
    /\ UNCHANGED <<sockOf, epollSet, edge, rx, full, historyVars, codeVars>>

Request(c) ==
    /\ peer[c] = "open" /\ Connected(c)
    /\ sent[c] < MaxFrames
    /\ Orderly => Answered(c)
    /\ sent' = [sent EXCEPT ![c] = @ + 1] /\ rx' = [rx EXCEPT ![c] = @ + 1]
    /\ RaiseEdge(c)
    /\ UNCHANGED <<backlog, sockOf, epollSet, peer, full, answered, stray, lost, codeVars>>

\* close(2): a FIN, or a reset when the server's data was not read.
Leave(c) ==
    /\ peer[c] = "open"
    /\ Orderly => Answered(c)
    /\ \E how \in IF Orderly THEN {"fin"} ELSE {"fin", "reset"} :
           peer' = [peer EXCEPT ![c] = how]
    /\ RaiseEdge(c)
    /\ UNCHANGED <<backlog, sockOf, epollSet, rx, full, historyVars, codeVars>>

\* The client reads, or is gone: the send buffer has room again.
Drain(c) ==
    /\ full[c]
    /\ full' = [full EXCEPT ![c] = FALSE]
    /\ RaiseEdge(c)
    /\ UNCHANGED <<backlog, sockOf, epollSet, peer, rx, historyVars, codeVars>>

Client(c) == alive /\ (Connect(c) \/ Request(c) \/ Leave(c) \/ Drain(c))

-----------------------------------------------------------------------------

Next == IO \/ Worker \/ \E c \in Conns : Client(c)

Spec == Init /\ [][Next]_vars

\* Both threads run, and clients read what is sent to them; a client need not
\* connect, ask or leave.
Fairness ==
    /\ WF_vars(IO)
    /\ WF_vars(Worker)
    /\ \A c \in Conns : WF_vars(alive /\ Drain(c))

FairSpec == Spec /\ Fairness

-----------------------------------------------------------------------------
(* Properties. *)

PartialFn(S, T) == UNION {[D -> T] : D \in SUBSET S}

KernelTypeOK ==
    /\ backlog \in Seq(Conns)
    /\ sockOf \in PartialFn(ClientFds, Conns)
    /\ epollSet \subseteq ClientFds /\ edge \subseteq epollSet
    /\ peer \in [Conns -> {"none", "open", "fin", "reset"}]
    /\ rx \in [Conns -> Nat] /\ full \in [Conns -> BOOLEAN]
    /\ sent \in [Conns -> Nat] /\ answered \in [Conns -> Nat]
    /\ stray \subseteq Conns /\ lost \subseteq Conns

ServerTypeOK ==
    /\ running \in BOOLEAN /\ alive \in BOOLEAN
    /\ fdInfoTable \in PartialFn(ClientFds, [conn : Conns, tx : Conns \union {NoConn}])
    /\ wqIn \in Seq(Item) /\ wqOut \in Seq(Item) /\ eventFdOut \in Nat
    /\ iopc \in {"loop", "create", "client", "destroy", "fetch", "deliver"}
    /\ DOMAIN batch \subseteq ClientFds \union {ListenFd, EventFd}
    /\ iofd \in ClientFds \union {ListenFd}
    /\ ioitem \in Seq(Item)
    /\ fdTableMtx = IF iopc \in {"client", "destroy"} THEN "io" ELSE "free"

WorkerTypeOK ==
    /\ handlerTable \in PartialFn(ClientFds, Conns) /\ inactive \subseteq Conns
    /\ wpc \in {"idle", "found", "erase", "call", "handling", "notify", "handled",
                "close", "wclose", "wdel", "wdestroy"}
    /\ witem \in Seq(Item) /\ {wnode, wctx} \subseteq Session /\ wleft \in Nat
    /\ cctx \in [fd : ClientFds \union {ListenFd}, freed : BOOLEAN]

\* Types of the members; the mutex is held exactly while the I/O thread is inside
\* the critical section of a client event, whichever way it leaves it.
TypeOK == KernelTypeOK /\ ServerTypeOK /\ WorkerTypeOK

\* Every response in wqOut has its notification, still in the eventfd, being
\* written, or just read: the I/O thread takes one item per notification
\* (EFD_SEMAPHORE), so one lost or surplus notification would hold the last
\* response back for good.
NotificationAccounting ==
    Len(wqOut) = eventFdOut + (IF wpc = "notify" THEN 1 ELSE 0) + (IF iopc = "fetch" THEN 1 ELSE 0)

\* Where only the I/O thread closes connections, the four registries of a
\* connection agree whenever the thread is between two events: the descriptor
\* table, epoll, fdInfoTable and handlerTable.
TablesAgree ==
    iopc = "loop" =>
        /\ DOMAIN sockOf = epollSet
        /\ DOMAIN fdInfoTable = DOMAIN sockOf
        /\ handlerTable = sockOf
        /\ \A fd \in DOMAIN fdInfoTable : fdInfoTable[fd].conn = sockOf[fd]

\* The events are edges: input nobody read, or the end of the stream, always has
\* an edge to come, an event in the batch or the I/O thread at work on it.
NoStrandedInput ==
    \A fd \in DOMAIN sockOf :
        (rx[sockOf[fd]] > 0 \/ peer[sockOf[fd]] # "open") =>
            fd \in edge \union DOMAIN batch

\* A request of a connection that is still open is handled by the session that
\* was created for that connection, whatever its descriptor stood for before.
OwnSession ==
    (wpc = "handling" /\ Head(witem).conn \in OpenConns) => wctx.conn = Head(witem).conn

\* Nobody receives the response to somebody else's request.
AnswersOwnRequest == stray = {}

\* The server closes a connection that epoll watches only when its client hung up.
ClosedOnlyIfGone ==
    [][\A fd \in DOMAIN sockOf :
          (fd \in epollSet /\ fd \notin DOMAIN sockOf') => peer[sockOf[fd]] # "open"]_vars

Stopped == ~alive \/ ~running

\* A client that waits for its answer gets it.
RequestAnswered ==
    \A c \in Conns :
        (sent[c] > answered[c]) ~> (Answered(c) \/ peer[c] # "open" \/ Stopped)

\* A connection whose client is gone does not keep its descriptor.
GoneIsClosed ==
    \A c \in Conns :
        (c \in OpenConns /\ peer[c] # "open") ~> (c \notin OpenConns \/ Stopped)

\* A session that ended has its connection closed, whoever closes it.  Two ways to
\* miss it are the exception: the session was reached through a node handed out
\* again and ended with a frame of another descriptor, or the lookup of
\* closeClient(int) ran while an accept moved fdInfoTable.
EndedIsClosed ==
    \A c \in Conns : (c \in inactive) ~> (c \notin OpenConns \/ ~alive \/ c \in lost)
=============================================================================
