--------------------------- MODULE ServerLifecycle ---------------------------
(***************************************************************************)
(* How the server starts and how it ends: Server::run with its worker       *)
(* thread, and the three ways out of it: main.cpp's cleanup (from the       *)
(* SIGINT handler or after run), Server::stop and Server::terminate.        *)
(*                                                                         *)
(* The worker's loop drives the queue wqIn, an instance of WorkQueue, so    *)
(* that a cancellation can meet it anywhere.  The event loop is reduced to  *)
(* the mutexes it holds when it is interrupted: the handler of SIGINT runs  *)
(* on top of the I/O thread, which never continues.                         *)
(***************************************************************************)
EXTENDS WorkQueue

CONSTANTS
    TheWorker,  \* the worker thread, the only fetcher of wqIn
    Callers     \* the ways out considered: "SIGINT" is main.cpp, the others the API

ASSUME LifecycleAssumption ==
    /\ Fetchers = {TheWorker}
    /\ Callers \subseteq {"SIGINT", "stop", "terminate"}

VARIABLES
    caller,       \* which way out this behaviour has
    running,      \* std::atomic_bool Server::running
    worker,       \* Server::worker: "null" or "object"
    runnerThread, \* is ServerWorker::runnerThread set?
    shouldStop,   \* bool ServerWorker::shouldStop
    eventFdOut,   \* the counter of the eventfd
    mpc,          \* where main and the I/O thread are
    wpc,          \* where the worker thread is
    epc,          \* where the thread is that ends the server
    alive,        \* FALSE once the process exited, or died of a dead pointer
    \* history
    interrupted,  \* where main was when cleanup began
    lost,         \* did the cancellation come between the worker's test and its fetch?
    unjoined      \* was the thread not stored yet when stop looked for it?

serverVars == <<running, worker, runnerThread, shouldStop, eventFdOut>>
pcVars == <<mpc, wpc, epc>>
noteVars == <<caller, alive, interrupted, lost, unjoined>>
vars == <<wqVars, serverVars, pcVars, noteVars>>

LCInit ==
    /\ WQInit
    /\ caller \in Callers
    /\ running = FALSE /\ worker = "null" /\ runnerThread = FALSE /\ shouldStop = FALSE
    /\ eventFdOut = 0
    /\ mpc = "bind" /\ wpc = "unborn" /\ epc = "idle"
    /\ alive = TRUE /\ interrupted = "none" /\ lost = FALSE /\ unjoined = FALSE

\* What the I/O thread holds; once it is interrupted it holds it for good.
At == IF mpc = "cleanup" THEN interrupted ELSE mpc
QueueMutexHeld == At = "push"
FdTableMtxHeld == At \in {"table", "push", "use"}

Dies ==
    /\ alive' = FALSE
    /\ UNCHANGED <<wqVars, serverVars, pcVars, caller, interrupted, lost, unjoined>>

Main(from, to) == mpc = from /\ mpc' = to

-----------------------------------------------------------------------------
(* main and the I/O thread. *)

\* main.cpp ignores the result: run is entered although running is FALSE.
bindSock ==
    /\ Main("bind", "new")
    /\ running' \in BOOLEAN
    /\ UNCHANGED <<wqVars, worker, runnerThread, shouldStop, eventFdOut, wpc, epc, noteVars>>

newWorker ==
    /\ Main("new", "start")
    /\ worker' = "object" /\ shouldStop' = FALSE
    /\ UNCHANGED <<wqVars, running, runnerThread, eventFdOut, wpc, epc, noteVars>>

\* ServerWorker::start: the thread runs before the member that names it is set.
startThread ==
    /\ Main("start", "store") /\ worker = "object"
    /\ wpc' = "test"
    /\ UNCHANGED <<wqVars, serverVars, epc, noteVars>>

storeThread ==
    /\ Main("store", "loop") /\ worker = "object"
    /\ runnerThread' = TRUE
    /\ UNCHANGED <<wqVars, running, worker, shouldStop, eventFdOut, wpc, epc, noteVars>>

\* Another thread deleted the worker meanwhile.
DeletedUnderMain == mpc \in {"start", "store", "use"} /\ worker = "null" /\ Dies

testRunning ==
    /\ Main("loop", IF running THEN "epoll" ELSE "returned")
    /\ UNCHANGED <<wqVars, serverVars, wpc, epc, noteVars>>

\* The eventfd is readable: handleDataOut locks the table.
eventOut ==
    /\ Main("epoll", "table")
    /\ eventFdOut > 0 /\ eventFdOut' = eventFdOut - 1
    /\ UNCHANGED <<wqVars, running, worker, runnerThread, shouldStop, wpc, epc, noteVars>>

\* An event of a client.
eventClient ==
    /\ Main("epoll", "table")
    /\ UNCHANGED <<wqVars, serverVars, wpc, epc, noteVars>>

\* epoll_wait or accept4 fails, or the listening socket reports an error.
eventFails ==
    /\ Main("epoll", "loop")
    /\ running' = FALSE
    /\ UNCHANGED <<wqVars, worker, runnerThread, shouldStop, eventFdOut, wpc, epc, noteVars>>

unlockTable ==
    /\ Main("table", "loop")
    /\ UNCHANGED <<wqVars, serverVars, wpc, epc, noteVars>>

\* handleDataIn found a whole frame: pushItem locks the queue, too.
lockQueue ==
    /\ Main("table", "push") /\ Len(accepted) < MaxAccepted
    /\ UNCHANGED <<wqVars, serverVars, wpc, epc, noteVars>>

pushFrame ==
    /\ Main("push", "table")
    /\ \E itm \in Items : pushItem(itm)
    /\ UNCHANGED <<serverVars, wpc, epc, noteVars>>

\* createHandler and closeClient test the pointer, then use it.
findWorker ==
    /\ Main("table", "use") /\ worker = "object"
    /\ UNCHANGED <<wqVars, serverVars, wpc, epc, noteVars>>

useWorker ==
    /\ Main("use", "loop") /\ worker = "object"
    /\ UNCHANGED <<wqVars, serverVars, wpc, epc, noteVars>>

IO ==
    /\ alive
    /\ \/ bindSock \/ newWorker \/ startThread \/ storeThread \/ DeletedUnderMain
       \/ testRunning \/ eventOut \/ unlockTable \/ lockQueue \/ pushFrame
       \/ findWorker \/ useWorker

Event == alive /\ (eventClient \/ eventFails)
-----------------------------------------------------------------------------
(* The worker: ServerWorker::run. *)

Loop(from, to) == wpc = from /\ wpc' = to

testShouldStop ==
    /\ Loop("test", IF shouldStop THEN "done" ELSE "enter")
    /\ UNCHANGED <<wqVars, serverVars, mpc, epc, noteVars>>

\* fetchItemBlocking, up to its first look at the queue.
fetchItem ==
    /\ ~QueueMutexHeld
    /\ enterFetch(TheWorker)
    /\ Loop("enter", IF waiting' = {} THEN "handle" ELSE "wait")
    /\ UNCHANGED <<serverVars, mpc, epc, noteVars>>

\* The wait ends: CancelledException continues the loop.
leaveWait ==
    /\ ~QueueMutexHeld
    /\ \/ throwCancelled(TheWorker) /\ Loop("wait", "test")
       \/ takeAfterWait(TheWorker) /\ Loop("wait", "handle")
       \/ waitAgain(TheWorker) /\ Loop("wait", "wait")
    /\ UNCHANGED <<serverVars, mpc, epc, noteVars>>

wakeUp ==
    /\ spuriousWakeup(TheWorker)
    /\ UNCHANGED <<serverVars, pcVars, noteVars>>

\* handleFrame: a response is announced; the session may have ended.
handleFrame ==
    /\ wpc = "handle"
    /\ eventFdOut' \in {eventFdOut, eventFdOut + 1}
    /\ wpc' \in {"test", "close"}
    /\ UNCHANGED <<wqVars, running, worker, runnerThread, shouldStop, mpc, epc, noteVars>>

\* Server::closeClient(int) ends in destroyHandler, which locks the table.
closeClient ==
    /\ ~FdTableMtxHeld
    /\ Loop("close", "test")
    /\ UNCHANGED <<wqVars, serverVars, mpc, epc, noteVars>>

\* The object the thread runs in was deleted.
DeletedUnderWorker == wpc \notin {"unborn", "done"} /\ worker = "null" /\ Dies

Worker ==
    /\ alive
    /\ \/ worker = "object" /\ (testShouldStop \/ fetchItem \/ leaveWait \/ handleFrame \/ closeClient)
       \/ DeletedUnderWorker

-----------------------------------------------------------------------------
(* The ways out. *)

\* The handler of SIGINT (main stands still wherever it is), or the end of run.
cleanup ==
    /\ caller = "SIGINT" /\ epc = "idle"
    /\ interrupted' = mpc
    /\ mpc' = "cleanup" /\ epc' = "ask"
    /\ UNCHANGED <<wqVars, serverVars, wpc, caller, alive, lost, unjoined>>

\* An embedding program ends a server that isRunning.
stopRunning ==
    /\ caller \in {"stop", "terminate"} /\ epc = "idle" /\ running
    /\ running' = FALSE
    /\ epc' = IF caller = "stop" THEN "wake" ELSE "ask"
    /\ UNCHANGED <<wqVars, worker, runnerThread, shouldStop, eventFdOut, mpc, wpc, noteVars>>

Ending(from, to) == epc = from /\ epc' = to

\* Mutant: the event loop is not told.
writeEventFdNot ==
    /\ Ending("wake", "ask")
    /\ UNCHANGED <<wqVars, serverVars, mpc, wpc, noteVars>>

writeEventFd ==
    /\ Ending("wake", "ask")
    /\ eventFdOut' = eventFdOut + 1
    /\ UNCHANGED <<wqVars, running, worker, runnerThread, shouldStop, mpc, wpc, noteVars>>

\* stop and ~Server test the pointer, terminate does not.
askWorker ==
    \/ /\ Ending("ask", IF worker = "null" THEN "end" ELSE "flag")
       /\ worker = "null" => caller # "terminate"
       /\ UNCHANGED <<wqVars, serverVars, mpc, wpc, noteVars>>
    \/ epc = "ask" /\ worker = "null" /\ caller = "terminate" /\ Dies

\* Mutant: the worker is woken but not told to stop.
setShouldStopNot ==
    /\ Ending("flag", "cancel")
    /\ UNCHANGED <<wqVars, serverVars, mpc, wpc, noteVars>>

setShouldStop ==
    /\ Ending("flag", "cancel")
    /\ shouldStop' = TRUE
    /\ UNCHANGED <<wqVars, running, worker, runnerThread, eventFdOut, mpc, wpc, noteVars>>

AfterJoin == IF caller = "terminate" THEN "end" ELSE "delete"

\* Mutant: the thread is detached, not joined.
cancelWorkerUnjoined ==
    /\ ~QueueMutexHeld
    /\ cancelFetch
    /\ Ending("cancel", AfterJoin)
    /\ lost' = (wpc = "enter") /\ unjoined' = ~runnerThread
    /\ UNCHANGED <<serverVars, mpc, wpc, caller, alive, interrupted>>

cancelWorker ==
    /\ ~QueueMutexHeld
    /\ cancelFetch
    /\ Ending("cancel", IF runnerThread THEN "join" ELSE AfterJoin)
    /\ lost' = (wpc = "enter") /\ unjoined' = ~runnerThread
    /\ UNCHANGED <<serverVars, mpc, wpc, caller, alive, interrupted>>

joinWorker ==
    /\ Ending("join", AfterJoin)
    /\ wpc = "done"
    /\ runnerThread' = FALSE
    /\ UNCHANGED <<wqVars, running, worker, shouldStop, eventFdOut, mpc, wpc, noteVars>>

deleteWorker ==
    /\ Ending("delete", "end")
    /\ worker' = "null"
    /\ UNCHANGED <<wqVars, running, runnerThread, shouldStop, eventFdOut, mpc, wpc, noteVars>>

\* exit(0)
exitProcess ==
    /\ epc = "end" /\ mpc = "cleanup"
    /\ alive' = FALSE
    /\ UNCHANGED <<wqVars, serverVars, pcVars, caller, interrupted, lost, unjoined>>

Begin == alive /\ (cleanup \/ stopRunning)

End ==
    /\ alive
    /\ \/ mpc = "returned" /\ cleanup
       \/ writeEventFd \/ askWorker \/ setShouldStop \/ cancelWorker \/ joinWorker
       \/ deleteWorker \/ exitProcess

-----------------------------------------------------------------------------

LCNext == IO \/ Event \/ Worker \/ (alive /\ wakeUp) \/ Begin \/ End

LCSpec == LCInit /\ [][LCNext]_vars

\* The threads run.  SF for the worker: it gets fdTableMtx although the I/O thread
\* takes the mutex again and again, because that one sleeps in epoll_wait in between.
\* Events and signals come as they like.
LCFairness == WF_vars(IO) /\ SF_vars(Worker) /\ WF_vars(End)

LCFairSpec == LCSpec /\ LCFairness

-----------------------------------------------------------------------------
(* Properties. *)

\* Types; the worker is inside the condition variable exactly while it waits.
LCTypeOK ==
    /\ WQTypeOK
    /\ caller \in Callers
    /\ {running, runnerThread, shouldStop, alive, lost, unjoined} \subseteq BOOLEAN
    /\ worker \in {"null", "object"} /\ eventFdOut \in Nat
    /\ mpc \in {"bind", "new", "start", "store", "loop", "epoll", "table", "push", "use",
                "returned", "cleanup"}
    /\ wpc \in {"unborn", "test", "enter", "wait", "handle", "close", "done"}
    /\ epc \in {"idle", "wake", "ask", "flag", "cancel", "join", "delete", "end"}
    /\ (wpc = "wait") = (TheWorker \in waiting \union woken)

\* The thread that joins the worker does not wait for a sleeper: the worker has
\* left fetchItemBlocking, or is on its way out, unless the cancellation came
\* between its test of shouldStop and its fetch, whose first statement clears it.
JoinMeetsNoSleeper == epc = "join" /\ ~lost => TheWorker \notin waiting /\ wpc # "enter"

\* The worker object outlives its thread, unless stop ran between the creation of
\* the thread and the assignment that makes it known to join.
WorkerOutlivesThread ==
    worker = "null" /\ wpc \notin {"unborn", "done"} => unjoined

\* The join returns, whatever the worker was doing when it was cancelled, unless
\* the cancellation was lost or the interrupted I/O thread holds fdTableMtx, which
\* the worker may need to close a client.
JoinEnds ==
    (epc = "join" /\ ~lost /\ interrupted \notin {"table", "push", "use"})
        ~> (epc # "join" \/ ~alive)

\* Server::stop, called on a running server by another thread, ends its event loop.
StopEndsRun ==
    (caller = "stop" /\ epc \notin {"idle", "wake"}) ~> (mpc = "returned" \/ ~alive)

\* Frames do not stay in wqIn while the server runs.
FramesAreTaken == (queue # <<>>) ~> (queue = <<>> \/ epc # "idle" \/ ~alive)
=============================================================================
