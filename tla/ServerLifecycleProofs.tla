------------------------ MODULE ServerLifecycleProofs ------------------------
(***************************************************************************)
(* Theorems about ServerLifecycle for every set of items, every bound and   *)
(* every choice of the ways out.                                            *)
(***************************************************************************)
EXTENDS ServerLifecycle, WorkQueueProofs

\* What holds between the ends of main, the worker and the ending thread.
EndsOK ==
    /\ mpc \in {"bind", "new", "start"} => wpc = "unborn"
    /\ worker = "object" => mpc \notin {"bind", "new"}
    /\ epc \in {"flag", "cancel", "join", "delete"} => worker = "object"
    /\ epc \in {"cancel", "join"} => shouldStop
    /\ epc = "join" /\ ~lost => fetchCancelled /\ waiting = {} /\ wpc # "enter"
    /\ epc = "delete" => wpc = "done" \/ unjoined
    /\ worker = "null" /\ wpc \notin {"unborn", "done"} => unjoined

LCInv == LCTypeOK /\ EndsOK

-----------------------------------------------------------------------------
(* The queue. *)

\* A step of the server is a step of its queue, or leaves the queue alone.
LEMMA QueueStep == [LCNext]_vars => [WQNext]_wqVars
<1>1. TheWorker \in Fetchers
  BY LifecycleAssumption
<1>2. ASSUME fetchItem \/ leaveWait \/ wakeUp PROVE WQNext
  BY <1>1, <1>2 DEF fetchItem, leaveWait, wakeUp, WQNext, resume
<1>3. ASSUME pushFrame PROVE WQNext
  BY <1>3 DEF pushFrame, WQNext
<1>4. ASSUME cancelWorker PROVE WQNext
  BY <1>4 DEF cancelWorker, WQNext
<1>5. ASSUME IO PROVE pushFrame \/ UNCHANGED wqVars
  BY <1>5, Zenon
     DEF IO, bindSock, newWorker, startThread, storeThread, DeletedUnderMain, Dies,
         testRunning, eventOut, unlockTable, lockQueue, findWorker, useWorker
<1>6. ASSUME Event PROVE UNCHANGED wqVars
  BY <1>6 DEF Event, eventClient, eventFails
<1>7. ASSUME Worker PROVE fetchItem \/ leaveWait \/ UNCHANGED wqVars
  BY <1>7 DEF Worker, testShouldStop, handleFrame, closeClient, DeletedUnderWorker, Dies
<1>8. ASSUME Begin \/ End PROVE cancelWorker \/ UNCHANGED wqVars
  BY <1>8 DEF Begin, End, cleanup, stopRunning, writeEventFd, askWorker, Dies,
              setShouldStop, joinWorker, deleteWorker, exitProcess
<1>9. ASSUME UNCHANGED vars PROVE UNCHANGED wqVars
  BY <1>9 DEF vars
<1>10. QED
  BY <1>2, <1>3, <1>4, <1>5, <1>6, <1>7, <1>8, <1>9 DEF LCNext

\* The server drives its queue wqIn as WorkQueue allows, so everything that is
\* proved of the queue holds of wqIn while the server starts, runs and ends.
THEOREM QueueOfServer == LCSpec => WQSpec
<1>1. LCInit => WQInit
  BY DEF LCInit
<1>2. QED
  BY <1>1, QueueStep, PTL DEF LCSpec, WQSpec

-----------------------------------------------------------------------------
(* The invariant. *)

LEMMA InitHolds == LCInit => LCInv
<1>1. LCInit => WQTypeOK
  BY InitTypes DEF LCInit
<1>2. LCInit => waiting = {} /\ woken = {}
  BY DEF LCInit, WQInit
<1>3. ASSUME LCInit PROVE LCTypeOK
  <2>1. /\ running \in BOOLEAN /\ runnerThread \in BOOLEAN /\ shouldStop \in BOOLEAN
        /\ alive \in BOOLEAN /\ lost \in BOOLEAN /\ unjoined \in BOOLEAN
    BY <1>3, Zenon DEF LCInit
  <2>2. (wpc = "wait") = (TheWorker \in waiting \union woken)
    BY <1>2, <1>3 DEF LCInit
  <2>3. QED
    BY <1>1, <1>3, <2>1, <2>2 DEF LCInit, LCTypeOK
<1>4. LCInit => EndsOK
  BY DEF LCInit, EndsOK
<1>5. QED
  BY <1>3, <1>4 DEF LCInv

\* Steps of main and the I/O thread.
LEMMA IOKeeps ==
    ASSUME LCInv, WQTypeOK', IO \/ Event
    PROVE  LCInv'
<1> USE DEF LCInv, LCTypeOK, EndsOK, Main
<1>1. CASE bindSock
  BY <1>1 DEF bindSock, noteVars, wqVars
<1>2. CASE newWorker
  BY <1>2 DEF newWorker, noteVars, wqVars
<1>3. CASE startThread
  BY <1>3 DEF startThread, serverVars, noteVars, wqVars
<1>4. CASE storeThread
  BY <1>4 DEF storeThread, noteVars, wqVars
<1>5. CASE testRunning
  BY <1>5 DEF testRunning, serverVars, noteVars, wqVars
<1>6. CASE eventOut
  BY <1>6 DEF eventOut, noteVars, wqVars
<1>7. CASE eventClient
  BY <1>7 DEF eventClient, serverVars, noteVars, wqVars
<1>8. CASE eventFails
  BY <1>8 DEF eventFails, noteVars, wqVars
<1>9. CASE unlockTable \/ lockQueue
  BY <1>9 DEF unlockTable, lockQueue, serverVars, noteVars, wqVars
<1>10. CASE findWorker \/ useWorker
  BY <1>10 DEF findWorker, useWorker, serverVars, noteVars, wqVars
<1>11. CASE pushFrame
  <2>1. PICK itm \in Items : pushItem(itm)
    BY <1>11 DEF pushFrame
  <2>2. /\ waiting' \subseteq waiting
        /\ waiting' \union woken' = waiting \union woken
        /\ UNCHANGED fetchCancelled
    BY <2>1 DEF pushItem, notify_one, wqVars
  <2>3. QED
    BY <1>11, <2>2 DEF pushFrame, serverVars, noteVars
<1>12. CASE DeletedUnderMain
  BY <1>12 DEF DeletedUnderMain, Dies, serverVars, pcVars, wqVars
<1>13. QED
  BY <1>1, <1>2, <1>3, <1>4, <1>5, <1>6, <1>7, <1>8, <1>9, <1>10, <1>11, <1>12 DEF IO, Event

\* Steps of the worker.
LEMMA WorkerKeeps ==
    ASSUME LCInv, WQTypeOK', Worker \/ wakeUp
    PROVE  LCInv'
<1> USE DEF LCInv, LCTypeOK, EndsOK, Loop
<1>0. waiting \subseteq {TheWorker}
  BY LifecycleAssumption DEF WQTypeOK
<1>1. CASE worker = "object" /\ testShouldStop
  BY <1>1 DEF testShouldStop, serverVars, noteVars, wqVars
<1>2. CASE worker = "object" /\ fetchItem
  <2>1. /\ TheWorker \notin waiting \union woken
        /\ UNCHANGED woken
        /\ waiting' = {} \/ TheWorker \in waiting'
    BY <1>0, <1>2 DEF fetchItem, enterFetch
  <2>2. (wpc' = "wait") = (TheWorker \in waiting' \union woken')
    BY <1>2, <2>1 DEF fetchItem
  <2>3. wpc' \in {"handle", "wait"} /\ wpc = "enter"
    BY <1>2 DEF fetchItem
  <2>4. QED
    BY <1>2, <2>2, <2>3 DEF fetchItem, serverVars, noteVars
<1>3. CASE worker = "object" /\ leaveWait
  <2>1. CASE throwCancelled(TheWorker) /\ wpc' = "test"
    BY <1>3, <2>1 DEF leaveWait, throwCancelled, serverVars, noteVars, WQTypeOK
  <2>2. CASE takeAfterWait(TheWorker) /\ wpc' = "handle"
    BY <1>3, <2>2 DEF leaveWait, takeAfterWait, serverVars, noteVars, WQTypeOK
  <2>3. CASE waitAgain(TheWorker) /\ wpc' = "wait"
    BY <1>3, <2>3 DEF leaveWait, waitAgain, serverVars, noteVars
  <2>4. QED
    BY <1>3, <2>1, <2>2, <2>3 DEF leaveWait
<1>4. CASE worker = "object" /\ handleFrame
  BY <1>4 DEF handleFrame, noteVars, wqVars
<1>5. CASE worker = "object" /\ closeClient
  BY <1>5 DEF closeClient, serverVars, noteVars, wqVars
<1>6. CASE wakeUp
  BY <1>6 DEF wakeUp, spuriousWakeup, serverVars, pcVars, noteVars
<1>7. CASE DeletedUnderWorker
  BY <1>7 DEF DeletedUnderWorker, Dies, serverVars, pcVars, wqVars
<1>8. QED
  BY <1>1, <1>2, <1>3, <1>4, <1>5, <1>6, <1>7 DEF Worker

\* Steps of the thread that ends the server.
LEMMA EndKeeps ==
    ASSUME LCInv, WQTypeOK', Begin \/ End
    PROVE  LCInv'
<1> USE DEF LCInv, LCTypeOK, EndsOK, Ending, AfterJoin
<1>1. CASE cleanup
  BY <1>1 DEF cleanup, serverVars, wqVars
<1>2. CASE stopRunning
  BY <1>2 DEF stopRunning, noteVars, wqVars
<1>3. CASE writeEventFd
  BY <1>3 DEF writeEventFd, noteVars, wqVars
<1>4. CASE askWorker
  BY <1>4 DEF askWorker, Dies, serverVars, pcVars, noteVars, wqVars
<1>5. CASE setShouldStop
  BY <1>5 DEF setShouldStop, noteVars, wqVars
<1>6. CASE cancelWorker
  <2>1. /\ fetchCancelled' /\ waiting' = {}
        /\ waiting' \union woken' = waiting \union woken
    BY <1>6 DEF cancelWorker, cancelFetch, notify_all
  <2>2. QED
    BY <1>6, <2>1 DEF cancelWorker, serverVars
<1>7. CASE joinWorker
  BY <1>7 DEF joinWorker, noteVars, wqVars
<1>8. CASE deleteWorker
  BY <1>8 DEF deleteWorker, noteVars, wqVars
<1>9. CASE exitProcess
  BY <1>9 DEF exitProcess, serverVars, pcVars, wqVars
<1>10. QED
  BY <1>1, <1>2, <1>3, <1>4, <1>5, <1>6, <1>7, <1>8, <1>9 DEF Begin, End

\* LCInv, the inductive invariant behind the theorems below: how far each thread is
\* with starting and ending fixes the flags and objects it may rely on.
THEOREM LifecycleInvariant == LCSpec => []LCInv
<1>1. LCInv /\ [LCNext]_vars => LCInv'
  <2> SUFFICES ASSUME LCInv, [LCNext]_vars PROVE LCInv'
    OBVIOUS
  <2>1. WQTypeOK'
    BY QueueStep, StepTypes DEF LCInv, LCTypeOK
  <2>2. CASE UNCHANGED vars
    BY <2>1, <2>2 DEF vars, serverVars, pcVars, noteVars, wqVars, LCInv, LCTypeOK, EndsOK
  <2>3. QED
    BY <2>1, <2>2, IOKeeps, WorkerKeeps, EndKeeps DEF LCNext
<1>2. QED
  BY <1>1, InitHolds, PTL DEF LCSpec

\* LCTypeOK holds in every reachable state.
THEOREM LifecycleTypes == LCSpec => []LCTypeOK
  BY LifecycleInvariant, PTL DEF LCInv

\* JoinMeetsNoSleeper: once the flag is set and the cancellation has not come
\* between the worker's test and its fetch, the flag stands until the join ends,
\* and the worker cannot fall asleep again.
THEOREM JoinSeesAwake == LCSpec => []JoinMeetsNoSleeper
<1>1. LCInv => JoinMeetsNoSleeper
  BY DEF LCInv, EndsOK, JoinMeetsNoSleeper
<1>2. QED
  BY <1>1, LifecycleInvariant, PTL

\* WorkerOutlivesThread: the worker object is deleted after the join of its thread,
\* or by a stop that came before the thread was stored.
THEOREM ThreadNeverOrphaned == LCSpec => []WorkerOutlivesThread
<1>1. LCInv => WorkerOutlivesThread
  BY DEF LCInv, EndsOK, WorkerOutlivesThread
<1>2. QED
  BY <1>1, LifecycleInvariant, PTL
=============================================================================
