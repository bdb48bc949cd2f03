----------------------------- MODULE FrameQueue -----------------------------
(***************************************************************************)
(* PFrame (IFrameIO.cpp): who owns the bytes of a message while it travels  *)
(* from PFramer through a WorkQueue to the worker, and from a handler       *)
(* through a WorkQueue to PDeframer.  One queue stands for both, as both    *)
(* are of one class: whatever may push to either pushes, and whatever may   *)
(* fetch from either fetches.                                               *)
(*                                                                         *)
(* A PFrame is a pointer and a flag: the flag says that the destructor has  *)
(* to delete the buffer.  The operators below are its special members; they *)
(* say what a frame is afterwards and which buffers were deleted.           *)
(***************************************************************************)
EXTENDS WorkQueue

CONSTANTS
    Buffers,  \* bound: the buffers the heap can hand out
    NoBuffer  \* the null pointer

PFrame == [msg : Buffers \union {NoBuffer}, hasDynamicData : BOOLEAN]

ASSUME FrameQueueAssumption ==
    /\ IsFiniteSet(Buffers) /\ NoBuffer \notin Buffers
    /\ Items = PFrame

VARIABLES
    heap,         \* the buffers that are allocated
    rxdFrame,     \* PFramer::rxdFrame of the connection
    incomingMsg,  \* each worker's local in ServerWorker::run
    itmOut,       \* the local in Server::handleDataOut
    txdFrame,     \* PDeframer::txdFrame
    writeInProgress

frameVars == <<heap, rxdFrame, incomingMsg, itmOut, txdFrame, writeInProgress>>
fqVars == <<wqVars, frameVars>>

Empty == [msg |-> NoBuffer, hasDynamicData |-> FALSE]

FQInit ==
    /\ WQInit
    /\ heap = {} /\ rxdFrame = Empty /\ incomingMsg = [t \in Fetchers |-> Empty]
    /\ itmOut = Empty /\ txdFrame = Empty /\ writeInProgress = FALSE

-----------------------------------------------------------------------------
(* The special members of PFrame. *)

\* ~PFrame: the buffers it deletes.
Destroyed(f) == IF f.hasDynamicData THEN {f.msg} ELSE {}

\* A copy, by constructor or assignment, always owns a buffer of its own.
CopyInto(b) == [msg |-> b, hasDynamicData |-> TRUE]

\* Mutant: both frames believe they own the buffer.
LeftByMoveOwner(f) == f

\* What a move leaves behind: the pointer, without the duty to delete it.
LeftByMove(f) == [f EXCEPT !.hasDynamicData = FALSE]

\* allocMsg keeps a buffer the frame has, whatever its size.
Allocated(f, b) == IF f.hasDynamicData THEN f ELSE CopyInto(b)

Fresh == Buffers \ heap

-----------------------------------------------------------------------------
(* The I/O thread reads: PFramer. *)

recvLen ==
    /\ rxdFrame = Empty
    /\ \E b \in Fresh :
        /\ rxdFrame' = Allocated(rxdFrame, b)
        /\ heap' = heap \union {b}
    /\ UNCHANGED <<wqVars, incomingMsg, itmOut, txdFrame, writeInProgress>>

\* Moved into a pair, from there into the queue or, at the limit, destroyed with
\* the pair; then reset erases rxdFrame.
pushFrame ==
    /\ rxdFrame.hasDynamicData
    /\ pushItem(rxdFrame)
    /\ heap' = heap \ (Destroyed(LeftByMove(rxdFrame))
                          \union IF Full THEN Destroyed(rxdFrame) ELSE {})
    /\ rxdFrame' = Empty
    /\ UNCHANGED <<incomingMsg, itmOut, txdFrame, writeInProgress>>

-----------------------------------------------------------------------------
(* The worker: ServerWorker::run. *)

\* The front is moved into the caller's frame; pop destroys what is left of it.
MoveFront(old) == heap' = heap \ (Destroyed(old) \union Destroyed(LeftByMove(Head(queue))))

fetchInto(t) ==
    IF delivered' = delivered
    THEN UNCHANGED <<heap, incomingMsg>>
    ELSE /\ incomingMsg' = [incomingMsg EXCEPT ![t] = Head(queue)]
         /\ MoveFront(incomingMsg[t])

fetchItemBlocking(t) ==
    /\ \/ incomingMsg[t] = Empty /\ enterFetch(t)
       \/ resume(t)
    /\ fetchInto(t)
    /\ UNCHANGED <<rxdFrame, itmOut, txdFrame, writeInProgress>>

\* Mutant: the pair shares the coder's buffer.
SinkFrameBorrowed(b) == [msg |-> b, hasDynamicData |-> FALSE]

\* FrameSink::writeFrame: the frame of the handler points into its coder's buffer,
\* which the next response overwrites; make_pair copies it.
SinkFrame(b) == CopyInto(b)

writeFrame(t) ==
    /\ incomingMsg[t].hasDynamicData
    /\ \E b \in Fresh :
        /\ pushItem(SinkFrame(b))
        /\ heap' = IF Full THEN heap ELSE heap \union {b}
    /\ UNCHANGED <<rxdFrame, incomingMsg, itmOut, txdFrame, writeInProgress>>

\* The end of the iteration.
endIteration(t) ==
    /\ incomingMsg[t].hasDynamicData
    /\ heap' = heap \ Destroyed(incomingMsg[t])
    /\ incomingMsg' = [incomingMsg EXCEPT ![t] = Empty]
    /\ UNCHANGED <<wqVars, rxdFrame, itmOut, txdFrame, writeInProgress>>

-----------------------------------------------------------------------------
(* The I/O thread writes: handleDataOut and PDeframer. *)

fetchOut ==
    /\ itmOut = Empty
    /\ fetchItemNonBlocking
    /\ itmOut' = Head(queue) /\ MoveFront(itmOut)
    /\ UNCHANGED <<rxdFrame, incomingMsg, txdFrame, writeInProgress>>

\* Mutant: the buffer of the previous frame is overwritten, not deleted.
assignTxdLeaking(b) ==
    /\ txdFrame' = CopyInto(b) /\ heap' = (heap \union {b}) \ Destroyed(itmOut)

\* txdFrame = sentItem.second; itmOut goes out of scope.
assignTxd(b) ==
    /\ txdFrame' = CopyInto(b)
    /\ heap' = (heap \union {b}) \ (Destroyed(txdFrame) \union Destroyed(itmOut))

\* A busy deframer, or a connection that is gone: the item is dropped.
dropItem ==
    /\ heap' = heap \ Destroyed(itmOut)
    /\ UNCHANGED <<txdFrame, writeInProgress>>

setSentItem ==
    /\ itmOut # Empty
    /\ \/ dropItem
       \/ ~writeInProgress /\ writeInProgress' = TRUE /\ \E b \in Fresh : assignTxd(b)
    /\ itmOut' = Empty
    /\ UNCHANGED <<wqVars, rxdFrame, incomingMsg>>

writeAll ==
    /\ writeInProgress /\ writeInProgress' = FALSE
    /\ UNCHANGED <<wqVars, heap, rxdFrame, incomingMsg, itmOut, txdFrame>>

\* fdInfoTable.erase destroys framer and deframer, in the middle of a frame
\* perhaps; the next connection starts with new ones.
eraseConnection ==
    /\ heap' = heap \ (Destroyed(rxdFrame) \union Destroyed(txdFrame))
    /\ rxdFrame' = Empty /\ txdFrame' = Empty /\ writeInProgress' = FALSE
    /\ UNCHANGED <<wqVars, incomingMsg, itmOut>>

-----------------------------------------------------------------------------

FQNext ==
    \/ recvLen \/ pushFrame \/ fetchOut \/ setSentItem \/ writeAll \/ eraseConnection
    \/ \E t \in Fetchers : fetchItemBlocking(t) \/ writeFrame(t) \/ endIteration(t)
    \/ (cancelFetch \/ \E t \in Fetchers : spuriousWakeup(t)) /\ UNCHANGED frameVars
    \/ \E n \in Limits : setItemLimit(n) /\ UNCHANGED frameVars

FQSpec == FQInit /\ [][FQNext]_fqVars

-----------------------------------------------------------------------------
(* Properties. *)

\* The frames there are, each at its place.
Places ==
    ({"queue"} \X DOMAIN queue) \union ({"worker"} \X Fetchers)
        \union ({"rxd", "out", "txd"} \X {0})
FrameAt(p) ==
    CASE p[1] = "queue"  -> queue[p[2]]
      [] p[1] = "worker" -> incomingMsg[p[2]]
      [] p[1] = "rxd"    -> rxdFrame
      [] p[1] = "out"    -> itmOut
      [] p[1] = "txd"    -> txdFrame
Owners == {p \in Places : FrameAt(p).hasDynamicData}

\* No buffer is deleted twice or used after it was deleted: a frame that owns a
\* buffer is the only one that does, and the buffer is still allocated.
SoleOwner ==
    \A p \in Owners :
        /\ FrameAt(p).msg \in heap
        /\ \A q \in Owners \ {p} : FrameAt(q).msg # FrameAt(p).msg

\* No buffer is lost: each one has a frame that will delete it, although frames are
\* dropped at a full queue or a busy deframer and connections end in mid-frame.
NoLeak == heap = {FrameAt(p).msg : p \in Owners}

\* A frame in a queue owns its bytes: the coder that made it, or the framer that
\* read it, goes on to the next one meanwhile.
QueuedFramesOwn == \A i \in DOMAIN queue : queue[i].hasDynamicData
=============================================================================
