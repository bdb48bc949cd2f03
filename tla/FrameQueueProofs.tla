-------------------------- MODULE FrameQueueProofs --------------------------
(***************************************************************************)
(* Theorems about FrameQueue for any number of workers, buffers, limits and *)
(* pushes: no buffer is deleted twice, used after its deletion, or lost.    *)
(***************************************************************************)
EXTENDS FrameQueue, WorkQueueProofs

FQTypeOK ==
    /\ heap \subseteq Buffers
    /\ rxdFrame \in PFrame /\ itmOut \in PFrame /\ txdFrame \in PFrame
    /\ incomingMsg \in [Fetchers -> PFrame]

\* Two frames that would delete the same buffer.
Same(f, g) == f.hasDynamicData /\ g.hasDynamicData /\ f.msg = g.msg

\* SoleOwner, place by place: the queue, the workers, the three single frames.
Apart ==
    /\ \A i, j \in DOMAIN queue : Same(queue[i], queue[j]) => i = j
    /\ \A t, u \in Fetchers : Same(incomingMsg[t], incomingMsg[u]) => t = u
    /\ \A i \in DOMAIN queue, t \in Fetchers : ~Same(queue[i], incomingMsg[t])
    /\ \A i \in DOMAIN queue :
        /\ ~Same(queue[i], rxdFrame) /\ ~Same(queue[i], itmOut) /\ ~Same(queue[i], txdFrame)
    /\ \A t \in Fetchers :
        /\ ~Same(incomingMsg[t], rxdFrame) /\ ~Same(incomingMsg[t], itmOut)
        /\ ~Same(incomingMsg[t], txdFrame)
    /\ ~Same(rxdFrame, itmOut) /\ ~Same(rxdFrame, txdFrame) /\ ~Same(itmOut, txdFrame)

Owns(f, b) == f.hasDynamicData /\ f.msg = b

Held(b) ==
    \/ \E i \in DOMAIN queue : Owns(queue[i], b)
    \/ \E t \in Fetchers : Owns(incomingMsg[t], b)
    \/ Owns(rxdFrame, b) \/ Owns(itmOut, b) \/ Owns(txdFrame, b)

FQInv ==
    /\ WQTypeOK /\ FQTypeOK /\ QueuedFramesOwn
    /\ Apart
    /\ \A b : Held(b) <=> b \in heap

-----------------------------------------------------------------------------
(* The queue of frames. *)

LEMMA AppendFrames ==
    ASSUME NEW S, NEW s \in Seq(S), NEW x \in S
    PROVE  /\ DOMAIN Append(s, x) = DOMAIN s \union {Len(s) + 1}
           /\ \A i \in DOMAIN s : Append(s, x)[i] = s[i]
           /\ Append(s, x)[Len(s) + 1] = x
           /\ Len(s) + 1 \notin DOMAIN s
  BY AppendProperties

LEMMA TailFrames ==
    ASSUME NEW S, NEW s \in Seq(S), s # <<>>
    PROVE  /\ Head(s) = s[1] /\ 1 \in DOMAIN s
           /\ \A i \in DOMAIN Tail(s) : i + 1 \in DOMAIN s /\ i + 1 # 1 /\ Tail(s)[i] = s[i + 1]
           /\ \A i \in DOMAIN s \ {1} : i - 1 \in DOMAIN Tail(s) /\ i = (i - 1) + 1
  BY HeadTailProperties

LEMMA CopyTypes ==
    ASSUME NEW b \in Buffers
    PROVE  CopyInto(b) \in PFrame /\ Empty \in PFrame
  BY DEF CopyInto, Empty, PFrame

LEMMA FramesAreItems == Items = PFrame /\ NoBuffer \notin Buffers
  BY FrameQueueAssumption

\* What a push and a fetch of the queue do.
LEMMA PushCases ==
    ASSUME WQTypeOK, NEW f \in PFrame, pushItem(f)
    PROVE  \/ Full /\ UNCHANGED wqVars
           \/ /\ ~Full /\ queue' = Append(queue, f) /\ UNCHANGED <<itemLimit, delivered>>
              /\ DOMAIN queue' = DOMAIN queue \union {Len(queue) + 1}
              /\ Len(queue) + 1 \notin DOMAIN queue
              /\ \A i \in DOMAIN queue : queue'[i] = queue[i]
              /\ queue'[Len(queue) + 1] = f
<1>1. CASE Full
  BY <1>1 DEF pushItem, Full
<1>2. CASE ~Full
  <2>1. queue' = Append(queue, f) /\ UNCHANGED <<itemLimit, delivered>>
    BY <1>2 DEF pushItem
  <2>2. queue \in Seq(PFrame)
    BY FramesAreItems DEF WQTypeOK
  <2>3. QED
    BY <1>2, <2>1, <2>2, AppendFrames
<1>3. QED
  BY <1>1, <1>2

LEMMA PopFacts ==
    ASSUME WQTypeOK, PopFront
    PROVE  /\ Head(queue) = queue[1] /\ 1 \in DOMAIN queue /\ queue[1] \in PFrame
           /\ \A i \in DOMAIN queue' :
                i + 1 \in DOMAIN queue /\ i + 1 # 1 /\ queue'[i] = queue[i + 1]
           /\ \A i \in DOMAIN queue \ {1} : i - 1 \in DOMAIN queue' /\ i = (i - 1) + 1
           /\ \A i \in DOMAIN queue : i \in Int
           /\ \A i \in DOMAIN queue' : i \in Int
           /\ delivered' # delivered
<1>1. queue \in Seq(PFrame) /\ queue # <<>> /\ queue' = Tail(queue)
  BY FramesAreItems DEF WQTypeOK, PopFront
<1>2. Head(queue) \in PFrame /\ Tail(queue) \in Seq(PFrame)
  BY <1>1, HeadTailProperties
<1>3. delivered \in Seq(PFrame) /\ delivered' = Append(delivered, Head(queue))
  BY FramesAreItems DEF WQTypeOK, PopFront
<1>4. Len(delivered') = Len(delivered) + 1 /\ Len(delivered) \in Nat
  BY <1>2, <1>3, AppendProperties
<1>5. delivered' # delivered
  BY <1>4
<1>6. \A i \in DOMAIN queue : i \in Int
  BY <1>1
<1>7. \A i \in DOMAIN queue' : i \in Int
  BY <1>1, <1>2
<1>8. QED
  BY <1>1, <1>2, <1>5, <1>6, <1>7, TailFrames

-----------------------------------------------------------------------------
(* Every step keeps the invariant. *)

LEMMA PushFrameKeeps ==
    ASSUME FQInv, WQTypeOK', pushFrame
    PROVE  FQInv'
<1> USE DEF FQInv, FQTypeOK
<1>1. /\ pushItem(rxdFrame) /\ rxdFrame.hasDynamicData /\ rxdFrame' = Empty
      /\ UNCHANGED <<incomingMsg, itmOut, txdFrame>>
      /\ Destroyed(rxdFrame) = {rxdFrame.msg} /\ Destroyed(LeftByMove(rxdFrame)) = {}
  BY DEF pushFrame, Destroyed, LeftByMove, PFrame
<1>2. FQTypeOK'
  BY <1>1 DEF pushFrame, Empty, PFrame
<1>3. ~Empty.hasDynamicData
  BY DEF Empty
<1>4. CASE Full /\ UNCHANGED wqVars
  <2>1. heap' = heap \ {rxdFrame.msg} /\ UNCHANGED queue
    BY <1>1, <1>4 DEF pushFrame, wqVars
  <2>2. QueuedFramesOwn'
    BY <2>1 DEF QueuedFramesOwn
  <2>3. Apart'
    BY <1>1, <1>3, <2>1 DEF Apart, Same
  <2>4. \A b : Held(b)' <=> b \in heap'
    BY <1>1, <1>3, <2>1 DEF Apart, Same, Held, Owns
  <2>5. QED
    BY <1>2, <2>2, <2>3, <2>4
<1>5. CASE ~Full /\ queue' = Append(queue, rxdFrame)
  <2>1. UNCHANGED heap
    BY <1>1, <1>5 DEF pushFrame
  <2>2. /\ DOMAIN queue' = DOMAIN queue \union {Len(queue) + 1}
        /\ Len(queue) + 1 \notin DOMAIN queue
        /\ \A i \in DOMAIN queue : queue'[i] = queue[i]
        /\ queue'[Len(queue) + 1] = rxdFrame
    BY <1>1, <1>5, PushCases
  <2>3. QueuedFramesOwn'
    BY <1>1, <2>2 DEF QueuedFramesOwn
  <2>4. Apart'
    BY <1>1, <1>3, <2>2 DEF Apart, Same
  <2>5. \A b : Held(b)' <=> b \in heap'
    BY <1>1, <1>3, <2>1, <2>2 DEF Held, Owns
  <2>6. QED
    BY <1>2, <2>3, <2>4, <2>5
<1>6. QED
  BY <1>1, <1>4, <1>5, PushCases

LEMMA WriteFrameKeeps ==
    ASSUME FQInv, WQTypeOK', NEW t \in Fetchers, writeFrame(t)
    PROVE  FQInv'
<1> USE DEF FQInv, FQTypeOK
<1>1. PICK b \in Buffers \ heap :
        /\ pushItem(SinkFrame(b))
        /\ heap' = IF Full THEN heap ELSE heap \union {b}
  BY DEF writeFrame, Fresh
<1>2. UNCHANGED <<rxdFrame, incomingMsg, itmOut, txdFrame>>
  BY DEF writeFrame
<1>3. /\ SinkFrame(b) \in PFrame /\ SinkFrame(b).hasDynamicData /\ SinkFrame(b).msg = b
  BY CopyTypes DEF SinkFrame, CopyInto
<1>4. FQTypeOK'
  BY <1>1, <1>2
<1>5. CASE Full /\ UNCHANGED wqVars
  BY <1>1, <1>2, <1>4, <1>5 DEF wqVars, QueuedFramesOwn, Apart, Held
<1>6. CASE ~Full /\ queue' = Append(queue, SinkFrame(b))
  <2>1. heap' = heap \union {b}
    BY <1>1, <1>6
  <2>2. /\ DOMAIN queue' = DOMAIN queue \union {Len(queue) + 1}
        /\ Len(queue) + 1 \notin DOMAIN queue
        /\ \A i \in DOMAIN queue : queue'[i] = queue[i]
        /\ queue'[Len(queue) + 1] = SinkFrame(b)
    BY <1>1, <1>3, <1>6, PushCases
  <2>3. QueuedFramesOwn'
    BY <1>3, <2>2 DEF QueuedFramesOwn
  <2>4. ~Held(b)
    OBVIOUS
  <2>5. Apart'
    BY <1>2, <1>3, <2>2, <2>4 DEF Apart, Same, Held, Owns
  <2>6. \A d : Held(d)' <=> d \in heap'
    BY <1>2, <1>3, <2>1, <2>2 DEF Held, Owns
  <2>7. QED
    BY <1>4, <2>3, <2>5, <2>6
<1>7. QED
  BY <1>1, <1>3, <1>5, <1>6, PushCases

LEMMA FetchKeeps ==
    ASSUME FQInv, WQTypeOK', NEW t \in Fetchers, PopFront,
           incomingMsg' = [incomingMsg EXCEPT ![t] = Head(queue)],
           MoveFront(incomingMsg[t]),
           UNCHANGED <<rxdFrame, itmOut, txdFrame>>
    PROVE  FQInv'
<1> USE DEF FQInv, FQTypeOK
<1>1. /\ Head(queue) = queue[1] /\ 1 \in DOMAIN queue /\ queue[1] \in PFrame
      /\ \A i \in DOMAIN queue' :
            i + 1 \in DOMAIN queue /\ i + 1 # 1 /\ queue'[i] = queue[i + 1]
      /\ \A i \in DOMAIN queue \ {1} : i - 1 \in DOMAIN queue' /\ i = (i - 1) + 1
      /\ \A i \in DOMAIN queue : i \in Int
      /\ \A i \in DOMAIN queue' : i \in Int
  BY PopFacts
<1>2. /\ incomingMsg'[t] = queue[1]
      /\ \A u \in Fetchers \ {t} : incomingMsg'[u] = incomingMsg[u]
  BY <1>1
<1>3. /\ incomingMsg[t].hasDynamicData => heap' = heap \ {incomingMsg[t].msg}
      /\ ~incomingMsg[t].hasDynamicData => heap' = heap
  BY <1>1 DEF MoveFront, Destroyed, LeftByMove, PFrame
<1>4. FQTypeOK'
  BY <1>1, <1>3
<1>5. QueuedFramesOwn'
  BY <1>1 DEF QueuedFramesOwn
<1>6. Apart'
  BY <1>1, <1>2 DEF Apart, Same
<1>7. \A b : Held(b)' <=> b \in heap'
  BY <1>1, <1>2, <1>3 DEF Held, Owns, Apart, Same
<1>8. QED
  BY <1>4, <1>5, <1>6, <1>7

LEMMA FetchOutKeeps ==
    ASSUME FQInv, WQTypeOK', fetchOut
    PROVE  FQInv'
<1> USE DEF FQInv, FQTypeOK
<1>1. /\ Head(queue) = queue[1] /\ 1 \in DOMAIN queue /\ queue[1] \in PFrame
      /\ \A i \in DOMAIN queue' :
            i + 1 \in DOMAIN queue /\ i + 1 # 1 /\ queue'[i] = queue[i + 1]
      /\ \A i \in DOMAIN queue \ {1} : i - 1 \in DOMAIN queue' /\ i = (i - 1) + 1
      /\ \A i \in DOMAIN queue : i \in Int
      /\ \A i \in DOMAIN queue' : i \in Int
  BY PopFacts DEF fetchOut, fetchItemNonBlocking
<1>2. /\ itmOut = Empty /\ itmOut' = queue[1] /\ UNCHANGED <<rxdFrame, incomingMsg, txdFrame>>
  BY <1>1 DEF fetchOut
<1>3. ~itmOut.hasDynamicData /\ heap' = heap
  BY <1>1, <1>2 DEF fetchOut, MoveFront, Destroyed, LeftByMove, PFrame, Empty
<1>4. FQTypeOK'
  BY <1>1, <1>2, <1>3
<1>5. QueuedFramesOwn'
  BY <1>1 DEF QueuedFramesOwn
<1>6. Apart'
  BY <1>1, <1>2 DEF Apart, Same
<1>7. \A b : Held(b)' <=> b \in heap'
  BY <1>1, <1>2, <1>3 DEF Held, Owns
<1>8. QED
  BY <1>4, <1>5, <1>6, <1>7

\* The steps that leave the queue alone.
LEMMA FramesKeep ==
    ASSUME FQInv, WQTypeOK', UNCHANGED queue,
           \/ recvLen \/ setSentItem \/ writeAll \/ eraseConnection
           \/ \E t \in Fetchers : endIteration(t)
           \/ UNCHANGED frameVars
    PROVE  FQInv'
<1> USE DEF FQInv, FQTypeOK, Empty
<1>1. QueuedFramesOwn'
  BY DEF QueuedFramesOwn
<1>2. CASE recvLen
  <2>1. PICK b \in Buffers \ heap : rxdFrame' = CopyInto(b) /\ heap' = heap \union {b}
    BY <1>2 DEF recvLen, Allocated, Fresh
  <2>2. UNCHANGED <<incomingMsg, itmOut, txdFrame>>
    BY <1>2 DEF recvLen
  <2>3. rxdFrame'.hasDynamicData /\ rxdFrame'.msg = b /\ ~rxdFrame.hasDynamicData
    BY <1>2, <2>1 DEF CopyInto, recvLen
  <2>4. ~Held(b)
    OBVIOUS
  <2>5. Apart'
    BY <2>2, <2>3, <2>4 DEF Apart, Same, Held, Owns
  <2>6. \A d : Held(d)' <=> d \in heap'
    BY <2>1, <2>2, <2>3 DEF Held, Owns
  <2>7. FQTypeOK'
    BY <2>1, <2>2, CopyTypes
  <2>8. QED
    BY <1>1, <2>5, <2>6, <2>7
<1>3. CASE setSentItem
  <2>1. itmOut' = Empty /\ UNCHANGED <<rxdFrame, incomingMsg>>
    BY <1>3 DEF setSentItem
  <2>2. CASE dropItem
    <3>1. /\ itmOut.hasDynamicData => heap' = heap \ {itmOut.msg}
          /\ ~itmOut.hasDynamicData => heap' = heap
          /\ UNCHANGED txdFrame
      BY <2>2 DEF dropItem, Destroyed
    <3>2. Apart'
      BY <2>1, <3>1 DEF Apart, Same
    <3>3. \A d : Held(d)' <=> d \in heap'
      BY <2>1, <3>1 DEF Apart, Same, Held, Owns
    <3>4. FQTypeOK'
      BY <2>1, <3>1 DEF PFrame
    <3>5. QED
      BY <1>1, <3>2, <3>3, <3>4
  <2>3. CASE \E b \in Fresh : assignTxd(b)
    <3>1. PICK b \in Buffers \ heap : assignTxd(b)
      BY <2>3 DEF Fresh
    <3>2. /\ txdFrame'.hasDynamicData /\ txdFrame'.msg = b /\ txdFrame' \in PFrame
          /\ heap' = (heap \union {b}) \ (Destroyed(txdFrame) \union Destroyed(itmOut))
      BY <3>1, CopyTypes DEF assignTxd, CopyInto
    <3>3. ~Held(b)
      OBVIOUS
    <3>4. Apart'
      BY <2>1, <3>2, <3>3 DEF Apart, Same, Held, Owns
    <3>5. \A d : d \in heap' <=>
            (d \in heap \/ d = b) /\ ~Owns(txdFrame, d) /\ ~Owns(itmOut, d)
      BY <3>2 DEF Destroyed, Owns
    <3>6. \A d : Held(d)' <=> d \in heap'
      BY <2>1, <3>2, <3>3, <3>5 DEF Apart, Same, Held, Owns
    <3>7. FQTypeOK'
      BY <2>1, <3>2 DEF PFrame
    <3>8. QED
      BY <1>1, <3>4, <3>6, <3>7
  <2>4. QED
    BY <1>3, <2>2, <2>3 DEF setSentItem
<1>4. CASE eraseConnection
  <2>1. /\ rxdFrame' = Empty /\ txdFrame' = Empty /\ UNCHANGED <<incomingMsg, itmOut>>
        /\ \A d : d \in heap' <=> d \in heap /\ ~Owns(rxdFrame, d) /\ ~Owns(txdFrame, d)
    BY <1>4 DEF eraseConnection, Destroyed, Owns
  <2>2. Apart'
    BY <2>1 DEF Apart, Same
  <2>3. \A d : Held(d)' <=> d \in heap'
    BY <2>1 DEF Apart, Same, Held, Owns
  <2>4. FQTypeOK'
    BY <2>1 DEF PFrame
  <2>5. QED
    BY <1>1, <2>2, <2>3, <2>4
<1>5. ASSUME NEW t \in Fetchers, endIteration(t) PROVE FQInv'
  <2>1. /\ incomingMsg'[t] = Empty
        /\ \A u \in Fetchers \ {t} : incomingMsg'[u] = incomingMsg[u]
        /\ UNCHANGED <<rxdFrame, itmOut, txdFrame>>
        /\ \A d : d \in heap' <=> d \in heap /\ ~Owns(incomingMsg[t], d)
    BY <1>5 DEF endIteration, Destroyed, Owns
  <2>2. Apart'
    BY <2>1 DEF Apart, Same
  <2>3. \A d : Held(d)' <=> d \in heap'
    BY <2>1 DEF Apart, Same, Held, Owns
  <2>4. FQTypeOK'
    BY <1>5, <2>1 DEF endIteration, PFrame
  <2>5. QED
    BY <1>1, <2>2, <2>3, <2>4
<1>6. CASE writeAll \/ UNCHANGED frameVars
  BY <1>1, <1>6 DEF writeAll, frameVars, Apart, Held
<1>7. QED
  BY <1>2, <1>3, <1>4, <1>5, <1>6

\* Fetching by a worker: an item comes, or nothing moves.
LEMMA BlockingFetchKeeps ==
    ASSUME FQInv, WQTypeOK', NEW t \in Fetchers, fetchItemBlocking(t)
    PROVE  FQInv'
<1>1. UNCHANGED <<rxdFrame, itmOut, txdFrame, writeInProgress>> /\ fetchInto(t)
  BY DEF fetchItemBlocking
<1>2. PopFront \/ UNCHANGED <<queue, delivered>>
  BY DEF fetchItemBlocking, enterFetch, resume, throwCancelled, takeAfterWait, waitAgain
<1>3. CASE PopFront
  <2>1. delivered' # delivered
    BY <1>3, PopFacts DEF FQInv
  <2>2. /\ incomingMsg' = [incomingMsg EXCEPT ![t] = Head(queue)]
        /\ MoveFront(incomingMsg[t])
    BY <1>1, <2>1 DEF fetchInto
  <2>3. QED
    BY <1>1, <1>3, <2>2, FetchKeeps
<1>4. CASE UNCHANGED <<queue, delivered>>
  BY <1>1, <1>4, FramesKeep DEF fetchInto, frameVars
<1>5. QED
  BY <1>2, <1>3, <1>4

-----------------------------------------------------------------------------
(* The theorems. *)

\* Every step of the frames is a step of the queue that carries them, or leaves it.
LEMMA CarrierStep == FQInv /\ [FQNext]_fqVars => [WQNext]_wqVars
<1> SUFFICES ASSUME FQInv, [FQNext]_fqVars PROVE [WQNext]_wqVars
  OBVIOUS
<1>1. ASSUME pushFrame PROVE WQNext
  BY <1>1, FramesAreItems DEF pushFrame, WQNext, FQInv, FQTypeOK
<1>2. ASSUME NEW t \in Fetchers, writeFrame(t) PROVE WQNext
  <2>1. PICK b \in Buffers : pushItem(SinkFrame(b))
    BY <1>2 DEF writeFrame, Fresh
  <2>2. SinkFrame(b) \in Items
    BY CopyTypes, FramesAreItems DEF SinkFrame
  <2>3. QED
    BY <2>1, <2>2 DEF WQNext
<1>3. ASSUME NEW t \in Fetchers, fetchItemBlocking(t) PROVE WQNext
  BY <1>3 DEF fetchItemBlocking, WQNext
<1>4. ASSUME fetchOut PROVE WQNext
  BY <1>4 DEF fetchOut, WQNext
<1>5. ASSUME NEW t \in Fetchers, endIteration(t) PROVE UNCHANGED wqVars
  BY <1>5 DEF endIteration
<1>6. ASSUME recvLen \/ setSentItem \/ writeAll \/ eraseConnection PROVE UNCHANGED wqVars
  BY <1>6 DEF recvLen, setSentItem, writeAll, eraseConnection
<1>7. ASSUME \/ cancelFetch
             \/ \E t \in Fetchers : spuriousWakeup(t)
             \/ \E n \in Limits : setItemLimit(n)
      PROVE  WQNext
  BY <1>7 DEF WQNext
<1>8. ASSUME UNCHANGED fqVars PROVE UNCHANGED wqVars
  BY <1>8 DEF fqVars
<1>9. QED
  BY <1>1, <1>2, <1>3, <1>4, <1>5, <1>6, <1>7, <1>8, Zenon DEF FQNext

LEMMA FQStep == FQInv /\ [FQNext]_fqVars => FQInv'
<1> SUFFICES ASSUME FQInv, [FQNext]_fqVars PROVE FQInv'
  OBVIOUS
<1>1. WQTypeOK'
  BY CarrierStep, StepTypes DEF FQInv
<1>2. ASSUME recvLen \/ setSentItem \/ writeAll \/ eraseConnection PROVE FQInv'
  BY <1>1, <1>2, FramesKeep DEF recvLen, setSentItem, writeAll, eraseConnection, wqVars
<1>3. ASSUME NEW t \in Fetchers, endIteration(t) PROVE FQInv'
  BY <1>1, <1>3, FramesKeep DEF endIteration, wqVars
<1>4. ASSUME UNCHANGED frameVars,
             \/ cancelFetch
             \/ \E t \in Fetchers : spuriousWakeup(t)
             \/ \E n \in Limits : setItemLimit(n)
      PROVE  FQInv'
  BY <1>1, <1>4, FramesKeep DEF cancelFetch, spuriousWakeup, setItemLimit
<1>5. ASSUME UNCHANGED fqVars PROVE FQInv'
  BY <1>1, <1>5, FramesKeep DEF fqVars, wqVars
<1>6. QED
  BY <1>1, <1>2, <1>3, <1>4, <1>5, PushFrameKeeps, WriteFrameKeeps, BlockingFetchKeeps,
     FetchOutKeeps, Zenon
     DEF FQNext

\* FQInv, the inductive invariant behind the theorems below, holds in every
\* reachable state of the queue, the two places and the buffers.
THEOREM FramesInvariant == FQSpec => []FQInv
<1>1. FQInit => FQInv
  <2> SUFFICES ASSUME FQInit PROVE FQInv
    OBVIOUS
  <2>1. WQTypeOK
    BY InitTypes DEF FQInit
  <2>2. queue = <<>> /\ DOMAIN queue = {}
    BY DEF FQInit, WQInit
  <2>3. /\ heap = {} /\ rxdFrame = Empty /\ itmOut = Empty /\ txdFrame = Empty
        /\ incomingMsg = [t \in Fetchers |-> Empty]
    BY DEF FQInit
  <2>4. QED
    BY <2>1, <2>2, <2>3
       DEF FQInv, FQTypeOK, QueuedFramesOwn, Apart, Same, Held, Owns, Empty, PFrame
<1>2. QED
  BY <1>1, FQStep, PTL DEF FQSpec

\* The queue behaves as WorkQueue says when frames with buffers travel through it.
THEOREM QueueOfFrames == FQSpec => WQSpec
<1>1. FQInit => WQInit
  BY DEF FQInit
<1>2. QED
  BY <1>1, CarrierStep, FramesInvariant, PTL DEF FQSpec, WQSpec

LEMMA PlaceKinds ==
    ASSUME NEW p \in Places
    PROVE  \/ \E i \in DOMAIN queue : p = <<"queue", i>> /\ FrameAt(p) = queue[i]
           \/ \E t \in Fetchers : p = <<"worker", t>> /\ FrameAt(p) = incomingMsg[t]
           \/ p = <<"rxd", 0>> /\ FrameAt(p) = rxdFrame
           \/ p = <<"out", 0>> /\ FrameAt(p) = itmOut
           \/ p = <<"txd", 0>> /\ FrameAt(p) = txdFrame
  BY DEF Places, FrameAt

LEMMA KindPlaces ==
    /\ \A i \in DOMAIN queue : <<"queue", i>> \in Places /\ FrameAt(<<"queue", i>>) = queue[i]
    /\ \A t \in Fetchers :
        <<"worker", t>> \in Places /\ FrameAt(<<"worker", t>>) = incomingMsg[t]
    /\ <<"rxd", 0>> \in Places /\ FrameAt(<<"rxd", 0>>) = rxdFrame
    /\ <<"out", 0>> \in Places /\ FrameAt(<<"out", 0>>) = itmOut
    /\ <<"txd", 0>> \in Places /\ FrameAt(<<"txd", 0>>) = txdFrame
  BY DEF Places, FrameAt

\* SoleOwner: a buffer is owned by one frame at most, and is allocated while it is.
THEOREM NeverDeletedTwice == FQSpec => []SoleOwner
<1>1. ASSUME FQInv PROVE SoleOwner
  <2>1. ASSUME NEW p \in Places, FrameAt(p).hasDynamicData PROVE FrameAt(p).msg \in heap
    BY <1>1, <2>1, PlaceKinds DEF FQInv, Held, Owns
  <2>2. ASSUME NEW p \in Places, NEW q \in Places, Same(FrameAt(p), FrameAt(q)) PROVE p = q
    <3>1. Same(FrameAt(q), FrameAt(p))
      BY <2>2 DEF Same
    <3>2. QED
      BY <1>1, <2>2, <3>1, PlaceKinds DEF FQInv, Apart
  <2>3. QED
    BY <2>1, <2>2 DEF SoleOwner, Owners, Same
<1>2. QED
  BY <1>1, FramesInvariant, PTL

\* NoLeak: every allocated buffer has a frame whose destructor will delete it.
THEOREM NothingLeaks == FQSpec => []NoLeak
<1>1. ASSUME FQInv PROVE NoLeak
  <2>1. ASSUME NEW p \in Owners PROVE FrameAt(p).msg \in heap
    BY <1>1, <2>1, PlaceKinds DEF FQInv, Held, Owns, Owners
  <2>2. ASSUME NEW b \in heap PROVE \E p \in Owners : FrameAt(p).msg = b
    <3>1. Held(b)
      BY <1>1, <2>2 DEF FQInv
    <3>2. QED
      BY <3>1, KindPlaces DEF Held, Owns, Owners
  <2>3. QED
    BY <2>1, <2>2 DEF NoLeak
<1>2. QED
  BY <1>1, FramesInvariant, PTL

\* QueuedFramesOwn: what lies in a queue does not point into a buffer of its sender.
THEOREM QueueOwnsItsFrames == FQSpec => []QueuedFramesOwn
  BY FramesInvariant, PTL DEF FQInv
=============================================================================
