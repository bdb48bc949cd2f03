--------------------------- MODULE WorkQueueProofs ---------------------------
(***************************************************************************)
(* Theorems about WorkQueue for every set of fetchers, items and limits.    *)
(***************************************************************************)
EXTENDS WorkQueue, SequenceTheorems, FiniteSetTheorems, TLAPS

\* The inductive invariant.  A fetcher that leaves by the exception gives up its
\* place among the woken without taking an item, so NoLostWakeup is not inductive
\* alone: it needs that nobody sleeps while a cancellation is in force.
WQInv ==
    /\ WQTypeOK
    /\ CancelReachesAll
    /\ NoLostWakeup

LEMMA WokenFinite ==
    ASSUME WQTypeOK
    PROVE  /\ IsFiniteSet(woken)
           /\ Cardinality(woken) \in Nat
  BY WorkQueueAssumption, FS_Subset, FS_CardinalityType DEF WQTypeOK

\* Waking one more sleeper adds one to the number of the woken.
LEMMA WakeCount ==
    ASSUME WQTypeOK, NEW t \in waiting
    PROVE  Cardinality(woken \union {t}) = Cardinality(woken) + 1
<1>1. t \notin woken
  BY DEF WQTypeOK
<1>2. QED
  BY <1>1, WokenFinite, FS_AddElement

\* A woken fetcher that leaves takes one off.
LEMMA LeaveCount ==
    ASSUME WQTypeOK, NEW t \in woken
    PROVE  Cardinality(woken \ {t}) = Cardinality(woken) - 1
  BY WokenFinite, FS_RemoveElement

LEMMA PopFrontType ==
    ASSUME WQTypeOK, PopFront
    PROVE  /\ queue' \in Seq(Items)
           /\ delivered' \in Seq(Items)
           /\ Len(queue') = Len(queue) - 1
<1>1. queue \in Seq(Items) /\ queue # <<>>
  BY DEF WQTypeOK, PopFront
<1>2. Head(queue) \in Items
  BY <1>1
<1>3. QED
  BY <1>1, <1>2, HeadTailProperties, AppendProperties DEF WQTypeOK, PopFront

LEMMA NotifyOneType ==
    ASSUME WQTypeOK, notify_one
    PROVE  /\ waiting' \subseteq Fetchers
           /\ woken' \subseteq Fetchers
           /\ waiting' \intersect woken' = {}
  BY DEF WQTypeOK, notify_one

LEMMA InitTypes == WQInit => WQTypeOK
<1>1. SUFFICES ASSUME WQInit PROVE WQTypeOK
  OBVIOUS
<1>2. <<>> \in Seq(Items)
  BY EmptySeq
<1>3. queue \in Seq(Items) /\ accepted \in Seq(Items) /\ delivered \in Seq(Items)
  BY <1>1, <1>2 DEF WQInit
<1>4. fetchCancelled \in BOOLEAN /\ itemLimit \in Nat
  BY <1>1 DEF WQInit
<1>5. /\ waiting \subseteq Fetchers
      /\ woken \subseteq Fetchers
      /\ waiting \intersect woken = {}
  BY <1>1 DEF WQInit
<1>6. QED
  BY <1>3, <1>4, <1>5 DEF WQTypeOK

LEMMA StepTypes ==
    ASSUME WQTypeOK, [WQNext]_wqVars
    PROVE  WQTypeOK'
<1>1. ASSUME NEW itm \in Items, pushItem(itm) PROVE WQTypeOK'
  <2>1. CASE Full
    BY <1>1, <2>1 DEF pushItem, wqVars, WQTypeOK, Full
  <2>2. CASE ~Full
    <3>0. queue' = Append(queue, itm) /\ accepted' = Append(accepted, itm)
      BY <1>1, <2>2 DEF pushItem
    <3>1. queue' \in Seq(Items) /\ accepted' \in Seq(Items)
      BY <3>0, AppendProperties DEF WQTypeOK
    <3>2. QED
      BY <1>1, <2>2, <3>1, NotifyOneType DEF pushItem, WQTypeOK, Full
  <2>3. QED BY <2>1, <2>2
<1>2. ASSUME NEW t \in Fetchers, enterFetch(t) PROVE WQTypeOK'
  <2>1. CASE PopFront /\ UNCHANGED waiting
    BY <1>2, <2>1, PopFrontType DEF enterFetch, WQTypeOK
  <2>2. CASE waiting' = waiting \union {t} /\ UNCHANGED <<queue, delivered>>
    BY <1>2, <2>2 DEF enterFetch, WQTypeOK
  <2>3. QED BY <1>2, <2>1, <2>2 DEF enterFetch
<1>3. ASSUME NEW t \in Fetchers, throwCancelled(t) PROVE WQTypeOK'
  BY <1>3 DEF throwCancelled, WQTypeOK
<1>4. ASSUME NEW t \in Fetchers, takeAfterWait(t) PROVE WQTypeOK'
  BY <1>4, PopFrontType DEF takeAfterWait, WQTypeOK
<1>5. ASSUME NEW t \in Fetchers, waitAgain(t) PROVE WQTypeOK'
  BY <1>5 DEF waitAgain, WQTypeOK
<1>6. ASSUME NEW t \in Fetchers, spuriousWakeup(t) PROVE WQTypeOK'
  BY <1>6 DEF spuriousWakeup, WQTypeOK
<1>7. CASE fetchItemNonBlocking
  BY <1>7, PopFrontType DEF fetchItemNonBlocking, WQTypeOK
<1>8. CASE cancelFetch
  BY <1>8 DEF cancelFetch, notify_all, WQTypeOK
<1>9. ASSUME NEW n \in Limits, setItemLimit(n) PROVE WQTypeOK'
  BY <1>9, WorkQueueAssumption DEF setItemLimit, WQTypeOK
<1>10. CASE UNCHANGED wqVars
  BY <1>10 DEF wqVars, WQTypeOK
<1>11. QED
  BY <1>1, <1>2, <1>3, <1>4, <1>5, <1>6, <1>7, <1>8, <1>9, <1>10
     DEF WQNext, resume

\* Type correctness of the queue: every operation keeps the types.
THEOREM WQTypeCorrect == WQSpec => []WQTypeOK
<1>1. WQInit => WQTypeOK
  BY InitTypes
<1>2. WQTypeOK /\ [WQNext]_wqVars => WQTypeOK'
  BY StepTypes
<1>3. QED
  BY <1>1, <1>2, PTL DEF WQSpec

\* Pushing notifies a sleeper if there is one, and then the new item has a fetcher
\* of its own on the way.
LEMMA PushKeepsWakeups ==
    ASSUME WQInv, NEW itm \in Items, pushItem(itm)
    PROVE  CancelReachesAll' /\ NoLostWakeup'
<1> USE DEF WQInv
<1>1. CASE Full
  BY <1>1 DEF pushItem, wqVars, Full, CancelReachesAll, NoLostWakeup
<1>2. CASE ~Full /\ waiting = {}
  BY <1>2 DEF pushItem, notify_one, Full, CancelReachesAll, NoLostWakeup
<1>3. CASE ~Full /\ waiting # {}
  <2>1. PICK t \in waiting : waiting' = waiting \ {t} /\ woken' = woken \union {t}
    BY <1>3 DEF pushItem, notify_one, Full
  <2>2. Cardinality(woken') = Cardinality(woken) + 1
    BY <2>1, WakeCount
  <2>3. Len(queue') = Len(queue) + 1 /\ fetchCancelled' = fetchCancelled
    BY <1>3, AppendProperties DEF pushItem, Full, WQTypeOK
  <2>4. Len(queue) <= Cardinality(woken) /\ ~fetchCancelled
    BY <1>3 DEF NoLostWakeup, CancelReachesAll
  <2>5. Len(queue) \in Nat /\ Cardinality(woken) \in Nat
    BY WokenFinite DEF WQTypeOK
  <2>6. QED
    BY <2>2, <2>3, <2>4, <2>5 DEF CancelReachesAll, NoLostWakeup
<1>4. QED
  BY <1>1, <1>2, <1>3

LEMMA StepInv ==
    ASSUME WQInv, [WQNext]_wqVars
    PROVE  WQInv'
<1> SUFFICES CancelReachesAll' /\ NoLostWakeup'
  BY StepTypes DEF WQInv
<1> USE DEF WQInv, CancelReachesAll, NoLostWakeup
<1>0. Len(queue) \in Nat /\ Cardinality(woken) \in Nat
  BY WokenFinite DEF WQTypeOK
<1>1. ASSUME NEW itm \in Items, pushItem(itm)
      PROVE  CancelReachesAll' /\ NoLostWakeup'
  BY <1>1, PushKeepsWakeups
<1>2. ASSUME NEW t \in Fetchers, enterFetch(t)
      PROVE  CancelReachesAll' /\ NoLostWakeup'
  <2>1. CASE PopFront /\ UNCHANGED waiting
    BY <1>0, <1>2, <2>1, PopFrontType DEF enterFetch
  <2>2. CASE queue = <<>> /\ UNCHANGED <<queue, delivered>>
    BY <1>0, <1>2, <2>2, EmptySeq DEF enterFetch
  <2>3. QED BY <1>2, <2>1, <2>2 DEF enterFetch
<1>3. ASSUME NEW t \in Fetchers, throwCancelled(t)
      PROVE  CancelReachesAll' /\ NoLostWakeup'
  BY <1>3 DEF throwCancelled
<1>4. ASSUME NEW t \in Fetchers, takeAfterWait(t)
      PROVE  CancelReachesAll' /\ NoLostWakeup'
  <2>1. Len(queue') = Len(queue) - 1 /\ Cardinality(woken') = Cardinality(woken) - 1
    BY <1>4, PopFrontType, LeaveCount DEF takeAfterWait
  <2>2. QED
    BY <1>0, <1>4, <2>1 DEF takeAfterWait
<1>5. ASSUME NEW t \in Fetchers, waitAgain(t)
      PROVE  CancelReachesAll' /\ NoLostWakeup'
  <2>1. Cardinality(woken') = Cardinality(woken) - 1 /\ Cardinality(woken') \in Nat
    BY <1>5, LeaveCount, WokenFinite, FS_RemoveElement, FS_CardinalityType DEF waitAgain
  <2>2. Len(queue') = 0
    BY <1>5 DEF waitAgain
  <2>3. QED
    BY <1>5, <2>1, <2>2 DEF waitAgain
<1>6. ASSUME NEW t \in Fetchers, spuriousWakeup(t)
      PROVE  CancelReachesAll' /\ NoLostWakeup'
  <2>1. Cardinality(woken') = Cardinality(woken) + 1
    BY <1>6, WakeCount DEF spuriousWakeup
  <2>2. QED
    BY <1>0, <1>6, <2>1 DEF spuriousWakeup
<1>7. CASE fetchItemNonBlocking
  BY <1>0, <1>7, PopFrontType DEF fetchItemNonBlocking
<1>8. CASE cancelFetch
  BY <1>8 DEF cancelFetch, notify_all
<1>9. ASSUME NEW n \in Limits, setItemLimit(n)
      PROVE  CancelReachesAll' /\ NoLostWakeup'
  BY <1>9 DEF setItemLimit
<1>10. CASE UNCHANGED wqVars
  BY <1>10 DEF wqVars
<1>11. QED
  BY <1>1, <1>2, <1>3, <1>4, <1>5, <1>6, <1>7, <1>8, <1>9, <1>10
     DEF WQNext, resume

LEMMA InitInv == WQInit => WQInv
<1>1. WQInit => CancelReachesAll /\ NoLostWakeup
  BY DEF WQInit, CancelReachesAll, NoLostWakeup
<1>2. QED
  BY <1>1, InitTypes DEF WQInv

\* No wake-up is lost and no cancellation leaves a sleeper behind, for any number
\* of fetchers, any limit and any interleaving of the operations.
THEOREM WQInvariant == WQSpec => []WQInv
<1>1. WQInv /\ [WQNext]_wqVars => WQInv'
  BY StepInv
<1>2. QED
  BY <1>1, InitInv, PTL DEF WQSpec

\* NoLostWakeup holds in every reachable state.
THEOREM WakeupsNeverLost == WQSpec => []NoLostWakeup
  BY WQInvariant, PTL DEF WQInv

\* CancelReachesAll holds in every reachable state.
THEOREM CancellationComplete == WQSpec => []CancelReachesAll
  BY WQInvariant, PTL DEF WQInv

LEMMA MoveHead ==
    ASSUME NEW S, NEW s \in Seq(S), NEW t \in Seq(S), t # <<>>
    PROVE  Append(s, Head(t)) \o Tail(t) = s \o t
<1>0. Head(t) \in S /\ Tail(t) \in Seq(S)
  BY HeadTailProperties
<1>1. <<Head(t)>> \in Seq(S)
  BY <1>0
<1>2. <<Head(t)>> \o Tail(t) = t
  BY <1>0
<1>3. Append(s, Head(t)) = s \o <<Head(t)>>
  BY <1>0, AppendIsConcat
<1>4. (s \o <<Head(t)>>) \o Tail(t) = s \o (<<Head(t)>> \o Tail(t))
  BY <1>0, <1>1, ConcatAssociative
<1>5. QED
  BY <1>2, <1>3, <1>4

\* FifoOnce holds in every reachable state: a push appends to both sides, a fetch
\* moves the front of the queue to the end of what was delivered.
THEOREM ItemsOnceInOrder == WQSpec => []FifoOnce
<1>1. WQInit => FifoOnce
  <2>1. <<>> \o <<>> = <<>>
    BY EmptySeq, ConcatEmptySeq
  <2>2. QED
    BY <2>1 DEF WQInit, FifoOnce
<1>2. WQTypeOK /\ FifoOnce /\ [WQNext]_wqVars => FifoOnce'
  <2> SUFFICES ASSUME WQTypeOK, FifoOnce, [WQNext]_wqVars PROVE FifoOnce'
    OBVIOUS
  <2> USE DEF FifoOnce
  <2>1. ASSUME NEW itm \in Items, pushItem(itm) PROVE FifoOnce'
    <3>1. CASE Full
      BY <2>1, <3>1 DEF pushItem, wqVars, Full
    <3>2. CASE ~Full
      <4>1. queue' = Append(queue, itm) /\ accepted' = Append(accepted, itm)
            /\ delivered' = delivered
        BY <2>1, <3>2 DEF pushItem, Full
      <4>2. delivered \in Seq(Items) /\ queue \in Seq(Items)
        BY DEF WQTypeOK
      <4>3. /\ delivered \o queue \in Seq(Items)
            /\ <<itm>> \in Seq(Items)
        BY <2>1, <4>2, ConcatProperties
      <4>4. /\ Append(delivered \o queue, itm) = (delivered \o queue) \o <<itm>>
            /\ Append(queue, itm) = queue \o <<itm>>
        BY <2>1, <4>2, <4>3, AppendIsConcat
      <4>5. (delivered \o queue) \o <<itm>> = delivered \o (queue \o <<itm>>)
        BY <4>2, <4>3, ConcatAssociative
      <4>6. QED
        BY <4>1, <4>4, <4>5
    <3>3. QED BY <3>1, <3>2
  <2>2. CASE PopFront /\ UNCHANGED accepted
    <3>1. Append(delivered, Head(queue)) \o Tail(queue) = delivered \o queue
      BY <2>2, MoveHead DEF PopFront, WQTypeOK
    <3>2. QED
      BY <2>2, <3>1 DEF PopFront
  <2>3. CASE UNCHANGED <<queue, accepted, delivered>>
    BY <2>3
  <2>4. QED
    BY <2>1, <2>2, <2>3
       DEF WQNext, resume, enterFetch, throwCancelled, takeAfterWait, waitAgain,
           spuriousWakeup, fetchItemNonBlocking, cancelFetch, setItemLimit, wqVars
<1>3. QED
  BY <1>1, <1>2, WQTypeCorrect, PTL DEF WQSpec
=============================================================================
