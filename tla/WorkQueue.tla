------------------------------ MODULE WorkQueue ------------------------------
(***************************************************************************)
(* WorkQueue.cpp / WorkQueue.h: the mutex-and-condition-variable queue      *)
(* that carries WorkItems between the I/O thread and the worker thread.     *)
(*                                                                         *)
(* Every operation but setItemLimit holds queueMutex from its first to its  *)
(* last statement, so it is one action; only fetchItemBlocking releases the *)
(* mutex, inside cv.wait.  A thread blocked there is in "waiting" until it  *)
(* is notified (or wakes spuriously) and then in "woken" until it gets the  *)
(* mutex back and evaluates the wait's predicate again.                     *)
(***************************************************************************)
EXTENDS Naturals, Sequences, FiniteSets

CONSTANTS
    Fetchers,    \* the threads that call fetchItemBlocking
    Items,       \* the work items
    Limits,      \* the values passed to setItemLimit (0 means "no limit")
    MaxAccepted  \* bound: how many items the queue takes in

ASSUME WorkQueueAssumption ==
    /\ IsFiniteSet(Fetchers)
    /\ Limits \subseteq Nat
    /\ MaxAccepted \in Nat

VARIABLES
    queue,           \* std::queue<WorkItem> queue
    itemLimit,       \* unsigned long itemLimit
    fetchCancelled,  \* bool fetchCancelled
    waiting,         \* the fetchers blocked on cv
    woken,           \* the fetchers notified, on their way to take the mutex again
    accepted,        \* history: every item the queue took in, in order
    delivered        \* history: every item handed to a fetcher, in order

wqVars == <<queue, itemLimit, fetchCancelled, waiting, woken, accepted, delivered>>

WQInit ==
    /\ queue = <<>>
    /\ itemLimit = 0
    /\ fetchCancelled = FALSE
    /\ waiting = {}
    /\ woken = {}
    /\ accepted = <<>>
    /\ delivered = <<>>

-----------------------------------------------------------------------------
(* The condition variable. *)

\* Mutant: the notified thread is not taken off the list of sleepers.
notify_kept == IF waiting = {}
               THEN UNCHANGED <<waiting, woken>>
               ELSE \E t \in waiting : woken' = woken \union {t} /\ UNCHANGED waiting

notify_one ==
    IF waiting = {}
    THEN UNCHANGED <<waiting, woken>>
    ELSE \E t \in waiting : /\ waiting' = waiting \ {t}
                            /\ woken' = woken \union {t}

notify_all ==
    /\ waiting' = {}
    /\ woken' = woken \union waiting

\* The standard lets a wait on a condition variable return unnotified.
spuriousWakeup(t) ==
    /\ t \in waiting
    /\ waiting' = waiting \ {t}
    /\ woken' = woken \union {t}
    /\ UNCHANGED <<queue, itemLimit, fetchCancelled, accepted, delivered>>

-----------------------------------------------------------------------------
(* The operations. *)

Full == itemLimit # 0 /\ Len(queue) >= itemLimit

\* Mutant: the notification is forgotten.
pushItemSilent(itm) ==
    /\ Len(accepted) < MaxAccepted
    /\ \/ /\ Full
          /\ UNCHANGED wqVars
       \/ /\ ~Full
          /\ queue' = Append(queue, itm)
          /\ accepted' = Append(accepted, itm)
          /\ UNCHANGED <<itemLimit, fetchCancelled, waiting, woken, delivered>>

pushItem(itm) ==
    /\ Len(accepted) < MaxAccepted
    /\ \/ /\ Full
          /\ UNCHANGED wqVars
       \/ /\ ~Full
          /\ queue' = Append(queue, itm)
          /\ accepted' = Append(accepted, itm)
          /\ notify_one
          /\ UNCHANGED <<itemLimit, fetchCancelled, delivered>>

\* Mutant: the front is read but queue.pop() is forgotten.
FrontOnly ==
    /\ queue # <<>>
    /\ delivered' = Append(delivered, Head(queue))
    /\ Len(delivered) < MaxAccepted
    /\ UNCHANGED queue

PopFront ==
    /\ queue # <<>>
    /\ queue' = Tail(queue)
    /\ delivered' = Append(delivered, Head(queue))

\* The call up to the first evaluation of the predicate: the flag is cleared,
\* whoever raised it and whenever, and the caller leaves with an item or blocks.
enterFetch(t) ==
    /\ t \in Fetchers \ (waiting \union woken)
    /\ fetchCancelled' = FALSE
    /\ \/ /\ PopFront
          /\ UNCHANGED waiting
       \/ /\ queue = <<>>
          /\ waiting' = waiting \union {t}
          /\ UNCHANGED <<queue, delivered>>
    /\ UNCHANGED <<itemLimit, woken, accepted>>

\* A woken fetcher holds the mutex again and the predicate is true: the
\* cancellation is tested before the queue.
throwCancelled(t) ==
    /\ t \in woken
    /\ fetchCancelled
    /\ woken' = woken \ {t}
    /\ UNCHANGED <<queue, itemLimit, fetchCancelled, waiting, accepted, delivered>>

takeAfterWait(t) ==
    /\ t \in woken
    /\ ~fetchCancelled
    /\ PopFront
    /\ woken' = woken \ {t}
    /\ UNCHANGED <<itemLimit, fetchCancelled, waiting, accepted>>

\* Mutant: the predicate tests the queue only.
waitAgainUncancelled(t) ==
    /\ t \in woken
    /\ queue = <<>>
    /\ waiting' = waiting \union {t}
    /\ woken' = woken \ {t}
    /\ UNCHANGED <<queue, itemLimit, fetchCancelled, accepted, delivered>>

\* The predicate is false: cv.wait blocks again.
waitAgain(t) ==
    /\ t \in woken
    /\ ~fetchCancelled
    /\ queue = <<>>
    /\ waiting' = waiting \union {t}
    /\ woken' = woken \ {t}
    /\ UNCHANGED <<queue, itemLimit, fetchCancelled, accepted, delivered>>

resume(t) == throwCancelled(t) \/ takeAfterWait(t) \/ waitAgain(t)

fetchItemNonBlocking ==
    /\ PopFront
    /\ UNCHANGED <<itemLimit, fetchCancelled, waiting, woken, accepted>>

\* Mutant: notify_all is written notify_one.
cancelFetchOne ==
    /\ fetchCancelled' = TRUE
    /\ notify_one
    /\ UNCHANGED <<queue, itemLimit, accepted, delivered>>

cancelFetch ==
    /\ fetchCancelled' = TRUE
    /\ notify_all
    /\ UNCHANGED <<queue, itemLimit, accepted, delivered>>

\* Takes no lock: a push meets the old limit or the new one, so the store is one
\* action too.
setItemLimit(n) ==
    /\ itemLimit' = n
    /\ UNCHANGED <<queue, fetchCancelled, waiting, woken, accepted, delivered>>

-----------------------------------------------------------------------------

WQNext ==
    \/ \E itm \in Items : pushItem(itm)
    \/ \E t \in Fetchers : enterFetch(t) \/ resume(t) \/ spuriousWakeup(t)
    \/ fetchItemNonBlocking
    \/ cancelFetch
    \/ \E n \in Limits : setItemLimit(n)

WQSpec == WQInit /\ [][WQNext]_wqVars

-----------------------------------------------------------------------------
(* Properties. *)

\* The types of the members; a thread is not both asleep and on its way out.
WQTypeOK ==
    /\ queue \in Seq(Items)
    /\ itemLimit \in Nat
    /\ fetchCancelled \in BOOLEAN
    /\ waiting \subseteq Fetchers
    /\ woken \subseteq Fetchers
    /\ accepted \in Seq(Items)
    /\ delivered \in Seq(Items)
    /\ waiting \intersect woken = {}

\* No lost wake-up: while some fetcher is blocked in cv.wait, each item in the
\* queue has a fetcher of its own on the way to it, although pushItem notifies
\* only one thread, a non-blocking fetch may take the item first, and a
\* cancellation may make a notified fetcher leave without its item.
NoLostWakeup == waiting # {} => Len(queue) <= Cardinality(woken)

\* While a cancellation is in force nobody is blocked: every fetcher that was in
\* cv.wait when cancelFetch ran has left it.
CancelReachesAll == fetchCancelled => waiting = {}

\* Items come out in the order they went in, each once, none invented: pushes,
\* blocking and non-blocking fetches, cancelled fetches and limits included.
FifoOnce == accepted = delivered \o queue
=============================================================================
