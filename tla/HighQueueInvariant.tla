------------------------- MODULE HighQueueInvariant -------------------------
(***************************************************************************)
(* The inductive invariant of HighQueue without the discard option: why    *)
(* the window, the entries and the order of the messages stay intact for   *)
(* every number of producers and entries.  Read with the code: what each   *)
(* thread may rely on between its accesses to shared memory.  Then the     *)
(* refinement mapping, under which the ring implements FifoQueue.          *)
(***************************************************************************)
EXTENDS HighQueue

\* Only the solo code calls waitToPublish, only the multi code rechecks under
\* waitMutex_.
Callers ==
    \A p \in Producers :
        IF CanSolo THEN caller[p] # "recheck" ELSE caller[p] # "wait" /\ pc[p] # "test"

\* Where the position that p has read is still publishPosition_: a multi producer
\* has held the spin lock since, a solo producer is the only one.
Discarding == {"present", "discardLoad", "discardStore", "discardRefresh"}
Current(p) ==
    \/ pc[p] \in {"write", "store"}
    \/ pc[p] \in {"can"} \cup Discarding /\ (CanSolo \/ caller[p] = "publish")
    \/ CanSolo /\ pc[p] \in {"full", "backoff", "lock", "block", "waiting", "notified", "expired"}
Positions == \A p \in Producers : Current(p) => position[p] = publishPosition

\* What holds with the discard option too: one producer at a time, whose position
\* nobody else moves.
LockInv == Callers /\ SpinLockExclusion /\ Positions

\* canPublish's branch for discardMessagesIfNoConsumer_ is never taken.
NoDiscard == \A p \in Producers : pc[p] \notin Discarding

\* A cached position is old, never wrong: both positions only grow.
Caches ==
    /\ \A p \in Producers : publishable[p] <= readPosition + EntryCount
    /\ cached <= publishPosition

\* Past canPublish there is an entry for the message.
Room ==
    \A p \in Producers :
        pc[p] \in {"write", "store"} => publishPosition < readPosition + EntryCount

\* Past its test the consumer has a message at readPosition_, which it alone moves.
Reading ==
    /\ cpc \in {"reload", "fetch", "increment"} => cposition = readPosition
    /\ cpc \in {"fetch", "load", "increment"} => readPosition < publishPosition

\* Between Fetch and IncrementReadPosition the entry at readPosition is taken
\* already, though it still counts as occupied.
Taken == IF cpc \in {"load", "increment"} THEN 1 ELSE 0

\* Positions count the messages.
Counts ==
    /\ publishPosition = EntryCount + Len(published)
    /\ readPosition + Taken = EntryCount + Len(consumed)

\* The messages waiting in the ring are those published and not consumed, each in
\* the entry of its position, ...
Waiting ==
    \A i \in readPosition + Taken .. publishPosition - 1 :
        entries[Slot(i)] = [status |-> "OK", message |-> published[i - EntryCount + 1]]

\* ... and the one that StorePublishPosition is about to publish is in the next.
Stored ==
    \A p \in Producers : At(p, "store") =>
        entries[Slot(publishPosition)] = [status |-> "OK", message |-> <<p, sent[p]>>]

RingInv ==
    /\ LockInv /\ NoDiscard
    /\ Caches /\ Room /\ Reading /\ Window
    /\ Counts /\ Waiting /\ Stored /\ Fifo
-----------------------------------------------------------------------------
(* Why nobody sleeps through a notification *)

\* Who holds waitMutex_: a producer from LockToRecheck on, the consumer in the second
\* and third tryGetNext() of getNext().
ProducerHolds(p) ==
    \/ pc[p] \in {"unlock", "block"}
    \/ pc[p] \in {"can"} \cup Discarding /\ caller[p] = "recheck"
InTryGetNext ==
    cpc \in {"try", "reread", "reload", "fetch", "load", "increment", "notify", "fetched", "empty"}
ConsumerHolds == InTryGetNext /\ ccaller \in {"locked", "expired"}
MutexExclusion ==
    /\ \A p \in Producers : ProducerHolds(p) <=> waitMutex = p
    /\ ConsumerHolds <=> waitMutex = Consumer

\* A strategy without the mutex polls for ever: its count never falls.
ProducerStrategy ==
    ~ProducerUsesMutex => \A p \in Producers :
        /\ polls[p] = ProducerPolls \/ pc[p] = "idle"
        /\ pc[p] \notin {"lock", "waiting"} /\ ~ProducerHolds(p)
ConsumerStrategy ==
    ~ConsumerUsesMutex =>
        /\ cpc = "loop" \/ (InTryGetNext /\ ccaller = "poll") => cpolls = ConsumerPolls
        /\ cpc \notin {"lock", "waiting", "notified", "expired"} /\ ~ConsumerHolds

\* The flag of whoever sleeps is set; it is taken back by those who wake him.
Flagged ==
    /\ \A p \in Producers : At(p, "waiting") => producerWaiting
    /\ cpc = "waiting" => consumerWaiting

\* Who sleeps, or is about to with waitMutex_ held, has nothing to wake up for, or the
\* other side has moved its position since and is on its way to the mutex.
OldPositions == \A p \in Producers : position[p] <= publishPosition
ProducersSleep ==
    \A p \in Producers :
        pc[p] \in {"block", "waiting"} /\ publishPosition < readPosition + EntryCount => cpc = "notify"
ConsumerSleeps ==
    /\ cpc = "waiting" \/ (cpc = "empty" /\ ccaller = "locked")
    /\ readPosition < publishPosition
    => \E p \in Producers : At(p, "notify")

WakeupInv ==
    /\ MutexExclusion /\ ProducerStrategy /\ ConsumerStrategy
    /\ Flagged /\ OldPositions /\ ProducersSleep /\ ConsumerSleeps
-----------------------------------------------------------------------------
(* The bounded queue that the ring implements *)

\* The queue is what the entries from readPosition to publishPosition hold.
QueueInEntries ==
    [i \in 1 .. publishPosition - readPosition - Taken |->
        entries[Slot(readPosition + Taken + i - 1)].message]

\* A call is pending until StorePublishPosition; in the states below it is over,
\* or (notify, solo) it may be over without having published.
Pending ==
    {p \in Producers : pc[p] \notin {"idle", "notify", "release", "threw"}}

\* A publish() may end without success once its producer is stopped or timed out.
Excused == {p \in Producers : Stopping(p) \/ timedOut[p] \/ At(p, "expired")}

\* The ring buffer implements the queue: the messages themselves, in the entries,
\* are what the consumer gets, each once, in the order of publication.
Fifoq == INSTANCE FifoQueue WITH Capacity <- EntryCount, queue <- QueueInEntries,
             calls <- sent, pending <- Pending, excused <- Excused,
             taken <- consumed
ImplementsFifo == Fifoq!Spec

\* What the refinement needs besides RingInv: who is on his way out of publish() with his
\* message is excused.
Leaving ==
    \A p \in Producers : /\ At(p, "leave") => Stopping(p)
                         /\ At(p, "throw") => timedOut[p]
=============================================================================
