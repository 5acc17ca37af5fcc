------------------------------ MODULE HighQueue ------------------------------
(***************************************************************************)
(* The ring buffer of src/src/HighQueue: any number of Producers           *)
(* (Producer.cpp) publish into the entries of one HQHeader, one Consumer   *)
(* (Consumer.cpp) takes the messages out again.  Every action is one       *)
(* access to shared state with the thread-local work around it; a thread's *)
(* pc names its next access.  A critical section of waitMutex_ that        *)
(* neither blocks nor reads unprotected state twice is a single action.    *)
(***************************************************************************)
EXTENDS Integers, Sequences

CONSTANTS
    Producers,          \* the Producer objects attached to the connection
    Consumer,           \* the thread that owns the Consumer object
    Free,               \* the owner of a lock nobody holds
    NoMessage,          \* what a Message that was moved from contains
    EntryCount,         \* HQHeader::entryCount_
    CanSolo,            \* Connection::canSolo(): exactly one willProduce()
    ProducerPolls,      \* spins + yields + sleeps of the producers' WaitStrategy
    ProducerUsesMutex,  \* WaitStrategy::mutexUsed_: none of them is FOREVER
    ConsumerPolls,
    ConsumerUsesMutex,
    DiscardMessages,    \* HQHeader::discardMessagesIfNoConsumer_
    MayTimeOut,         \* mutexWaitTimeout_ can elapse while a thread waits
    Stoppable,          \* the threads on whose object somebody may call stop()
    MaxMessages,        \* bound: calls of publish() by each producer
    MaxAttach           \* bound: Consumer objects constructed, one at a time

ASSUME EntryCountAssumption == EntryCount \in Nat \ {0}
ASSUME SoloAssumption == CanSolo \in BOOLEAN /\ (CanSolo => \A p, q \in Producers : p = q)
ASSUME StrategyAssumption ==
    /\ ProducerPolls \in Nat /\ ConsumerPolls \in Nat
    /\ {ProducerUsesMutex, ConsumerUsesMutex, DiscardMessages, MayTimeOut} \subseteq BOOLEAN
    /\ (ProducerPolls > 0 \/ ProducerUsesMutex) /\ (ConsumerPolls > 0 \/ ConsumerUsesMutex)
ASSUME ThreadAssumption == Consumer \notin Producers /\ Free \notin Producers \cup {Consumer}
ASSUME BoundAssumption == MaxMessages \in Nat /\ MaxAttach \in Nat
ASSUME NoMessageAssumption == NoMessage \notin Producers \X Nat

VARIABLES
    readPosition, publishPosition, entries,               \* the ring
    spinLock, waitMutex,                                  \* owners of the two locks
    producerWaiting, consumerWaiting, consumerPresent,    \* flags of the header
    pc, caller,             \* each Producer: its next access, who called canPublish,
    publishable, position, target,      \* positions it has cached or read,
    polls, timedOut,                    \* its wait counters,
    sent, pstop,                        \* its calls of publish() and stop()
    cpc, ccaller,           \* the Consumer: its next access, who called tryGetNext,
    cached, cposition, got, cpolls,     \* positions, result and wait counter,
    attaches, cstop,                    \* its construction and stop()
    published, consumed     \* histories, read by no action

ring == <<readPosition, publishPosition, entries>>
locks == <<spinLock, waitMutex>>
flags == <<producerWaiting, consumerWaiting, consumerPresent>>
places == <<caller, publishable, position, target>>
waits == <<polls, timedOut>>
calls == <<sent, pstop>>
cplaces == <<ccaller, cached, cposition, got>>
clife == <<attaches, cstop>>
consumer == <<cpc, cplaces, cpolls, clife>>
history == <<published, consumed>>
vars == <<ring, locks, flags, pc, places, waits, calls, consumer, history>>

Slots == 0 .. EntryCount - 1

\* HighQEntryAccessor::operator[]: the entry that holds a position.
Slot(index) == index % EntryCount

Init ==
    /\ readPosition = EntryCount /\ publishPosition = EntryCount
    /\ entries = [s \in Slots |-> [status |-> "EMPTY", message |-> NoMessage]]
    /\ spinLock = Free /\ waitMutex = Free
    /\ producerWaiting = FALSE /\ consumerWaiting = FALSE /\ consumerPresent = FALSE
    /\ pc = [p \in Producers |-> "idle"]
    /\ caller = [p \in Producers |-> "publish"]
    /\ publishable = [p \in Producers |-> 0] /\ position = [p \in Producers |-> 0]
    /\ target = [p \in Producers |-> 0]
    /\ polls = [p \in Producers |-> 0] /\ timedOut = [p \in Producers |-> FALSE]
    /\ sent = [p \in Producers |-> 0] /\ pstop = [p \in Producers |-> "no"]
    /\ cpc = "off" /\ ccaller = "direct" /\ cached = 0 /\ cposition = 0 /\ got = FALSE
    /\ cpolls = 0 /\ attaches = 0 /\ cstop = "no"
    /\ published = <<>> /\ consumed = <<>>
-----------------------------------------------------------------------------
(* Producer *)

At(p, label) == pc[p] = label
Goto(p, label) == pc' = [pc EXCEPT ![p] = label]
Stopping(p) == pstop[p] # "no"
ProducerOnly == UNCHANGED <<ring, locks, flags, consumer, history>>
PcOnly == ProducerOnly /\ UNCHANGED <<places, waits, calls>>

\* Mutant: one poll too many.
PollsLeft_AtZero(n) == n >= 0
\* remainingSpins, remainingYields and remainingSleeps in one count; FOREVER stays.
PollsLeft(n) == n > 0
CountDown(n, usesMutex) == IF usesMutex THEN n - 1 ELSE n

\* publish(Message &) is entered: the wait counters start afresh.
Publish(p) ==
    /\ At(p, "idle") /\ sent[p] < MaxMessages
    /\ sent' = [sent EXCEPT ![p] = @ + 1]
    /\ polls' = [polls EXCEPT ![p] = ProducerPolls]
    /\ timedOut' = [timedOut EXCEPT ![p] = FALSE]
    /\ Goto(p, IF CanSolo THEN "test" ELSE "acquire")
    /\ ProducerOnly /\ UNCHANGED <<places, pstop>>

\* solo: while(!published && !stopping_)
TestStopping(p) ==
    /\ At(p, "test")
    /\ Goto(p, IF Stopping(p) THEN "notify" ELSE "position")
    /\ PcOnly

\* Mutant: does not look whether the lock is taken.
Acquire_Blindly(p) ==
    /\ At(p, "acquire")
    /\ spinLock' = p
    /\ Goto(p, "position")
    /\ UNCHANGED <<ring, waitMutex, flags, places, waits, calls, consumer, history>>
\* SpinLock::acquire, by the Guard or by the destructor of an Unguard.
Acquire(p) ==
    /\ At(p, "acquire") /\ spinLock = Free
    /\ spinLock' = p
    /\ Goto(p, "position")
    /\ UNCHANGED <<ring, waitMutex, flags, places, waits, calls, consumer, history>>

\* Position position = publishPosition_
ReadPublishPosition(p) ==
    /\ At(p, "position")
    /\ position' = [position EXCEPT ![p] = publishPosition]
    /\ caller' = [caller EXCEPT ![p] = "publish"]
    /\ Goto(p, "can")
    /\ ProducerOnly /\ UNCHANGED <<publishable, target, waits, calls>>

\* Where the call sites of canPublish(position) go on, by its result.
WhenTrue(p) == CASE caller[p] = "publish" -> "write"
                 [] caller[p] = "recheck" -> "unlock"
                 [] caller[p] = "wait"    -> "test"
WhenFalse(p) == CASE caller[p] = "publish" -> "full"
                  [] caller[p] = "recheck" -> "block"
                  [] caller[p] = "wait"    -> "backoff"

\* Mutant: lets the producers go one entry too far.
Limit_OneMore == readPosition + EntryCount + 1
\* The new value of publishable_.
Limit == readPosition + EntryCount

\* Mutant: waits on a full queue whether there is a consumer or not.
CanPublish_NeverDiscards(p) ==
    /\ At(p, "can")
    /\ IF publishable[p] > position[p]
         THEN Goto(p, WhenTrue(p)) /\ UNCHANGED publishable
         ELSE /\ publishable' = [publishable EXCEPT ![p] = Limit]
              /\ Goto(p, IF Limit > position[p] THEN WhenTrue(p) ELSE WhenFalse(p))
    /\ ProducerOnly /\ UNCHANGED <<caller, position, target, waits, calls>>
\* canPublish: the cached limit first, then the consumer's current position.
CanPublish(p) ==
    /\ At(p, "can")
    /\ IF publishable[p] > position[p]
         THEN Goto(p, WhenTrue(p)) /\ UNCHANGED publishable
         ELSE /\ publishable' = [publishable EXCEPT ![p] = Limit]
              /\ Goto(p, IF Limit > position[p] THEN WhenTrue(p)
                         ELSE IF DiscardMessages THEN "present" ELSE WhenFalse(p))
    /\ ProducerOnly /\ UNCHANGED <<caller, position, target, waits, calls>>

\* canPublish on a full queue, discardMessagesIfNoConsumer_: is a consumer there?
TestPresent(p) ==
    /\ At(p, "present")
    /\ Goto(p, IF consumerPresent THEN WhenFalse(p) ELSE "discardLoad")
    /\ PcOnly

\* ... if not, readPosition_ = publishPosition_.load(): a load,
DiscardLoad(p) ==
    /\ At(p, "discardLoad")
    /\ target' = [target EXCEPT ![p] = publishPosition]
    /\ Goto(p, "discardStore")
    /\ ProducerOnly /\ UNCHANGED <<caller, publishable, position, waits, calls>>

\* ... a store to the position that is otherwise the consumer's,
DiscardStore(p) ==
    /\ At(p, "discardStore")
    /\ readPosition' = target[p]
    /\ Goto(p, "discardRefresh")
    /\ UNCHANGED <<publishPosition, entries, locks, flags, places, waits, calls, consumer, history>>

\* ... and the new limit; canPublish then returns true.
DiscardRefresh(p) ==
    /\ At(p, "discardRefresh")
    /\ publishable' = [publishable EXCEPT ![p] = Limit]
    /\ Goto(p, WhenTrue(p))
    /\ ProducerOnly /\ UNCHANGED <<caller, position, target, waits, calls>>

\* publish(position, message): moveTo into the entry, status OK.  No code ever
\* assigns the status SKIP that would make it refuse.
Write(p) ==
    /\ At(p, "write")
    /\ entries' = [entries EXCEPT ![Slot(position[p])] = [status |-> "OK", message |-> <<p, sent[p]>>]]
    /\ Goto(p, "store")
    /\ UNCHANGED <<readPosition, publishPosition, locks, flags, places, waits, calls, consumer, history>>

\* publishPosition_.store(position + 1)
StorePublishPosition(p) ==
    /\ At(p, "store")
    /\ publishPosition' = position[p] + 1
    /\ published' = Append(published, <<p, sent[p]>>)
    /\ Goto(p, "notify")
    /\ UNCHANGED <<readPosition, entries, locks, flags, places, waits, calls, consumer, consumed>>

\* Mutant: forgets notify_all.
WakeConsumer_Never == UNCHANGED cpc
\* notifyConsumer: notify_all under waitMutex_ (and the spin lock, unless solo).
WakeConsumer == cpc' = IF cpc = "waiting" THEN "notified" ELSE cpc
NotifyConsumer(p) ==
    /\ At(p, "notify")
    /\ IF ConsumerUsesMutex
         THEN /\ waitMutex = Free
              /\ consumerWaiting' = FALSE
              /\ IF consumerWaiting THEN WakeConsumer ELSE UNCHANGED cpc
         ELSE UNCHANGED <<consumerWaiting, cpc>>
    /\ Goto(p, IF CanSolo THEN "idle" ELSE "release")
    /\ UNCHANGED <<ring, locks, producerWaiting, consumerPresent, places, waits, calls,
                   cplaces, cpolls, clife, history>>

\* The Guard's destructor.
Release(p) ==
    /\ At(p, "release")
    /\ spinLock' = Free
    /\ Goto(p, "idle")
    /\ UNCHANGED <<ring, waitMutex, flags, places, waits, calls, consumer, history>>

\* The queue is full.  multi: an Unguard releases the spin lock.  solo:
\* waitToPublish is called, sets its counters and tests canPublish again.
Unguard(p) ==
    /\ At(p, "full") /\ ~CanSolo
    /\ spinLock' = Free
    /\ Goto(p, "backoff")
    /\ UNCHANGED <<ring, waitMutex, flags, places, waits, calls, consumer, history>>
WaitToPublish(p) ==
    /\ At(p, "full") /\ CanSolo
    /\ polls' = [polls EXCEPT ![p] = ProducerPolls]
    /\ caller' = [caller EXCEPT ![p] = "wait"]
    /\ Goto(p, "can")
    /\ ProducerOnly /\ UNCHANGED <<publishable, position, target, timedOut, calls>>

\* Mutant: the return after unreserve() is missing.
GiveUp_StaysInLoop(p) ==
    /\ At(p, "backoff") /\ Stopping(p)
    /\ publishPosition' = IF CanSolo THEN position[p] ELSE publishPosition
    /\ Goto(p, IF CanSolo THEN "can" ELSE "leave")
    /\ UNCHANGED <<readPosition, entries, locks, flags, places, waits, calls, consumer, history>>
\* if(stopping_) return; solo unreserve() first stores the position it had read.
GiveUp(p) ==
    /\ At(p, "backoff") /\ Stopping(p)
    /\ publishPosition' = IF CanSolo THEN position[p] ELSE publishPosition
    /\ Goto(p, IF CanSolo THEN "test" ELSE "leave")
    /\ UNCHANGED <<readPosition, entries, locks, flags, places, waits, calls, consumer, history>>

\* Spin, yield or sleep once; a FOREVER count is not counted down.  The refresh of
\* publishable_ that ends waitToPublish's loop is the one that CanPublish does next.
Poll(p) ==
    /\ At(p, "backoff") /\ ~Stopping(p) /\ PollsLeft(polls[p])
    /\ polls' = [polls EXCEPT ![p] = CountDown(@, ProducerUsesMutex)]
    /\ Goto(p, IF CanSolo THEN "can" ELSE "acquire")
    /\ ProducerOnly /\ UNCHANGED <<places, timedOut, calls>>

\* No polls are left: lock waitMutex_ next, but throw "Producer wait timeout."
\* if multi and a wait has timed out before.
StopPolling(p) ==
    /\ At(p, "backoff") /\ ~Stopping(p) /\ ~PollsLeft(polls[p])
    /\ Goto(p, IF timedOut[p] THEN "throw" ELSE "lock")
    /\ PcOnly

\* multi: read the position again, under waitMutex_ but without the spin lock.
LockToRecheck(p) ==
    /\ At(p, "lock") /\ ~CanSolo
    /\ waitMutex = Free /\ waitMutex' = p
    /\ position' = [position EXCEPT ![p] = publishPosition]
    /\ caller' = [caller EXCEPT ![p] = "recheck"]
    /\ Goto(p, "can")
    /\ UNCHANGED <<ring, spinLock, flags, publishable, target, waits, calls, consumer, history>>

\* ... there is room after all: the mutex guard ends, then the Unguard.
Unlock(p) ==
    /\ At(p, "unlock")
    /\ waitMutex' = Free
    /\ Goto(p, "acquire")
    /\ UNCHANGED <<ring, spinLock, flags, places, waits, calls, consumer, history>>

\* ... still full: wait_for on producerWaitConditionVariable_.
Block(p) ==
    /\ At(p, "block")
    /\ waitMutex' = Free
    /\ producerWaiting' = TRUE
    /\ Goto(p, "waiting")
    /\ UNCHANGED <<ring, spinLock, consumerWaiting, consumerPresent, places, waits, calls, consumer, history>>

\* solo: the whole critical section of waitToPublish up to the wait.
LockToWait(p) ==
    LET full == Limit <= position[p] IN
    /\ At(p, "lock") /\ CanSolo
    /\ waitMutex = Free
    /\ producerWaiting' = (producerWaiting \/ full)
    /\ publishable' = [publishable EXCEPT ![p] = Limit]
    /\ Goto(p, IF full THEN "waiting" ELSE "can")
    /\ UNCHANGED <<ring, locks, consumerWaiting, consumerPresent, caller, position, target,
                   waits, calls, consumer, history>>

ProducerTimeOut(p) ==
    /\ MayTimeOut /\ At(p, "waiting")
    /\ Goto(p, "expired")
    /\ PcOnly

\* wait_for returns no_timeout once waitMutex_ is free, and the guard releases it.
ProducerWakes(p) ==
    /\ At(p, "notified") /\ waitMutex = Free
    /\ Goto(p, IF CanSolo THEN "can" ELSE "acquire")
    /\ PcOnly

\* wait_for returns timeout.  solo: throw unless there is room now; multi: look at
\* the queue once more before throwing.
ProducerExpires(p) ==
    /\ At(p, "expired") /\ waitMutex = Free
    /\ publishable' = IF CanSolo THEN [publishable EXCEPT ![p] = Limit] ELSE publishable
    /\ timedOut' = IF CanSolo THEN timedOut ELSE [timedOut EXCEPT ![p] = TRUE]
    /\ Goto(p, IF ~CanSolo THEN "acquire" ELSE IF Limit <= position[p] THEN "threw" ELSE "can")
    /\ ProducerOnly /\ UNCHANGED <<caller, position, target, polls, calls>>

\* Leaving publish() inside the Unguard's scope: its destructor takes the spin
\* lock, the Guard's releases it.
Leave(p) ==
    /\ pc[p] \in {"leave", "throw"} /\ spinLock = Free
    /\ Goto(p, IF At(p, "leave") THEN "idle" ELSE "threw")
    /\ PcOnly

\* Producer::stop(): the flag, then notify_all under waitMutex_.  All the
\* producers of a queue wait on the same condition variable.
StopProducer(p) ==
    /\ p \in Stoppable /\ pstop[p] = "no"
    /\ pstop' = [pstop EXCEPT ![p] = "set"]
    /\ ProducerOnly /\ UNCHANGED <<pc, places, waits, sent>>
\* Mutant: forgets notify_all.
Woken_Nobody == pc
Woken == [q \in Producers |-> IF pc[q] = "waiting" THEN "notified" ELSE pc[q]]
StopProducerNotify(p) ==
    /\ pstop[p] = "set" /\ waitMutex = Free
    /\ pstop' = [pstop EXCEPT ![p] = "done"]
    /\ pc' = Woken
    /\ ProducerOnly /\ UNCHANGED <<places, waits, sent>>
-----------------------------------------------------------------------------
(* Consumer *)

CGoto(label) == cpc' = label
ConsumerOnly == UNCHANGED <<ring, locks, flags, pc, places, waits, calls, history>>

\* The constructor reads publishPosition_ before it announces itself.
Attach ==
    /\ cpc = "off" /\ attaches < MaxAttach
    /\ attaches' = attaches + 1
    /\ cached' = publishPosition
    /\ cstop' = "no"
    /\ CGoto("attaching")
    /\ ConsumerOnly /\ UNCHANGED <<ccaller, cposition, got, cpolls>>

\* consumerPresent_.exchange(true)
AnnounceConsumer ==
    /\ cpc = "attaching"
    /\ consumerPresent' = TRUE
    /\ CGoto("idle")
    /\ UNCHANGED <<ring, locks, producerWaiting, consumerWaiting, pc, places, waits, calls,
                   cplaces, cpolls, clife, history>>

\* The destructor, at any time between two calls, also after one that threw.
Detach ==
    /\ cpc \in {"idle", "threw"} /\ cstop # "set"
    /\ consumerPresent' = FALSE
    /\ CGoto("off")
    /\ UNCHANGED <<ring, locks, producerWaiting, consumerWaiting, pc, places, waits, calls,
                   cplaces, cpolls, clife, history>>

\* getNext is entered; tryGetNext is called by the application itself.
GetNext ==
    /\ cpc = "idle"
    /\ cpolls' = ConsumerPolls
    /\ CGoto("loop")
    /\ ConsumerOnly /\ UNCHANGED <<cplaces, clife>>
TryGetNext ==
    /\ cpc = "idle"
    /\ ccaller' = "direct"
    /\ CGoto("try")
    /\ ConsumerOnly /\ UNCHANGED <<cached, cposition, got, cpolls, clife>>

\* Mutant: ignores stopping_.
ConsumerStopping_Never == FALSE
\* getNext: while(!stopping_) { if(tryGetNext(message)) ...
ConsumerStopping == cstop # "no"
TestLoop ==
    /\ cpc = "loop"
    /\ ccaller' = "poll"
    /\ CGoto(IF ConsumerStopping THEN "idle" ELSE "try")
    /\ ConsumerOnly /\ UNCHANGED <<cached, cposition, got, cpolls, clife>>

\* tryGetNext: what is below the cached publish position needs no second look.
ReadReadPosition ==
    /\ cpc = "try"
    /\ cposition' = readPosition
    /\ CGoto(IF readPosition >= cached THEN "reread" ELSE "fetch")
    /\ ConsumerOnly /\ UNCHANGED <<ccaller, cached, got, cpolls, clife>>
RereadReadPosition ==
    /\ cpc = "reread"
    /\ cposition' = readPosition
    /\ CGoto("reload")
    /\ ConsumerOnly /\ UNCHANGED <<ccaller, cached, got, cpolls, clife>>
ReloadPublishPosition ==
    /\ cpc = "reload"
    /\ cached' = publishPosition
    /\ CGoto(IF cposition >= publishPosition THEN "empty" ELSE "fetch")
    /\ ConsumerOnly /\ UNCHANGED <<ccaller, cposition, got, cpolls, clife>>

\* entry.message_.moveTo(message) if the entry is OK; it keeps its status.
Fetch ==
    LET slot == Slot(cposition)
        message == entries[slot].message IN
    /\ cpc = "fetch"
    /\ got' = (entries[slot].status = "OK")
    /\ IF got' THEN /\ entries' = [entries EXCEPT ![slot] = [status |-> "OK", message |-> NoMessage]]
                    /\ consumed' = Append(consumed, message)
               ELSE UNCHANGED <<entries, consumed>>
    /\ CGoto("load")
    /\ UNCHANGED <<readPosition, publishPosition, locks, flags, pc, places, waits, calls,
                   ccaller, cached, cposition, cpolls, clife, published>>

\* ++readPosition_ on a volatile: a load, then a store.
LoadReadPosition ==
    /\ cpc = "load"
    /\ cposition' = readPosition
    /\ CGoto("increment")
    /\ ConsumerOnly /\ UNCHANGED <<ccaller, cached, got, cpolls, clife>>
IncrementReadPosition ==
    /\ cpc = "increment"
    /\ readPosition' = cposition + 1
    /\ CGoto(IF ProducerUsesMutex THEN "notify" ELSE "fetched")
    /\ UNCHANGED <<publishPosition, entries, locks, flags, pc, places, waits, calls,
                   cplaces, cpolls, clife, history>>

\* incrementReadPosition locks waitMutex_ (a std::mutex: its owner blocks too).
NotifyProducers ==
    /\ cpc = "notify" /\ waitMutex = Free
    /\ producerWaiting' = FALSE
    /\ pc' = IF producerWaiting THEN Woken ELSE pc
    /\ CGoto("fetched")
    /\ UNCHANGED <<ring, locks, consumerWaiting, consumerPresent, places, waits, calls,
                   cplaces, cpolls, clife, history>>

\* tryGetNext returns true, or goes on past an entry that is not OK.  getNext
\* holds waitMutex_ around its second and third call.
Return ==
    /\ cpc = "fetched"
    /\ CGoto(IF got THEN "idle" ELSE "try")
    /\ waitMutex' = IF got /\ ccaller \in {"locked", "expired"} THEN Free ELSE waitMutex
    /\ UNCHANGED <<ring, spinLock, flags, pc, places, waits, calls, cplaces, cpolls, clife, history>>

\* tryGetNext returns false: to the application, or to getNext, which spins,
\* yields or sleeps once, or goes on to lock waitMutex_.
BackOff ==
    /\ cpc = "empty" /\ ccaller \in {"direct", "poll"}
    /\ cpolls' = IF ccaller = "poll" /\ PollsLeft(cpolls)
                   THEN CountDown(cpolls, ConsumerUsesMutex) ELSE cpolls
    /\ CGoto(IF ccaller = "direct" THEN "idle" ELSE IF PollsLeft(cpolls) THEN "loop" ELSE "lock")
    /\ ConsumerOnly /\ UNCHANGED <<cplaces, clife>>

\* waitMutex_ is locked for the second tryGetNext, or wait_for returns timeout,
\* with waitMutex_ locked again, for the third.
ConsumerLocks ==
    /\ cpc \in {"lock", "expired"}
    /\ waitMutex = Free /\ waitMutex' = Consumer
    /\ ccaller' = IF cpc = "lock" THEN "locked" ELSE "expired"
    /\ CGoto("try")
    /\ UNCHANGED <<ring, spinLock, flags, pc, places, waits, calls, cached, cposition, got,
                   cpolls, clife, history>>

\* Nothing there under the mutex either: wait_for on consumerWaitConditionVariable_.
ConsumerBlocks ==
    /\ cpc = "empty" /\ ccaller = "locked"
    /\ waitMutex' = Free
    /\ consumerWaiting' = TRUE
    /\ CGoto("waiting")
    /\ UNCHANGED <<ring, spinLock, producerWaiting, consumerPresent, pc, places, waits, calls,
                   cplaces, cpolls, clife, history>>

ConsumerTimeOut ==
    /\ MayTimeOut /\ cpc = "waiting"
    /\ CGoto("expired")
    /\ ConsumerOnly /\ UNCHANGED <<cplaces, cpolls, clife>>

\* wait_for returns no_timeout; the guard goes out of scope and the loop goes on.
ConsumerWakes ==
    /\ cpc = "notified" /\ waitMutex = Free
    /\ CGoto("loop")
    /\ ConsumerOnly /\ UNCHANGED <<cplaces, cpolls, clife>>

\* The third tryGetNext failed: throw std::runtime_error("Consumer wait timeout.").
ConsumerThrows ==
    /\ cpc = "empty" /\ ccaller = "expired"
    /\ waitMutex' = Free
    /\ CGoto("threw")
    /\ UNCHANGED <<ring, spinLock, flags, pc, places, waits, calls, cplaces, cpolls, clife, history>>

\* Consumer::stop(): the flag, then notify_all, without waitMutex_.
StopConsumer ==
    /\ Consumer \in Stoppable /\ cstop = "no" /\ cpc \notin {"off", "attaching"}
    /\ cstop' = "set"
    /\ ConsumerOnly /\ UNCHANGED <<cpc, cplaces, cpolls, attaches>>
StopConsumerNotify ==
    /\ cstop = "set"
    /\ cstop' = "done"
    /\ WakeConsumer
    /\ ConsumerOnly /\ UNCHANGED <<cplaces, cpolls, attaches>>
-----------------------------------------------------------------------------
\* What the thread inside publish() does until the call is over.
ProducerStep(p) ==
    \/ TestStopping(p) \/ Acquire(p) \/ ReadPublishPosition(p) \/ CanPublish(p)
    \/ TestPresent(p) \/ DiscardLoad(p) \/ DiscardStore(p) \/ DiscardRefresh(p)
    \/ Write(p) \/ StorePublishPosition(p) \/ NotifyConsumer(p) \/ Release(p)
    \/ Unguard(p) \/ WaitToPublish(p) \/ GiveUp(p) \/ Poll(p) \/ StopPolling(p) \/ LockToRecheck(p)
    \/ Unlock(p) \/ Block(p) \/ LockToWait(p) \/ ProducerWakes(p) \/ ProducerExpires(p)
    \/ Leave(p)

\* What the application decides to do with its Consumer object, or to do no more.
ConsumerCalls == Attach \/ GetNext \/ TryGetNext \/ Detach

\* What the thread inside the constructor, getNext() or tryGetNext() does until the
\* call is over.
ConsumerStep ==
    \/ AnnounceConsumer \/ TestLoop
    \/ ReadReadPosition \/ RereadReadPosition \/ ReloadPublishPosition \/ Fetch \/ LoadReadPosition
    \/ IncrementReadPosition \/ NotifyProducers \/ Return \/ BackOff
    \/ ConsumerLocks \/ ConsumerBlocks \/ ConsumerWakes \/ ConsumerThrows

ProducerNext(p) ==
    Publish(p) \/ ProducerStep(p) \/ ProducerTimeOut(p) \/ StopProducer(p) \/ StopProducerNotify(p)
ConsumerNext ==
    ConsumerCalls \/ ConsumerStep \/ ConsumerTimeOut \/ StopConsumer \/ StopConsumerNotify

Next == (\E p \in Producers : ProducerNext(p)) \/ ConsumerNext

Spec == Init /\ [][Next]_vars

\* The operating system runs every thread that is inside a call and can go on.  The
\* clock and the application are under no obligation: nobody need call publish(),
\* stop(), getNext() or tryGetNext(), construct a Consumer or destroy it.
Fairness ==
    /\ \A p \in Producers : WF_vars(ProducerStep(p)) /\ WF_vars(StopProducerNotify(p))
    /\ WF_vars(ConsumerStep) /\ WF_vars(StopConsumerNotify)

FairSpec == Spec /\ Fairness

\* The same where a wait_for that nobody notifies does time out in the end.
TimelySpec ==
    /\ FairSpec
    /\ \A p \in Producers : WF_vars(ProducerTimeOut(p))
    /\ WF_vars(ConsumerTimeOut)

\* The same as FairSpec where the application keeps asking for messages as long as it
\* has a Consumer, or may construct one; it may still destroy it.
ReadingSpec == FairSpec /\ WF_vars(Attach \/ GetNext \/ TryGetNext)
-----------------------------------------------------------------------------
(* Properties *)

Message == Producers \X Nat
ProducerPc ==
    {"idle", "test", "acquire", "position", "can", "present", "discardLoad", "discardStore",
     "discardRefresh", "write", "store", "notify", "release", "full", "backoff", "lock",
     "unlock", "block", "waiting", "notified", "expired", "throw", "leave", "threw"}
ConsumerPc ==
    {"off", "attaching", "idle", "loop", "try", "reread", "reload", "fetch", "load", "increment",
     "notify", "fetched", "empty", "lock", "waiting", "notified", "expired", "threw"}

RingType ==
    /\ readPosition \in Nat /\ publishPosition \in Nat
    /\ entries \in [Slots -> [status : {"EMPTY", "OK"}, message : Message \cup {NoMessage}]]
LockType ==
    /\ spinLock \in Producers \cup {Free}
    /\ waitMutex \in Producers \cup {Consumer, Free}
FlagType ==
    producerWaiting \in BOOLEAN /\ consumerWaiting \in BOOLEAN /\ consumerPresent \in BOOLEAN
PcType == pc \in [Producers -> ProducerPc]
CallerType == caller \in [Producers -> {"publish", "recheck", "wait"}]
PublishableType == publishable \in [Producers -> Nat]
PositionType == position \in [Producers -> Nat]
TargetType == target \in [Producers -> Nat]
PollsType == polls \in [Producers -> Nat]
TimedOutType == timedOut \in [Producers -> BOOLEAN]
SentType == sent \in [Producers -> Nat]
PstopType == pstop \in [Producers -> {"no", "set", "done"}]
ConsumerType ==
    /\ cpc \in ConsumerPc /\ ccaller \in {"direct", "poll", "locked", "expired"}
    /\ cached \in Nat /\ cposition \in Nat /\ got \in BOOLEAN /\ cpolls \in Nat
    /\ attaches \in Nat /\ cstop \in {"no", "set", "done"}
HistoryType == published \in Seq(Message) /\ consumed \in Seq(Message \cup {NoMessage})

\* Every variable has its type.
TypeOK ==
    /\ RingType /\ LockType /\ FlagType
    /\ PcType /\ CallerType /\ PublishableType /\ PositionType /\ TargetType
    /\ PollsType /\ TimedOutType /\ SentType /\ PstopType
    /\ ConsumerType /\ HistoryType

\* The program points of a multi producer between Acquire and the release.
InSpinLock(p) ==
    \/ pc[p] \in {"position", "write", "store", "notify", "release", "full"}
    \/ /\ pc[p] \in {"can", "present", "discardLoad", "discardStore", "discardRefresh"}
       /\ caller[p] = "publish"

\* Producer.cpp unlocks and relocks reserveSpinLock_ around every wait; still two
\* producers are never between Acquire and Release at once.
SpinLockExclusion ==
    ~CanSolo => \A p \in Producers : InSpinLock(p) <=> spinLock = p

\* "Only the last entryCount_ entries are visible" (HQHeader.hpp): what is published
\* and not yet read fits in the ring, and the consumer never runs ahead of it.
Window == readPosition <= publishPosition /\ publishPosition <= readPosition + EntryCount

\* No synchronisation but the two positions keeps a producer that moves a message
\* into an entry from a consumer that moves one out of it: they are never at the
\* same entry at once.
NoEntryRace ==
    \A p \in Producers : At(p, "write") /\ cpc = "fetch" =>
                             Slot(position[p]) # Slot(cposition)

\* Fetch finds a message that was published, never an empty entry (EMPTY status or
\* moved from), whatever the cached publish position says.
FetchFindsMessage ==
    cpc = "fetch" => /\ entries[Slot(cposition)].status = "OK"
                     /\ entries[Slot(cposition)].message # NoMessage

\* consumerWaiting_ is only a hint to save notifications: when the consumer sleeps on
\* its condition variable and a message is there for it, some producer has yet to
\* run notifyConsumer and will wake it.
NoLostConsumerWakeup ==
    cpc = "waiting" /\ readPosition < publishPosition =>
        consumerWaiting /\ \E p \in Producers : At(p, "notify")

\* The same for producerWaiting_ and every producer that sleeps although an entry is
\* free: the consumer is on its way to NotifyProducers.
NoLostProducerWakeup ==
    \A p \in Producers :
        At(p, "waiting") /\ publishPosition < readPosition + EntryCount =>
            producerWaiting /\ cpc = "notify"

\* The consumer sees exactly what was published, in that order: nothing is lost,
\* repeated, reordered or mixed up on the way.
Fifo == /\ Len(consumed) <= Len(published)
        /\ \A i \in 1 .. Len(consumed) : consumed[i] = published[i]

\* When the application asks again and again, a call of publish() ends with the message
\* at the consumer, unless somebody calls stop(), a wait that timed out ends one of the
\* two sides, or the last Consumer leaves.
Left == cpc = "off" /\ attaches = MaxAttach
Ended(p) == Stopping(p) \/ ConsumerStopping \/ At(p, "threw") \/ cpc = "threw" \/ Left
EveryMessageDelivered ==
    \A p \in Producers : \A k \in 1 .. MaxMessages :
        sent[p] = k ~> Ended(p) \/ \E i \in DOMAIN consumed : consumed[i] = <<p, k>>

\* publish() does not outlast stop(): it returns, or has already timed out, however
\* the flag, the notification, the wait and the timeout are interleaved.
StoppedPublishEnds ==
    \A p \in Producers \cap Stoppable : pstop[p] # "no" ~> pc[p] \in {"idle", "threw"}

\* getNext does not outlast stop() while the consumer polls.
StoppedGetNextEnds == cstop # "no" ~> cpc \in {"idle", "off"}

\* "If true, when the queue is full and no consumer is available messages will be
\* discarded" (HQHeader.hpp): publish() ends although nobody reads any more, and although
\* another producer is on its way through the same discard, or a consumer comes or goes.
\* It hangs only on a Consumer that stays and that the application does not ask again.
PublishReturns == \A p \in Producers : pc[p] # "idle" ~> pc[p] = "idle" \/ [](cpc = "idle")

\* "Cancel the outstanding publish and stop publishing" (Producer.hpp): once stop() has
\* returned, no publish() of that producer sleeps on a full queue.
StopCancelsPublish == \A p \in Producers : pstop[p] = "done" => ~At(p, "waiting")

\* "stop receiving messages" (Consumer.hpp): once stop() has returned, getNext() does not
\* sleep on an empty queue.
StopEndsGetNext == cstop = "done" => cpc # "waiting"

\* "when the queue is full and no consumer is available messages will be discarded"
\* (HQHeader.hpp): a publish() that has waited in vain throws only if a consumer is there.
ThrowsOnlyIfConsumed ==
    [][\A p \in Producers : ~At(p, "threw") /\ pc'[p] = "threw" => consumerPresent]_vars

\* Entries are published one after the other: no step skips a position or takes one
\* back, unreserve() and the discarding of messages included.
PublishByOne == [][publishPosition' \in {publishPosition, publishPosition + 1}]_vars
=============================================================================
