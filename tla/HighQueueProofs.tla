--------------------------- MODULE HighQueueProofs ---------------------------
(***************************************************************************)
(* What holds of the ring buffer for every number of producers, entries    *)
(* and messages, of the waits of its threads, and why the ring implements  *)
(* the queue of FifoQueue.                                                 *)
(***************************************************************************)
EXTENDS HighQueueInvariant, Remainders, SequenceTheorems, TLAPS

USE DEF At, Goto, CGoto, ProducerOnly, PcOnly, ConsumerOnly, ring, locks, flags, places,
        waits, calls, consumer, cplaces, clife, history
-----------------------------------------------------------------------------
(* The operators of the model *)

\* HighQEntryAccessor::operator[]: positions less than entryCount_ apart have
\* different entries.
LEMMA EntriesDiffer ==
    ASSUME NEW i \in Nat, NEW j \in Nat, i < j, j < i + EntryCount
    PROVE  Slot(i) # Slot(j)
BY SlotsDiffer, EntryCountAssumption DEF Slot

\* canPublish's limit is a position.
LEMMA LimitType == ASSUME RingType PROVE Limit \in Nat
BY EntryCountAssumption DEF RingType, Limit

\* Every position has an entry.
LEMMA SlotType == \A i \in Nat : Slot(i) \in Slots
BY EntryCountAssumption DEF Slot, Slots

\* The call sites of canPublish go on at a program point.
LEMMA Targets ==
    ASSUME CallerType, NEW p \in Producers
    PROVE  WhenTrue(p) \in ProducerPc /\ WhenFalse(p) \in ProducerPc
BY DEF CallerType, WhenTrue, WhenFalse, ProducerPc

-----------------------------------------------------------------------------
(* Who writes what *)

\* The shared variables and the variables of its own that a producer's action may set.
LEMMA ProducerWrites ==
    ASSUME NEW p \in Producers, ProducerNext(p)
    PROVE
           /\ UNCHANGED <<consumerPresent, consumed, cplaces, cpolls, clife>>
           /\ UNCHANGED readPosition \/ DiscardStore(p)
           /\ UNCHANGED publishPosition \/ StorePublishPosition(p) \/ GiveUp(p)
           /\ UNCHANGED entries \/ Write(p)
           /\ UNCHANGED spinLock \/ Acquire(p) \/ Release(p) \/ Unguard(p)
           /\ UNCHANGED waitMutex \/ LockToRecheck(p) \/ Unlock(p) \/ Block(p)
           /\ UNCHANGED producerWaiting \/ Block(p) \/ LockToWait(p)
           /\ UNCHANGED consumerWaiting \/ NotifyConsumer(p)
           /\ UNCHANGED caller \/ ReadPublishPosition(p) \/ WaitToPublish(p) \/ LockToRecheck(p)
           /\ UNCHANGED publishable \/ CanPublish(p) \/ DiscardRefresh(p) \/ LockToWait(p) \/ ProducerExpires(p)
           /\ UNCHANGED position \/ ReadPublishPosition(p) \/ LockToRecheck(p)
           /\ UNCHANGED target \/ DiscardLoad(p)
           /\ UNCHANGED polls \/ Publish(p) \/ WaitToPublish(p) \/ Poll(p)
           /\ UNCHANGED timedOut \/ Publish(p) \/ ProducerExpires(p)
           /\ UNCHANGED sent \/ Publish(p)
           /\ UNCHANGED pstop \/ StopProducer(p) \/ StopProducerNotify(p)
           /\ UNCHANGED published \/ StorePublishPosition(p)
           /\ UNCHANGED cpc \/ NotifyConsumer(p)
BY DEF ProducerNext, ProducerStep, Publish, TestStopping, Acquire, ReadPublishPosition,
    CanPublish, TestPresent, DiscardLoad, DiscardStore, DiscardRefresh, Write,
    StorePublishPosition, NotifyConsumer, Release, Unguard, WaitToPublish, GiveUp, Poll,
    StopPolling, LockToRecheck, Unlock, Block, LockToWait, ProducerTimeOut, ProducerWakes,
    ProducerExpires, Leave, StopProducer, StopProducerNotify

\* The shared variables that the consumer's actions may set.
LEMMA ConsumerWrites ==
    ASSUME ConsumerNext
    PROVE
           /\ UNCHANGED <<publishPosition, spinLock, caller, publishable, position, target,
               polls, timedOut, sent, pstop, published>>
           /\ UNCHANGED readPosition \/ IncrementReadPosition
           /\ UNCHANGED entries \/ Fetch
           /\ UNCHANGED waitMutex \/ Return \/ ConsumerLocks \/ ConsumerBlocks \/ ConsumerThrows
           /\ UNCHANGED producerWaiting \/ NotifyProducers
           /\ UNCHANGED consumerWaiting \/ ConsumerBlocks
           /\ UNCHANGED consumerPresent \/ AnnounceConsumer \/ Detach
           /\ UNCHANGED cached \/ Attach \/ ReloadPublishPosition
           /\ UNCHANGED cposition \/ ReadReadPosition \/ RereadReadPosition \/ LoadReadPosition
           /\ UNCHANGED consumed \/ Fetch
           /\ UNCHANGED pc \/ NotifyProducers
BY DEF ConsumerNext, ConsumerCalls, ConsumerStep, Attach, AnnounceConsumer, Detach, GetNext, TryGetNext,
    TestLoop, ReadReadPosition, RereadReadPosition, ReloadPublishPosition, Fetch,
    LoadReadPosition, IncrementReadPosition, NotifyProducers, Return, BackOff,
    ConsumerLocks, ConsumerBlocks, ConsumerTimeOut, ConsumerWakes, ConsumerThrows,
    StopConsumer, StopConsumerNotify

\* Every variable and the actions that may set it.
LEMMA Writers ==
    ASSUME [Next]_vars
    PROVE
           /\ UNCHANGED readPosition \/ IncrementReadPosition \/ \E p \in Producers :
                  DiscardStore(p)
           /\ UNCHANGED publishPosition \/ \E p \in Producers : StorePublishPosition(p) \/
                  GiveUp(p)
           /\ UNCHANGED entries \/ Fetch \/ \E p \in Producers : Write(p)
           /\ UNCHANGED spinLock \/ \E p \in Producers : Acquire(p) \/ Release(p) \/
                  Unguard(p)
           /\ UNCHANGED waitMutex \/ Return \/ ConsumerLocks \/ ConsumerBlocks \/
                  ConsumerThrows \/ \E p \in Producers : LockToRecheck(p) \/ Unlock(p) \/
                  Block(p)
           /\ UNCHANGED producerWaiting \/ NotifyProducers \/ \E p \in Producers : Block(p)
                  \/ LockToWait(p)
           /\ UNCHANGED consumerWaiting \/ ConsumerBlocks \/ \E p \in Producers :
                  NotifyConsumer(p)
           /\ UNCHANGED consumerPresent \/ AnnounceConsumer \/ Detach
           /\ UNCHANGED caller \/ \E p \in Producers : ReadPublishPosition(p) \/
                  WaitToPublish(p) \/ LockToRecheck(p)
           /\ UNCHANGED publishable \/ \E p \in Producers : CanPublish(p) \/
                  DiscardRefresh(p) \/ LockToWait(p) \/ ProducerExpires(p)
           /\ UNCHANGED position \/ \E p \in Producers : ReadPublishPosition(p) \/
                  LockToRecheck(p)
           /\ UNCHANGED target \/ \E p \in Producers : DiscardLoad(p)
           /\ UNCHANGED polls \/ \E p \in Producers : Publish(p) \/ WaitToPublish(p) \/
                  Poll(p)
           /\ UNCHANGED timedOut \/ \E p \in Producers : Publish(p) \/ ProducerExpires(p)
           /\ UNCHANGED sent \/ \E p \in Producers : Publish(p)
           /\ UNCHANGED pstop \/ \E p \in Producers : StopProducer(p) \/
                  StopProducerNotify(p)
           /\ UNCHANGED cached \/ Attach \/ ReloadPublishPosition
           /\ UNCHANGED cposition \/ ReadReadPosition \/ RereadReadPosition \/
                  LoadReadPosition
           /\ UNCHANGED published \/ \E p \in Producers : StorePublishPosition(p)
           /\ UNCHANGED consumed \/ Fetch
<1>1. CASE \E p \in Producers : ProducerNext(p)
  <2>1. PICK p \in Producers : ProducerNext(p) BY <1>1
  <2> QED BY <2>1, ProducerWrites
<1>2. CASE ConsumerNext BY <1>2, ConsumerWrites
<1>3. CASE UNCHANGED vars BY <1>3 DEF vars
<1> QED BY <1>1, <1>2, <1>3 DEF Next

\* The consumer and the clock move a producer on only by waking it.
LEMMA Wakes ==
    ASSUME TypeOK, ConsumerNext \/ UNCHANGED vars, NEW p \in Producers
    PROVE  pc'[p] = pc[p] \/ (pc[p] = "waiting" /\ pc'[p] = "notified")
BY ConsumerWrites DEF TypeOK, PcType, NotifyProducers, Woken, vars

-----------------------------------------------------------------------------
(* Types *)

\* The constructors of HQHeader, Producer and Consumer leave every member typed.
LEMMA TypeInit == Init => TypeOK
<1> SUFFICES ASSUME Init PROVE TypeOK OBVIOUS
<1>1. RingType BY EntryCountAssumption DEF Init, RingType
<1>2. LockType /\ FlagType BY DEF Init, LockType, FlagType
<1>3. PcType BY DEF Init, PcType, ProducerPc
<1>4. CallerType BY DEF Init, CallerType
<1>5. PublishableType BY DEF Init, PublishableType
<1>6. PositionType BY DEF Init, PositionType
<1>7. TargetType BY DEF Init, TargetType
<1>8. PollsType BY DEF Init, PollsType
<1>9. TimedOutType BY DEF Init, TimedOutType
<1>10. SentType BY DEF Init, SentType
<1>11. PstopType BY DEF Init, PstopType
<1>12. ConsumerType BY DEF Init, ConsumerType, ConsumerPc
<1>13. HistoryType BY DEF Init, HistoryType
<1> QED BY <1>1, <1>2, <1>3, <1>4, <1>5, <1>6, <1>7, <1>8, <1>9, <1>10, <1>11, <1>12, <1>13 DEF TypeOK

\* Fetch takes a message out of an entry that stays one,
LEMMA FetchRingType == ASSUME TypeOK, Fetch PROVE RingType'
<1>1. entries' = entries \/ entries' = [entries EXCEPT ![Slot(cposition)] = [status |-> "OK", message |-> NoMessage]]
  BY DEF Fetch
<1>2. [status |-> "OK", message |-> NoMessage] \in [status : {"EMPTY", "OK"}, message : Message \cup {NoMessage}]
  OBVIOUS
<1> QED BY <1>1, <1>2 DEF Fetch, TypeOK, RingType

\* ... and what it takes is a message.
LEMMA FetchHistoryType == ASSUME TypeOK, Fetch PROVE HistoryType'
<1>1. entries[Slot(cposition)].message \in Message \cup {NoMessage}
  BY SlotType DEF TypeOK, RingType, ConsumerType
<1>2. consumed' = consumed \/ consumed' = Append(consumed, entries[Slot(cposition)].message)
  BY DEF Fetch
<1> QED BY <1>1, <1>2 DEF Fetch, TypeOK, HistoryType

\* Every step leaves the ring typed.
LEMMA RingTypeStep ==
    ASSUME TypeOK, [Next]_vars
    PROVE  RingType'
<1>1. ASSUME NEW p \in Producers, Write(p) PROVE RingType'
  BY <1>1, SlotType DEF TypeOK, RingType, PositionType, SentType, Message, Write
<1>2. ASSUME NEW p \in Producers, StorePublishPosition(p) \/ GiveUp(p) \/ DiscardStore(p) PROVE RingType'
  BY <1>2 DEF TypeOK, RingType, PositionType, TargetType, StorePublishPosition, GiveUp, DiscardStore
<1>3. ASSUME IncrementReadPosition PROVE RingType'
  BY <1>3 DEF TypeOK, RingType, ConsumerType, IncrementReadPosition
<1> QED BY <1>1, <1>2, <1>3, FetchRingType, Writers DEF TypeOK, RingType

\* ... the locks,
LEMMA LockTypeStep ==
    ASSUME TypeOK, [Next]_vars
    PROVE  LockType'
BY Writers DEF TypeOK, LockType, Acquire, Release, Unguard, LockToRecheck, Unlock, Block,
    Return, ConsumerLocks, ConsumerBlocks, ConsumerThrows

\* ... the flags,
LEMMA FlagTypeStep ==
    ASSUME TypeOK, [Next]_vars
    PROVE  FlagType'
BY Writers DEF TypeOK, FlagType, Block, LockToWait, NotifyProducers, NotifyConsumer,
    ConsumerBlocks, AnnounceConsumer, Detach

\* ... the program points,
LEMMA PcTypeStep ==
    ASSUME TypeOK, [Next]_vars
    PROVE  PcType'
<1>1. ASSUME NEW p \in Producers, CanPublish(p) PROVE PcType'
  BY <1>1, Targets DEF TypeOK, PcType, ProducerPc, CanPublish
<1>2. ASSUME NEW p \in Producers, TestPresent(p) PROVE PcType'
  BY <1>2, Targets DEF TypeOK, PcType, ProducerPc, TestPresent
<1>3. ASSUME NEW p \in Producers, DiscardRefresh(p) PROVE PcType'
  BY <1>3, Targets DEF TypeOK, PcType, ProducerPc, DiscardRefresh
<1>4. ASSUME NEW p \in Producers, Publish(p) \/ TestStopping(p) \/ Acquire(p) \/
            ReadPublishPosition(p) \/ DiscardLoad(p) \/ DiscardStore(p) \/ Write(p) \/
            StorePublishPosition(p) \/ NotifyConsumer(p) \/ Release(p) \/ Unguard(p) \/
            WaitToPublish(p) \/ GiveUp(p) \/ Poll(p) \/ StopPolling(p) \/ LockToRecheck(p)
            \/ Unlock(p) \/ Block(p) \/ LockToWait(p) \/ ProducerTimeOut(p) \/
            ProducerWakes(p) \/ ProducerExpires(p) \/ Leave(p) \/ StopProducer(p) \/
            StopProducerNotify(p)
      PROVE  PcType'
  BY <1>4, Targets DEF TypeOK, PcType, ProducerPc, Publish, TestStopping, Acquire,
      ReadPublishPosition, DiscardLoad, DiscardStore, Write, StorePublishPosition,
      NotifyConsumer, Release, Unguard, WaitToPublish, GiveUp, Poll, StopPolling,
      LockToRecheck, Unlock, Block, LockToWait, ProducerTimeOut, ProducerWakes,
      ProducerExpires, Leave, StopProducer, StopProducerNotify, Woken
<1>5. ASSUME ConsumerNext \/ UNCHANGED vars PROVE PcType'
  BY <1>5, ConsumerWrites DEF TypeOK, PcType, ProducerPc, NotifyProducers, Woken, vars
<1> QED
  BY <1>1, <1>2, <1>3, <1>4, <1>5 DEF Next, ProducerNext, ProducerStep

\* ... what each producer has cached or read,
LEMMA CallerTypeStep ==
    ASSUME TypeOK, [Next]_vars
    PROVE  CallerType'
BY Writers DEF TypeOK, CallerType, ReadPublishPosition, WaitToPublish, LockToRecheck

\* (canPublish and waitToPublish)
LEMMA PublishableTypeStep ==
    ASSUME TypeOK, [Next]_vars
    PROVE  PublishableType'
BY Writers, LimitType DEF TypeOK, PublishableType, CanPublish, DiscardRefresh, LockToWait,
    ProducerExpires

\* (publish)
LEMMA PositionTypeStep ==
    ASSUME TypeOK, [Next]_vars
    PROVE  PositionType'
BY Writers DEF TypeOK, PositionType, ReadPublishPosition, LockToRecheck, RingType

\* (the discarding branch of canPublish)
LEMMA TargetTypeStep ==
    ASSUME TypeOK, [Next]_vars
    PROVE  TargetType'
BY Writers DEF TypeOK, TargetType, DiscardLoad, RingType

\* ... its counters,
LEMMA PollsTypeStep ==
    ASSUME TypeOK, [Next]_vars
    PROVE  PollsType'
BY Writers, StrategyAssumption DEF TypeOK, PollsType, Publish, WaitToPublish, Poll,
    PollsLeft, CountDown

\* (multi: a wait has timed out)
LEMMA TimedOutTypeStep ==
    ASSUME TypeOK, [Next]_vars
    PROVE  TimedOutType'
BY Writers DEF TypeOK, TimedOutType, Publish, ProducerExpires

\* (calls of publish)
LEMMA SentTypeStep ==
    ASSUME TypeOK, [Next]_vars
    PROVE  SentType'
BY Writers DEF TypeOK, SentType, Publish

\* (calls of stop)
LEMMA PstopTypeStep ==
    ASSUME TypeOK, [Next]_vars
    PROVE  PstopType'
BY Writers DEF TypeOK, PstopType, StopProducer, StopProducerNotify

\* ... the consumer's members and locals,
LEMMA ConsumerTypeStep ==
    ASSUME TypeOK, [Next]_vars
    PROVE  ConsumerType'
<1>1. ASSUME BackOff PROVE ConsumerType'
  BY <1>1 DEF TypeOK, ConsumerType, ConsumerPc, BackOff, PollsLeft, CountDown
<1>2. ASSUME Attach \/ AnnounceConsumer \/ Detach \/ GetNext \/ TryGetNext \/ TestLoop \/
    ReadReadPosition
      PROVE  ConsumerType'
  BY <1>2, StrategyAssumption DEF TypeOK, ConsumerType, ConsumerPc, RingType, Attach,
      AnnounceConsumer, Detach, GetNext, TryGetNext, TestLoop, ReadReadPosition
<1>3. ASSUME RereadReadPosition \/ ReloadPublishPosition \/ Fetch \/ LoadReadPosition \/
    IncrementReadPosition \/ NotifyProducers \/ Return
      PROVE  ConsumerType'
  BY <1>3 DEF TypeOK, ConsumerType, ConsumerPc, RingType, RereadReadPosition,
      ReloadPublishPosition, Fetch, LoadReadPosition, IncrementReadPosition,
      NotifyProducers, Return
<1>4. ASSUME ConsumerLocks \/ ConsumerBlocks \/ ConsumerTimeOut \/ ConsumerWakes \/
    ConsumerThrows \/ StopConsumer \/ StopConsumerNotify
      PROVE  ConsumerType'
  BY <1>4 DEF TypeOK, ConsumerType, ConsumerPc, ConsumerLocks, ConsumerBlocks,
      ConsumerTimeOut, ConsumerWakes, ConsumerThrows, StopConsumer, StopConsumerNotify,
      WakeConsumer
<1>5. ASSUME NEW p \in Producers, ProducerNext(p) PROVE ConsumerType'
  BY <1>5, ProducerWrites DEF TypeOK, ConsumerType, ConsumerPc, NotifyConsumer, WakeConsumer
<1>6. ASSUME UNCHANGED vars PROVE ConsumerType'
  BY <1>6 DEF TypeOK, ConsumerType, vars
<1> QED
  BY <1>1, <1>2, <1>3, <1>4, <1>5, <1>6 DEF Next, ConsumerNext, ConsumerCalls, ConsumerStep

\* ... and the histories.
LEMMA HistoryTypeStep ==
    ASSUME TypeOK, [Next]_vars
    PROVE  HistoryType'
<1>1. ASSUME NEW p \in Producers, StorePublishPosition(p) PROVE HistoryType'
  BY <1>1 DEF TypeOK, HistoryType, SentType, Message, StorePublishPosition
<1> QED BY <1>1, FetchHistoryType, Writers DEF TypeOK, HistoryType

\* TypeOK is an invariant: every variable has its type in every reachable state.
THEOREM TypeCorrect == Spec => []TypeOK
<1>1. TypeOK /\ [Next]_vars => TypeOK'
  BY RingTypeStep, LockTypeStep, FlagTypeStep, PcTypeStep, CallerTypeStep,
      PublishableTypeStep, PositionTypeStep, TargetTypeStep, PollsTypeStep,
      TimedOutTypeStep, SentTypeStep, PstopTypeStep, ConsumerTypeStep, HistoryTypeStep DEF
      TypeOK
<1> QED BY TypeInit, <1>1, PTL DEF Spec
-----------------------------------------------------------------------------
(* The locks and the publish position *)

\* Nothing is locked and no position is read at first.
LEMMA LockInit == Init => LockInv
BY ThreadAssumption DEF Init, LockInv, Callers, SpinLockExclusion, InSpinLock, Positions, Current,
    Discarding

\* waitToPublish stays with the solo code and the recheck with the multi code.
LEMMA CallersStep ==
    ASSUME TypeOK, LockInv, [Next]_vars
    PROVE  Callers'
<1>1. ASSUME NEW p \in Producers, WaitToPublish(p) PROVE Callers'
  BY <1>1 DEF TypeOK, LockInv, Callers, PcType, CallerType, WaitToPublish
<1>2. ASSUME NEW p \in Producers, LockToRecheck(p) PROVE Callers'
  BY <1>2 DEF TypeOK, LockInv, Callers, PcType, CallerType, LockToRecheck
<1>3. ASSUME NEW p \in Producers, Publish(p) \/ TestStopping(p) \/ Acquire(p) \/
            ReadPublishPosition(p) \/ CanPublish(p) \/ TestPresent(p) \/ DiscardLoad(p) \/
            DiscardStore(p) \/ DiscardRefresh(p) \/ Write(p) \/ StorePublishPosition(p) \/
            NotifyConsumer(p) \/ Release(p) \/ Unguard(p) \/ GiveUp(p) \/ Poll(p) \/
            StopPolling(p) \/ Unlock(p) \/ Block(p) \/ LockToWait(p) \/ ProducerTimeOut(p)
            \/ ProducerWakes(p) \/ ProducerExpires(p) \/ Leave(p) \/ StopProducer(p) \/
            StopProducerNotify(p)
      PROVE  Callers'
  BY <1>3 DEF TypeOK, LockInv, Callers, PcType, CallerType, Publish, TestStopping, Acquire,
      ReadPublishPosition, CanPublish, TestPresent, DiscardLoad, DiscardStore,
      DiscardRefresh, Write, StorePublishPosition, NotifyConsumer, Release, Unguard, GiveUp,
      Poll, StopPolling, Unlock, Block, LockToWait, ProducerTimeOut, ProducerWakes,
      ProducerExpires, Leave, StopProducer, StopProducerNotify, WhenFalse, WhenTrue, Woken
<1>4. ASSUME ConsumerNext \/ UNCHANGED vars PROVE Callers'
  BY <1>4, ConsumerWrites, Wakes DEF TypeOK, LockInv, Callers, PcType, vars
<1> QED
  BY <1>1, <1>2, <1>3, <1>4 DEF Next, ProducerNext, ProducerStep

\* The spin lock is released and taken again without ever having two owners.
LEMMA SpinLockExclusionStep ==
    ASSUME TypeOK, LockInv, [Next]_vars
    PROVE  SpinLockExclusion'
<1>1. ASSUME NEW p \in Producers, Acquire(p) PROVE SpinLockExclusion'
  BY <1>1, ThreadAssumption DEF TypeOK, LockInv, SpinLockExclusion, PcType, CallerType,
      LockType, Callers, InSpinLock, Acquire
<1>2. ASSUME NEW p \in Producers, CanPublish(p) PROVE SpinLockExclusion'
  BY <1>2, ThreadAssumption DEF TypeOK, LockInv, SpinLockExclusion, PcType, CallerType,
      LockType, Callers, InSpinLock, CanPublish, WhenTrue, WhenFalse
<1>3. ASSUME NEW p \in Producers, LockToRecheck(p) PROVE SpinLockExclusion'
  BY <1>3, ThreadAssumption DEF TypeOK, LockInv, SpinLockExclusion, PcType, CallerType,
      LockType, Callers, InSpinLock, LockToRecheck
<1>4. ASSUME NEW p \in Producers, Release(p) PROVE SpinLockExclusion'
  BY <1>4, ThreadAssumption DEF TypeOK, LockInv, SpinLockExclusion, PcType, CallerType,
      LockType, Callers, InSpinLock, Release
<1>5. ASSUME NEW p \in Producers, Unguard(p) PROVE SpinLockExclusion'
  BY <1>5, ThreadAssumption DEF TypeOK, LockInv, SpinLockExclusion, PcType, CallerType,
      LockType, Callers, InSpinLock, Unguard
<1>6. ASSUME NEW p \in Producers, Publish(p) \/ TestStopping(p) \/ ReadPublishPosition(p) \/
            TestPresent(p) \/ DiscardLoad(p) \/ DiscardStore(p) \/ DiscardRefresh(p) \/
            Write(p) \/ StorePublishPosition(p) \/ NotifyConsumer(p) \/ WaitToPublish(p) \/
            GiveUp(p) \/ Poll(p) \/ StopPolling(p) \/ Unlock(p) \/ Block(p) \/ LockToWait(p)
            \/ ProducerTimeOut(p) \/ ProducerWakes(p) \/ ProducerExpires(p) \/ Leave(p) \/
            StopProducer(p) \/ StopProducerNotify(p)
      PROVE  SpinLockExclusion'
  BY <1>6, ThreadAssumption DEF TypeOK, LockInv, SpinLockExclusion, PcType, CallerType,
      LockType, Callers, InSpinLock, Publish, TestStopping, ReadPublishPosition,
      TestPresent, DiscardLoad, DiscardStore, DiscardRefresh, Write, StorePublishPosition,
      NotifyConsumer, WaitToPublish, GiveUp, Poll, StopPolling, Unlock, Block, LockToWait,
      ProducerTimeOut, ProducerWakes, ProducerExpires, Leave, StopProducer,
      StopProducerNotify, WhenFalse, WhenTrue, Woken
<1>7. ASSUME ConsumerNext \/ UNCHANGED vars PROVE SpinLockExclusion'
  BY <1>7, ConsumerWrites, Wakes DEF TypeOK, LockInv, SpinLockExclusion, PcType, Callers,
      InSpinLock, vars
<1> QED
  BY <1>1, <1>2, <1>3, <1>4, <1>5, <1>6, <1>7 DEF Next, ProducerNext, ProducerStep

\* Nobody moves publishPosition_ between a producer's read and its use.
LEMMA PositionsStep ==
    ASSUME TypeOK, LockInv, [Next]_vars
    PROVE  Positions'
<1>1. ASSUME NEW p \in Producers, ReadPublishPosition(p) PROVE Positions'
  BY <1>1, SoloAssumption DEF TypeOK, LockInv, Positions, PcType, CallerType, PositionType,
      Callers, Current, Discarding, SpinLockExclusion, InSpinLock, ReadPublishPosition
<1>2. ASSUME NEW p \in Producers, CanPublish(p) PROVE Positions'
  BY <1>2, SoloAssumption DEF TypeOK, LockInv, Positions, PcType, CallerType, PositionType,
      Callers, Current, Discarding, SpinLockExclusion, InSpinLock, CanPublish, WhenTrue,
      WhenFalse
<1>3. ASSUME NEW p \in Producers, WaitToPublish(p) PROVE Positions'
  BY <1>3, SoloAssumption DEF TypeOK, LockInv, Positions, PcType, CallerType, PositionType,
      Callers, Current, Discarding, SpinLockExclusion, InSpinLock, WaitToPublish
<1>4. ASSUME NEW p \in Producers, LockToRecheck(p) PROVE Positions'
  BY <1>4, SoloAssumption DEF TypeOK, LockInv, Positions, PcType, CallerType, PositionType,
      Callers, Current, Discarding, SpinLockExclusion, InSpinLock, LockToRecheck
<1>5. ASSUME NEW p \in Producers, StorePublishPosition(p) PROVE Positions'
  BY <1>5, SoloAssumption DEF TypeOK, LockInv, Positions, PcType, CallerType, PositionType,
      Callers, Current, Discarding, SpinLockExclusion, InSpinLock, StorePublishPosition
<1>6. ASSUME NEW p \in Producers, GiveUp(p) PROVE Positions'
  BY <1>6, SoloAssumption DEF TypeOK, LockInv, Positions, PcType, CallerType, PositionType,
      Callers, Current, Discarding, SpinLockExclusion, InSpinLock, GiveUp
<1>7. ASSUME NEW p \in Producers, Publish(p) \/ TestStopping(p) \/ Acquire(p) \/
            TestPresent(p) \/ DiscardLoad(p) \/ DiscardStore(p) \/ DiscardRefresh(p) \/
            Write(p) \/ NotifyConsumer(p) \/ Release(p) \/ Unguard(p) \/ Poll(p) \/
            StopPolling(p) \/ Unlock(p) \/ Block(p) \/ LockToWait(p) \/ ProducerTimeOut(p)
            \/ ProducerWakes(p) \/ ProducerExpires(p) \/ Leave(p) \/ StopProducer(p) \/
            StopProducerNotify(p)
      PROVE  Positions'
  BY <1>7, SoloAssumption DEF TypeOK, LockInv, Positions, PcType, CallerType, PositionType,
      Callers, Current, Discarding, SpinLockExclusion, InSpinLock, Publish, TestStopping,
      Acquire, TestPresent, DiscardLoad, DiscardStore, DiscardRefresh, Write,
      NotifyConsumer, Release, Unguard, Poll, StopPolling, Unlock, Block, LockToWait,
      ProducerTimeOut, ProducerWakes, ProducerExpires, Leave, StopProducer,
      StopProducerNotify, WhenFalse, WhenTrue, Woken
<1>8. ASSUME ConsumerNext \/ UNCHANGED vars PROVE Positions'
  BY <1>8, ConsumerWrites, Wakes DEF TypeOK, LockInv, Positions, PcType, Callers, Current,
      Discarding, SpinLockExclusion, InSpinLock, vars
<1> QED
  BY <1>1, <1>2, <1>3, <1>4, <1>5, <1>6, <1>7, <1>8 DEF Next, ProducerNext, ProducerStep

\* Only StorePublishPosition moves publishPosition_, by one: unreserve() stores what
\* is there.
LEMMA PublishByOneStep ==
    ASSUME LockInv, [Next]_vars
    PROVE  publishPosition' \in {publishPosition, publishPosition + 1}
BY Writers DEF StorePublishPosition, GiveUp, LockInv, Positions, Current

\* LockInv is an invariant, with or without discardMessagesIfNoConsumer_.
THEOREM LockCorrect == Spec => [](TypeOK /\ LockInv)
<1>1. TypeOK /\ TypeOK' /\ LockInv /\ [Next]_vars => LockInv'
  BY CallersStep, SpinLockExclusionStep, PositionsStep DEF LockInv
<1> QED BY TypeCorrect, LockInit, <1>1, PTL DEF Spec

\* SpinLockExclusion is an invariant: no two producers are between the acquisition and
\* the release of reserveSpinLock_, although every wait lets go of it.
THEOREM ExclusionCorrect == Spec => []SpinLockExclusion
<1>1. LockInv => SpinLockExclusion BY DEF LockInv
<1> QED BY LockCorrect, <1>1, PTL

\* PublishByOne is an action property: publishPosition_ moves one by one, also where
\* unreserve() stores it and where messages are discarded.
THEOREM PublishByOneCorrect == Spec => PublishByOne
<1>1. TypeOK /\ LockInv /\ [Next]_vars =>
          [publishPosition' \in {publishPosition, publishPosition + 1}]_vars
  BY PublishByOneStep
<1> QED BY LockCorrect, <1>1, PTL DEF Spec, PublishByOne
-----------------------------------------------------------------------------
(* The entries *)

\* The ring is empty at first.
LEMMA RingInit == Init => RingInv
<1> SUFFICES ASSUME Init PROVE RingInv OBVIOUS
<1>1. LockInv BY LockInit
<1>2. NoDiscard BY DEF Init, NoDiscard, Discarding
<1>3. Caches /\ Room /\ Reading /\ Window
  BY EntryCountAssumption DEF Init, Caches, Room, Reading, Window
<1>4. Counts /\ Waiting /\ Stored /\ Fifo
  BY EntryCountAssumption DEF Init, Counts, Waiting, Stored, Fifo, Taken
<1> QED BY <1>1, <1>2, <1>3, <1>4 DEF RingInv

\* How a producer gets to Write, to StorePublishPosition and to the branch of
\* canPublish that discards.
LEMMA Arrivals ==
    ASSUME TypeOK, [Next]_vars, NEW q \in Producers
    PROVE  /\ pc'[q] = "write" => pc[q] = "write" \/ CanPublish(q) \/ DiscardRefresh(q)
           /\ pc'[q] = "store" => pc[q] = "store" \/ Write(q)
           /\ pc'[q] \in Discarding => pc[q] \in Discarding \/ CanPublish(q)
<1> DEFINE Arrive ==
        /\ pc'[q] = "write" => pc[q] = "write" \/ CanPublish(q) \/ DiscardRefresh(q)
        /\ pc'[q] = "store" => pc[q] = "store" \/ Write(q)
        /\ pc'[q] \in Discarding => pc[q] \in Discarding \/ CanPublish(q)
<1>1. ASSUME NEW p \in Producers, p # q, ProducerNext(p) PROVE Arrive
  BY <1>1 DEF TypeOK, PcType, Discarding, Woken, ProducerNext, ProducerStep, Publish,
      TestStopping, Acquire, ReadPublishPosition, CanPublish, TestPresent, DiscardLoad,
      DiscardStore, DiscardRefresh, Write, StorePublishPosition, NotifyConsumer, Release,
      Unguard, WaitToPublish, GiveUp, Poll, StopPolling, LockToRecheck, Unlock, Block,
      LockToWait, ProducerTimeOut, ProducerWakes, ProducerExpires, Leave, StopProducer,
      StopProducerNotify
<1>2. ASSUME ProducerNext(q) PROVE Arrive
  BY <1>2 DEF TypeOK, PcType, CallerType, Discarding, WhenTrue, WhenFalse, Woken,
      ProducerNext, ProducerStep, Publish, TestStopping, Acquire, ReadPublishPosition,
      CanPublish, TestPresent, DiscardLoad, DiscardStore, DiscardRefresh, Write,
      StorePublishPosition, NotifyConsumer, Release, Unguard, WaitToPublish, GiveUp, Poll,
      StopPolling, LockToRecheck, Unlock, Block, LockToWait, ProducerTimeOut, ProducerWakes,
      ProducerExpires, Leave, StopProducer, StopProducerNotify
<1>3. ASSUME ConsumerNext \/ UNCHANGED vars PROVE Arrive
  BY <1>3, ConsumerWrites DEF TypeOK, PcType, Discarding, NotifyProducers, Woken, vars
<1> QED BY <1>1, <1>2, <1>3 DEF Next

\* Fetch takes the message that was published right after those consumed before.
LEMMA Fetched ==
    ASSUME TypeOK, RingInv, Fetch
    PROVE  /\ published # <<>> /\ Len(consumed) < Len(published)
           /\ readPosition < publishPosition /\ cpc = "fetch" /\ cpc' = "load"
           /\ readPosition = EntryCount + Len(consumed)
           /\ entries[Slot(readPosition)] = [status |-> "OK", message |-> published[Len(consumed) + 1]]
           /\ consumed' = Append(consumed, published[Len(consumed) + 1])
           /\ entries' = [entries EXCEPT ![Slot(readPosition)] =
                              [status |-> "OK", message |-> NoMessage]]
           /\ UNCHANGED <<readPosition, publishPosition, pc, position, sent, published>>
<1>1. cpc = "fetch" /\ cposition = readPosition /\ readPosition < publishPosition
  BY DEF RingInv, Reading, Fetch
<1>2. readPosition = EntryCount + Len(consumed) /\ publishPosition = EntryCount + Len(published)
  BY <1>1, EntryCountAssumption DEF RingInv, Counts, Taken, TypeOK, RingType
<1>3. readPosition \in readPosition + Taken .. publishPosition - 1
  BY <1>1 DEF TypeOK, RingType, Taken
<1>4. entries[Slot(readPosition)] = [status |-> "OK", message |-> published[readPosition - EntryCount + 1]]
  BY <1>3 DEF RingInv, Waiting
<1>5. readPosition - EntryCount + 1 = Len(consumed) + 1 /\ Len(consumed) < Len(published)
  BY <1>1, <1>2, EntryCountAssumption DEF TypeOK, RingType, HistoryType
<1>6. entries[Slot(readPosition)] = [status |-> "OK", message |-> published[Len(consumed) + 1]]
  BY <1>4, <1>5
<1>7. entries[Slot(cposition)].status = "OK" /\ entries[Slot(cposition)].message = published[Len(consumed) + 1]
  BY <1>1, <1>6
<1>8. /\ consumed' = Append(consumed, published[Len(consumed) + 1])
      /\ entries' = [entries EXCEPT ![Slot(cposition)] = [status |-> "OK", message |-> NoMessage]]
  BY <1>7 DEF Fetch
<1>9. published # <<>> BY <1>5 DEF TypeOK, HistoryType
<1> QED BY <1>1, <1>2, <1>5, <1>6, <1>8, <1>9 DEF Fetch

\* Fetch and the positions.
LEMMA FetchCounts == ASSUME TypeOK, RingInv, Fetch PROVE Counts'
<1>1. Len(consumed') = Len(consumed) + 1 
  BY Fetched DEF TypeOK, HistoryType
<1>2. Taken' = 1 BY Fetched DEF Taken
<1>3. publishPosition' = EntryCount + Len(published') BY Fetched DEF RingInv, Counts
<1>4. readPosition' = EntryCount + Len(consumed) BY Fetched
<1>5. Len(consumed) \in Nat BY DEF TypeOK, HistoryType
<1>6. readPosition' + Taken' = EntryCount + Len(consumed') BY <1>1, <1>2, <1>4, <1>5, EntryCountAssumption
<1> QED BY <1>3, <1>6 DEF Counts

\* Fetch continues the order of publication.
LEMMA FetchFifo == ASSUME TypeOK, RingInv, Fetch PROVE Fifo'
<1>1. /\ consumed \in Seq(Message \cup {NoMessage}) /\ published \in Seq(Message)
      /\ \A i \in 1 .. Len(consumed) : consumed[i] = published[i]
  BY DEF TypeOK, HistoryType, RingInv, Fifo
<1>2. published[Len(consumed) + 1] \in Message BY <1>1, Fetched
<1>3. /\ Len(consumed') = Len(consumed) + 1
      /\ \A i \in 1 .. Len(consumed) : consumed'[i] = consumed[i]
      /\ consumed'[Len(consumed) + 1] = published[Len(consumed) + 1]
  BY <1>1, <1>2, Fetched
<1> QED BY <1>1, <1>3, Fetched DEF Fifo

\* Fetch empties no entry but the one at readPosition_.
LEMMA FetchWaiting == ASSUME TypeOK, RingInv, Fetch PROVE Waiting'
<1>1. Taken = 0 /\ Taken' = 1 BY Fetched DEF Taken
<1>2. ASSUME NEW i \in readPosition + 1 .. publishPosition - 1 PROVE entries'[Slot(i)] = entries[Slot(i)]
  <2>1. i \in Nat /\ readPosition < i /\ i < readPosition + EntryCount
    BY EntryCountAssumption DEF TypeOK, RingType, RingInv, Window
  <2>2. Slot(i) # Slot(readPosition) BY <2>1, EntriesDiffer DEF TypeOK, RingType
  <2>3. Slot(i) \in Slots BY <2>1, SlotType
  <2> QED BY <2>2, <2>3, Fetched DEF TypeOK, RingType
<1> QED BY <1>1, <1>2, Fetched DEF RingInv, Waiting, TypeOK, RingType

\* ... which is not the one a producer is about to publish.
LEMMA FetchStored == ASSUME TypeOK, RingInv, Fetch PROVE Stored'
<1> SUFFICES ASSUME NEW p \in Producers, At(p, "store") 
             PROVE entries'[Slot(publishPosition)] = entries[Slot(publishPosition)]
  BY Fetched DEF RingInv, Stored
<1>1. readPosition < publishPosition /\ publishPosition < readPosition + EntryCount
  BY Fetched DEF RingInv, Room
<1>2. Slot(publishPosition) # Slot(readPosition) /\ Slot(publishPosition) \in Slots
  BY <1>1, EntriesDiffer, SlotType DEF TypeOK, RingType
<1> QED BY <1>2, Fetched DEF TypeOK, RingType

\* The position stored is the next one.
LEMMA StoreAdvances ==
    ASSUME TypeOK, RingInv, NEW p \in Producers, StorePublishPosition(p)
    PROVE  publishPosition' = publishPosition + 1
BY DEF StorePublishPosition, RingInv, LockInv, Positions, Current

\* The history of publication grows at its end.
LEMMA StoreAppends ==
    ASSUME TypeOK, RingInv, NEW p \in Producers, StorePublishPosition(p)
    PROVE  /\ Len(published') = Len(published) + 1
           /\ \A i \in 1 .. Len(published) : published'[i] = published[i]
           /\ published'[Len(published) + 1] = <<p, sent[p]>>
<1>1. <<p, sent[p]>> \in Message BY DEF TypeOK, SentType, Message
<1>2. published \in Seq(Message) BY DEF TypeOK, HistoryType
<1>3. published' = Append(published, <<p, sent[p]>>) BY DEF StorePublishPosition
<1> HIDE DEF Message
<1> QED BY <1>1, <1>2, <1>3

\* StorePublishPosition and the positions.
LEMMA StoreCounts ==
    ASSUME TypeOK, RingInv, NEW p \in Producers, StorePublishPosition(p) PROVE Counts'
<1>1. Taken' = Taken BY DEF StorePublishPosition, Taken
<1>2. Len(published') = Len(published) + 1 /\ publishPosition' = publishPosition + 1
  BY StoreAppends, StoreAdvances
<1>3. Len(published) \in Nat BY DEF TypeOK, HistoryType
<1>4. publishPosition' = EntryCount + Len(published')
  BY <1>2, <1>3, EntryCountAssumption DEF RingInv, Counts
<1> QED BY <1>1, <1>4 DEF StorePublishPosition, RingInv, Counts

\* StorePublishPosition adds the entry written to those that wait.
LEMMA StoreWaiting ==
    ASSUME TypeOK, RingInv, NEW p \in Producers, StorePublishPosition(p) PROVE Waiting'
<1>1. Taken' = Taken /\ Taken \in {0, 1} BY DEF StorePublishPosition, Taken
<1>2. readPosition \in Nat /\ publishPosition \in Nat /\ Len(published) \in Nat /\ EntryCount \in Nat
  BY EntryCountAssumption DEF TypeOK, RingType, HistoryType
<1>3. publishPosition = EntryCount + Len(published) BY DEF RingInv, Counts
<1>4. readPosition + Taken >= EntryCount
  BY <1>1, <1>2 DEF RingInv, Counts, TypeOK, HistoryType
<1>5. ASSUME NEW i \in readPosition + Taken .. publishPosition
      PROVE  entries[Slot(i)] = [status |-> "OK", message |-> published'[i - EntryCount + 1]]
  <2>1. CASE i = publishPosition
    <3>1. i - EntryCount + 1 = Len(published) + 1 BY <1>2, <1>3, <2>1
    <3>2. published'[i - EntryCount + 1] = <<p, sent[p]>> BY <3>1, StoreAppends
    <3>3. pc[p] = "store" BY DEF StorePublishPosition
    <3> QED BY <2>1, <3>2, <3>3 DEF RingInv, Stored
  <2>2. CASE i # publishPosition
    <3>1. i \in readPosition + Taken .. publishPosition - 1
      BY <1>1, <1>2, <2>2
    <3>2. i - EntryCount + 1 \in 1 .. Len(published)
      BY <1>1, <1>2, <1>3, <1>4, <3>1
    <3>3. published'[i - EntryCount + 1] = published[i - EntryCount + 1]
      BY <3>2, StoreAppends
    <3> QED BY <3>1, <3>3 DEF RingInv, Waiting
  <2> QED BY <2>1, <2>2
<1>6. publishPosition' - 1 = publishPosition BY <1>2, StoreAdvances
<1> QED BY <1>1, <1>5, <1>6 DEF StorePublishPosition, Waiting

\* StorePublishPosition leaves alone what was published before.
LEMMA StoreFifo ==
    ASSUME TypeOK, RingInv, NEW p \in Producers, StorePublishPosition(p) PROVE Fifo'
<1>1. Len(consumed) \in Nat /\ Len(published) \in Nat BY DEF TypeOK, HistoryType
<1> QED BY <1>1, StoreAppends DEF StorePublishPosition, RingInv, Fifo

\* No second producer is about to publish.
LEMMA StoreStored ==
    ASSUME TypeOK, RingInv, NEW p \in Producers, StorePublishPosition(p) PROVE Stored'
<1>1. ASSUME NEW q \in Producers PROVE pc'[q] # "store"
  <2>1. CASE q = p BY <2>1 DEF StorePublishPosition, TypeOK, PcType
  <2>2. CASE q # p
    <3>1. pc[q] # "store"
      BY <2>2, SoloAssumption DEF StorePublishPosition, RingInv, LockInv, SpinLockExclusion, InSpinLock
    <3> QED BY <2>2, <3>1 DEF StorePublishPosition, TypeOK, PcType
  <2> QED BY <2>1, <2>2
<1> QED BY <1>1 DEF Stored

\* Write fills the entry at publishPosition_.
LEMMA WriteEffect ==
    ASSUME TypeOK, RingInv, NEW p \in Producers, Write(p)
    PROVE  /\ entries' = [entries EXCEPT ![Slot(publishPosition)] =
                              [status |-> "OK", message |-> <<p, sent[p]>>]]
           /\ publishPosition < readPosition + EntryCount
           /\ Slot(publishPosition) \in Slots
<1>1. pc[p] = "write" /\ position[p] = publishPosition
  BY DEF Write, RingInv, LockInv, Positions, Current
<1> QED BY <1>1, SlotType DEF Write, RingInv, Room, TypeOK, RingType

\* ... which holds no message that waits.
LEMMA WriteWaiting ==
    ASSUME TypeOK, RingInv, NEW p \in Producers, Write(p) PROVE Waiting'
<1>1. Taken' = Taken /\ Taken \in {0, 1} BY DEF Write, Taken
<1>2. ASSUME NEW i \in readPosition + Taken .. publishPosition - 1
      PROVE  entries'[Slot(i)] = entries[Slot(i)]
  <2>1. i \in Nat /\ i < publishPosition /\ publishPosition < i + EntryCount
    BY <1>1, WriteEffect, EntryCountAssumption DEF TypeOK, RingType
  <2>2. Slot(i) # Slot(publishPosition) /\ Slot(i) \in Slots
    BY <2>1, EntriesDiffer, SlotType DEF TypeOK, RingType
  <2> QED BY <2>2, WriteEffect DEF TypeOK, RingType
<1> QED BY <1>1, <1>2 DEF Write, RingInv, Waiting

\* ... and is then to be published.
LEMMA WriteStored ==
    ASSUME TypeOK, RingInv, NEW p \in Producers, Write(p) PROVE Stored'
<1>1. ASSUME NEW q \in Producers, pc'[q] = "store" PROVE q = p
  <2>1. pc[q] = "store" \/ q = p BY <1>1 DEF Write, TypeOK, PcType
  <2> QED BY <2>1, SoloAssumption DEF Write, RingInv, LockInv, SpinLockExclusion, InSpinLock
<1>2. entries'[Slot(publishPosition)] = [status |-> "OK", message |-> <<p, sent[p]>>]
  BY WriteEffect DEF TypeOK, RingType
<1> QED BY <1>1, <1>2 DEF Write, Stored

\* The entry passed by holds no message any more.
LEMMA IncrementWaiting ==
    ASSUME TypeOK, RingInv, IncrementReadPosition PROVE Waiting'
<1>1. Taken = 1 /\ Taken' = 0 /\ readPosition' = readPosition + 1
  BY DEF IncrementReadPosition, Taken, RingInv, Reading
<1> QED BY <1>1 DEF IncrementReadPosition, RingInv, Waiting, TypeOK, RingType

\* Without discardMessagesIfNoConsumer_ canPublish only answers.
LEMMA NoDiscardStep ==
    ASSUME ~DiscardMessages, TypeOK, RingInv, [Next]_vars
    PROVE  NoDiscard'
<1>1. ASSUME NEW p \in Producers, CanPublish(p) PROVE pc'[p] \notin Discarding
  BY <1>1 DEF TypeOK, PcType, CallerType, CanPublish, WhenTrue, WhenFalse, Discarding
<1> QED BY <1>1, Arrivals DEF RingInv, NoDiscard

\* Hence nobody but the consumer moves readPosition_.
LEMMA ReadersPosition ==
    ASSUME RingInv, [Next]_vars
    PROVE  UNCHANGED readPosition \/ IncrementReadPosition
BY Writers DEF DiscardStore, RingInv, NoDiscard, Discarding

\* Both positions only grow.
LEMMA PositionsGrow ==
    ASSUME TypeOK, RingInv, [Next]_vars
    PROVE  readPosition' >= readPosition /\ publishPosition' >= publishPosition
BY ReadersPosition, PublishByOneStep DEF LockInv, TypeOK, RingType, RingInv, Reading, IncrementReadPosition

\* Cached limits stay below the true ones.
LEMMA CachesStep ==
    ASSUME TypeOK, RingInv, [Next]_vars
    PROVE  Caches'
<1>0. readPosition' >= readPosition /\ publishPosition' >= publishPosition BY PositionsGrow
<1>t. RingType' BY RingTypeStep
<1>1. ASSUME NEW q \in Producers PROVE publishable'[q] <= readPosition' + EntryCount
  <2>1. publishable'[q] \in {publishable[q], Limit}
    BY Writers DEF TypeOK, PublishableType, CanPublish, DiscardRefresh, LockToWait, ProducerExpires
  <2> QED BY <1>0, <1>t, <2>1, EntryCountAssumption
          DEF RingInv, Caches, Limit, TypeOK, RingType, PublishableType
<1>2. cached' <= publishPosition'
  <2>1. cached' \in {cached, publishPosition} BY Writers DEF Attach, ReloadPublishPosition
  <2> QED BY <1>0, <1>t, <2>1 DEF RingInv, Caches, TypeOK, RingType, ConsumerType
<1> QED BY <1>1, <1>2 DEF Caches

\* Room found is room kept: only the producer in the lock uses it up.
LEMMA RoomStep ==
    ASSUME ~DiscardMessages, TypeOK, RingInv, [Next]_vars
    PROVE  Room'
<1> SUFFICES ASSUME NEW q \in Producers, pc'[q] \in {"write", "store"}
             PROVE  publishPosition' < readPosition' + EntryCount
  BY DEF Room
<1>1. pc[q] \in {"write", "store"} \/ CanPublish(q)
  BY Arrivals DEF Write, DiscardRefresh, RingInv, NoDiscard, Discarding
<1>2. publishPosition < readPosition + EntryCount
  <2>1. CASE CanPublish(q)
    <3>1. pc'[q] = "write" /\ caller[q] = "publish"
      BY <2>1 DEF TypeOK, PcType, CallerType, CanPublish, WhenTrue, WhenFalse
    <3>2. position[q] < Limit
      BY <2>1, <3>1, EntryCountAssumption
      DEF TypeOK, RingType, PcType, PositionType, PublishableType, CallerType, CanPublish, WhenFalse,
          RingInv, Caches, Limit
    <3> QED BY <2>1, <3>1, <3>2 DEF CanPublish, RingInv, LockInv, Positions, Current, Limit
  <2> QED BY <1>1, <2>1 DEF RingInv, Room
<1>3. ASSUME NEW p \in Producers, StorePublishPosition(p) PROVE FALSE
  <2>1. p # q
    BY <1>3 DEF StorePublishPosition, TypeOK, PcType
  <2>2. pc[q] \in {"write", "store"} BY <1>1, <1>3, <2>1 DEF StorePublishPosition, CanPublish, TypeOK, PcType
  <2> QED BY <1>3, <2>1, <2>2, SoloAssumption
          DEF StorePublishPosition, RingInv, LockInv, SpinLockExclusion, InSpinLock
<1>4. publishPosition' = publishPosition
  BY <1>3, Writers DEF GiveUp, RingInv, LockInv, Positions, Current
<1> DEFINE later == readPosition'
<1>5. later \in Nat /\ later >= readPosition
  BY PositionsGrow, RingTypeStep DEF RingType
<1>6. readPosition \in Nat /\ publishPosition \in Nat /\ EntryCount \in Nat
  BY EntryCountAssumption DEF TypeOK, RingType
<1> HIDE DEF later
<1>7. publishPosition < later + EntryCount BY <1>2, <1>5, <1>6
<1> QED BY <1>4, <1>7 DEF later

\* A message found stays: only the consumer moves readPosition_.
LEMMA ReadingStep ==
    ASSUME TypeOK, RingInv, [Next]_vars
    PROVE  Reading'
<1>1. CASE ConsumerNext
  BY <1>1, ConsumerWrites DEF TypeOK, RingType, ConsumerType, RingInv, Reading, Caches,
      ConsumerNext, ConsumerCalls, ConsumerStep, Attach, AnnounceConsumer, Detach, GetNext, TryGetNext,
          TestLoop, ReadReadPosition, RereadReadPosition, ReloadPublishPosition, Fetch, LoadReadPosition,
          IncrementReadPosition, NotifyProducers, Return, BackOff, ConsumerLocks,
          ConsumerBlocks, ConsumerTimeOut, ConsumerWakes, ConsumerThrows, StopConsumer,
          StopConsumerNotify, WakeConsumer
<1>2. ASSUME NEW p \in Producers, ProducerNext(p) PROVE Reading'
  <2>1. UNCHANGED readPosition
    BY <1>2, ProducerWrites DEF DiscardStore, RingInv, NoDiscard, Discarding
  <2>2. UNCHANGED cposition /\ (UNCHANGED cpc \/ cpc' = "notified")
    BY <1>2, ProducerWrites DEF NotifyConsumer, WakeConsumer
  <2>3. publishPosition' >= publishPosition BY PositionsGrow
  <2>4. RingType' BY RingTypeStep
  <2> QED BY <2>1, <2>2, <2>3, <2>4 DEF RingInv, Reading, TypeOK, RingType
<1>3. CASE UNCHANGED vars BY <1>3 DEF vars, RingInv, Reading
<1> QED BY <1>1, <1>2, <1>3 DEF Next

\* A publish that gives up stores the position that is there.
LEMMA GiveUpStores ==
    ASSUME RingInv, [Next]_vars
    PROVE  UNCHANGED publishPosition \/ \E p \in Producers : StorePublishPosition(p)
BY Writers DEF GiveUp, RingInv, LockInv, Positions, Current

\* The two positions stay within entryCount_ of each other.
LEMMA WindowStep ==
    ASSUME TypeOK, RingInv, [Next]_vars
    PROVE  Window'
<1>1. publishPosition' <= readPosition + EntryCount
  <2>1. UNCHANGED publishPosition \/ \E p \in Producers : StorePublishPosition(p)
    BY GiveUpStores
  <2>2. ASSUME NEW p \in Producers, StorePublishPosition(p)
        PROVE  publishPosition' = publishPosition + 1 /\ publishPosition < readPosition + EntryCount
    BY <2>2, StoreAdvances DEF StorePublishPosition, RingInv, Room
  <2> QED BY <2>1, <2>2, EntryCountAssumption DEF RingInv, Window, TypeOK, RingType
<1>2. readPosition' <= publishPosition
  BY ReadersPosition DEF IncrementReadPosition, RingInv, Reading, Window, TypeOK, RingType
<1> QED BY <1>1, <1>2, PositionsGrow, RingTypeStep, EntryCountAssumption DEF Window, RingType, TypeOK

\* Of the message at readPosition_ only Fetch and IncrementReadPosition dispose.
LEMMA TakenStep ==
    ASSUME [Next]_vars
    PROVE  Taken' = Taken \/ Fetch \/ IncrementReadPosition
<1>1. CASE ConsumerNext
  BY <1>1 DEF Taken, ConsumerNext, ConsumerCalls, ConsumerStep, Attach, AnnounceConsumer, Detach, GetNext,
      TryGetNext, TestLoop, ReadReadPosition, RereadReadPosition, ReloadPublishPosition, LoadReadPosition,
      NotifyProducers, Return, BackOff, ConsumerLocks, ConsumerBlocks, ConsumerTimeOut,
      ConsumerWakes, ConsumerThrows, StopConsumer, StopConsumerNotify, WakeConsumer
<1>2. ASSUME NEW p \in Producers, ProducerNext(p) PROVE Taken' = Taken
  BY <1>2, ProducerWrites DEF Taken, NotifyConsumer, WakeConsumer
<1>3. CASE UNCHANGED vars BY <1>3 DEF vars, Taken
<1> QED BY <1>1, <1>2, <1>3 DEF Next

\* Every message published moves one position, every message taken the other.
LEMMA CountsStep ==
    ASSUME TypeOK, RingInv, [Next]_vars
    PROVE  Counts'
<1>1. CASE \E p \in Producers : StorePublishPosition(p) BY <1>1, StoreCounts
<1>2. CASE Fetch BY <1>2, FetchCounts
<1>3. CASE IncrementReadPosition
  BY <1>3, EntryCountAssumption
  DEF IncrementReadPosition, RingInv, Counts, Reading, Taken, TypeOK, RingType
<1>4. CASE ~ ((\E p \in Producers : StorePublishPosition(p)) \/ Fetch \/ IncrementReadPosition)
  <2>1. UNCHANGED <<readPosition, publishPosition, published, consumed>> /\ Taken' = Taken
    BY <1>4, Writers, GiveUpStores, ReadersPosition, TakenStep
  <2> QED BY <2>1 DEF RingInv, Counts
<1> QED BY <1>1, <1>2, <1>3, <1>4

\* No step disturbs an entry between the two positions.
LEMMA WaitingStep ==
    ASSUME TypeOK, RingInv, [Next]_vars
    PROVE  Waiting'
<1>1. CASE \E p \in Producers : StorePublishPosition(p) BY <1>1, StoreWaiting
<1>2. CASE \E p \in Producers : Write(p) BY <1>2, WriteWaiting
<1>3. CASE Fetch BY <1>3, FetchWaiting
<1>4. CASE IncrementReadPosition BY <1>4, IncrementWaiting
<1>5. CASE ~ \/ \E p \in Producers : StorePublishPosition(p) \/ Write(p)
             \/ Fetch \/ IncrementReadPosition
  <2>1. UNCHANGED <<readPosition, publishPosition, published, entries>> /\ Taken' = Taken
    BY <1>5, Writers, GiveUpStores, ReadersPosition, TakenStep
  <2> QED BY <2>1 DEF RingInv, Waiting
<1> QED BY <1>1, <1>2, <1>3, <1>4, <1>5

\* An entry written stays as it is until it is published.
LEMMA StoredStep ==
    ASSUME TypeOK, RingInv, [Next]_vars
    PROVE  Stored'
<1>1. CASE \E p \in Producers : StorePublishPosition(p) BY <1>1, StoreStored
<1>2. CASE \E p \in Producers : Write(p) BY <1>2, WriteStored
<1>3. CASE Fetch BY <1>3, FetchStored
<1>4. CASE ~ ((\E p \in Producers : StorePublishPosition(p) \/ Write(p)) \/ Fetch)
  <2>1. UNCHANGED <<publishPosition, entries>> BY <1>4, Writers, GiveUpStores
  <2>2. ASSUME NEW q \in Producers, pc'[q] = "store" PROVE pc[q] = "store" /\ sent'[q] = sent[q]
    BY <1>4, <2>2, Arrivals, Writers DEF Publish, TypeOK, SentType
  <2> QED BY <2>1, <2>2 DEF RingInv, Stored
<1> QED BY <1>1, <1>2, <1>3, <1>4

\* What is taken next is what was published next.
LEMMA FifoStep ==
    ASSUME TypeOK, RingInv, [Next]_vars
    PROVE  Fifo'
<1>1. CASE \E p \in Producers : StorePublishPosition(p) BY <1>1, StoreFifo
<1>2. CASE Fetch BY <1>2, FetchFifo
<1>3. CASE ~ ((\E p \in Producers : StorePublishPosition(p)) \/ Fetch)
  <2>1. UNCHANGED history BY <1>3, Writers
  <2> QED BY <2>1 DEF RingInv, Fifo
<1> QED BY <1>1, <1>2, <1>3

\* RingInv is an invariant of a queue that does not discard messages.
THEOREM RingCorrect == ASSUME ~DiscardMessages PROVE Spec => [](TypeOK /\ RingInv)
<1>1. TypeOK /\ RingInv /\ [Next]_vars => RingInv'
  <2> SUFFICES ASSUME TypeOK, RingInv, [Next]_vars PROVE RingInv' OBVIOUS
  <2>1. LockInv'
    BY CallersStep, SpinLockExclusionStep, PositionsStep DEF LockInv, RingInv
  <2> QED
    BY <2>1, NoDiscardStep, CachesStep, RoomStep, ReadingStep, WindowStep, CountsStep,
        WaitingStep, StoredStep, FifoStep DEF RingInv
<1> QED BY TypeCorrect, RingInit, <1>1, PTL DEF Spec

\* Window is an invariant: never more than entryCount_ messages are between the
\* positions, and the consumer's is not ahead.
THEOREM WindowCorrect == ASSUME ~DiscardMessages PROVE Spec => []Window
<1>1. RingInv => Window BY DEF RingInv
<1> QED BY RingCorrect, <1>1, PTL

\* NoEntryRace is an invariant: a producer that writes and a consumer that reads an
\* entry, unsynchronised, are at different entries.
THEOREM NoEntryRaceCorrect == ASSUME ~DiscardMessages PROVE Spec => []NoEntryRace
<1>1. TypeOK /\ RingInv => NoEntryRace
  <2> SUFFICES ASSUME TypeOK, RingInv, NEW p \in Producers, pc[p] = "write", cpc = "fetch"
               PROVE  Slot(position[p]) # Slot(cposition)
    BY DEF NoEntryRace
  <2>1. position[p] = publishPosition /\ cposition = readPosition
    BY DEF RingInv, LockInv, Positions, Current, Reading
  <2>2. readPosition < publishPosition /\ publishPosition < readPosition + EntryCount
    BY DEF RingInv, Reading, Room
  <2> QED BY <2>1, <2>2, EntriesDiffer DEF TypeOK, RingType
<1> QED BY RingCorrect, <1>1, PTL

\* FetchFindsMessage is an invariant: the entry the consumer is about to empty holds a
\* published message.
THEOREM FetchFindsMessageCorrect == ASSUME ~DiscardMessages PROVE Spec => []FetchFindsMessage
<1>1. TypeOK /\ RingInv => FetchFindsMessage
  <2> SUFFICES ASSUME TypeOK, RingInv, cpc = "fetch"
               PROVE  /\ entries[Slot(cposition)].status = "OK"
                      /\ entries[Slot(cposition)].message # NoMessage
    BY DEF FetchFindsMessage
  <2>1. cposition = readPosition /\ Taken = 0 /\ readPosition < publishPosition
    BY DEF RingInv, Reading, Taken
  <2>2. readPosition \in readPosition + Taken .. publishPosition - 1
    BY <2>1 DEF TypeOK, RingType
  <2>3. entries[Slot(cposition)] =
            [status |-> "OK", message |-> published[readPosition - EntryCount + 1]]
    BY <2>1, <2>2 DEF RingInv, Waiting
  <2>4. readPosition - EntryCount + 1 \in 1 .. Len(published)
    <3>1. readPosition = EntryCount + Len(consumed) /\ publishPosition = EntryCount + Len(published)
      BY <2>1, EntryCountAssumption DEF RingInv, Counts, TypeOK, RingType
    <3>2. Len(consumed) \in Nat /\ Len(published) \in Nat BY DEF TypeOK, HistoryType
    <3> QED BY <2>1, <3>1, <3>2, EntryCountAssumption
  <2>5. published[readPosition - EntryCount + 1] \in Message
    BY <2>4 DEF TypeOK, HistoryType
  <2> QED BY <2>3, <2>5, NoMessageAssumption DEF Message
<1> QED BY RingCorrect, <1>1, PTL

\* Fifo is an invariant: the consumer gets what was published, in order, and nothing
\* else.
THEOREM FifoCorrect == ASSUME ~DiscardMessages PROVE Spec => []Fifo
<1>1. RingInv => Fifo BY DEF RingInv
<1> QED BY RingCorrect, <1>1, PTL
-----------------------------------------------------------------------------
(* Wakeups: no thread sleeps through a notification, for every pair of wait strategies,
   without the discard option *)

\* What both invariants give a step.
Before == ~DiscardMessages /\ TypeOK /\ RingInv /\ WakeupInv

\* At first nobody sleeps.
LEMMA WakeupInit == Init => WakeupInv
BY ThreadAssumption, StrategyAssumption, EntryCountAssumption
DEF Init, WakeupInv, MutexExclusion, ProducerHolds, ConsumerHolds, InTryGetNext, Discarding,
    ProducerStrategy, ConsumerStrategy, Flagged, OldPositions, ProducersSleep, ConsumerSleeps

\* Positions that were read stay behind publishPosition_.
LEMMA OldPositionsStep == ASSUME Before, [Next]_vars PROVE OldPositions'
<1> SUFFICES ASSUME NEW p \in Producers PROVE position'[p] <= publishPosition' BY DEF OldPositions
<1>1. publishPosition' >= publishPosition BY PositionsGrow DEF Before
<1>2. RingType' BY RingTypeStep DEF Before
<1>3. position'[p] \in {position[p], publishPosition}
  BY Writers DEF Before, TypeOK, PositionType, ReadPublishPosition, LockToRecheck
<1> QED BY <1>1, <1>2, <1>3 DEF Before, WakeupInv, OldPositions, TypeOK, RingType, PositionType

\* waitMutex_ is held where the guards of the code say so.
LEMMA MutexExclusionStep == ASSUME Before, [Next]_vars PROVE MutexExclusion'
<1>1. ASSUME NEW p \in Producers, LockToRecheck(p) PROVE MutexExclusion'
  BY <1>1, ThreadAssumption DEF Before, WakeupInv, TypeOK, PcType, CallerType, LockType, MutexExclusion,
      ProducerHolds, ConsumerHolds, InTryGetNext, Discarding, LockToRecheck
<1>2. ASSUME NEW p \in Producers, Unlock(p) \/ Block(p) PROVE MutexExclusion'
  BY <1>2, ThreadAssumption DEF Before, WakeupInv, TypeOK, PcType, CallerType, LockType, MutexExclusion,
      ProducerHolds, ConsumerHolds, InTryGetNext, Discarding, Unlock, Block
<1>3. ASSUME NEW p \in Producers, CanPublish(p) PROVE MutexExclusion'
  BY <1>3, ThreadAssumption DEF Before, WakeupInv, TypeOK, PcType, CallerType, LockType, MutexExclusion,
      ProducerHolds, ConsumerHolds, InTryGetNext, Discarding, CanPublish, WhenTrue, WhenFalse
<1>4. ASSUME NEW p \in Producers, ReadPublishPosition(p) \/ WaitToPublish(p) PROVE MutexExclusion'
  BY <1>4, ThreadAssumption DEF Before, WakeupInv, TypeOK, PcType, CallerType, LockType, MutexExclusion,
      ProducerHolds, ConsumerHolds, InTryGetNext, Discarding, ReadPublishPosition, WaitToPublish
<1>9. ASSUME NEW p \in Producers, Publish(p) \/ TestStopping(p) \/ Acquire(p) \/ Write(p) \/
            StorePublishPosition(p) \/ Release(p) \/ Unguard(p) \/ GiveUp(p) \/ Poll(p)
      PROVE  MutexExclusion'
  BY <1>9, ThreadAssumption DEF Before, WakeupInv, TypeOK, PcType, CallerType, LockType, MutexExclusion,
      ProducerHolds, ConsumerHolds, InTryGetNext, Discarding, RingInv, LockInv, Callers, Publish, TestStopping, Acquire,
      Write, StorePublishPosition, Release, Unguard, GiveUp, Poll
<1>10. ASSUME NEW p \in Producers, StopPolling(p) \/ LockToWait(p) \/ ProducerTimeOut(p) \/
             ProducerWakes(p) \/ ProducerExpires(p) \/ Leave(p) \/ StopProducer(p)
       PROVE  MutexExclusion'
  <2>1. waitMutex' = waitMutex /\ ConsumerHolds' = ConsumerHolds /\ caller' = caller
    BY <1>10, ProducerWrites DEF StopPolling, LockToWait, ProducerTimeOut, ProducerWakes,
        ProducerExpires, Leave, StopProducer, ConsumerHolds, InTryGetNext
  <2>2. \A q \in Producers : ProducerHolds(q)' <=> ProducerHolds(q)
    <3>1. CASE LockToWait(p) \/ ProducerWakes(p) \/ ProducerExpires(p)
      BY <1>10, <2>1, <3>1 DEF Before, TypeOK, PcType, RingInv, LockInv, Callers, ProducerHolds, Discarding,
          LockToWait, ProducerWakes, ProducerExpires
    <3>2. CASE StopPolling(p) \/ ProducerTimeOut(p) \/ Leave(p) \/ StopProducer(p)
      BY <1>10, <2>1, <3>2 DEF Before, TypeOK, PcType, ProducerHolds, Discarding,
          StopPolling, ProducerTimeOut, Leave, StopProducer
    <3> QED BY <1>10, <3>1, <3>2
  <2> QED BY <2>1, <2>2 DEF Before, WakeupInv, MutexExclusion
<1>5. ASSUME NEW p \in Producers, TestPresent(p) \/ DiscardLoad(p) \/ DiscardStore(p) \/ DiscardRefresh(p)
      PROVE  FALSE
  BY <1>5 DEF Before, RingInv, NoDiscard, Discarding, TestPresent, DiscardLoad, DiscardStore, DiscardRefresh
<1>6. ASSUME NEW p \in Producers, NotifyConsumer(p) \/ StopProducerNotify(p) PROVE MutexExclusion'
  BY <1>6, ThreadAssumption DEF Before, WakeupInv, TypeOK, PcType, CallerType, LockType, MutexExclusion,
      ProducerHolds, ConsumerHolds, InTryGetNext, Discarding, NotifyConsumer, StopProducerNotify,
      WakeConsumer, Woken
<1>7. CASE ConsumerNext
  <2>1. \A p \in Producers : ProducerHolds(p)' <=> ProducerHolds(p)
    BY <1>7, ConsumerWrites, Wakes DEF Before, ProducerHolds, Discarding
  <2>2. ConsumerHolds' <=> waitMutex' = Consumer
    BY <1>7, ThreadAssumption DEF Before, WakeupInv, MutexExclusion, TypeOK, LockType, ConsumerType,
        ConsumerHolds, InTryGetNext, ConsumerNext, ConsumerCalls, ConsumerStep, Attach, AnnounceConsumer, Detach, GetNext,
        TryGetNext, TestLoop, ReadReadPosition, RereadReadPosition, ReloadPublishPosition, Fetch,
        LoadReadPosition, IncrementReadPosition, NotifyProducers, Return, BackOff, ConsumerLocks,
        ConsumerBlocks, ConsumerTimeOut, ConsumerWakes, ConsumerThrows, StopConsumer,
        StopConsumerNotify, WakeConsumer
  <2>3. \A p \in Producers : waitMutex' = p <=> waitMutex = p
    BY <1>7, ConsumerWrites, ThreadAssumption DEF Before, WakeupInv, MutexExclusion, ConsumerHolds,
        InTryGetNext, Return, ConsumerLocks, ConsumerBlocks, ConsumerThrows
  <2> QED BY <2>1, <2>2, <2>3 DEF Before, WakeupInv, MutexExclusion
<1>8. CASE UNCHANGED vars
  BY <1>8 DEF vars, Before, WakeupInv, MutexExclusion, ProducerHolds, ConsumerHolds, InTryGetNext
<1> QED BY <1>1, <1>2, <1>3, <1>4, <1>5, <1>6, <1>7, <1>8, <1>9, <1>10 DEF Next, ProducerNext, ProducerStep

\* How a producer gets to waitMutex_ and to sleep, and how it leaves notifyConsumer and
\* the state between two calls.
LEMMA SleepArrivals ==
    ASSUME TypeOK, [Next]_vars, NEW q \in Producers
    PROVE  /\ pc'[q] = "lock" => pc[q] = "lock" \/ StopPolling(q)
           /\ pc'[q] = "block" => pc[q] = "block" \/ CanPublish(q) \/ TestPresent(q)
           /\ pc'[q] = "waiting" => pc[q] = "waiting" \/ Block(q) \/ LockToWait(q)
           /\ pc[q] = "notify" => pc'[q] = "notify" \/ NotifyConsumer(q)
           /\ pc[q] = "idle" => pc'[q] = "idle" \/ Publish(q)
<1> DEFINE Arrive ==
           /\ pc'[q] = "lock" => pc[q] = "lock" \/ StopPolling(q)
           /\ pc'[q] = "block" => pc[q] = "block" \/ CanPublish(q) \/ TestPresent(q)
           /\ pc'[q] = "waiting" => pc[q] = "waiting" \/ Block(q) \/ LockToWait(q)
           /\ pc[q] = "notify" => pc'[q] = "notify" \/ NotifyConsumer(q)
           /\ pc[q] = "idle" => pc'[q] = "idle" \/ Publish(q)
<1>1. ASSUME NEW p \in Producers, p # q, ProducerNext(p) PROVE Arrive
  BY <1>1 DEF TypeOK, PcType, Woken, ProducerNext, ProducerStep, Publish,
      TestStopping, Acquire, ReadPublishPosition, CanPublish, TestPresent, DiscardLoad,
      DiscardStore, DiscardRefresh, Write, StorePublishPosition, NotifyConsumer, Release,
      Unguard, WaitToPublish, GiveUp, Poll, StopPolling, LockToRecheck, Unlock, Block,
      LockToWait, ProducerTimeOut, ProducerWakes, ProducerExpires, Leave, StopProducer,
      StopProducerNotify
<1>2. ASSUME ProducerNext(q) PROVE Arrive
  BY <1>2 DEF TypeOK, PcType, CallerType, WhenTrue, WhenFalse, Woken, ProducerNext, ProducerStep, Publish,
      TestStopping, Acquire, ReadPublishPosition, CanPublish, TestPresent, DiscardLoad,
      DiscardStore, DiscardRefresh, Write, StorePublishPosition, NotifyConsumer, Release,
      Unguard, WaitToPublish, GiveUp, Poll, StopPolling, LockToRecheck, Unlock, Block,
      LockToWait, ProducerTimeOut, ProducerWakes, ProducerExpires, Leave, StopProducer,
      StopProducerNotify
<1>3. ASSUME ConsumerNext \/ UNCHANGED vars PROVE Arrive
  BY <1>3, Wakes
<1> QED BY <1>1, <1>2, <1>3 DEF Next

\* A producer whose strategy has no mutex never comes near it.
LEMMA ProducerStrategyStep == ASSUME Before, [Next]_vars PROVE ProducerStrategy'
<1> SUFFICES ASSUME ~ProducerUsesMutex, NEW q \in Producers
             PROVE  /\ polls'[q] = ProducerPolls \/ pc'[q] = "idle"
                    /\ pc'[q] \notin {"lock", "waiting"} /\ ~ProducerHolds(q)'
  BY DEF ProducerStrategy
<1>1. /\ polls[q] = ProducerPolls \/ pc[q] = "idle"
      /\ pc[q] \notin {"lock", "waiting"} /\ ~ProducerHolds(q)
      /\ TypeOK /\ ProducerPolls \in Nat /\ ProducerPolls > 0
  BY StrategyAssumption DEF Before, WakeupInv, ProducerStrategy
<1>2. polls'[q] = ProducerPolls \/ pc'[q] = "idle"
  <2>1. polls'[q] = polls[q] \/ polls'[q] = ProducerPolls
    BY <1>1, Writers DEF TypeOK, PollsType, Publish, WaitToPublish, Poll, CountDown
  <2>2. Publish(q) => polls'[q] = ProducerPolls BY <1>1 DEF TypeOK, PollsType, Publish
  <2> QED BY <1>1, <2>1, <2>2, SleepArrivals
<1>3. pc'[q] # "lock"
  BY <1>1, SleepArrivals DEF StopPolling, PollsLeft
<1>4. pc'[q] # "waiting"
  BY <1>1, SleepArrivals DEF Block, LockToWait, ProducerHolds
<1>5. ~ProducerHolds(q)'
  <2>1. waitMutex # q BY <1>1 DEF Before, WakeupInv, MutexExclusion
  <2>2. waitMutex' # q
    BY <1>1, <2>1, Writers, ThreadAssumption
    DEF LockToRecheck, Unlock, Block, Return, ConsumerLocks, ConsumerBlocks, ConsumerThrows
  <2> QED BY <2>2, MutexExclusionStep DEF MutexExclusion
<1> QED BY <1>2, <1>3, <1>4, <1>5

\* The same for the consumer.
LEMMA ConsumerStrategyStep == ASSUME Before, [Next]_vars PROVE ConsumerStrategy'
<1> SUFFICES ASSUME ~ConsumerUsesMutex PROVE ConsumerStrategy' BY DEF ConsumerStrategy
<1>1. CASE ConsumerNext
  BY <1>1, StrategyAssumption
  DEF Before, WakeupInv, TypeOK, ConsumerType, ConsumerStrategy, ConsumerHolds, InTryGetNext,
      PollsLeft, CountDown, ConsumerNext, ConsumerCalls, ConsumerStep, Attach, AnnounceConsumer, Detach, GetNext,
      TryGetNext, TestLoop, ReadReadPosition, RereadReadPosition, ReloadPublishPosition, Fetch,
      LoadReadPosition, IncrementReadPosition, NotifyProducers, Return, BackOff, ConsumerLocks,
      ConsumerBlocks, ConsumerTimeOut, ConsumerWakes, ConsumerThrows, StopConsumer,
      StopConsumerNotify, WakeConsumer
<1>2. ASSUME NEW p \in Producers, ProducerNext(p) PROVE ConsumerStrategy'
  <2>1. UNCHANGED <<cplaces, cpolls, cpc>>
    BY <1>2, ProducerWrites DEF NotifyConsumer
  <2> QED BY <2>1 DEF Before, WakeupInv, ConsumerStrategy, ConsumerHolds, InTryGetNext
<1>3. CASE UNCHANGED vars
  BY <1>3 DEF vars, Before, WakeupInv, ConsumerStrategy, ConsumerHolds, InTryGetNext
<1> QED BY <1>1, <1>2, <1>3 DEF Next

\* Whoever takes a flag back wakes those who sleep.
LEMMA FlaggedStep == ASSUME Before, [Next]_vars PROVE Flagged'
<1>1. Before /\ TypeOK /\ Flagged BY DEF Before, WakeupInv
<1>2. ASSUME NEW q \in Producers, pc'[q] = "waiting" PROVE producerWaiting'
  <2>1. pc[q] = "waiting" \/ Block(q) \/ LockToWait(q) BY <1>1, <1>2, SleepArrivals
  <2>2. CASE Block(q) BY <2>2 DEF Block
  <2>3. CASE LockToWait(q) BY <1>1, <1>2, <2>3 DEF LockToWait, TypeOK, PcType
  <2>4. CASE pc[q] = "waiting"
    <3>1. producerWaiting BY <1>1, <2>4 DEF Flagged
    <3>2. ~NotifyProducers BY <1>1, <1>2, <2>4, <3>1 DEF NotifyProducers, Woken
    <3>3. producerWaiting' \/ UNCHANGED producerWaiting
      <4>1. ASSUME NEW p \in Producers, Block(p) \/ LockToWait(p) PROVE producerWaiting'
        BY <3>1, <4>1 DEF Block, LockToWait
      <4> QED BY <3>2, <4>1, Writers
    <3> QED BY <3>1, <3>3
  <2> QED BY <2>1, <2>2, <2>3, <2>4
<1>3. ASSUME cpc' = "waiting" PROVE consumerWaiting'
  <2>1. CASE ConsumerNext
    BY <1>1, <1>3, <2>1, ConsumerWrites
    DEF Flagged, ConsumerNext, ConsumerCalls, ConsumerStep, Attach, AnnounceConsumer, Detach, GetNext,
      TryGetNext, TestLoop, ReadReadPosition, RereadReadPosition, ReloadPublishPosition, Fetch,
      LoadReadPosition, IncrementReadPosition, NotifyProducers, Return, BackOff, ConsumerLocks,
      ConsumerBlocks, ConsumerTimeOut, ConsumerWakes, ConsumerThrows, StopConsumer,
      StopConsumerNotify, WakeConsumer
  <2>2. ASSUME NEW p \in Producers, ProducerNext(p) PROVE consumerWaiting'
    BY <1>1, <1>3, <2>2, ProducerWrites DEF Flagged, NotifyConsumer, WakeConsumer
  <2>3. CASE UNCHANGED vars BY <1>1, <1>3, <2>3 DEF vars, Flagged
  <2> QED BY <2>1, <2>2, <2>3 DEF Next
<1> QED BY <1>2, <1>3 DEF Flagged

\* The consumer that makes room is on its way to the producers that sleep.
LEMMA ProducersSleepStep == ASSUME Before, [Next]_vars PROVE ProducersSleep'
<1> SUFFICES ASSUME NEW q \in Producers, pc'[q] \in {"block", "waiting"},
                    publishPosition' < readPosition' + EntryCount
             PROVE  cpc' = "notify"
  BY DEF ProducersSleep
<1>1. /\ TypeOK /\ ProducersSleep /\ OldPositions /\ Flagged /\ MutexExclusion
      /\ publishPosition \in Nat /\ readPosition \in Nat /\ publishPosition' \in Nat
      /\ EntryCount \in Nat /\ publishPosition <= publishPosition' /\ position[q] \in Nat
      /\ position[q] <= publishPosition
  BY PositionsGrow, RingTypeStep, EntryCountAssumption
  DEF Before, WakeupInv, TypeOK, RingType, PositionType, OldPositions
<1>2. CASE pc[q] \in {"block", "waiting"}
  <2>1. ASSUME NotifyProducers PROVE FALSE
    <3>1. waitMutex = Free BY <2>1 DEF NotifyProducers
    <3>2. pc[q] # "block" BY <1>1, <3>1, ThreadAssumption DEF MutexExclusion, ProducerHolds
    <3>3. producerWaiting BY <1>1, <1>2, <3>2 DEF Flagged
    <3> QED BY <1>1, <1>2, <2>1, <3>2, <3>3 DEF NotifyProducers, Woken
  <2>2. CASE IncrementReadPosition
    <3>1. ProducerUsesMutex
      BY <1>2 DEF Before, WakeupInv, ProducerStrategy, ProducerHolds
    <3> QED BY <2>2, <3>1 DEF IncrementReadPosition
  <2>3. CASE UNCHANGED readPosition
    <3>1. publishPosition < readPosition + EntryCount BY <1>1, <2>3
    <3>2. cpc = "notify" BY <1>1, <1>2, <3>1 DEF ProducersSleep
    <3>3. cpc' = "notify" \/ NotifyProducers
      <4>1. CASE ConsumerNext
        BY <3>2, <4>1 DEF ConsumerNext, ConsumerCalls, ConsumerStep, Attach, AnnounceConsumer, Detach, GetNext,
            TryGetNext, TestLoop, ReadReadPosition, RereadReadPosition, ReloadPublishPosition, Fetch,
            LoadReadPosition, IncrementReadPosition, Return, BackOff, ConsumerLocks, ConsumerBlocks,
            ConsumerTimeOut, ConsumerWakes, ConsumerThrows, StopConsumer, StopConsumerNotify, WakeConsumer
      <4>2. ASSUME NEW p \in Producers, ProducerNext(p) PROVE cpc' = "notify"
        BY <3>2, <4>2, ProducerWrites DEF NotifyConsumer, WakeConsumer
      <4>3. CASE UNCHANGED vars BY <3>2, <4>3 DEF vars
      <4> QED BY <4>1, <4>2, <4>3 DEF Next
    <3> QED BY <2>1, <3>3
  <2> QED BY <2>2, <2>3, ReadersPosition DEF Before
<1>3. CASE CanPublish(q) /\ pc'[q] = "block"
  <2>1. Limit <= position[q]
    BY <1>1, <1>3, LimitType
    DEF Before, TypeOK, PcType, CallerType, PublishableType, CanPublish, WhenTrue, WhenFalse
  <2>2. UNCHANGED readPosition /\ UNCHANGED publishPosition BY <1>3 DEF CanPublish
  <2> QED BY <1>1, <2>1, <2>2 DEF Limit
<1>4. CASE LockToWait(q) /\ pc'[q] = "waiting"
  <2>1. Limit <= position[q] BY <1>1, <1>4 DEF TypeOK, PcType, LockToWait
  <2>2. UNCHANGED readPosition /\ UNCHANGED publishPosition BY <1>4 DEF LockToWait
  <2> QED BY <1>1, <2>1, <2>2 DEF Limit
<1>5. ~TestPresent(q) BY DEF TestPresent, Before, RingInv, NoDiscard, Discarding
<1>6. Block(q) => pc[q] = "block" BY DEF Block
<1> QED BY <1>1, <1>2, <1>3, <1>4, <1>5, <1>6, SleepArrivals

\* The producer that publishes is on its way to the consumer that sleeps.
LEMMA ConsumerSleepsStep == ASSUME Before, [Next]_vars PROVE ConsumerSleeps'
<1> DEFINE Sleeps == cpc = "waiting" \/ (cpc = "empty" /\ ccaller = "locked")
<1> SUFFICES ASSUME Sleeps', readPosition' < publishPosition'
             PROVE  \E p \in Producers : pc'[p] = "notify"
  BY DEF ConsumerSleeps
<1>1. /\ TypeOK /\ ConsumerSleeps /\ Flagged /\ MutexExclusion
      /\ publishPosition \in Nat /\ readPosition \in Nat
  BY DEF Before, WakeupInv, TypeOK, RingType
<1>2. ASSUME NEW p \in Producers, NotifyConsumer(p) PROVE FALSE
  <2>1. ccaller' = ccaller /\ (cpc' = cpc \/ cpc' = "notified") BY <1>2 DEF NotifyConsumer, WakeConsumer
  <2>2. ConsumerUsesMutex
    BY <2>1 DEF Before, WakeupInv, ConsumerStrategy, ConsumerHolds, InTryGetNext
  <2>3. waitMutex = Free BY <1>2, <2>2 DEF NotifyConsumer
  <2>4. ~(cpc = "empty" /\ ccaller = "locked")
    BY <1>1, <2>3, ThreadAssumption DEF MutexExclusion, ConsumerHolds, InTryGetNext
  <2>5. cpc = "waiting" /\ consumerWaiting BY <1>1, <2>1, <2>4 DEF Flagged
  <2>6. cpc' = "notified" BY <1>2, <2>2, <2>5 DEF NotifyConsumer, WakeConsumer
  <2> QED BY <2>6
<1>3. ASSUME NEW p \in Producers, StorePublishPosition(p) PROVE pc'[p] = "notify"
  BY <1>1, <1>3 DEF StorePublishPosition, TypeOK, PcType
<1>4. ASSUME Sleeps, UNCHANGED readPosition, UNCHANGED publishPosition
      PROVE  \E p \in Producers : pc'[p] = "notify"
  <2>1. PICK p \in Producers : pc[p] = "notify" BY <1>1, <1>4 DEF ConsumerSleeps
  <2> QED BY <1>1, <1>2, <2>1, SleepArrivals
<1>5. ASSUME NEW p \in Producers, ProducerNext(p), ~StorePublishPosition(p)
      PROVE  Sleeps /\ UNCHANGED readPosition /\ UNCHANGED publishPosition
  <2>1. UNCHANGED <<ccaller, cpc>> BY <1>2, <1>5, ProducerWrites
  <2>2. UNCHANGED readPosition
    BY <1>5, ProducerWrites DEF DiscardStore, Before, RingInv, NoDiscard, Discarding
  <2>3. UNCHANGED publishPosition
    BY <1>5, ProducerWrites DEF GiveUp, Before, RingInv, LockInv, Positions, Current
  <2> QED BY <2>1, <2>2, <2>3
<1>6. CASE ConsumerNext
  <2>1. UNCHANGED publishPosition BY <1>6, ConsumerWrites
  <2>2. UNCHANGED readPosition BY <1>6, ConsumerWrites DEF IncrementReadPosition
  <2>3. Sleeps \/ ReloadPublishPosition
    BY <1>6 DEF ConsumerNext, ConsumerCalls, ConsumerStep, Attach, AnnounceConsumer, Detach, GetNext,
        TryGetNext, TestLoop, ReadReadPosition, RereadReadPosition, Fetch, LoadReadPosition,
        IncrementReadPosition, NotifyProducers, Return, BackOff, ConsumerLocks, ConsumerBlocks,
        ConsumerTimeOut, ConsumerWakes, ConsumerThrows, StopConsumer, StopConsumerNotify, WakeConsumer
  <2>4. ~ReloadPublishPosition
    BY <1>1, <2>1, <2>2 DEF ReloadPublishPosition, Before, RingInv, Reading
  <2> QED BY <1>4, <2>1, <2>2, <2>3, <2>4
<1>7. CASE UNCHANGED vars
  <2>1. Sleeps /\ UNCHANGED readPosition /\ UNCHANGED publishPosition BY <1>7 DEF vars
  <2> QED BY <1>4, <2>1
<1> QED BY <1>3, <1>4, <1>5, <1>6, <1>7 DEF Next
-----------------------------------------------------------------------------
\* WakeupInv is an invariant, whatever the wait strategies.
THEOREM WakeupInvCorrect == ASSUME ~DiscardMessages PROVE Spec => []WakeupInv
<1>1. TypeOK /\ RingInv /\ WakeupInv /\ [Next]_vars => WakeupInv'
  <2> SUFFICES ASSUME TypeOK, RingInv, WakeupInv, [Next]_vars PROVE WakeupInv' OBVIOUS
  <2>1. Before BY DEF Before
  <2> QED BY <2>1, MutexExclusionStep, ProducerStrategyStep, ConsumerStrategyStep, FlaggedStep,
             OldPositionsStep, ProducersSleepStep, ConsumerSleepsStep DEF WakeupInv
<1> QED BY <1>1, WakeupInit, RingCorrect, PTL DEF Spec

\* notifyConsumer (Producer.cpp) and getNext's wait: no message is published past a
\* consumer that sleeps.
THEOREM NoLostConsumerWakeupCorrect == ASSUME ~DiscardMessages PROVE Spec => []NoLostConsumerWakeup
<1>1. WakeupInv => NoLostConsumerWakeup
  BY DEF WakeupInv, Flagged, ConsumerSleeps, NoLostConsumerWakeup
<1> QED BY <1>1, WakeupInvCorrect, PTL

\* incrementReadPosition (Consumer.cpp) and the producers' waits: no entry gets free
\* past a producer that sleeps.
THEOREM NoLostProducerWakeupCorrect == ASSUME ~DiscardMessages PROVE Spec => []NoLostProducerWakeup
<1>1. WakeupInv => NoLostProducerWakeup
  BY DEF WakeupInv, Flagged, ProducersSleep, NoLostProducerWakeup
<1> QED BY <1>1, WakeupInvCorrect, PTL
-----------------------------------------------------------------------------
(* The queue that the ring implements *)

\* What is published and not consumed yet.
Remaining == SubSeq(published, Len(consumed) + 1, Len(published))

\* It grows at its end and shrinks at its beginning.
LEMMA RemainingLength ==
    ASSUME NEW S, NEW s \in Seq(S), NEW n \in 0 .. Len(s)
    PROVE  SubSeq(s, n + 1, Len(s)) \in Seq(S) /\ Len(SubSeq(s, n + 1, Len(s))) = Len(s) - n
<1> DEFINE rest == SubSeq(s, n + 1, Len(s))
<1>1. Len(s) \in Nat BY LenProperties
<1>2. \A i \in n + 1 .. Len(s) : s[i] \in S BY <1>1, ElementOfSeq
<1>3. rest \in Seq(S) /\ Len(rest) = IF n + 1 <= Len(s) THEN Len(s) - (n + 1) + 1 ELSE 0
  BY <1>1, <1>2, SubSeqProperties
<1> HIDE DEF rest
<1>4. Len(rest) = Len(s) - n BY <1>1, <1>3
<1> QED BY <1>3, <1>4 DEF rest
LEMMA RemainingGrows ==
    ASSUME NEW S, NEW s \in Seq(S), NEW e \in S, NEW n \in 0 .. Len(s)
    PROVE  SubSeq(Append(s, e), n + 1, Len(Append(s, e))) = Append(SubSeq(s, n + 1, Len(s)), e)
<1> DEFINE new == Append(s, e)  rest == SubSeq(s, n + 1, Len(s))  after == SubSeq(new, n + 1, Len(new))
<1>1. /\ Len(s) \in Nat /\ new \in Seq(S) /\ Len(new) = Len(s) + 1 /\ new[Len(s) + 1] = e
      /\ \A i \in 1 .. Len(s) : new[i] = s[i]
  BY AppendProperties, LenProperties
<1>2. rest \in Seq(S) /\ Len(rest) = Len(s) - n /\ \A i \in 1 .. Len(s) - n : rest[i] = s[n + i]
  <2>1. \A i \in n + 1 .. Len(s) : s[i] \in S BY ElementOfSeq
  <2>2. /\ rest \in Seq(S) /\ Len(rest) = IF n + 1 <= Len(s) THEN Len(s) - (n + 1) + 1 ELSE 0
        /\ \A i \in 1 .. Len(s) - (n + 1) + 1 : rest[i] = s[n + 1 + i - 1]
    BY <1>1, <2>1, SubSeqProperties
  <2> HIDE DEF rest
  <2> QED BY <1>1, <2>2
<1>3. after \in Seq(S) /\ Len(after) = Len(s) - n + 1 /\ \A i \in 1 .. Len(s) - n + 1 : after[i] = new[n + i]
  <2> HIDE DEF new
  <2>1. \A i \in n + 1 .. Len(new) : new[i] \in S BY <1>1, ElementOfSeq
  <2>2. /\ after \in Seq(S) /\ Len(after) = IF n + 1 <= Len(new) THEN Len(new) - (n + 1) + 1 ELSE 0
        /\ \A i \in 1 .. Len(new) - (n + 1) + 1 : after[i] = new[n + 1 + i - 1]
    BY <1>1, <2>1, SubSeqProperties
  <2> HIDE DEF after
  <2> QED BY <1>1, <2>2, SMTT(30)
<1>4. /\ Append(rest, e) \in Seq(S) /\ Len(Append(rest, e)) = Len(s) - n + 1
      /\ Append(rest, e)[Len(s) - n + 1] = e /\ \A i \in 1 .. Len(s) - n : Append(rest, e)[i] = rest[i]
  <2> HIDE DEF rest
  <2> QED BY <1>2, AppendProperties
<1> HIDE DEF new, rest, after
<1>5. ASSUME NEW i \in 1 .. Len(s) - n + 1 PROVE after[i] = Append(rest, e)[i]
  <2>1. CASE i = Len(s) - n + 1
    <3>1. after[i] = new[n + i] /\ n + i = Len(s) + 1 BY <1>1, <1>3, <2>1
    <3> QED BY <1>1, <1>4, <2>1, <3>1
  <2>2. CASE i # Len(s) - n + 1
    <3>1. i \in 1 .. Len(s) - n /\ n + i \in 1 .. Len(s) BY <1>1, <2>2
    <3> QED BY <1>1, <1>2, <1>3, <1>4, <3>1
  <2> QED BY <2>1, <2>2
<1>6. after = Append(rest, e) BY <1>1, <1>3, <1>4, <1>5, SeqEqual
<1> QED BY <1>6 DEF new, rest, after
LEMMA RemainingShrinks ==
    ASSUME NEW S, NEW s \in Seq(S), NEW n \in 0 .. Len(s) - 1
    PROVE  LET rest == SubSeq(s, n + 1, Len(s)) IN
           rest # <<>> /\ Head(rest) = s[n + 1] /\ Tail(rest) = SubSeq(s, n + 2, Len(s))
<1>1. Len(s) \in Nat BY LenProperties
<1>2. n + 1 \in 1 .. Len(s) /\ Len(s) \in n + 1 .. Len(s) /\ n + 1 + 1 = n + 2 BY <1>1
<1>3. Len(SubSeq(s, n + 1, Len(s))) = Len(s) - n BY <1>1, RemainingLength
<1>4. SubSeq(s, n + 1, Len(s)) # <<>>
  <2>1. Len(s) - n # 0 /\ Len(<<>>) = 0 BY <1>1
  <2> QED BY <1>3, <2>1, Zenon
<1> QED BY <1>2, <1>4, HeadTailOfSubSeq

\* The entries between the two positions hold just that, in this order.
LEMMA EntriesHold ==
    ASSUME TypeOK, RingInv
    PROVE  /\ QueueInEntries = Remaining
           /\ publishPosition - readPosition - Taken = Len(published) - Len(consumed)
<1>1. /\ published \in Seq(Message) /\ Len(published) \in Nat /\ Len(consumed) \in Nat
      /\ EntryCount \in Nat \ {0} /\ readPosition \in Nat /\ publishPosition \in Nat /\ Taken \in {0, 1}
  BY EntryCountAssumption DEF TypeOK, HistoryType, RingType, Taken
<1>2. /\ publishPosition = EntryCount + Len(published) /\ readPosition + Taken = EntryCount + Len(consumed)
      /\ Len(consumed) <= Len(published)
  BY DEF RingInv, Counts, Fifo
<1>3. publishPosition - readPosition - Taken = Len(published) - Len(consumed) BY <1>1, <1>2
<1>4. ASSUME NEW i \in 1 .. Len(published) - Len(consumed)
      PROVE  entries[Slot(readPosition + Taken + i - 1)].message = Remaining[i]
  <2> DEFINE at == readPosition + Taken + i - 1
  <2>1. at \in readPosition + Taken .. publishPosition - 1 /\ at - EntryCount + 1 = Len(consumed) + i
    BY <1>1, <1>2
  <2> HIDE DEF at
  <2>2. entries[Slot(at)] = [status |-> "OK", message |-> published[at - EntryCount + 1]]
    BY <2>1 DEF RingInv, Waiting
  <2>3. Remaining[i] = published[Len(consumed) + i] BY <1>1, <1>2 DEF Remaining
  <2> QED BY <2>1, <2>2, <2>3 DEF at
<1>5. Remaining = [i \in 1 .. Len(published) - Len(consumed) |-> Remaining[i]]
  <2>1. Remaining = [i \in 1 .. Len(published) - (Len(consumed) + 1) + 1 |->
                        published[i + (Len(consumed) + 1) - 1]]
    BY <1>1, <1>2 DEF Remaining, SubSeq
  <2> QED BY <1>1, <1>2, <2>1
<1> DEFINE n == Len(published) - Len(consumed)
<1>6. QueueInEntries = [i \in 1 .. n |-> entries[Slot(readPosition + Taken + i - 1)].message]
  BY <1>3 DEF QueueInEntries
<1> HIDE DEF n
<1>7. QueueInEntries = [i \in 1 .. n |-> Remaining[i]] BY <1>4, <1>6 DEF n
<1> QED BY <1>3, <1>5, <1>7 DEF n

\* The queue starts empty.
LEMMA FifoInit == Init => Fifoq!Init /\ Leaving
<1> SUFFICES ASSUME Init PROVE Fifoq!Init /\ Leaving OBVIOUS
<1>1. publishPosition - readPosition - Taken = 0
  <2>1. Taken = 0 BY DEF Init, Taken
  <2> QED BY <2>1, EntryCountAssumption DEF Init
<1>2. QueueInEntries = <<>>
  <2>1. QueueInEntries = [i \in 1 .. 0 |-> entries[Slot(readPosition + Taken + i - 1)].message]
    BY <1>1 DEF QueueInEntries
  <2> QED BY <2>1
<1>3. Pending = {} /\ Excused = {} /\ Leaving BY DEF Init, Pending, Excused, Stopping, Leaving
<1> QED BY <1>2, <1>3 DEF Init, Fifoq!Init

\* Where a call of publish() is over, and the steps that can end it.
Over == {"idle", "notify", "release", "threw"}
Ends(p) == TestStopping(p) \/ StorePublishPosition(p) \/ Leave(p) \/ ProducerExpires(p)

\* How a producer gets out of publish().
LEMMA Departures ==
    ASSUME TypeOK, [Next]_vars, NEW q \in Producers
    PROVE  /\ pc'[q] = "leave" => pc[q] = "leave" \/ GiveUp(q)
           /\ pc'[q] = "throw" => pc[q] = "throw" \/ StopPolling(q)
           /\ (pc'[q] \in Over <=> pc[q] \in Over) \/ Publish(q) \/ Ends(q)
<1> DEFINE Depart ==
        /\ pc'[q] = "leave" => pc[q] = "leave" \/ GiveUp(q)
        /\ pc'[q] = "throw" => pc[q] = "throw" \/ StopPolling(q)
        /\ (pc'[q] \in Over <=> pc[q] \in Over) \/ Publish(q) \/ Ends(q)
<1>1. ASSUME NEW p \in Producers, p # q, ProducerNext(p) PROVE Depart
  BY <1>1 DEF TypeOK, PcType, Over, Woken, ProducerNext, ProducerStep, Publish,
      TestStopping, Acquire, ReadPublishPosition, CanPublish, TestPresent, DiscardLoad,
      DiscardStore, DiscardRefresh, Write, StorePublishPosition, NotifyConsumer, Release,
      Unguard, WaitToPublish, GiveUp, Poll, StopPolling, LockToRecheck, Unlock, Block,
      LockToWait, ProducerTimeOut, ProducerWakes, ProducerExpires, Leave, StopProducer,
      StopProducerNotify
<1>2. ASSUME ProducerNext(q) PROVE Depart
  <2>1. CASE Publish(q) \/ Ends(q)
    BY <2>1 DEF TypeOK, PcType, Over, Ends, Publish, TestStopping, StorePublishPosition, Leave, ProducerExpires
  <2>2. CASE ~(Publish(q) \/ Ends(q))
    BY <1>2, <2>2 DEF TypeOK, PcType, CallerType, Over, Ends, WhenTrue, WhenFalse, Woken,
      ProducerNext, ProducerStep, Acquire, ReadPublishPosition,
      CanPublish, TestPresent, DiscardLoad, DiscardStore, DiscardRefresh, Write,
      NotifyConsumer, Release, Unguard, WaitToPublish, GiveUp, Poll,
      StopPolling, LockToRecheck, Unlock, Block, LockToWait, ProducerTimeOut, ProducerWakes,
      StopProducer, StopProducerNotify
  <2> QED BY <2>1, <2>2
<1>3. ASSUME ConsumerNext \/ UNCHANGED vars PROVE Depart
  BY <1>3, ConsumerWrites DEF TypeOK, PcType, Over, NotifyProducers, Woken, vars
<1> QED BY <1>1, <1>2, <1>3 DEF Next

\* Who is on his way out of publish() has seen stopping_ or a timeout, and neither is taken
\* back before the next call.
LEMMA LeavingStep ==
    ASSUME TypeOK, Leaving, [Next]_vars
    PROVE  Leaving'
<1> SUFFICES ASSUME NEW q \in Producers
             PROVE  /\ pc'[q] = "leave" => pstop'[q] # "no"
                    /\ pc'[q] = "throw" => timedOut'[q]
  BY DEF Leaving, Stopping
<1>1. pstop[q] # "no" => pstop'[q] # "no"
  BY Writers DEF TypeOK, PstopType, StopProducer, StopProducerNotify
<1>2. timedOut[q] /\ pc[q] = "throw" => timedOut'[q]
  BY Writers DEF TypeOK, TimedOutType, Publish, ProducerExpires
<1>3. GiveUp(q) => pstop[q] # "no" BY DEF GiveUp, Stopping
<1>4. StopPolling(q) /\ pc'[q] = "throw" => timedOut[q] /\ timedOut' = timedOut
  BY DEF StopPolling, TypeOK, PcType, TimedOutType
<1> QED BY <1>1, <1>2, <1>3, <1>4, Departures DEF Leaving, Stopping

\* A publish whose message is in the ring has put it into the queue.
LEMMA StorePuts ==
    ASSUME TypeOK, RingInv, NEW p \in Producers, StorePublishPosition(p),
           QueueInEntries = Remaining, QueueInEntries' = Remaining'
    PROVE  Fifoq!Put(p)
<1>1. published \in Seq(Message) /\ <<p, sent[p]>> \in Message /\ Len(consumed) \in Nat /\ Len(published) \in Nat
  BY DEF TypeOK, HistoryType, SentType, Message
<1>2. published' = Append(published, <<p, sent[p]>>) /\ consumed' = consumed /\ sent' = sent
  BY DEF StorePublishPosition
<1>3. Len(consumed) <= Len(published) BY DEF RingInv, Fifo
<1>4. Remaining' = Append(Remaining, <<p, sent[p]>>)
  <2> DEFINE m == <<p, sent[p]>>  n == Len(consumed)
  <2>1. n \in 0 .. Len(published) /\ m \in Message BY <1>1, <1>3
  <2>2. Remaining' = SubSeq(Append(published, m), n + 1, Len(Append(published, m)))
    BY <1>2, Zenon DEF Remaining
  <2> HIDE DEF m, n
  <2>3. Remaining' = Append(SubSeq(published, n + 1, Len(published)), m)
    BY <1>1, <2>1, <2>2, RemainingGrows
  <2> QED BY <2>3 DEF Remaining, m, n
<1>5. Len(QueueInEntries) < EntryCount
  <2>1. publishPosition < readPosition + EntryCount BY DEF StorePublishPosition, RingInv, Room
  <2>2. publishPosition - readPosition - Taken < EntryCount /\ publishPosition - readPosition - Taken \in Int
    BY <2>1, EntryCountAssumption DEF TypeOK, RingType, Taken
  <2>3. publishPosition - readPosition - Taken = Len(published) - Len(consumed) BY EntriesHold
  <2>4. Len(Remaining) = Len(published) - Len(consumed) BY <1>1, <1>3, RemainingLength DEF Remaining
  <2> QED BY <2>2, <2>3, <2>4
<1>6. p \in Pending /\ Pending' = Pending \ {p} BY DEF StorePublishPosition, Pending, TypeOK, PcType
<1> QED BY <1>2, <1>4, <1>5, <1>6 DEF Fifoq!Put

\* A message that is moved out of its entry has been taken out of the queue.
LEMMA FetchTakes ==
    ASSUME TypeOK, RingInv, Fetch,
           QueueInEntries = Remaining, QueueInEntries' = Remaining'
    PROVE  Fifoq!Take
<1>1. published \in Seq(Message) /\ Len(consumed) \in Nat /\ Len(published) \in Nat
      /\ consumed \in Seq(Message \cup {NoMessage})
  BY DEF TypeOK, HistoryType
<1>2. Len(consumed) < Len(published) /\ consumed' = Append(consumed, published[Len(consumed) + 1])
  BY Fetched
<1>3. published' = published /\ UNCHANGED <<sent, pc>> BY DEF Fetch
<1>4. Len(consumed') = Len(consumed) + 1
  <2>1. published[Len(consumed) + 1] \in Message \cup {NoMessage} BY <1>1, <1>2
  <2> QED BY <1>1, <1>2, <2>1
<1>5. Remaining # <<>> /\ Head(Remaining) = published[Len(consumed) + 1] /\ Tail(Remaining) = Remaining'
  BY <1>1, <1>2, <1>3, <1>4, RemainingShrinks DEF Remaining
<1> QED BY <1>2, <1>3, <1>5 DEF Fifoq!Take, Pending

\* The beginning of a call, and an end without success.
LEMMA PublishCalls ==
    ASSUME TypeOK, NEW p \in Producers, Publish(p), QueueInEntries' = QueueInEntries
    PROVE  Fifoq!Call(p)
<1>1. p \notin Pending /\ Pending' = Pending \cup {p}
  BY DEF Publish, Pending, TypeOK, PcType
<1> QED BY <1>1 DEF Publish, Fifoq!Call
LEMMA EndAbandons ==
    ASSUME TypeOK, Leaving, NEW p \in Producers, TestStopping(p) \/ Leave(p) \/ ProducerExpires(p),
           QueueInEntries' = QueueInEntries
    PROVE  Fifoq!Abandon(p) \/ UNCHANGED <<QueueInEntries, sent, Pending, consumed>>
<1>1. UNCHANGED <<sent, consumed>> BY DEF TestStopping, Leave, ProducerExpires
<1>2. CASE pc'[p] \notin Over
  <2>1. Pending' = Pending
    BY <1>2 DEF TestStopping, Leave, ProducerExpires, Pending, Over, TypeOK, PcType
  <2> QED BY <1>1, <2>1
<1>3. CASE pc'[p] \in Over
  <2>1. p \in Pending /\ Pending' = Pending \ {p}
    BY <1>3 DEF TestStopping, Leave, ProducerExpires, Pending, Over, TypeOK, PcType
  <2>2. p \in Excused
    BY <1>3 DEF TestStopping, Leave, ProducerExpires, Excused, Over, Leaving, TypeOK, PcType
  <2> QED BY <1>1, <2>1, <2>2 DEF Fifoq!Abandon
<1> QED BY <1>2, <1>3

\* Every step of the ring is a step of the queue or leaves it as it is.
LEMMA RingStep ==
    ASSUME TypeOK, RingInv, Leaving, [Next]_vars,
           QueueInEntries = Remaining, QueueInEntries' = Remaining'
    PROVE  Fifoq!Next
<1>0. Excused' \subseteq Producers BY DEF Excused
<1>1. CASE \E p \in Producers : StorePublishPosition(p) BY <1>0, <1>1, StorePuts DEF Fifoq!Next
<1>2. CASE Fetch BY <1>0, <1>2, FetchTakes DEF Fifoq!Next
<1>3. ASSUME ~Fetch, \A p \in Producers : ~StorePublishPosition(p)
      PROVE  UNCHANGED <<published, consumed, QueueInEntries>>
  <2>1. UNCHANGED <<published, consumed>> BY <1>3, Writers
  <2> QED BY <2>1 DEF Remaining
<1>4. CASE ~Fetch /\ (\A p \in Producers : ~StorePublishPosition(p)) /\ \E p \in Producers : Publish(p)
  BY <1>0, <1>3, <1>4, PublishCalls DEF Fifoq!Next
<1>5. CASE ~Fetch /\ (\A p \in Producers : ~StorePublishPosition(p))
           /\ \E p \in Producers : TestStopping(p) \/ Leave(p) \/ ProducerExpires(p)
  BY <1>0, <1>3, <1>5, EndAbandons DEF Fifoq!Next
<1>6. CASE ~Fetch /\ \A p \in Producers : ~Publish(p) /\ ~Ends(p)
  <2>1. \A q \in Producers : pc'[q] \in Over <=> pc[q] \in Over BY <1>6, Departures
  <2>2. Pending' = Pending BY <2>1 DEF Pending, Over
  <2>3. UNCHANGED sent BY <1>6, Writers
  <2> QED BY <1>0, <1>3, <1>6, <2>2, <2>3 DEF Fifoq!Next, Ends
<1> QED BY <1>1, <1>2, <1>4, <1>5, <1>6 DEF Ends

\* ImplementsFifo: the ring buffer is a bounded first-in first-out queue.  Every call of
\* publish() puts its message in once and in the order of the calls' ends, unless it is
\* stopped or times out, and the consumer takes out the messages in this order.
THEOREM ImplementsFifoCorrect == ASSUME ~DiscardMessages PROVE Spec => ImplementsFifo
<1>1. TypeOK /\ RingInv => QueueInEntries = Remaining BY EntriesHold
<1>2. TypeOK /\ Leaving /\ [Next]_vars => Leaving' BY LeavingStep
<1>3. TypeOK /\ RingInv /\ Leaving /\ QueueInEntries = Remaining /\ (QueueInEntries = Remaining)' /\ [Next]_vars
      => [Fifoq!Next]_Fifoq!fifoVars
  BY RingStep
<1> QED BY <1>1, <1>2, <1>3, FifoInit, RingCorrect, PTL DEF Spec, ImplementsFifo, Fifoq!Spec
=============================================================================
