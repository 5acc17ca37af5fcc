# HighQueue and Steps in TLA+

This directory specifies the HighQueue library (a ring buffer in a block of memory, with producers and
a consumer in different threads) and the Steps framework built on it (pipelines of steps that pass
messages to each other). The specifications are translated from the code in `src/src`; TLC checks them
on small instances, and TLAPS proves the main safety properties for all values of the constants.

## 1. Inventory

| Component | State | Operations | What makes it correct |
|---|---|---|---|
| **Ring buffer**: `Producer`, `Consumer`, `HQHeader` | two positions, the entries, spin lock, wait mutex, three flags; cached positions in each thread's object | `publish`, `tryGetNext`, `getNext`, `stop` of both, construction and destruction of a Consumer | first in first out, no loss, no torn entry, no lost wakeup, every wait ends |
| **Connection** | the header, `canSolo_`, the producer count | `createLocal`, `willProduce`, `canSolo` | `canSolo()` only if one Producer exists |
| **Memory pool** | a free list threaded through the blocks, a spin lock | `tryAllocate`, `release` | a block has one holder, none is lost, the promised number is there |
| **Message** | a block, the offsets `used_` and `read_`, type and sequence | `allocate`, `release`, `emplace`, `appendBinaryCopy`, `setUsed`, `setRead`, `moveTo` ... | nobody writes into a message that he does not hold; moving takes everything along |
| **MultiQueueConsumer** | a vector of Consumers, the position of the search | `addQueue`, `tryGetNext`, `getNext` | every queue is emptied in the end |
| **Builder, SharedResources, StepFactory, Configuration** | the steps, the queues by name, the requests for messages, memory and threads, `stopping_` | `construct`, `createResources`, `start`, `stop`, `wait`, `finish` | what is accepted can run; what is requested suffices; everything is attached before it runs; `stop()` ends every thread |
| **Step, StepToMessage, ThreadedStepToMessage** | destinations, `stopping_`, `paused_`, `outMessage_`, a thread | `configure`, `attachResources`, `validate`, `start`, `stop`, `finish`, `send` | threads are joined; no message after `stop()` |
| **AsioService, asio steps, HeartbeatProducer** | the io service, its threads, a timer | `runThreads`, `stopService`, `joinThreads`, `handleTimer` | heartbeats come until `stop()`; the threads stay alive till then |
| **InputQueue, SendToQueue** | a Connection with a Consumer or a Producer | `run`, `handle`, `stop` | messages cross threads in order; a shutdown closes both ends |
| **OrderedMerge** | the stash of `look_ahead` slots, the expected number, what it knew at the last heartbeat | `handle` for data, heartbeats, shutdowns | sorted output, no duplicates, no loss within the window, no gap blocks for ever |
| **Shuffler, Leaker** | a deck of `look_ahead` slots, counters | `handle` | what is in the deck is sent in the end; what one stream leaks the other delivers |
| **MulticastSender, MulticastReceiver** | a socket, a read in progress | `handle`, `startRead`, `handleReceive` | what is received is read on |
| **RoundRobin, FanOut, pass-through and copying steps** | `outMessage_`, the next destination | `handle` | every destination gets its messages unchanged |
| **Stopper, Tee, Console** | counters, a stream | `handle` | the system stops once, after the expected messages |
| **Performance programs and tests of HighQueue** | threads, queues, a pool sized by hand | publish, copy from queue to queue, consume | the pool is large enough, the messages arrive, the program ends |

How they interact: a step calls `handle()` of its destinations in its own thread (`Step::send`). Threads
meet in the ring buffer (`SendToQueue` publishes, `InputQueue`'s thread calls `getNext`), in the memory
pool (every message's block), and in `SharedResources::stop()`, which any step's thread may call through
`Stopper`. A message is moved, not copied: `moveTo()` swaps the blocks of two messages, so that an entry of
the ring always owns a block. The Builder walks through the configuration once, depth first; every step
that it makes announces what it will need to `SharedResources`, and takes it after the last one has been made.

What is hard: the lock-free path between producers and consumer, where each side works with old copies of
the other's position; two wait protocols whose flags are only hints; `stop()` and timeouts at any point;
the discard option, where a producer writes the consumer's position; blocks that go from message to
message full of what was in them; the merge of redundant streams, where any order, duplicate and loss is
normal; resources that are counted in one place and taken in another. `PROJECT.json` lists the hazards line by line.

## 2. Modules

| Module | What it is |
|---|---|
| `HighQueue` | the ring buffer, one action per access to shared state |
| `FifoQueue` | the abstract bounded queue with calls that may be abandoned |
| `HighQueueInvariant`, `HighQueueProofs` | its inductive invariants `LockInv`, `RingInv`, `WakeupInv` and the refinement mapping to `FifoQueue`; the theorems about positions and entries, about wakeups, and the refinement |
| `MCHighQueue` | the instances for TLC |
| `MemoryPool`, `MemoryPoolProofs`, `MCMemoryPool` | the pool of blocks, its theorems, its instance |
| `BlockPool` | the abstract pool, which `MemoryPool` implements |
| `Messages` | the operations of `Message` |
| `MessageValues` | messages as values, which `Messages` implements |
| `Programs`, `MCPrograms` | the programs that use queues and messages directly, with `MultiQueueConsumer`; extends `Messages` |
| `ProgramsInvariant`, `ProgramsProofs` | what the programs keep; the theorems about messages and about the programs that use them |
| `OrderedMerge`, `OrderedMergeProofs`, `MCOrderedMerge` | the merging step, its theorems, its instance |
| `Streams`, `MCStreams` | redundant multicast streams through Shuffler and Leaker into an instance of `OrderedMerge`, and its instance for TLC |
| `StreamsInvariant`, `StreamsProofs` | what the Shuffler, the two streams and the merge keep; the theorems about the Shuffler and about the merged stream |
| `Construction`, `ConstructionProofs` | from a configuration to a running system; the theorems about what accepted systems find and in which order they start |
| `MCConstruction`, `TestConfigurations` | all small configurations; those of BuilderTest.cpp |
| `Pipeline`, `MCPipeline` | the Steps framework at work: threads, queues, start, stop and finish; five configurations, and two that show a disagreement |
| `PipelineInvariant`, `PipelineProofs` | where the messages of a pipeline are and in which order; the theorems about building, starting and finishing, then those about order and delivery |
| `Remainders` | lemmas on `%` and `\div` for the proofs |

### HighQueue

The variables are the shared fields of `HQHeader` (`readPosition`, `publishPosition`, `entries`, the two
locks, `producerWaiting`, `consumerWaiting`, `consumerPresent`), the fields of the `Producer` and `Consumer`
objects (`publishable`, `cached`), and for each thread a `pc` that names its next access to shared state
together with the locals that live across it. `published` and `consumed` are histories; no action reads them.

`publish()` has two code paths, and so has the model: `CanSolo` takes `TestStopping` and `waitToPublish`,
otherwise `Acquire` takes the spin lock, and `Unguard`/`Leave` release and retake it around a wait.
`canPublish()` is one operation with three callers; `caller` says where it returns to (`WhenTrue`, `WhenFalse`).
`getNext()` calls `tryGetNext()` from four places, `ccaller` says which. The numbers of spins, yields and
sleeps of a `WaitStrategy` are one count; `FOREVER` is a count that does not fall. Timeouts are
nondeterministic where `MayTimeOut` allows them. A section under `waitMutex_` that neither blocks nor reads
unprotected state twice is one action.

`canSolo()` is a constant with `SoloAssumption` (at most one producer): that the framework establishes it, by
calling `willProduce()` for every producer before the first Producer is constructed, is `SoloEstablished` of `Pipeline`,
and of the programs without the framework `NobodyFails` of `Programs`.

Outside the model: weaker memory orders (the positions are `std::atomic` with the default order, the
flags are treated in the same way), spurious wakeups, the status `SKIP`, which no code assigns, the second
Consumer whose constructor throws, `reservePosition_`, which nobody reads, positions beyond 2^64, statistics.

The application decides when to construct a Consumer, to call `getNext()` or `tryGetNext()` and to destroy the Consumer, which it may do between any
two calls (`ConsumerCalls`); only what goes on inside a call is `ConsumerStep`.

What TLC finds against the documentation, each in a configuration of its own (section 5), besides the run `both_wait`:
- `stop_producer`: `Producer::stop()` ("Cancel the outstanding publish and stop publishing", Producer.hpp:44) does not cancel every
  `publish()`: `stopping_` is tested at Producer.cpp:94 (multi: 221) and not again under `waitMutex_` before the wait at 130. A whole `stop()`
  in between notifies nobody, and the producer goes to sleep afterwards until the consumer makes room or the wait times out.
- `stop_consumer`: `Consumer::stop()` can fall between the test of `stopping_` (Consumer.cpp:103) and the wait (145) in the same way; the
  consumer then sleeps until its wait times out, and throws.
- `discard_race`: a discarding producer stores `readPosition_` (Producer.cpp:78) after it saw that no consumer is present; a consumer that attaches
  meanwhile increments the same position (Consumer.cpp:49). A step back, or one past `publishPosition_`, breaks `Window`, and the consumer takes an
  entry without a message (`FetchFindsMessage`). The ring invariant and what follows from it are therefore stated without the option.
- `discard_timeout`: a producer with the option sleeps on the full queue, the Consumer leaves and notifies nobody; when the wait times out,
  only the positions are looked at, and `publish()` throws instead of discarding (Producer.cpp:135-143).

One observation that no run states: `publish()` throws when its wait times out, although Producer.hpp:33-34 says that it waits until there is room; the
abstract queue excuses a producer that timed out.

### MemoryPool

The address of the pool is only known modulo the cache line (`base`). `memory` is the first word of each block: a link while
the block is free, `Data` when its holder has written to it. `TryAllocate`/`Release` start a call for a message that no other
thread uses; `Acquire`, `ReadRoot`, `Pop`, `Link`, `Push`, `Unlock` are its accesses under the spin lock. `MoveTo` swaps two
messages' blocks, also when one of them has none. `free` is a history: the order of the list.

Outside: `numberOfAllocations_`, which is incremented outside the lock (MemoryPool.cpp:24) and read by a trace message only; the
destruction of the pool while messages hold blocks.

### Messages

A message is a record of its block, `used`, `read` and `type` (standing for type, timestamp and sequence); `memory` holds the objects of each
block, which stay there when the message is emptied or moved. An operation is one step, as a message belongs to one thread at a time; one
that throws (beyond the capacity, beyond what is used) has no step. `Swapped` is `moveTo()`: the blocks change places, the target takes offsets
and labels, the source's are reset. `Allocate` and `Release` say what the constructor, `allocate()` and `release()` do to `used_` and `read_`
(`read_` is not reset: a later message can start with a `read_` beyond its `used_`, which `ContentsType` does not need and `Reading` of `MessageValues` allows).

Outside: the destructors of the objects in a message; `destroyBack()` (Message.hpp:467-479), which is called by nobody. `destroy()` is to set "read position and
used position" to zero (Message.hpp:190-192) and leaves both. `toText()` of a type tests its bound with a comma where a comparison is meant (Message.cpp:76).

### Programs

A program is a value chosen in `Init`: its kind, the numbers of producers, copying threads, queue entries and messages, and the way of
copying. `StartThread` to `PublishLast` are `producerFunction` (with `Fill` and `Add` where it batches), `CopyGet`, `Copy`, `Pass` are `copyFunction`,
the rest is main: it creates queues and messages (`Create`), lets all threads go at once (`ReleaseThreads`), consumes and joins, in `rounds` with one
producer more each time. A queue is the bounded FIFO queue that `HighQueue` implements; its entries are messages, and all blocks really move.
`SearchOn` and `SearchFinds` are `MultiQueueConsumer::getNext()`: each search starts from the first queue, since `consumerPos_` is never advanced
(MultiQueueConsumer.cpp:53). `PoolSizeOf` is the size each program computes for its pool: a sum in those with threads, the entries and `Spare` more (10 in BasicPerformaceTest.cpp)
in those without. The kind `user` is no program of the
repository but any user of two messages: every operation in every order.

Outside: timing, statistics, formatted output, `stop()` and the waits of `MultiQueueConsumer`, which nobody uses. Two remarks: BOOST_CHECK_EQUAL in
the programs compares `messageNumber` with its copy in the message, and the programs reset `producerGo` only after the join.

### OrderedMerge

`handle()` is called by one thread at a time. A call starts with the action for the branch it takes (`ArrivedInOrder`,
`Previous`, `Stash`, `DuplicateStash`, `Future`, `HeartbeatAfterProgress`, `HeartbeatWithoutProgress`, `Shutdown`); each
further action is one iteration of a loop (`Drain`, `HeartbeatClosesGap`, `ShutdownClosesGap`, ...). A message is its
sequence number. The histories `out`, `received` and `overrun` record what was sent, what came and was not
ancient, and whether a message ever came from beyond the window.

Beyond the window the code does not do what it should: the loop at OrderedMerge.cpp:217, which is to make room, runs while the message is
*inside* the window, where this branch is never taken. The message replaces the one in its slot, and `publishPendingMessages()` sends it as if it
were the expected one: with a window of 3 the output 0, 1, 5, 3 is possible from a step that is registered as "Merge streams of messages, sorting,
eliminating duplicates, identifying gaps." (OrderedMerge.cpp:17). The configuration `overrun` finds it (`Increasing`). Everything else that depends on the window is therefore stated with `overrun \/ ...`;
`ShutdownFlushes` and the type invariant hold in any case, and `Recovered` of `Streams` says how large a window keeps the case away. After an
overrun a heartbeat may also never return: with a window of 3, message 1 expected and message 6 in slot 0, the loop skips to 3, sends 6, expects 4 and
finds nothing, while the highest number stashed is 6. A number skipped with a gap is later "already seen", and is not counted in `received`. A gap is
skipped without notice: `publishGapMessage()` (OrderedMerge.cpp:263-270) builds a Gap message and nobody sends it, so that the model has none.
The numbers are not bounded: after 2^32 messages the expected number wraps, and 0 means "no message yet" (OrderedMerge.cpp:176).

### Streams

The system of `testMulticastArbitrage.json`. The producer's thread (`Produce`) sends each message first to the Shuffler (`Shuffle`), then to the Leaker (`Leak`), and both
to a MulticastSender; its shutdown flushes the deck, one message per step (`FlushDeck`), and goes no further, as MulticastSender ignores it. The network is
external and of one of two kinds, chosen in `Init`: `reliable` delivers each stream's packets in order and keeps at most `MaxInFlight` of them on the way;
`lossy` delivers any packet that was ever sent, any number of times, or none, and reports errors. The AsioService's thread receives (`ReceiveNext`,
`ReceiveAny`), and publishes to the queue; it waits there while the queue is full. The queue's thread runs an instance of `OrderedMerge`. `givenUp` is a
history of the numbers that an overdue heartbeat has skipped.

The Shuffler is registered as "send messages out of order" (Shuffler.cpp:18), and does not before its flush: `position_` grows by a constant, so that it delays
all messages by the same number of others. The configuration `shuffle` finds the disagreement (`SendsOutOfOrder`) and `NeverShufflesCorrect` proves that it is so for every deck
and every prime; the reordering that the merge sees is between the two streams, and in the flush. That the deck is the "maximum distance moved" (Shuffler.cpp:37) is true,
the flush included (`WithinDeck`).

Observations: The Leaker also drops heartbeats and shutdowns unless it is told to count them
(Leaker.cpp:44-45). After an error a MulticastReceiver never reads again (MulticastReceiver.cpp:168). The Leaker of the test configuration
leaks the very first message, which the Shuffler's stream delivers late: the merge, which takes the first message it sees as the first one expected, then
drops it; the run uses an offset that does not leak it, as testArbitrage.json does. A flush sends the deck slot by slot, so that with no more messages
than the deck holds a later message can come first, to the same effect. `FirstComesFirst` is what excludes both.

### Construction

A configuration is a tree of nodes with a key, a value and children, as `ConfigurationNode` gives it to the Builder; numbers that cannot be read are
`Unreadable`. `Nodes` are all nodes of the configurations. `queues` maps each name to the step that has it. `stack` holds the nested calls of `construct`, `constructPipe` and `configure` with the nodes each has yet to read. `AddStep` is what
follows a step's `configure()`: its requests, its queue's name, its place in `steps_`, and its attachment to the step before it. `CreateResources`, `AttachResources`, `Validate`
and `StartStep` go through the steps as `SharedResources` does. `Reads`, `MessagesRequested`, `MessagesTaken` and `Valid` are the methods of the step classes.

Addresses are checked where the code does: `Address::from_string` throws for the group, and for the interfaces that a receiver listens on and binds to and a sender binds to, if they are given (`ChoosesInterface`).
A live system has what its steps take (`Equipped`), in particular each `send_to_queue` the queue that it names (`QueueFound`), but not all that the life cycle in Step.hpp
promises. Two disagreements have configurations of their own (section 5):
- `no_destination`: AsioStep and AsioStepToMessage build the exception for a missing service and do not throw it (AsioStepToMessage.cpp:36), and they do not call
  validate() of their base class: a heartbeat or receiver without a destination goes live, although "if errors are detected, the Step should throw" (Step.hpp:45-49).
- `nested_source`: a source with a nested pipe is added after that pipe's steps (Builder.cpp:104), and so started before them, against Step.hpp:51-59; `StartsLast` excepts it.

Further observations, on what is accepted:
- `produder_wait_strategy` (InputQueue.cpp:19) is the key of the producer's wait strategy; `producer_wait_strategy` is rejected.
- A source in the middle of a pipe is accepted; its `handle()` throws at the first message.
- A consumer's unreadable `message_count` counts as 0; a producer's of 2^32-1 counts as missing. `entry_count` and `look_ahead` may be 0, and the
  modulo at OrderedMerge.cpp:197 then has no result.
- Two queues may have the same name; the later one takes it over (SharedResources.cpp:56).
- The copying steps do not request the size of what they copy.
- `discard_messages_if_no_consumer` is read and stored, and `createLocal()` is given other parameters (InputQueue.cpp:81, 176): no queue ever discards.
- The first step that throws in `start()` leaves the threads of the others running (SharedResources.cpp:119).
- `testArbitrage.json` has keys that are not read (`interval`, `entries`) and a leaker without a name: it is rejected.
- Stopper, Tee, ForwardPassThru and TestMessageAnalyzer as the last step of a pipe are accepted, and call a null destination (Stopper.cpp:128); a Tee whose
  output is "null" drops its messages (Tee.cpp:81).

### Pipeline

A configuration is a value chosen in `Init`: its pipes, the pipes nested in a step as "destination", and the kind and parameters of each step;
one run can so cover several. `Added` is the order in which `constructPipe` adds the steps, `Attached` what it
attaches; `Constructed` is what `validate()` has made sure of by then, and assumed of every configuration. The application's
thread (`place`, `next`) constructs, starts the steps from the last to the first, waits or stops, and finishes. A step's thread has a loop (`run`) and a `stack` with
the calls of `handle()` it is in: `Pass`, `Stopper`, `Consume` and the publishing actions are the bodies up to the first `send`, `Send` is the call of the next
destination, `Return` the end of a call. `SharedResources::stop()` (`StopService`, one `StopStep` per step, `StopNotify`) runs in the thread that calls it, with
other threads between its steps. A null `producer_` or `timer_` that is used makes `place` "crashed".

The queues are abstract: `publish()` puts a message in at the end when there is room, waits, or gives up when it is stopped; `getNext()` takes the first one or
is stopped. That is what `HighQueue` implements: its runs show that a message goes in once (`ImplementsFifo`) and that stopped calls end (`StoppedPublishEnds`,
`StoppedGetNextEnds`). A consumer that misses its notification wakes by its timeout, which ends the thread too. Copies of a message are the message; a
consumer's history `received` holds what it was handed.

Outside: several asio threads, `pause()`, exceptions during `start()`, the counts of heartbeats and data messages in Stopper (like that of shutdowns), steps that
sort, drop or shuffle.

Two configurations of section 5 are excluded by the theorems; TLC finds a property violated in each.
- `shared_relay` (`NothingLost`): a `send_to_queue` stops its Producer at the first Shutdown; in a relay behind two producers the second one's messages
  are lost (SendToQueue.cpp:92). `Unshared` excludes it.
- `early_stop` (`StartedBeforeStopped`): a Stopper that reaches its count before `start()` is over stops steps that are started afterwards; a HeartbeatProducer
  among them has no `timer_` yet (HeartbeatProducer.cpp:88). `HeartbeatsUnstopped` excludes it.

A source with a nested pipe is started before that pipe's steps (section Construction); `SourcesFirst` excludes it here.

## 3. Runs

The longest runs, `multi`, `pipelines` and `construction`, take two to three minutes, the others less than two.

| Run | Instance | Question and result |
|---|---|---|
| `multi` | 2 producers that poll once, then sleep, may time out; one may be stopped; 1 entry, 2 messages each | the positions and entries stay intact (`Window`, `NoEntryRace`), no producer misses its wakeup, and `ImplementsFifo`: every call of `publish()` puts its message in exactly once |
| `consumer_waits` | the consumer sleeps, may time out; 2 producers poll | no lost wakeup of the consumer, every message is delivered |
| `solo` | the solo path, timeouts, `stop()` of both sides, 2 entries, 2 Consumers in turn, or none for good | refinement of the queue; stopped calls end |
| `discard` | 3 producers, 1 entry, discard option, 2 Consumers in turn that may stop reading or leave at any time | no position skipped (`PublishByOne`); every `publish()` returns unless a Consumer stays that the application never asks again (`PublishReturns`) |
| `both_wait` | solo, both strategies with mutex | **violated**: `getNext()` holds `waitMutex_` when it locks it again |
| `pool` | 2 threads, 4 messages, 2 promised blocks, every alignment | the free list and the ownership of blocks, allocation fails only when it may, refinement of `BlockPool` |
| `programs` | 14 programs: 6 kinds of one or two threads, pipelines with one copying thread (each way of copying) and with two, batched ones; 1 or 2 entries, 2 to 5 messages; two messages of a user | messages are values (`ImplementsValues`), each producer's objects come out in order and complete, no thread fails for lack of a block or room, every program ends |
| `merge` | window 3, numbers 0..6, 2 heartbeats of delay | sorted output, nothing lost, `handle()` returns, heartbeats release the stash, a shutdown flushes it |
| `streams` | 5 messages, a deck of 2 with prime 101, one message in three leaks, window 3, a queue of 1 entry, both kinds of network | the Shuffler keeps every message (`DeckKept`) and moves none farther than its deck is large (`WithinDeck`); the merge makes one complete, sorted stream of the two (`Recovered`); every message arrives or is given up by a heartbeat (`Arrives`) |
| `construction` | every configuration of one pipe of up to 2 nodes, or 3 right ones, of two pipes of up to 2 nodes, and of pipes nested below a source or fan_out; the five of BuilderTest.cpp | every step of a live system finds its messages, service and queue (`Equipped`), each `send_to_queue` the last queue of its name wherever it is described (`QueueFound`), sources start after what they send to (`StartsLast`) |
| `pipelines` | the five configurations of `MCPipeline`: round_robin with a nested pipe, two producers with a stopper, heartbeats, timeouts, a relay with a fan_out; queues of 1 or 2 entries, 1 to 3 messages | no step is called before its start, a solo Producer is alone, messages arrive in order, once, none lost until a stop; every `stop()` leads to a `finish()` that returns, and then nothing moves; every shutdown arrives |
| `heartbeat_start` | heartbeats and a producer | **violated**: the asio thread can end before the timer is set |

Invariants that the theorems of section 4 give for all instances are not checked by a run again: `LockInv`, `RingInv`, `WakeupInv`, `Fifo`, `FetchFindsMessage`,
`SpinLockExclusion`, `Leaving`, `MergeInv`, `Layout`, `StreamsInv`, `ProgramsInv`, `OrderInv`, `Open`, `TrackInv` and most type invariants. `InOrderInv` of the programs
says that there is a history of what has been sent, which TLC cannot look for: it has been checked with the history as a variable of its own, and is then proved.

Bounds. `MaxMessages` bounds the calls of each producer and `MaxAttach` the Consumers; with one or two entries four messages go
at least twice around the ring, so every entry is reused, every cached limit gets old, and full and empty queues occur.
One entry is the hardest case: every second access waits. The positions grow from `EntryCount` as in the code. In
`merge` the numbers 0..6 exceed twice the window, so that each slot is used for two or three numbers and messages come from
before, within and beyond it. In `pool` the unit of size is a third of the header: with a cache line of 2 there are three or
four blocks for both alignments, and more messages than blocks. The symmetry of `pool` (threads, messages) is used for safety only.
In `programs` nine blocks are as many as the largest program asks for, and each program gets only as many as `PoolSizeOf` says, with a `Spare` of 3 in the place of 10
(main has two messages at most); a message holds two objects, one more than
most programs put in, so that a copy can overflow. In `streams` the deck is passed through more than twice, and the window
`LookAhead = DeckSize + MaxInFlight` is the smallest for which `Recovered` is stated. `construction` has integers of 2
and 3 bits in the place of 16 and 32, so that values wrap.

`CHECK_DEADLOCK FALSE` is set where a run may stop: all messages are published, a call has thrown, the last Consumer has left, a program is done, a system is live or rejected, or (in
`both_wait`) the bug. In `multi` and `consumer_waits` the threads end in `threw` after a timeout, in `solo` and `discard` nobody need read any more; in `pipelines` an application that nobody stops waits for ever.

Fairness. `Fairness` of HighQueue: a thread that is inside a call and can take its next step takes it in the end (weak fairness of `ProducerStep`,
`ConsumerStep`), and a `stop()` that has begun goes on. This is what the operating system's scheduler gives. Nothing is assumed about when, or whether, the application
calls `publish()`, `stop()`, `getNext()` or `tryGetNext()`, constructs a Consumer or destroys it. That every message is delivered is nothing the
scheduler gives: `consumer_waits` and `both_wait` assume in `ReadingSpec` that the application keeps asking while it has a Consumer or may construct one, and excuse a last Consumer that
is destroyed. `discard` needs no such assumption: its producers return without any reader. `TimelySpec` adds that a wait with a timeout times out if nobody notifies it (`wait_for`); `solo` needs it,
because of the interleaving of `Producer::stop()` in section HighQueue. Weak fairness does not guarantee the spin lock to a thread: with a consumer that is gone and a
producer that polls for ever, another producer need never get it. `StoppedPublishEnds` is therefore checked for the solo path only.
Pipeline: each thread goes on (`WF` of `Turn(t)`); nothing is assumed of the clock (heartbeats, timeouts) and of the application's `stop()`.
Programs: each thread and main go on; that a queue which is always busy does not keep `MultiQueueConsumer` from the others follows from the finite number of
messages. OrderedMerge: a call goes on (`WF` of `Finish`), and heartbeats keep coming between whatever other messages (`SF` of `HandleHeartbeat`:
the calls are serialised, so that heartbeats are enabled again and again, not always); the timer that sends them runs independently of the streams.
Streams: the producer's and the queue's thread go on; the one AsioService thread serves the timer and both sockets, each of them ready again and again between the waits for
room in the queue (`SF` of `SendHeartbeat` and of `ReceiveNext`); nothing is assumed of the lossy network. Construction is sequential and has no liveness property.

## 4. Proofs

| Theorem | For all values of the constants |
|---|---|
| `TypeCorrect` | `Spec => []TypeOK` of HighQueue |
| `LockCorrect`, `ExclusionCorrect`, `PublishByOneCorrect` | `LockInv`, `SpinLockExclusion`, `PublishByOne`, with the discard option too |
| `RingCorrect`, `WindowCorrect`, `NoEntryRaceCorrect`, `FetchFindsMessageCorrect`, `FifoCorrect` | without the discard option |
| `WakeupInvCorrect`, `NoLostConsumerWakeupCorrect`, `NoLostProducerWakeupCorrect` | without the discard option, any pair of wait strategies |
| `ImplementsFifoCorrect` | without the discard option: the refinement of `FifoQueue`, for any number of producers, entries, messages and any wait strategies |
| `MergeTypeCorrect`, `MergeInvCorrect`, `SortedCorrect`, `NothingLostCorrect`, `ShutdownFlushesCorrect` | any window, any set of sequence numbers |
| `PoolTypeCorrect`, `PoolInvCorrect`, `LayoutCorrect`, `FailsWhenEmptyCorrect`, `PoolCorrect` | any number of threads, messages and blocks, any alignment; `PoolCorrect` is the refinement of `BlockPool` |
| `MessagesInvCorrect`, `ImplementsValuesCorrect` | any number of messages and blocks, any capacity; the second is the refinement of `MessageValues` |
| `ProgramsTypeCorrect`, `NobodyFailsCorrect`, `ProgramsUseMessages`, `ProgramsImplementCorrect` | any set of programs that `WellFormed` describes, with enough names, objects and blocks for them, a block having room for an object, and a `Spare` of at least 2; the last two are that a program uses messages as `MessagesSpec` allows, and so implements `MessageValues` |
| `ProgramsInOrderCorrect` | the same programs: `InOrder`, for any number of producers, copying threads, entries, rounds and objects, and every way of copying |
| `PipelineTypeCorrect`, `SoloEstablishedCorrect`, `QuietAfterFinishCorrect` | any set of configurations that `WellFormed` and `Constructed` describe |
| `StartedBeforeHandleCorrect` | of these, those that are `Orderly`: sources come before what their messages reach, and no stopper is there together with a heartbeat |
| `OrderCorrect` | `OrderInv`, for the configurations in which messages take one way (`OneWay`) |
| `InOrderCorrect`, `PipelineNothingLostCorrect`, `DeliveryCorrect` | of these, those in which no `send_to_queue` serves a producer and another source (`Unshared`) |
| `DeckKeptCorrect`, `WithinDeckCorrect`, `NeverShufflesCorrect` | any deck size, any prime, any number of messages, either network; the last one is that before the flush the packets are in order |
| `EquippedCorrect`, `StartsLastCorrect`, `QueueFoundCorrect` | any set of configurations whose values are numbers, unreadable or "forever", nested to any depth |
| `RecoveredCorrect` | any deck, prime, leak, queue, number of messages and of packets on the way, for which `FirstComesFirst` holds: the Leaker lets the first message pass, and there are more messages than the deck holds |

*HighQueue.* `Fifo` alone is not inductive: what the consumer takes next depends on what the entries hold. `LockInv` comes first:
one producer at a time, whose `position` is `publishPosition_` as long as it relies on it (`Current`, `Positions`). `RingInv` adds that cached positions
are old but never wrong (`Caches`), that a producer past `canPublish` has room (`Room`), that the consumer past its test has a message (`Reading`),
that positions count messages (`Counts`), and that the entries from `readPosition` to `publishPosition` hold the published messages (`Waiting`, `Stored`). The one
arithmetical fact is `SlotsDiffer` in `Remainders`: two positions less than `EntryCount` apart have different slots. Assumptions: those named in
`HighQueue`, and `~DiscardMessages` for the ring theorems; `Window` is false with the option (section HighQueue).

*Wakeups.* That nobody sleeps through a notification rests on who holds `waitMutex_` (`MutexExclusion`; a strategy without the mutex never gets near it) and on the flags:
set with the mutex held before the wait lets go of it, taken back only by who wakes the sleeper (`Flagged`). Who sleeps, or is about to with the mutex held, has nothing to wake
up for, or the other side has moved its position and is still before its test of the flag (`ProducersSleep`, `ConsumerSleeps`). Part by part this is inductive together with `RingInv`.

*The queue.* `RingInv` says where the published messages are that are not consumed yet, so that under the mapping the queue is the history's `Remaining` part
(`EntriesHold`): `StorePublishPosition` appends to it, `Fetch` takes its head, and nothing else changes it (`RingStep`). That an abandoned call was entitled to it needs `Leaving` besides:
a producer that leaves `publish()` with its message has seen `stopping_`, or a timeout, and neither is taken back. `RemainingGrows` and `RemainingShrinks` are the facts about sequences behind it.

*OrderedMerge.* `Sorted` needs `WindowInv`: each stashed number is in its own slot and at most a window ahead, so that the slot of the expected
number holds nothing else, and skipping to the first occupied slot skips no stashed message. `ShutdownFlushes` needs only that
`look_ahead` successive numbers hit every slot (`SlotsCovered`).

*MemoryPool.* `List` ties the links in memory to the history `free`, `Conservation` makes `free` exactly the blocks that no message holds. Together with
the exclusion by the lock and what each thread knows between its accesses (`Progress`) they are inductive. `FailsWhenEmpty` follows by counting: with
`Conservation` an empty list means that every block has a holder, and `spaceNeeded()` gives at least `MessageCount` blocks wherever the pool is.

*Messages.* `MessagesInv` (types and `NoSharing`) is inductive as it stands. The refinement maps a message to the objects up to its `used`: a step on one message
writes into its own block only, beyond which `NoSharing` keeps all others' contents (`Others`), and `MoveTo` changes which block a message looks at but not what it sees.

*Programs.* A thread fails if the pool is empty when it constructs a message, or if a copy does not fit. Neither follows from what the thread has seen: the blocks are anywhere.
`Held` says that only the program's own messages have blocks, and `InUseCount` that those are no more than `PoolSizeOf`: a message that has none leaves one in the pool (`BlockLeft`). A block is moved to and
fro, but who is past his construction has one in each message, as has each entry (`Supplied`), so that `publish()` and `getNext()` change who has which block and never who has one (`Holding`). The copy in
`BinaryCopy` begins empty because publishing left the block of the entry and no objects (`CopyFits`). That only one Producer is solo rests on the rounds: the second producer of a queue starts when the first
has ended, and `expected` counts both (`Rounds`). A step touches the messages of its thread and of the entries, so that the other threads' parts stay (`Apart`, `Touching`).

*The order in a program.* `InOrder` is about what main has consumed, and no variable says what has been sent: published messages are moved on, and forgotten. `InOrderInv` says that there is a history
`sent` that explains the state (`Flow`). In it every message of a lane, the queue that a producer publishes to, brings the next objects of their producers (`Ordered`, by `Follow`), and an empty message comes only
when all has been sent; the queues hold what has been sent and not been taken (`Queued`), copying threads hand on in the same order and without a gap (`HandedBy`: the message in a copying thread's hands
is the one between what it has taken and what it has written), who sends has sent all up to what is in his hand (`SentBy`), and main has what has left the last queues (`Collected`). Publishing by a producer
extends the history (`SendFlow`, with `SentMore` for the witness), every other step keeps it: messages of different threads are different (`Apart`), and so are two entries in use of one queue
(`EntriesDiffer`). The order is then what `Collecting` says. That it is complete when main stops is counting (`AllCollected`): objects that follow one another are all different, so
that `Total` of them, each of a producer of the round, are all of them (`Counting` has the number of objects be main's `number`; for this no message may be empty but the last, `EnoughCollected`). Between the rounds
the queues are empty (`NothingLeft`: what is still there could only follow what is complete), so that the next round begins with an empty history (`FreshFlow`). What
`testPublishConsumeSeparately` publishes after it has consumed everything is not consumed any more (`Again`).

*Construction.* `Equipped` says that what was requested step by step is what is taken later, from one pool. `SumsInv` keeps the sums of the requests of the first steps (`IsSum`), which
`AddStep` continues: while resources are attached the pool has what the steps still to come have asked for, so that it is never short, and empty after the last one. A step takes as many messages
as it requested because `configureParameter()` has let only numbers through (`RequestFacts`; `Walk` keeps for each call of `configure()` that it has accepted what it has read). A
`send_to_queue` has what `findQueue()` gave it, which `validate()` has found not to be null (`Searched`, `Found`). `StartsLast` rests on the order in which steps are made: `attachDestination()`
attaches only a step to one made before (`Walk`: what is attached next is older than what is configured), so that what a step's messages reach was made after it, and only
a step with a pipe of its own is added after a younger one (`AddedInv`). As `start()` goes backwards, all that is younger has been started. The steps that are
made and not yet added are those in the calls of `configure()` in progress (`Walk`); when only the root is left on the stack, there are none (`CreateResourcesStep`). `QueueFound` needs that the table of queues is right in every state (`QueuesInv`): each name has the last `input_queue` added with it,
which `addQueue()` replaces (`AddStepQueues`) and nobody removes; `findQueue()` is called when no step is added any more.

*Streams.* `DeckKept` and `NeverShuffles` say nothing of where in the deck a message is. `ShufflerInv` does: each slot holds the last message that was given it (`Latest`), and each message sent
has had a successor in its slot (`Overtaken`). A message and its successor in the slot are the same number of messages apart wherever the message is in the
stream (`SameDelay`, by `SameDistance` on remainders), so that the message that is replaced now, the oldest of its slot, comes after all that have been sent (`ReplacedIsNext`).
`WithinDeck` follows from the delay (next paragraph): what a deck behind the last message is has its own place, the others are the last ones of both sequences and no more than the deck holds (`DelayGives`).

*The merged stream.* `Recovered` is about what the merge has done, and follows from how far one stream can be ahead of the other. Until the flush the Shuffler's packets are the numbers
from 0 on without a gap (`Consecutive`, by `ReplacedFollows`), and a message is in the deck only until `DeckSize` later ones have come (`LateFollows`, as the slots repeat after as many: `SlotAgain`);
both survive the flush as `Late`. So when a packet of either stream arrives, what is a deck behind it has been sent, all but `MaxInFlight` of that has arrived, and what is
a window behind it is in the queue, in the stash or done with (`DueArrived`). `InReach` says this of each entry of the queue, so that the number taken next is within the window: otherwise
the expected one would be stashed, which `WindowInv` excludes (`NextInReach`). With the first message first, the merge starts at 0; it then never takes the branch `Future`, and
each of its steps sends, stashes or has had what it is given (`DataKeeps`, `FinishKeeps`), while only a heartbeat passes what it has not sent (`Passed`). `FirstComesFirst` is evaluated for the run's
instance (`FirstAssumption`); with as many messages as the deck holds TLC finds `Recovered` violated.

*Pipeline.* `BuildInv` has the types, what the Builder left behind (`Built`), and that a thread which does not run is in no call (`Idle`). Whether a thread's
calls stay among certain steps is shown once, for every set of steps that is `Closed` under what they send to (`StacksStep`): with all steps it gives the types, with
those behind a source that has been started (`Supplied`) it gives `StartedBeforeHandle`, as `start()` goes from the last step to the first (`Upward`). `Joining` is the loop
of `finish()`. The condition `Orderly` is evaluated for the five configurations (`OrderAssumption`); without it the property is false.

*The order in a pipeline.* `InOrder` and `NothingLost` speak of what a consumer has received, which says nothing about the messages under way. `OrderInv` does, and needs no induction over
ways, because `Reached` is defined as the smallest closed set. A thread has only such calls open as are behind its source (`Threading`), no two of which lead to the same step (`Apart`: the
ways are a tree, `OneWay`). So what is behind a step that a message has yet to reach was sent before it (`Ordered`), and numbers below the source's count are all there are (`Counted`).
Each action either leaves a message where it was, moves it to the next step, hands it out, puts it into a queue or takes it from one (`Effects`), and each of these keeps the order.
For delivery, `Open` says that until `SharedResources::stop()` no Producer is stopped that a message has yet to pass, and `TrackInv` that each message sent is still there for every consumer that
it can reach (`There`): with all steps as targets it gives `NothingLost`, with one consumer as target it gives the part of `InOrder` that there is no gap. Where two ways meet again, a
message would arrive twice; where a stopped `send_to_queue` serves another source too, its messages are lost: that is what `OneWay` and `Unshared` exclude. Both are evaluated for the five
configurations (`WayAssumption`).

*Only model-checked.* Liveness (`EveryMessageDelivered`, `StoppedPublishEnds`, `StoppedGetNextEnds`, `PublishReturns`, `HandleReturns`, `StashIsSent`, `ShutsDown`, `ShutdownArrives`,
`Ends`, `Arrives`), which is out of reach of the prover.

## 5. Disagreements between code and documentation

Each row is a property that says what the documentation says, and a configuration in which TLC finds it violated by what the code does: the two runs first, then ten small configurations
that are kept for the counterexample (`tlc -config stop_producer.cfg MCHighQueue` and so on), each of a few seconds.

| Configuration | Instance | Property | The documentation | The code |
|---|---|---|---|---|
| `both_wait` (MCHighQueue) | solo, both strategies with mutex | `EveryMessageDelivered` | "Get the next message-full of data. Wait if none is available", Consumer.hpp:38 | `getNext()` deadlocks with itself (Consumer.cpp:140, 53) |
| `heartbeat_start` (MCPipeline) | heartbeats and a producer | `HeartbeatsServed` | "run the event loop in this thread" ... "The event loop continues.", AsioService.hpp:26-28 | the asio threads run before they have work (SharedResources.cpp:115, AsioService.cpp:73-77) |
| `stop_producer` (MCHighQueue) | one producer that sleeps, one entry | `StopCancelsPublish` | "Cancel the outstanding publish and stop publishing", Producer.hpp:44 | a `stop()` between the test of `stopping_` and the wait is missed (Producer.cpp:94 to 135) |
| `stop_consumer` (MCHighQueue) | a consumer that sleeps | `StopEndsGetNext` | "stop receiving messages.", Consumer.hpp:52 | the same of the consumer (Consumer.cpp:103 to 145) |
| `discard_race` (MCHighQueue) | a producer that discards, a Consumer that attaches, 2 entries | `FetchFindsMessage` | "true if the message now contains data", Consumer.hpp:35 | the producer overwrites the position of a Consumer that has attached (Producer.cpp:75-78) |
| `discard_timeout` (MCHighQueue) | a producer that discards and may sleep, a Consumer that leaves | `ThrowsOnlyIfConsumed` | "when the queue is full and no consumer is available messages will be discarded", HQHeader.hpp:36 | who has slept throws where he should discard (Producer.cpp:135-143) |
| `overrun` (MCOrderedMerge) | as in `merge` | `Increasing` | "Merge streams of messages, sorting, eliminating duplicates, identifying gaps.", OrderedMerge.cpp:17 | a message from beyond the window takes the place of another (OrderedMerge.cpp:217) |
| `shuffle` (MCStreams) | as in `streams` | `SendsOutOfOrder` | "send messages out of order", Shuffler.cpp:18 | the slots come in a fixed order, each message is as late as the others (Shuffler.cpp:135) |
| `nested_source` (MCConstruction) | a source alone, with a nested pipe, with steps behind it | `NothingSentEarly` | "After this call the step may generate messages for following steps", Step.hpp:53-54 | the nested pipe is added first, and started last (Builder.cpp:104-109) |
| `no_destination` (MCConstruction) | a heartbeat, receiver or producer at the end of a pipe | `SourcesHaveDestinations` | "all necessary attachments are available. If errors are detected, the Step should throw an exception", Step.hpp:46-48 | the exception is not thrown, the base class not asked (AsioStepToMessage.cpp:30-38) |
| `shared_relay` (MCPipeline) | two producers, a relay between two queues | `NothingLost` | "Send messages to an input queue defined elsewehere.", SendToQueue.cpp:15 | the first Shutdown stops the Producer of both streams (SendToQueue.cpp:92) |
| `early_stop` (MCPipeline) | heartbeats, a producer, a stopper that waits for one shutdown | `StartedBeforeStopped` | "5: Start" ... "9: Stop", Step.hpp:51-70 | `stop()` uses the `timer_` that only `start()` makes (HeartbeatProducer.cpp:88) |

That the Shuffler keeps the order of its messages is not only so for the deck of `shuffle.cfg`: `NeverShufflesCorrect` proves it for every deck and every prime.

Described above: the wait of `publish()` that throws (HighQueue), `destroy()` and `toText()` (Messages), the merge that never returns and the gaps that nobody hears of
(OrderedMerge), what else is accepted and should not be (Construction).

## 6. Plan

Done, in this order: HighQueue with its refinement and proofs, OrderedMerge, MemoryPool, Pipeline; Messages and Programs, Streams, Construction, the proofs of
Messages, Streams and Pipeline, of the programs, those of HighQueue's wakeups, of the order in a pipeline, of the refinement of `FifoQueue`, of the merged stream, of
`Construction`, and of the order in the programs. What could follow: `Pipeline` with several asio
threads and steps that start late; a composition of `Construction` and `Pipeline` over the same configurations.

Not modelled: sockets, logging, timing and statistics, Tee's and Console's input and output, the JSON parser (input and output without a protocol of
its own); `pause()` and `resume()` (no caller); a second Consumer of a queue, whose constructor throws; ConnectionTest, MemoryBlockAllocatorTest and SpinlockTest, which
assert about single calls; the programs of StepsPerformance, which are disabled and use interfaces that no longer exist; ThreadDispatcherPerformanceTest, which
runs on Windows only and uses none of this code.
