------------------------------ MODULE Streams ------------------------------
(***************************************************************************)
(* The system of src/TestData/testMulticastArbitrage.json: a producer fans *)
(* its messages out to two multicast streams, one through a Shuffler and   *)
(* one through a Leaker; two MulticastReceivers and a HeartbeatProducer    *)
(* feed a queue, from which OrderedMerge makes one stream again.           *)
(*                                                                         *)
(* Three threads: the producer's own, with everything up to the sockets;   *)
(* the AsioService's, from the sockets to the queue, and the queue's with  *)
(* the merge.  Nobody stops the steps here (Pipeline does).                *)
(***************************************************************************)
EXTENDS Integers, Sequences, FiniteSets, SequencesExt

CONSTANTS
    MessageCount,               \* bound: the messages of the producer
    DeckSize, Prime,            \* Shuffler: lookAhead_, prime_
    Every, Count, Offset,       \* Leaker: every_, count_, offset_
    LeakShutdowns,              \* Leaker: leakShutdowns_
    QueueSize,                  \* entry_count of the queue
    MaxInFlight,                \* bound: packets of a stream on a reliable network
    LookAhead, MaxDelayHeartbeats, Nothing, \* OrderedMerge
    Heartbeat                   \* a heartbeat in the queue

ASSUME ParametersAssumption ==
    /\ MessageCount \in Nat /\ DeckSize \in Nat \ {0} /\ Prime \in Nat
    /\ Every \in Nat \ {0} /\ Count \in Nat /\ Offset \in Nat /\ LeakShutdowns \in BOOLEAN
    /\ QueueSize \in Nat \ {0} /\ MaxInFlight \in Nat \ {0}
    /\ LookAhead \in Nat \ {0} /\ MaxDelayHeartbeats \in Nat
    /\ Heartbeat \notin Nat /\ Nothing \notin Nat

Numbers == 0 .. MessageCount - 1

VARIABLES
    network,            \* "reliable" or "lossy"
    produced, branch,   \* messages the producer has sent, the destination FanOut is at
    deck, position,     \* Shuffler: pendingMessages_, position_
    leakPosition,       \* Leaker: messageNumber_
    packets,            \* what each sender has put on the network, in this order
    delivered,          \* how many of them have been received, on a reliable network
    reading,            \* the receivers that wait for a packet
    queue,              \* the queue: numbers and heartbeats
    stash, expected, highest, heartbeatExpected, heartbeatHighest, heartbeatDelays,
    pc, caller, out, received, overrun,     \* OrderedMerge
    givenUp             \* history: the numbers that overdue heartbeats have given up

Merge == INSTANCE OrderedMerge
senderVars == <<produced, branch, deck, position, leakPosition, packets>>
receiverVars == <<delivered, reading>>
mergeVars == <<stash, expected, highest, heartbeatExpected, heartbeatHighest, heartbeatDelays,
               pc, caller, out, received, overrun>>
vars == <<network, senderVars, receiverVars, queue, mergeVars, givenUp>>
-----------------------------------------------------------------------------
Streams == {1, 2}
Slots == 0 .. DeckSize - 1

Init ==
    /\ network \in {"reliable", "lossy"}
    /\ produced = 0 /\ branch = 1
    /\ deck = [i \in Slots |-> Nothing] /\ position = 0
    /\ leakPosition = 0
    /\ packets = [s \in Streams |-> <<>>] /\ delivered = [s \in Streams |-> 0]
    /\ reading = Streams
    /\ queue = <<>>
    /\ Merge!Init
    /\ givenUp = {}
-----------------------------------------------------------------------------
(* The producer's thread: MockMessageProducer and FanOut *)

\* run() sends the messages, then a shutdown.
Producing == produced < MessageCount
ShuttingDown == produced = MessageCount
\* FanOut::handle: a copy for each destination, one after the other.
FanOutNext ==
    /\ branch' = 3 - branch
    /\ produced' = IF branch = 2 THEN produced + 1 ELSE produced

\* MulticastSender::handle ignores heartbeats and shutdowns.  A reliable network delivers
\* a packet before there are too many behind it.
SendPackets(s, numbers) ==
    /\ packets' = [packets EXCEPT ![s] = @ \o numbers]
    /\ network = "reliable" => Len(packets'[s]) - delivered[s] <= MaxInFlight

Advance == position + Prime
Index == Advance % DeckSize
\* Mutant: what was in its place is forgotten.
Replaced_None == <<>>
Replaced == IF deck[Index] = Nothing THEN <<>> ELSE <<deck[Index]>>
\* Mutant: sends the new message on and keeps the old one.
Shuffle_KeepsOld ==
    /\ Producing /\ branch = 1
    /\ SendPackets(1, IF deck[Index] = Nothing THEN <<>> ELSE <<produced>>)
    /\ deck' = [deck EXCEPT ![Index] = IF @ = Nothing THEN produced ELSE @]
    /\ position' = Advance
    /\ FanOutNext
    /\ UNCHANGED <<network, leakPosition, receiverVars, queue, mergeVars, givenUp>>
\* Shuffler::handleDataMessage: the message takes the place of one that is sent on.
Shuffle ==
    /\ Producing /\ branch = 1
    /\ SendPackets(1, Replaced)
    /\ deck' = [deck EXCEPT ![Index] = produced]
    /\ position' = Advance
    /\ FanOutNext
    /\ UNCHANGED <<network, leakPosition, receiverVars, queue, mergeVars, givenUp>>

\* Mutant: nothing is published before a shutdown.
Pending_None == {}
\* publishPendingMessages() sends what is in these slots.
Pending == {i \in Slots : deck[i] # Nothing}
\* Shuffler::handleShutdown, one message at a time.
FlushDeck ==
    /\ ShuttingDown /\ branch = 1
    /\ \E i \in Pending :
        /\ \A j \in Pending : i <= j
        /\ SendPackets(1, <<deck[i]>>)
        /\ deck' = [deck EXCEPT ![i] = Nothing]
    /\ UNCHANGED <<network, produced, branch, position, leakPosition, receiverVars, queue, mergeVars, givenUp>>
ShuffleShutdown ==
    /\ ShuttingDown /\ branch = 1 /\ Pending = {}
    /\ FanOutNext
    /\ UNCHANGED <<network, deck, position, leakPosition, packets, receiverVars, queue, mergeVars, givenUp>>

\* Mutant: without the offset, and before counting: leaks the first message of all.
Leaks_First == leakPosition % Every < Count
Leaks == (leakPosition + 1 + Offset) % Every < Count
\* Leaker::handle
Leak ==
    /\ Producing /\ branch = 2
    /\ leakPosition' = leakPosition + 1
    /\ SendPackets(2, IF Leaks THEN <<>> ELSE <<produced>>)
    /\ FanOutNext
    /\ UNCHANGED <<network, deck, position, receiverVars, queue, mergeVars, givenUp>>
\* A shutdown that must not leak is not sent on at all; the sender would ignore it.
LeakShutdown ==
    /\ ShuttingDown /\ branch = 2
    /\ leakPosition' = IF LeakShutdowns THEN leakPosition + 1 ELSE leakPosition
    /\ FanOutNext
    /\ UNCHANGED <<network, deck, position, packets, receiverVars, queue, mergeVars, givenUp>>
-----------------------------------------------------------------------------
(* The AsioService's thread: MulticastReceiver, MockMessageAnalyzer, SendToQueue *)

HasRoom == Len(queue) < QueueSize
\* publish() waits for room; until then the thread serves nobody else.
Enqueue(entry) ==
    /\ HasRoom
    /\ queue' = Append(queue, entry)

\* handleReceive() of a packet: the analyzer finds its number, and startRead() follows.
Receive(s, i) ==
    /\ s \in reading
    /\ Enqueue(packets[s][i])
    /\ UNCHANGED <<network, senderVars, reading, mergeVars, givenUp>>
ReceiveNext(s) ==
    /\ network = "reliable" /\ delivered[s] < Len(packets[s])
    /\ Receive(s, delivered[s] + 1)
    /\ delivered' = [delivered EXCEPT ![s] = @ + 1]
\* Packets that are lost, late or there twice.
ReceiveAny(s) ==
    /\ network = "lossy"
    /\ \E i \in DOMAIN packets[s] : Receive(s, i)
    /\ UNCHANGED delivered
Deaf(s) == reading \ {s}
\* After an error startRead() is not called again.
ReceiveError(s) ==
    /\ network = "lossy" /\ s \in reading
    /\ reading' = Deaf(s)
    /\ UNCHANGED <<network, senderVars, delivered, queue, mergeVars, givenUp>>

\* HeartbeatProducer::handleTimer
SendHeartbeat ==
    /\ Enqueue(Heartbeat)
    /\ UNCHANGED <<network, senderVars, receiverVars, mergeVars, givenUp>>
-----------------------------------------------------------------------------
(* The queue's thread: OrderedMerge *)

\* InputQueue::run
Handle ==
    /\ pc = "idle" /\ queue # <<>>
    /\ IF Head(queue) = Heartbeat THEN Merge!HandleHeartbeat ELSE Merge!HandleData(Head(queue))
    /\ queue' = Tail(queue)
    /\ UNCHANGED <<network, senderVars, receiverVars, givenUp>>
HandleFurther ==
    /\ Merge!Finish
    /\ givenUp' = IF pc = "heartbeat" THEN givenUp \cup expected .. expected' - 1 ELSE givenUp
    /\ UNCHANGED <<network, senderVars, receiverVars, queue>>
-----------------------------------------------------------------------------
Produce == Shuffle \/ FlushDeck \/ ShuffleShutdown \/ Leak \/ LeakShutdown
Consume == Handle \/ HandleFurther
Next ==
    \/ Produce \/ Consume \/ SendHeartbeat
    \/ \E s \in Streams : ReceiveNext(s) \/ ReceiveAny(s) \/ ReceiveError(s)

Spec == Init /\ [][Next]_vars
\* The threads go on; on a reliable network packets arrive, and the timer expires again
\* and again, whatever else the service's thread has to do.
FairSpec ==
    /\ Spec
    /\ WF_vars(Produce) /\ WF_vars(Consume) /\ SF_vars(SendHeartbeat)
    /\ \A s \in Streams : SF_vars(ReceiveNext(s))
-----------------------------------------------------------------------------
(* Properties *)

InDeck == {deck[i] : i \in Slots} \ {Nothing}
\* The types of the variables.
TypeOK ==
    /\ network \in {"reliable", "lossy"} /\ produced \in 0 .. MessageCount + 1 /\ branch \in Streams
    /\ InDeck \subseteq Numbers /\ position \in Nat /\ leakPosition \in Nat
    /\ \A s \in Streams : packets[s] \in Seq(Numbers) /\ delivered[s] \in 0 .. Len(packets[s])
    /\ reading \subseteq Streams
    /\ queue \in Seq(Numbers \cup {Heartbeat}) /\ Len(queue) <= QueueSize
    /\ Merge!TypeOK /\ givenUp \subseteq Numbers

\* What the Shuffler has been given it has sent or still holds, each message once; a
\* shutdown leaves nothing behind.
Shuffled == produced + (IF branch = 2 /\ Producing THEN 1 ELSE 0)
DeckKept ==
    /\ IsInjective(packets[1]) /\ ToSet(packets[1]) \cap InDeck = {}
    /\ ToSet(packets[1]) \cup InDeck = {n \in Numbers : n < Shuffled}
    /\ produced > MessageCount => InDeck = {}

\* look_ahead is "the size of the deck to be shuffled (maximum distance moved)"
\* (Shuffler.cpp): between its place among the messages that come and its place among
\* those that are sent, the flush included, no message moves farther.
WithinDeck ==
    \A i \in DOMAIN packets[1] :
        LET came == packets[1][i] + 1 IN i - DeckSize <= came /\ came <= i + DeckSize

\* "send messages out of order" (Shuffler.cpp): by the time that more messages have been
\* sent than the deck holds, one has overtaken another.
SendsOutOfOrder ==
    Producing /\ Len(packets[1]) > DeckSize =>
        \E i, j \in DOMAIN packets[1] : i < j /\ packets[1][i] > packets[1][j]

\* The purpose of the whole: as long as the network delivers and the window is as large
\* as the shuffler's deck and what is on the way, the two streams, one late and one with
\* holes, make up one that is complete and in order, but for the numbers that a heartbeat
\* has given up.
Recovered ==
    network = "reliable" /\ LookAhead >= DeckSize + MaxInFlight =>
        /\ ~overrun
        /\ Merge!Increasing
        /\ {n \in Numbers : n < expected} \subseteq ToSet(out) \cup givenUp
\* It takes two more things of the configuration: the merge, which takes the first message
\* that it sees for the first one expected, must not see a later one before the very first.
\* The Leaker lets this one pass, and the Shuffler sends it before its deck is flushed.
FirstComesFirst == (1 + Offset) % Every >= Count /\ MessageCount > DeckSize

\* On a reliable network every message of the producer reaches the end, or a heartbeat
\* has given it up: none stays in the deck, the queue or the stash.
Arrives ==
    \A n \in Numbers : network = "reliable" /\ produced > n ~> n \in ToSet(out) \cup givenUp
=============================================================================
