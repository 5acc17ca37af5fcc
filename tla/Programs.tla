------------------------------ MODULE Programs ------------------------------
(***************************************************************************)
(* Programs that use queues and messages directly: the performance tests   *)
(* and tests of src/src/HQPerformance and src/src/HQTest, and              *)
(* MultiQueueConsumer, which one of them tests.  Main starts producers, and *)
(* in pipelines threads that copy from queue to queue; it lets them all go *)
(* at once, consumes what comes out and joins them.                        *)
(*                                                                         *)
(* A queue is the bounded FIFO queue that HighQueue implements (FifoQueue);*)
(* its entries hold messages, from and into which blocks are moved.        *)
(***************************************************************************)
EXTENDS Messages, FiniteSets

CONSTANTS
    Candidates,     \* the programs that may run
    Spare,          \* the messages that those without threads ask for besides the entries, 10
    Junk            \* what is in a block before anything has been written into it

\* A program is of a kind; it has so many producers (the "rounds" program: up to so
\* many), copying threads, entries in each queue, messages in all, and messages that
\* its memory pool has room for.
Kinds == {"user", "separately", "alternating", "no_consumer", "rounds", "multi_queue", "pipeline", "batched"}
MainOnly == {"separately", "alternating", "no_consumer"}
Copying == {"pipeline", "batched"}
CopyTypes == {"PassThru", "BufferSwap", "BinaryCopy", "CopyConstruct"}
WellFormed(p) ==
    /\ p.kind \in Kinds /\ p.copyType \in CopyTypes
    /\ p.producers \in Nat \ {0} /\ p.copies \in Nat
    /\ p.entries \in Nat \ {0} /\ p.target \in Nat \ {0}
    /\ p.kind \in MainOnly \cup Copying => p.producers = 1
    /\ p.kind \notin Copying => p.copies = 0
    /\ p.kind = "separately" => p.target = p.entries
    /\ p.kind = "batched" => p.copyType # "CopyConstruct"
ASSUME CandidatesAssumption == \A p \in Candidates : WellFormed(p)
\* Main has two messages at most.
ASSUME SpareAssumption == Spare \in Nat /\ Spare >= 2
ASSUME JunkAssumption == Junk \in Items
\* A message has room for an object.
ASSUME RoomAssumption == Capacity > 0

\* connections: one for each producer, or one behind each copying thread.
QueuesOf(p) == IF p.kind = "multi_queue" THEN p.producers ELSE p.copies + 1
\* Mutant: forgets the message of the producer.
PoolSizeOf_NoProducer(p) == p.entries * QueuesOf(p) + 1 + 2 * p.copies
\* messagesNeeded or messageCount, the size of the memory pool.
PoolSizeOf(p) ==
    CASE p.kind = "user" -> 2
      [] p.kind \in MainOnly -> p.entries + Spare
      [] OTHER -> p.entries * QueuesOf(p) + 1 + 2 * p.copies + p.producers

\* There are names, objects and blocks for each of the programs.
ASSUME NamesAssumption ==
    \A p \in Candidates :
        /\ \A q \in 1 .. QueuesOf(p), i \in 0 .. p.entries - 1 : <<"entry", q, i>> \in Names
        /\ \A i \in 1 .. p.producers : <<"producer", i, 1>> \in Names
        /\ \A i \in 1 .. p.copies, j \in 1 .. 2 : <<"copier", i, j>> \in Names
        /\ \A i \in 1 .. 2 : <<"main", 0, i>> \in Names /\ <<"user", i, 1>> \in Names
ASSUME ItemsAssumption ==
    \A p \in Candidates :
        \A i \in 1 .. p.producers, n \in 0 .. p.target - 1 : <<i, n>> \in Items
ASSUME BlocksAssumption ==
    \A p \in Candidates : \E pool \in SUBSET Blocks : IsFiniteSet(pool) /\ Cardinality(pool) = PoolSizeOf(p)

VARIABLES
    program,        \* the program that runs
    place, number,  \* each thread's place in its function, and its messageNumber
    expected, solo, \* expectedProducers_ of each queue, the threads whose Producer is solo_
    taken, written, \* messages that have left and have entered each queue
    ready, go,      \* threadsReady, producerGo
    round,          \* producerCount of this round
    search,         \* where MultiQueueConsumer searches
    consumed        \* history: the objects main has consumed in this round

threadVars == <<place, number>>
queueVars == <<expected, solo, taken, written>>
barrier == <<ready, go>>
vars == <<messageVars, program, threadVars, queueVars, barrier, round, search, consumed>>
-----------------------------------------------------------------------------
Is(kinds) == program.kind \in kinds
Producers == {<<"producer", i>> : i \in 1 .. IF Is(MainOnly \cup {"user"}) THEN 0 ELSE program.producers}
Copiers == {<<"copier", i>> : i \in 1 .. program.copies}
Main == <<"main", 0>>
Threads == {Main} \cup Producers \cup Copiers

QueueCount == QueuesOf(program)
Queues == 1 .. QueueCount
Entry(q, position) == <<"entry", q, position % program.entries>>
EntryMessages == {Entry(q, i) : q \in Queues, i \in 1 .. program.entries}

\* The queue a thread publishes to, the one it consumes from, and its messages.
OutQueue(t) == CASE t[1] = "producer" -> (IF Is({"multi_queue"}) THEN t[2] ELSE 1)
                 [] t[1] = "copier" -> t[2] + 1
                 [] OTHER -> 1
InQueue(t) == IF t = Main THEN QueueCount ELSE t[2]
OutMessage(t) == <<t[1], t[2], 1>>
InMessage(t) == IF t \in Copiers \/ (t = Main /\ Is({"alternating"})) THEN <<t[1], t[2], 2>> ELSE OutMessage(t)
Published(t) == IF program.copyType = "PassThru" THEN InMessage(t) ELSE OutMessage(t)

\* The messages that each producer sends, and those that main waits for.
PerProducer == program.target \div round
Total == PerProducer * round

Pool == CHOOSE pool \in SUBSET Blocks : IsFiniteSet(pool) /\ Cardinality(pool) = PoolSizeOf(program)

Init ==
    /\ program \in Candidates
    /\ messages = [m \in Names |-> Fresh]
    /\ memory = [b \in Blocks |-> [i \in 1 .. Capacity |-> Junk]]
    /\ place = [t \in Threads |-> IF t = Main THEN "create" ELSE "off"]
    /\ number = [t \in Threads |-> 0]
    /\ expected = [q \in Queues |-> 0] /\ solo = {}
    /\ taken = [q \in Queues |-> 0] /\ written = [q \in Queues |-> 0]
    /\ ready = 0 /\ go = FALSE
    /\ round = IF Is({"rounds"}) THEN 1 ELSE program.producers
    /\ search = 1
    /\ consumed = <<>>
-----------------------------------------------------------------------------
(* What all threads do *)

At(t, where) == place[t] = where
Goto(t, where) == place' = [place EXCEPT ![t] = where]
\* The message operations of a thread.
Local == UNCHANGED <<program, queueVars, barrier, round, search, consumed>>

\* Message message(connection): throws when the pool is empty.
Construct(m, t, where) ==
    /\ ~Has(m)
    /\ IF Available \cap Pool = {}
         THEN Goto(t, "failed") /\ UNCHANGED messageVars
         ELSE /\ Allocate(m)
              /\ messages'[m].block = CHOOSE b \in Available \cap Pool : TRUE
              /\ Goto(t, where)

\* Connection::canSolo
CanSolo(q) == expected[q] = 1
WillProduce(q) == expected' = [expected EXCEPT ![q] = @ + 1]
\* The Producer's constructor.
ConstructProducer(t, alone) == solo' = IF alone THEN solo \cup {t} ELSE solo \ {t}

Full(q) == written[q] - taken[q] = program.entries
\* With discardMessagesIfNoConsumer_ and no consumer a full queue is emptied.
Discards == Is({"no_consumer"})
\* Producer::publish(), when there is room: the message moves into the entry.
Publish(t, m, where) ==
    LET q == OutQueue(t) IN
    /\ Full(q) => Discards
    /\ taken' = IF Full(q) THEN [taken EXCEPT ![q] = written[q]] ELSE taken
    /\ MoveTo(m, Entry(q, written[q]))
    /\ written' = [written EXCEPT ![q] = @ + 1]
    /\ Goto(t, where)
    /\ UNCHANGED <<program, number, expected, solo, barrier, round, search, consumed>>

FirstIn(q) == taken[q]
\* Consumer::tryGetNext(), when there is a message: it moves out of the entry.
Get(q, m) ==
    /\ taken[q] < written[q]
    /\ MoveTo(Entry(q, FirstIn(q)), m)
    /\ taken' = [taken EXCEPT ![q] = @ + 1]

\* Leaving a function destructs its messages.
Destruct(t) ==
    /\ At(t, "leave")
    /\ CASE Has(OutMessage(t)) -> Release(OutMessage(t)) /\ UNCHANGED place
         [] ~Has(OutMessage(t)) /\ Has(InMessage(t)) -> Release(InMessage(t)) /\ UNCHANGED place
         [] OTHER -> Goto(t, "ended") /\ UNCHANGED messageVars
    /\ Local /\ UNCHANGED number
-----------------------------------------------------------------------------
(* producerFunction *)

\* In pipelines the threads call willProduce() themselves.
StartThread(t) ==
    /\ At(t, "start")
    /\ IF Is(Copying)
         THEN WillProduce(OutQueue(t)) /\ ConstructProducer(t, expected[OutQueue(t)] = 0)
         ELSE UNCHANGED expected /\ ConstructProducer(t, CanSolo(OutQueue(t)))
    /\ Goto(t, "construct")
    /\ UNCHANGED <<messageVars, program, number, taken, written, barrier, round, search, consumed>>
ConstructMessages(t) ==
    /\ At(t, "construct")
    /\ \/ Construct(InMessage(t), t, "construct") /\ UNCHANGED ready
       \/ Has(InMessage(t)) /\ Construct(OutMessage(t), t, "construct") /\ UNCHANGED ready
       \/ /\ Has(InMessage(t)) /\ Has(OutMessage(t))
          /\ ready' = ready + 1
          /\ Goto(t, IF t \in Producers THEN "spin" ELSE "get")
          /\ UNCHANGED messageVars
    /\ UNCHANGED <<program, number, queueVars, go, round, search, consumed>>

\* while(!producerGo) yield
Go(t) ==
    /\ At(t, "spin") /\ go
    /\ Goto(t, "loop")
    /\ Local /\ UNCHANGED <<messageVars, number>>

More(t) == number[t] < PerProducer
\* One message after the other,
Fill(t) ==
    /\ At(t, "loop") /\ More(t) /\ ~Is({"batched"})
    /\ Emplace(OutMessage(t), <<t[2], number[t]>>)
    /\ number' = [number EXCEPT ![t] = @ + 1]
    /\ Goto(t, "publish")
    /\ Local
\* ... or as many as there is room for.
Add(t) ==
    /\ At(t, "loop") /\ More(t) /\ Is({"batched"}) /\ Fits(OutMessage(t), messages[OutMessage(t)].used + 1)
    /\ AppendTo(OutMessage(t), <<<<t[2], number[t]>>>>)
    /\ number' = [number EXCEPT ![t] = @ + 1]
    /\ UNCHANGED place
    /\ Local
\* Mutant: what is left in the last batch is not published.
Unsent_OnlyFull(t) == ~Fits(OutMessage(t), messages[OutMessage(t)].used + 1)
\* Whether there is a batch to publish.
Unsent(t) == ~Fits(OutMessage(t), messages[OutMessage(t)].used + 1)
                 \/ (~More(t) /\ messages[OutMessage(t)].used > 0)
PublishBatch(t) ==
    /\ At(t, "loop") /\ Is({"batched"}) /\ Unsent(t)
    /\ Publish(t, OutMessage(t), "loop")
PublishNext(t) ==
    /\ At(t, "publish")
    /\ Publish(t, OutMessage(t), "loop")

\* Pipelines end with an empty message.
EndOfMessages(t) ==
    /\ At(t, "loop") /\ ~More(t) /\ ~(Is({"batched"}) /\ Unsent(t))
    /\ IF Is(Copying)
         THEN SetUsed(OutMessage(t), 0) /\ Goto(t, "last")
         ELSE Goto(t, "leave") /\ UNCHANGED messageVars
    /\ Local /\ UNCHANGED number
PublishLast(t) ==
    /\ At(t, "last")
    /\ Publish(t, OutMessage(t), "leave")
-----------------------------------------------------------------------------
(* copyFunction *)

\* getNext(); number[t] keeps what is used.
CopyGet(t) ==
    /\ At(t, "get")
    /\ Get(InQueue(t), InMessage(t))
    /\ number' = [number EXCEPT ![t] = messages[Entry(InQueue(t), FirstIn(InQueue(t)))].used]
    /\ Goto(t, IF program.copyType = "PassThru" THEN "pass" ELSE "copy")
    /\ UNCHANGED <<program, expected, solo, written, barrier, round, search, consumed>>

BufferSwap(t) == MoveTo(InMessage(t), OutMessage(t))
BinaryCopy(t) == AppendCopyOf(OutMessage(t), InMessage(t))
CopyConstruct(t) ==
    IF number[t] = 0 THEN SetUsed(OutMessage(t), 0) ELSE Emplace(OutMessage(t), Contents(InMessage(t))[1])
\* appendBinaryCopy() throws when the message is not empty enough.
CopyThrows(t) ==
    program.copyType = "BinaryCopy" /\ ~Fits(OutMessage(t), messages[OutMessage(t)].used + number[t])
Copy(t) ==
    /\ At(t, "copy")
    /\ IF CopyThrows(t)
         THEN Goto(t, "failed") /\ UNCHANGED messageVars
         ELSE /\ CASE program.copyType = "BufferSwap" -> BufferSwap(t)
                   [] program.copyType = "BinaryCopy" -> BinaryCopy(t)
                   [] program.copyType = "CopyConstruct" -> CopyConstruct(t)
              /\ Goto(t, "pass")
    /\ Local /\ UNCHANGED number

\* An empty message is the last one.
Pass(t) ==
    /\ At(t, "pass")
    /\ Publish(t, Published(t), IF number[t] = 0 THEN "leave" ELSE "get")
-----------------------------------------------------------------------------
(* The main thread *)

\* Connection::createLocal() gives each entry a message.
CreateLocal ==
    /\ \E m \in EntryMessages : ~Has(m)
    /\ Construct(CHOOSE m \in EntryMessages : ~Has(m), Main, "create")
\* main's own messages follow.
Create ==
    /\ At(Main, "create") /\ ~Is({"user"})
    /\ \/ CreateLocal
       \/ /\ \A m \in EntryMessages : Has(m)
          /\ Construct(IF Has(OutMessage(Main)) THEN InMessage(Main) ELSE OutMessage(Main), Main, "create")
       \/ /\ \A m \in EntryMessages \cup {OutMessage(Main), InMessage(Main)} : Has(m)
          /\ Goto(Main, "round") /\ UNCHANGED messageVars
    /\ Local /\ UNCHANGED number

\* Who runs in this round.
Running == {t \in Producers : t[2] <= round} \cup Copiers
StartThreads ==
    /\ place' = [t \in Threads |-> IF t = Main THEN "await" ELSE IF t \in Running THEN "start" ELSE place[t]]
    /\ number' = [t \in Threads |-> 0]
    /\ ready' = 0 /\ go' = FALSE /\ consumed' = <<>>
    /\ UNCHANGED <<messageVars, program, solo, taken, written, round, search>>
\* "solo first time thru.  After that, no-solo"
SpawnRound ==
    /\ At(Main, "round") /\ Is({"rounds"})
    /\ WillProduce(1)
    /\ StartThreads
\* "each individual connection is solo"
SpawnForQueues ==
    /\ At(Main, "round") /\ Is({"multi_queue"})
    /\ expected' = [q \in Queues |-> 1]
    /\ StartThreads
SpawnPipeline ==
    /\ At(Main, "round") /\ Is(Copying)
    /\ UNCHANGED expected
    /\ StartThreads

AllReady == ready >= Cardinality(Running)
ReleaseThreads ==
    /\ At(Main, "await") /\ AllReady
    /\ go' = TRUE
    /\ Goto(Main, "consume")
    /\ UNCHANGED <<messageVars, program, number, queueVars, ready, round, search, consumed>>

Arrived(q, last) ==
    /\ Get(q, OutMessage(Main))
    /\ consumed' = consumed \o Contents(Entry(q, FirstIn(q)))
    /\ number' = [number EXCEPT ![Main] = @ + 1]
    /\ Goto(Main, IF last THEN "join" ELSE "consume")
LastOfAll == number[Main] + 1 = Total
Consume(kinds, last) ==
    /\ At(Main, "consume") /\ Is(kinds)
    /\ Arrived(QueueCount, last)
    /\ UNCHANGED <<program, expected, solo, written, barrier, round, search>>
ConsumeAll == Consume({"separately", "rounds"}, LastOfAll)
ConsumePipeline == Consume({"pipeline"}, LastOfAll)
\* Up to the empty message.
ConsumeBatches == Consume({"batched"}, Contents(Entry(QueueCount, FirstIn(QueueCount))) = <<>>)

\* Mutant: stays at a queue until it is empty for good.
Search_Stays == search
\* MultiQueueConsumer::getNext: the queues are tried one after the other, always from
\* the first one on: consumerPos_ never moves.
Search == IF search = QueueCount THEN 1 ELSE search + 1
SearchFinds ==
    /\ At(Main, "consume") /\ Is({"multi_queue"})
    /\ Arrived(search, LastOfAll)
    /\ search' = 1
    /\ UNCHANGED <<program, expected, solo, written, barrier, round>>
SearchOn ==
    /\ At(Main, "consume") /\ Is({"multi_queue"}) /\ taken[search] = written[search]
    /\ search' = Search
    /\ UNCHANGED <<messageVars, program, threadVars, queueVars, barrier, round, consumed>>

\* The main thread leaves its threads only when they have ended.
Joined == At(Main, "join") /\ \A t \in Running : place[t] = "ended"
\* The next round has one producer more.
JoinRound ==
    /\ Joined /\ Is({"rounds"})
    /\ go' = FALSE
    /\ round' = IF round < program.producers THEN round + 1 ELSE round
    /\ Goto(Main, IF round < program.producers THEN "round" ELSE "done")
    /\ UNCHANGED <<messageVars, program, number, queueVars, ready, search, consumed>>
Join ==
    /\ Joined /\ ~Is({"rounds"})
    /\ go' = IF Is({"multi_queue"}) THEN FALSE ELSE go
    /\ Goto(Main, IF Is({"separately"}) THEN "round" ELSE "done")
    /\ UNCHANGED <<messageVars, program, number, queueVars, ready, round, search, consumed>>

\* testPublishConsumeSeparately: main fills the queue, empties it again and, with a
\* second Producer, fills it once more, with one message.
\* testSingleThreadedMessagePassingPerformance: main consumes each message at once.
\* testPublishWithNoConsumer: main only publishes.
Produce ==
    /\ At(Main, "round") /\ Is(MainOnly)
    /\ IF Is({"no_consumer"})
         THEN UNCHANGED expected /\ ConstructProducer(Main, CanSolo(1))
         ELSE WillProduce(1) /\ ConstructProducer(Main, expected[1] = 0)
    /\ number' = [number EXCEPT ![Main] = 0]
    /\ Goto(Main, "fill")
    /\ UNCHANGED <<messageVars, program, taken, written, barrier, round, search, consumed>>
Filled == number[Main] = program.target
FillQueue ==
    /\ At(Main, "fill") /\ ~Filled
    /\ Emplace(OutMessage(Main), <<1, number[Main]>>)
    /\ Goto(Main, "put")
    /\ number' = [number EXCEPT ![Main] = @ + 1]
    /\ Local
PutMessage ==
    /\ At(Main, "put")
    /\ Publish(Main, OutMessage(Main), IF Is({"alternating"}) THEN "take" ELSE "fill")
TakeMessage ==
    /\ At(Main, "take")
    /\ Get(1, InMessage(Main))
    /\ consumed' = consumed \o Contents(Entry(1, FirstIn(1)))
    /\ Goto(Main, "fill")
    /\ UNCHANGED <<program, number, expected, solo, written, barrier, round, search>>
QueueFilled ==
    /\ At(Main, "fill") /\ Filled
    /\ Goto(Main, IF Is({"separately"}) /\ taken[1] = 0 THEN "consume" ELSE "done")
    /\ number' = [number EXCEPT ![Main] = 0]
    /\ UNCHANGED <<messageVars, program, queueVars, barrier, round, search, consumed>>
-----------------------------------------------------------------------------
(* Any other user of messages *)

UserMessages == {<<"user", i, 1>> : i \in 1 .. 2}
UserItems == {<<1, 0>>, Junk}
UserBundles == {<<>>} \cup {<<x>> : x \in UserItems} \cup {<<x, y>> : x, y \in UserItems}
Use(m) ==
    \/ Available \cap Pool # {} /\ Construct(m, Main, "create")
    \/ /\ \/ Release(m)
          \/ \E size \in 0 .. Capacity : SetUsed(m, size) \/ SetRead(m, size) \/ AddRead(m, size)
          \/ \E item \in UserItems : Emplace(m, item)
          \/ \E items \in UserBundles : AppendTo(m, items)
          \/ SetEmpty(m) \/ Rewind(m)
          \/ \E type \in Types : SetType(m, type)
          \/ \E n \in UserMessages \ {m} : AppendCopyOf(m, n) \/ CopyMetaInfoTo(m, n) \/ MoveTo(m, n)
       /\ UNCHANGED place
User ==
    /\ Is({"user"})
    /\ \E m \in UserMessages : Use(m)
    /\ Local /\ UNCHANGED number
-----------------------------------------------------------------------------
ThreadStep(t) ==
    \/ StartThread(t) \/ ConstructMessages(t) \/ Go(t) \/ Destruct(t)
    \/ Fill(t) \/ Add(t) \/ PublishBatch(t) \/ PublishNext(t) \/ EndOfMessages(t) \/ PublishLast(t)
    \/ CopyGet(t) \/ Copy(t) \/ Pass(t)
MainStep ==
    \/ Create \/ SpawnRound \/ SpawnForQueues \/ SpawnPipeline \/ ReleaseThreads
    \/ ConsumeAll \/ ConsumePipeline \/ ConsumeBatches \/ SearchFinds \/ SearchOn
    \/ Join \/ JoinRound \/ Produce \/ FillQueue \/ PutMessage \/ TakeMessage \/ QueueFilled
Next == (\E t \in Threads \ {Main} : ThreadStep(t)) \/ MainStep \/ User

Spec == Init /\ [][Next]_vars

AllThreads == UNION {{<<"producer", i>> : i \in 1 .. p.producers} \cup {<<"copier", i>> : i \in 1 .. p.copies} :
                        p \in Candidates}
Turn(t) == t \in Threads /\ ThreadStep(t)
\* Each thread runs on, whatever the others do.
FairSpec == Spec /\ WF_vars(MainStep) /\ \A t \in AllThreads : WF_vars(Turn(t))
-----------------------------------------------------------------------------
(* Properties *)

Places == {"off", "start", "construct", "spin", "loop", "publish", "last", "get", "copy", "pass", "leave",
           "ended", "failed", "create", "round", "await", "consume", "join", "done", "fill", "put", "take"}
\* The types of the variables; the messages are as Messages says.
TypeOK ==
    /\ MessagesInv
    /\ program \in Candidates /\ place \in [Threads -> Places] /\ number \in [Threads -> Nat]
    /\ expected \in [Queues -> Nat] /\ solo \subseteq Threads
    /\ \A q \in Queues : taken[q] <= written[q] /\ written[q] - taken[q] <= program.entries
    /\ ready \in Nat /\ go \in BOOLEAN /\ round \in Nat /\ search \in Queues
    /\ consumed \in Seq(Items)

\* "verify that messages from a particular producer arrive in the correct order"
\* (MutiQueuePerformaceTest.cpp): whatever way the messages take and whatever is moved,
\* swapped or copied on it, main gets each producer's objects, in order and complete.
\* The objects of s are the next ones of their producers, behind those that are before.
Follow(s, before) ==
    \A i \in DOMAIN s : \E p \in 1 .. program.producers, n \in 0 .. program.target - 1 :
        /\ s[i] = <<p, n>>
        /\ \A k \in 0 .. program.target - 1 : k < n <=> <<p, k>> \in before \cup {s[j] : j \in 1 .. i - 1}
Complete == \A p \in 1 .. round, n \in 0 .. PerProducer - 1 : \E i \in DOMAIN consumed : consumed[i] = <<p, n>>
InOrder ==
    ~Is({"user", "no_consumer"}) => Follow(consumed, {}) /\ (place[Main] \in {"join", "done"} => Complete)

\* No thread ends with an exception: the pool has as many blocks as the program needs
\* ("how many buffers do we need?") and every copy fits.  And no thread takes the solo
\* Producer's way to a queue that another one publishes to.
NobodyFails ==
    /\ \A t \in Threads : place[t] # "failed"
    /\ \A t, u \in Running :
        t # u /\ OutQueue(t) = OutQueue(u) /\ t \in solo => place[t] \in {"start", "ended"}

\* The programs come to an end, whoever is scheduled first: nobody waits for a message
\* that nobody sends, and none is left waiting in a full queue when main stops consuming.
Ends == Is({"user"}) \/ <>(place[Main] = "done")
=============================================================================
