-------------------------- MODULE ProgramsInvariant --------------------------
(***************************************************************************)
(* What the programs keep: who has which messages, where the threads are,  *)
(* and when a thread is alone with its queue.                              *)
(***************************************************************************)
EXTENDS Programs

\* The messages of a thread, and those that have blocks at all.
Mine(t) == {InMessage(t), OutMessage(t)}
InUse == EntryMessages \cup UNION {Mine(t) : t \in Threads}

ProducerPlaces == {"off", "start", "construct", "spin", "loop", "publish", "last", "leave", "ended", "failed"}
CopierPlaces == {"off", "start", "construct", "get", "copy", "pass", "leave", "ended", "failed"}
MainPlaces == {"create", "round", "await", "consume", "join", "done", "fill", "put", "take", "failed"}

\* Each thread is in its own function.
Placed ==
    /\ place \in [Threads -> Places]
    /\ place[Main] \in MainPlaces
    /\ \A t \in Producers : place[t] \in ProducerPlaces
    /\ \A t \in Copiers : place[t] \in CopierPlaces /\ (place[t] = "copy" => program.copyType # "PassThru")

\* What main has filled in.
Filling == place[Main] \in {"fill", "put", "take"} => Is(MainOnly) /\ number[Main] <= program.target

QueuesType ==
    /\ expected \in [Queues -> Nat] /\ taken \in [Queues -> Nat] /\ written \in [Queues -> Nat]
    /\ \A q \in Queues : taken[q] <= written[q] /\ written[q] - taken[q] <= program.entries

ProgramsType ==
    /\ program \in Candidates /\ number \in [Threads -> Nat] /\ solo \subseteq Threads
    /\ ready \in Nat /\ go \in BOOLEAN /\ round \in 1 .. program.producers /\ search \in Queues
    /\ consumed \in Seq(Items)
    /\ MessagesInv /\ Placed /\ Filling /\ QueuesType

\* Only the messages of the program have blocks of its pool; there are as many blocks as
\* messages.
Held == ~Is({"user"}) => \A m \in Names : Has(m) => m \in InUse

\* A copy begins with an empty message, and of what has come in.
CopyFits(t) ==
    /\ place[t] \in {"off", "start", "construct", "get", "copy"} /\ program.copyType = "BinaryCopy" =>
           messages[OutMessage(t)].used = 0
    /\ place[t] = "copy" => number[t] = messages[InMessage(t)].used
CopiesFit == \A t \in Copiers : CopyFits(t)

\* The rounds: in each there is one producer more, of the second on none is solo.
Rounds ==
    /\ \A t \in Producers : (t[2] > round => place[t] = "off") /\ (place[t] = "off" => t \notin solo)
    /\ place[Main] \in {"create", "round", "done"} => \A t \in Producers : place[t] \in {"off", "ended"}
    /\ Is({"rounds"}) =>
           /\ expected[1] = (IF place[Main] \in {"create", "round"} THEN round - 1 ELSE round)
           /\ round > 1 => \A t \in Producers \cap solo : place[t] \in {"start", "ended"}

\* Who is past his construction has his messages; main has given each entry its own.
Supplied ==
    /\ place[Main] # "create" => \A m \in EntryMessages \cup Mine(Main) : Has(m)
    /\ \A t \in Threads \ {Main} :
        place[t] \notin {"off", "start", "construct", "leave", "ended"} => \A m \in Mine(t) : Has(m)

\* Nobody copies before main has all that it needs; users of messages have no threads.
Starting ==
    /\ place[Main] \in {"create", "round"} => \A t \in Copiers : place[t] = "off"
    /\ Is({"user"}) => place[Main] = "create"

NobodyFailed == \A t \in Threads : place[t] # "failed"

ProgramsInv == ProgramsType /\ Held /\ Supplied /\ Starting /\ CopiesFit /\ Rounds /\ NobodyFailed
-----------------------------------------------------------------------------
(* What becomes of the objects *)

\* After testPublishConsumeSeparately has consumed its messages, it publishes more.
Again == Is({"separately"}) /\ taken[1] # 0 /\ place[Main] \in {"round", "fill", "put", "done"}
Flowing == place[Main] \notin {"create", "round", "done"} /\ ~Again

\* A lane is the queue that a producer publishes to; all queues of a pipeline pass the
\* messages of the first one.
Lane(q) == IF Is({"multi_queue"}) THEN q ELSE 1
Lanes == {Lane(q) : q \in Queues}
LastQueues == IF Is({"multi_queue"}) THEN Queues ELSE {QueueCount}

\* sent[l][k] is the k-th message of lane l, of this round from the base-th one on.
Before(sent, base, l, k) == UNION {{sent[l][j][i] : i \in DOMAIN sent[l][j]} : j \in base .. k - 1}

\* Every producer's objects are sent one after the other, and an empty message after all.
Ordered(sent, base) ==
    \A l \in Lanes, k \in Nat : k \in base .. written[l] - 1 =>
        /\ Follow(sent[l][k], Before(sent, base, l, k))
        /\ \A i \in DOMAIN sent[l][k] : \E p \in 1 .. round, n \in 0 .. PerProducer - 1 :
              sent[l][k][i] = <<p, n>> /\ (Is({"multi_queue"}) => p = l)
        /\ Is({"batched"}) \/ Len(sent[l][k]) <= 1
        /\ sent[l][k] = <<>> => Is(Copying) /\ \A n \in 0 .. PerProducer - 1 : <<1, n>> \in Before(sent, base, l, k)

\* Queues and copying threads pass on what was sent.
Queued(sent) ==
    \A q \in Queues :
        /\ written[q] <= written[Lane(q)]
        /\ \A k \in Nat : k \in taken[q] .. written[q] - 1 => Contents(Entry(q, k)) = sent[Lane(q)][k]
InCopy(t) == CASE place[t] = "copy" -> {InMessage(t)} [] place[t] = "pass" -> {Published(t)} [] OTHER -> {}
HandedBy(sent, t) ==
    /\ taken[InQueue(t)] = written[OutQueue(t)] + (IF InCopy(t) = {} THEN 0 ELSE 1)
    /\ \A m \in InCopy(t) : Contents(m) = sent[1][written[OutQueue(t)]]

\* Who sends, and what he has put into his message and not yet published.
Sending == IF Is(MainOnly) THEN (IF place[Main] \in {"fill", "put", "take"} THEN {Main} ELSE {})
                           ELSE {t \in Producers : t[2] <= round}
Id(t) == IF t = Main THEN 1 ELSE t[2]
InHand(t) == IF place[t] \in {"publish", "put"} \/ (place[t] = "loop" /\ Is({"batched"}))
               THEN Contents(OutMessage(t)) ELSE <<>>
SentBy(sent, base, t) ==
    LET first == number[t] - Len(InHand(t)) IN
    /\ number[t] <= PerProducer /\ first >= 0
    /\ \A i \in 1 .. Len(InHand(t)) : InHand(t)[i] = <<Id(t), first + i - 1>>
    /\ place[t] \in {"publish", "put"} => Len(InHand(t)) = 1
    /\ place[t] = "last" => Is(Copying) /\ Contents(OutMessage(t)) = <<>> /\ number[t] = PerProducer
    /\ \A n \in 0 .. program.target - 1 :
          <<Id(t), n>> \in Before(sent, base, OutQueue(t), written[OutQueue(t)]) <=> n < first

\* Main has what has left the last queues.
Collected(sent, base) ==
    /\ \A i \in DOMAIN consumed : \E q \in LastQueues : consumed[i] \in Before(sent, base, Lane(q), taken[q])
    /\ \A q \in LastQueues : \A x \in Before(sent, base, Lane(q), taken[q]) : \E i \in DOMAIN consumed : consumed[i] = x
\* Main counts it, where a message is an object.
Counts ==
    /\ place[Main] = "await" => number[Main] = 0
    /\ place[Main] \in {"await", "consume"} /\ ~Is({"batched"}) => Len(consumed) = number[Main]
    /\ place[Main] = "consume" /\ Is({"pipeline"}) => number[Main] < Total
    /\ Is({"alternating"}) => written[1] = taken[1] + (IF place[Main] = "take" THEN 1 ELSE 0)

Flow(sent, base) ==
    /\ \A q \in Queues : base <= taken[q]
    /\ Ordered(sent, base) /\ Queued(sent) /\ Collected(sent, base) /\ Counts
    /\ \A t \in Copiers : HandedBy(sent, t)
    /\ \A t \in Sending : SentBy(sent, base, t)

\* Between the rounds nothing is left in the queues.
Rest(base) == \A q \in Queues : taken[q] = base /\ written[q] = base
NoneYet == Is({"batched"}) => \A t \in Producers :
              place[t] \in {"off", "start", "construct", "spin", "ended"} => Contents(OutMessage(t)) = <<>>

\* Who takes out what he has put in does so each time.
Taking == place[Main] = "take" => Is({"alternating"})

\* What has been sent is known to nobody: there is a history of it that explains the state.
InOrderInv ==
    ~Is({"user", "no_consumer"}) =>
        /\ Follow(consumed, {}) /\ NoneYet
        /\ place[Main] \in {"join", "done"} \/ Again => Complete
        /\ place[Main] \in {"create", "round"} /\ ~Again =>
              /\ \E base \in Nat : Rest(base)
              /\ Is(MainOnly) => consumed = <<>>
              /\ place[Main] = "create" => taken[1] = 0
        /\ Flowing => \E sent \in [Queues -> [Nat -> Seq(Items)]], base \in Nat : Flow(sent, base)
=============================================================================
