------------------------------ MODULE Pipeline ------------------------------
(***************************************************************************)
(* The Steps framework at work (src/src/Steps): the Builder makes steps    *)
(* from a configuration, SharedResources starts, stops and finishes them,  *)
(* and in between messages travel from step to step, within a thread by    *)
(* nested calls of handle() and between threads through queues.            *)
(*                                                                         *)
(* A thread's stack holds the calls of handle() it is in.  A queue is the  *)
(* bounded FIFO queue that HighQueue implements (FifoQueue).               *)
(***************************************************************************)
EXTENDS Integers, Sequences, FiniteSets, SequencesExt

CONSTANTS
    Configurations,     \* the configurations that may be read
    MaxHeartbeats,      \* bound: heartbeats by each HeartbeatProducer
    Main, Asio          \* the threads that are not a step's own

\* A configuration has pipes, more pipes nested in a step as its "destination", and
\* the kind and parameters of each step.
WellFormed(c) ==
    LET steps == DOMAIN c.kind IN
    /\ c.pipes \in Seq(Seq(steps)) /\ c.nested \in [steps -> Seq(Seq(steps))]
    /\ c.capacity \in Nat \ {0}         \* entry_count of every input_queue
    /\ c.messages \in Nat \ {0}         \* message_count of every producer
    /\ c.limit \in Nat \ {0}            \* shutdowns that every stopper expects
    /\ c.timeouts \in BOOLEAN           \* waits on queues may time out
    /\ c.stops \in BOOLEAN              \* the application calls Builder::stop()
    /\ \A s \in steps : c.kind[s] = "send_to_queue" =>
           c.target[s] \in steps /\ c.kind[c.target[s]] = "input_queue"
    /\ IsFiniteSet(steps) /\ {Main, Asio} \cap steps = {}
ASSUME ConfigurationAssumption == \A c \in Configurations : WellFormed(c)
ASSUME BoundAssumption == MaxHeartbeats \in Nat
ASSUME ThreadAssumption == Main # Asio

VARIABLES
    config,         \* the configuration
    order,          \* SharedResources::steps_
    place, next,    \* the application's thread: its place, and the step in its loop
    expected,       \* Connection::expectedProducers_ of each input_queue
    started,        \* the steps that have been started
    solo,           \* the send_to_queue steps whose Producer is solo_
    stopping,       \* the steps whose stopping_ is set
    halted,         \* the steps whose Producer or Consumer has been stopped
    queue,          \* the messages in each input_queue
    run,            \* each thread's place outside handle()
    stack, message, \* each thread's calls of handle(), innermost first, and their message
    stopNext,       \* each thread's place in SharedResources::stop(), 0 outside
    count,          \* messages counted by producers, heartbeats, round_robins, stoppers
    timer,          \* the heartbeat steps that wait for their timer
    service,        \* whether the AsioService runs
    allStopped,     \* SharedResources::stopping_
    received        \* history: what each consumer has handled

lives == <<expected, started, solo, stopping, halted>>
calls == <<run, stack, message>>
asio == <<timer, service>>
vars == <<config, order, place, next, lives, queue, calls, stopNext, count, asio, allStopped, received>>
-----------------------------------------------------------------------------
Steps == DOMAIN config.kind
Of(kinds) == {s \in Steps : config.kind[s] \in kinds}
Threaded == Of({"producer", "input_queue"})
Threads == Threaded \cup {Main, Asio}

Init ==
    /\ config \in Configurations
    /\ order = <<>> /\ place = "construct" /\ next = 0
    /\ expected = [q \in Of({"input_queue"}) |-> 0]
    /\ started = {} /\ solo = {} /\ stopping = {} /\ halted = {}
    /\ queue = [q \in Of({"input_queue"}) |-> <<>>]
    /\ run = [t \in Threads |-> "none"]
    /\ stack = [t \in Threads |-> <<>>] /\ message = [t \in Threads |-> <<>>]
    /\ stopNext = [t \in Threads |-> 0]
    /\ count = [s \in Steps |-> 0]
    /\ timer = {} /\ service = TRUE /\ allStopped = FALSE
    /\ received = [s \in Of({"consumer"}) |-> <<>>]
-----------------------------------------------------------------------------
(* Builder and SharedResources: the application's thread *)

\* constructPipe: a step is configured, and its nested pipes are made, before it is
\* added itself.
Added(c) ==
    LET nested == {c.nested[s] : s \in DOMAIN c.kind}
        added[pipe \in UNION {ToSet(pipes) : pipes \in {c.pipes} \cup nested}] ==
            FlattenSeq([i \in DOMAIN pipe |->
                FlattenSeq([j \in DOMAIN c.nested[pipe[i]] |-> added[c.nested[pipe[i]][j]]])
                    \o <<pipe[i]>>])
    IN  FlattenSeq([i \in DOMAIN c.pipes |-> added[c.pipes[i]]])

\* destinations_: the first steps of the nested pipes, then the next step in the pipe.
Follows(s, pipe) == IF \E i \in 1 .. Len(pipe) - 1 : pipe[i] = s
                      THEN <<pipe[1 + CHOOSE i \in 1 .. Len(pipe) - 1 : pipe[i] = s]>> ELSE <<>>
Attached(c, added, s) ==
    LET pipes == FlattenSeq([i \in DOMAIN added |-> c.nested[added[i]]]) \o c.pipes
    IN  [j \in DOMAIN c.nested[s] |-> c.nested[s][j][1]]
            \o FlattenSeq([i \in DOMAIN pipes |-> Follows(s, pipes[i])])
Destinations(s) == Attached(config, order, s)

\* What Builder and validate() have made sure of (module Construction): every step is in
\* one pipe, behind one other step, and every step that sends on has a destination.
Final == {"consumer", "send_to_queue"}
Constructed(c) ==
    LET steps == DOMAIN c.kind  added == Added(c) IN
    /\ added \in Seq(steps) /\ ToSet(added) = steps /\ IsInjective(added)
    /\ \A s \in steps : /\ Attached(c, added, s) \in Seq(steps) /\ IsInjective(Attached(c, added, s))
                        /\ c.kind[s] \notin Final => Attached(c, added, s) # <<>>
ASSUME ConstructionAssumption == \A c \in Configurations : Constructed(c)

Primary(s) == Destinations(s)[1]

Goto(where, index) == place' = where /\ next' = index

\* Builder::construct up to createResources(), which lets every send_to_queue
\* announce its Producer to its queue.
Construct ==
    /\ place = "construct"
    /\ order' = Added(config)
    /\ expected' = [q \in DOMAIN expected |->
                        Cardinality({s \in Of({"send_to_queue"}) : config.target[s] = q})]
    /\ Goto("threads", 0)
    /\ UNCHANGED <<config, started, solo, stopping, halted, queue, calls, stopNext, count, asio,
                   allStopped, received>>

\* start() begins with the AsioService's thread: one for up to ten heartbeats.
RunThreads ==
    /\ place = "threads"
    /\ run' = [run EXCEPT ![Asio] = IF Of({"heartbeat"}) = {} THEN "none" ELSE "loop"]
    /\ Goto("start", Len(order))
    /\ UNCHANGED <<config, order, lives, queue, stack, message, stopNext, count, asio, allStopped,
                   received>>

\* Mutant: several may be expected.
CanSolo_Several(q) == expected[q] > 0
\* Connection::canSolo
CanSolo(q) == expected[q] = 1

\* Mutant: the steps are started in the order in which they were added.
Starting_Forward == order[Len(order) + 1 - next]
\* start() goes through steps_ from the last to the first.
Starting == order[next]

\* ThreadedStepToMessage::start, SendToQueue::start (which constructs the Producer) and
\* HeartbeatProducer::start
StartThread(s) == run' = IF s \in Threaded THEN [run EXCEPT ![s] = "loop"] ELSE run
StartProducer(s) ==
    solo' = IF s \in Of({"send_to_queue"}) /\ CanSolo(config.target[s]) THEN solo \cup {s} ELSE solo
StartHeartbeat(s) ==
    timer' = IF s \in Of({"heartbeat"}) \ stopping THEN timer \cup {s} ELSE timer

StartStep ==
    /\ place = "start" /\ next > 0
    /\ LET s == Starting IN
        /\ started' = started \cup {s}
        /\ StartThread(s) /\ StartProducer(s) /\ StartHeartbeat(s)
    /\ Goto("start", next - 1)
    /\ UNCHANGED <<config, order, expected, stopping, halted, queue, stack, message, stopNext, count,
                   service, allStopped, received>>

Started ==
    /\ place = "start" /\ next = 0
    /\ Goto("wait", 0)
    /\ UNCHANGED <<config, order, lives, queue, calls, stopNext, count, asio, allStopped, received>>

\* SharedResources::wait, in an application that leaves it to the steps to stop,
Wait ==
    /\ place = "wait" /\ ~config.stops /\ allStopped
    /\ Goto("finish", 0)
    /\ UNCHANGED <<config, order, lives, queue, calls, stopNext, count, asio, allStopped, received>>

\* ... or that calls stop() itself.
Stop ==
    /\ place = "wait" /\ config.stops
    /\ stopNext' = [stopNext EXCEPT ![Main] = 1]
    /\ Goto("stop", 0)
    /\ UNCHANGED <<config, order, lives, queue, calls, count, asio, allStopped, received>>
Stopped ==
    /\ place = "stop" /\ stopNext[Main] = 0
    /\ Goto("finish", 0)
    /\ UNCHANGED <<config, order, lives, queue, calls, stopNext, count, asio, allStopped, received>>

\* Mutant: does not join.
Joined_AtOnce(t) == TRUE
Joined(t) == run[t] \in {"none", "ended"}

\* finish(): the AsioService's thread is joined, then each step's own.
JoinThreads ==
    /\ place = "finish" /\ next = 0 /\ Joined(Asio)
    /\ Goto("finish", 1)
    /\ UNCHANGED <<config, order, lives, queue, calls, stopNext, count, asio, allStopped, received>>
FinishStep ==
    /\ place = "finish" /\ next \in DOMAIN order
    /\ order[next] \in Threaded => Joined(order[next])
    /\ Goto("finish", next + 1)
    /\ UNCHANGED <<config, order, lives, queue, calls, stopNext, count, asio, allStopped, received>>
Finished ==
    /\ place = "finish" /\ next > Len(order)
    /\ Goto("done", 0)
    /\ UNCHANGED <<config, order, lives, queue, calls, stopNext, count, asio, allStopped, received>>
-----------------------------------------------------------------------------
(* SharedResources::stop(), in whatever thread *)

Proceed(t, n) == stopNext' = [stopNext EXCEPT ![t] = n]

StopService(t) ==
    /\ stopNext[t] = 1
    /\ service' = FALSE
    /\ Proceed(t, 2)
    /\ UNCHANGED <<config, order, place, next, lives, queue, calls, count, timer, allStopped, received>>

\* Mutant: stops the step, but not its Consumer or Producer.
StopQueue_Nothing(s) == halted' = halted
\* InputQueue::stop and SendToQueue::stop; a Consumer is there from the beginning, a
\* Producer only after start().
StopQueue(s) ==
    halted' = halted \cup ({s} \cap (Of({"input_queue"}) \cup (Of({"send_to_queue"}) \cap started)))
\* HeartbeatProducer::stop cancels the timer, which it does not have before start().
StopHeartbeat(s) ==
    /\ timer' = timer \ {s}
    /\ place' = IF s \in Of({"heartbeat"}) \ started THEN "crashed" ELSE place

\* One step->stop() after the other.
StopStep(t) ==
    /\ stopNext[t] - 1 \in DOMAIN order
    /\ LET s == order[stopNext[t] - 1] IN
        /\ StopQueue(s) /\ StopHeartbeat(s)
        /\ stopping' = stopping \cup {s}
    /\ Proceed(t, stopNext[t] + 1)
    /\ UNCHANGED <<config, order, next, expected, started, solo, queue, calls, count, service,
                   allStopped, received>>

StopNotify(t) ==
    /\ stopNext[t] = Len(order) + 2
    /\ allStopped' = TRUE
    /\ Proceed(t, 0)
    /\ UNCHANGED <<config, order, place, next, lives, queue, calls, count, asio, received>>
-----------------------------------------------------------------------------
(* handle(), and what returns from it *)

Message(type, source) == [type |-> type, source |-> source, number |-> count[source]]
\* A call of handle(): without a Producer it is a null pointer that publishes.
Call(s) == place' = IF s \in Of({"send_to_queue"}) \ started THEN "crashed" ELSE place
Frame(s) == [step |-> s, at |-> "enter", todo |-> <<>>]
Top(t) == Head(stack[t])
In(t, kinds, where) == stack[t] # <<>> /\ Top(t).at = where /\ Top(t).step \in Of(kinds)
Moves(t, where, todo) ==
    stack' = [stack EXCEPT ![t] = <<[Top(t) EXCEPT !.at = where, !.todo = todo]>> \o Tail(@)]
\* The innermost call still has to send to these.
Sends(t, todo) == Moves(t, "send", todo)
Increment(s) == count' = [count EXCEPT ![s] = @ + 1]

\* RoundRobin::handle: data messages go to one destination after the other.
InTurn(s) == <<Destinations(s)[1 + (count[s] % Len(Destinations(s)))]>>
\* Mutant: heartbeats and shutdowns too.
RoundRobin_ControlsOnce(s, type) == InTurn(s)
RoundRobin(s, type) == IF type = "data" THEN InTurn(s) ELSE Destinations(s)
\* FanOut::handle
FanOut(s) == Destinations(s)
Route(s, type) ==
    CASE s \in Of({"fan_out"}) -> FanOut(s)
      [] s \in Of({"round_robin"}) -> RoundRobin(s, type)
      [] OTHER -> <<Primary(s)>>

\* FanOut, RoundRobin and the pass-through steps; a round_robin counts data messages,
\* after sending them.
Pass(t) ==
    /\ In(t, {"forward", "fan_out", "round_robin"}, "enter")
    /\ LET s == Top(t).step IN
        /\ Sends(t, IF s \in stopping THEN <<>> ELSE Route(s, message[t].type))
        /\ IF s \in Of({"round_robin"}) \ stopping /\ message[t].type = "data"
             THEN Increment(s) ELSE UNCHANGED count
    /\ UNCHANGED <<config, order, place, next, lives, queue, run, message, stopNext, asio, allStopped,
                   received>>

\* A Stopper that has seen the shutdowns it expects calls stop() before it sends on.
Stopper(t) ==
    /\ In(t, {"stopper"}, "enter")
    /\ LET s == Top(t).step
           counts == s \notin stopping /\ message[t].type = "shutdown" IN
        /\ Sends(t, <<Primary(s)>>)
        /\ IF counts THEN Increment(s) ELSE UNCHANGED count
        /\ IF counts /\ count[s] + 1 >= config.limit THEN Proceed(t, 1) ELSE UNCHANGED stopNext
    /\ UNCHANGED <<config, order, place, next, lives, queue, run, message, asio, allStopped, received>>

\* A consumer handles every message, and stops at a shutdown.
Consume(t) ==
    /\ In(t, {"consumer"}, "enter")
    /\ LET s == Top(t).step IN
        /\ Sends(t, <<>>)
        /\ received' = [received EXCEPT ![s] = Append(@, message[t])]
        /\ stopping' = IF message[t].type = "shutdown" THEN stopping \cup {s} ELSE stopping
    /\ UNCHANGED <<config, order, place, next, expected, started, solo, halted, queue, run, message,
                   stopNext, count, asio, allStopped>>

\* SendToQueue::handle after publish(): a shutdown stops it.
PublishReturns(t) ==
    LET s == Top(t).step IN
    /\ Sends(t, <<>>)
    /\ IF message[t].type = "shutdown"
         THEN stopping' = stopping \cup {s} /\ halted' = halted \cup {s}
         ELSE UNCHANGED <<stopping, halted>>
    /\ UNCHANGED <<config, order, place, next, expected, started, solo, run, message, stopNext, count,
                   asio, allStopped, received>>

Publishes(t, where) == In(t, {"send_to_queue"}, where)
Target(t) == config.target[Top(t).step]
\* Mutant: off by one.
Full_Late(t) == Len(queue[Target(t)]) > config.capacity
Full(t) == Len(queue[Target(t)]) >= config.capacity
\* Mutant: also gives up when the queue is full.
Cancelled_Full(t) == Top(t).step \in halted \/ Full(t)
Cancelled(t) == Top(t).step \in halted

\* Mutant: puts the message before those that wait.
Put_First(q, m) == <<m>> \o queue[q]
Put(q, m) == Append(queue[q], m)

\* publish() puts the message into the queue when there is room, even when it is stopped
\* while it waits for that; a solo Producer does nothing when it has been stopped before,
Publish(t) ==
    /\ \/ Publishes(t, "enter") /\ ~(Top(t).step \in solo /\ Cancelled(t))
       \/ Publishes(t, "wait")
    /\ ~Full(t)
    /\ queue' = [queue EXCEPT ![Target(t)] = Put(Target(t), message[t])]
    /\ PublishReturns(t)
\* ... waits when there is none,
WaitToPublish(t) ==
    /\ Publishes(t, "enter") /\ Full(t) /\ ~Cancelled(t)
    /\ Moves(t, "wait", <<>>)
    /\ UNCHANGED <<config, order, place, next, lives, queue, run, message, stopNext, count, asio,
                   allStopped, received>>
\* ... and gives up when it is stopped,
GiveUp(t) ==
    /\ \/ Publishes(t, "enter") /\ (Top(t).step \in solo \/ Full(t))
       \/ Publishes(t, "wait")
    /\ Cancelled(t)
    /\ UNCHANGED queue
    /\ PublishReturns(t)
\* ... or when it times out: the exception ends every call of handle().  A step's thread
\* ends with it; the AsioService goes on, but the timer is not set again.
TimeOut(t) ==
    /\ config.timeouts /\ Publishes(t, "wait") /\ Full(t)
    /\ stack' = [stack EXCEPT ![t] = <<>>]
    /\ run' = [run EXCEPT ![t] = IF t = Asio THEN "loop" ELSE "ended"]
    /\ UNCHANGED <<config, order, place, next, lives, queue, message, stopNext, count, asio, allStopped,
                   received>>
\* Step::send, one destination after the other.
Send(t) ==
    /\ In(t, {config.kind[s] : s \in Steps}, "send") /\ Top(t).todo # <<>> /\ stopNext[t] = 0
    /\ stack' = [stack EXCEPT ![t] =
                    <<Frame(Head(Top(t).todo)), [Top(t) EXCEPT !.todo = Tail(@)]>> \o Tail(@)]
    /\ Call(Head(Top(t).todo))
    /\ UNCHANGED <<config, order, next, lives, queue, run, message, stopNext, count, asio,
                   allStopped, received>>

Return(t) ==
    /\ In(t, {config.kind[s] : s \in Steps}, "send") /\ Top(t).todo = <<>> /\ stopNext[t] = 0
    /\ stack' = [stack EXCEPT ![t] = Tail(@)]
    /\ UNCHANGED <<config, order, place, next, lives, queue, run, message, stopNext, count, asio,
                   allStopped, received>>
-----------------------------------------------------------------------------
(* The loops of the threads *)

At(t, where) == run[t] = where /\ stack[t] = <<>>
\* A source sends a message to its primary destination.
Emit(t, source, m) ==
    /\ run' = [run EXCEPT ![t] = "send"]
    /\ message' = [message EXCEPT ![t] = m]
    /\ stack' = [stack EXCEPT ![t] = <<Frame(Primary(source))>>]
    /\ Call(Primary(source))
Goes(t, where) == run' = [run EXCEPT ![t] = where]

\* MockMessageProducer::run: the messages, and a shutdown in any case.
More(p) == p \notin stopping /\ count[p] < config.messages
Produce(p) ==
    /\ At(p, "loop")
    /\ Emit(p, p, Message(IF More(p) THEN "data" ELSE "shutdown", p))
    /\ UNCHANGED <<config, order, next, lives, queue, stopNext, count, asio, allStopped, received>>
Produced(p) ==
    /\ At(p, "send")
    /\ IF message[p].type = "data" THEN Increment(p) /\ Goes(p, "loop")
                                   ELSE Goes(p, "ended") /\ UNCHANGED count
    /\ UNCHANGED <<config, order, place, next, lives, queue, stack, message, stopNext, asio, allStopped,
                   received>>

\* InputQueue::run
TestStopping(q) ==
    /\ run[q] \in {"loop", "send"} /\ stack[q] = <<>>
    /\ Goes(q, IF q \in stopping THEN "ended" ELSE "get")
    /\ UNCHANGED <<config, order, place, next, lives, queue, stack, message, stopNext, count, asio,
                   allStopped, received>>
\* getNext() finds a message,
GetNext(q) ==
    /\ At(q, "get") /\ queue[q] # <<>>
    /\ Emit(q, q, Head(queue[q]))
    /\ queue' = [queue EXCEPT ![q] = Tail(@)]
    /\ UNCHANGED <<config, order, next, lives, stopNext, count, asio, allStopped, received>>
\* ... has been stopped, and the step stops,
GetNothing(q) ==
    /\ At(q, "get") /\ q \in halted
    /\ stopping' = stopping \cup {q}
    /\ Goes(q, "ended")
    /\ UNCHANGED <<config, order, place, next, expected, started, solo, halted, queue, stack, message,
                   stopNext, count, asio, allStopped, received>>
\* ... or times out, and the exception ends the thread.
GetTimesOut(q) ==
    /\ config.timeouts /\ At(q, "get") /\ queue[q] = <<>>
    /\ Goes(q, "ended")
    /\ UNCHANGED <<config, order, place, next, lives, queue, stack, message, stopNext, count, asio,
                   allStopped, received>>

\* HeartbeatProducer::handleTimer
HandleTimer(h) ==
    /\ At(Asio, "loop") /\ service /\ h \in timer /\ count[h] < MaxHeartbeats
    /\ timer' = timer \ {h}
    /\ Emit(Asio, h, Message("heartbeat", h))
    /\ Increment(h)
    /\ UNCHANGED <<config, order, next, lives, queue, stopNext, service, allStopped, received>>
\* ... and startTimer at its end.
StartTimer ==
    /\ At(Asio, "send")
    /\ timer' = timer \cup ({message[Asio].source} \ stopping)
    /\ Goes(Asio, "loop")
    /\ UNCHANGED <<config, order, place, next, lives, queue, stack, message, stopNext, count, service,
                   allStopped, received>>
\* AsioService::run ends when it is stopped, or when nobody waits for a timer: run() then
\* returns, and returns 0 when it is called again.
ServiceEnds ==
    /\ At(Asio, "loop") /\ (~service \/ timer = {})
    /\ Goes(Asio, "ended")
    /\ UNCHANGED <<config, order, place, next, lives, queue, stack, message, stopNext, count, asio,
                   allStopped, received>>
-----------------------------------------------------------------------------
Handle(t) ==
    \/ Pass(t) \/ Stopper(t) \/ Consume(t)
    \/ Publish(t) \/ WaitToPublish(t) \/ GiveUp(t)
    \/ Send(t) \/ Return(t)
Stopping(t) == StopService(t) \/ StopStep(t) \/ StopNotify(t)
ThreadStep(t) ==
    \/ Handle(t) \/ Stopping(t)
    \/ t \in Of({"producer"}) /\ (Produce(t) \/ Produced(t))
    \/ t \in Of({"input_queue"}) /\ (TestStopping(t) \/ GetNext(t) \/ GetNothing(t))
    \/ t = Asio /\ (StartTimer \/ ServiceEnds)
    \/ /\ t = Main
       /\ \/ Construct \/ RunThreads \/ StartStep \/ Started \/ Wait \/ Stopped
          \/ JoinThreads \/ FinishStep \/ Finished
\* The clock, and what the application decides.
Outside ==
    \/ Stop
    \/ \E t \in Threads : TimeOut(t)
    \/ \E q \in Of({"input_queue"}) : GetTimesOut(q)
    \/ \E h \in Of({"heartbeat"}) : HandleTimer(h)

Next == place # "crashed" /\ ((\E t \in Threads : ThreadStep(t)) \/ Outside)

Spec == Init /\ [][Next]_vars

\* Each thread goes on running; nothing is assumed of the clock and of the application.
AllThreads == {Main, Asio} \cup
    UNION {{s \in DOMAIN c.kind : c.kind[s] \in {"producer", "input_queue"}} : c \in Configurations}
Turn(t) == place # "crashed" /\ t \in Threads /\ ThreadStep(t)
FairSpec == Spec /\ \A t \in AllThreads : WF_vars(Turn(t))
-----------------------------------------------------------------------------
(* Properties *)

Messages == [type : {"data", "heartbeat", "shutdown"}, source : Of({"producer", "heartbeat"}), number : Nat]
FramesOf(steps) == [step : steps, at : {"enter", "wait", "send"}, todo : Seq(steps)]

\* The types of the variables.
TypeOK ==
    /\ config \in Configurations /\ order \in Seq(Steps)
    /\ place \in {"construct", "threads", "start", "wait", "stop", "finish", "done", "crashed"}
    /\ next \in Nat
    /\ expected \in [Of({"input_queue"}) -> Nat]
    /\ started \cup stopping \cup halted \cup solo \cup timer \subseteq Steps
    /\ queue \in [Of({"input_queue"}) -> Seq(Messages)]
    /\ \A q \in Of({"input_queue"}) : Len(queue[q]) <= config.capacity
    /\ run \in [Threads -> {"none", "loop", "get", "send", "ended"}]
    /\ stack \in [Threads -> Seq(FramesOf(Steps))]
    /\ message \in [Threads -> {<<>>} \cup Messages]
    /\ \A t \in Threads : stack[t] # <<>> \/ run[t] = "send" => message[t] \in Messages
    /\ stopNext \in [Threads -> 0 .. Len(order) + 2]
    /\ count \in [Steps -> Nat]
    /\ service \in BOOLEAN /\ allStopped \in BOOLEAN
    /\ received \in [Of({"consumer"}) -> Seq(Messages)]

\* No message reaches a step before its start(), although threads run while later steps
\* have not been started: steps are started against the direction of the messages (and no
\* heartbeat is stopped before it has its timer).
StartedBeforeHandle ==
    /\ place # "crashed"
    /\ \A t \in Threads : stack[t] # <<>> => Top(t).step \in started

\* StartedBeforeHandle asks this of a configuration: whatever a source's messages reach
\* within its thread was added after the source, which a pipe nested in a source is not;
\* and no stopper can stop a heartbeat that has not been started.
Sources == {"producer", "heartbeat", "input_queue"}
SourcesFirst(c) ==
    LET added == Added(c) IN
    \A i \in DOMAIN added : c.kind[added[i]] \in Sources =>
        \A j \in i .. Len(added) : j = i \/ c.kind[added[j]] \notin Sources =>
            ToSet(Attached(c, added, added[j])) \subseteq {added[k] : k \in i + 1 .. Len(added)}
HeartbeatsUnstopped(c) ==
    \A s \in DOMAIN c.kind, h \in DOMAIN c.kind : c.kind[s] # "stopper" \/ c.kind[h] # "heartbeat"
Orderly(c) == SourcesFirst(c) /\ HeartbeatsUnstopped(c)

\* A Producer that is solo_ is the only one of its queue, then and later: HighQueue takes
\* this on trust (SoloAssumption).
SoloEstablished ==
    \A s \in solo, other \in Of({"send_to_queue"}) :
        config.target[other] = config.target[s] => other = s

\* A consumer gets the messages of a source in the order in which they were sent, none
\* twice; and none between two others is missing until the system is stopped, unless a
\* round_robin shares them out or a wait times out.
InOrder ==
    \A c \in Of({"consumer"}) : \A i, j \in DOMAIN received[c] :
        LET m == received[c][i]  n == received[c][j] IN
        i < j /\ m.source = n.source =>
            /\ m.number < n.number
            /\ service /\ ~config.timeouts /\ Of({"round_robin"}) = {} =>
                   \A between \in m.number .. n.number : \E k \in i .. j :
                       received[c][k].source = m.source /\ received[c][k].number = between

Received(c) == ToSet(received[c])
InTransit ==
    {message[t] : t \in {x \in Threads : stack[x] # <<>>}}
        \cup UNION {ToSet(queue[q]) : q \in Of({"input_queue"})}
\* Until the system is stopped, what a producer has sent is received by a consumer, or it
\* is in a queue or in the hands of a thread, unless a wait has timed out.
NothingLost ==
    service /\ ~config.timeouts =>
        \A p \in Of({"producer"}) : \A n \in 0 .. count[p] - 1 :
            [type |-> "data", source |-> p, number |-> n] \in
                InTransit \cup UNION {Received(c) : c \in Of({"consumer"})}

\* InOrder and NothingLost ask this of a configuration.  Messages take one way: no step
\* gets the messages of a source from two others, and no pipe leads to a step that does
\* not take messages.
PassesTo(c) ==
    LET added == Added(c) IN
    [s \in DOMAIN c.kind |->
        CASE c.kind[s] = "consumer" -> {}
          [] c.kind[s] = "send_to_queue" -> {c.target[s]}
          [] c.kind[s] \in {"fan_out", "round_robin"} -> ToSet(Attached(c, added, s))
          [] OTHER -> {Attached(c, added, s)[1]}]
\* What can be reached from a step: the smallest set that has it and all that its members
\* lead to.
Reached(to, s) ==
    {d \in DOMAIN to : \A S \in SUBSET DOMAIN to : s \in S /\ (\A x \in S : to[x] \subseteq S) => d \in S}
Origins(c) == {s \in DOMAIN c.kind : c.kind[s] \in {"producer", "heartbeat"}}
OneWay(c) ==
    LET to == PassesTo(c) IN
    /\ \A s \in DOMAIN c.kind : \A d \in to[s] : c.kind[s] = "send_to_queue" \/ c.kind[d] \notin Sources
    /\ \A p \in Origins(c) : \A r, s \in Reached(to, p) : r # s => to[r] \cap to[s] = {}
\* A send_to_queue that the shutdown of a producer stops has nothing else to send.
Unshared(c) ==
    LET to == PassesTo(c) IN
    \A s \in DOMAIN c.kind, p, o \in Origins(c) :
        c.kind[s] = "send_to_queue" /\ c.kind[p] = "producer" /\ s \in Reached(to, p) \cap Reached(to, o) => o = p

\* After finish() no thread handles a message or touches a queue: the steps, which are
\* destructed next, are not used any more.
QuietAfterFinish == [][place = "done" => UNCHANGED <<queue, stack, received>>]_vars

\* Once somebody has called stop(), finish() returns: no thread stays in a full or an
\* empty queue, wherever the steps were when they were stopped.
ShutsDown == ~service ~> place = "done"

\* Without being stopped a system that has been started comes to an end: the shutdown of
\* every producer reaches every consumer (where every producer has a way to every
\* consumer), unless a wait times out.
ShutdownReceived ==
    \A p \in Of({"producer"}), c \in Of({"consumer"}) :
        \E m \in ToSet(received[c]) : m.type = "shutdown" /\ m.source = p
ShutdownArrives == (place = "wait" /\ ~config.timeouts) ~> (~service \/ ShutdownReceived)

\* "5: Start ... 9: Stop" (the life cycle in Step.hpp): no step is stopped that has not been
\* started.  HeartbeatProducer::stop relies on it.
StartedBeforeStopped == stopping \subseteq started

\* "Generate heartbeat messages" (HeartbeatProducer.cpp): a heartbeat step that has been
\* started and waits for its timer has a thread that will serve it.
HeartbeatsServed == service /\ timer # {} => run[Asio] # "ended"
=============================================================================
