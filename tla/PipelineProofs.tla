---------------------------- MODULE PipelineProofs ----------------------------
(***************************************************************************)
(* Types, the start and the end of a system, for every set of              *)
(* configurations that Builder constructs; then the order: the messages of *)
(* a pipeline arrive in order and none is lost, whatever the pipes are, as *)
(* long as messages take one way and no send_to_queue is stopped by the    *)
(* shutdown of one producer while it has others to serve.                  *)
(***************************************************************************)
EXTENDS PipelineInvariant, FiniteSetTheorems, SequenceTheorems, TLAPS

\* Before start() nothing has begun; what Construct leaves behind.
Built ==
    /\ place \in {"construct", "threads"} =>
          /\ solo = {} /\ started = {} /\ timer = {}
          /\ \A t \in Threads : run[t] = "none" /\ stack[t] = <<>> /\ stopNext[t] = 0
    /\ IF place = "construct"
       THEN order = <<>>
       ELSE /\ order = Added(config)
            /\ expected = [q \in Of({"input_queue"}) |->
                              Cardinality({s \in Of({"send_to_queue"}) : config.target[s] = q})]
            /\ place = "start" => next <= Len(order)

\* A thread that does not run, or not any more, is in no call of handle().
Idle == \A t \in Threads : run[t] \in {"none", "ended"} => stack[t] = <<>>

BuildInv == TypeOK /\ Built /\ Idle

\* The Producers that are solo_ found themselves alone.
Soloists == \A s \in solo : s \in Of({"send_to_queue"}) /\ expected[config.target[s]] = 1

\* finish() has joined the threads of all steps up to next, and then all.
Joining ==
    /\ place = "finish" /\ next > 0 =>
          /\ Joined(Asio)
          /\ \A i \in 1 .. Len(order) : i < next /\ order[i] \in Threaded => Joined(order[i])
    /\ place = "done" => \A t \in Threads \ {Main} : Joined(t)
MainWaits == run[Main] = "none"

\* The steps that have been started are those from next on, with all that come after them.
Upward ==
    /\ \A i \in 1 .. Len(order) : order[i] \in started =>
          \A j \in i .. Len(order) : order[j] \in started
    /\ place = "start" => \A j \in next + 1 .. Len(order) : order[j] \in started
AllStarted == place \in {"wait", "stop", "finish", "done"} => Steps = started

\* Messages come from sources that have been started, ...
Running ==
    /\ \A t \in Threaded : run[t] # "none" => t \in started
    /\ timer \subseteq Of({"heartbeat"}) \cap started
    /\ run[Asio] = "send" => message[Asio].source \in Of({"heartbeat"}) \cap started
\* ... and stay among the steps behind such a source.
Supplied ==
    {order[j] : j \in {n \in 1 .. Len(order) :
        \E i \in 1 .. n - 1 : order[i] \in started \cap Of(Sources)}}
InSupplied == \A t \in Threads : stack[t] \in Seq(FramesOf(Supplied))
\* Whoever calls stop() finds every heartbeat started.
StopsLate == (\E t \in Threads : stopNext[t] # 0) => Of({"heartbeat"}) \subseteq started

StartInv == Upward /\ AllStarted /\ Running /\ InSupplied /\ StopsLate /\ place # "crashed"
-----------------------------------------------------------------------------
(* Who writes what *)
USE DEF lives, calls, asio, Goto, Proceed, Goes, At, Emit, Call, Sends, Moves, Increment

\* The application's thread from start to end.
Application ==
    \/ Construct \/ RunThreads \/ StartStep \/ Started \/ Wait \/ Stop \/ Stopped
    \/ JoinThreads \/ FinishStep \/ Finished
\* Every step is one of these.
StepOf(t) == Handle(t) \/ Stopping(t) \/ TimeOut(t)
SourceStep(s) ==
    \/ s \in Of({"producer"}) /\ (Produce(s) \/ Produced(s))
    \/ s \in Of({"input_queue"}) /\ (TestStopping(s) \/ GetNext(s) \/ GetNothing(s) \/ GetTimesOut(s))
    \/ s \in Of({"heartbeat"}) /\ HandleTimer(s)
LEMMA Actions ==
    ASSUME [Next]_vars
    PROVE  \/ UNCHANGED vars
           \/ /\ place # "crashed"
              /\ \/ (\E t \in Threads : StepOf(t)) \/ (\E s \in Steps : SourceStep(s))
                 \/ StartTimer \/ ServiceEnds \/ Application
<1>1. CASE UNCHANGED vars BY <1>1
<1>2. ASSUME NEW t \in Threads, ThreadStep(t)
      PROVE  \/ StepOf(t) \/ (t \in Steps /\ SourceStep(t))
             \/ StartTimer \/ ServiceEnds \/ Application
  <2>1. \A K : t \in Of(K) => t \in Steps BY DEF Of
  <2> QED BY <1>2, <2>1, Zenon DEF ThreadStep, StepOf, SourceStep, Application
<1>3. ASSUME Outside
      PROVE  \/ (\E t \in Threads : StepOf(t)) \/ (\E s \in Steps : SourceStep(s)) \/ Application
  <2>1. ASSUME NEW q \in Of({"input_queue"}), GetTimesOut(q) PROVE q \in Steps /\ SourceStep(q)
    BY <2>1 DEF SourceStep, Of
  <2>2. ASSUME NEW h \in Of({"heartbeat"}), HandleTimer(h) PROVE h \in Steps /\ SourceStep(h)
    BY <2>2 DEF SourceStep, Of
  <2> QED BY <1>3, <2>1, <2>2, Zenon DEF Outside, StepOf, Application
<1> QED BY <1>1, <1>2, <1>3, Zenon DEF Next

\* Every variable and the actions that may set it.
LEMMA Writers ==
    ASSUME [Next]_vars
    PROVE
           /\ UNCHANGED config
           /\ UNCHANGED <<order, expected>> \/ Construct
           /\ UNCHANGED <<started, solo>> \/ StartStep
           /\ UNCHANGED next \/ Application
           /\ UNCHANGED stopping \/ (\E q \in Of({"input_queue"}) : GetNothing(q))
                  \/ \E t \in Threads : StopStep(t) \/ Consume(t) \/ Publish(t) \/ GiveUp(t)
           /\ UNCHANGED halted \/ \E t \in Threads : StopStep(t) \/ Publish(t) \/ GiveUp(t)
           /\ UNCHANGED queue \/ (\E q \in Of({"input_queue"}) : GetNext(q))
                  \/ \E t \in Threads : Publish(t)
           /\ UNCHANGED message \/ (\E p \in Of({"producer"}) : Produce(p))
                  \/ (\E q \in Of({"input_queue"}) : GetNext(q))
                  \/ \E h \in Of({"heartbeat"}) : HandleTimer(h)
           /\ UNCHANGED stopNext \/ Stop
                  \/ \E t \in Threads : StopService(t) \/ StopStep(t) \/ StopNotify(t) \/ Stopper(t)
           /\ UNCHANGED count \/ (\E p \in Of({"producer"}) : Produced(p))
                  \/ (\E h \in Of({"heartbeat"}) : HandleTimer(h))
                  \/ \E t \in Threads : Pass(t) \/ Stopper(t)
           /\ UNCHANGED timer \/ StartStep \/ StartTimer \/ (\E t \in Threads : StopStep(t))
                  \/ \E h \in Of({"heartbeat"}) : HandleTimer(h)
           /\ UNCHANGED service \/ \E t \in Threads : StopService(t)
           /\ UNCHANGED allStopped \/ \E t \in Threads : StopNotify(t)
           /\ UNCHANGED received \/ \E t \in Threads : Consume(t)
<1>1. CASE UNCHANGED vars BY <1>1 DEF vars
<1>2. ASSUME NEW t \in Threads, Handle(t)
      PROVE  /\ UNCHANGED <<config, order, next, expected, started, solo, timer, service, allStopped>>
             /\ UNCHANGED <<run, message>>
             /\ UNCHANGED stopping \/ Consume(t) \/ Publish(t) \/ GiveUp(t)
             /\ UNCHANGED halted \/ Publish(t) \/ GiveUp(t)
             /\ UNCHANGED queue \/ Publish(t)
             /\ UNCHANGED stopNext \/ Stopper(t)
             /\ UNCHANGED count \/ Pass(t) \/ Stopper(t)
             /\ UNCHANGED received \/ Consume(t)
  BY <1>2 DEF Handle, Pass, Stopper, Consume, Publish, PublishReturns, WaitToPublish, GiveUp, Send, Return
<1>3. ASSUME NEW t \in Threads, Stopping(t)
      PROVE  /\ UNCHANGED <<config, order, next, expected, started, solo, queue, run, message, count, received>>
             /\ UNCHANGED <<stopping, halted, timer>> \/ StopStep(t)
             /\ UNCHANGED service \/ StopService(t)
             /\ UNCHANGED allStopped \/ StopNotify(t)
  BY <1>3 DEF Stopping, StopService, StopStep, StopNotify
<1>4. ASSUME NEW p \in Of({"producer"}), Produce(p) \/ Produced(p)
      PROVE  /\ UNCHANGED <<config, order, next, lives, queue, stopNext, asio, allStopped, received>>
             /\ UNCHANGED message \/ Produce(p)
             /\ UNCHANGED count \/ Produced(p)
  BY <1>4 DEF Produce, Produced
<1>5. ASSUME NEW q \in Of({"input_queue"}),
             TestStopping(q) \/ GetNext(q) \/ GetNothing(q) \/ GetTimesOut(q)
      PROVE  /\ UNCHANGED <<config, order, next, expected, started, solo, halted, stopNext, count, asio,
                            allStopped, received>>
             /\ UNCHANGED <<message, queue>> \/ GetNext(q)
             /\ UNCHANGED stopping \/ GetNothing(q)
  BY <1>5 DEF TestStopping, GetNext, GetNothing, GetTimesOut
<1>6. ASSUME StartTimer \/ ServiceEnds
      PROVE  /\ UNCHANGED <<config, order, next, lives, queue, message, stopNext, count, service,
                            allStopped, received>>
             /\ UNCHANGED timer \/ StartTimer
  BY <1>6 DEF StartTimer, ServiceEnds
<1>7. ASSUME Application
      PROVE  /\ UNCHANGED <<config, stopping, halted, queue, message, count, service, allStopped, received>>
             /\ UNCHANGED <<order, expected>> \/ Construct
             /\ UNCHANGED <<started, solo, timer>> \/ StartStep
             /\ UNCHANGED stopNext \/ Stop
  BY <1>7 DEF Application, Construct, RunThreads, StartStep, StartHeartbeat, Started, Wait, Stop, Stopped, JoinThreads,
      FinishStep, Finished
<1>8. ASSUME NEW t \in Threads, TimeOut(t)
      PROVE  UNCHANGED <<config, order, next, lives, queue, message, stopNext, count, asio, allStopped, received>>
  BY <1>8 DEF TimeOut
<1>9. ASSUME NEW h \in Of({"heartbeat"}), HandleTimer(h)
      PROVE  UNCHANGED <<config, order, next, lives, queue, stopNext, service, allStopped, received>>
  BY <1>9 DEF HandleTimer
<1>10. CASE \E t \in Threads : StepOf(t)
  <2> PICK t \in Threads : StepOf(t) BY <1>10
  <2>1. CASE Handle(t) BY <1>2, <2>1, Zenon
  <2>2. CASE Stopping(t) BY <1>3, <2>2, Zenon DEF Stopping
  <2>3. CASE TimeOut(t) BY <1>8, <2>3, Zenon
  <2> QED BY <2>1, <2>2, <2>3 DEF StepOf
<1>11. CASE \E s \in Steps : SourceStep(s)
  BY <1>11, <1>4, <1>5, <1>9 DEF SourceStep
<1>12. CASE StartTimer \/ ServiceEnds BY <1>12, <1>6
<1>13. CASE Application BY <1>13, <1>7 DEF Application
<1> QED BY <1>1, <1>10, <1>11, <1>12, <1>13, Actions
-----------------------------------------------------------------------------
(* Configurations and routes *)

\* What the assumptions say of the configuration at work.
LEMMA ConfigFacts ==
    ASSUME config \in Configurations
    PROVE  /\ WellFormed(config) /\ Constructed(config)
           /\ Main # Asio /\ Main \notin Steps /\ Asio \notin Steps /\ IsFiniteSet(Steps)
BY ConfigurationAssumption, ConstructionAssumption, ThreadAssumption DEF WellFormed, Steps

\* Destinations are steps, and a step that sends on has one.
LEMMA DestinationsType ==
    ASSUME config \in Configurations, order = Added(config), NEW s \in Steps
    PROVE  /\ Destinations(s) \in Seq(Steps)
           /\ config.kind[s] \notin Final => Destinations(s) # <<>>
BY ConfigFacts DEF Constructed, Destinations, Steps

\* A step sends to its destinations only.
LEMMA RouteType ==
    ASSUME NEW steps, NEW s \in Steps, Destinations(s) \in Seq(steps), Destinations(s) # <<>>,
           count \in [Steps -> Nat]
    PROVE  Primary(s) \in steps /\ \A type : Route(s, type) \in Seq(steps)
<1>1. /\ Len(Destinations(s)) \in Nat \ {0}
      /\ \A i \in 1 .. Len(Destinations(s)) : Destinations(s)[i] \in steps
  OBVIOUS
<1>2. Primary(s) \in steps BY <1>1 DEF Primary
<1>3. 1 + (count[s] % Len(Destinations(s))) \in 1 .. Len(Destinations(s))
  BY <1>1
<1>4. InTurn(s) \in Seq(steps) BY <1>1, <1>3 DEF InTurn
<1>5. <<Primary(s)>> \in Seq(steps) BY <1>2
<1>6. ASSUME NEW type PROVE Route(s, type) \in Seq(steps)
  <2>1. RoundRobin(s, type) \in Seq(steps) BY <1>4 DEF RoundRobin
  <2> QED BY <1>5, <2>1 DEF Route, FanOut
<1> QED BY <1>2, <1>6

\* The stacks hold calls of these steps only.
StacksIn(steps) == stack \in [Threads -> Seq(FramesOf(steps))]

\* The innermost call moves on.
LEMMA MovesType ==
    ASSUME NEW steps, StacksIn(steps), NEW t \in Threads, stack[t] # <<>>,
           NEW where \in {"enter", "wait", "send"}, NEW todo \in Seq(steps), Moves(t, where, todo)
    PROVE  stack' \in [Threads -> Seq(FramesOf(steps))]
<1> DEFINE frame == [Top(t) EXCEPT !.at = where, !.todo = todo]
<1>1. Top(t) \in FramesOf(steps) /\ Tail(stack[t]) \in Seq(FramesOf(steps))
  BY HeadTailProperties DEF StacksIn, Top
<1>2. frame \in FramesOf(steps) BY <1>1 DEF FramesOf
<1>3. <<frame>> \o Tail(stack[t]) \in Seq(FramesOf(steps)) BY <1>1, <1>2, ConcatProperties
<1> QED BY <1>3 DEF StacksIn

\* The steps that may send messages of their own, and the closed sets of steps: what
\* these and, of themselves, the other steps send to.
Emitters == {s \in Threaded : run[s] # "none"} \cup timer
Closed(steps) ==
    /\ steps \subseteq Steps
    /\ place # "construct" => \A s \in Steps :
           s \in Emitters \/ (s \in steps /\ config.kind[s] \notin Sources) => Destinations(s) \in Seq(steps)

\* No step makes a call outside a closed set.
LEMMA StacksStep ==
    ASSUME TypeOK, Built, [Next]_vars, NEW steps, Closed(steps), StacksIn(steps)
    PROVE  stack' \in [Threads -> Seq(FramesOf(steps))]
<1> USE DEF StacksIn
<1>1. CASE UNCHANGED stack BY <1>1
<1>2. ASSUME NEW t \in Threads, NEW kinds, NEW where, In(t, kinds, where)
      PROVE  /\ stack[t] # <<>> /\ Top(t) \in FramesOf(steps) /\ Top(t).step \in steps \cap Steps
             /\ config.kind[Top(t).step] \in kinds /\ Top(t).todo \in Seq(steps)
             /\ place # "construct" /\ order = Added(config)
  <2>1. stack[t] # <<>> /\ Top(t) \in FramesOf(steps) BY <1>2, HeadTailProperties DEF In, Top
  <2>2. place # "construct" BY <1>2 DEF In, Built
  <2> QED BY <1>2, <2>1, <2>2 DEF In, Of, FramesOf, Closed, Built
<1>3. ASSUME NEW t \in Threads, Pass(t) \/ Stopper(t) PROVE stack' \in [Threads -> Seq(FramesOf(steps))]
  <2> DEFINE s == Top(t).step
  <2>1. In(t, {"forward", "fan_out", "round_robin", "stopper"}, "enter") BY <1>3 DEF Pass, Stopper, In, Of
  <2>2. s \in steps \cap Steps /\ config.kind[s] \in {"forward", "fan_out", "round_robin", "stopper"}
        /\ order = Added(config) /\ stack[t] # <<>> /\ place # "construct"
    BY <2>1, <1>2
  <2>3. Destinations(s) \in Seq(steps) /\ Destinations(s) # <<>>
    BY <2>2, DestinationsType DEF Closed, Sources, Final, TypeOK
  <2>4. Primary(s) \in steps /\ \A type : Route(s, type) \in Seq(steps)
    BY <2>2, <2>3, RouteType DEF TypeOK
  <2>5. <<Primary(s)>> \in Seq(steps) /\ <<>> \in Seq(steps) BY <2>4
  <2>6. PICK todo \in Seq(steps) : Moves(t, "send", todo)
    BY <1>3, <2>4, <2>5 DEF Pass, Stopper
  <2> QED BY <2>2, <2>6, MovesType
<1>4. ASSUME NEW t \in Threads, Consume(t) \/ Publish(t) \/ WaitToPublish(t) \/ GiveUp(t)
      PROVE  stack' \in [Threads -> Seq(FramesOf(steps))]
  <2>1. stack[t] # <<>> BY <1>4 DEF Consume, Publish, WaitToPublish, GiveUp, Publishes, In
  <2>2. Moves(t, "send", <<>>) \/ Moves(t, "wait", <<>>)
    BY <1>4 DEF Consume, Publish, WaitToPublish, GiveUp, PublishReturns
  <2>3. <<>> \in Seq(steps) OBVIOUS
  <2> QED BY <2>1, <2>2, <2>3, MovesType
<1>5. ASSUME NEW t \in Threads, Send(t) PROVE stack' \in [Threads -> Seq(FramesOf(steps))]
  <2> DEFINE to == Head(Top(t).todo)  rest == Tail(Top(t).todo)
  <2>1. stack[t] # <<>> /\ Top(t) \in FramesOf(steps) /\ Top(t).todo \in Seq(steps) /\ Top(t).todo # <<>>
    BY <1>5, <1>2 DEF Send
  <2>2. to \in steps /\ rest \in Seq(steps) BY <2>1, HeadTailProperties
  <2>3. Frame(to) \in FramesOf(steps) /\ [Top(t) EXCEPT !.todo = rest] \in FramesOf(steps)
    <3>1. <<>> \in Seq(steps) OBVIOUS
    <3>2. Frame(to) \in FramesOf(steps) BY <2>2, <3>1 DEF FramesOf, Frame
    <3> QED BY <2>1, <2>2, <3>2 DEF FramesOf
  <2>4. <<Frame(to), [Top(t) EXCEPT !.todo = rest]>> \in Seq(FramesOf(steps)) BY <2>3
  <2>5. Tail(stack[t]) \in Seq(FramesOf(steps)) BY <2>1, HeadTailProperties
  <2>6. <<Frame(to), [Top(t) EXCEPT !.todo = rest]>> \o Tail(stack[t]) \in Seq(FramesOf(steps))
    BY <2>4, <2>5, ConcatProperties
  <2> QED BY <1>5, <2>6 DEF Send
<1>6. ASSUME NEW t \in Threads, Return(t) \/ TimeOut(t) PROVE stack' \in [Threads -> Seq(FramesOf(steps))]
  <2>1. CASE TimeOut(t)
    <3>1. <<>> \in Seq(FramesOf(steps)) OBVIOUS
    <3>2. stack' = [stack EXCEPT ![t] = <<>>] BY <2>1 DEF TimeOut
    <3> QED BY <3>1, <3>2
  <2>2. CASE Return(t)
    <3>1. stack' = [stack EXCEPT ![t] = Tail(@)] /\ stack[t] # <<>> BY <2>2 DEF Return, In
    <3> QED BY <3>1, HeadTailProperties
  <2> QED BY <1>6, <2>1, <2>2
<1>7. ASSUME NEW t \in Threads, NEW s \in Emitters \cap Steps, config.kind[s] \in Sources,
             place # "construct", stack' = [stack EXCEPT ![t] = <<Frame(Primary(s))>>]
      PROVE  stack' \in [Threads -> Seq(FramesOf(steps))]
  <2>1. Destinations(s) \in Seq(steps) /\ Destinations(s) # <<>>
    BY <1>7, DestinationsType DEF Closed, Sources, Final, TypeOK, Built
  <2>2. Primary(s) \in steps BY <2>1, RouteType DEF TypeOK
  <2>3. <<Frame(Primary(s))>> \in Seq(FramesOf(steps)) BY <2>2 DEF Frame, FramesOf
  <2> QED BY <1>7, <2>3
<1>8. ASSUME NEW s \in Steps, SourceStep(s) PROVE stack' \in [Threads -> Seq(FramesOf(steps))]
  <2>1. CASE s \in Of({"producer"}) /\ Produce(s)
    BY <2>1, <1>7 DEF Produce, Of, Sources, Emitters, Threaded, Threads, Built
  <2>2. CASE s \in Of({"input_queue"}) /\ GetNext(s)
    BY <2>2, <1>7 DEF GetNext, Of, Sources, Emitters, Threaded, Threads, Built
  <2>3. CASE s \in Of({"heartbeat"}) /\ HandleTimer(s)
    BY <2>3, <1>7 DEF HandleTimer, Of, Sources, Emitters, Threads, Built
  <2> QED
    BY <1>8, <2>1, <2>2, <2>3, <1>1 DEF SourceStep, Produced, TestStopping, GetNothing, GetTimesOut
<1>9. UNCHANGED stack \/ (\E t \in Threads : Handle(t) \/ TimeOut(t)) \/ \E s \in Steps : SourceStep(s)
  BY Actions DEF vars, StepOf, Stopping, StopService, StopStep, StopNotify, StartTimer, ServiceEnds,
      Application, Construct, RunThreads, StartStep, Started, Wait, Stop, Stopped, JoinThreads, FinishStep,
      Finished
<1> QED BY <1>1, <1>3, <1>4, <1>5, <1>6, <1>8, <1>9 DEF Handle
-----------------------------------------------------------------------------
(* Types *)

\* At first everything is typed, and nothing has begun.
LEMMA BuildInit == Init => BuildInv
<1> SUFFICES ASSUME Init PROVE BuildInv OBVIOUS
<1> USE DEF Init
<1>1. \A S : <<>> \in Seq(S) /\ Len(<<>>) = 0 BY EmptySeq
<1>2. config \in Configurations /\ order \in Seq(Steps) BY <1>1
<1>3. config.capacity \in Nat BY <1>2, ConfigFacts DEF WellFormed
<1>4. queue \in [Of({"input_queue"}) -> Seq(Messages)] /\ \A q \in Of({"input_queue"}) : Len(queue[q]) = 0
  BY <1>1
<1>5. stack \in [Threads -> Seq(FramesOf(Steps))] /\ received \in [Of({"consumer"}) -> Seq(Messages)]
  BY <1>1
<1>6. stopNext \in [Threads -> 0 .. Len(order) + 2] BY <1>1
<1>7. /\ expected \in [Of({"input_queue"}) -> Nat] /\ count \in [Steps -> Nat]
      /\ run \in [Threads -> {"none", "loop", "get", "send", "ended"}]
      /\ message \in [Threads -> {<<>>} \cup Messages]
      /\ \A t \in Threads : stack[t] = <<>> /\ run[t] = "none"
  OBVIOUS
<1>8. \A q \in Of({"input_queue"}) : Len(queue[q]) <= config.capacity BY <1>3, <1>4
<1>9. /\ place \in {"construct"} /\ next \in Nat /\ started \cup stopping \cup halted \cup solo \cup timer \subseteq Steps
      /\ service \in BOOLEAN /\ allStopped \in BOOLEAN
  OBVIOUS
<1>10. TypeOK
  <2> HIDE DEF Init
  <2> QED BY <1>2, <1>4, <1>5, <1>6, <1>7, <1>8, <1>9, Zenon DEF TypeOK
<1> QED BY <1>10 DEF BuildInv, Built, Idle

\* What a thread in a call of handle() has in its hands.
LEMMA InFacts ==
    ASSUME BuildInv, NEW t \in Threads, NEW kinds, NEW where, In(t, kinds, where)
    PROVE  /\ stack[t] # <<>> /\ Top(t) \in FramesOf(Steps) /\ Top(t).step \in Steps
           /\ config.kind[Top(t).step] \in kinds /\ message[t] \in Messages
           /\ place # "construct" /\ order = Added(config) /\ run[t] \notin {"none", "ended"}
<1>1. stack[t] # <<>> /\ Top(t) \in FramesOf(Steps) BY HeadTailProperties DEF In, Top, BuildInv, TypeOK
<1>2. Top(t).step \in Steps BY <1>1 DEF FramesOf
<1> QED BY <1>1, <1>2 DEF BuildInv, In, Of, Built, Idle, TypeOK

\* The send_to_queue steps know their queue.
LEMMA TargetType ==
    ASSUME config \in Configurations, NEW s \in Of({"send_to_queue"})
    PROVE  config.target[s] \in Of({"input_queue"})
BY ConfigFacts DEF WellFormed, Of, Steps

\* A message of a source.
LEMMA MessageType ==
    ASSUME TypeOK, NEW s \in Of({"producer", "heartbeat"}), NEW type \in {"data", "heartbeat", "shutdown"}
    PROVE  Message(type, s) \in Messages
BY DEF TypeOK, Message, Messages, Of

\* The configuration stays, and with it everything that is defined by it.
LEMMA SameSteps ==
    ASSUME [Next]_vars
    PROVE  /\ config' = config /\ Steps' = Steps /\ (\A K : Of(K)' = Of(K))
           /\ Threaded' = Threaded /\ Threads' = Threads /\ Messages' = Messages
BY Writers DEF Steps, Of, Threaded, Threads, Messages

\* The application's thread: its place, the order of the steps.
LEMMA PlaceStep ==
    ASSUME BuildInv, [Next]_vars
    PROVE  /\ place' \in {"construct", "threads", "start", "wait", "stop", "finish", "done", "crashed"}
           /\ place' = "construct" => place = "construct"
           /\ place' # place => place' = "crashed" \/ Application
           /\ next' \in Nat
<1>1. CASE Application
  BY <1>1 DEF BuildInv, TypeOK, Application, Construct, RunThreads, StartStep, Started, Wait, Stop, Stopped,
      JoinThreads, FinishStep, Finished
<1>2. CASE ~Application
  <2>1. next' \in Nat BY <1>2, Writers DEF BuildInv, TypeOK
  <2>2. place' = place \/ place' = "crashed"
    <3>1. ASSUME NEW t \in Threads, StepOf(t) PROVE place' = place \/ place' = "crashed"
      BY <3>1 DEF StepOf, Handle, Pass, Stopper, Consume, Publish, PublishReturns, WaitToPublish, GiveUp, Send,
          Return, Stopping, StopService, StopStep, StopHeartbeat, StopNotify, TimeOut
    <3>2. ASSUME NEW s \in Steps, SourceStep(s) PROVE place' = place \/ place' = "crashed"
      BY <3>2 DEF SourceStep, Produce, Produced, TestStopping, GetNext, GetNothing, GetTimesOut, HandleTimer
    <3> QED BY <1>2, <3>1, <3>2, Actions DEF vars, StartTimer, ServiceEnds
  <2> QED BY <2>1, <2>2 DEF BuildInv, TypeOK
<1> QED BY <1>1, <1>2

\* Construct leaves the order and the number of Producers that Built describes.
LEMMA ConstructType ==
    ASSUME BuildInv, [Next]_vars
    PROVE  /\ order' \in Seq(Steps) /\ Len(order') >= Len(order)
           /\ expected' \in [Of({"input_queue"}) -> Nat]
<1>1. CASE UNCHANGED <<order, expected>> BY <1>1 DEF BuildInv, TypeOK
<1>2. CASE Construct
  <2>1. Added(config) \in Seq(Steps) /\ Len(order) = 0
    BY <1>2, ConfigFacts DEF BuildInv, TypeOK, Built, Construct, Constructed, Steps
  <2>2. ASSUME NEW q PROVE Cardinality({s \in Of({"send_to_queue"}) : config.target[s] = q}) \in Nat
    <3>1. {s \in Of({"send_to_queue"}) : config.target[s] = q} \in SUBSET Steps BY DEF Of
    <3> QED BY <3>1, ConfigFacts, FS_Subset, FS_CardinalityType DEF BuildInv, TypeOK
  <2>3. DOMAIN expected = Of({"input_queue"}) BY DEF BuildInv, TypeOK
  <2>4. expected' \in [Of({"input_queue"}) -> Nat] BY <1>2, <2>2, <2>3 DEF Construct
  <2>5. order' = Added(config) BY <1>2 DEF Construct
  <2> QED BY <2>1, <2>4, <2>5
<1> QED BY <1>1, <1>2, Writers

\* What is started, stopped or waited for is a step.
LEMMA SetsType ==
    ASSUME BuildInv, [Next]_vars
    PROVE  (started \cup stopping \cup halted \cup solo \cup timer)' \subseteq Steps
<1> USE DEF BuildInv, TypeOK
<1>1. ASSUME StartStep PROVE started' \cup solo' \cup timer' \subseteq Steps
  <2>1. order[next] \in Steps BY <1>1, ElementOfSeq DEF StartStep, Built
  <2> QED BY <1>1, <2>1 DEF StartStep, Starting, StartProducer, StartHeartbeat, Of
<1>2. ASSUME NEW t \in Threads, StopStep(t) PROVE stopping' \cup halted' \cup timer' \subseteq Steps
  <2>1. order[stopNext[t] - 1] \in Steps BY <1>2, ElementOfSeq, LenProperties DEF StopStep
  <2> QED BY <1>2, <2>1 DEF StopStep, StopQueue, StopHeartbeat
<1>3. ASSUME NEW t \in Threads, Consume(t) \/ Publish(t) \/ GiveUp(t)
      PROVE  stopping' \cup halted' \subseteq Steps
  <2>1. PICK where : In(t, {"consumer"}, where) \/ In(t, {"send_to_queue"}, where)
    BY <1>3 DEF Consume, Publish, GiveUp, Publishes
  <2>2. Top(t).step \in Steps BY <2>1, InFacts
  <2> QED BY <1>3, <2>2 DEF Consume, Publish, GiveUp, PublishReturns
<1>4. ASSUME NEW q \in Of({"input_queue"}), GetNothing(q) PROVE stopping' \subseteq Steps
  BY <1>4 DEF GetNothing, Of
<1>5. ASSUME StartTimer PROVE timer' \subseteq Steps
  BY <1>5 DEF StartTimer, Messages, Of, Threads
<1>6. ASSUME NEW h \in Of({"heartbeat"}), HandleTimer(h) PROVE timer' \subseteq Steps
  BY <1>6 DEF HandleTimer
<1>7. started' \cup solo' \subseteq Steps BY <1>1, Writers
<1>8. stopping' \subseteq Steps BY <1>2, <1>3, <1>4, Writers
<1>9. halted' \subseteq Steps BY <1>2, <1>3, Writers
<1>10. timer' \subseteq Steps BY <1>1, <1>2, <1>5, <1>6, Writers
<1> QED BY <1>7, <1>8, <1>9, <1>10

\* Queues hold messages, and no more than their capacity.
LEMMA QueueType ==
    ASSUME BuildInv, [Next]_vars
    PROVE  /\ queue' \in [Of({"input_queue"}) -> Seq(Messages)]
           /\ \A q \in Of({"input_queue"}) : Len(queue'[q]) <= config.capacity
<1> USE DEF BuildInv, TypeOK
<1>1. CASE UNCHANGED queue BY <1>1
<1>2. ASSUME NEW t \in Threads, Publish(t)
      PROVE  /\ queue' \in [Of({"input_queue"}) -> Seq(Messages)]
             /\ \A q \in Of({"input_queue"}) : Len(queue'[q]) <= config.capacity
  <2>1. Publishes(t, "enter") \/ Publishes(t, "wait") BY <1>2 DEF Publish
  <2>2. Top(t).step \in Of({"send_to_queue"}) /\ message[t] \in Messages
    BY <2>1, InFacts DEF Publishes, In
  <2>3. Target(t) \in Of({"input_queue"}) BY <2>2, TargetType DEF Target
  <2> DEFINE q == Target(t)  longer == Append(queue[q], message[t])
  <2>4. longer \in Seq(Messages) /\ Len(longer) = Len(queue[q]) + 1 BY <2>2, <2>3, AppendProperties
  <2>5. config.capacity \in Nat /\ Len(queue[q]) \in Nat BY <2>3, ConfigFacts, LenProperties DEF WellFormed
  <2>6. Len(longer) <= config.capacity BY <1>2, <2>4, <2>5 DEF Publish, Full
  <2>7. queue' = [queue EXCEPT ![q] = longer] BY <1>2 DEF Publish, Put
  <2> HIDE DEF longer
  <2> QED BY <2>3, <2>4, <2>6, <2>7
<1>3. ASSUME NEW q \in Of({"input_queue"}), GetNext(q)
      PROVE  /\ queue' \in [Of({"input_queue"}) -> Seq(Messages)]
             /\ \A r \in Of({"input_queue"}) : Len(queue'[r]) <= config.capacity
  <2> DEFINE shorter == Tail(queue[q])
  <2>1. shorter \in Seq(Messages) /\ Len(shorter) = Len(queue[q]) - 1
    BY <1>3, HeadTailProperties DEF GetNext
  <2>2. config.capacity \in Nat /\ Len(queue[q]) \in Nat BY ConfigFacts, LenProperties DEF WellFormed
  <2>3. queue' = [queue EXCEPT ![q] = shorter] BY <1>3 DEF GetNext
  <2>4. Len(shorter) <= config.capacity BY <2>1, <2>2
  <2> HIDE DEF shorter
  <2> QED BY <2>1, <2>3, <2>4
<1> QED BY <1>1, <1>2, <1>3, Writers

\* What the stacks hold.
LEMMA StackType == ASSUME BuildInv, [Next]_vars PROVE stack' \in [Threads -> Seq(FramesOf(Steps))]
<1>1. Closed(Steps) BY DestinationsType DEF Closed, BuildInv, Built, TypeOK
<1> QED BY <1>1, StacksStep DEF BuildInv, TypeOK, StacksIn

\* How a thread can go on: within handle(), by sending a message of its source, from one
\* place of its loop to another, or from nothing when it is started.
Moved(t) ==
    \/ /\ run'[t] = run[t] /\ message'[t] = message[t]
       /\ stack[t] = <<>> => stack'[t] = <<>>
    \/ run[t] \notin {"none", "ended"} /\ run'[t] = "send" /\ message'[t] \in Messages
    \/ /\ run[t] \notin {"none", "ended"} /\ run'[t] \in {"loop", "get", "ended"}
       /\ message'[t] = message[t] /\ stack'[t] = <<>>
    \/ /\ (StartStep /\ run'[t] = "loop") \/ (RunThreads /\ stack[t] = <<>> /\ run'[t] \in {"none", "loop"})
       /\ message'[t] = message[t] /\ stack'[t] = stack[t]
LEMMA ThreadsMove == ASSUME BuildInv, [Next]_vars PROVE \A t \in Threads : Moved(t)
<1> USE DEF BuildInv, TypeOK
<1>1. CASE UNCHANGED <<run, stack, message>> BY <1>1 DEF Moved
<1>2. ASSUME NEW u \in Threads, Handle(u) PROVE \A t \in Threads : Moved(t)
  <2>1. UNCHANGED <<run, message>> /\ stack[u] # <<>>
    BY <1>2 DEF Handle, Pass, Stopper, Consume, Publish, PublishReturns, WaitToPublish, GiveUp, Send, Return,
        Publishes, In
  <2>2. \A t \in Threads \ {u} : stack'[t] = stack[t]
    BY <1>2 DEF Handle, Pass, Stopper, Consume, Publish, PublishReturns, WaitToPublish, GiveUp, Send, Return
  <2> QED BY <2>1, <2>2 DEF Moved
<1>3. ASSUME NEW u \in Threads, TimeOut(u) PROVE \A t \in Threads : Moved(t)
  <2>1. run[u] \notin {"none", "ended"} BY <1>3, InFacts DEF TimeOut, Publishes
  <2> QED BY <1>3, <2>1 DEF TimeOut, Moved
<1>4. ASSUME NEW s \in Threads, NEW m \in Messages, NEW source, Emit(s, source, m),
             run[s] \notin {"none", "ended"}
      PROVE  \A t \in Threads : Moved(t)
  BY <1>4 DEF Moved
<1>5. ASSUME NEW s \in Threads, NEW w \in {"loop", "get", "ended"}, Goes(s, w), stack[s] = <<>>,
             run[s] \notin {"none", "ended"}, UNCHANGED <<stack, message>>
      PROVE  \A t \in Threads : Moved(t)
  BY <1>5 DEF Moved
<1>6. ASSUME NEW p \in Of({"producer"}), Produce(p) \/ Produced(p) PROVE \A t \in Threads : Moved(t)
  <2>1. p \in Threads BY DEF Threads, Threaded, Of
  <2>2. CASE Produce(p)
    <3>1. p \in Of({"producer", "heartbeat"}) BY DEF Of
    <3>2. PICK type \in {"data", "shutdown"} : Emit(p, p, Message(type, p)) BY <2>2, Zenon DEF Produce
    <3>3. Message(type, p) \in Messages BY <3>1, <3>2, MessageType
    <3>4. run[p] = "loop" BY <2>2 DEF Produce
    <3> QED BY <1>4, <2>1, <3>2, <3>3, <3>4
  <2>3. CASE Produced(p) BY <1>5, <2>1, <2>3 DEF Produced
  <2> QED BY <1>6, <2>2, <2>3
<1>7. ASSUME NEW q \in Of({"input_queue"}), TestStopping(q) \/ GetNext(q) \/ GetNothing(q) \/ GetTimesOut(q)
      PROVE  \A t \in Threads : Moved(t)
  <2>1. q \in Threads BY DEF Threads, Threaded, Of
  <2>2. CASE GetNext(q)
    <3>1. Head(queue[q]) \in Messages BY <2>2, HeadTailProperties DEF GetNext
    <3> QED BY <1>4, <2>1, <2>2, <3>1 DEF GetNext
  <2>3. CASE TestStopping(q) BY <1>5, <2>1, <2>3 DEF TestStopping
  <2>4. CASE GetNothing(q) \/ GetTimesOut(q) BY <1>5, <2>1, <2>4 DEF GetNothing, GetTimesOut
  <2> QED BY <1>7, <2>2, <2>3, <2>4
<1>8. ASSUME NEW h \in Of({"heartbeat"}), HandleTimer(h) PROVE \A t \in Threads : Moved(t)
  <2>1. Asio \in Threads /\ h \in Of({"producer", "heartbeat"}) BY DEF Threads, Of
  <2>2. Message("heartbeat", h) \in Messages BY <2>1, MessageType
  <2> QED BY <1>4, <1>8, <2>1, <2>2 DEF HandleTimer
<1>9. ASSUME StartTimer \/ ServiceEnds PROVE \A t \in Threads : Moved(t)
  BY <1>5, <1>9 DEF StartTimer, ServiceEnds, Threads
<1>10. ASSUME RunThreads \/ StartStep PROVE \A t \in Threads : Moved(t)
  <2>1. CASE RunThreads BY <2>1 DEF RunThreads, Moved, Built
  <2>2. CASE StartStep BY <2>2 DEF StartStep, StartThread, Moved
  <2> QED BY <1>10, <2>1, <2>2
<1>11. CASE Application
  BY <1>1, <1>10, <1>11 DEF Application, Construct, Started, Wait, Stop, Stopped, JoinThreads, FinishStep, Finished
<1>12. ASSUME NEW t \in Threads, Stopping(t) PROVE UNCHANGED <<run, stack, message>>
  BY <1>12 DEF Stopping, StopService, StopStep, StopNotify
<1>13. CASE \E t \in Threads : StepOf(t) BY <1>1, <1>2, <1>3, <1>12, <1>13 DEF StepOf
<1>14. CASE \E s \in Steps : SourceStep(s) BY <1>6, <1>7, <1>8, <1>14 DEF SourceStep
<1> QED BY <1>1, <1>9, <1>11, <1>13, <1>14, Actions DEF vars

\* Where the threads are, with what message, and that those that do not run do nothing.
LEMMA RunType ==
    ASSUME BuildInv, [Next]_vars
    PROVE  /\ run' \in [Threads -> {"none", "loop", "get", "send", "ended"}]
           /\ message' \in [Threads -> {<<>>} \cup Messages]
           /\ \A t \in Threads : stack'[t] # <<>> \/ run'[t] = "send" => message'[t] \in Messages
           /\ \A t \in Threads : run'[t] \in {"none", "ended"} => stack'[t] = <<>>
<1> USE DEF BuildInv, TypeOK
<1>1. DOMAIN run' = Threads /\ run' = [t \in Threads |-> run'[t]]
  <2>1. ASSUME NEW t \in Threads, StepOf(t) PROVE run' = [u \in Threads |-> run'[u]]
    BY <2>1 DEF StepOf, Handle, Pass, Stopper, Consume, Publish, PublishReturns, WaitToPublish, GiveUp, Send,
        Return, Stopping, StopService, StopStep, StopNotify, TimeOut
  <2>2. ASSUME NEW s \in Steps, SourceStep(s) PROVE run' = [u \in Threads |-> run'[u]]
    BY <2>2 DEF SourceStep, Produce, Produced, TestStopping, GetNext, GetNothing, GetTimesOut, HandleTimer
  <2>3. ASSUME Application PROVE run' = [u \in Threads |-> run'[u]]
    BY <2>3 DEF Application, Construct, RunThreads, StartStep, StartThread, Started, Wait, Stop, Stopped,
        JoinThreads, FinishStep, Finished
  <2>4. run' = [u \in Threads |-> run'[u]]
    BY <2>1, <2>2, <2>3, Actions DEF vars, StartTimer, ServiceEnds
  <2> QED BY <2>4
<1>2. message' = [t \in Threads |-> message'[t]]
  BY Writers DEF Produce, GetNext, HandleTimer
<1>3. run' \in [Threads -> {"none", "loop", "get", "send", "ended"}]
  BY <1>1, ThreadsMove DEF Moved
<1>4. message' \in [Threads -> {<<>>} \cup Messages]
  BY <1>2, ThreadsMove DEF Moved
<1>5. \A t \in Threads : stack'[t] # <<>> \/ run'[t] = "send" => message'[t] \in Messages
  BY ThreadsMove DEF Moved
<1>6. \A t \in Threads : run'[t] \in {"none", "ended"} => stack'[t] = <<>>
  BY ThreadsMove DEF Moved, Idle
<1> QED BY <1>3, <1>4, <1>5, <1>6

\* What threads count, their places in stop(), and what consumers have received.
LEMMA CountType ==
    ASSUME BuildInv, [Next]_vars
    PROVE  /\ stopNext' \in [Threads -> 0 .. Len(order') + 2]
           /\ count' \in [Steps -> Nat]
           /\ service' \in BOOLEAN /\ allStopped' \in BOOLEAN
           /\ received' \in [Of({"consumer"}) -> Seq(Messages)]
<1> USE DEF BuildInv, TypeOK
<1>1. Len(order) \in Nat /\ Len(order') \in Nat /\ Len(order') >= Len(order)
  BY ConstructType, LenProperties
<1>2. stopNext' \in [Threads -> 0 .. Len(order) + 2]
  <2>1. ASSUME NEW t, NEW n \in 0 .. Len(order) + 2, Proceed(t, n)
        PROVE  stopNext' \in [Threads -> 0 .. Len(order) + 2]
    BY <2>1
  <2>2. {0, 1, 2} \subseteq 0 .. Len(order) + 2 BY <1>1
  <2>3. ASSUME NEW t \in Threads, StopService(t) \/ StopNotify(t) \/ Stopper(t)
        PROVE  UNCHANGED stopNext \/ \E n \in {0, 1, 2} : Proceed(t, n)
    BY <2>3 DEF StopService, StopNotify, Stopper
  <2>4. ASSUME NEW t \in Threads, StopStep(t) PROVE \E n \in 0 .. Len(order) + 2 : Proceed(t, n)
    <3>1. stopNext[t] - 1 \in 1 .. Len(order) BY <2>4, LenProperties DEF StopStep
    <3>2. stopNext[t] + 1 \in 0 .. Len(order) + 2 BY <1>1, <3>1
    <3>3. Proceed(t, stopNext[t] + 1) BY <2>4 DEF StopStep
    <3> HIDE DEF Proceed
    <3> QED BY <3>2, <3>3
  <2>5. Stop => Proceed(Main, 1) BY DEF Stop
  <2> HIDE DEF Proceed
  <2>6. CASE \E t \in Threads : StopService(t) \/ StopStep(t) \/ StopNotify(t) \/ Stopper(t)
    BY <2>1, <2>2, <2>3, <2>4, <2>6
  <2>7. CASE UNCHANGED stopNext \/ Stop BY <2>1, <2>2, <2>5, <2>7
  <2> QED BY <2>6, <2>7, Writers
<1>3. count' \in [Steps -> Nat]
  <2>1. ASSUME NEW t \in Threads, Pass(t) \/ Stopper(t) PROVE UNCHANGED count \/ \E s : Increment(s)
    BY <2>1, Zenon DEF Pass, Stopper
  <2>2. ASSUME NEW s, Produced(s) \/ HandleTimer(s) PROVE UNCHANGED count \/ \E t : Increment(t)
    BY <2>2, Zenon DEF Produced, HandleTimer
  <2>3. UNCHANGED count \/ \E s : Increment(s) BY <2>1, <2>2, Writers
  <2> QED BY <2>3
<1>4. service' \in BOOLEAN /\ allStopped' \in BOOLEAN BY Writers DEF StopService, StopNotify
<1>5. received' \in [Of({"consumer"}) -> Seq(Messages)]
  <2>1. ASSUME NEW t \in Threads, Consume(t) PROVE received' \in [Of({"consumer"}) -> Seq(Messages)]
    <3>1. In(t, {"consumer"}, "enter") BY <2>1 DEF Consume
    <3>2. message[t] \in Messages /\ Top(t).step \in Of({"consumer"}) BY <3>1, InFacts DEF In
    <3>3. Append(received[Top(t).step], message[t]) \in Seq(Messages) BY <3>2, AppendProperties
    <3> QED BY <2>1, <3>2, <3>3 DEF Consume
  <2> QED BY <2>1, Writers
<1> QED BY <1>1, <1>2, <1>3, <1>4, <1>5

\* Together: every step keeps the types, ...
LEMMA TypeStep == ASSUME BuildInv, [Next]_vars PROVE TypeOK'
<1>1. config' \in Configurations BY Writers DEF BuildInv, TypeOK
<1> QED BY <1>1, SameSteps, PlaceStep, ConstructType, SetsType, QueueType, StackType, RunType, CountType
        DEF TypeOK
\* Before start() only the application's thread moves.
LEMMA FreshStep ==
    ASSUME BuildInv, [Next]_vars, place \in {"construct", "threads"}
    PROVE  Construct \/ RunThreads \/ UNCHANGED vars
<1> USE DEF BuildInv, TypeOK, Built
<1>1. ASSUME NEW t \in Threads PROVE ~StepOf(t)
  <2>1. stack[t] = <<>> /\ stopNext[t] = 0 /\ Len(order) \in Nat /\ DOMAIN order = 1 .. Len(order)
    BY LenProperties
  <2> QED
    BY <2>1 DEF StepOf, Handle, Pass, Stopper, Consume, Publish, WaitToPublish, GiveUp, Send, Return, Publishes,
        In, TimeOut, Stopping, StopService, StopStep, StopNotify
<1>2. ASSUME NEW s \in Steps, SourceStep(s) PROVE FALSE
  BY <1>2 DEF SourceStep, Produce, Produced, TestStopping, GetNext, GetNothing, GetTimesOut, HandleTimer, Of,
      Threads, Threaded
<1>3. ~(StartTimer \/ ServiceEnds) BY DEF StartTimer, ServiceEnds, Threads
<1>4. Application => Construct \/ RunThreads
  BY DEF Application, Construct, RunThreads, StartStep, Started, Wait, Stop, Stopped, JoinThreads, FinishStep,
      Finished
<1> QED BY <1>1, <1>2, <1>3, <1>4, Actions

\* ... and what Construct has left.
LEMMA BuiltStep == ASSUME BuildInv, [Next]_vars PROVE Built'
<1> USE DEF BuildInv, Built
<1>1. CASE UNCHANGED vars BY <1>1, SameSteps DEF vars
<1>2. CASE Construct
  <2>1. DOMAIN expected = Of({"input_queue"}) BY DEF TypeOK
  <2>2. /\ order' = Added(config') /\ place' = "threads"
        /\ expected' = [q \in Of({"input_queue"})' |->
                           Cardinality({s \in Of({"send_to_queue"})' : config'.target[s] = q})]
    BY <1>2, <2>1, SameSteps DEF Construct
  <2>3. /\ solo' = {} /\ started' = {} /\ timer' = {}
        /\ \A t \in Threads' : run'[t] = "none" /\ stack'[t] = <<>> /\ stopNext'[t] = 0
    BY <1>2, SameSteps DEF Construct
  <2> QED BY <2>2, <2>3
<1>3. CASE place # "construct" /\ ~UNCHANGED vars
  <2>1. order' = Added(config') /\ place' # "construct"
        /\ expected' = [q \in Of({"input_queue"})' |->
                           Cardinality({s \in Of({"send_to_queue"})' : config'.target[s] = q})]
    <3>1. UNCHANGED <<order, expected, config>> /\ place' # "construct"
      BY <1>3, PlaceStep, Writers DEF Construct
    <3> QED BY <1>3, <3>1, SameSteps
  <2>2. place' # "threads"
    <3>1. CASE place = "threads" BY <1>3, <3>1, FreshStep DEF RunThreads, Construct
    <3>2. CASE place # "threads"
      BY <1>3, <3>2, PlaceStep DEF Application, Construct, RunThreads, StartStep, Started, Wait, Stop, Stopped,
          JoinThreads, FinishStep, Finished
    <3> QED BY <3>1, <3>2
  <2>3. place' = "start" => next' <= Len(order')
    <3>1. Len(order) \in Nat /\ next \in Nat /\ order' = order
      BY <1>3, Writers, LenProperties DEF Construct, TypeOK
    <3>2. CASE Application
      BY <1>3, <3>1, <3>2 DEF Application, Construct, RunThreads, StartStep, Started, Wait, Stop, Stopped, JoinThreads,
          FinishStep, Finished
    <3>3. CASE ~Application BY <1>3, <3>1, <3>3, PlaceStep, Writers
    <3> QED BY <3>2, <3>3
  <2> QED BY <2>1, <2>2, <2>3, Zenon
<1> QED BY <1>1, <1>2, <1>3, FreshStep DEF RunThreads

\* The types are an invariant.
THEOREM BuildCorrect == Spec => []BuildInv
<1>1. ASSUME BuildInv, [Next]_vars PROVE BuildInv'
  <2>1. Idle' BY <1>1, RunType, SameSteps DEF Idle
  <2> QED BY <1>1, <2>1, TypeStep, BuiltStep DEF BuildInv
<1> QED BY <1>1, BuildInit, PTL DEF Spec

\* Pipeline's TypeOK.
THEOREM PipelineTypeCorrect == Spec => []TypeOK
BY BuildCorrect, PTL DEF BuildInv
-----------------------------------------------------------------------------
(* Producers that are alone *)

\* canSolo() is asked after every Producer has been announced.
LEMMA SoloStep == ASSUME BuildInv, Soloists, [Next]_vars PROVE Soloists'
<1>1. CASE UNCHANGED <<solo, expected>> BY <1>1, SameSteps DEF Soloists
<1>2. CASE Construct
  <2>1. solo' = {} BY <1>2 DEF Construct, BuildInv, Built
  <2> QED BY <2>1 DEF Soloists
<1>3. CASE StartStep
  <2>1. UNCHANGED <<expected, config>> BY <1>3 DEF StartStep
  <2>2. \A s \in solo' \ solo : s \in Of({"send_to_queue"}) /\ CanSolo(config.target[s])
    BY <1>3 DEF StartStep, StartProducer
  <2> QED BY <2>1, <2>2, SameSteps DEF Soloists, CanSolo
<1> QED BY <1>1, <1>2, <1>3, Writers

\* willProduce and canSolo (Connection.cpp): a solo Producer has its queue for itself.
THEOREM SoloEstablishedCorrect == Spec => []SoloEstablished
<1>1. Init => Soloists BY DEF Init, Soloists
<1>2. ASSUME BuildInv, Soloists PROVE SoloEstablished
  <2> SUFFICES ASSUME NEW s \in solo, NEW other \in Of({"send_to_queue"}),
                      config.target[other] = config.target[s]
               PROVE  other = s
    BY DEF SoloEstablished
  <2> DEFINE q == config.target[s]  producers == {p \in Of({"send_to_queue"}) : config.target[p] = q}
  <2>1. s \in Of({"send_to_queue"}) /\ expected[q] = 1 BY <1>2 DEF Soloists
  <2>2. q \in Of({"input_queue"}) BY <1>2, <2>1, TargetType DEF BuildInv, TypeOK
  <2>3. place # "construct" BY <1>2 DEF BuildInv, Built
  <2>4. Cardinality(producers) = 1 BY <1>2, <2>1, <2>2, <2>3 DEF BuildInv, Built
  <2>5. IsFiniteSet(producers)
    <3>1. producers \in SUBSET Steps BY DEF Of
    <3> QED BY <1>2, <3>1, ConfigFacts, FS_Subset DEF BuildInv, TypeOK
  <2>6. PICK p : producers = {p} BY <2>4, <2>5, FS_Singleton
  <2>7. s \in producers /\ other \in producers BY <2>1
  <2> QED BY <2>6, <2>7
<1> QED BY <1>1, <1>2, SoloStep, BuildCorrect, PTL DEF Spec
-----------------------------------------------------------------------------
(* After finish() *)

\* A thread that has been joined stays so.
LEMMA JoinedStays ==
    ASSUME BuildInv, [Next]_vars, place \notin {"threads", "start"}, NEW t \in Threads, Joined(t)
    PROVE  Joined(t)'
BY ThreadsMove DEF Joined, Moved, StartStep, RunThreads

\* The application's thread never runs anything but itself.
LEMMA MainStep == ASSUME BuildInv, MainWaits, [Next]_vars PROVE MainWaits'
<1>1. Main \in Threads BY DEF Threads
<1>2. CASE ~StartStep /\ ~RunThreads BY <1>1, <1>2, ThreadsMove DEF Moved, MainWaits
<1>3. CASE RunThreads BY <1>1, <1>3, ThreadAssumption DEF RunThreads, MainWaits, BuildInv, TypeOK
<1>4. CASE StartStep
  <2>1. Main \notin Threaded BY ConfigFacts DEF BuildInv, TypeOK, Threaded, Of
  <2> QED BY <1>1, <1>4, <2>1 DEF StartStep, StartThread, MainWaits, BuildInv, TypeOK
<1> QED BY <1>2, <1>3, <1>4

\* finish() joins one thread after the other.
LEMMA JoiningStep == ASSUME BuildInv, Joining, [Next]_vars PROVE Joining'
<1> USE DEF BuildInv, TypeOK
<1>1. CASE place' \notin {"finish", "done"} BY <1>1 DEF Joining
<1>2. CASE place' \in {"finish", "done"} /\ ~Application
  <2>1. place = place' /\ UNCHANGED <<next, order>>
    BY <1>2, PlaceStep, Writers DEF Application
  <2> QED BY <1>2, <2>1, JoinedStays, SameSteps DEF Joining, Threads
<1>3. CASE place' = "finish" /\ Application
  <2>1. CASE Wait \/ Stopped BY <2>1 DEF Wait, Stopped, Joining
  <2>2. CASE JoinThreads BY <2>2 DEF JoinThreads, Joining, Joined
  <2>3. CASE FinishStep
    <3>1. UNCHANGED <<order, run>> /\ next \in 1 .. Len(order) /\ next' = next + 1 /\ place = "finish"
      BY <2>3, LenProperties DEF FinishStep
    <3>2. order[next] \in Threaded => Joined(order[next]) BY <2>3 DEF FinishStep
    <3> QED BY <3>1, <3>2, <1>3, SameSteps DEF Joining, Joined
  <2> QED
    BY <1>3, <2>1, <2>2, <2>3 DEF Application, Construct, RunThreads, StartStep, Started, Stop, Finished
<1>4. CASE place' = "done" /\ Application
  <2>1. Finished
    BY <1>4 DEF Application, Construct, RunThreads, StartStep, Started, Wait, Stop, Stopped, JoinThreads, FinishStep
  <2>2. place = "finish" /\ next > Len(order) /\ UNCHANGED run /\ order = Added(config)
    BY <2>1 DEF Finished, Built
  <2>3. Joined(Asio) BY <2>2, LenProperties DEF Joining
  <2>4. ASSUME NEW t \in Threaded PROVE Joined(t)
    <3>1. PICK i \in 1 .. Len(order) : order[i] = t
      BY <2>2, ConfigFacts, LenProperties DEF Constructed, ToSet, Threaded, Of, Steps
    <3> QED BY <2>2, <3>1, LenProperties DEF Joining
  <2> QED BY <1>4, <2>2, <2>3, <2>4, SameSteps DEF Joining, Joined, Threads
<1> QED BY <1>1, <1>2, <1>3, <1>4

\* finish() (SharedResources.cpp): when it has returned, no thread uses a step or a queue.
THEOREM QuietAfterFinishCorrect == Spec => QuietAfterFinish
<1>1. Init => MainWaits /\ Joining BY DEF Init, MainWaits, Joining, Threads
<1>2. ASSUME BuildInv, MainWaits, Joining, [Next]_vars, place = "done"
      PROVE  UNCHANGED <<queue, stack, received>>
  <2>1. \A t \in Threads : run[t] \in {"none", "ended"} /\ stack[t] = <<>>
    BY <1>2 DEF BuildInv, Idle, Joining, Joined, MainWaits
  <2>2. ASSUME NEW t \in Threads, StepOf(t) PROVE Stopping(t)
    BY <2>1, <2>2 DEF StepOf, Handle, Pass, Stopper, Consume, Publish, WaitToPublish, GiveUp, Send, Return,
        Publishes, In, TimeOut
  <2>3. ASSUME NEW s \in Steps, SourceStep(s) PROVE FALSE
    BY <2>1, <2>3 DEF SourceStep, Produce, Produced, TestStopping, GetNext, GetNothing, GetTimesOut, HandleTimer,
        Of, Threads, Threaded
  <2>4. ~(StartTimer \/ ServiceEnds) BY <2>1 DEF StartTimer, ServiceEnds, Threads
  <2>5. ~Application
    BY <1>2 DEF Application, Construct, RunThreads, StartStep, Started, Wait, Stop, Stopped, JoinThreads,
        FinishStep, Finished
  <2> QED BY <1>2, <2>2, <2>3, <2>4, <2>5, Actions DEF vars, Stopping, StopService, StopStep, StopNotify
<1>3. ASSUME BuildInv, MainWaits, Joining, [Next]_vars
      PROVE  [place = "done" => UNCHANGED <<queue, stack, received>>]_vars
  BY <1>2, <1>3
<1> QED BY <1>1, <1>3, MainStep, JoiningStep, BuildCorrect, PTL DEF Spec, QuietAfterFinish
-----------------------------------------------------------------------------
(* Started before they are called *)

\* Every step has its place in the order, one only.
LEMMA OrderFacts ==
    ASSUME BuildInv, place # "construct"
    PROVE  /\ Len(order) \in Nat /\ \A i \in 1 .. Len(order) : order[i] \in Steps
           /\ \A s \in Steps : \E i \in 1 .. Len(order) : order[i] = s
           /\ \A i, j \in 1 .. Len(order) : order[i] = order[j] => i = j
<1>1. Constructed(config) /\ order = Added(config) /\ order \in Seq(Steps)
  BY ConfigFacts DEF BuildInv, TypeOK, Built
<1>2. DOMAIN order = 1 .. Len(order) /\ Len(order) \in Nat BY <1>1, LenProperties
<1>3. ToSet(order) = Steps /\ IsInjective(order) BY <1>1 DEF Constructed, Steps
<1>4. \A s \in Steps : \E i \in 1 .. Len(order) : order[i] = s BY <1>2, <1>3, Zenon DEF ToSet
<1> QED BY <1>1, <1>2, <1>3, <1>4, ElementOfSeq DEF IsInjective

\* start() goes through the steps from the last to the first.
LEMMA UpwardStep ==
    ASSUME BuildInv, Upward, AllStarted, [Next]_vars
    PROVE  Upward' /\ AllStarted' /\ started \subseteq started'
<1> USE DEF BuildInv, TypeOK
<1>1. CASE StartStep
  <2>1. /\ place = "start" /\ next > 0 /\ next <= Len(order) /\ place' = "start" /\ next' = next - 1
        /\ started' = started \cup {order[next]} /\ order' = order
    BY <1>1 DEF StartStep, Starting, Built
  <2>2. next \in 1 .. Len(order) /\ Len(order) \in Nat BY <2>1, OrderFacts
  <2>3. \A j \in next .. Len(order) : order[j] \in started' BY <2>1, <2>2 DEF Upward
  <2>4. ASSUME NEW i \in 1 .. Len(order), order[i] \in started', NEW j \in i .. Len(order)
        PROVE  order[j] \in started'
    <3>1. CASE order[i] \in started BY <2>1, <2>4, <3>1 DEF Upward
    <3>2. CASE order[i] = order[next]
      <4>1. i = next BY <2>1, <2>2, <3>2, OrderFacts
      <4> QED BY <2>3, <2>4, <4>1
    <3> QED BY <2>1, <2>4, <3>1, <3>2
  <2>5. (next' + 1) .. Len(order') = next .. Len(order) BY <2>1, <2>2
  <2> QED BY <2>1, <2>3, <2>4, <2>5 DEF Upward, AllStarted
<1>2. CASE Construct \/ RunThreads
  <2>1. started' = {} /\ (RunThreads => next' = Len(order) /\ order' = order)
    BY <1>2 DEF Construct, RunThreads, Built
  <2>2. place' \in {"threads", "start"} /\ (place' = "start" => RunThreads)
    BY <1>2 DEF Construct, RunThreads
  <2>3. started = {} BY <1>2 DEF Construct, RunThreads, Built
  <2>4. place' = "start" => (next' + 1) .. Len(order') = {} BY <2>1, <2>2, LenProperties
  <2> QED BY <2>1, <2>2, <2>3, <2>4 DEF Upward, AllStarted
<1>3. CASE Started
  <2>1. place = "start" /\ next = 0 /\ place' = "wait" /\ UNCHANGED <<order, started, config>>
    BY <1>3 DEF Started
  <2>2. \A j \in 1 .. Len(order) : order[j] \in started BY <2>1, OrderFacts DEF Upward
  <2>3. started \subseteq Steps OBVIOUS
  <2>4. Steps = started
    <3>1. \A s \in Steps : \E i \in 1 .. Len(order) : order[i] = s BY <2>1, OrderFacts
    <3>2. Steps \subseteq started BY <2>2, <3>1
    <3> QED BY <2>3, <3>2
  <2> QED BY <2>1, <2>4, SameSteps DEF Upward, AllStarted
<1>4. CASE ~StartStep /\ ~Construct /\ ~RunThreads /\ ~Started
  <2>1. UNCHANGED <<order, started>> BY <1>4, Writers
  <2>2. place' = "start" => place = "start" /\ next' = next
    BY <1>4, PlaceStep, Writers DEF Application, Wait, Stop, Stopped, JoinThreads, FinishStep, Finished
  <2>3. place' \in {"wait", "stop", "finish", "done"} => place \in {"wait", "stop", "finish", "done"}
    BY <1>4, PlaceStep DEF Application, Wait, Stop, Stopped, JoinThreads, FinishStep, Finished
  <2> QED BY <2>1, <2>2, <2>3, SameSteps DEF Upward, AllStarted
<1> QED BY <1>1, <1>2, <1>3, <1>4

\* What comes after a source that has been started has been started, ...
LEMMA SuppliedStarted == ASSUME BuildInv, Upward PROVE Supplied \subseteq started
<1>1. Len(order) \in Nat BY LenProperties DEF BuildInv, TypeOK
<1> SUFFICES ASSUME NEW s \in Supplied PROVE s \in started OBVIOUS
<1>2. PICK j \in 1 .. Len(order), i \in 1 .. Len(order) : i < j /\ order[j] = s /\ order[i] \in started
  BY <1>1 DEF Supplied
<1> QED BY <1>1, <1>2 DEF Upward

\* ... and what is sent from there stays there.
LEMMA SuppliedClosed ==
    ASSUME BuildInv, Running, Orderly(config)
    PROVE  Closed(Supplied)
<1>1. Supplied \subseteq Steps BY ElementOfSeq DEF Supplied, BuildInv, TypeOK
<1>2. ASSUME place # "construct", NEW s \in Steps,
             s \in Emitters \/ (s \in Supplied /\ config.kind[s] \notin Sources)
      PROVE  Destinations(s) \in Seq(Supplied)
  <2>1. order = Added(config) /\ config \in Configurations BY <1>2 DEF BuildInv, Built, TypeOK
  <2>2. /\ Destinations(s) \in Seq(Steps) /\ Destinations(s) = Attached(config, order, s)
        /\ DOMAIN order = 1 .. Len(order) /\ Len(order) \in Nat
    BY <2>1, DestinationsType, LenProperties DEF Destinations, BuildInv, TypeOK
  <2>3. PICK i \in 1 .. Len(order), j \in 1 .. Len(order) :
            /\ i <= j /\ order[i] \in started \cap Of(Sources) /\ order[j] = s
            /\ j = i \/ config.kind[s] \notin Sources
    <3>1. CASE s \in Emitters
      <4>1. s \in started \cap Of(Sources)
        BY <3>1 DEF Emitters, Running, Threaded, Of, Sources, BuildInv, TypeOK
      <4>2. PICK i \in 1 .. Len(order) : order[i] = s BY <1>2, OrderFacts
      <4> QED BY <2>2, <4>1, <4>2
    <3>2. CASE s \in Supplied /\ config.kind[s] \notin Sources
      BY <2>2, <3>2 DEF Supplied
    <3> QED BY <1>2, <3>1, <3>2
  <2>4. config.kind[order[i]] \in Sources BY <2>3 DEF Of
  <2>5. ToSet(Destinations(s)) \subseteq {order[k] : k \in i + 1 .. Len(order)}
    <3>1. /\ i \in DOMAIN Added(config) /\ config.kind[Added(config)[i]] \in Sources
          /\ j \in i .. Len(Added(config))
          /\ j = i \/ config.kind[Added(config)[j]] \notin Sources
      BY <2>1, <2>2, <2>3, <2>4
    <3>2. SourcesFirst(config) BY DEF Orderly
    <3>3. ToSet(Attached(config, Added(config), Added(config)[j]))
              \subseteq {Added(config)[k] : k \in i + 1 .. Len(Added(config))}
      BY <3>1, <3>2, Zenon DEF SourcesFirst
    <3>4. ToSet(Attached(config, order, order[j])) \subseteq {order[k] : k \in i + 1 .. Len(order)}
      BY <2>1, <3>3
    <3> QED BY <2>2, <2>3, <3>4
  <2>6. {order[k] : k \in i + 1 .. Len(order)} \subseteq Supplied BY <2>2, <2>3 DEF Supplied
  <2>7. \A n \in 1 .. Len(Destinations(s)) : Destinations(s)[n] \in Supplied
    BY <2>2, <2>5, <2>6, LenProperties DEF ToSet
  <2> QED BY <2>2, <2>7
<1> QED BY <1>1, <1>2 DEF Closed

\* A step of the system calls no handle(), and stops no heartbeat, before start().
LEMMA NoCrash ==
    ASSUME BuildInv, StartInv, Orderly(config), [Next]_vars
    PROVE  place' # "crashed"
<1> USE DEF BuildInv, TypeOK, StartInv
<1>1. Closed(Supplied) /\ Supplied \subseteq started /\ Supplied \subseteq Steps
  BY SuppliedClosed, SuppliedStarted DEF Closed
<1>2. ASSUME NEW t \in Threads, Send(t) PROVE place' = place
  <2>1. stack[t] # <<>> /\ Top(t).todo # <<>> BY <1>2 DEF Send, In
  <2>2. Top(t) \in FramesOf(Supplied) BY <2>1, HeadTailProperties DEF InSupplied, Top
  <2>3. Head(Top(t).todo) \in Supplied BY <2>1, <2>2, HeadTailProperties DEF FramesOf
  <2> QED BY <1>1, <1>2, <2>3 DEF Send
<1>3. ASSUME NEW t \in Threads, StopStep(t) PROVE place' = place
  <2>1. order[stopNext[t] - 1] \in Steps BY <1>3, ElementOfSeq, LenProperties DEF StopStep
  <2>2. stopNext[t] # 0 BY <1>3, LenProperties DEF StopStep
  <2> QED BY <1>3, <2>1, <2>2 DEF StopStep, StopHeartbeat, StopsLate
<1>4. ASSUME NEW t \in Threads, StepOf(t) PROVE place' = place
  BY <1>2, <1>3, <1>4 DEF StepOf, Handle, Pass, Stopper, Consume, Publish, PublishReturns, WaitToPublish, GiveUp,
      Return, Stopping, StopService, StopNotify, TimeOut
<1>5. ASSUME NEW s \in Steps \cap Emitters, config.kind[s] \in Sources, place # "construct", Call(Primary(s))
      PROVE  place' = place
  <2>1. Destinations(s) \in Seq(Supplied) /\ Destinations(s) # <<>>
    BY <1>1, <1>5, DestinationsType DEF Closed, Sources, Final, Built
  <2>2. Primary(s) \in Supplied BY <2>1, RouteType
  <2> QED BY <1>1, <1>5, <2>2
<1>6. ASSUME NEW s \in Steps, SourceStep(s) PROVE place' = place
  <2>1. CASE s \in Of({"producer"}) /\ Produce(s)
    BY <2>1, <1>5 DEF Produce, Of, Sources, Emitters, Threaded, Threads, Built
  <2>2. CASE s \in Of({"input_queue"}) /\ GetNext(s)
    BY <2>2, <1>5 DEF GetNext, Of, Sources, Emitters, Threaded, Threads, Built
  <2>3. CASE s \in Of({"heartbeat"}) /\ HandleTimer(s)
    BY <2>3, <1>5 DEF HandleTimer, Of, Sources, Emitters, Built
  <2> QED BY <1>6, <2>1, <2>2, <2>3 DEF SourceStep, Produced, TestStopping, GetNothing, GetTimesOut
<1>7. Application => place' # "crashed"
  BY DEF Application, Construct, RunThreads, StartStep, Started, Wait, Stop, Stopped, JoinThreads,
      FinishStep, Finished
<1> QED BY <1>4, <1>6, <1>7, Actions DEF vars, StartTimer, ServiceEnds

\* Whoever sends has been started.
LEMMA RunningStep ==
    ASSUME BuildInv, Running, [Next]_vars, started \subseteq started'
    PROVE  Running'
<1> USE DEF BuildInv, TypeOK
<1>1. \A t \in Threaded : run'[t] # "none" => t \in started'
  <2>1. CASE ~StartStep /\ ~RunThreads BY <2>1, ThreadsMove DEF Moved, Running, Threads
  <2>2. CASE StartStep BY <2>2 DEF StartStep, StartThread, Running, Threads
  <2>3. CASE RunThreads
    <3>1. Asio \notin Threaded BY ConfigFacts DEF Threaded, Of
    <3> QED BY <2>3, <3>1 DEF RunThreads, Running, Threads
  <2> QED BY <2>1, <2>2, <2>3
<1>2. timer' \subseteq Of({"heartbeat"}) \cap started'
  <2>1. StartStep => timer' \subseteq Of({"heartbeat"}) \cap started'
    BY DEF StartStep, StartHeartbeat, Running
  <2>2. StartTimer => timer' \subseteq Of({"heartbeat"}) \cap started'
    BY DEF StartTimer, Running
  <2>3. (\E t \in Threads : StopStep(t)) => timer' \subseteq timer BY DEF StopStep, StopHeartbeat
  <2>4. (\E h \in Of({"heartbeat"}) : HandleTimer(h)) => timer' \subseteq timer BY DEF HandleTimer
  <2> QED BY <2>1, <2>2, <2>3, <2>4, Writers DEF Running
<1>3. run'[Asio] = "send" => message'[Asio].source \in Of({"heartbeat"}) \cap started'
  <2>1. Asio \in Threads /\ Asio \notin Steps BY ConfigFacts DEF Threads
  <2>2. ASSUME NEW h \in Of({"heartbeat"}), HandleTimer(h)
        PROVE  message'[Asio].source \in Of({"heartbeat"}) \cap started'
    <3>1. message'[Asio] = Message("heartbeat", h) /\ h \in timer BY <2>1, <2>2 DEF HandleTimer
    <3> QED BY <3>1 DEF Message, Running
  <2>3. CASE \A h \in Of({"heartbeat"}) : ~HandleTimer(h)
    <3>1. message'[Asio] = message[Asio]
      <4>1. ASSUME NEW p \in Of({"producer"}), Produce(p) PROVE message'[Asio] = message[Asio]
        BY <2>1, <4>1 DEF Produce, Of
      <4>2. ASSUME NEW q \in Of({"input_queue"}), GetNext(q) PROVE message'[Asio] = message[Asio]
        BY <2>1, <4>2 DEF GetNext, Of
      <4> QED BY <2>3, <4>1, <4>2, Writers
    <3>2. run'[Asio] = "send" => run[Asio] = "send"
      <4>1. ASSUME NEW t \in Threads, StepOf(t) PROVE run'[Asio] = "send" => run[Asio] = "send"
        BY <2>1, <4>1 DEF StepOf, Handle, Pass, Stopper, Consume, Publish, PublishReturns, WaitToPublish, GiveUp,
            Send, Return, Stopping, StopService, StopStep, StopNotify, TimeOut
      <4>2. ASSUME NEW s \in Steps, SourceStep(s) PROVE run'[Asio] = run[Asio]
        BY <2>1, <2>3, <4>2 DEF SourceStep, Produce, Produced, TestStopping, GetNext, GetNothing, GetTimesOut
      <4>3. Application \/ StartTimer \/ ServiceEnds => run'[Asio] # "send" \/ run'[Asio] = run[Asio]
        BY <2>1 DEF Application, Construct, RunThreads, StartStep, StartThread, Started, Wait, Stop, Stopped,
            JoinThreads, FinishStep, Finished, StartTimer, ServiceEnds
      <4> QED BY <4>1, <4>2, <4>3, Actions DEF vars
    <3> QED BY <3>1, <3>2 DEF Running
  <2> QED BY <2>2, <2>3
<1> QED BY <1>1, <1>2, <1>3, SameSteps DEF Running

\* stop() is called when all is started, or by a stopper, which has no heartbeat to stop.
LEMMA StopsLateStep ==
    ASSUME BuildInv, AllStarted, StopsLate, Orderly(config), [Next]_vars, started \subseteq started'
    PROVE  StopsLate'
<1> USE DEF BuildInv, TypeOK
<1>1. CASE UNCHANGED stopNext BY <1>1, SameSteps DEF StopsLate
<1>2. CASE Stop BY <1>2, SameSteps DEF Stop, AllStarted, StopsLate, Of
<1>3. ASSUME NEW t \in Threads, StopService(t) \/ StopStep(t) \/ StopNotify(t) PROVE StopsLate'
  <2>1. stopNext[t] # 0 BY <1>3, LenProperties DEF StopService, StopStep, StopNotify
  <2> QED BY <2>1, SameSteps DEF StopsLate
<1>4. ASSUME NEW t \in Threads, Stopper(t) PROVE StopsLate'
  <2>1. In(t, {"stopper"}, "enter") BY <1>4 DEF Stopper
  <2>2. Top(t).step \in Steps /\ config.kind[Top(t).step] = "stopper" BY <2>1, InFacts
  <2>3. Of({"heartbeat"}) = {} BY <2>2 DEF Orderly, HeartbeatsUnstopped, Of, Steps
  <2> QED BY <2>3, SameSteps DEF StopsLate
<1> QED BY <1>1, <1>2, <1>3, <1>4, Writers

\* Calls stay among the steps behind a source.
LEMMA InSuppliedStep ==
    ASSUME BuildInv, StartInv, Orderly(config), [Next]_vars, started \subseteq started'
    PROVE  InSupplied'
<1>1. StacksIn(Supplied)
  BY DEF StacksIn, InSupplied, StartInv, BuildInv, TypeOK
<1>2. stack' \in [Threads -> Seq(FramesOf(Supplied))]
  BY <1>1, SuppliedClosed, StacksStep DEF StartInv, BuildInv
<1>3. Supplied \subseteq Supplied'
  <2>1. CASE Construct
    <3>1. Supplied = {} BY <2>1 DEF Construct, Supplied, BuildInv, Built
    <3> QED BY <3>1
  <2>2. CASE order' = order BY <2>2, SameSteps DEF Supplied
  <2> QED BY <2>1, <2>2, Writers
<1>4. Seq(FramesOf(Supplied)) \subseteq Seq(FramesOf(Supplied'))
  <2>1. Seq(Supplied) \subseteq Seq(Supplied') BY <1>3, SeqMonotonic
  <2>2. FramesOf(Supplied) \subseteq FramesOf(Supplied') BY <1>3, <2>1 DEF FramesOf
  <2> QED BY <2>2, SeqMonotonic
<1> QED BY <1>2, <1>4, SameSteps DEF InSupplied

\* start() (SharedResources.cpp) in an orderly configuration: no step is called before
\* its own start().
THEOREM StartedBeforeHandleCorrect ==
    ASSUME \A c \in Configurations : Orderly(c)
    PROVE  Spec => []StartedBeforeHandle
<1>1. ASSUME Init PROVE StartInv
  <2>1. Len(order) = 0 BY <1>1 DEF Init
  <2>2. \A S : <<>> \in Seq(S) BY EmptySeq
  <2> QED BY <1>1, <2>1, <2>2
          DEF Init, StartInv, Upward, AllStarted, Running, InSupplied, StopsLate, Threads
<1>2. ASSUME BuildInv, StartInv, [Next]_vars PROVE StartInv'
  <2>1. Orderly(config) BY <1>2 DEF BuildInv, TypeOK
  <2>2. Upward' /\ AllStarted' /\ started \subseteq started' BY <1>2, UpwardStep DEF StartInv
  <2> QED BY <1>2, <2>1, <2>2, NoCrash, RunningStep, StopsLateStep, InSuppliedStep DEF StartInv
<1>3. ASSUME BuildInv, StartInv PROVE StartedBeforeHandle
  <2> SUFFICES ASSUME NEW t \in Threads, stack[t] # <<>> PROVE Top(t).step \in started
    BY <1>3 DEF StartedBeforeHandle, StartInv
  <2>1. Top(t) \in FramesOf(Supplied) BY <1>3, HeadTailProperties DEF StartInv, InSupplied, Top
  <2> QED BY <1>3, <2>1, SuppliedStarted DEF StartInv, FramesOf
<1> QED BY <1>1, <1>2, <1>3, BuildCorrect, PTL DEF Spec
-----------------------------------------------------------------------------
(* What can be reached *)

\* The edges of a graph lead to its nodes.
Graph(to) == \A x \in DOMAIN to : to[x] \subseteq DOMAIN to

\* What is reached from s is closed, and no smaller set is.
LEMMA ReachedFacts ==
    ASSUME NEW to, Graph(to), NEW s \in DOMAIN to
    PROVE  /\ s \in Reached(to, s) /\ Reached(to, s) \subseteq DOMAIN to
           /\ \A x \in Reached(to, s) : to[x] \subseteq Reached(to, s)
           /\ \A S : s \in S /\ (\A x \in S \cap Reached(to, s) : to[x] \subseteq S) => Reached(to, s) \subseteq S
<1>1. s \in Reached(to, s) /\ Reached(to, s) \subseteq DOMAIN to BY DEF Reached
<1>2. \A x \in Reached(to, s) : to[x] \subseteq Reached(to, s) BY DEF Reached, Graph
<1>3. ASSUME NEW S, s \in S, \A x \in S \cap Reached(to, s) : to[x] \subseteq S PROVE Reached(to, s) \subseteq S
  <2> DEFINE T == S \cap Reached(to, s)
  <2>1. T \in SUBSET DOMAIN to /\ s \in T /\ \A x \in T : to[x] \subseteq T BY <1>1, <1>2, <1>3
  <2> QED BY <2>1 DEF Reached
<1> QED BY <1>1, <1>2, <1>3

\* From there no more can be reached.
LEMMA ReachedFurther ==
    ASSUME NEW to, Graph(to), NEW s \in DOMAIN to, NEW d \in Reached(to, s)
    PROVE  d \in DOMAIN to /\ Reached(to, d) \subseteq Reached(to, s)
<1>1. d \in DOMAIN to BY ReachedFacts
<1> QED BY <1>1, ReachedFacts

\* What is reached is s, or it is reached by way of one of its successors, ...
LEMMA ReachedFirst ==
    ASSUME NEW to, Graph(to), NEW s \in DOMAIN to, NEW d \in Reached(to, s), d # s
    PROVE  \E e \in to[s] : d \in Reached(to, e)
<1> DEFINE S == {s} \cup {x \in DOMAIN to : \E e \in to[s] : x \in Reached(to, e)}
<1>1. ASSUME NEW x \in S \cap Reached(to, s), NEW y \in to[x] PROVE y \in S
  <2>0. x \in DOMAIN to /\ y \in DOMAIN to BY <1>1, ReachedFacts DEF Graph
  <2>1. CASE x = s
    <3>1. y \in Reached(to, y) BY <2>0, ReachedFacts
    <3> QED BY <1>1, <2>0, <2>1, <3>1
  <2>2. CASE x # s
    <3>1. PICK e \in to[s] : x \in Reached(to, e) BY <2>2
    <3>2. e \in DOMAIN to BY DEF Graph
    <3>3. y \in Reached(to, e) BY <1>1, <3>1, <3>2, ReachedFacts
    <3> QED BY <2>0, <3>1, <3>3
  <2> QED BY <2>1, <2>2
<1>2. Reached(to, s) \subseteq S
  <2>1. s \in S OBVIOUS
  <2> HIDE DEF S
  <2> QED BY <1>1, <2>1, ReachedFacts
<1> QED BY <1>2

\* ... and one of its predecessors is reached, too.
LEMMA ReachedLast ==
    ASSUME NEW to, Graph(to), NEW s \in DOMAIN to, NEW d \in Reached(to, s), d # s
    PROVE  \E x \in Reached(to, s) : d \in to[x]
<1> DEFINE S == {s} \cup {y \in DOMAIN to : \E x \in Reached(to, s) : y \in to[x]}
<1>1. ASSUME NEW x \in S \cap Reached(to, s) PROVE to[x] \subseteq S
  <2>1. x \in DOMAIN to BY ReachedFacts
  <2> QED BY <1>1, <2>1 DEF Graph
<1>2. Reached(to, s) \subseteq S
  <2>1. s \in S OBVIOUS
  <2> HIDE DEF S
  <2> QED BY <1>1, <2>1, ReachedFacts
<1> QED BY <1>2

\* A graph that is a tree where it is reached from p.
Tree(to, p) ==
    /\ p \in DOMAIN to /\ \A x \in DOMAIN to : p \notin to[x]
    /\ \A r, s \in Reached(to, p) : r # s => to[r] \cap to[s] = {}

\* A tree has no circles.
LEMMA NoCircle ==
    ASSUME NEW to, Graph(to), NEW p, Tree(to, p), NEW s \in Reached(to, p), NEW e \in to[s]
    PROVE  e \in Reached(to, p) /\ s \notin Reached(to, e)
<1> DEFINE S == {x \in Reached(to, p) : \A y \in to[x] : x \notin Reached(to, y)}
<1> USE DEF Tree
<1>1. p \in S
  <2>1. ASSUME NEW y \in to[p], p \in Reached(to, y) PROVE FALSE
    <3>1. y \in DOMAIN to /\ y # p BY DEF Graph
    <3>2. PICK x \in Reached(to, y) : p \in to[x] BY <2>1, <3>1, ReachedLast
    <3> QED BY <3>1, <3>2, ReachedFacts
  <2> QED BY <2>1, ReachedFacts
<1>2. ASSUME NEW x \in S, NEW y \in to[x] PROVE y \in S
  <2>1. y \in Reached(to, p) /\ x \in DOMAIN to /\ y \in DOMAIN to BY ReachedFacts DEF Graph
  <2>2. ASSUME NEW e1 \in to[y], y \in Reached(to, e1) PROVE FALSE
    <3>1. e1 \in Reached(to, p) /\ e1 \in DOMAIN to BY <2>1, ReachedFacts
    <3>2. Reached(to, e1) \subseteq Reached(to, p) BY <3>1, ReachedFurther
    <3>3. CASE y = e1
      <4>1. x = y BY <2>1, <2>2, <3>3
      <4> QED BY <1>2, <2>1, <4>1, ReachedFacts
    <3>4. CASE y # e1
      <4>1. PICK z \in Reached(to, e1) : y \in to[z] BY <2>2, <3>1, <3>4, ReachedLast
      <4>2. z = x BY <3>2, <4>1
      <4>3. e1 \in Reached(to, y) BY <2>1, <2>2, ReachedFacts
      <4>4. x \in Reached(to, y) BY <2>1, <4>1, <4>2, <4>3, ReachedFurther
      <4> QED BY <1>2, <4>4
    <3> QED BY <3>3, <3>4
  <2> QED BY <2>1, <2>2
<1>3. Reached(to, p) \subseteq S
  <2> HIDE DEF S
  <2> QED BY <1>1, <1>2, ReachedFacts
<1> QED BY <1>3, ReachedFacts

\* In a tree what leads to a node leads to its predecessor.
LEMMA ThroughPredecessor ==
    ASSUME NEW to, Graph(to), NEW p, Tree(to, p), NEW s \in Reached(to, p), NEW e \in to[s],
           NEW d \in Reached(to, p), e \in Reached(to, d), d # e
    PROVE  s \in Reached(to, d)
<1>1. d \in DOMAIN to BY ReachedFacts DEF Tree
<1>2. PICK x \in Reached(to, d) : e \in to[x] BY <1>1, ReachedLast
<1>3. x \in Reached(to, p) BY ReachedFurther DEF Tree
<1> QED BY <1>2, <1>3 DEF Tree
-----------------------------------------------------------------------------
(* The ways of the messages *)

\* The edges of a configuration at work.
LEMMA ToFacts ==
    ASSUME config \in Configurations
    PROVE  /\ DOMAIN To = Steps /\ Graph(To)
           /\ \A s \in Consumers : To[s] = {}
           /\ \A s \in Of({"send_to_queue"}) : To[s] = {config.target[s]} /\ config.target[s] \in Queues
           /\ \A s \in Of({"fan_out", "round_robin"}) : To[s] = ToSet(Attached(config, Added(config), s))
           /\ \A s \in Steps \ Of(Final \cup {"fan_out", "round_robin"}) :
                  To[s] = {Attached(config, Added(config), s)[1]}
<1>1. WellFormed(config) /\ Constructed(config) BY ConfigFacts
<1>2. DOMAIN To = Steps BY DEF To, PassesTo, Steps
<1>3. ASSUME NEW s \in Consumers PROVE To[s] = {}
  BY DEF To, PassesTo, Consumers, Of, Steps
<1>4. ASSUME NEW s \in Of({"send_to_queue"}) PROVE To[s] = {config.target[s]} /\ config.target[s] \in Queues
  BY <1>1, TargetType DEF To, PassesTo, Of, Steps, Queues
<1>5. ASSUME NEW s \in Of({"fan_out", "round_robin"}) PROVE To[s] = ToSet(Attached(config, Added(config), s))
  BY DEF To, PassesTo, Of, Steps
<1>6. ASSUME NEW s \in Steps \ Of(Final \cup {"fan_out", "round_robin"})
      PROVE  To[s] = {Attached(config, Added(config), s)[1]}
  BY DEF To, PassesTo, Of, Steps, Final
<1>7. Graph(To)
  <2> SUFFICES ASSUME NEW s \in Steps PROVE To[s] \subseteq Steps BY <1>2 DEF Graph
  <2>1. Attached(config, Added(config), s) \in Seq(Steps) BY <1>1 DEF Constructed, Steps
  <2>2. CASE s \in Consumers BY <1>3, <2>2
  <2>3. CASE s \in Of({"send_to_queue"}) BY <1>4, <2>3 DEF Queues, Of
  <2>4. CASE s \in Of({"fan_out", "round_robin"}) BY <1>5, <2>1, <2>4 DEF ToSet
  <2>5. CASE s \in Steps \ Of(Final \cup {"fan_out", "round_robin"})
    <3>1. Attached(config, Added(config), s) # <<>> BY <1>1, <2>5 DEF Constructed, Steps, Of
    <3> QED BY <1>6, <2>1, <2>5, <3>1
  <2> QED BY <2>2, <2>3, <2>4, <2>5 DEF Of, Final, Consumers
<1> QED BY <1>2, <1>3, <1>4, <1>5, <1>6, <1>7

\* Where messages take one way, what an origin leads to is a tree.
LEMMA OneWayFacts ==
    ASSUME config \in Configurations, OneWay(config)
    PROVE  /\ \A s \in Steps \ Of({"send_to_queue"}) : To[s] \cap Of(Sources) = {}
           /\ \A p \in Origin : Tree(To, p)
<1>1. \A s \in Steps \ Of({"send_to_queue"}) : To[s] \cap Of(Sources) = {}
  BY DEF OneWay, To, Of, Steps
<1>2. ASSUME NEW p \in Origin PROVE Tree(To, p)
  <2>1. p \in Steps /\ p \in Of(Sources) /\ p \notin Queues BY DEF Origin, Queues, Of, Sources
  <2>2. p \in Origins(config) BY DEF Origin, Origins, Of, Steps
  <2>3. \A r, s \in Below(p) : r # s => To[r] \cap To[s] = {} BY <2>2 DEF OneWay, To, Below
  <2>4. \A x \in Steps : p \notin To[x] BY <1>1, <2>1, ToFacts
  <2> QED BY <2>1, <2>3, <2>4, ToFacts DEF Tree, Below
<1> QED BY <1>1, <1>2

\* Below, in terms of this section.
LEMMA BelowFacts ==
    ASSUME config \in Configurations, NEW s \in Steps
    PROVE  /\ s \in Below(s) /\ Below(s) \subseteq Steps
           /\ \A x \in Below(s) : Below(x) \subseteq Below(s) /\ To[x] \subseteq Below(s)
           /\ \A x \in Below(s) : x = s \/ \E e \in To[s] : x \in Below(e)
           /\ \A x \in Below(s) : x = s \/ \E y \in Below(s) : x \in To[y]
BY ToFacts, ReachedFacts, ReachedFurther, ReachedFirst, ReachedLast DEF Below

\* Within a thread.
LEMMA WithinFacts ==
    ASSUME config \in Configurations, NEW u \in Steps
    PROVE  /\ u \in Within(u) /\ Within(u) \subseteq Below(u)
           /\ \A x \in Within(u) \ Of({"send_to_queue"}) : To[x] \subseteq Within(u)
           /\ \A x \in Within(u) : x = u \/ \E y \in Within(u) \ Of({"send_to_queue"}) : x \in To[y]
           /\ \A S : u \in S /\ (\A x \in (S \cap Within(u)) \ Of({"send_to_queue"}) : To[x] \subseteq S)
                  => Within(u) \subseteq S
<1>1. DOMAIN WithinTo = Steps /\ Graph(WithinTo) BY ToFacts DEF WithinTo, Graph
<1>2. \A x \in Steps : WithinTo[x] = IF x \in Of({"send_to_queue"}) THEN {} ELSE To[x] BY DEF WithinTo
<1>3. u \in Within(u) /\ Within(u) \subseteq Steps BY <1>1, ReachedFacts DEF Within
<1>4. \A x \in Within(u) : WithinTo[x] \subseteq Within(u) BY <1>1, ReachedFacts DEF Within
<1>5. \A x \in Within(u) : x = u \/ \E y \in Within(u) : x \in WithinTo[y] BY <1>1, ReachedLast DEF Within
<1>6. ASSUME NEW S, u \in S, \A x \in (S \cap Within(u)) \ Of({"send_to_queue"}) : To[x] \subseteq S
      PROVE  Within(u) \subseteq S
  <2>1. \A x \in S \cap Within(u) : WithinTo[x] \subseteq S BY <1>2, <1>3, <1>6
  <2> QED BY <1>1, <1>6, <2>1, ReachedFacts DEF Within
<1>7. Within(u) \subseteq Below(u) BY <1>6, BelowFacts
<1> QED BY <1>2, <1>3, <1>4, <1>5, <1>6, <1>7

\* The steps of different threads are different, for the messages of one origin; ...
LEMMA ThreadsDisjoint ==
    ASSUME config \in Configurations, OneWay(config), NEW p \in Origin,
           NEW u \in Of(Sources) \cap Below(p), NEW v \in Of(Sources) \cap Below(p),
           NEW x \in Within(u) \cap Within(v), x \notin Of(Sources)
    PROVE  u = v
<1> DEFINE S == {y \in Within(v) : y \in Within(u) \ Of(Sources) => u = v}
<1>1. u \in Steps /\ v \in Steps /\ p \in Steps BY DEF Of, Origin
<1>2. v \in S BY <1>1, WithinFacts
<1>3. ASSUME NEW y \in S \ Of({"send_to_queue"}), NEW z \in To[y], z \in Within(u) \ Of(Sources) PROVE u = v
  <2>1. PICK w \in Within(u) : z \in To[w] BY <1>1, <1>3, WithinFacts
  <2>2. w \in Below(p) /\ y \in Below(p) BY <1>1, WithinFacts, BelowFacts
  <2>3. w = y BY <1>3, <2>1, <2>2, OneWayFacts DEF Tree, Below
  <2>4. y \notin Of(Sources) => u = v BY <2>1, <2>3
  <2>5. CASE y \in Of(Sources)
    <3>1. y = u /\ y = v
      BY <1>1, <2>1, <2>3, <2>5, WithinFacts, OneWayFacts, BelowFacts
    <3> QED BY <3>1
  <2> QED BY <2>4, <2>5
<1>4. \A y \in S \ Of({"send_to_queue"}) : To[y] \subseteq S BY <1>1, <1>3, WithinFacts
<1>5. Within(v) \subseteq S
  <2> HIDE DEF S
  <2> QED BY <1>1, <1>2, <1>4, WithinFacts
<1> QED BY <1>5

\* ... and from elsewhere they are reached by way of the thread's source only.
LEMMA ThroughSource ==
    ASSUME config \in Configurations, OneWay(config), NEW p \in Origin,
           NEW u \in Of(Sources) \cap Below(p), NEW d \in Below(p), d = u \/ d \notin Within(u),
           NEW s \in Within(u) \cap Below(d)
    PROVE  u \in Below(d)
<1> DEFINE S == {x \in Below(d) : x \in Within(u) => u \in Below(d)}
<1>1. u \in Steps /\ d \in Steps /\ p \in Steps BY BelowFacts DEF Of, Origin
<1>2. d \in S BY <1>1, BelowFacts
<1>3. ASSUME NEW x \in S, NEW y \in To[x] PROVE y \in S
  <2>1. y \in Below(d) BY <1>1, BelowFacts
  <2>2. ASSUME y \in Within(u), y # u PROVE u \in Below(d)
    <3>1. PICK z \in Within(u) : y \in To[z] BY <1>1, <2>2, WithinFacts
    <3>2. z \in Below(p) /\ x \in Below(p) BY <1>1, WithinFacts, BelowFacts
    <3>3. z = x BY <3>1, <3>2, OneWayFacts DEF Tree, Below
    <3> QED BY <3>1, <3>3
  <2> QED BY <2>1, <2>2
<1>4. Below(d) \subseteq S
  <2> HIDE DEF S
  <2> QED BY <1>1, <1>2, <1>3, ToFacts, ReachedFacts DEF Below
<1> QED BY <1>4
-----------------------------------------------------------------------------
(* What the calls of a thread have yet to reach *)

Frames == FramesOf(Steps)

\* A non-empty stack and its innermost call.
LEMMA FramesFacts ==
    ASSUME NEW frames \in Seq(Frames), frames # <<>>
    PROVE  /\ Len(frames) \in Nat \ {0} /\ DOMAIN frames = 1 .. Len(frames)
           /\ Head(frames) = frames[1] /\ Head(frames) \in Frames
           /\ Tail(frames) \in Seq(Frames) /\ Len(Tail(frames)) = Len(frames) - 1
           /\ \A i \in 1 .. Len(frames) - 1 : Tail(frames)[i] = frames[i + 1]
           /\ \A i \in DOMAIN frames : frames[i] \in Frames
BY HeadTailProperties, ElementOfSeq, LenProperties

LEMMA PendingType ==
    ASSUME NEW frame \in Frames
    PROVE  Pending(frame) \in Seq(Steps)
<1>1. frame.step \in Steps /\ frame.todo \in Seq(Steps) BY DEF Frames, FramesOf
<1> QED BY <1>1 DEF Pending

\* What stands on top of the others.
LEMMA PendingTop ==
    ASSUME NEW frames \in Seq(Frames), frames # <<>>
    PROVE  PendingIn(frames) = ToSet(Pending(Head(frames))) \cup PendingIn(Tail(frames))
<1>1. ASSUME NEW d PROVE d \in PendingIn(Tail(frames)) <=> \E i \in 2 .. Len(frames) : d \in ToSet(Pending(frames[i]))
  <2>1. DOMAIN Tail(frames) = 1 .. Len(frames) - 1 BY FramesFacts, LenProperties
  <2>2. ASSUME NEW i \in 1 .. Len(frames) - 1 PROVE i + 1 \in 2 .. Len(frames) /\ Tail(frames)[i] = frames[i + 1]
    BY FramesFacts
  <2>3. ASSUME NEW i \in 2 .. Len(frames) PROVE i - 1 \in 1 .. Len(frames) - 1 /\ Tail(frames)[i - 1] = frames[i]
    <3>1. i - 1 \in 1 .. Len(frames) - 1 /\ (i - 1) + 1 = i BY FramesFacts
    <3> QED BY <3>1, FramesFacts
  <2>4. d \in PendingIn(Tail(frames)) => \E i \in 2 .. Len(frames) : d \in ToSet(Pending(frames[i]))
    BY <2>1, <2>2 DEF PendingIn
  <2>5. (\E i \in 2 .. Len(frames) : d \in ToSet(Pending(frames[i]))) => d \in PendingIn(Tail(frames))
    BY <2>1, <2>3 DEF PendingIn
  <2> QED BY <2>4, <2>5
<1>2. ASSUME NEW d PROVE d \in PendingIn(frames) <=> \E i \in 1 .. Len(frames) : d \in ToSet(Pending(frames[i]))
  BY FramesFacts DEF PendingIn
<1>3. 1 .. Len(frames) = {1} \cup 2 .. Len(frames) BY FramesFacts
<1> QED BY <1>1, <1>2, <1>3, FramesFacts

\* Apart: the calls below, those of the innermost one, and each of the others.
LEMMA ApartTop ==
    ASSUME config \in Configurations, NEW frames \in Seq(Frames), frames # <<>>
    PROVE  ApartIn(frames) <=>
           /\ ApartIn(Tail(frames)) /\ ApartIn(<<Head(frames)>>)
           /\ \A a \in ToSet(Pending(Head(frames))), b \in PendingIn(Tail(frames)) :
                  a \notin Below(b) /\ b \notin Below(a)
<1> DEFINE P(i) == Pending(frames[i])
<1>1. DOMAIN Tail(frames) = 1 .. Len(frames) - 1 /\ DOMAIN frames = 1 .. Len(frames) /\ Len(frames) \in Nat \ {0}
  BY FramesFacts, LenProperties
<1>2. \A i \in 1 .. Len(frames) - 1 : Tail(frames)[i] = frames[i + 1] BY FramesFacts
<1>3. DOMAIN <<Head(frames)>> = {1} /\ <<Head(frames)>>[1] = frames[1] BY FramesFacts
<1>4. ASSUME ApartIn(frames) PROVE ApartIn(Tail(frames))
  <2> SUFFICES ASSUME NEW i \in 1 .. Len(frames) - 1, NEW k \in 1 .. Len(frames) - 1,
                      NEW j \in DOMAIN P(i + 1), NEW l \in DOMAIN P(k + 1), i # k \/ j # l
               PROVE  P(k + 1)[l] \notin Below(P(i + 1)[j])
    BY <1>1, <1>2 DEF ApartIn
  <2>1. i + 1 \in DOMAIN frames /\ k + 1 \in DOMAIN frames /\ (i + 1 # k + 1 \/ j # l) BY <1>1
  <2> QED BY <1>4, <2>1 DEF ApartIn
<1>5. ASSUME ApartIn(frames) PROVE ApartIn(<<Head(frames)>>)
  BY <1>1, <1>3, <1>5 DEF ApartIn
<1>6. ASSUME ApartIn(frames), NEW a \in ToSet(Pending(Head(frames))), NEW b \in PendingIn(Tail(frames))
      PROVE  a \notin Below(b) /\ b \notin Below(a)
  <2>1. PICK j \in DOMAIN P(1) : P(1)[j] = a BY FramesFacts DEF ToSet
  <2>2. PICK k \in 1 .. Len(frames) - 1 : b \in ToSet(P(k + 1)) BY <1>1, <1>2 DEF PendingIn
  <2>3. PICK l \in DOMAIN P(k + 1) : P(k + 1)[l] = b BY <2>2 DEF ToSet
  <2>4. 1 \in DOMAIN frames /\ k + 1 \in DOMAIN frames /\ k + 1 # 1 BY <1>1
  <2> QED BY <1>6, <2>1, <2>3, <2>4 DEF ApartIn
<1>7. ASSUME ApartIn(Tail(frames)), ApartIn(<<Head(frames)>>),
             \A a \in ToSet(Pending(Head(frames))), b \in PendingIn(Tail(frames)) : a \notin Below(b) /\ b \notin Below(a)
      PROVE  ApartIn(frames)
  <2> SUFFICES ASSUME NEW i \in DOMAIN frames, NEW k \in DOMAIN frames,
                      NEW j \in DOMAIN P(i), NEW l \in DOMAIN P(k), i # k \/ j # l
               PROVE  P(k)[l] \notin Below(P(i)[j])
    BY DEF ApartIn
  <2>1. ASSUME NEW n \in DOMAIN frames, n # 1
        PROVE  n - 1 \in DOMAIN Tail(frames) /\ Tail(frames)[n - 1] = frames[n]
               /\ \A m \in DOMAIN P(n) : P(n)[m] \in PendingIn(Tail(frames))
    <3>1. n - 1 \in DOMAIN Tail(frames) /\ (n - 1) + 1 = n BY <1>1, <2>1
    <3>2. Tail(frames)[n - 1] = frames[n] BY <1>1, <1>2, <3>1
    <3>3. \A m \in DOMAIN P(n) : P(n)[m] \in ToSet(P(n)) BY DEF ToSet
    <3> QED BY <3>1, <3>2, <3>3 DEF PendingIn
  <2>2. ASSUME NEW m \in DOMAIN P(1) PROVE P(1)[m] \in ToSet(Pending(Head(frames)))
    BY FramesFacts DEF ToSet
  <2>3. CASE i = 1 /\ k = 1 BY <1>3, <1>7, <2>3 DEF ApartIn
  <2>4. CASE i = 1 /\ k # 1 BY <1>7, <2>1, <2>2, <2>4
  <2>5. CASE i # 1 /\ k = 1 BY <1>7, <2>1, <2>2, <2>5
  <2>6. CASE i # 1 /\ k # 1
    <3>1. i - 1 # k - 1 \/ j # l BY <1>1
    <3> QED BY <1>7, <2>1, <2>6, <3>1 DEF ApartIn
  <2> QED BY <2>3, <2>4, <2>5, <2>6
<1> QED BY <1>4, <1>5, <1>6, <1>7

\* A stack from its innermost call and the others.
LEMMA Stacked ==
    ASSUME NEW frame \in Frames, NEW others \in Seq(Frames)
    PROVE  /\ <<frame>> \o others \in Seq(Frames) /\ <<frame>> \o others # <<>>
           /\ Head(<<frame>> \o others) = frame /\ Tail(<<frame>> \o others) = others
<1> DEFINE new == <<frame>> \o others
<1>1. new \in Seq(Frames) /\ Len(new) = Len(others) + 1 /\ Len(others) \in Nat
  BY ConcatProperties, LenProperties
<1>2. new[1] = frame /\ \A i \in 1 .. Len(others) : new[i + 1] = others[i]
  BY <1>1, ConcatProperties
<1>3. new # <<>> BY <1>1
<1> HIDE DEF new
<1>4. Head(new) = frame BY <1>1, <1>2, <1>3
<1>5. Tail(new) \in Seq(Frames) /\ Len(Tail(new)) = Len(others) /\ \A i \in 1 .. Len(others) : Tail(new)[i] = new[i + 1]
  BY <1>1, <1>3, FramesFacts
<1>6. Tail(new) = others BY <1>1, <1>2, <1>5, SeqEqual
<1> QED BY <1>1, <1>3, <1>4, <1>6 DEF new

\* Two calls on top of the others.
LEMMA Twice ==
    ASSUME NEW a \in Frames, NEW b \in Frames, NEW others \in Seq(Frames)
    PROVE  <<a, b>> \o others = <<a>> \o (<<b>> \o others)
<1>1. <<a>> \in Seq(Frames) /\ <<b>> \in Seq(Frames) /\ <<a, b>> \in Seq(Frames) OBVIOUS
<1>2. <<a>> \o <<b>> \in Seq(Frames) /\ Len(<<a>> \o <<b>>) = 2 BY <1>1, ConcatProperties
<1>3. (<<a>> \o <<b>>)[1] = a /\ (<<a>> \o <<b>>)[2] = b BY <1>1, ConcatProperties
<1>4. ASSUME NEW s \in Seq(Frames), Len(s) = 2, s[1] = a, s[2] = b PROVE <<a, b>> = s
  <2>1. Len(<<a, b>>) = 2 /\ \A i \in 1 .. 2 : <<a, b>>[i] = s[i] BY <1>4
  <2> QED BY <1>1, <1>4, <2>1, SeqEqual
<1>5. <<a, b>> = <<a>> \o <<b>> BY <1>2, <1>3, <1>4
<1> QED BY <1>1, <1>5, ConcatAssociative

\* One call alone.
LEMMA ApartOne ==
    ASSUME NEW frame
    PROVE  ApartIn(<<frame>>) <=>
           \A j, l \in DOMAIN Pending(frame) : j # l => Pending(frame)[l] \notin Below(Pending(frame)[j])
BY DEF ApartIn

\* The innermost call reaches its step and goes on to those that it sends to.
LEMMA CallSpreads ==
    ASSUME config \in Configurations, NEW frames \in Seq(Frames), frames # <<>>, ApartIn(frames),
           NEW s \in Steps, Pending(Head(frames)) = <<s>>,
           NEW frame \in Frames, ToSet(Pending(frame)) \subseteq To[s], ApartIn(<<frame>>),
           \A d \in PendingIn(frames), e \in To[s] : e \in Below(d) => s \in Below(d)
    PROVE  /\ ApartIn(<<frame>> \o Tail(frames))
           /\ PendingIn(<<frame>> \o Tail(frames)) = (PendingIn(frames) \ {s}) \cup ToSet(Pending(frame))
           /\ s \in PendingIn(frames) /\ \A d \in PendingIn(frames) \ {s} : s \notin Below(d) /\ d \notin Below(s)
<1> DEFINE others == Tail(frames)  new == <<frame>> \o others
<1>1. others \in Seq(Frames) BY FramesFacts
<1>2. new \in Seq(Frames) /\ new # <<>> /\ Head(new) = frame /\ Tail(new) = others BY <1>1, Stacked
<1>3. ToSet(Pending(Head(frames))) = {s} BY DEF ToSet
<1>4. \A b \in PendingIn(others) : s \notin Below(b) /\ b \notin Below(s) BY <1>3, ApartTop
<1>5. s \in Below(s) /\ To[s] \subseteq Below(s) /\ (\A x \in Below(s) : Below(x) \subseteq Below(s)) BY BelowFacts
<1>6. PendingIn(frames) = {s} \cup PendingIn(others) /\ s \notin PendingIn(others)
  BY <1>3, <1>4, <1>5, PendingTop
<1>7. ASSUME NEW a \in ToSet(Pending(frame)), NEW b \in PendingIn(others)
      PROVE  a \notin Below(b) /\ b \notin Below(a)
  <2>1. a \in To[s] /\ a \in Below(s) BY <1>5
  <2>2. b \notin Below(a) BY <1>4, <1>5, <2>1
  <2>3. a \notin Below(b) BY <1>4, <1>6, <2>1
  <2> QED BY <2>2, <2>3
<1>8. ApartIn(others) BY ApartTop
<1>9. ApartIn(new)
  <2> HIDE DEF new, others
  <2> QED BY <1>2, <1>7, <1>8, ApartTop
<1>10. PendingIn(new) = ToSet(Pending(frame)) \cup PendingIn(others)
  <2> HIDE DEF new, others
  <2> QED BY <1>2, PendingTop
<1> QED BY <1>4, <1>6, <1>9, <1>10

\* Step::send makes a call of its own for the first step that is still to be reached.
LEMMA CallSends ==
    ASSUME config \in Configurations, NEW frames \in Seq(Frames), frames # <<>>, ApartIn(frames),
           Head(frames).at = "send", Head(frames).todo # <<>>
    PROVE  LET todo == Head(frames).todo
               new == <<Frame(Head(todo)), [Head(frames) EXCEPT !.todo = Tail(@)]>> \o Tail(frames)
           IN  ApartIn(new) /\ PendingIn(new) = PendingIn(frames)
<1> DEFINE todo == Head(frames).todo  others == Tail(frames)  rest == [Head(frames) EXCEPT !.todo = Tail(@)]
           call == Frame(Head(todo))  below == <<rest>> \o others
<1>1. Head(frames) \in Frames /\ others \in Seq(Frames) BY FramesFacts
<1>2. todo \in Seq(Steps) /\ todo # <<>> BY <1>1 DEF Frames, FramesOf
<1>3. /\ Len(todo) \in Nat \ {0} /\ DOMAIN todo = 1 .. Len(todo) /\ Head(todo) = todo[1] /\ Head(todo) \in Steps
      /\ Tail(todo) \in Seq(Steps) /\ DOMAIN Tail(todo) = 1 .. Len(todo) - 1
      /\ \A i \in 1 .. Len(todo) - 1 : Tail(todo)[i] = todo[i + 1]
  BY <1>2, HeadTailProperties, LenProperties
<1>4. rest \in Frames /\ rest.at = "send" /\ rest.todo = Tail(todo) BY <1>1, <1>3 DEF Frames, FramesOf
<1>5. call \in Frames /\ Pending(call) = <<todo[1]>>
  <2>1. <<>> \in Seq(Steps) OBVIOUS
  <2> QED BY <1>3, <2>1 DEF Frames, FramesOf, Frame, Pending
<1>6. Pending(Head(frames)) = todo /\ Pending(rest) = Tail(todo) BY <1>4 DEF Pending
<1>7. <<call, rest>> \o others = <<call>> \o below BY <1>1, <1>4, <1>5, Twice
<1> HIDE DEF rest, call, others, todo
<1>8. below \in Seq(Frames) /\ below # <<>> /\ Head(below) = rest /\ Tail(below) = others BY <1>1, <1>4, Stacked
<1> HIDE DEF below
<1> DEFINE new == <<call>> \o below
<1>9. new \in Seq(Frames) /\ new # <<>> /\ Head(new) = call /\ Tail(new) = below BY <1>5, <1>8, Stacked
<1> HIDE DEF new
<1>10. ToSet(Pending(call)) = {todo[1]} /\ ToSet(todo) = {todo[1]} \cup ToSet(Tail(todo))
       /\ \A d \in ToSet(Tail(todo)) : \E i \in 2 .. Len(todo) : d = todo[i]
  <2>1. ToSet(Pending(call)) = {todo[1]} BY <1>5 DEF ToSet
  <2>2. ASSUME NEW d \in ToSet(Tail(todo)) PROVE \E i \in 2 .. Len(todo) : d = todo[i]
    <3>1. PICK i \in 1 .. Len(todo) - 1 : d = todo[i + 1] BY <1>3 DEF ToSet
    <3> QED BY <1>3, <3>1
  <2>3. ToSet(Tail(todo)) \subseteq ToSet(todo) BY <1>3, <2>2 DEF ToSet
  <2>4. ASSUME NEW d \in ToSet(todo), d # todo[1] PROVE d \in ToSet(Tail(todo))
    <3>1. PICK i \in 1 .. Len(todo) : d = todo[i] BY <1>3 DEF ToSet
    <3>2. i - 1 \in 1 .. Len(todo) - 1 /\ (i - 1) + 1 = i BY <1>3, <2>4, <3>1
    <3> QED BY <1>3, <3>1, <3>2 DEF ToSet
  <2>5. todo[1] \in ToSet(todo) BY <1>3 DEF ToSet
  <2> QED BY <2>1, <2>2, <2>3, <2>4, <2>5
<1>11. PendingIn(new) = PendingIn(frames)
  <2>1. PendingIn(new) = {todo[1]} \cup PendingIn(below) BY <1>9, <1>10, PendingTop
  <2>2. PendingIn(below) = ToSet(Tail(todo)) \cup PendingIn(others) BY <1>6, <1>8, PendingTop
  <2>3. PendingIn(frames) = ToSet(todo) \cup PendingIn(others) BY <1>6, PendingTop DEF others
  <2> QED BY <1>10, <2>1, <2>2, <2>3
<1>12. ApartIn(others) /\ ApartIn(<<Head(frames)>>)
       /\ \A a \in ToSet(todo), b \in PendingIn(others) : a \notin Below(b) /\ b \notin Below(a)
  BY <1>6, ApartTop DEF others
<1>13. \A j, l \in 1 .. Len(todo) : j # l => todo[l] \notin Below(todo[j])
  BY <1>3, <1>6, <1>12, ApartOne
<1>14. ApartIn(<<rest>>)
  <2>1. ASSUME NEW j \in 1 .. Len(todo) - 1, NEW l \in 1 .. Len(todo) - 1, j # l
        PROVE  Tail(todo)[l] \notin Below(Tail(todo)[j])
    <3>1. j + 1 \in 1 .. Len(todo) /\ l + 1 \in 1 .. Len(todo) /\ j + 1 # l + 1 BY <1>3, <2>1
    <3> QED BY <1>3, <1>13, <3>1
  <2> QED BY <1>3, <1>6, <2>1, ApartOne
<1>15. ApartIn(<<call>>) BY <1>5, ApartOne
<1>16. ApartIn(below) BY <1>6, <1>8, <1>10, <1>12, <1>14, ApartTop
<1>17. \A a \in ToSet(Pending(call)), b \in PendingIn(below) : a \notin Below(b) /\ b \notin Below(a)
  <2>1. PendingIn(below) = ToSet(Tail(todo)) \cup PendingIn(others) BY <1>6, <1>8, PendingTop
  <2>2. ASSUME NEW b \in ToSet(Tail(todo)) PROVE todo[1] \notin Below(b) /\ b \notin Below(todo[1])
    <3>1. PICK i \in 2 .. Len(todo) : b = todo[i] BY <1>10
    <3>2. 1 \in 1 .. Len(todo) /\ i \in 1 .. Len(todo) /\ i # 1 BY <1>3
    <3> QED BY <1>13, <3>1, <3>2
  <2>3. todo[1] \in ToSet(todo) BY <1>10
  <2> QED BY <1>10, <1>12, <2>1, <2>2, <2>3
<1>18. ApartIn(new) BY <1>9, <1>15, <1>16, <1>17, ApartTop
<1> QED BY <1>7, <1>11, <1>18 DEF new, call, rest, others, todo

\* A call returns.
LEMMA CallReturns ==
    ASSUME config \in Configurations, NEW frames \in Seq(Frames), frames # <<>>, ApartIn(frames),
           Head(frames).at = "send", Head(frames).todo = <<>>
    PROVE  ApartIn(Tail(frames)) /\ PendingIn(Tail(frames)) = PendingIn(frames)
<1>1. ToSet(Pending(Head(frames))) = {} BY DEF Pending, ToSet
<1> QED BY <1>1, ApartTop, PendingTop

\* A source makes the first call.
LEMMA CallBegins ==
    ASSUME config \in Configurations, NEW s \in Steps
    PROVE  ApartIn(<<Frame(s)>>) /\ PendingIn(<<Frame(s)>>) = {s}
<1>1. Pending(Frame(s)) = <<s>> BY DEF Frame, Pending
<1>2. PendingIn(<<Frame(s)>>) = {s} BY <1>1 DEF PendingIn, ToSet
<1> QED BY <1>1, <1>2, ApartOne
-----------------------------------------------------------------------------
(* What the steps of the threads do to all that *)

\* What the invariants and the configuration say of a thread that is in a call.
LEMMA ThreadFacts ==
    ASSUME BuildInv, OneWay(config), Threading, NEW t \in Threads, Busy(t)
    PROVE  /\ message[t].source \in Origin /\ Tree(To, message[t].source)
           /\ From(t) \in Of(Sources) \cap Below(message[t].source)
           /\ PendingOf(t) \subseteq Within(From(t)) \ Of(Sources)
           /\ PendingOf(t) \subseteq Below(From(t)) /\ PendingOf(t) \subseteq Below(message[t].source)
<1>1. config \in Configurations /\ message[t] \in Messages BY DEF BuildInv, TypeOK, Busy
<1>2. message[t].source \in Origin BY <1>1 DEF Messages, Origin
<1>3. Tree(To, message[t].source) /\ message[t].source \in Steps BY <1>1, <1>2, OneWayFacts DEF Origin, Of
<1>4. /\ From(t) \in Of(Sources) \cap Below(message[t].source)
      /\ PendingOf(t) \subseteq Within(From(t)) \ Of(Sources)
  BY DEF Threading
<1>5. From(t) \in Steps BY <1>4 DEF Of
<1> QED BY <1>1, <1>2, <1>3, <1>4, <1>5, WithinFacts, BelowFacts

\* What leads to a step behind s leads to s, for all that a thread has yet to reach.
LEMMA Behinds ==
    ASSUME BuildInv, OneWay(config), Threading, Apart, NEW t \in Threads, Busy(t),
           NEW s \in Steps, Pending(Top(t)) = <<s>>
    PROVE  /\ s \in PendingOf(t)
           /\ \A d \in PendingOf(t), e \in To[s] : e \in Below(d) => s \in Below(d)
<1>1. stack[t] \in Seq(Frames) /\ stack[t] # <<>> /\ config \in Configurations
  BY DEF BuildInv, TypeOK, Busy, Frames
<1>2. ToSet(Pending(Head(stack[t]))) = {s} BY DEF Top, ToSet
<1>3. ApartIn(stack[t]) BY DEF Apart
<1>4. \A b \in PendingIn(Tail(stack[t])) : b \notin Below(s) BY <1>1, <1>2, <1>3, ApartTop
<1>5. PendingOf(t) = {s} \cup PendingIn(Tail(stack[t])) BY <1>1, <1>2, PendingTop DEF PendingOf
<1>6. s \in Below(s) /\ To[s] \subseteq Below(s) BY <1>1, BelowFacts
<1>7. ASSUME NEW d \in PendingOf(t), NEW e \in To[s], e \in Below(d), d # s PROVE s \in Below(d)
  <2>1. d # e BY <1>4, <1>5, <1>6, <1>7
  <2>2. /\ Tree(To, message[t].source)
        /\ s \in Reached(To, message[t].source) /\ d \in Reached(To, message[t].source)
    BY <1>5, ThreadFacts DEF Below
  <2>3. Graph(To) BY <1>1, ToFacts
  <2> QED BY <1>7, <2>1, <2>2, <2>3, ThroughPredecessor DEF Below
<1> QED BY <1>5, <1>6, <1>7

\* A thread's calls become others, which have yet to reach these steps.
Turns(t, pending) ==
    /\ \A u \in Threads \ {t} : stack'[u] = stack[u]
    /\ ApartIn(stack'[t]) /\ PendingIn(stack'[t]) = pending
\* A thread is done with s and goes on to other steps.
Handles(t, s, steps) ==
    /\ Busy(t) /\ s = Top(t).step /\ s \in PendingOf(t) /\ UNCHANGED message
    /\ \A d \in PendingOf(t) \ {s} : s \notin Below(d) /\ d \notin Below(s)
    /\ Turns(t, (PendingOf(t) \ {s}) \cup steps)

LEMMA HandlesEffect ==
    ASSUME BuildInv, OneWay(config), Threading, Apart, NEW t \in Threads, Busy(t),
           NEW s \in Steps, Top(t).step = s, Top(t).at # "send", UNCHANGED message,
           NEW todo \in Seq(Steps), ToSet(todo) \subseteq To[s], IsInjective(todo), Sends(t, todo)
    PROVE  Handles(t, s, ToSet(todo))
<1> DEFINE frame == [Top(t) EXCEPT !.at = "send", !.todo = todo]
<1>1. stack[t] \in Seq(Frames) /\ stack[t] # <<>> /\ config \in Configurations
  BY DEF BuildInv, TypeOK, Busy, Frames
<1>2. Top(t) \in Frames /\ Top(t) = Head(stack[t]) BY <1>1, FramesFacts DEF Top
<1>3. frame \in Frames /\ Pending(frame) = todo BY <1>2 DEF Frames, FramesOf, Pending
<1>4. Pending(Top(t)) = <<s>> BY DEF Pending
<1>5. /\ s \in PendingOf(t)
      /\ \A d \in PendingOf(t), e \in To[s] : e \in Below(d) => s \in Below(d)
  BY <1>4, Behinds
<1>6. ApartIn(<<frame>>)
  <2> SUFFICES ASSUME NEW j \in DOMAIN todo, NEW l \in DOMAIN todo, j # l, todo[l] \in Below(todo[j]) PROVE FALSE
    BY <1>3, ApartOne
  <2>1. todo[l] \in To[s] /\ todo[j] \in To[s] /\ todo[l] # todo[j] BY DEF ToSet, IsInjective
  <2>2. Tree(To, message[t].source) /\ s \in Reached(To, message[t].source) /\ Graph(To)
    BY <1>1, <1>5, ThreadFacts, ToFacts DEF Below
  <2>3. todo[j] \in Reached(To, message[t].source) /\ s \notin Reached(To, todo[j]) BY <2>1, <2>2, NoCircle
  <2> QED BY <2>1, <2>2, <2>3, ThroughPredecessor DEF Below
<1>7. ApartIn(stack[t]) /\ PendingOf(t) = PendingIn(stack[t]) BY DEF Apart, PendingOf
<1>8. stack'[t] = <<frame>> \o Tail(stack[t]) /\ \A u \in Threads \ {t} : stack'[u] = stack[u]
  BY DEF BuildInv, TypeOK
<1> DEFINE frames == stack[t]
<1>10. /\ frames \in Seq(Frames) /\ frames # <<>> /\ ApartIn(frames) /\ Pending(Head(frames)) = <<s>>
       /\ frame \in Frames /\ ToSet(Pending(frame)) \subseteq To[s]
       /\ \A d \in PendingIn(frames), e \in To[s] : e \in Below(d) => s \in Below(d)
       /\ stack'[t] = <<frame>> \o Tail(frames) /\ PendingOf(t) = PendingIn(frames)
  BY <1>1, <1>2, <1>3, <1>4, <1>5, <1>7, <1>8
<1> HIDE DEF frame, frames, Moves, Sends
<1>9. /\ ApartIn(stack'[t]) /\ PendingIn(stack'[t]) = (PendingOf(t) \ {s}) \cup ToSet(todo)
      /\ \A d \in PendingOf(t) \ {s} : s \notin Below(d) /\ d \notin Below(s)
  BY <1>1, <1>3, <1>6, <1>10, CallSpreads
<1> QED BY <1>5, <1>8, <1>9 DEF Handles, Turns

\* What a step sends on goes to those behind it, to none of them twice, ...
LEMMA RouteWay ==
    ASSUME BuildInv, place # "construct", NEW s \in Steps, config.kind[s] \notin Final
    PROVE  /\ Primary(s) \in To[s] /\ (s \notin Of({"fan_out", "round_robin"}) => To[s] = {Primary(s)})
           /\ \A type : /\ Route(s, type) \in Seq(Steps) /\ Route(s, type) # <<>>
                        /\ ToSet(Route(s, type)) \subseteq To[s] /\ IsInjective(Route(s, type))
                        /\ s \notin Of({"round_robin"}) => ToSet(Route(s, type)) = To[s]
<1> DEFINE dest == Destinations(s)  one(x) == <<x>>
<1>1. config \in Configurations /\ order = Added(config) /\ count \in [Steps -> Nat] BY DEF BuildInv, Built, TypeOK
<1>2. dest \in Seq(Steps) /\ dest # <<>> BY <1>1, DestinationsType
<1>3. dest = Attached(config, Added(config), s) /\ IsInjective(dest)
  BY <1>1, ConfigFacts DEF Constructed, Destinations, Steps
<1>4. Len(dest) \in Nat \ {0} /\ DOMAIN dest = 1 .. Len(dest) /\ \A i \in 1 .. Len(dest) : dest[i] \in ToSet(dest)
  BY <1>2 DEF ToSet
<1>5. \A x \in Steps : one(x) \in Seq(Steps) /\ one(x) # <<>> /\ ToSet(one(x)) = {x} /\ IsInjective(one(x))
  BY DEF ToSet, IsInjective
<1>6. s \in Of({"fan_out", "round_robin"}) => To[s] = ToSet(dest) BY <1>1, <1>3, ToFacts
<1>7. s \notin Of({"fan_out", "round_robin"}) => To[s] = {dest[1]}
  BY <1>1, <1>3, ToFacts DEF Of, Final
<1>8. Primary(s) = dest[1] /\ Primary(s) \in Steps /\ Primary(s) \in To[s]
  <2>1. dest[1] \in ToSet(dest) /\ dest[1] \in Steps BY <1>2, <1>4
  <2>2. Primary(s) = dest[1] BY DEF Primary
  <2>3. dest[1] \in To[s] BY <1>6, <1>7, <2>1
  <2> QED BY <2>1, <2>2, <2>3
<1>9. ASSUME s \in Of({"round_robin"}) PROVE \E x \in ToSet(dest) \cap Steps : InTurn(s) = one(x)
  <2>0. count[s] \in Nat BY <1>1
  <2>1. 1 + (count[s] % Len(dest)) \in 1 .. Len(dest)
    <3> HIDE DEF dest
    <3> QED BY <1>4, <2>0
  <2> QED BY <1>2, <1>4, <2>1 DEF InTurn
<1> HIDE DEF dest, one
<1>10. ASSUME NEW type
       PROVE  /\ Route(s, type) \in Seq(Steps) /\ Route(s, type) # <<>>
              /\ ToSet(Route(s, type)) \subseteq To[s] /\ IsInjective(Route(s, type))
              /\ s \notin Of({"round_robin"}) => ToSet(Route(s, type)) = To[s]
  <2>1. CASE s \in Of({"fan_out"})
    <3>1. Route(s, type) = dest BY <2>1 DEF Route, FanOut, dest, Of
    <3> QED BY <1>2, <1>3, <1>6, <2>1, <3>1 DEF Of
  <2>2. CASE s \in Of({"round_robin"})
    <3>1. Route(s, type) = dest \/ Route(s, type) = InTurn(s) BY <2>2 DEF Route, RoundRobin, dest, Of
    <3> QED BY <1>2, <1>3, <1>5, <1>6, <1>9, <2>2, <3>1 DEF Of
  <2>3. CASE s \notin Of({"fan_out", "round_robin"})
    <3>1. Route(s, type) = one(Primary(s)) BY <2>3 DEF Route, one, Of
    <3> QED BY <1>5, <1>7, <1>8, <2>3, <3>1
  <2> QED BY <2>1, <2>2, <2>3 DEF Of
<1> QED BY <1>7, <1>8, <1>10

\* Step by step: those that pass messages on,
Passing == Of({"forward", "fan_out", "round_robin", "stopper"})
LEMMA PassEffect ==
    ASSUME BuildInv, OneWay(config), Threading, Apart, NEW t \in Threads, Pass(t) \/ Stopper(t)
    PROVE  \E s \in Passing, steps \in SUBSET Steps :
               /\ Handles(t, s, steps) /\ steps \subseteq To[s]
               /\ UNCHANGED <<queue, received, stopping, halted, service>>
               /\ s \notin stopping => steps # {} /\ (s \notin Of({"round_robin"}) => steps = To[s])
<1> DEFINE s == Top(t).step
<1>1. In(t, {"forward", "fan_out", "round_robin", "stopper"}, "enter") BY DEF Pass, Stopper, In, Of
<1>2. s \in Steps /\ s \in Passing /\ Top(t).at # "send" /\ Busy(t) /\ place # "construct" /\ config.kind[s] \notin Final
  BY <1>1, InFacts DEF In, Passing, Busy, Of, Final
<1> DEFINE Good(todo) == /\ todo \in Seq(Steps) /\ ToSet(todo) \subseteq To[s] /\ IsInjective(todo)
                         /\ s \notin stopping => todo # <<>> /\ (s \notin Of({"round_robin"}) => ToSet(todo) = To[s])
<1>3. \A type : Good(Route(s, type)) BY <1>2, RouteWay
<1>4. Good(<<>>) \/ s \notin stopping
  <2>1. <<>> \in Seq(Steps) /\ ToSet(<<>>) = {} /\ IsInjective(<<>>) BY DEF ToSet, IsInjective
  <2> QED BY <2>1
<1>5. Stopper(t) => Good(<<Primary(s)>>)
  <2>1. Stopper(t) => Route(s, "data") = <<Primary(s)>> BY DEF Stopper, In, Route, Of
  <2> QED BY <1>3, <2>1
<1>6. PICK todo : Good(todo) /\ Sends(t, todo)
  <2> HIDE DEF Good, Sends
  <2>1. CASE Pass(t)
    <3>1. Sends(t, IF s \in stopping THEN <<>> ELSE Route(s, message[t].type)) BY <2>1 DEF Pass
    <3> QED BY <1>3, <1>4, <3>1
  <2>2. CASE Stopper(t)
    <3>1. Sends(t, <<Primary(s)>>) BY <2>2 DEF Stopper
    <3> QED BY <1>5, <2>2, <3>1
  <2> QED BY <2>1, <2>2
<1>7. UNCHANGED <<message, queue, received, stopping, halted, service>> BY DEF Pass, Stopper
<1>8. Handles(t, s, ToSet(todo))
  <2> HIDE DEF Sends
  <2> QED BY <1>2, <1>6, <1>7, HandlesEffect
<1>9. todo # <<>> => ToSet(todo) # {}
  <2>1. todo # <<>> => 1 \in DOMAIN todo BY <1>6
  <2> QED BY <2>1 DEF ToSet
<1>10. ToSet(todo) \in SUBSET Steps
  <2>1. todo \in Seq(Steps) BY <1>6
  <2> QED BY <2>1 DEF ToSet
<1> HIDE DEF s
<1> QED BY <1>2, <1>6, <1>7, <1>8, <1>9, <1>10

\* ... and those that do not, ...
LEMMA LeaveEffect ==
    ASSUME BuildInv, OneWay(config), Threading, Apart, NEW t \in Threads, Consume(t) \/ Publish(t) \/ GiveUp(t)
    PROVE  /\ Handles(t, Top(t).step, {}) /\ UNCHANGED service
           /\ Consume(t) => Top(t).step \in Consumers /\ UNCHANGED <<queue, halted>>
           /\ Publish(t) \/ GiveUp(t) => Top(t).step \in Of({"send_to_queue"}) /\ UNCHANGED received
           /\ GiveUp(t) => UNCHANGED queue
<1> DEFINE s == Top(t).step
<1>1. PICK where \in {"enter", "wait"} :
          \/ In(t, {"consumer"}, where) /\ Consume(t)
          \/ In(t, {"send_to_queue"}, where) /\ (Publish(t) \/ GiveUp(t))
  BY DEF Consume, Publish, GiveUp, Publishes
<1>2. s \in Steps /\ Top(t).at # "send" /\ Busy(t) BY <1>1, InFacts DEF In, Busy
<1>3. <<>> \in Seq(Steps) /\ ToSet(<<>>) = {} /\ IsInjective(<<>>) BY DEF ToSet, IsInjective
<1>4. Sends(t, <<>>) /\ UNCHANGED <<message, service>> BY DEF Consume, Publish, GiveUp, PublishReturns
<1>5. Handles(t, s, {})
  <2> HIDE DEF s, Sends
  <2>1. Handles(t, s, ToSet(<<>>)) BY <1>2, <1>3, <1>4, HandlesEffect DEF s
  <2> QED BY <1>3, <2>1
<1>6. Consume(t) => In(t, {"consumer"}, "enter") BY DEF Consume
<1>7. Publish(t) \/ GiveUp(t) => Top(t).step \in Of({"send_to_queue"})
  BY DEF Publish, GiveUp, Publishes, In
<1> QED BY <1>4, <1>5, <1>6, <1>7 DEF In, Consumers, Consume, Publish, GiveUp, PublishReturns

\* ... those that leave all where it is, ...
LEMMA GoOnEffect ==
    ASSUME BuildInv, Apart, NEW t \in Threads, Send(t) \/ Return(t) \/ WaitToPublish(t)
    PROVE  /\ Busy(t) /\ Turns(t, PendingOf(t))
           /\ UNCHANGED <<message, queue, received, stopping, halted, service, run, count>>
<1> DEFINE frames == stack[t]
<1>1. /\ frames \in Seq(Frames) /\ frames # <<>> /\ config \in Configurations /\ ApartIn(frames) /\ Busy(t)
      /\ PendingOf(t) = PendingIn(frames) /\ Top(t) = Head(frames)
  BY DEF BuildInv, TypeOK, Busy, Frames, Apart, Send, Return, WaitToPublish, Publishes, In, PendingOf, Top
<1>2. UNCHANGED <<message, queue, received, stopping, halted, service, run, count>>
  BY DEF Send, Return, WaitToPublish
<1>3. CASE Send(t)
  <2> DEFINE new == <<Frame(Head(Head(frames).todo)), [Head(frames) EXCEPT !.todo = Tail(@)]>> \o Tail(frames)
  <2>1. Head(frames).at = "send" /\ Head(frames).todo # <<>> BY <1>1, <1>3 DEF Send, In
  <2>2. stack'[t] = new /\ \A u \in Threads \ {t} : stack'[u] = stack[u]
    BY <1>1, <1>3 DEF Send, BuildInv, TypeOK
  <2>3. ApartIn(new) /\ PendingIn(new) = PendingIn(frames) BY <1>1, <2>1, CallSends
  <2> HIDE DEF new, frames
  <2> QED BY <1>1, <1>2, <2>2, <2>3 DEF Turns
<1>4. CASE Return(t)
  <2>1. Head(frames).at = "send" /\ Head(frames).todo = <<>> BY <1>1, <1>4 DEF Return, In
  <2>2. stack'[t] = Tail(frames) /\ \A u \in Threads \ {t} : stack'[u] = stack[u]
    BY <1>4 DEF Return, BuildInv, TypeOK
  <2>3. ApartIn(Tail(frames)) /\ PendingIn(Tail(frames)) = PendingIn(frames) BY <1>1, <2>1, CallReturns
  <2> HIDE DEF frames
  <2> QED BY <1>1, <1>2, <2>2, <2>3 DEF Turns
<1>5. CASE WaitToPublish(t)
  <2> DEFINE frame == [Top(t) EXCEPT !.at = "wait", !.todo = <<>>]  new == <<frame>> \o Tail(frames)
  <2>1. Head(frames).at = "enter" BY <1>1, <1>5 DEF WaitToPublish, Publishes, In
  <2>2. Head(frames) \in Frames /\ Tail(frames) \in Seq(Frames) BY <1>1, FramesFacts
  <2>3. frame \in Frames /\ Pending(frame) = Pending(Head(frames))
    <3>1. <<>> \in Seq(Steps) OBVIOUS
    <3> QED BY <1>1, <2>1, <2>2, <3>1 DEF Frames, FramesOf, Pending
  <2>4. stack'[t] = new /\ \A u \in Threads \ {t} : stack'[u] = stack[u]
    BY <1>5 DEF WaitToPublish, BuildInv, TypeOK
  <2> HIDE DEF frame
  <2>5. new \in Seq(Frames) /\ new # <<>> /\ Head(new) = frame /\ Tail(new) = Tail(frames) BY <2>2, <2>3, Stacked
  <2>6. ApartIn(<<frame>>) <=> ApartIn(<<Head(frames)>>) BY <2>3, ApartOne
  <2> HIDE DEF new, frames
  <2>7. ApartIn(new) BY <1>1, <2>3, <2>5, <2>6, ApartTop
  <2>8. PendingIn(new) = PendingIn(frames) BY <1>1, <2>3, <2>5, PendingTop
  <2> QED BY <1>1, <1>2, <2>4, <2>7, <2>8 DEF Turns
<1> QED BY <1>3, <1>4, <1>5

\* ... the exception that ends all calls, ...
LEMMA TimeOutEffect ==
    ASSUME BuildInv, NEW t \in Threads, TimeOut(t)
    PROVE  Busy(t) /\ Turns(t, {}) /\ config.timeouts /\ UNCHANGED <<message, queue, received>>
<1>1. stack'[t] = <<>> /\ \A u \in Threads \ {t} : stack'[u] = stack[u] BY DEF TimeOut, BuildInv, TypeOK
<1>2. ApartIn(<<>>) /\ PendingIn(<<>>) = {} BY DEF ApartIn, PendingIn
<1> QED BY <1>1, <1>2 DEF Turns, TimeOut, Busy, Publishes, In

\* ... and the sources.
LEMMA EmitEffect ==
    ASSUME BuildInv, NEW t \in Threads, NEW source \in Of(Sources), NEW m, Emit(t, source, m), place # "construct"
    PROVE  /\ Turns(t, To[source]) /\ message'[t] = m /\ \A u \in Threads \ {t} : message'[u] = message[u]
           /\ Busy(t)'
<1>1. source \in Steps /\ config \in Configurations /\ config.kind[source] \notin Final
      /\ source \notin Of({"fan_out", "round_robin"})
  BY DEF Of, BuildInv, TypeOK, Sources, Final
<1>2. To[source] = {Primary(source)} /\ Primary(source) \in Steps BY <1>1, RouteWay, ToFacts DEF Graph
<1>3. stack'[t] = <<Frame(Primary(source))>> /\ \A u \in Threads \ {t} : stack'[u] = stack[u]
  BY DEF BuildInv, TypeOK
<1>4. message'[t] = m /\ \A u \in Threads \ {t} : message'[u] = message[u] BY DEF BuildInv, TypeOK
<1>5. ApartIn(stack'[t]) /\ PendingIn(stack'[t]) = To[source] BY <1>1, <1>2, <1>3, CallBegins
<1>6. Busy(t)' BY <1>3 DEF Busy
<1> QED BY <1>3, <1>4, <1>5, <1>6 DEF Turns
-----------------------------------------------------------------------------
(* Every step, with regard to the messages *)

\* The ways stay.
LEMMA SameWays ==
    ASSUME [Next]_vars
    PROVE  /\ To' = To /\ Origin' = Origin /\ Queues' = Queues /\ Consumers' = Consumers
           /\ (\A s : Below(s)' = Below(s)) /\ (\A s : Within(s)' = Within(s))
           /\ \A frames : ApartIn(frames)' <=> ApartIn(frames)
<1>1. config' = config BY Writers
<1>2. To' = To BY <1>1 DEF To
<1>3. \A s : Below(s)' = Below(s) BY <1>2 DEF Below
<1>4. WithinTo' = WithinTo BY <1>2, SameSteps DEF WithinTo
<1>5. \A s : Within(s)' = Within(s) BY <1>4 DEF Within
<1>6. \A frames : ApartIn(frames)' <=> ApartIn(frames) BY <1>3 DEF ApartIn
<1> QED BY <1>2, <1>3, <1>5, <1>6, SameSteps DEF Origin, Queues, Consumers

\* A thread goes on, at the steps it has yet to reach or behind them.
GoesOn(t) ==
    /\ Busy(t) /\ UNCHANGED message
    /\ \A u \in Threads \ {t} : stack'[u] = stack[u]
    /\ ApartIn(stack'[t])
    /\ \A d \in PendingIn(stack'[t]) :
           d \in PendingOf(t) \/ \E s \in PendingOf(t) \ Of({"send_to_queue"}) : d \in To[s]
\* No message arrives.
Proceeds(t) == GoesOn(t) /\ UNCHANGED <<queue, received>>
\* An origin sends a new message.
Types == {"data", "heartbeat", "shutdown"}
Begins(t, source, type) ==
    /\ ~Busy(t) /\ UNCHANGED <<queue, received>>
    /\ \/ source \in Of({"producer"}) /\ t = source /\ run[t] = "loop" /\ type \in {"data", "shutdown"}
       \/ source \in Of({"heartbeat"}) /\ t = Asio /\ type = "heartbeat"
    /\ Turns(t, To[source]) /\ Busy(t)'
    /\ message'[t] = Message(type, source) /\ \A u \in Threads \ {t} : message'[u] = message[u]
    /\ run' = [run EXCEPT ![t] = "send"]
    /\ count' = IF t = source THEN count ELSE [count EXCEPT ![source] = @ + 1]

LEMMA BeginEffect ==
    ASSUME BuildInv
    PROVE  /\ \A p \in Of({"producer"}) : Produce(p) => p \in Threads /\ \E type \in Types : Begins(p, p, type)
           /\ \A h \in Of({"heartbeat"}) : HandleTimer(h) => Begins(Asio, h, "heartbeat")
<1>1. ASSUME NEW p \in Of({"producer"}), Produce(p) PROVE \E type \in Types : Begins(p, p, type)
  <2>1. p \in Threads /\ p \in Of(Sources) BY DEF Threads, Threaded, Of, Sources
  <2>2. run[p] = "loop" /\ stack[p] = <<>> /\ place # "construct"
    BY <1>1, <2>1 DEF Produce, BuildInv, Built
  <2>3. PICK type \in {"data", "shutdown"} : Emit(p, p, Message(type, p)) BY <1>1, Zenon DEF Produce
  <2>4. UNCHANGED <<queue, received, count>> /\ run' = [run EXCEPT ![p] = "send"] BY <1>1 DEF Produce
  <2>5. /\ Turns(p, To[p]) /\ message'[p] = Message(type, p) /\ \A u \in Threads \ {p} : message'[u] = message[u]
        /\ Busy(p)'
    <3> HIDE DEF Emit
    <3> QED BY <2>1, <2>2, <2>3, EmitEffect
  <2> HIDE DEF Emit
  <2> QED BY <2>2, <2>3, <2>4, <2>5 DEF Begins, Busy, Types
<1>2. ASSUME NEW h \in Of({"heartbeat"}), HandleTimer(h) PROVE Begins(Asio, h, "heartbeat")
  <2>1. Asio \in Threads /\ h \in Of(Sources) /\ h # Asio
    BY ConfigFacts DEF Threads, Of, Sources, BuildInv, TypeOK
  <2>2. stack[Asio] = <<>> /\ place # "construct" BY <1>2, <2>1 DEF HandleTimer, BuildInv, Built
  <2>3. Emit(Asio, h, Message("heartbeat", h)) BY <1>2 DEF HandleTimer
  <2>4. /\ UNCHANGED <<queue, received>> /\ run' = [run EXCEPT ![Asio] = "send"]
        /\ count' = [count EXCEPT ![h] = @ + 1]
    BY <1>2 DEF HandleTimer
  <2>5. /\ Turns(Asio, To[h]) /\ message'[Asio] = Message("heartbeat", h) /\ Busy(Asio)'
        /\ \A u \in Threads \ {Asio} : message'[u] = message[u]
    <3> HIDE DEF Emit
    <3> QED BY <2>1, <2>2, <2>3, EmitEffect
  <2> QED BY <2>1, <2>2, <2>4, <2>5 DEF Begins, Busy
<1>3. \A p \in Of({"producer"}) : p \in Threads BY DEF Threads, Threaded, Of
<1> QED BY <1>1, <1>2, <1>3

LEMMA Effects ==
    ASSUME BuildInv, OneWay(config), Threading, Apart, [Next]_vars
    PROVE  \/ UNCHANGED <<stack, message, queue, received>>
           \/ \E t \in Threads : Proceeds(t) \/ Consume(t) \/ Publish(t)
           \/ \E t \in Threads, source \in Origin, type \in Types : Begins(t, source, type)
           \/ \E q \in Queues : GetNext(q)
<1>1. ASSUME NEW t \in Threads, Pass(t) \/ Stopper(t) PROVE Proceeds(t)
  <2>1. PICK s \in Passing, steps \in SUBSET Steps : /\ Handles(t, s, steps) /\ steps \subseteq To[s]
                                    /\ UNCHANGED <<queue, received, stopping, halted, service>>
    BY <1>1, PassEffect
  <2>2. s \notin Of({"send_to_queue"}) BY DEF Passing, Of
  <2> QED BY <2>1, <2>2 DEF Proceeds, GoesOn, Handles, Turns
<1>2. ASSUME NEW t \in Threads, GiveUp(t) PROVE Proceeds(t)
  BY <1>2, LeaveEffect DEF Proceeds, GoesOn, Handles, Turns
<1>3. ASSUME NEW t \in Threads, Send(t) \/ Return(t) \/ WaitToPublish(t) PROVE Proceeds(t)
  BY <1>3, GoOnEffect DEF Proceeds, GoesOn, Turns
<1>4. ASSUME NEW t \in Threads, TimeOut(t) PROVE Proceeds(t)
  BY <1>4, TimeOutEffect DEF Proceeds, GoesOn, Turns
<1>5. ASSUME NEW t \in Threads, Stopping(t) PROVE UNCHANGED <<stack, message, queue, received>>
  BY <1>5 DEF Stopping, StopService, StopStep, StopNotify
<1>6. ASSUME NEW t \in Threads, StepOf(t)
      PROVE  Proceeds(t) \/ Consume(t) \/ Publish(t) \/ UNCHANGED <<stack, message, queue, received>>
  BY <1>1, <1>2, <1>3, <1>4, <1>5, <1>6, Zenon DEF StepOf, Handle
<1>7. ASSUME NEW s \in Steps, SourceStep(s)
      PROVE  \/ UNCHANGED <<stack, message, queue, received>> \/ (\E q \in Queues : GetNext(q))
             \/ (\E p \in Of({"producer"}) : Produce(p)) \/ \E h \in Of({"heartbeat"}) : HandleTimer(h)
  BY <1>7 DEF SourceStep, Produced, TestStopping, GetNothing, GetTimesOut, Queues
<1>8. StartTimer \/ ServiceEnds \/ Application => UNCHANGED <<stack, message, queue, received>>
  BY DEF StartTimer, ServiceEnds, Application, Construct, RunThreads, StartStep, Started, Wait, Stop, Stopped,
      JoinThreads, FinishStep, Finished
<1>9. UNCHANGED vars => UNCHANGED <<stack, message, queue, received>> BY DEF vars
<1>10. ASSUME \/ \E p \in Of({"producer"}) : Produce(p)
              \/ \E h \in Of({"heartbeat"}) : HandleTimer(h)
       PROVE  \E t \in Threads, source \in Origin, type \in Types : Begins(t, source, type)
  <2>1. Asio \in Threads BY DEF Threads
  <2>2. "heartbeat" \in Types BY DEF Types
  <2>3. Of({"producer"}) \subseteq Origin /\ Of({"heartbeat"}) \subseteq Origin BY DEF Origin, Of
  <2> QED BY <1>10, <2>1, <2>2, <2>3, BeginEffect
<1> QED BY <1>6, <1>7, <1>8, <1>9, <1>10, Actions

\* The steps of a queue, a thread and a consumer.
LEMMA KindFacts ==
    ASSUME config \in Configurations
    PROVE  /\ Queues \subseteq Threads /\ Queues \subseteq Steps /\ Consumers \subseteq Steps
           /\ Queues \cap Consumers = {} /\ Asio \in Threads /\ Asio \notin Steps /\ Queues \subseteq Of(Sources)
           /\ Origin \subseteq Of(Sources) /\ Origin \subseteq Steps /\ Origin \cap Queues = {}
BY ConfigFacts DEF Queues, Consumers, Origin, Of, Sources, Threads, Threaded

\* When a thread goes on, no step gets a message that it did not have.
LEMMA HeldFewer ==
    ASSUME BuildInv, [Next]_vars, UNCHANGED <<message, queue, received>>,
           \A q \in Queues : Busy(q)' => Busy(q)
    PROVE  \A x : Held(x)' \subseteq Held(x)
BY SameWays DEF Held

\* The threads stay where they should be.
LEMMA HandsStep ==
    ASSUME BuildInv, OneWay(config), Threading, Apart, [Next]_vars,
           UNCHANGED <<stack, message>> \/ \E t \in Threads : GoesOn(t)
    PROVE  /\ Threading' /\ Apart' /\ UNCHANGED message
           /\ \A u \in Threads :
                  /\ Busy(u)' => Busy(u)
                  /\ \A d \in PendingOf(u)' : \E s \in PendingOf(u) : d \in Below(s) /\ s \in Steps
<1>1. config \in Configurations BY DEF BuildInv, TypeOK
<1>2. ASSUME NEW u \in Threads
      PROVE  /\ ApartIn(stack'[u])
             /\ Busy(u)' => Busy(u)
             /\ \A d \in PendingOf(u)' : /\ Busy(u)
                                         /\ \/ d \in PendingOf(u)
                                            \/ \E s \in PendingOf(u) \ Of({"send_to_queue"}) : d \in To[s]
  <2>1. PendingOf(u)' = PendingIn(stack'[u]) /\ PendingOf(u) = PendingIn(stack[u]) BY DEF PendingOf
  <2>2. PendingIn(<<>>) = {} BY DEF PendingIn
  <2>3. CASE stack'[u] = stack[u] BY <2>1, <2>2, <2>3 DEF Busy, Apart
  <2>4. CASE GoesOn(u) BY <2>1, <2>4 DEF GoesOn
  <2> QED BY <2>3, <2>4 DEF GoesOn
<1>3. UNCHANGED message BY DEF GoesOn
<1>5. ASSUME NEW u \in Threads, NEW d \in PendingOf(u)'
      PROVE  /\ Busy(u) /\ d \in Within(From(u)) \ Of(Sources) /\ d \in Steps
             /\ \E s \in PendingOf(u) : d \in Below(s) /\ s \in Steps
  <2>1. Busy(u) BY <1>2, <1>5
  <2>2. From(u) \in Steps /\ message[u].source \in Steps BY <2>1, ThreadFacts DEF Of, Origin
  <2>3. PendingOf(u) \subseteq Steps BY <1>1, <2>1, <2>2, ThreadFacts, BelowFacts
  <2>4. CASE d \in PendingOf(u) BY <1>1, <2>1, <2>3, <2>4, ThreadFacts, BelowFacts
  <2>5. ASSUME NEW s \in PendingOf(u) \ Of({"send_to_queue"}), d \in To[s]
        PROVE  d \in Within(From(u)) \ Of(Sources) /\ d \in Steps /\ d \in Below(s)
    <3>1. s \in Within(From(u)) /\ s \in Steps BY <2>1, <2>3, <2>5, ThreadFacts
    <3> QED BY <1>1, <2>2, <2>5, <3>1, WithinFacts, OneWayFacts, BelowFacts
  <2> QED BY <1>2, <1>5, <2>1, <2>3, <2>4, <2>5
<1>6. \A u \in Threads : Busy(u)' => From(u)' = From(u) BY <1>3 DEF From
<1>7. Threading'
  <2> SUFFICES ASSUME NEW u \in Threads, Busy(u)'
               PROVE  /\ From(u)' \in Of(Sources) /\ (u = Asio => From(u)' \in Of({"heartbeat"}))
                      /\ u \in Of({"producer"}) => message'[u].source = u
                      /\ From(u)' \in Below(message'[u].source)
                      /\ PendingOf(u)' \subseteq Within(From(u)') \ Of(Sources)
    BY SameSteps, SameWays DEF Threading
  <2>1. Busy(u) /\ From(u)' = From(u) /\ message' = message BY <1>2, <1>3, <1>6
  <2> QED BY <1>5, <2>1 DEF Threading
<1>8. Apart' BY <1>2, SameSteps, SameWays DEF Apart, ApartIn
<1> QED BY <1>2, <1>3, <1>5, <1>7, <1>8

LEMMA ProceedOrder ==
    ASSUME BuildInv, OneWay(config), Threading, Apart, Ordered, [Next]_vars,
           UNCHANGED <<stack, message, queue, received>> \/ \E t \in Threads : Proceeds(t)
    PROVE  Threading' /\ Apart' /\ Ordered'
<1>1. config \in Configurations BY DEF BuildInv, TypeOK
<1>2. /\ Threading' /\ Apart'
      /\ \A u \in Threads :
             /\ Busy(u)' => Busy(u)
             /\ \A d \in PendingOf(u)' : \E s \in PendingOf(u) : d \in Below(s) /\ s \in Steps
  BY HandsStep DEF Proceeds
<1>3. UNCHANGED <<message, queue, received>> BY DEF Proceeds, GoesOn
<1>4. \A x : Held(x)' \subseteq Held(x) BY <1>1, <1>2, <1>3, HeldFewer, KindFacts
<1>9. ThreadsAhead'
  <2> SUFFICES ASSUME NEW u \in Threads, NEW d \in PendingOf(u)', NEW x \in Below(d), NEW k \in Held(x)'
               PROVE  Older(k, message'[u])
    BY SameSteps, SameWays DEF ThreadsAhead, Behind
  <2>1. PICK s \in PendingOf(u) : d \in Below(s) /\ s \in Steps BY <1>2
  <2>2. x \in Below(s) BY <1>1, <2>1, BelowFacts
  <2> QED BY <1>3, <1>4, <2>1, <2>2 DEF Ordered, ThreadsAhead, Behind
<1>10. QueuesAhead'
  <2> SUFFICES ASSUME NEW q \in Queues, NEW i \in DOMAIN queue[q]
               PROVE  /\ \A x \in Below(q) \ {q} : \A k \in Held(x)' : Older(k, queue[q][i])
                      /\ Busy(q)' => Older(message[q], queue[q][i])
                      /\ \A j \in DOMAIN queue[q] : j < i => Older(queue[q][j], queue[q][i])
    BY <1>3, SameWays DEF QueuesAhead, Behind
  <2> QED BY <1>1, <1>2, <1>4, KindFacts DEF Ordered, QueuesAhead, Behind
<1>11. ReceivedSorted' BY <1>3, SameWays DEF Ordered, ReceivedSorted
<1>12. Fed' BY <1>4, SameSteps, SameWays DEF Ordered, Fed
<1> QED BY <1>2, <1>9, <1>10, <1>11, <1>12 DEF Ordered

\* Nothing leads to an origin, ...
LEMMA OriginsFirst ==
    ASSUME config \in Configurations, OneWay(config), NEW d \in Steps, NEW p \in Origin, p \in Below(d)
    PROVE  d = p
<1>1. d = p \/ \E y \in Below(d) : p \in To[y] BY BelowFacts
<1>2. \A y \in Below(d) : p \notin To[y] BY BelowFacts, OneWayFacts, ToFacts DEF Tree
<1> QED BY <1>1, <1>2

\* ... and what a thread handles another one does not.
LEMMA OtherThread ==
    ASSUME BuildInv, OneWay(config), Threading, NEW t \in Threads, NEW u \in Threads \ {t}, Busy(t), Busy(u),
           message[t].source = message[u].source, NEW s \in PendingOf(t), NEW d \in PendingOf(u), s \in Below(d)
    PROVE  t \in Queues /\ t \in Below(d)
<1>1. config \in Configurations BY DEF BuildInv, TypeOK
<1> DEFINE p == message[t].source  a == From(t)  b == From(u)
<1>2. p \in Origin /\ a \in Of(Sources) \cap Below(p) /\ b \in Of(Sources) \cap Below(p) BY ThreadFacts
<1>3. s \in Within(a) \cap Below(p) /\ d \in Within(b) \cap Below(p) /\ d \notin Of(Sources) BY ThreadFacts
<1>4. a # b
  <2>1. a \in Steps /\ b \in Steps BY <1>2 DEF Of
  <2>2. Of({"heartbeat"}) \cap Threads = {} BY <1>1, ConfigFacts DEF Threads, Threaded, Of
  <2>3. (t = Asio => a \in Of({"heartbeat"})) /\ (u = Asio => b \in Of({"heartbeat"})) BY DEF Threading
  <2> QED BY <2>1, <2>2, <2>3 DEF From
<1> HIDE DEF a, b, p
<1>5. d \notin Within(a) BY <1>1, <1>2, <1>3, <1>4, ThreadsDisjoint
<1>6. a \in Below(d) BY <1>1, <1>2, <1>3, <1>5, ThroughSource
<1>7. d \in Steps BY <1>1, <1>2, <1>3, BelowFacts DEF Origin, Of
<1>8. a \notin Origin BY <1>1, <1>2, <1>3, <1>6, <1>7, OriginsFirst
<1>9. a \in Queues BY <1>2, <1>8 DEF Of, Sources, Origin, Queues
<1>10. a = t
  <2>1. t # Asio BY <1>9 DEF Threading, Queues, Of, a
  <2> QED BY <2>1 DEF From, a
<1> QED BY <1>6, <1>9, <1>10

\* A message that arrives is older than all that may come there.
LEMMA Arrival ==
    ASSUME BuildInv, OneWay(config), Threading, Apart, Ordered, NEW t \in Threads, NEW s \in Steps, Handles(t, s, {}),
           NEW x0, x0 = s \/ (x0 \in To[s] /\ x0 \in Queues)
    PROVE  /\ x0 \in Steps /\ x0 \in Below(s) /\ x0 \in Below(message[t].source)
           /\ \A u \in Threads : \A d \in PendingIn(stack'[u]) :
                  d \in PendingOf(u) /\ (x0 \in Below(d) => Older(message[t], message[u]))
           /\ \A q \in Queues : \A i \in DOMAIN queue[q] :
                  x0 \in Below(q) \ {q} => Older(message[t], queue[q][i])
<1>1. config \in Configurations /\ Graph(To) BY ToFacts DEF BuildInv, TypeOK
<1> DEFINE p == message[t].source  a == From(t)
<1>2. /\ Busy(t) /\ s \in PendingOf(t) /\ UNCHANGED message
      /\ \A d \in PendingOf(t) \ {s} : s \notin Below(d) /\ d \notin Below(s)
      /\ \A u \in Threads \ {t} : stack'[u] = stack[u]
      /\ PendingIn(stack'[t]) = PendingOf(t) \ {s}
  BY DEF Handles, Turns
<1>3. /\ p \in Origin /\ p \in Steps /\ Tree(To, p) /\ a \in Of(Sources) \cap Below(p) /\ a \in Steps
      /\ s \in Within(a) \ Of(Sources) /\ s \in Below(p) /\ PendingOf(t) \subseteq Below(p)
  BY <1>2, ThreadFacts DEF Origin, Of
<1>4. x0 \in Below(s) /\ x0 \in Below(p) /\ x0 \in Steps BY <1>1, <1>3, BelowFacts
<1>5. ASSUME NEW d \in Below(p), x0 \in Below(d), d # x0 \/ x0 = s PROVE s \in Below(d)
  <2>1. CASE x0 = s BY <1>5, <2>1
  <2>2. CASE x0 # s
    <3>1. x0 \in To[s] /\ d # x0 BY <1>5, <2>2
    <3>2. s \in Reached(To, p) /\ d \in Reached(To, p) /\ x0 \in Reached(To, d) BY <1>3, <1>5 DEF Below
    <3> QED BY <1>1, <1>3, <3>1, <3>2, ThroughPredecessor DEF Below
  <2> QED BY <2>1, <2>2
<1>6. ASSUME NEW u \in Threads, NEW d \in PendingIn(stack'[u]), x0 \in Below(d) PROVE Older(message[t], message[u])
  <2>1. d \in PendingOf(u) /\ (u = t => d \in PendingOf(t) \ {s}) BY <1>2, <1>6 DEF PendingOf
  <2>2. PendingIn(<<>>) = {} BY DEF PendingIn
  <2>3. Busy(u) BY <2>1, <2>2 DEF PendingOf, Busy
  <2>4. SUFFICES ASSUME message[t].source = message[u].source PROVE Older(message[t], message[u]) BY DEF Older
  <2>5. d \in Below(p) /\ d \notin Of(Sources) BY <2>1, <2>3, <2>4, ThreadFacts
  <2>6. d # x0 \/ x0 = s BY <1>1, <2>5, KindFacts
  <2>7. s \in Below(d) BY <1>5, <1>6, <2>5, <2>6
  <2>8. u # t BY <1>2, <2>1, <2>7
  <2>9. t \in Queues /\ t \in Below(d) BY <1>2, <2>1, <2>3, <2>4, <2>7, <2>8, OtherThread
  <2>10. message[t] \in Held(t)
    <3>1. t \notin Consumers BY <1>1, <2>9, KindFacts
    <3> QED BY <1>2, <2>9, <3>1 DEF Held
  <2> QED BY <2>1, <2>9, <2>10 DEF Ordered, ThreadsAhead, Behind
<1>7. ASSUME NEW q \in Queues, NEW i \in DOMAIN queue[q], x0 \in Below(q) \ {q} PROVE Older(message[t], queue[q][i])
  <2>1. SUFFICES ASSUME p = queue[q][i].source PROVE Older(message[t], queue[q][i]) BY DEF Older
  <2>2. q \in Steps /\ q \in Of(Sources) /\ q \notin Consumers /\ q \notin Origin BY <1>1, KindFacts
  <2>3. queue[q][i] \in Held(q) BY <2>2 DEF Held, ToSet
  <2>4. q \in Below(p) BY <2>1, <2>2, <2>3 DEF Ordered, Fed
  <2>5. s \in Below(q) BY <1>5, <1>7, <2>4
  <2>6. CASE q = a
    <3>1. q = t BY <1>2, <2>2, <2>6 DEF From, Threading, Queues, Of
    <3> QED BY <1>2, <3>1 DEF Ordered, QueuesAhead
  <2>7. CASE q # a
    <3>1. q \notin Within(a)
      <4>1. ASSUME NEW y \in Within(a) \ Of({"send_to_queue"}) PROVE q \notin To[y]
        <5>1. y \in Steps BY <1>1, <1>3, WithinFacts, BelowFacts
        <5> QED BY <1>1, <2>2, <5>1, OneWayFacts
      <4> QED BY <1>1, <1>3, <2>7, <4>1, WithinFacts
    <3>2. a \in Below(q) BY <1>1, <1>3, <2>4, <2>5, <3>1, ThroughSource
    <3>3. a \in Queues
      <4>1. a \notin Origin BY <1>1, <2>2, <3>2, OriginsFirst
      <4> QED BY <1>3, <4>1 DEF Of, Sources, Origin, Queues
    <3>4. a = t BY <1>2, <3>3 DEF From, Threading, Queues, Of
    <3>5. message[t] \in Held(a)
      <4>1. a \notin Consumers BY <1>1, <3>3, KindFacts
      <4> QED BY <1>2, <3>3, <3>4, <4>1 DEF Held
    <3> QED BY <2>7, <3>2, <3>5 DEF Ordered, QueuesAhead, Behind
  <2> QED BY <2>6, <2>7
<1>8. \A u \in Threads : \A d \in PendingIn(stack'[u]) : d \in PendingOf(u) BY <1>2 DEF PendingOf
<1> QED BY <1>4, <1>6, <1>7, <1>8

\* A sequence with one more.
LEMMA Appended ==
    ASSUME NEW S, NEW now \in Seq(S), NEW m \in S
    PROVE  LET longer == Append(now, m)
           IN  /\ Len(now) \in Nat /\ DOMAIN now = 1 .. Len(now) /\ DOMAIN longer = 1 .. Len(now) + 1
               /\ longer[Len(now) + 1] = m /\ \A i \in 1 .. Len(now) : longer[i] = now[i]
               /\ ToSet(longer) = ToSet(now) \cup {m} /\ \A i \in 1 .. Len(now) : now[i] \in ToSet(now)
<1> DEFINE longer == Append(now, m)
<1>1. /\ Len(now) \in Nat /\ DOMAIN now = 1 .. Len(now) /\ DOMAIN longer = 1 .. Len(now) + 1
      /\ longer[Len(now) + 1] = m /\ \A i \in 1 .. Len(now) : longer[i] = now[i]
  BY AppendProperties, LenProperties
<1>2. \A i \in 1 .. Len(now) : now[i] \in ToSet(now) BY <1>1 DEF ToSet
<1> HIDE DEF longer
<1>3. ToSet(longer) = ToSet(now) \cup {m}
  <2>1. ASSUME NEW k \in ToSet(longer) PROVE k \in ToSet(now) \cup {m}
    <3>1. PICK i \in 1 .. Len(now) + 1 : k = longer[i] BY <1>1 DEF ToSet
    <3> QED BY <1>1, <1>2, <3>1
  <2>2. ASSUME NEW k \in ToSet(now) PROVE k \in ToSet(longer)
    <3>1. PICK i \in 1 .. Len(now) : k = now[i] BY <1>1 DEF ToSet
    <3>2. i \in 1 .. Len(now) + 1 /\ k = longer[i] BY <1>1, <3>1
    <3> QED BY <1>1, <3>2 DEF ToSet
  <2>3. Len(now) + 1 \in 1 .. Len(now) + 1 BY <1>1
  <2>4. m \in ToSet(longer) BY <1>1, <2>3 DEF ToSet
  <2> QED BY <2>1, <2>2, <2>4
<1> QED BY <1>1, <1>2, <1>3 DEF longer

\* Wherever it arrives, ...
LEMMA ArriveOrder ==
    ASSUME BuildInv, OneWay(config), Threading, Apart, Ordered, [Next]_vars,
           NEW t \in Threads, NEW s \in Steps, Handles(t, s, {}),
           NEW x0, x0 = s \/ (x0 \in To[s] /\ x0 \in Queues),
           \A x : \A k \in Held(x)' : k \in Held(x) \/ (x = x0 /\ k = message[t])
    PROVE  /\ Threading' /\ Apart' /\ ThreadsAhead' /\ Fed'
           /\ \A q \in Queues : \A i \in DOMAIN queue[q] :
                  \A x \in Below(q) \ {q} : \A k \in Held(x)' : Older(k, queue[q][i])
<1>1. config \in Configurations BY DEF BuildInv, TypeOK
<1>2. GoesOn(t) /\ UNCHANGED message /\ Busy(t) BY DEF Handles, Turns, GoesOn
<1>3. Threading' /\ Apart' BY <1>2, HandsStep
<1>4. /\ x0 \in Steps /\ x0 \in Below(s) /\ x0 \in Below(message[t].source)
      /\ \A u \in Threads : \A d \in PendingIn(stack'[u]) :
             d \in PendingOf(u) /\ (x0 \in Below(d) => Older(message[t], message[u]))
      /\ \A q \in Queues : \A i \in DOMAIN queue[q] :
             x0 \in Below(q) \ {q} => Older(message[t], queue[q][i])
  BY Arrival
<1>5. ThreadsAhead'
  <2> SUFFICES ASSUME NEW u \in Threads, NEW d \in PendingOf(u)', NEW x \in Below(d), NEW k \in Held(x)'
               PROVE  Older(k, message'[u])
    BY SameSteps, SameWays DEF ThreadsAhead, Behind
  <2>1. d \in PendingIn(stack'[u]) BY DEF PendingOf
  <2>2. d \in PendingOf(u) /\ (x0 \in Below(d) => Older(message[t], message[u])) BY <1>4, <2>1
  <2>3. k \in Held(x) => Older(k, message[u]) BY <2>2 DEF Ordered, ThreadsAhead, Behind
  <2> QED BY <1>2, <2>2, <2>3
<1>6. Fed'
  <2> SUFFICES ASSUME NEW x \in Steps, NEW k \in Held(x)' PROVE x \in Below(k.source)
    BY SameSteps, SameWays DEF Fed
  <2> QED BY <1>4 DEF Ordered, Fed
<1>7. \A q \in Queues : \A i \in DOMAIN queue[q] :
          \A x \in Below(q) \ {q} : \A k \in Held(x)' : Older(k, queue[q][i])
  BY <1>4 DEF Ordered, QueuesAhead, Behind
<1> QED BY <1>3, <1>5, <1>6, <1>7

\* ... be it a consumer ...
LEMMA ConsumeOrder ==
    ASSUME BuildInv, OneWay(config), Threading, Apart, Ordered, [Next]_vars, NEW t \in Threads, Consume(t)
    PROVE  Threading' /\ Apart' /\ Ordered'
<1> DEFINE s == Top(t).step  m == message[t]  now == received[s]  longer == Append(now, m)
<1>1. config \in Configurations /\ received \in [Consumers -> Seq(Messages)] BY DEF BuildInv, TypeOK, Consumers
<1>2. Handles(t, s, {}) /\ s \in Consumers /\ UNCHANGED <<queue, message>> /\ GoesOn(t)
  BY LeaveEffect DEF Handles, GoesOn, Turns
<1>3. s \in Steps /\ s \notin Queues /\ now \in Seq(Messages) /\ m \in Messages /\ s \in PendingOf(t)
  BY <1>1, <1>2, KindFacts DEF Handles, Busy, BuildInv, TypeOK
<1>4. received' = [received EXCEPT ![s] = Append(@, m)] BY DEF Consume
<1> HIDE DEF s
<1>5. \A c \in Consumers : received'[c] = IF c = s THEN longer ELSE received[c] BY <1>1, <1>4
<1>6. \A q \in Queues : Busy(q)' => Busy(q) BY <1>1, <1>2, HandsStep, KindFacts
<1>7. /\ Len(now) \in Nat /\ DOMAIN now = 1 .. Len(now) /\ DOMAIN longer = 1 .. Len(now) + 1
      /\ longer[Len(now) + 1] = m /\ \A i \in 1 .. Len(now) : longer[i] = now[i]
      /\ ToSet(longer) = ToSet(now) \cup {m} /\ \A i \in 1 .. Len(now) : now[i] \in ToSet(now)
  BY <1>3, Appended
<1> HIDE DEF longer
<1>8. ASSUME NEW x, NEW k \in Held(x)' PROVE k \in Held(x) \/ (x = s /\ k = m)
  <2>1. CASE x \in Consumers
    <3>1. k \in ToSet(received'[x]) BY <1>8, <2>1, SameWays DEF Held
    <3>2. x = s => k \in ToSet(now) \/ k = m BY <1>5, <1>7, <2>1, <3>1
    <3> QED BY <1>5, <2>1, <3>1, <3>2 DEF Held
  <2>2. CASE x \notin Consumers BY <1>2, <1>6, <1>8, <2>2, SameWays DEF Held
  <2> QED BY <2>1, <2>2
<1>9. /\ Threading' /\ Apart' /\ ThreadsAhead' /\ Fed'
      /\ \A q \in Queues : \A i \in DOMAIN queue[q] :
             \A x \in Below(q) \ {q} : \A k \in Held(x)' : Older(k, queue[q][i])
  BY <1>2, <1>3, <1>8, ArriveOrder
<1>10. QueuesAhead'
  <2> SUFFICES ASSUME NEW q \in Queues, NEW i \in DOMAIN queue[q]
               PROVE  /\ \A x \in Below(q) \ {q} : \A k \in Held(x)' : Older(k, queue[q][i])
                      /\ Busy(q)' => Older(message[q], queue[q][i])
                      /\ \A j \in DOMAIN queue[q] : j < i => Older(queue[q][j], queue[q][i])
    BY <1>2, SameWays DEF QueuesAhead, Behind
  <2> QED BY <1>6, <1>9 DEF Ordered, QueuesAhead
<1>11. ReceivedSorted'
  <2> SUFFICES ASSUME NEW c \in Consumers, NEW i \in DOMAIN received'[c], NEW j \in DOMAIN received'[c], i < j
               PROVE  Older(received'[c][i], received'[c][j])
    BY SameWays DEF ReceivedSorted
  <2>1. CASE c # s BY <1>5, <2>1 DEF Ordered, ReceivedSorted
  <2>2. CASE c = s
    <3>1. i \in 1 .. Len(now) /\ j \in 1 .. Len(now) + 1 /\ received'[s] = longer
      BY <1>2, <1>5, <1>7, <2>2
    <3>2. CASE j \in 1 .. Len(now) BY <1>2, <1>7, <2>2, <3>1, <3>2 DEF Ordered, ReceivedSorted
    <3>3. CASE j = Len(now) + 1
      <4>1. now[i] \in Held(s) BY <1>2, <1>7, <3>1 DEF Held
      <4>2. s \in Below(s) BY <1>1, <1>3, BelowFacts
      <4>3. Older(now[i], m) BY <1>3, <4>1, <4>2 DEF Ordered, ThreadsAhead, Behind
      <4> QED BY <1>7, <2>2, <3>1, <3>3, <4>3
    <3> QED BY <3>1, <3>2, <3>3
  <2> QED BY <2>1, <2>2
<1> QED BY <1>9, <1>10, <1>11 DEF Ordered

\* ... or a queue.
LEMMA PublishOrder ==
    ASSUME BuildInv, OneWay(config), Threading, Apart, Ordered, [Next]_vars, NEW t \in Threads, Publish(t)
    PROVE  Threading' /\ Apart' /\ Ordered'
<1> DEFINE s == Top(t).step  m == message[t]  x0 == Target(t)  now == queue[x0]  longer == Append(now, m)
<1>1. config \in Configurations /\ queue \in [Queues -> Seq(Messages)] BY DEF BuildInv, TypeOK, Queues
<1>2. Handles(t, s, {}) /\ s \in Of({"send_to_queue"}) /\ UNCHANGED <<received, message>> /\ GoesOn(t)
  BY LeaveEffect DEF Handles, GoesOn, Turns
<1>3. s \in Steps /\ x0 \in To[s] /\ x0 \in Queues /\ now \in Seq(Messages) /\ m \in Messages /\ s \in PendingOf(t)
  BY <1>1, <1>2, ToFacts DEF Handles, Busy, BuildInv, TypeOK, Of, Target
<1>4. queue' = [queue EXCEPT ![x0] = Append(now, m)] BY DEF Publish, Put
<1> HIDE DEF s, x0
<1>5. \A q \in Queues : queue'[q] = IF q = x0 THEN longer ELSE queue[q] BY <1>1, <1>4
<1>6. \A q \in Queues : Busy(q)' => Busy(q) BY <1>1, <1>2, HandsStep, KindFacts
<1>7. /\ Len(now) \in Nat /\ DOMAIN now = 1 .. Len(now) /\ DOMAIN longer = 1 .. Len(now) + 1
      /\ longer[Len(now) + 1] = m /\ \A i \in 1 .. Len(now) : longer[i] = now[i]
      /\ ToSet(longer) = ToSet(now) \cup {m} /\ \A i \in 1 .. Len(now) : now[i] \in ToSet(now)
  BY <1>3, Appended
<1> HIDE DEF longer
<1>8. ASSUME NEW x, NEW k \in Held(x)' PROVE k \in Held(x) \/ (x = x0 /\ k = m)
  <2>1. CASE x \in Queues
    <3>1. x \notin Consumers BY <1>1, <2>1, KindFacts
    <3>2. k \in ToSet(queue'[x]) \/ (Busy(x)' /\ k = message'[x]) BY <1>8, <2>1, <3>1, SameWays DEF Held
    <3>3. x = x0 /\ k \in ToSet(queue'[x]) => k \in ToSet(now) \/ k = m BY <1>5, <1>7, <2>1
    <3> QED BY <1>2, <1>5, <1>6, <2>1, <3>1, <3>2, <3>3 DEF Held
  <2>2. CASE x \notin Queues BY <1>2, <1>8, <2>2, SameWays DEF Held
  <2> QED BY <2>1, <2>2
<1>9. /\ Threading' /\ Apart' /\ ThreadsAhead' /\ Fed'
      /\ \A q \in Queues : \A i \in DOMAIN queue[q] :
             \A x \in Below(q) \ {q} : \A k \in Held(x)' : Older(k, queue[q][i])
  BY <1>2, <1>3, <1>8, ArriveOrder
<1>10. QueuesAhead'
  <2> SUFFICES ASSUME NEW q \in Queues, NEW i \in DOMAIN queue'[q]
               PROVE  /\ \A x \in Below(q) \ {q} : \A k \in Held(x)' : Older(k, queue'[q][i])
                      /\ Busy(q)' => Older(message[q], queue'[q][i])
                      /\ \A j \in DOMAIN queue'[q] : j < i => Older(queue'[q][j], queue'[q][i])
    BY <1>2, SameWays DEF QueuesAhead, Behind
  <2>1. CASE q # x0 BY <1>5, <1>6, <1>9, <2>1 DEF Ordered, QueuesAhead
  <2>2. CASE q = x0 /\ i \in 1 .. Len(now)
    <3>1. queue'[q] = longer /\ queue'[q][i] = queue[q][i] BY <1>5, <1>7, <2>2
    <3>2. i \in DOMAIN queue[q] BY <1>7, <2>2
    <3>3. ASSUME NEW j \in DOMAIN queue'[q], j < i PROVE Older(queue'[q][j], queue'[q][i])
      <4>1. j \in 1 .. Len(now) BY <1>7, <2>2, <3>1, <3>3
      <4>2. queue'[q][j] = queue[q][j] BY <1>7, <2>2, <3>1, <4>1
      <4> QED BY <1>7, <2>2, <3>1, <3>2, <3>3, <4>1, <4>2 DEF Ordered, QueuesAhead
    <3> QED BY <1>6, <1>9, <3>1, <3>2, <3>3 DEF Ordered, QueuesAhead
  <2>3. CASE q = x0 /\ i = Len(now) + 1
    <3>1. queue'[q] = longer /\ queue'[q][i] = m BY <1>5, <1>7, <2>3
    <3>2. x0 \in Below(s) /\ Below(x0) \subseteq Below(s) /\ x0 \in Below(x0)
      BY <1>1, <1>3, KindFacts, BelowFacts
    <3>3. \A x \in Below(s) : \A k \in Held(x) : Older(k, m) BY <1>3 DEF Ordered, ThreadsAhead, Behind
    <3>4. \A x \in Below(q) \ {q} : \A k \in Held(x)' : Older(k, m) BY <1>8, <2>3, <3>2, <3>3
    <3>5. x0 \notin Consumers BY <1>1, <1>3, KindFacts
    <3>6. Busy(q)' => Older(message[q], m)
      <4>1. Busy(x0) => message[x0] \in Held(x0) BY <1>3, <3>5 DEF Held
      <4> QED BY <1>3, <1>6, <2>3, <3>2, <3>3, <4>1
    <3>7. ASSUME NEW j \in DOMAIN queue'[q], j < i PROVE Older(queue'[q][j], m)
      <4>1. j \in 1 .. Len(now) BY <1>7, <2>3, <3>1, <3>7
      <4>2. queue'[q][j] = now[j] /\ now[j] \in Held(x0) BY <1>3, <1>7, <3>1, <3>5, <4>1 DEF Held
      <4> QED BY <3>2, <3>3, <4>2
    <3> QED BY <3>1, <3>4, <3>6, <3>7
  <2> QED BY <1>5, <1>7, <2>1, <2>2, <2>3
<1>11. ReceivedSorted' BY <1>2, SameWays DEF Ordered, ReceivedSorted
<1> QED BY <1>9, <1>10, <1>11 DEF Ordered

\* What getNext() finds.
LEMMA Shortened ==
    ASSUME NEW S, NEW now \in Seq(S), now # <<>>
    PROVE  LET shorter == Tail(now)
           IN  /\ Len(now) \in Nat \ {0} /\ DOMAIN now = 1 .. Len(now) /\ DOMAIN shorter = 1 .. Len(now) - 1
               /\ Head(now) = now[1] /\ \A i \in 1 .. Len(now) - 1 : i + 1 \in 1 .. Len(now) /\ shorter[i] = now[i + 1]
               /\ ToSet(now) = {Head(now)} \cup ToSet(shorter) /\ \A i \in 1 .. Len(now) : now[i] \in ToSet(now)
<1> DEFINE shorter == Tail(now)
<1>1. /\ Len(now) \in Nat \ {0} /\ DOMAIN now = 1 .. Len(now) /\ DOMAIN shorter = 1 .. Len(now) - 1
      /\ Head(now) = now[1] /\ \A i \in 1 .. Len(now) - 1 : i + 1 \in 1 .. Len(now) /\ shorter[i] = now[i + 1]
  BY HeadTailProperties, LenProperties
<1>2. \A i \in 1 .. Len(now) : now[i] \in ToSet(now) BY <1>1 DEF ToSet
<1> HIDE DEF shorter
<1>3. ToSet(now) = {Head(now)} \cup ToSet(shorter)
  <2>1. ASSUME NEW k \in ToSet(shorter) PROVE k \in ToSet(now)
    <3>1. PICK i \in 1 .. Len(now) - 1 : k = shorter[i] BY <1>1 DEF ToSet
    <3> QED BY <1>1, <1>2, <3>1
  <2>2. ASSUME NEW k \in ToSet(now), k # Head(now) PROVE k \in ToSet(shorter)
    <3>1. PICK i \in 1 .. Len(now) : k = now[i] BY <1>1 DEF ToSet
    <3>2. i - 1 \in 1 .. Len(now) - 1 /\ (i - 1) + 1 = i BY <1>1, <2>2, <3>1
    <3>3. k = shorter[i - 1] BY <1>1, <3>1, <3>2
    <3> QED BY <1>1, <3>2, <3>3 DEF ToSet
  <2>3. Head(now) \in ToSet(now) BY <1>1, <1>2
  <2> QED BY <2>1, <2>2, <2>3
<1> QED BY <1>1, <1>2, <1>3 DEF shorter

\* A source goes on at the steps behind it.
LEMMA SourceTurns ==
    ASSUME BuildInv, OneWay(config), NEW source \in Of(Sources)
    PROVE  To[source] \subseteq Within(source) \ Of(Sources)
<1>1. config \in Configurations /\ source \in Steps /\ source \notin Of({"send_to_queue"})
  BY DEF BuildInv, TypeOK, Of, Sources
<1>2. source \in Within(source) /\ To[source] \subseteq Within(source) BY <1>1, WithinFacts
<1> QED BY <1>1, <1>2, OneWayFacts

\* A thread that begins with a message of a source.
LEMMA TurnStep ==
    ASSUME BuildInv, OneWay(config), Threading, Apart, [Next]_vars, NEW t \in Threads, NEW source \in Of(Sources),
           Turns(t, To[source]), \A u \in Threads \ {t} : message'[u] = message[u],
           From(t)' = source, t = Asio => source \in Of({"heartbeat"}),
           t \in Of({"producer"}) => message'[t].source = t, source \in Below(message'[t].source)
    PROVE  Threading' /\ Apart'
<1>1. To[source] \subseteq Within(source) \ Of(Sources) BY SourceTurns
<1>2. /\ PendingOf(t)' = To[source] /\ ApartIn(stack'[t])
      /\ \A u \in Threads \ {t} : stack'[u] = stack[u] /\ PendingOf(u)' = PendingOf(u)
  BY DEF Turns, PendingOf
<1>3. Threading'
  <2> SUFFICES ASSUME NEW u \in Threads, Busy(u)'
               PROVE  /\ From(u)' \in Of(Sources) /\ (u = Asio => From(u)' \in Of({"heartbeat"}))
                      /\ u \in Of({"producer"}) => message'[u].source = u
                      /\ From(u)' \in Below(message'[u].source)
                      /\ PendingOf(u)' \subseteq Within(From(u)') \ Of(Sources)
    BY SameSteps, SameWays DEF Threading
  <2>1. CASE u = t BY <1>1, <1>2, <2>1
  <2>2. CASE u # t
    <3>1. Busy(u) /\ From(u)' = From(u) /\ message'[u] = message[u] BY <1>2, <2>2 DEF Busy, From
    <3> QED BY <1>2, <2>2, <3>1 DEF Threading
  <2> QED BY <2>1, <2>2
<1>4. Apart'
  <2>1. \A u \in Threads : ApartIn(stack'[u]) BY <1>2 DEF Apart
  <2>2. (\A u \in Threads : ApartIn(stack[u]))' <=> \A u \in Threads : ApartIn(stack'[u])
    BY SameSteps, SameWays DEF ApartIn
  <2> QED BY <2>1, <2>2 DEF Apart
<1> QED BY <1>3, <1>4

\* A queue's thread takes the oldest message of those that wait.
LEMMA GetNextOrder ==
    ASSUME BuildInv, OneWay(config), Threading, Apart, Ordered, [Next]_vars, NEW q0 \in Queues, GetNext(q0)
    PROVE  Threading' /\ Apart' /\ Ordered'
<1> DEFINE now == queue[q0]  shorter == Tail(now)  m == Head(now)
<1>1. config \in Configurations /\ queue \in [Queues -> Seq(Messages)] /\ Graph(To)
  BY ToFacts DEF BuildInv, TypeOK, Queues
<1>2. /\ q0 \in Threads /\ q0 \in Of(Sources) /\ q0 \in Steps /\ q0 \notin Consumers
      /\ q0 # Asio /\ q0 \notin Of({"producer"})
  BY <1>1, KindFacts DEF Queues, Of
<1>3. now \in Seq(Messages) /\ now # <<>> /\ ~Busy(q0) /\ place # "construct"
  BY <1>1, <1>2 DEF GetNext, Busy, BuildInv, Built
<1>4. /\ Turns(q0, To[q0]) /\ message'[q0] = m /\ \A u \in Threads \ {q0} : message'[u] = message[u]
  BY <1>2, <1>3, EmitEffect DEF GetNext
<1>5. UNCHANGED received /\ queue' = [queue EXCEPT ![q0] = shorter] BY DEF GetNext
<1>6. \A q \in Queues : queue'[q] = IF q = q0 THEN shorter ELSE queue[q] BY <1>1, <1>5
<1>7. /\ Len(now) \in Nat \ {0} /\ DOMAIN now = 1 .. Len(now) /\ DOMAIN shorter = 1 .. Len(now) - 1
      /\ m = now[1] /\ \A i \in 1 .. Len(now) - 1 : i + 1 \in 1 .. Len(now) /\ shorter[i] = now[i + 1]
      /\ ToSet(now) = {m} \cup ToSet(shorter) /\ \A i \in 1 .. Len(now) : now[i] \in ToSet(now)
  BY <1>3, Shortened
<1> HIDE DEF shorter, m
<1>8. \A q \in Queues \ {q0} : Busy(q)' = Busy(q) /\ message'[q] = message[q]
  BY <1>1, <1>4, KindFacts DEF Turns, Busy
<1>9. ASSUME NEW x, NEW k \in Held(x)' PROVE k \in Held(x)
  <2>1. CASE x = q0
    <3>1. k \in ToSet(shorter) \/ k = m BY <1>2, <1>4, <1>6, <1>9, <2>1, SameWays DEF Held
    <3> QED BY <1>2, <1>7, <2>1, <3>1 DEF Held
  <2>2. CASE x # q0 BY <1>5, <1>6, <1>8, <1>9, <2>2, SameWays DEF Held
  <2> QED BY <2>1, <2>2
<1>10. m \in Held(q0) /\ 1 \in DOMAIN queue[q0] /\ m = queue[q0][1] BY <1>2, <1>7 DEF Held
<1>11. q0 \in Below(m.source) BY <1>2, <1>10 DEF Ordered, Fed
<1>12. Threading' /\ Apart'
  <2>1. From(q0)' = q0 BY <1>2 DEF From
  <2> QED BY <1>2, <1>4, <1>11, <2>1, TurnStep
<1>13. ThreadsAhead'
  <2> SUFFICES ASSUME NEW u \in Threads, NEW d \in PendingOf(u)', NEW x \in Below(d), NEW k \in Held(x)'
               PROVE  Older(k, message'[u])
    BY SameSteps, SameWays DEF ThreadsAhead, Behind
  <2>1. CASE u = q0
    <3>1. d \in To[q0] BY <1>4, <2>1 DEF Turns, PendingOf
    <3>2. d \in Below(q0) /\ Below(d) \subseteq Below(q0) BY <1>1, <1>2, <3>1, BelowFacts
    <3>3. m.source \in Origin
      <4>1. m \in Messages BY <1>3, <1>7
      <4> QED BY <4>1 DEF Messages, Origin
    <3>4. q0 \notin Below(d)
      <4>1. Tree(To, m.source) /\ q0 \in Reached(To, m.source) BY <1>1, <1>11, <3>3, OneWayFacts DEF Below
      <4> QED BY <1>1, <3>1, <4>1, NoCircle DEF Below
    <3>5. x \in Below(q0) \ {q0} /\ k \in Held(x) BY <1>9, <3>2, <3>4
    <3> QED BY <1>4, <1>10, <2>1, <3>5 DEF Ordered, QueuesAhead, Behind
  <2>2. CASE u # q0
    <3>1. d \in PendingOf(u) /\ message'[u] = message[u] BY <1>4, <2>2 DEF Turns, PendingOf
    <3> QED BY <1>9, <3>1 DEF Ordered, ThreadsAhead, Behind
  <2> QED BY <2>1, <2>2
<1>14. QueuesAhead'
  <2> SUFFICES ASSUME NEW q \in Queues, NEW i \in DOMAIN queue'[q]
               PROVE  /\ \A x \in Below(q) \ {q} : \A k \in Held(x)' : Older(k, queue'[q][i])
                      /\ Busy(q)' => Older(message'[q], queue'[q][i])
                      /\ \A j \in DOMAIN queue'[q] : j < i => Older(queue'[q][j], queue'[q][i])
    BY SameWays DEF QueuesAhead, Behind
  <2>1. CASE q # q0 BY <1>6, <1>8, <1>9, <2>1 DEF Ordered, QueuesAhead, Behind
  <2>2. CASE q = q0
    <3>1. queue'[q] = shorter /\ i \in 1 .. Len(now) - 1 BY <1>6, <1>7, <2>2
    <3>2. i + 1 \in DOMAIN queue[q] /\ queue'[q][i] = queue[q][i + 1] BY <1>7, <2>2, <3>1
    <3>3. \A x \in Below(q) \ {q} : \A k \in Held(x)' : Older(k, queue'[q][i])
      BY <1>9, <3>2 DEF Ordered, QueuesAhead, Behind
    <3>4. Older(message'[q], queue'[q][i])
      <4>1. 1 < i + 1 BY <3>1
      <4> QED BY <1>4, <1>10, <2>2, <3>2, <4>1 DEF Ordered, QueuesAhead
    <3>5. ASSUME NEW j \in DOMAIN queue'[q], j < i PROVE Older(queue'[q][j], queue'[q][i])
      <4>1. j \in 1 .. Len(now) - 1 BY <1>7, <3>1, <3>5
      <4>2. j + 1 \in DOMAIN queue[q] /\ queue'[q][j] = queue[q][j + 1] BY <1>7, <2>2, <3>1, <4>1
      <4>3. j + 1 < i + 1 BY <3>1, <3>5, <4>1
      <4> QED BY <3>2, <4>2, <4>3 DEF Ordered, QueuesAhead
    <3> QED BY <3>3, <3>4, <3>5
  <2> QED BY <2>1, <2>2
<1>15. ReceivedSorted' BY <1>5, SameWays DEF Ordered, ReceivedSorted
<1>16. Fed' BY <1>9, SameSteps, SameWays DEF Ordered, Fed
<1> QED BY <1>12, <1>13, <1>14, <1>15, <1>16 DEF Ordered

\* An origin's new message is newer than all.
LEMMA BeginOrder ==
    ASSUME BuildInv, OneWay(config), OrderInv, [Next]_vars,
           NEW t \in Threads, NEW source \in Origin, NEW type, Begins(t, source, type)
    PROVE  Threading' /\ Apart' /\ Ordered'
<1> DEFINE m == Message(type, source)
<1> USE DEF OrderInv
<1>1. config \in Configurations /\ source \in Steps /\ source \in Of(Sources) BY KindFacts DEF BuildInv, TypeOK
<1>2. /\ UNCHANGED <<queue, received>> /\ Turns(t, To[source]) /\ Busy(t)' /\ ~Busy(t)
      /\ message'[t] = m /\ \A u \in Threads \ {t} : message'[u] = message[u]
  BY DEF Begins
<1>3. m.source = source /\ m.number = count[source] BY DEF Message
<1> HIDE DEF m
<1>4. t \notin Queues /\ (t = Asio => source \in Of({"heartbeat"})) /\ (t # Asio => source = t)
      /\ (source \in Of({"producer"}) => run[source] = "loop")
  BY <1>1, KindFacts DEF Begins, Of, Queues
<1>5. \A q \in Queues : Busy(q)' = Busy(q) /\ message'[q] = message[q]
  BY <1>1, <1>2, <1>4, KindFacts DEF Turns, Busy
<1>6. \A x : Held(x)' = Held(x) BY <1>2, <1>5, SameWays DEF Held
<1>7. ASSUME NEW x \in Steps, NEW k \in Held(x) PROVE Older(k, m)
  <2>1. Numbered(k) BY DEF Counted, Everywhere
  <2>2. source \in Of({"heartbeat"}) \/ run[source] \in {"none", "loop"} BY <1>4 DEF Origin, Of
  <2> QED BY <1>3, <2>1, <2>2 DEF Numbered, Older
<1>8. Threading' /\ Apart'
  <2>1. From(t)' = source BY <1>2, <1>3, <1>4 DEF From
  <2>2. source \in Below(source) BY <1>1, BelowFacts
  <2>3. t \in Of({"producer"}) => source = t BY <1>1, <1>4, KindFacts DEF Of
  <2> QED BY <1>1, <1>2, <1>3, <1>4, <2>1, <2>2, <2>3, TurnStep
<1>9. ThreadsAhead'
  <2> SUFFICES ASSUME NEW u \in Threads, NEW d \in PendingOf(u)', NEW x \in Below(d), NEW k \in Held(x)
               PROVE  Older(k, message'[u])
    BY <1>6, SameSteps, SameWays DEF ThreadsAhead, Behind
  <2>1. CASE u = t
    <3>1. d \in To[source] BY <1>2, <2>1 DEF Turns, PendingOf
    <3>2. x \in Steps BY <1>1, <3>1, ToFacts, BelowFacts DEF Graph
    <3> QED BY <1>2, <1>7, <2>1, <3>2
  <2>2. CASE u # t
    <3>1. d \in PendingOf(u) /\ message'[u] = message[u] BY <1>2, <2>2 DEF Turns, PendingOf
    <3> QED BY <3>1 DEF Ordered, ThreadsAhead, Behind
  <2> QED BY <2>1, <2>2
<1>10. QueuesAhead'
  <2> SUFFICES ASSUME NEW q \in Queues, NEW i \in DOMAIN queue[q]
               PROVE  /\ \A x \in Below(q) \ {q} : \A k \in Held(x) : Older(k, queue[q][i])
                      /\ Busy(q) => Older(message[q], queue[q][i])
                      /\ \A j \in DOMAIN queue[q] : j < i => Older(queue[q][j], queue[q][i])
    BY <1>2, <1>5, <1>6, SameWays DEF QueuesAhead, Behind
  <2> QED BY DEF Ordered, QueuesAhead, Behind
<1>11. ReceivedSorted' BY <1>2, SameWays DEF Ordered, ReceivedSorted
<1>12. Fed' BY <1>6, SameSteps, SameWays DEF Ordered, Fed
<1> QED BY <1>8, <1>9, <1>10, <1>11, <1>12 DEF Ordered
-----------------------------------------------------------------------------
(* The numbers of the messages *)

\* start() comes to every step once.
Fresh == place = "start" => \A i \in 1 .. Len(order) : i <= next => order[i] \notin started
StartOnce == Upward /\ AllStarted /\ Running /\ Fresh

LEMMA StartOnceStep == ASSUME BuildInv, StartOnce, [Next]_vars PROVE StartOnce'
<1> USE DEF BuildInv, TypeOK
<1>1. Upward' /\ AllStarted' /\ Running' BY UpwardStep, RunningStep DEF StartOnce
<1>2. CASE StartStep
  <2>1. /\ place = "start" /\ next > 0 /\ next <= Len(order) /\ next' = next - 1
        /\ started' = started \cup {order[next]} /\ order' = order
    BY <1>2 DEF StartStep, Starting, Built
  <2>2. next \in 1 .. Len(order) /\ Len(order) \in Nat BY <2>1, OrderFacts
  <2>3. ASSUME NEW i \in 1 .. Len(order), i <= next' PROVE order[i] \notin started'
    <3>1. i # next /\ i <= next BY <2>1, <2>2, <2>3
    <3>2. order[i] # order[next] BY <2>1, <2>2, <3>1, OrderFacts
    <3> QED BY <2>1, <3>1, <3>2 DEF StartOnce, Fresh
  <2> QED BY <1>1, <2>1, <2>3 DEF StartOnce, Fresh
<1>3. CASE Construct \/ RunThreads
  <2>1. started' = {} BY <1>3 DEF Construct, RunThreads, Built
  <2> QED BY <1>1, <2>1 DEF StartOnce, Fresh
<1>4. CASE ~StartStep /\ ~Construct /\ ~RunThreads
  <2>1. UNCHANGED <<order, started>> BY <1>4, Writers
  <2>2. place' = "start" => place = "start" /\ next' = next
    BY <1>4, PlaceStep, Writers DEF Application, Started, Wait, Stop, Stopped, JoinThreads, FinishStep, Finished
  <2> QED BY <1>1, <2>1, <2>2 DEF StartOnce, Fresh
<1> QED BY <1>2, <1>3, <1>4

\* How a producer goes on.
Stands(p) == UNCHANGED <<run[p], message[p], count[p]>>
Starts(p) == run[p] = "none" /\ run'[p] = "loop" /\ UNCHANGED <<message[p], count[p]>>
Makes(p) ==
    /\ Produce(p) /\ run[p] = "loop" /\ run'[p] = "send" /\ UNCHANGED count[p]
    /\ \E type \in {"data", "shutdown"} : message'[p] = Message(type, p)
Counts(p) ==
    /\ run[p] = "send" /\ message[p].type = "data" /\ run'[p] = "loop"
    /\ count'[p] = count[p] + 1 /\ UNCHANGED message[p]
Ends(p) ==
    /\ run[p] \notin {"none", "ended"} /\ run'[p] = "ended" /\ UNCHANGED <<message[p], count[p]>>
    /\ config.timeouts \/ (run[p] = "send" /\ message[p].type # "data")

LEMMA ProducerStep ==
    ASSUME BuildInv, StartOnce, [Next]_vars, NEW p \in Of({"producer"})
    PROVE  Stands(p) \/ Starts(p) \/ Makes(p) \/ Counts(p) \/ Ends(p)
<1> USE DEF BuildInv, TypeOK
<1>1. p \in Threads /\ p \in Threaded /\ p \in Steps /\ p # Asio /\ p # Main /\ p \notin Of({"input_queue", "heartbeat"})
  BY ConfigFacts DEF Threads, Threaded, Of
<1>2. ASSUME NEW t \in Threads, Handle(t) PROVE Stands(p)
  <2>1. UNCHANGED <<run, message>>
    BY <1>2 DEF Handle, Pass, Stopper, Consume, Publish, PublishReturns, WaitToPublish, GiveUp, Send, Return
  <2>2. UNCHANGED count \/ Pass(t) \/ Stopper(t)
    BY <1>2 DEF Handle, Consume, Publish, PublishReturns, WaitToPublish, GiveUp, Send, Return
  <2>3. ASSUME Pass(t) \/ Stopper(t) PROVE UNCHANGED count[p]
    <3>1. In(t, {"forward", "fan_out", "round_robin", "stopper"}, "enter") BY <2>3 DEF Pass, Stopper, In, Of
    <3>2. Top(t).step # p BY <3>1 DEF In, Of
    <3>3. UNCHANGED count \/ Increment(Top(t).step) BY <2>3, Zenon DEF Pass, Stopper
    <3> QED BY <1>1, <3>2, <3>3
  <2> QED BY <2>1, <2>2, <2>3 DEF Stands
<1>3. ASSUME NEW t \in Threads, StepOf(t) PROVE Stands(p) \/ Ends(p)
  <2>1. CASE Handle(t) BY <1>2, <2>1
  <2>2. CASE Stopping(t) BY <2>2 DEF Stopping, StopService, StopStep, StopNotify, Stands
  <2>3. CASE TimeOut(t)
    <3>1. run[t] \notin {"none", "ended"} BY <2>3, InFacts DEF TimeOut, Publishes
    <3>2. CASE t = p BY <1>1, <2>3, <3>1, <3>2 DEF TimeOut, Ends
    <3>3. CASE t # p BY <1>1, <2>3, <3>3 DEF TimeOut, Stands
    <3> QED BY <3>2, <3>3
  <2> QED BY <1>3, <2>1, <2>2, <2>3 DEF StepOf
<1>4. ASSUME NEW s \in Steps, SourceStep(s) PROVE Stands(p) \/ Makes(p) \/ Counts(p) \/ Ends(p)
  <2>1. CASE s = p
    <3>1. Produce(p) \/ Produced(p) BY <1>1, <1>4, <2>1 DEF SourceStep, Of
    <3>2. CASE Produce(p)
      <4>1. run[p] = "loop" /\ UNCHANGED count /\ run'[p] = "send" BY <1>1, <3>2 DEF Produce
      <4>2. PICK type \in {"data", "shutdown"} : Emit(p, p, Message(type, p)) BY <3>2, Zenon DEF Produce
      <4>3. message'[p] = Message(type, p) BY <1>1, <4>2
      <4> QED BY <3>2, <4>1, <4>3 DEF Makes
    <3>3. CASE Produced(p) BY <1>1, <3>3 DEF Produced, Counts, Ends
    <3> QED BY <3>1, <3>2, <3>3
  <2>2. CASE s # p
    BY <1>1, <1>4, <2>2 DEF SourceStep, Produce, Produced, TestStopping, GetNext, GetNothing, GetTimesOut, HandleTimer,
        Stands
  <2> QED BY <2>1, <2>2
<1>5. ASSUME StartTimer \/ ServiceEnds PROVE Stands(p)
  BY <1>1, <1>5 DEF StartTimer, ServiceEnds, Stands
<1>6. ASSUME Application PROVE Stands(p) \/ Starts(p)
  <2>1. CASE StartStep
    <3>1. place = "start" /\ next > 0 /\ next <= Len(order) BY <2>1 DEF StartStep, Built
    <3>2. next \in 1 .. Len(order) /\ next <= next BY <3>1, OrderFacts
    <3>3. order[next] \notin started BY <3>1, <3>2 DEF StartOnce, Fresh
    <3>4. order[next] = p => run[p] = "none" BY <1>1, <3>3 DEF StartOnce, Running
    <3>5. run'[p] = run[p] \/ (order[next] = p /\ run'[p] = "loop")
      BY <1>1, <2>1 DEF StartStep, StartThread, Starting
    <3>6. UNCHANGED <<message, count>> BY <2>1 DEF StartStep
    <3> QED BY <3>4, <3>5, <3>6 DEF Stands, Starts
  <2>2. CASE ~StartStep
    BY <1>1, <1>6, <2>2 DEF Application, Construct, RunThreads, Started, Wait, Stop, Stopped, JoinThreads, FinishStep,
        Finished, Stands
  <2> QED BY <2>1, <2>2
<1>7. UNCHANGED vars => Stands(p) BY DEF vars, Stands
<1> QED BY <1>3, <1>4, <1>5, <1>6, <1>7, Actions

\* A heartbeat counts upwards.
LEMMA HeartbeatStep ==
    ASSUME BuildInv, [Next]_vars, NEW h \in Steps
    PROVE  count'[h] >= count[h]
<1> USE DEF BuildInv, TypeOK
<1>1. ASSUME NEW s, Increment(s) PROVE count'[h] >= count[h] BY <1>1
<1>2. ASSUME NEW t \in Threads, Pass(t) \/ Stopper(t) PROVE UNCHANGED count \/ \E s : Increment(s)
  BY <1>2, Zenon DEF Pass, Stopper
<1>3. ASSUME NEW s, Produced(s) \/ HandleTimer(s) PROVE UNCHANGED count \/ \E t : Increment(t)
  BY <1>3, Zenon DEF Produced, HandleTimer
<1>4. UNCHANGED count \/ \E s : Increment(s) BY <1>2, <1>3, Writers
<1> QED BY <1>1, <1>4

\* There are no messages but those that were there, and those that origins send.
LEMMA EverywhereStep ==
    ASSUME BuildInv, OneWay(config), Threading, Apart, [Next]_vars, NEW k \in Everywhere'
    PROVE  \/ k \in Everywhere
           \/ \E t \in Threads, source \in Origin, type \in Types : Begins(t, source, type) /\ k = Message(type, source)
<1>1. config \in Configurations BY DEF BuildInv, TypeOK
<1>2. ASSUME NEW c \in Consumers, k \in ToSet(received[c]) PROVE k \in Everywhere
  <2>1. c \in Steps BY <1>1, KindFacts
  <2> QED BY <1>2, <2>1 DEF Everywhere, Held
<1>3. ASSUME NEW q \in Queues, k \in ToSet(queue[q]) PROVE k \in Everywhere
  <2>1. q \in Steps /\ q \notin Consumers BY <1>1, KindFacts
  <2> QED BY <1>3, <2>1 DEF Everywhere, Held
<1>4. \A t \in Threads : Busy(t) => message[t] \in Everywhere BY DEF Everywhere, InHands
<1>5. ASSUME NEW c \in Consumers, k \in ToSet(received'[c]) PROVE k \in Everywhere
  <2>1. CASE UNCHANGED received BY <1>2, <1>5, <2>1
  <2>2. ASSUME NEW t \in Threads, Consume(t) PROVE k \in Everywhere
    <3> DEFINE s == Top(t).step
    <3>1. Busy(t) /\ s \in Consumers /\ message[t] \in Messages /\ received \in [Consumers -> Seq(Messages)]
      BY <2>2, InFacts DEF Consume, In, Busy, Consumers, BuildInv, TypeOK
    <3>2. received'[c] = IF c = s THEN Append(received[s], message[t]) ELSE received[c] BY <2>2, <3>1 DEF Consume
    <3>3. received[s] \in Seq(Messages) BY <3>1
    <3>4. ToSet(Append(received[s], message[t])) = ToSet(received[s]) \cup {message[t]} BY <3>1, <3>3, Appended
    <3> QED BY <1>2, <1>4, <1>5, <3>1, <3>2, <3>4
  <2> QED BY <2>1, <2>2, Writers
<1>6. ASSUME NEW q \in Queues, k \in ToSet(queue'[q]) PROVE k \in Everywhere
  <2>1. CASE UNCHANGED queue BY <1>3, <1>6, <2>1
  <2>2. ASSUME NEW t \in Threads, Publish(t) PROVE k \in Everywhere
    <3> DEFINE x0 == Target(t)
    <3>1. Publishes(t, "enter") \/ Publishes(t, "wait") BY <2>2 DEF Publish
    <3>2. Busy(t) /\ Top(t).step \in Of({"send_to_queue"}) /\ message[t] \in Messages
      BY <3>1, InFacts DEF Publishes, In, Busy
    <3>3. x0 \in Queues /\ queue \in [Queues -> Seq(Messages)]
      BY <1>1, <3>2, TargetType DEF Target, Queues, BuildInv, TypeOK
    <3>4. queue'[q] = IF q = x0 THEN Append(queue[x0], message[t]) ELSE queue[q] BY <2>2, <3>3 DEF Publish, Put
    <3>5. queue[x0] \in Seq(Messages) BY <3>3
    <3>6. ToSet(Append(queue[x0], message[t])) = ToSet(queue[x0]) \cup {message[t]} BY <3>2, <3>5, Appended
    <3> QED BY <1>3, <1>4, <1>6, <3>2, <3>3, <3>4, <3>6
  <2>3. ASSUME NEW r \in Queues, GetNext(r) PROVE k \in Everywhere
    <3>1. queue \in [Queues -> Seq(Messages)] /\ queue[r] # <<>> BY <2>3 DEF Queues, BuildInv, TypeOK, GetNext
    <3>2. queue'[q] = IF q = r THEN Tail(queue[r]) ELSE queue[q] BY <2>3, <3>1 DEF GetNext
    <3>3. queue[r] \in Seq(Messages) BY <3>1
    <3>4. ToSet(Tail(queue[r])) \subseteq ToSet(queue[r]) BY <3>1, <3>3, Shortened
    <3> QED BY <1>3, <1>6, <3>2, <3>4
  <2> QED BY <2>1, <2>2, <2>3, Writers DEF Queues
<1>7. ASSUME NEW t \in Threads, Busy(t)', k = message'[t]
      PROVE  \/ k \in Everywhere
             \/ \E u \in Threads, source \in Origin, type \in Types : Begins(u, source, type) /\ k = Message(type, source)
  <2>1. CASE UNCHANGED <<stack, message>> BY <1>4, <1>7, <2>1 DEF Busy
  <2>2. ASSUME NEW u \in Threads, Proceeds(u) \/ Consume(u) \/ Publish(u) PROVE k \in Everywhere
    <3>1. GoesOn(u) BY <2>2, LeaveEffect DEF Proceeds, GoesOn, Handles, Turns
    <3>2. Busy(t) /\ UNCHANGED message BY <1>7, <3>1, HandsStep
    <3> QED BY <1>4, <1>7, <3>2
  <2>3. ASSUME NEW u \in Threads, NEW source \in Origin, NEW type, Begins(u, source, type), k # Message(type, source)
        PROVE  k \in Everywhere
    <3>1. t # u BY <1>7, <2>3 DEF Begins
    <3>2. Busy(t) /\ message'[t] = message[t] BY <1>7, <2>3, <3>1 DEF Begins, Turns, Busy
    <3> QED BY <1>4, <1>7, <3>2
  <2>4. ASSUME NEW q \in Queues, GetNext(q) PROVE k \in Everywhere
    <3>1. queue \in [Queues -> Seq(Messages)] /\ queue[q] # <<>> /\ message \in [Threads -> {<<>>} \cup Messages]
          /\ stack \in [Threads -> Seq(Frames)]
      BY <2>4 DEF Queues, BuildInv, TypeOK, GetNext, Frames
    <3>2. queue[q] \in Seq(Messages) BY <3>1
    <3>3. CASE t = q
      <4>1. k = Head(queue[q]) BY <1>7, <2>4, <3>1, <3>3 DEF GetNext
      <4>2. k \in ToSet(queue[q]) BY <3>1, <3>2, <4>1, Shortened
      <4> QED BY <1>3, <4>2
    <3>4. CASE t # q
      <4>1. Busy(t) /\ message'[t] = message[t] BY <1>7, <2>4, <3>1, <3>4 DEF GetNext, Busy
      <4> QED BY <1>4, <1>7, <4>1
    <3> QED BY <3>3, <3>4
  <2> QED BY <2>1, <2>2, <2>3, <2>4, Effects
<1>8. \/ \E t \in Threads : Busy(t)' /\ k = message'[t]
      \/ \E c \in Consumers : k \in ToSet(received'[c])
      \/ \E q \in Queues : k \in ToSet(queue'[q])
  <2>1. ASSUME NEW x \in Steps, k \in Held(x)'
        PROVE  \/ \E t \in Threads : Busy(t)' /\ k = message'[t]
               \/ \E c \in Consumers : k \in ToSet(received'[c])
               \/ \E q \in Queues : k \in ToSet(queue'[q])
    <3>1. CASE x \in Consumers BY <2>1, <3>1, SameWays DEF Held
    <3>2. CASE x \notin Consumers
      <4>1. x \in Queues BY <2>1, <3>2, SameWays DEF Held
      <4> QED BY <1>1, <2>1, <3>2, <4>1, SameWays, KindFacts DEF Held
    <3> QED BY <3>1, <3>2
  <2>2. k \in InHands' \/ \E x \in Steps : k \in Held(x)' BY SameSteps DEF Everywhere
  <2>3. k \in InHands' => \E t \in Threads : Busy(t)' /\ k = message'[t] BY SameSteps DEF InHands
  <2> QED BY <2>1, <2>2, <2>3
<1> QED BY <1>5, <1>6, <1>7, <1>8

\* All messages are of an origin.
LEMMA EverywhereType == ASSUME BuildInv PROVE Everywhere \subseteq Messages
<1>1. config \in Configurations BY DEF BuildInv, TypeOK
<1>2. InHands \subseteq Messages BY DEF InHands, BuildInv, TypeOK, Busy
<1>3. ASSUME NEW x \in Steps PROVE Held(x) \subseteq Messages
  <2>1. CASE x \in Consumers
    <3>1. received[x] \in Seq(Messages) BY <2>1 DEF Consumers, BuildInv, TypeOK
    <3> QED BY <2>1, <3>1 DEF Held, ToSet
  <2>2. CASE x \in Queues /\ x \notin Consumers
    <3>1. queue[x] \in Seq(Messages) /\ x \in Threads BY <1>1, <2>2, KindFacts DEF Queues, BuildInv, TypeOK
    <3>2. ToSet(queue[x]) \subseteq Messages BY <3>1 DEF ToSet
    <3> QED BY <2>2, <3>1, <3>2 DEF Held, Busy, BuildInv, TypeOK
  <2>3. CASE x \notin Queues /\ x \notin Consumers BY <2>3 DEF Held
  <2> QED BY <2>1, <2>2, <2>3
<1> QED BY <1>2, <1>3 DEF Everywhere

\* The numbers of what there is stay as they should be, ...
LEMMA NumberedStep ==
    ASSUME BuildInv, StartOnce, Counted, [Next]_vars, NEW k \in Messages, Numbered(k)
    PROVE  Numbered(k)'
<1> DEFINE o == k.source  heartbeats == Of({"heartbeat"})  producers == Of({"producer"})
<1>1. o \in Steps /\ k.number \in Nat /\ o \in heartbeats \cup producers /\ heartbeats \cap producers = {}
  BY DEF Messages, Of
<1>2. count[o] \in Nat /\ count'[o] \in Nat BY <1>1, CountType DEF BuildInv, TypeOK
<1> SUFFICES /\ k.number <= count'[o]
             /\ o \in heartbeats \/ run'[o] \in {"none", "loop"} => k.number < count'[o]
             /\ o \in heartbeats => k.type = "heartbeat"
             /\ o \in producers => k.type \in {"data", "shutdown"}
             /\ k.type = "shutdown" =>
                    /\ k.number = count'[o] /\ run'[o] \in {"send", "ended"}
                    /\ run'[o] = "send" => message'[o].type = "shutdown"
  BY SameSteps DEF Numbered
<1>3. /\ k.number <= count[o]
      /\ o \in heartbeats \/ run[o] \in {"none", "loop"} => k.number < count[o]
      /\ o \in heartbeats => k.type = "heartbeat"
      /\ o \in producers => k.type \in {"data", "shutdown"}
      /\ k.type = "shutdown" =>
             /\ k.number = count[o] /\ run[o] \in {"send", "ended"}
             /\ run[o] = "send" => message[o].type = "shutdown"
  BY DEF Numbered
<1>4. CASE o \in heartbeats
  <2>1. count'[o] >= count[o] BY <1>1, HeartbeatStep
  <2> QED BY <1>1, <1>2, <1>3, <1>4, <2>1
<1>5. CASE o \in producers
  <2> HIDE DEF o, heartbeats, producers
  <2>1. Stands(o) \/ Starts(o) \/ Makes(o) \/ Counts(o) \/ Ends(o) BY <1>5, ProducerStep DEF producers
  <2>2. CASE Stands(o) BY <1>3, <2>2 DEF Stands
  <2>3. CASE Starts(o) BY <1>3, <2>3 DEF Starts
  <2>4. CASE Makes(o) BY <1>1, <1>3, <1>5, <2>4 DEF Makes
  <2>5. CASE Counts(o) BY <1>1, <1>2, <1>3, <1>5, <2>5 DEF Counts
  <2>6. CASE Ends(o) BY <1>1, <1>3, <1>5, <2>6 DEF Ends
  <2> QED BY <2>1, <2>2, <2>3, <2>4, <2>5, <2>6
<1> QED BY <1>1, <1>4, <1>5

\* ... and so do those of what is new.
LEMMA CountedStep ==
    ASSUME BuildInv, OneWay(config), StartOnce, Threading, Apart, Counted, [Next]_vars
    PROVE  Counted'
<1>1. ASSUME NEW k \in Everywhere',
             NEW t \in Threads, NEW source \in Origin, NEW type, Begins(t, source, type), k = Message(type, source)
      PROVE  Numbered(k)'
  <2>1. k.type = type /\ k.source = source /\ k.number = count[source] BY <1>1 DEF Message
  <2>2. source \in Steps /\ count[source] \in Nat
        /\ Of({"heartbeat"}) \cap Of({"producer"}) = {} /\ source \in Of({"heartbeat", "producer"})
        /\ source # Asio /\ count \in [Steps -> Nat]
        /\ run \in [Threads -> {"none", "loop", "get", "send", "ended"}]
    BY ConfigFacts DEF BuildInv, TypeOK, Origin, Of
  <2>3. CASE source \in Of({"producer"})
    <3>1. /\ t = source /\ type \in {"data", "shutdown"} /\ count' = count /\ source \notin Of({"heartbeat"})
          /\ message'[source].type = type
      BY <1>1, <2>1, <2>2, <2>3 DEF Begins
    <3>2. run'[source] = "send" BY <1>1, <2>2, <2>3, <3>1 DEF Begins
    <3> QED BY <2>1, <2>2, <2>3, <3>1, <3>2, SameSteps DEF Numbered
  <2>4. CASE source \in Of({"heartbeat"})
    <3>1. type = "heartbeat" /\ count'[source] = count[source] + 1 /\ source \notin Of({"producer"})
      BY <1>1, <2>2, <2>4 DEF Begins
    <3> QED BY <2>1, <2>2, <2>4, <3>1, SameSteps DEF Numbered
  <2> QED BY <2>2, <2>3, <2>4 DEF Of
<1>2. \A k \in Everywhere' : Numbered(k)'
  <2> SUFFICES ASSUME NEW k \in Everywhere' PROVE Numbered(k)' OBVIOUS
  <2>1. k \in Everywhere => Numbered(k)'
    <3>1. k \in Everywhere => k \in Messages /\ Numbered(k) BY EverywhereType DEF Counted
    <3> QED BY <3>1, NumberedStep
  <2> QED BY <1>1, <2>1, EverywhereStep
<1>3. ASSUME NEW p \in Of({"producer"}), run'[p] = "send"
      PROVE  message'[p].source = p /\ message'[p].number = count'[p] /\ message'[p].type \in {"data", "shutdown"}
  <2>1. Stands(p) \/ Makes(p) BY <1>3, ProducerStep DEF Starts, Counts, Ends
  <2>2. CASE Stands(p) BY <1>3, <2>2 DEF Stands, Counted
  <2>3. CASE Makes(p) BY <2>3 DEF Makes, Message
  <2> QED BY <2>1, <2>2, <2>3
<1> QED BY <1>2, <1>3, SameSteps DEF Counted
-----------------------------------------------------------------------------
(* In order *)

LEMMA OrderInit == Init => StartOnce /\ OrderInv
<1> SUFFICES ASSUME Init PROVE StartOnce /\ OrderInv OBVIOUS
<1>1. Len(order) = 0 /\ place = "construct" /\ started = {} /\ timer = {} BY DEF Init
<1>2. \A t \in Threads : stack[t] = <<>> /\ run[t] = "none" BY DEF Init
<1>3. (\A q \in Queues : queue[q] = <<>>) /\ \A c \in Consumers : received[c] = <<>>
  BY DEF Init, Queues, Consumers
<1>4. config \in Configurations /\ ToSet(<<>>) = {} BY DEF Init, ToSet
<1>5. \A x : Held(x) = {} BY <1>2, <1>3, <1>4, KindFacts DEF Held, Busy
<1>6. \A t \in Threads : ~Busy(t) /\ PendingOf(t) = {} /\ ApartIn(stack[t])
  BY <1>2 DEF Busy, PendingOf, PendingIn, ApartIn
<1>7. StartOnce
  BY <1>1, <1>2 DEF StartOnce, Upward, AllStarted, Running, Fresh, Threads, Threaded
<1>8. Threading /\ Apart BY <1>6 DEF Threading, Apart
<1>9. Ordered BY <1>3, <1>5, <1>6 DEF Ordered, ThreadsAhead, QueuesAhead, ReceivedSorted, Fed
<1>10. Counted
  <2>1. \A p \in Of({"producer"}) : run[p] = "none" BY <1>2 DEF Threads, Threaded, Of
  <2> QED BY <1>5, <1>6, <2>1 DEF Counted, Everywhere, InHands
<1> QED BY <1>7, <1>8, <1>9, <1>10 DEF OrderInv

LEMMA OrderStep ==
    ASSUME BuildInv, OneWay(config), StartOnce, OrderInv, [Next]_vars
    PROVE  OrderInv'
<1> USE DEF OrderInv
<1>1. CASE UNCHANGED <<stack, message, queue, received>> \/ \E t \in Threads : Proceeds(t)
  BY <1>1, ProceedOrder, CountedStep
<1>2. ASSUME NEW t \in Threads, Consume(t) PROVE OrderInv' BY <1>2, ConsumeOrder, CountedStep
<1>3. ASSUME NEW t \in Threads, Publish(t) PROVE OrderInv' BY <1>3, PublishOrder, CountedStep
<1>4. ASSUME NEW t \in Threads, NEW source \in Origin, NEW type, Begins(t, source, type) PROVE OrderInv'
  BY <1>4, BeginOrder, CountedStep
<1>5. ASSUME NEW q \in Queues, GetNext(q) PROVE OrderInv' BY <1>5, GetNextOrder, CountedStep
<1> QED BY <1>1, <1>2, <1>3, <1>4, <1>5, Effects

\* Messages keep their order on every way (OrderInv): within a thread, where handle() calls
\* handle(), as from SendToQueue through the queue to InputQueue and on to the next thread.
THEOREM OrderCorrect ==
    ASSUME \A c \in Configurations : OneWay(c)
    PROVE  Spec => [](BuildInv /\ StartOnce /\ OrderInv)
<1>1. ASSUME BuildInv, StartOnce, OrderInv, [Next]_vars PROVE StartOnce' /\ OrderInv'
  <2>1. OneWay(config) BY <1>1 DEF BuildInv, TypeOK
  <2> QED BY <1>1, <2>1, StartOnceStep, OrderStep
<1> QED BY <1>1, OrderInit, BuildCorrect, PTL DEF Spec
-----------------------------------------------------------------------------
(* What has been stopped before the system is *)

LEMMA UnstoppedStep == ASSUME BuildInv, Unstopped, [Next]_vars PROVE Unstopped'
<1> USE DEF BuildInv, TypeOK, Unstopped
<1>1. service' => service
  <2>1. ASSUME NEW t \in Threads, StopService(t) PROVE ~service' BY <2>1 DEF StopService
  <2> QED BY <2>1, Writers
<1>2. \A t \in Threads : stopNext'[t] > 1 => ~service'
  <2> SUFFICES ASSUME NEW t \in Threads, stopNext'[t] > 1, service' PROVE FALSE OBVIOUS
  <2>1. CASE UNCHANGED stopNext BY <1>1, <2>1
  <2>2. CASE Stop
    <3>1. stopNext' = [stopNext EXCEPT ![Main] = 1] /\ service' = service BY <2>2 DEF Stop
    <3>2. stopNext[t] > 1 BY <3>1
    <3> QED BY <3>1, <3>2
  <2>3. ASSUME NEW u \in Threads, Stopper(u) PROVE FALSE
    <3>1. CASE UNCHANGED stopNext BY <1>1, <3>1
    <3>2. CASE stopNext' = [stopNext EXCEPT ![u] = 1]
      <4>1. stopNext[t] > 1 BY <3>2
      <4> QED BY <1>1, <4>1
    <3> QED BY <2>3, <3>1, <3>2, Zenon DEF Stopper
  <2>4. ASSUME NEW u \in Threads, StopService(u) PROVE FALSE BY <2>4 DEF StopService
  <2>5. ASSUME NEW u \in Threads, StopNotify(u) PROVE FALSE BY <1>1, <2>5 DEF StopNotify
  <2>6. ASSUME NEW u \in Threads, StopStep(u) PROVE FALSE
    <3>1. stopNext[u] - 1 \in 1 .. Len(order) /\ stopNext[u] \in Nat /\ Len(order) \in Nat BY <2>6 DEF StopStep
    <3>2. stopNext[u] > 1 BY <3>1
    <3> QED BY <1>1, <3>2
  <2> QED BY <2>1, <2>2, <2>3, <2>4, <2>5, <2>6, Writers
<1>3. ASSUME service', NEW u \in Threads, StopStep(u) PROVE FALSE
  <2>1. stopNext[u] - 1 \in 1 .. Len(order) /\ stopNext[u] \in Nat /\ Len(order) \in Nat BY <1>3 DEF StopStep
  <2>2. stopNext[u] > 1 BY <2>1
  <2> QED BY <1>1, <1>3, <2>2
<1>4. ASSUME service' PROVE /\ halted' \subseteq Of({"send_to_queue"})
                            /\ stopping' \subseteq Of({"send_to_queue", "consumer"})
  <2>1. /\ halted \subseteq Of({"send_to_queue"}) /\ stopping \subseteq Of({"send_to_queue", "consumer"})
        /\ Of({"send_to_queue"}) \subseteq Of({"send_to_queue", "consumer"})
    BY <1>1, <1>4 DEF Of
  <2>2. ASSUME NEW u \in Threads, Publish(u) \/ GiveUp(u)
        PROVE  halted' \subseteq halted \cup {Top(u).step} /\ stopping' \subseteq stopping \cup {Top(u).step}
               /\ Top(u).step \in Of({"send_to_queue"})
    BY <2>2 DEF Publish, GiveUp, PublishReturns, Publishes, In
  <2>3. ASSUME NEW u \in Threads, Consume(u)
        PROVE  stopping' \subseteq stopping \cup {Top(u).step} /\ Top(u).step \in Of({"send_to_queue", "consumer"})
    BY <2>3 DEF Consume, In, Of
  <2>4. ASSUME NEW q \in Of({"input_queue"}), GetNothing(q) PROVE FALSE BY <2>1, <2>4 DEF GetNothing, Of
  <2>5. halted' \subseteq Of({"send_to_queue"}) BY <1>3, <1>4, <2>1, <2>2, Writers
  <2>6. stopping' \subseteq Of({"send_to_queue", "consumer"}) BY <1>3, <1>4, <2>1, <2>2, <2>3, <2>4, Writers
  <2> QED BY <2>5, <2>6
<1> QED BY <1>2, <1>4, SameSteps

\* A thread finds no Producer stopped that it publishes with.
LEMMA OpenHands ==
    ASSUME BuildInv, OneWay(config), Threading, Open, service, NEW t \in Threads, Busy(t), NEW s \in PendingOf(t)
    PROVE  s \in Steps /\ s \notin halted
<1>1. config \in Configurations BY DEF BuildInv, TypeOK
<1>2. PendingOf(t) \subseteq Below(From(t)) /\ From(t) \in Steps BY ThreadFacts DEF Of
<1>3. s \in Steps /\ s \in Below(s) BY <1>1, <1>2, BelowFacts
<1> QED BY <1>3 DEF Open, Clear

\* A shutdown is the last message of a producer.
LEMMA ShutdownFacts ==
    ASSUME BuildInv, Counted, NEW k \in Everywhere, k.type = "shutdown"
    PROVE  /\ k.source \in Of({"producer"}) /\ k.number = count[k.source] /\ ~More2Come(k.source)
           /\ \A other \in Everywhere : other.source = k.source => ~(k.number < other.number)
<1>1. k \in Messages BY EverywhereType
<1>2. Numbered(k) BY DEF Counted
<1>3. k.source \in Of({"producer"}) BY <1>1, <1>2 DEF Numbered, Messages, Of
<1>4. ASSUME NEW other \in Everywhere, other.source = k.source PROVE ~(k.number < other.number)
  <2>1. other \in Messages /\ Numbered(other) BY EverywhereType DEF Counted
  <2>2. other.number \in Nat /\ count[k.source] \in Nat
    BY <1>3, <2>1 DEF Messages, BuildInv, TypeOK, Of
  <2> QED BY <1>2, <1>4, <2>1, <2>2 DEF Numbered
<1> QED BY <1>2, <1>3, <1>4 DEF Numbered, More2Come

\* A Publish that stops a Producer: no message has yet to reach it.
LEMMA LastPublish ==
    ASSUME BuildInv, OneWay(config), Unshared(config), OrderInv, Open, service,
           NEW t \in Threads, Publish(t), message[t].type = "shutdown"
    PROVE  LET s == Top(t).step IN
           /\ \A u \in Threads : \A d \in PendingIn(stack'[u]) : s \notin Below(d)
           /\ \A q \in Queues : queue[q] # <<>> \/ q = Target(t) => s \notin Below(q)
           /\ \A p \in Of({"producer"}) : More2Come(p) => s \notin Below(p)
           /\ \A h \in Of({"heartbeat"}) : s \notin Below(h)
<1> DEFINE s == Top(t).step  m == message[t]  p == m.source
<1> USE DEF OrderInv
<1>1. config \in Configurations /\ queue \in [Queues -> Seq(Messages)] /\ Graph(To)
  BY ToFacts DEF BuildInv, TypeOK, Queues
<1>2. /\ Handles(t, s, {}) /\ s \in Of({"send_to_queue"}) /\ s \in Steps
  BY LeaveEffect DEF Of
<1>3. Busy(t) /\ s \in PendingOf(t) /\ \A u \in Threads \ {t} : stack'[u] = stack[u] BY <1>2 DEF Handles, Turns
<1>4. m \in Everywhere BY <1>3 DEF Everywhere, InHands
<1> HIDE DEF s, m, p
<1>5. /\ p \in Of({"producer"}) /\ ~More2Come(p)
      /\ \A other \in Everywhere : other.source = p => ~(m.number < other.number)
  BY <1>4, ShutdownFacts DEF m, p
<1>6. s \in Below(p)
  <2>1. PendingOf(t) \subseteq Below(p) BY <1>3, ThreadFacts DEF m, p
  <2> QED BY <1>3, <2>1
<1>7. ASSUME NEW o \in Origin, s \in Below(o) PROVE o = p
  <2>1. Origins(config) = Origin BY DEF Origins, Origin, Of, Steps
  <2>2. /\ s \in DOMAIN config.kind /\ p \in Origins(config) /\ config.kind[s] = "send_to_queue"
        /\ config.kind[p] = "producer" /\ o \in Origins(config)
    BY <1>2, <1>5, <2>1 DEF Of, Steps, Origin
  <2>3. s \in Reached(PassesTo(config), p) \cap Reached(PassesTo(config), o) BY <1>6, <1>7 DEF Below, To
  <2> QED BY <2>2, <2>3 DEF Unshared
<1>8. /\ \A u \in Threads : \A d \in PendingIn(stack'[u]) :
             d \in PendingOf(u) /\ (s \in Below(d) => Older(m, message[u]))
      /\ \A q \in Queues : \A i \in DOMAIN queue[q] : s \in Below(q) \ {q} => Older(m, queue[q][i])
  <2>1. s = Top(t).step BY DEF s
  <2> QED BY <1>2, <2>1, Arrival DEF m
<1>9. ASSUME NEW u \in Threads, NEW d \in PendingIn(stack'[u]), s \in Below(d) PROVE FALSE
  <2>1. d \in PendingOf(u) /\ Older(m, message[u]) BY <1>8, <1>9
  <2>2. Busy(u) BY <2>1 DEF PendingOf, PendingIn, Busy
  <2>3. message[u].source \in Origin /\ d \in Below(message[u].source) BY <2>1, <2>2, ThreadFacts
  <2>4. message[u].source \in Steps BY <1>1, <2>3, KindFacts
  <2>5. s \in Below(message[u].source) BY <1>1, <1>9, <2>3, <2>4, BelowFacts
  <2>6. message[u].source = p BY <1>7, <2>3, <2>5
  <2>7. message[u] \in Everywhere BY <2>2 DEF Everywhere, InHands
  <2> QED BY <1>5, <2>1, <2>6, <2>7 DEF Older, p
<1>10. ASSUME NEW q \in Queues, queue[q] # <<>>, s \in Below(q) PROVE FALSE
  <2>1. q # s /\ q \in Steps /\ q \notin Consumers BY <1>1, <1>2, KindFacts DEF Queues, Of
  <2>2. queue[q] \in Seq(Messages) /\ 1 \in DOMAIN queue[q] BY <1>1, <1>10
  <2>3. Older(m, queue[q][1]) BY <1>8, <1>10, <2>1, <2>2
  <2>4. queue[q][1] \in Held(q) BY <2>1, <2>2 DEF Held, ToSet
  <2>5. queue[q][1] \in Everywhere /\ q \in Below(queue[q][1].source)
    BY <2>1, <2>4 DEF Everywhere, Ordered, Fed
  <2>6. queue[q][1].source \in Origin BY <2>5, EverywhereType DEF Messages, Origin
  <2>7. queue[q][1].source \in Steps BY <1>1, <2>6, KindFacts
  <2>8. s \in Below(queue[q][1].source) BY <1>1, <1>10, <2>5, <2>7, BelowFacts
  <2>9. queue[q][1].source = p BY <1>7, <2>6, <2>8
  <2> QED BY <1>5, <2>3, <2>5, <2>9 DEF Older, p
<1>11. s \notin Below(Target(t))
  <2>1. To[s] = {Target(t)} BY <1>1, <1>2, ToFacts DEF Target, s
  <2>2. Tree(To, p) BY <1>1, <1>5, OneWayFacts DEF Origin, Of
  <2> QED BY <1>1, <1>6, <2>1, <2>2, NoCircle DEF Below
<1>12. ASSUME NEW r \in Of({"producer"}), More2Come(r), s \in Below(r) PROVE FALSE
  BY <1>5, <1>7, <1>12 DEF Origin, Of
<1>13. ASSUME NEW h \in Of({"heartbeat"}), s \in Below(h) PROVE FALSE
  BY <1>5, <1>7, <1>13 DEF Origin, Of
<1> QED BY <1>9, <1>10, <1>11, <1>12, <1>13 DEF s

LEMMA OpenStep ==
    ASSUME BuildInv, OneWay(config), Unshared(config), StartOnce, OrderInv, Unstopped, Open, [Next]_vars
    PROVE  Open'
<1> USE DEF OrderInv
<1> SUFFICES ASSUME service'
             PROVE  /\ \A t \in Threads : \A d \in PendingOf(t)' : \A x \in Below(d) : x \notin halted'
                    /\ \A q \in Queues : queue'[q] # <<>> => \A x \in Below(q) : x \notin halted'
                    /\ \A p \in Of({"producer"}) : More2Come(p)' => \A x \in Below(p) : x \notin halted'
                    /\ \A h \in Of({"heartbeat"}) : \A x \in Below(h) : x \notin halted'
  BY SameSteps, SameWays DEF Open, Clear
<1>1. config \in Configurations /\ Graph(To) BY ToFacts DEF BuildInv, TypeOK
<1>2. service
  <2>1. ASSUME NEW t \in Threads, StopService(t) PROVE ~service' BY <2>1 DEF StopService
  <2> QED BY <2>1, Writers
<1>3. /\ \A t \in Threads : \A d \in PendingOf(t) : \A x \in Below(d) : x \notin halted
      /\ \A q \in Queues : queue[q] # <<>> => \A x \in Below(q) : x \notin halted
      /\ \A p \in Of({"producer"}) : More2Come(p) => \A x \in Below(p) : x \notin halted
      /\ \A h \in Of({"heartbeat"}) : \A x \in Below(h) : x \notin halted
  BY <1>2 DEF Open, Clear
\* What is still to come came from there.
<1>4. ASSUME NEW p \in Of({"producer"}), More2Come(p)' PROVE More2Come(p)
  <2>1. Stands(p) \/ Starts(p) \/ Makes(p) \/ Counts(p) \/ Ends(p) BY ProducerStep
  <2> QED BY <1>4, <2>1 DEF Stands, Starts, Makes, Counts, Ends, More2Come
<1>5. ASSUME NEW t \in Threads, NEW d \in PendingOf(t)'
      PROVE  \/ \E s \in PendingOf(t) : d \in Below(s) /\ s \in Steps
             \/ \E q \in Queues : queue[q] # <<>> /\ d \in Below(q)
             \/ \E p \in Of({"producer"}) : More2Come(p) /\ d \in Below(p)
             \/ \E h \in Of({"heartbeat"}) : d \in Below(h)
  <2>1. CASE UNCHANGED <<stack, message>> \/ \E u \in Threads : GoesOn(u) BY <1>5, <2>1, HandsStep
  <2>2. ASSUME NEW u \in Threads, Proceeds(u) \/ Consume(u) \/ Publish(u) PROVE GoesOn(u)
    BY <2>2, LeaveEffect DEF Proceeds, GoesOn, Handles, Turns
  <2>3. ASSUME NEW u \in Threads, NEW source \in Of(Sources), Turns(u, To[source])
        PROVE  d \in Below(source) \/ \E s \in PendingOf(t) : d \in Below(s) /\ s \in Steps
    <3>1. source \in Steps BY DEF Of
    <3>2. CASE t = u
      <4>1. d \in To[source] BY <1>5, <2>3, <3>2 DEF Turns, PendingOf
      <4> QED BY <1>1, <3>1, <4>1, BelowFacts
    <3>3. CASE t # u
      <4>1. d \in PendingOf(t) BY <1>5, <2>3, <3>3 DEF Turns, PendingOf
      <4>2. Busy(t) BY <4>1 DEF PendingOf, PendingIn, Busy
      <4>3. PendingOf(t) \subseteq Below(From(t)) /\ From(t) \in Steps BY <4>2, ThreadFacts DEF Of
      <4> QED BY <1>1, <4>1, <4>3, BelowFacts
    <3> QED BY <3>2, <3>3
  <2>4. ASSUME NEW u \in Threads, NEW source \in Origin, NEW type, Begins(u, source, type)
        PROVE  \/ \E s \in PendingOf(t) : d \in Below(s) /\ s \in Steps
               \/ \E p \in Of({"producer"}) : More2Come(p) /\ d \in Below(p)
               \/ \E h \in Of({"heartbeat"}) : d \in Below(h)
    <3>1. Turns(u, To[source]) /\ source \in Of(Sources) BY <1>1, <2>4, KindFacts DEF Begins
    <3>2. source \in Of({"heartbeat"}) \/ (source \in Of({"producer"}) /\ More2Come(source))
      BY <2>4 DEF Begins, More2Come
    <3> QED BY <2>3, <3>1, <3>2
  <2>5. ASSUME NEW q \in Queues, GetNext(q)
        PROVE  \/ \E s \in PendingOf(t) : d \in Below(s) /\ s \in Steps
               \/ \E r \in Queues : queue[r] # <<>> /\ d \in Below(r)
    <3>1. q \in Threads /\ q \in Of(Sources) /\ queue[q] # <<>> /\ place # "construct"
      BY <1>1, <2>5, KindFacts DEF GetNext, BuildInv, Built
    <3>2. Turns(q, To[q])
      <4>1. Emit(q, q, Head(queue[q])) BY <2>5 DEF GetNext
      <4> HIDE DEF Emit
      <4> QED BY <3>1, <4>1, EmitEffect
    <3> QED BY <2>3, <3>1, <3>2
  <2> QED BY <2>1, <2>2, <2>4, <2>5, Effects
<1>6. ASSUME NEW q \in Queues, queue'[q] # <<>>
      PROVE  queue[q] # <<>> \/ \E t \in Threads : Publish(t) /\ q = Target(t)
  <2>1. queue \in [Queues -> Seq(Messages)] BY DEF BuildInv, TypeOK, Queues
  <2>2. ASSUME NEW r \in Queues, GetNext(r) PROVE queue[q] # <<>> BY <1>6, <2>1, <2>2 DEF GetNext
  <2>3. ASSUME NEW t \in Threads, Publish(t), q # Target(t) PROVE queue'[q] = queue[q]
    BY <2>1, <2>3 DEF Publish
  <2> QED BY <1>6, <2>2, <2>3, Writers DEF Queues
<1>7. ASSUME NEW t \in Threads, Publish(t) PROVE \A x \in Below(Target(t)) : x \notin halted
  <2>1. Handles(t, Top(t).step, {}) /\ Top(t).step \in Of({"send_to_queue"}) BY <1>7, LeaveEffect
  <2>2. Top(t).step \in PendingOf(t) /\ Top(t).step \in Steps BY <2>1 DEF Handles, Of
  <2>3. To[Top(t).step] = {Target(t)} BY <1>1, <2>1, ToFacts DEF Target
  <2>4. Top(t).step \in Below(Top(t).step) BY <1>1, <2>2, BelowFacts
  <2>5. Target(t) \in Below(Top(t).step) BY <1>1, <2>2, <2>3, <2>4, BelowFacts
  <2>6. Below(Target(t)) \subseteq Below(Top(t).step) BY <1>1, <2>2, <2>5, BelowFacts
  <2> QED BY <1>3, <2>2, <2>6
<1>8. \A s, d : s \in Steps /\ d \in Below(s) => Below(d) \subseteq Below(s) BY <1>1, BelowFacts
<1>9. /\ \A t \in Threads : \A d \in PendingOf(t)' : \A x \in Below(d) : x \notin halted
      /\ \A q \in Queues : queue'[q] # <<>> => \A x \in Below(q) : x \notin halted
      /\ \A p \in Of({"producer"}) : More2Come(p)' => \A x \in Below(p) : x \notin halted
      /\ \A h \in Of({"heartbeat"}) : \A x \in Below(h) : x \notin halted
  <2>1. ASSUME NEW t \in Threads, NEW d \in PendingOf(t)' PROVE \A x \in Below(d) : x \notin halted
    <3>1. Queues \subseteq Steps /\ Of({"producer"}) \subseteq Steps /\ Of({"heartbeat"}) \subseteq Steps
      BY DEF Queues, Of
    <3> QED BY <1>3, <1>5, <1>8, <2>1, <3>1
  <2> QED BY <1>3, <1>4, <1>6, <1>7, <2>1
<1>10. CASE halted' = halted BY <1>9, <1>10
<1>11. ASSUME NEW t \in Threads, Publish(t), message[t].type = "shutdown", halted' = halted \cup {Top(t).step}
       PROVE  /\ \A u \in Threads : \A d \in PendingOf(u)' : \A x \in Below(d) : x \notin halted'
              /\ \A q \in Queues : queue'[q] # <<>> => \A x \in Below(q) : x \notin halted'
              /\ \A p \in Of({"producer"}) : More2Come(p)' => \A x \in Below(p) : x \notin halted'
              /\ \A h \in Of({"heartbeat"}) : \A x \in Below(h) : x \notin halted'
  <2> DEFINE s == Top(t).step
  <2>1. /\ \A u \in Threads : \A d \in PendingOf(u)' : s \notin Below(d)
        /\ \A q \in Queues : queue[q] # <<>> \/ q = Target(t) => s \notin Below(q)
        /\ \A p \in Of({"producer"}) : More2Come(p) => s \notin Below(p)
        /\ \A h \in Of({"heartbeat"}) : s \notin Below(h)
    BY <1>2, <1>11, LastPublish DEF PendingOf
  <2>2. \A q \in Queues : queue'[q] # <<>> => queue[q] # <<>> \/ q = Target(t)
    <3>1. queue' = [queue EXCEPT ![Target(t)] = Put(Target(t), message[t])] BY <1>11 DEF Publish
    <3>2. queue \in [Queues -> Seq(Messages)] BY DEF BuildInv, TypeOK, Queues
    <3> QED BY <3>1, <3>2
  <2> HIDE DEF s
  <2>3. \A x : x \in halted' <=> x \in halted \/ x = s BY <1>11 DEF s
  <2> QED BY <1>4, <1>9, <2>1, <2>2, <2>3
<1>12. ASSUME NEW t \in Threads, Publish(t)
       PROVE  halted' = halted \/ (message[t].type = "shutdown" /\ halted' = halted \cup {Top(t).step})
  BY <1>12 DEF Publish, PublishReturns
<1>13. ASSUME NEW t \in Threads, GiveUp(t) PROVE FALSE
  <2>1. Handles(t, Top(t).step, {}) BY <1>13, LeaveEffect
  <2> QED BY <1>2, <1>13, <2>1, OpenHands DEF Handles, GiveUp, Cancelled
<1>14. ASSUME NEW t \in Threads, StopStep(t) PROVE FALSE
  <2>1. stopNext[t] - 1 \in 1 .. Len(order) /\ stopNext[t] \in Nat /\ Len(order) \in Nat
    BY <1>14 DEF StopStep, BuildInv, TypeOK
  <2>2. stopNext[t] > 1 BY <2>1
  <2> QED BY <1>2, <2>2 DEF Unstopped
<1> QED BY <1>10, <1>11, <1>12, <1>13, <1>14, Writers
-----------------------------------------------------------------------------
(* Nothing is lost *)

\* A step that is asked for, or has some behind it, has some behind one of its
\* destinations, unless it is a consumer.
LEMMA FurtherOn ==
    ASSUME config \in Configurations, NEW steps \in SUBSET Steps, Targets(steps),
           NEW s \in Steps, s \notin Consumers, Below(s) \cap steps # {}
    PROVE  \E e \in To[s] : Below(e) \cap steps # {}
<1>1. CASE steps = Steps
  <2>1. \E e \in To[s] : TRUE
    <3> DEFINE dest == Attached(config, Added(config), s)
    <3>1. CASE s \in Of({"send_to_queue"}) BY <3>1, ToFacts
    <3>2. CASE s \notin Of({"send_to_queue"})
      <4>1. config.kind[s] \notin Final BY <3>2 DEF Of, Final, Consumers
      <4>2. dest \in Seq(Steps) /\ dest # <<>> BY <4>1, ConfigFacts DEF Constructed, Steps
      <4>3. 1 \in DOMAIN dest /\ dest[1] \in ToSet(dest) BY <4>2 DEF ToSet
      <4>4. To[s] = ToSet(dest) \/ To[s] = {dest[1]} BY <4>1, ToFacts DEF Of
      <4> QED BY <4>3, <4>4
    <3> QED BY <3>1, <3>2
  <2>2. PICK e \in To[s] : TRUE BY <2>1
  <2>3. e \in Steps BY ToFacts DEF Graph
  <2> QED BY <1>1, <2>2, <2>3, BelowFacts
<1>2. CASE steps \subseteq Consumers
  <2>1. PICK x \in Below(s) : x \in steps OBVIOUS
  <2>2. x # s BY <1>2, <2>1
  <2> QED BY <2>1, <2>2, BelowFacts
<1> QED BY <1>1, <1>2 DEF Targets

\* Messages stay there.
LEMMA ThereStep ==
    ASSUME BuildInv, OneWay(config), OrderInv, Unstopped, Open, [Next]_vars, service, ~config.timeouts,
           NEW steps \in SUBSET Steps, Targets(steps), NEW k, There(k, steps)
    PROVE  There(k, steps)'
<1> USE DEF OrderInv
<1>1. /\ config \in Configurations /\ queue \in [Queues -> Seq(Messages)] /\ received \in [Consumers -> Seq(Messages)]
      /\ message \in [Threads -> {<<>>} \cup Messages] /\ (place # "construct" \/ \A t \in Threads : ~Busy(t))
  BY DEF BuildInv, TypeOK, Queues, Consumers, Built, Busy
<1> DEFINE Meant(d) == Below(d) \cap steps # {}
<1> HIDE DEF Meant
<1>2. SUFFICES \/ \E c \in Consumers \cap steps : k \in ToSet(received'[c])
               \/ \E q \in Queues : k \in ToSet(queue'[q]) /\ Meant(q)
               \/ \E t \in Threads : k = message'[t] /\ \E d \in PendingOf(t)' : Meant(d)
  <2>1. \A t \in Threads : PendingOf(t)' # {} => Busy(t)' BY DEF PendingOf, PendingIn, Busy
  <2> QED BY <2>1, SameSteps, SameWays DEF There, Meant
<1>3. \/ \E c \in Consumers \cap steps : k \in ToSet(received[c])
      \/ \E q \in Queues : k \in ToSet(queue[q]) /\ Meant(q)
      \/ \E t \in Threads : k = message[t] /\ \E d \in PendingOf(t) : Meant(d)
  BY DEF There, Meant
\* What a consumer has received, it has received;
<1>4. ASSUME NEW c \in Consumers, k \in ToSet(received[c]) PROVE k \in ToSet(received'[c])
  <2>1. CASE UNCHANGED received BY <1>4, <2>1
  <2>2. ASSUME NEW t \in Threads, Consume(t) PROVE k \in ToSet(received'[c])
    <3>1. received'[c] = received[c] \/ received'[c] = Append(received[c], message[t])
      BY <1>1, <2>2 DEF Consume
    <3>2. message[t] \in Messages /\ received[c] \in Seq(Messages)
      BY <1>1, <2>2 DEF Consume, In, BuildInv, TypeOK
    <3>3. ToSet(Append(received[c], message[t])) = ToSet(received[c]) \cup {message[t]} BY <3>2, Appended
    <3> QED BY <1>4, <3>1, <3>3
  <2> QED BY <2>1, <2>2, Writers
\* ... what waits in a queue is taken by its thread;
<1>5. ASSUME NEW q \in Queues, k \in ToSet(queue[q]), Meant(q)
      PROVE  k \in ToSet(queue'[q]) \/ (k = message'[q] /\ q \in Threads /\ \E d \in PendingOf(q)' : Meant(d))
  <2>1. CASE UNCHANGED queue BY <1>5, <2>1
  <2>2. ASSUME NEW t \in Threads, Publish(t) PROVE k \in ToSet(queue'[q])
    <3>1. queue'[q] = queue[q] \/ queue'[q] = Append(queue[q], message[t]) BY <1>1, <2>2 DEF Publish, Put
    <3>2. message[t] \in Messages /\ queue[q] \in Seq(Messages)
      BY <1>1, <2>2 DEF Publish, Publishes, In, BuildInv, TypeOK
    <3>3. ToSet(Append(queue[q], message[t])) = ToSet(queue[q]) \cup {message[t]} BY <3>2, Appended
    <3> QED BY <1>5, <3>1, <3>3
  <2>3. ASSUME NEW r \in Queues, GetNext(r)
        PROVE  k \in ToSet(queue'[q]) \/ (k = message'[q] /\ q \in Threads /\ \E d \in PendingOf(q)' : Meant(d))
    <3>1. CASE r # q
      <4>1. queue'[q] = queue[q] BY <1>1, <2>3, <3>1 DEF GetNext
      <4> QED BY <1>5, <4>1
    <3>2. CASE r = q
      <4>1. queue[q] \in Seq(Messages) /\ queue[q] # <<>> /\ queue'[q] = Tail(queue[q])
        BY <1>1, <2>3, <3>2 DEF GetNext
      <4>2. ToSet(queue[q]) = {Head(queue[q])} \cup ToSet(Tail(queue[q])) BY <4>1, Shortened
      <4>3. q \in Threads /\ q \in Of(Sources) /\ q \in Steps /\ q \notin Consumers BY <1>1, KindFacts
      <4>4. place # "construct" BY <2>3, <3>2, <4>3 DEF GetNext, BuildInv, Built
      <4>5. Turns(q, To[q]) /\ message'[q] = Head(queue[q])
        <5>1. Emit(q, q, Head(queue[q])) BY <2>3, <3>2 DEF GetNext
        <5> HIDE DEF Emit
        <5> QED BY <4>3, <4>4, <5>1, EmitEffect
      <4>6. PendingOf(q)' = To[q] BY <4>5 DEF Turns, PendingOf
      <4>7. \E d \in To[q] : Meant(d) BY <1>1, <1>5, <4>3, FurtherOn DEF Meant
      <4> QED BY <1>5, <4>1, <4>2, <4>3, <4>5, <4>6, <4>7
    <3> QED BY <3>1, <3>2
  <2> QED BY <2>1, <2>2, <2>3, Writers DEF Queues
\* ... and what a thread has in its hands goes on to where it is meant to go.
<1>6. ASSUME NEW t \in Threads, k = message[t], NEW d \in PendingOf(t), Meant(d)
      PROVE  \/ \E c \in Consumers \cap steps : k \in ToSet(received'[c])
             \/ \E q \in Queues : k \in ToSet(queue'[q]) /\ Meant(q)
             \/ k = message'[t] /\ \E e \in PendingOf(t)' : Meant(e)
  <2>1. Busy(t) BY <1>6 DEF PendingOf, PendingIn, Busy
  <2>2. ASSUME NEW u \in Threads, NEW s, NEW others, Handles(u, s, others), u # t \/ d # s \/ (\E e \in others : Meant(e))
        PROVE  k = message'[t] /\ \E e \in PendingOf(t)' : Meant(e)
    <3>1. message' = message BY <2>2 DEF Handles
    <3>2. CASE u # t
      <4>1. PendingOf(t)' = PendingOf(t) BY <2>2, <3>2 DEF Handles, Turns, PendingOf
      <4> QED BY <1>6, <3>1, <4>1
    <3>3. CASE u = t
      <4>1. PendingOf(t)' = (PendingOf(t) \ {s}) \cup others BY <2>2, <3>3 DEF Handles, Turns, PendingOf
      <4> QED BY <1>6, <2>2, <3>1, <3>3, <4>1
    <3> QED BY <3>2, <3>3
  <2>3. ASSUME NEW u \in Threads, Pass(u) \/ Stopper(u) PROVE k = message'[t] /\ \E e \in PendingOf(t)' : Meant(e)
    <3>1. PICK s \in Passing, others \in SUBSET Steps :
              /\ Handles(u, s, others) /\ others \subseteq To[s]
              /\ s \notin stopping => others # {} /\ (s \notin Of({"round_robin"}) => others = To[s])
      BY <2>3, PassEffect
    <3>2. s \in Steps /\ s \notin Consumers /\ s \notin stopping BY DEF Passing, Of, Consumers, Unstopped
    <3>3. CASE u = t /\ d = s
      <4>1. \E e \in To[s] : Meant(e) BY <1>1, <1>6, <3>2, <3>3, FurtherOn DEF Meant
      <4>2. CASE steps = Steps
        <5>1. \A e \in To[s] : e \in Steps /\ e \in Below(e) BY <1>1, <3>2, ToFacts, BelowFacts DEF Graph
        <5>2. \A e \in To[s] : Meant(e) BY <4>2, <5>1 DEF Meant
        <5> QED BY <2>2, <3>1, <3>2, <5>2
      <4>3. CASE Of({"round_robin"}) = {} BY <2>2, <3>1, <3>2, <4>1, <4>3
      <4> QED BY <4>2, <4>3 DEF Targets
    <3>4. CASE ~(u = t /\ d = s) BY <2>2, <3>1, <3>4
    <3> QED BY <3>3, <3>4
  <2>4. ASSUME NEW u \in Threads, Consume(u)
        PROVE  \/ \E c \in Consumers \cap steps : k \in ToSet(received'[c])
               \/ k = message'[t] /\ \E e \in PendingOf(t)' : Meant(e)
    <3> DEFINE s == Top(u).step
    <3>1. Handles(u, s, {}) /\ s \in Consumers BY <2>4, LeaveEffect
    <3>2. CASE u = t /\ d = s
      <4>1. s \in Steps /\ To[s] = {} BY <1>1, <3>1, ToFacts, KindFacts
      <4>2. Below(s) \subseteq {s} BY <1>1, <4>1, BelowFacts
      <4>3. s \in steps BY <1>6, <3>2, <4>2 DEF Meant
      <4>4. received'[s] = Append(received[s], k) BY <1>1, <1>6, <2>4, <3>1, <3>2 DEF Consume
      <4>5. k \in Messages /\ received[s] \in Seq(Messages) BY <1>1, <1>6, <2>1, <3>1 DEF BuildInv, TypeOK, Busy
      <4>6. k \in ToSet(received'[s])
        <5>1. ToSet(Append(received[s], k)) = ToSet(received[s]) \cup {k} BY <4>5, Appended
        <5> QED BY <4>4, <5>1
      <4> QED BY <3>1, <4>3, <4>6
    <3>3. CASE ~(u = t /\ d = s) BY <2>2, <3>1, <3>3
    <3> QED BY <3>2, <3>3
  <2>5. ASSUME NEW u \in Threads, Publish(u)
        PROVE  \/ \E q \in Queues : k \in ToSet(queue'[q]) /\ Meant(q)
               \/ k = message'[t] /\ \E e \in PendingOf(t)' : Meant(e)
    <3> DEFINE s == Top(u).step
    <3>1. Handles(u, s, {}) /\ s \in Of({"send_to_queue"}) BY <2>5, LeaveEffect
    <3>2. CASE u = t /\ d = s
      <4>1. s \in Steps /\ s \notin Consumers BY <3>1 DEF Of, Consumers
      <4>2. To[s] = {Target(t)} /\ Target(t) \in Queues BY <1>1, <3>1, <3>2, ToFacts DEF Target
      <4>3. Meant(Target(t)) BY <1>1, <1>6, <3>2, <4>1, <4>2, FurtherOn DEF Meant
      <4>4. queue'[Target(t)] = Append(queue[Target(t)], k) BY <1>1, <1>6, <2>5, <3>2, <4>2 DEF Publish, Put
      <4>5. k \in Messages /\ queue[Target(t)] \in Seq(Messages) BY <1>1, <1>6, <2>1, <4>2 DEF BuildInv, TypeOK, Busy
      <4>6. k \in ToSet(queue'[Target(t)])
        <5>1. ToSet(Append(queue[Target(t)], k)) = ToSet(queue[Target(t)]) \cup {k} BY <4>5, Appended
        <5> QED BY <4>4, <5>1
      <4> QED BY <4>2, <4>3, <4>6
    <3>3. CASE ~(u = t /\ d = s) BY <2>2, <3>1, <3>3
    <3> QED BY <3>2, <3>3
  <2>6. ASSUME NEW u \in Threads, GiveUp(u) PROVE FALSE
    <3>1. Handles(u, Top(u).step, {}) BY <2>6, LeaveEffect
    <3> QED BY <2>6, <3>1, OpenHands DEF Handles, GiveUp, Cancelled
  <2>7. ASSUME NEW u \in Threads, Turns(u, PendingOf(u)), UNCHANGED message
        PROVE  k = message'[t] /\ \E e \in PendingOf(t)' : Meant(e)
    <3>1. PendingOf(t)' = PendingOf(t) BY <2>7 DEF Turns, PendingOf
    <3> QED BY <1>6, <2>7, <3>1
  <2>8. ASSUME NEW u \in Threads, Send(u) \/ Return(u) \/ WaitToPublish(u)
        PROVE  k = message'[t] /\ \E e \in PendingOf(t)' : Meant(e)
    BY <2>7, <2>8, GoOnEffect
  <2>9. ASSUME NEW u \in Threads, TimeOut(u) PROVE FALSE BY <2>9, TimeOutEffect
  <2>10. CASE UNCHANGED <<stack, message>> BY <1>6, <2>10 DEF PendingOf
  <2>11. ASSUME NEW u \in Threads, u # t, stack'[t] = stack[t], message'[t] = message[t]
         PROVE  k = message'[t] /\ \E e \in PendingOf(t)' : Meant(e)
    BY <1>6, <2>11 DEF PendingOf
  <2>12. ASSUME NEW u \in Threads, NEW source \in Origin, NEW type, Begins(u, source, type)
         PROVE  k = message'[t] /\ \E e \in PendingOf(t)' : Meant(e)
    <3>1. u # t BY <2>1, <2>12 DEF Begins
    <3> QED BY <2>11, <2>12, <3>1 DEF Begins, Turns
  <2>13. ASSUME NEW q \in Queues, GetNext(q) PROVE k = message'[t] /\ \E e \in PendingOf(t)' : Meant(e)
    <3>1. q # t /\ q \in Threads BY <1>1, <2>1, <2>13, KindFacts DEF GetNext, Busy
    <3>2. stack'[t] = stack[t] /\ message'[t] = message[t] BY <2>13, <3>1 DEF GetNext, BuildInv, TypeOK
    <3> QED BY <2>11, <3>1, <3>2
  <2>14. ASSUME NEW u \in Threads, StepOf(u)
         PROVE  \/ UNCHANGED <<stack, message>> \/ Pass(u) \/ Stopper(u) \/ Consume(u) \/ Publish(u)
                \/ Send(u) \/ Return(u) \/ WaitToPublish(u)
    <3>1. Stopping(u) => UNCHANGED <<stack, message>> BY DEF Stopping, StopService, StopStep, StopNotify
    <3> QED BY <2>6, <2>9, <2>14, <3>1, Zenon DEF StepOf, Handle
  <2>15. ASSUME NEW s \in Steps, SourceStep(s)
         PROVE  \/ UNCHANGED <<stack, message>> \/ (\E q \in Queues : GetNext(q))
                \/ \E u \in Threads, source \in Origin, type \in Types : Begins(u, source, type)
    <3>1. ASSUME NEW p \in Of({"producer"}), Produce(p)
          PROVE  \E u \in Threads, source \in Origin, type \in Types : Begins(u, source, type)
      BY <3>1, BeginEffect DEF Origin, Of
    <3>2. ASSUME NEW h \in Of({"heartbeat"}), HandleTimer(h)
          PROVE  \E u \in Threads, source \in Origin, type \in Types : Begins(u, source, type)
      BY <1>1, <3>2, BeginEffect, KindFacts DEF Origin, Of, Types
    <3> QED BY <2>15, <3>1, <3>2 DEF SourceStep, Produced, TestStopping, GetNothing, GetTimesOut, Queues
  <2>16. StartTimer \/ ServiceEnds \/ Application => UNCHANGED <<stack, message>>
    BY DEF StartTimer, ServiceEnds, Application, Construct, RunThreads, StartStep, Started, Wait, Stop, Stopped,
        JoinThreads, FinishStep, Finished
  <2>17. UNCHANGED vars => UNCHANGED <<stack, message>> BY DEF vars
  <2> HIDE DEF SourceStep, StepOf
  <2>18. \/ UNCHANGED <<stack, message>> \/ (\E q \in Queues : GetNext(q))
         \/ (\E u \in Threads, source \in Origin, type \in Types : Begins(u, source, type))
         \/ \E u \in Threads : \/ Pass(u) \/ Stopper(u) \/ Consume(u) \/ Publish(u)
                               \/ Send(u) \/ Return(u) \/ WaitToPublish(u)
    BY <2>14, <2>15, <2>16, <2>17, Actions, Zenon
  <2> QED BY <2>3, <2>4, <2>5, <2>8, <2>10, <2>12, <2>13, <2>18
<1> QED BY <1>3, <1>4, <1>5, <1>6

\* A heartbeat step counts what it sends.
LEMMA HeartbeatCounts ==
    ASSUME BuildInv, [Next]_vars, NEW h \in Of({"heartbeat"})
    PROVE  UNCHANGED count[h] \/ (HandleTimer(h) /\ count'[h] = count[h] + 1)
<1> USE DEF BuildInv, TypeOK
<1>1. h \in Steps BY DEF Of
<1>2. ASSUME NEW p \in Of({"producer"}), Produced(p) PROVE UNCHANGED count[h]
  <2>1. p # h BY DEF Of
  <2>2. UNCHANGED count \/ Increment(p) BY <1>2, Zenon DEF Produced
  <2> QED BY <1>1, <2>1, <2>2
<1>3. ASSUME NEW t \in Threads, Pass(t) \/ Stopper(t) PROVE UNCHANGED count[h]
  <2>1. In(t, {"forward", "fan_out", "round_robin", "stopper"}, "enter") BY <1>3 DEF Pass, Stopper, In, Of
  <2>2. Top(t).step # h BY <2>1 DEF In, Of
  <2>3. UNCHANGED count \/ Increment(Top(t).step) BY <1>3, Zenon DEF Pass, Stopper
  <2> QED BY <1>1, <2>2, <2>3
<1>4. ASSUME NEW g \in Of({"heartbeat"}), HandleTimer(g)
      PROVE  UNCHANGED count[h] \/ (HandleTimer(h) /\ count'[h] = count[h] + 1)
  <2>1. count' = [count EXCEPT ![g] = @ + 1] BY <1>4 DEF HandleTimer
  <2>2. CASE g = h BY <1>1, <1>4, <2>1, <2>2
  <2>3. CASE g # h BY <1>1, <2>1, <2>3
  <2> QED BY <2>2, <2>3
<1> QED BY <1>2, <1>3, <1>4, Writers

\* A message that has been sent was there before, or it is a new one.
LEMMA SentStep ==
    ASSUME BuildInv, StartOnce, [Next]_vars, ~config.timeouts, NEW p \in Origin, NEW n \in Sent(p)', n \notin Sent(p)
    PROVE  \E t \in Threads, type \in Types : Begins(t, p, type) /\ n = count[p]
<1>1. /\ p \in Steps /\ count[p] \in Nat /\ Of({"heartbeat"}) \cap Of({"producer"}) = {}
      /\ config \in Configurations /\ Asio \in Threads
  BY DEF Origin, Of, BuildInv, TypeOK, Threads
<1>2. CASE p \in Of({"heartbeat"})
  <2>1. Sent(p) = 0 .. count[p] - 1 BY <1>1, <1>2 DEF Sent
  <2>2. Sent(p)' = 0 .. count'[p] - 1 BY <1>1, <1>2, SameSteps DEF Sent
  <2>3. HandleTimer(p) /\ count'[p] = count[p] + 1 BY <1>2, <2>1, <2>2, HeartbeatCounts
  <2>4. n = count[p] BY <1>1, <2>1, <2>2, <2>3
  <2> QED BY <1>1, <1>2, <2>3, <2>4, BeginEffect DEF Types
<1>3. CASE p \in Of({"producer"})
  <2>1. Sent(p) = 0 .. (IF run[p] = "send" /\ message[p].type = "data" THEN count[p] ELSE count[p] - 1)
    BY <1>3 DEF Sent
  <2>2. Sent(p)' = 0 .. (IF run'[p] = "send" /\ message'[p].type = "data" THEN count'[p] ELSE count'[p] - 1)
    BY <1>3, SameSteps DEF Sent
  <2>3. Stands(p) \/ Starts(p) \/ Makes(p) \/ Counts(p) \/ Ends(p) BY <1>3, ProducerStep
  <2>4. ~Stands(p) BY <2>1, <2>2 DEF Stands
  <2>5. ~Starts(p) BY <2>1, <2>2 DEF Starts
  <2>6. ~Counts(p) BY <1>1, <2>1, <2>2 DEF Counts
  <2>7. ~Ends(p) BY <2>1, <2>2 DEF Ends
  <2>8. Makes(p) BY <2>3, <2>4, <2>5, <2>6, <2>7
  <2>9. run[p] = "loop" /\ count'[p] = count[p] /\ Produce(p) BY <2>8 DEF Makes
  <2>10. n = count[p] BY <1>1, <2>1, <2>2, <2>9
  <2> QED BY <1>3, <2>9, <2>10, BeginEffect
<1> QED BY <1>2, <1>3 DEF Origin, Of

LEMMA TrackStep ==
    ASSUME BuildInv, OneWay(config), StartOnce, OrderInv, Unstopped, Open, [Next]_vars,
           NEW steps \in SUBSET Steps, Targets(steps), Tracked(steps)
    PROVE  Tracked(steps)'
<1>1. config \in Configurations BY DEF BuildInv, TypeOK
<1>2. SUFFICES ASSUME service', ~config.timeouts, NEW p \in Origin, Below(p) \cap steps # {}, NEW n \in Sent(p)'
               PROVE  \E k : k \in Everywhere' /\ k.source = p /\ k.number = n /\ There(k, steps)'
  BY SameSteps, SameWays DEF Tracked
<1>3. service
  <2>1. ASSUME NEW t \in Threads, StopService(t) PROVE ~service' BY <2>1 DEF StopService
  <2> QED BY <1>2, <2>1, Writers
<1>4. \A k : There(k, steps)' => k \in Everywhere'
  <2> SUFFICES ASSUME NEW k, There(k, steps)' PROVE k \in Everywhere' OBVIOUS
  <2>1. CASE \E c \in Consumers : k \in ToSet(received'[c])
    <3>1. PICK c \in Consumers : k \in ToSet(received'[c]) BY <2>1
    <3>2. k \in Held(c)' /\ c \in Steps BY <1>1, <3>1, SameWays, KindFacts DEF Held
    <3> QED BY <3>2, SameSteps DEF Everywhere
  <2>2. CASE \E q \in Queues : k \in ToSet(queue'[q])
    <3>1. PICK q \in Queues : k \in ToSet(queue'[q]) BY <2>2
    <3>2. k \in Held(q)' /\ q \in Steps BY <1>1, <3>1, SameWays, KindFacts DEF Held
    <3> QED BY <3>2, SameSteps DEF Everywhere
  <2>3. CASE \E t \in Threads : Busy(t)' /\ k = message'[t]
    BY <2>3, SameSteps DEF Everywhere, InHands
  <2> QED BY <2>1, <2>2, <2>3, SameSteps, SameWays DEF There
<1>5. CASE n \in Sent(p)
  <2>1. PICK k \in Everywhere : k.source = p /\ k.number = n /\ There(k, steps)
    BY <1>2, <1>3, <1>5 DEF Tracked
  <2>2. There(k, steps)' BY <1>2, <1>3, <2>1, ThereStep
  <2> QED BY <1>4, <2>1, <2>2
<1>6. CASE n \notin Sent(p)
  <2>1. PICK t \in Threads, type \in Types : Begins(t, p, type) /\ n = count[p] BY <1>2, <1>6, SentStep
  <2>2. message'[t].source = p /\ message'[t].number = n BY <2>1 DEF Begins, Message
  <2>3. PendingOf(t)' = To[p] /\ Busy(t)' BY <2>1 DEF Begins, Turns, PendingOf
  <2>4. p \in Steps /\ p \notin Consumers BY DEF Origin, Of, Consumers
  <2>5. PICK d \in To[p] : Below(d) \cap steps # {} BY <1>1, <1>2, <2>4, FurtherOn
  <2>6. PICK k : k = message'[t] OBVIOUS
  <2>7. There(k, steps)' BY <2>3, <2>5, <2>6, SameSteps, SameWays DEF There
  <2> QED BY <1>4, <2>2, <2>6, <2>7
<1> QED BY <1>5, <1>6

LEMMA DeliveryInit ==
    ASSUME Init, OneWay(config)
    PROVE  Unstopped /\ Open /\ TrackInv
<1>1. (\A t \in Threads : stack[t] = <<>> /\ stopNext[t] = 0) /\ halted = {} /\ stopping = {} BY DEF Init
<1>2. \A q \in Queues : queue[q] = <<>> BY DEF Init, Queues
<1>3. \A t \in Threads : PendingOf(t) = {} BY <1>1 DEF PendingOf, PendingIn
<1>4. Unstopped BY <1>1 DEF Unstopped
<1>5. Open BY <1>1, <1>2, <1>3 DEF Open, Clear
<1>6. \A p \in Origin : Sent(p) = {}
  <2> SUFFICES ASSUME NEW p \in Origin PROVE Sent(p) = {} OBVIOUS
  <2>1. count[p] = 0 BY DEF Init, Origin, Of
  <2>2. p \in Of({"producer"}) => run[p] = "none" BY DEF Init, Threads, Threaded, Of
  <2>3. Sent(p) = 0 .. count[p] - 1 BY <2>2 DEF Sent
  <2> QED BY <2>1, <2>3
<1>7. TrackInv BY <1>6 DEF TrackInv, Tracked
<1> QED BY <1>4, <1>5, <1>7

\* Until the system is stopped, no Producer has been stopped that a message has yet to
\* reach (Open), and every message that was sent is on its way or has arrived (TrackInv).
THEOREM DeliveryCorrect ==
    ASSUME \A c \in Configurations : OneWay(c) /\ Unshared(c)
    PROVE  Spec => [](Unstopped /\ Open /\ TrackInv)
<1>1. ASSUME Init PROVE Unstopped /\ Open /\ TrackInv
  <2>1. OneWay(config) BY <1>1 DEF Init
  <2> QED BY <1>1, <2>1, DeliveryInit
<1>2. ASSUME BuildInv, StartOnce, OrderInv, Unstopped, Open, TrackInv, [Next]_vars
      PROVE  Unstopped' /\ Open' /\ TrackInv'
  <2>1. OneWay(config) /\ Unshared(config) BY <1>2 DEF BuildInv, TypeOK
  <2>2. Unstopped' /\ Open' BY <1>2, <2>1, UnstoppedStep, OpenStep
  <2>3. ASSUME NEW steps \in SUBSET Steps, Targets(steps) PROVE Tracked(steps)'
    BY <1>2, <2>1, <2>3, TrackStep DEF TrackInv
  <2>4. TrackInv' BY <1>2, <2>3, SameSteps, SameWays DEF TrackInv, Targets
  <2> QED BY <2>2, <2>4
<1>3. \A c \in Configurations : OneWay(c) OBVIOUS
<1>4. Spec => [](BuildInv /\ StartOnce /\ OrderInv) BY <1>3, OrderCorrect
<1> QED BY <1>1, <1>2, <1>4, PTL DEF Spec

\* A message that is there for all steps is in transit, or a consumer has received it.
LEMMA ThereSomewhere ==
    ASSUME BuildInv, NEW k, There(k, Steps)
    PROVE  k \in InTransit \cup UNION {Received(c) : c \in Of({"consumer"})}
<1>1. CASE \E c \in Consumers : k \in ToSet(received[c]) BY <1>1 DEF Received, Consumers
<1>2. CASE \E q \in Queues : k \in ToSet(queue[q]) BY <1>2 DEF InTransit, Queues
<1>3. CASE \E t \in Threads : Busy(t) /\ k = message[t]
  <2>1. PICK t \in Threads : Busy(t) /\ k = message[t] BY <1>3
  <2>2. t \in {x \in Threads : stack[x] # <<>>} BY <2>1 DEF Busy
  <2>3. k \in {message[x] : x \in {y \in Threads : stack[y] # <<>>}} BY <2>1, <2>2
  <2> QED BY <2>3 DEF InTransit
<1> QED BY <1>1, <1>2, <1>3 DEF There

\* NothingLost: what a producer has sent is received by a consumer, or it is in a queue or in
\* the hands of a thread, until SharedResources::stop(), with no timeouts of the queues.
THEOREM PipelineNothingLostCorrect ==
    ASSUME \A c \in Configurations : OneWay(c) /\ Unshared(c)
    PROVE  Spec => []NothingLost
<1>1. ASSUME BuildInv, OrderInv, TrackInv PROVE NothingLost
  <2> SUFFICES ASSUME service, ~config.timeouts, NEW p \in Of({"producer"}), NEW n \in 0 .. count[p] - 1
               PROVE  [type |-> "data", source |-> p, number |-> n] \in
                          InTransit \cup UNION {Received(c) : c \in Of({"consumer"})}
    BY DEF NothingLost
  <2>1. config \in Configurations /\ p \in Steps /\ p \in Origin /\ count[p] \in Nat /\ Targets(Steps)
    BY <1>1 DEF BuildInv, TypeOK, Of, Origin, Targets
  <2>2. n \in Sent(p) BY <2>1 DEF Sent
  <2>3. Below(p) \cap Steps # {} BY <2>1, BelowFacts
  <2>4. Tracked(Steps) BY <1>1, <2>1 DEF TrackInv
  <2>5. PICK k \in Everywhere : k.source = p /\ k.number = n /\ There(k, Steps)
    BY <2>1, <2>2, <2>3, <2>4 DEF Tracked
  <2>6. k \in Messages /\ Numbered(k) BY <1>1, EverywhereType DEF OrderInv, Counted
  <2>7. k.type = "data" BY <2>1, <2>5, <2>6 DEF Numbered
  <2>8. k = [type |-> "data", source |-> p, number |-> n] BY <2>5, <2>6, <2>7 DEF Messages
  <2> QED BY <1>1, <2>5, <2>8, ThereSomewhere
<1>2. \A c \in Configurations : OneWay(c) OBVIOUS
<1>3. Spec => [](BuildInv /\ StartOnce /\ OrderInv) BY <1>2, OrderCorrect
<1>4. Spec => [](Unstopped /\ Open /\ TrackInv) BY DeliveryCorrect
<1> QED BY <1>1, <1>3, <1>4, PTL

\* InOrder: a consumer gets the messages of a source in the order in which they were sent,
\* none twice, and without a gap (until stop(), with no timeouts and no round_robin).
THEOREM InOrderCorrect ==
    ASSUME \A c \in Configurations : OneWay(c) /\ Unshared(c)
    PROVE  Spec => []InOrder
<1>1. ASSUME BuildInv, OrderInv, TrackInv PROVE InOrder
  <2> SUFFICES ASSUME NEW c \in Consumers, NEW i \in DOMAIN received[c], NEW j \in DOMAIN received[c], i < j,
                      received[c][i].source = received[c][j].source
               PROVE  /\ received[c][i].number < received[c][j].number
                      /\ service /\ ~config.timeouts /\ Of({"round_robin"}) = {} =>
                             \A between \in received[c][i].number .. received[c][j].number : \E k \in i .. j :
                                 received[c][k].source = received[c][i].source /\ received[c][k].number = between
    BY DEF InOrder, Consumers
  <2> DEFINE m == received[c][i]  n == received[c][j]  p == m.source
  <2>1. /\ config \in Configurations /\ received[c] \in Seq(Messages) /\ c \in Steps /\ c \notin Queues
        /\ queue \in [Queues -> Seq(Messages)]
    BY <1>1, KindFacts DEF BuildInv, TypeOK, Consumers, Queues, Of
  <2>2. \A x, y \in DOMAIN received[c] : x < y => Older(received[c][x], received[c][y])
    BY <1>1 DEF OrderInv, Ordered, ReceivedSorted
  <2>3. m.number < n.number BY <2>2 DEF Older
  <2>4. ASSUME NEW x \in DOMAIN received[c] PROVE received[c][x] \in Messages /\ received[c][x] \in Held(c)
    BY <2>1, <2>4 DEF Held, ToSet
  <2>5. m \in Messages /\ n \in Messages /\ m \in Held(c) /\ n \in Held(c) /\ n.source = p BY <2>4
  <2> HIDE DEF m, n, p
  <2>6. n \in Everywhere /\ Numbered(n) BY <1>1, <2>1, <2>5 DEF Everywhere, OrderInv, Counted
  <2>7. p \in Origin /\ m.number \in Nat /\ n.number \in Nat /\ p = m.source BY <2>5 DEF Messages, Origin, p
  <2>8. count[p] \in Nat BY <1>1, <2>7 DEF BuildInv, TypeOK, Origin, Of
  <2>9. ASSUME service, ~config.timeouts, Of({"round_robin"}) = {}, NEW between \in m.number .. n.number
        PROVE  \E k \in i .. j : received[c][k].source = p /\ received[c][k].number = between
    <3>1. CASE between = n.number BY <2>1, <2>5, <3>1 DEF n
    <3>2. CASE between # n.number
      <4>1. between \in Nat /\ between < n.number /\ n.number <= count[p]
        BY <2>5, <2>6, <2>7, <2>8, <2>9, <3>2 DEF Numbered
      <4>2. between \in Sent(p)
        <5>1. between \in 0 .. count[p] - 1 BY <2>7, <2>8, <4>1
        <5>2. between \in 0 .. count[p] BY <2>8, <5>1
        <5> QED BY <5>1, <5>2 DEF Sent
      <4>3. Tracked({c}) /\ {c} \in SUBSET Steps
        BY <1>1, <2>1, <2>9 DEF TrackInv, Targets, Consumers
      <4>4. c \in Below(p) BY <1>1, <2>1, <2>5, <2>7 DEF OrderInv, Ordered, Fed
      <4>5. PICK k \in Everywhere : k.source = p /\ k.number = between /\ There(k, {c})
        BY <2>7, <2>9, <4>2, <4>3, <4>4 DEF Tracked
      <4>6. ~Older(n, k) BY <2>5, <4>1, <4>5, <2>7 DEF Older
      <4>7. ASSUME NEW q \in Queues, k \in ToSet(queue[q]), c \in Below(q) PROVE FALSE
        <5>1. PICK x \in DOMAIN queue[q] : k = queue[q][x] BY <4>7 DEF ToSet
        <5>2. c # q BY <2>1
        <5> QED BY <1>1, <2>5, <4>6, <4>7, <5>1, <5>2 DEF OrderInv, Ordered, QueuesAhead, Behind
      <4>8. ASSUME NEW t \in Threads, k = message[t], NEW d \in PendingOf(t), c \in Below(d) PROVE FALSE
        BY <1>1, <2>5, <4>6, <4>8 DEF OrderInv, Ordered, ThreadsAhead, Behind
      <4>9. k \in ToSet(received[c]) BY <4>5, <4>7, <4>8 DEF There
      <4>10. PICK x \in DOMAIN received[c] : k = received[c][x] BY <4>9 DEF ToSet
      <4>11. ~(j < x) /\ x # j
        <5>1. j < x => Older(n, k) BY <2>2, <4>10 DEF n
        <5>2. x = j => k = n BY <4>10 DEF n
        <5> QED BY <4>1, <4>5, <4>6, <5>1, <5>2, <2>7
      <4>12. ~(x < i)
        <5>1. x < i => Older(k, m) BY <2>2, <4>10 DEF m
        <5> QED BY <2>7, <2>9, <4>5, <5>1 DEF Older
      <4>13. x \in i .. j
        <5>1. DOMAIN received[c] = 1 .. Len(received[c]) /\ Len(received[c]) \in Nat BY <2>1
        <5> QED BY <4>11, <4>12, <5>1
      <4> QED BY <4>5, <4>10, <4>13
    <3> QED BY <3>1, <3>2
  <2> QED BY <2>3, <2>9 DEF m, n, p
<1>2. \A c \in Configurations : OneWay(c) OBVIOUS
<1>3. Spec => [](BuildInv /\ StartOnce /\ OrderInv) BY <1>2, OrderCorrect
<1>4. Spec => [](Unstopped /\ Open /\ TrackInv) BY DeliveryCorrect
<1> QED BY <1>1, <1>3, <1>4, PTL
=============================================================================
