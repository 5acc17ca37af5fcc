---------------------------- MODULE Construction ----------------------------
(***************************************************************************)
(* From a configuration to a system that runs (src/src/Steps): the Builder *)
(* walks through the configuration and makes, configures and connects the  *)
(* steps; SharedResources adds up what they ask for, creates it, has each  *)
(* step take its share and check itself, and starts them.                  *)
(*                                                                         *)
(* A ConfigurationNode is a record of its name (key), its value and its    *)
(* children.  Names are numbers, 0 is the empty string.                    *)
(***************************************************************************)
EXTENDS Integers, Sequences, FiniteSets, SequencesExt

CONSTANTS
    Configurations,     \* the children of the root of each configuration
    Nodes,              \* these children, their children and so on
    Width16, Width32    \* 2^16 and 2^32, for values kept in fewer bits than they are read with

ASSUME WidthAssumption == Width16 \in Nat \ {0} /\ Width32 \in Nat \ {0}

Unreadable == -1        \* the value of a node whose text is no number or address
Forever == -2           \* the text "forever"; a wait strategy waits forever anyway

ASSUME NodesAssumption ==
    /\ \A n \in Nodes : n.value \in Nat \cup {Unreadable, Forever} /\ n.children \in Seq(Nodes)
    /\ Configurations \subseteq Seq(Nodes)

VARIABLES
    root,               \* the configuration
    stack,              \* the calls of construct, constructPipe and configure, innermost first
    made,               \* the node of each step made; a step is its index
    steps,              \* SharedResources::steps_
    destinations,       \* Step::destinations_
    queues,             \* SharedResources::queues_, the input_queue of each name
    needed, largest, tenths,    \* what the steps have asked for: messages, bytes, asio threads
    pool, service,      \* the messages free in the MemoryPool; whether there is an AsioService
    connection,         \* each send_to_queue's input_queue, 0 for none
    place, next,        \* where createResources() and start() are, and at which step
    started             \* the steps that have been started

requests == <<needed, largest, tenths>>
resources == <<pool, service, connection>>
vars == <<root, stack, made, steps, destinations, queues, requests, resources, place, next, started>>
-----------------------------------------------------------------------------
(* The classes of steps *)

Threaded == {"producer", "input_queue", "console"}
AsioSources == {"heartbeat", "multicast_receiver"}
AsioSteps == AsioSources \cup {"multicast_sender"}
Copying == {"ordered_merge", "round_robin", "fan_out", "binary_copy", "test_message_copy"}
ToMessage == Threaded \cup AsioSources \cup Copying
\* The StepFactory's registry.
Registry ==
    ToMessage \cup AsioSteps \cup {"send_to_queue", "shuffler", "leaker", "stopper", "tee",
                                   "forward_pass_thru", "test_message_analyzer", "consumer"}

Readable(p) == p.value \in Nat
ReadsFlag(p) == p.value \in {0, 1}
\* A parameter that is given twice has its last value.
Given(node, key) ==
    LET all == {i \in DOMAIN node.children : node.children[i].key = key} IN
    IF all = {} THEN 0 ELSE node.children[Max(all)].value
Has(node, key) == \E i \in DOMAIN node.children : node.children[i].key = key

\* configureParameter() of each class: whether it takes the parameter.  What does not
\* take a number takes any value.
ReadsWaitStrategy(p) ==
    \A i \in DOMAIN p.children :
        /\ Readable(p.children[i]) \/ p.children[i].value = Forever
        /\ p.children[i].key \in {"spin_count", "yield_count", "sleep_count", "sleep_nanoseconds",
                                  "timeout_nanoseconds"}
ReadsInputQueue(p) ==
    \/ /\ p.key \in {"produder_wait_strategy", "consumer_wait_strategy", "common_wait_strategy"}
       /\ ReadsWaitStrategy(p)
    \/ p.key = "entry_count" /\ Readable(p)
    \/ p.key = "discard_messages_if_no_consumer" /\ ReadsFlag(p)
ReadsSendToQueue(p) == p.key = "queue"
ReadsHeartbeat(p) == p.key = "milliseconds" /\ Readable(p)
ReadsMerge(p) == p.key \in {"look_ahead", "max_delay_heartbeats"} /\ Readable(p)
ReadsShuffler(p) == p.key \in {"look_ahead", "prime"} /\ Readable(p)
ReadsLeaker(p) ==
    \/ p.key \in {"count", "offset", "every"} /\ Readable(p)
    \/ p.key \in {"heartbeats", "shutdowns"} /\ ReadsFlag(p)
ReadsStopper(p) == p.key \in {"data_messages", "heartbeats", "shutdowns"} /\ Readable(p)
ReadsTee(p) == p.key = "output"
ReadsConsole(p) == p.key = "prompt"
ReadsSender(p) == p.key \in {"group", "bind"} \/ (p.key = "port" /\ Readable(p))
ReadsReceiver(p) ==
    p.key \in {"group", "listen", "bind"} \/ (p.key \in {"packet_size", "port"} /\ Readable(p))
ReadsProducer(p) == p.key \in {"message_count", "producer_number"} /\ Readable(p)
ReadsConsumer(p) == p.key = "message_count"

ReadsOwn(kind, p) ==
    CASE kind = "input_queue" -> ReadsInputQueue(p)
      [] kind = "send_to_queue" -> ReadsSendToQueue(p)
      [] kind = "heartbeat" -> ReadsHeartbeat(p)
      [] kind = "ordered_merge" -> ReadsMerge(p)
      [] kind = "shuffler" -> ReadsShuffler(p)
      [] kind = "leaker" -> ReadsLeaker(p)
      [] kind = "stopper" -> ReadsStopper(p)
      [] kind = "tee" -> ReadsTee(p)
      [] kind = "console" -> ReadsConsole(p)
      [] kind = "multicast_sender" -> ReadsSender(p)
      [] kind = "multicast_receiver" -> ReadsReceiver(p)
      [] kind = "producer" -> ReadsProducer(p)
      [] kind = "consumer" -> ReadsConsumer(p)
      [] OTHER -> FALSE
\* Step::configureParameter, and the Builder's handler after it; "destination" apart.
Reads(kind, p) == ReadsOwn(kind, p) \/ p.key \in {"name", "log_stats_on_exit", "comment"}

\* The steps' own messages, in units: heartbeats, gaps and test messages.
SizeOf(kind) == CASE kind = "heartbeat" -> 1 [] kind = "ordered_merge" -> 2 [] kind = "producer" -> 3
                  [] OTHER -> 0
\* configureResources(): the messages a step asks for besides the outMessage_ of each
\* StepToMessage, and the size they must have.
EntriesRequested(node) == IF node.key = "input_queue" THEN Given(node, "entry_count") ELSE 0
WorkingMessages(node) ==
    IF node.key \in {"ordered_merge", "shuffler"} THEN Given(node, "look_ahead") ELSE EntriesRequested(node)
\* Mutant: the entries of a queue only, and no message to take them out with.
MessagesRequested_NoOutMessage(node) ==
    WorkingMessages(node) + (IF node.key \in ToMessage \ {"input_queue"} THEN 1 ELSE 0)
MessagesRequested(node) == WorkingMessages(node) + (IF node.key \in ToMessage THEN 1 ELSE 0)
SizeRequested(node) ==
    IF node.key = "multicast_receiver" THEN Given(node, "packet_size") ELSE SizeOf(node.key)
\* Each asio step wants a tenth of a thread.
TenthsRequested(node) == IF node.key \in AsioSteps THEN 1 ELSE 0
\* attachResources(): the messages a step takes from the pool: the queue's entries, the
\* pendingMessages_ of OrderedMerge and Shuffler, the outMessage_.
EntriesCreated(node) == Given(node, "entry_count")
MessagesTaken(node) ==
    (CASE node.key = "input_queue" -> EntriesCreated(node)
       [] node.key = "ordered_merge" -> Given(node, "look_ahead")
       [] node.key = "shuffler" -> Given(node, "look_ahead")
       [] OTHER -> 0)
    + Cardinality({node.key} \cap ToMessage)

\* validate() of each class: whether it does not throw.  AsioStep and AsioStepToMessage
\* construct their exception without throwing it, and do not call the base class.
\* Address::from_string throws on what is no address; "listen" and "bind" are 0.0.0.0
\* unless they are given, "group" is empty.
IsAddress(text) == text > 0
ChoosesInterface(node, key) == Has(node, key) => IsAddress(Given(node, key))
ValidSender(node) ==
    /\ Given(node, "port") % Width16 # 0
    /\ IsAddress(Given(node, "group")) /\ ChoosesInterface(node, "bind")
ValidReceiver(node) ==
    /\ Given(node, "packet_size") # 0
    /\ IsAddress(Given(node, "group"))
    /\ ChoosesInterface(node, "listen") /\ ChoosesInterface(node, "bind")
\* Without its message_count a producer has 2^32 - 1.
ValidProducer(node) ==
    Has(node, "message_count") /\ Given(node, "message_count") % Width32 # Width32 - 1
ValidLeaker(node) == Given(node, "every") # 0
ValidSendToQueue(sends, connected) == ~sends /\ connected
MustHaveDestination(kind) ==
    kind \in (ToMessage \ (AsioSources \cup {"console"})) \cup {"leaker", "shuffler"}
Valid(node, sends, connected) ==
    /\ MustHaveDestination(node.key) => sends
    /\ node.key = "send_to_queue" => ValidSendToQueue(sends, connected)
    /\ node.key = "multicast_sender" => ValidSender(node)
    /\ node.key = "multicast_receiver" => ValidReceiver(node)
    /\ node.key = "producer" => ValidProducer(node)
    /\ node.key = "leaker" => ValidLeaker(node)
-----------------------------------------------------------------------------
(* Builder::construct *)

\* A call in progress: the nodes it has yet to read, the step that is configured, and
\* the step that the next one of the pipe is attached to.
Call(in, nodes, step, previous) == [in |-> in, nodes |-> nodes, step |-> step, previous |-> previous]

Init ==
    /\ root \in Configurations
    /\ stack = <<Call("root", root, 0, 0)>>
    /\ made = <<>> /\ steps = <<>> /\ destinations = <<>> /\ queues = <<>>
    /\ needed = 0 /\ largest = 0 /\ tenths = 0
    /\ pool = 0 /\ service = FALSE /\ connection = <<>>
    /\ place = "construct" /\ next = 0 /\ started = {}

Top == Head(stack)
Node == Head(Top.nodes)
Reading(in) == place = "construct" /\ Top.in = in /\ Top.nodes # <<>>
ReadAll(in) == place = "construct" /\ Top.in = in /\ Top.nodes = <<>>
Rest == <<[Top EXCEPT !.nodes = Tail(@)]>> \o Tail(stack)
Ends(outcome) == place' = outcome /\ UNCHANGED <<stack, made>>
Unchanged == UNCHANGED <<root, steps, destinations, queues, requests, resources, next, started>>

ReadRoot ==
    /\ Reading("root")
    /\ CASE Node.key = "pipe" ->
              /\ stack' = <<Call("pipe", Node.children, 0, 0)>> \o Rest
              /\ UNCHANGED <<made, place>>
         [] Node.key = "comment" -> stack' = Rest /\ UNCHANGED <<made, place>>
         [] OTHER -> Ends("rejected")
    /\ Unchanged

\* constructPipe: StepFactory::make
MakeStep ==
    /\ Reading("pipe")
    /\ CASE Node.key = "comment" -> stack' = Rest /\ UNCHANGED <<made, place>>
         [] Node.key \in Registry ->
              /\ made' = Append(made, Node)
              /\ stack' = <<Call("step", Node.children, Len(made) + 1, 0)>> \o Rest
              /\ UNCHANGED place
         [] OTHER -> Ends("rejected")
    /\ Unchanged

\* Step::configure: a "destination" is a pipe that begins at the step.
ConfigureParameter ==
    /\ Reading("step")
    /\ CASE Node.key = "destination" ->
              /\ stack' = <<Call("pipe", Node.children, 0, Top.step)>> \o Rest
              /\ UNCHANGED <<made, place>>
         [] Node.key # "destination" /\ Reads(made[Top.step].key, Node) ->
              /\ stack' = Rest
              /\ UNCHANGED <<made, place>>
         [] OTHER -> Ends("rejected")
    /\ Unchanged

\* ... and its end: a step without a name is rejected.
NoName ==
    /\ ReadAll("step") /\ Given(made[Top.step], "name") = 0
    /\ Ends("rejected") /\ Unchanged

\* The name of a queue that there is already stands for the new one.
AddQueue(step) ==
    LET name == Given(made[step], "name") IN
    queues' = IF made[step].key = "input_queue"
                THEN [n \in DOMAIN queues \cup {name} |-> IF n = name THEN step ELSE queues[n]]
                ELSE queues
Larger(a, b) == IF a > b THEN a ELSE b
Request(node) ==
    /\ needed' = needed + MessagesRequested(node)
    /\ largest' = Larger(largest, SizeRequested(node))
    /\ tenths' = tenths + TenthsRequested(node)
\* Step::attachDestination, behind those of the step's own nested pipes; destinations
\* knows every step since it was made.
Attached(step, previous) ==
    [s \in DOMAIN made |->
        (IF s \in DOMAIN destinations THEN destinations[s] ELSE <<>>)
            \o (IF s = previous THEN <<step>> ELSE <<>>)]
\* constructPipe after configure(): configureResources(), addStep(), attachDestination().
AddStep ==
    /\ ReadAll("step") /\ Given(made[Top.step], "name") # 0
    /\ LET step == Top.step pipe == stack[2] IN
        /\ AddQueue(step) /\ Request(made[step])
        /\ steps' = Append(steps, step)
        /\ destinations' = Attached(step, pipe.previous)
        /\ stack' = <<[pipe EXCEPT !.previous = step]>> \o Tail(Tail(stack))
    /\ UNCHANGED <<root, made, resources, place, next, started>>

PipeEnds ==
    /\ ReadAll("pipe")
    /\ stack' = Tail(stack)
    /\ UNCHANGED <<made, place>> /\ Unchanged
-----------------------------------------------------------------------------
(* SharedResources::createResources and start *)

CreateResources ==
    /\ ReadAll("root")
    /\ IF needed = 0 \/ largest = 0
         THEN place' = "threw" /\ UNCHANGED <<pool, service, next>>
         ELSE /\ pool' = needed /\ service' = (tenths > 0)
              /\ place' = "attach" /\ next' = 1
    /\ connection' = [s \in DOMAIN made |-> 0]
    /\ UNCHANGED <<root, stack, made, steps, destinations, queues, requests, started>>

InTurn(where) == place = where /\ next \in DOMAIN steps
Step == steps[next]
StepNode == made[Step]
OnlyPlace == UNCHANGED <<root, stack, made, steps, destinations, queues, requests, pool, service>>

\* Mutant: only a queue that was described before.
FindQueue_Before(name) == IF name \in DOMAIN queues /\ queues[name] < Step THEN queues[name] ELSE 0
\* SharedResources::findQueue
FindQueue(name) == IF name \in DOMAIN queues THEN queues[name] ELSE 0
\* A Message constructed on an empty pool throws.
AttachResources ==
    /\ InTurn("attach")
    /\ IF MessagesTaken(StepNode) > pool
         THEN place' = "starved" /\ UNCHANGED <<pool, connection, next>>
         ELSE /\ pool' = pool - MessagesTaken(StepNode)
              /\ connection' = [connection EXCEPT ![Step] =
                    IF StepNode.key = "send_to_queue" THEN FindQueue(Given(StepNode, "queue")) ELSE 0]
              /\ next' = next + 1 /\ UNCHANGED place
    /\ UNCHANGED <<root, stack, made, steps, destinations, queues, requests, service, started>>
AllAttached ==
    /\ place = "attach" /\ next > Len(steps)
    /\ place' = "validate" /\ next' = 1
    /\ UNCHANGED <<connection, started>> /\ OnlyPlace

\* primaryDestination_
HasDestination(step) == destinations[step] # <<>>
Validate ==
    /\ InTurn("validate")
    /\ IF Valid(StepNode, HasDestination(Step), connection[Step] # 0)
         THEN next' = next + 1 /\ UNCHANGED place
         ELSE place' = "threw" /\ UNCHANGED next
    /\ UNCHANGED <<connection, started>> /\ OnlyPlace
\* construct() returns true, and the application calls start().
AllValid ==
    /\ place = "validate" /\ next > Len(steps)
    /\ place' = "start" /\ next' = Len(steps)
    /\ UNCHANGED <<connection, started>> /\ OnlyPlace

\* Mutant: the steps are started in the order in which they were added.
Starting_Forward == steps[Len(steps) + 1 - next]
\* start() goes through steps_ from the last to the first.
Starting == steps[next]
StartStep ==
    /\ InTurn("start")
    /\ started' = started \cup {Starting}
    /\ next' = next - 1
    /\ UNCHANGED <<connection, place>> /\ OnlyPlace
Live ==
    /\ place = "start" /\ next = 0
    /\ place' = "live"
    /\ UNCHANGED <<connection, next, started>> /\ OnlyPlace

Next ==
    \/ ReadRoot \/ MakeStep \/ ConfigureParameter \/ NoName \/ AddStep \/ PipeEnds
    \/ CreateResources \/ AttachResources \/ AllAttached \/ Validate \/ AllValid
    \/ StartStep \/ Live
Spec == Init /\ [][Next]_vars
-----------------------------------------------------------------------------
(* Properties *)

\* When a configuration has been accepted every step finds what it will use, whatever
\* the others have asked for and taken: its messages, of which the pool has neither too
\* few nor any left, big enough for what the step makes; its AsioService, which
\* validate() fails to check; its queue, which may be read after the step.
Equipped ==
    /\ place # "starved"
    /\ place \in {"start", "live"} =>
        /\ pool = 0
        /\ \A s \in ToSet(steps) :
            /\ SizeOf(made[s].key) <= largest
            /\ made[s].key \in AsioSteps => service
            /\ made[s].key = "send_to_queue" =>
                   /\ connection[s] \in ToSet(steps) /\ made[connection[s]].key = "input_queue"
                   /\ Given(made[connection[s]], "name") = Given(made[s], "queue")

\* A send_to_queue looks for its queue while createResources() is still going through the
\* steps, and publishes to the input_queue of that name wherever in the configuration it
\* is described, in whichever pipe, before or after it; of two with the name it is the one
\* that was added last.  It finds none only if there is none.
QueuesNamed(name) ==
    {i \in DOMAIN steps : made[steps[i]].key = "input_queue" /\ Given(made[steps[i]], "name") = name}
HasResources(i) == place \in {"validate", "start", "live"} \/ (place = "attach" /\ i < next)
QueueFound ==
    \A i \in DOMAIN steps : made[steps[i]].key = "send_to_queue" /\ HasResources(i) =>
        LET found == connection[steps[i]]
            named == QueuesNamed(Given(made[steps[i]], "queue")) IN
        IF named = {} THEN found = 0
                      ELSE \E last \in named : found = steps[last] /\ \A j \in named : j <= last

Sources == {s \in DOMAIN made : made[s].key \in Threaded \cup AsioSources}
\* What a step's messages get to within a thread, through any nesting of pipes below it:
\* what it sends to, what these send to and so on.  All of it has been started.
StartedBelow(s) ==
    \E below \in SUBSET started :
        /\ ToSet(destinations[s]) \subseteq below
        /\ \A d \in below : ToSet(destinations[d]) \subseteq below

\* A step that sends on its own is started after all steps that its messages get to.
\* This holds unless its own parameters hold a pipe: the steps of that one are added
\* before it and started after it.
StartsLast == \A s \in Sources \cap started : Has(made[s], "destination") \/ StartedBelow(s)

\* "After this call [start()] the step may generate messages for following steps an may
\* receive messages from previous steps" (Step.hpp): when a source may send, all that its
\* messages get to may receive.
NothingSentEarly == \A s \in Sources \cap started : StartedBelow(s)

\* "Each Step checks to be sure ... that all necessary attachments are available"
\* (Step.hpp): no step that generates messages goes live without a destination for them.
SourcesHaveDestinations ==
    place = "live" => \A s \in ToSet(steps) : made[s].key \in AsioSources => HasDestination(s)
=============================================================================
