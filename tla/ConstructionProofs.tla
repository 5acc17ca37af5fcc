-------------------------- MODULE ConstructionProofs --------------------------
(***************************************************************************)
(* What Construction promises, for every set of configurations: a system   *)
(* that goes live has what it needs and starts from its ends.              *)
(***************************************************************************)
EXTENDS Construction, FiniteSetTheorems, SequenceTheorems, WellFoundedInduction, TLAPS

\* The calls that may be in progress.
Calls == [in : {"root", "pipe", "step"}, nodes : Seq(Nodes), step : Nat, previous : Nat]
\* A step takes the parameter p.
Accepts(kind, p) == p.key = "destination" \/ Reads(kind, p)
\* The last of all nodes.
IsRest(nodes, all) ==
    Len(nodes) <= Len(all) /\ \A j \in 1 .. Len(nodes) : nodes[j] = all[Len(all) - Len(nodes) + j]

\* Types.
TypesInv ==
    /\ stack \in Seq(Calls) /\ made \in Seq(Nodes) /\ steps \in Seq(Nat)
    /\ destinations \in [DOMAIN destinations -> Seq(Nat)]
    /\ \A i \in DOMAIN steps : steps[i] \in DOMAIN made /\ steps[i] \in DOMAIN destinations
    /\ needed \in Nat /\ largest \in Nat /\ tenths \in Nat /\ pool \in Nat /\ next \in Nat
    /\ place \in {"construct", "rejected", "attach", "threw", "validate", "start", "live"}

\* A call of configure() for a step that has been made: it has accepted what it has read,
\* and when there is a pipe below it or has been one, that is the step's own.
Configuring(calls, nodes, i) ==
    LET call == calls[i] node == nodes[call.step] IN
    /\ i + 1 \in DOMAIN calls /\ calls[i + 1].in = "pipe"
    /\ call.step \in DOMAIN nodes
    /\ IsRest(call.nodes, node.children)
    /\ \A j \in 1 .. Len(node.children) - Len(call.nodes) : Accepts(node.key, node.children[j])
    /\ i > 1 \/ Len(nodes) > call.step => Has(node, "destination")
\* While the configuration is walked through, the steps that have not been added are
\* those that are configured, and all are younger than what they will be attached to.
Walk(calls, nodes, added) ==
    /\ calls # <<>>
    /\ \A i \in DOMAIN calls : calls[i].in = "root" <=> i = Len(calls)
    /\ \A i \in DOMAIN calls : calls[i].in = "step" => Configuring(calls, nodes, i)
    /\ \A i, j \in DOMAIN calls : i < j /\ calls[i].in = "step" => calls[j].previous < calls[i].step
    /\ \A i \in DOMAIN calls : calls[i].previous <= Len(nodes)
    /\ \A s \in DOMAIN nodes :
           s \in ToSet(added) \/ \E i \in DOMAIN calls : calls[i].in = "step" /\ calls[i].step = s
WalkInv == place = "construct" => Walk(stack, made, steps)

\* What is known of the steps that have been added: what they have asked for, and that
\* only a step with a pipe of its own was made before a step that it is added after.
AddedInv ==
    /\ \A i, j \in DOMAIN steps : i < j /\ steps[j] < steps[i] => Has(made[steps[j]], "destination")
    /\ \A s \in DOMAIN destinations : \A d \in ToSet(destinations[s]) : d > s /\ d \in DOMAIN made
    /\ \A s \in ToSet(steps) :
        /\ \A i \in DOMAIN made[s].children : Accepts(made[s].key, made[s].children[i])
        /\ SizeOf(made[s].key) <= largest
        /\ made[s].key \in AsioSteps => tenths > 0
    /\ \A name \in DOMAIN queues :
        /\ queues[name] \in ToSet(steps) /\ made[queues[name]].key = "input_queue"
        /\ Given(made[queues[name]], "name") = name

\* The messages that the first steps ask for, together.
IsSum(sum) ==
    /\ sum \in [0 .. Len(steps) -> Nat]
    /\ sum[0] = 0
    /\ \A i \in 1 .. Len(steps) : sum[i] = sum[i - 1] + MessagesRequested(made[steps[i]])
    /\ \A i \in 0 .. Len(steps) : sum[i] <= sum[Len(steps)]
\* The pool has what the steps that have not taken their share have asked for.
SumsInv ==
    \E sum : /\ IsSum(sum) /\ sum[Len(steps)] = needed
             /\ place = "attach" => next - 1 \in 0 .. Len(steps) /\ pool = needed - sum[next - 1]
             /\ place \in {"validate", "start", "live"} => pool = 0

\* A send_to_queue has got the queue that it looks for,
Searched(s) == made[s].key = "send_to_queue" => connection[s] = FindQueue(Given(made[s], "queue"))
\* ... and there was one.
Found(s) == made[s].key = "send_to_queue" => connection[s] # 0
\* How far createResources() and start() have got.
ResourcesInv ==
    /\ place \in {"attach", "validate", "start", "live"} =>
        /\ DOMAIN made \subseteq ToSet(steps) /\ DOMAIN connection = DOMAIN made
        /\ service = (tenths > 0)
    /\ place = "attach" => \A i \in DOMAIN steps : i < next => Searched(steps[i])
    /\ place \in {"validate", "start", "live"} => \A i \in DOMAIN steps : Searched(steps[i])
    /\ place = "validate" => \A i \in DOMAIN steps : i < next => Found(steps[i])
    /\ place \in {"start", "live"} =>
        /\ \A i \in DOMAIN steps : Found(steps[i])
        /\ started = {steps[i] : i \in {k \in DOMAIN steps : k > next}}
    /\ place \notin {"start", "live"} => started = {}
    /\ place = "live" => next = 0

ConstructionInv == TypesInv /\ WalkInv /\ AddedInv /\ SumsInv /\ ResourcesInv
-----------------------------------------------------------------------------
(* Helpers *)

\* A set of numbers has a least one.
LEMMA LeastNumber ==
    ASSUME NEW S, S \subseteq Nat, S # {}
    PROVE  \E n \in S : \A m \in S : n <= m
<1> DEFINE R == OpToRel(<, Nat)
<1>1. IsWellFoundedOn(R, Nat) BY NatLessThanWellFounded
<1>2. \A m, n \in Nat : m < n => <<m, n>> \in R BY DEF OpToRel
<1> HIDE DEF R
<1>3. PICK n \in S : \A m \in S : ~(<<m, n>> \in R) BY <1>1, WFMin
<1>4. \A m \in S : m \in Nat /\ n \in Nat /\ ~(m < n) BY <1>2, <1>3
<1>5. \A m \in S : n <= m BY <1>4
<1> QED BY <1>5

\* A set of indexes has a greatest one.
LEMMA GreatestIndex ==
    ASSUME NEW n \in Nat, NEW S, S \subseteq 1 .. n, S # {}
    PROVE  Max(S) \in S
<1> DEFINE T == {n - i : i \in S}
<1>0. \A i \in S : i \in Int /\ n - i \in Nat OBVIOUS
<1>1. T \subseteq Nat /\ T # {} BY <1>0
<1>2. PICK m \in T : \A k \in T : m <= k BY <1>1, LeastNumber
<1>3. PICK i \in S : m = n - i BY <1>2
<1>4. \A j \in S : n - i <= n - j BY <1>2, <1>3
<1>5. \A j \in S : i >= j BY <1>0, <1>4
<1> QED BY <1>5 DEF Max

\* A parameter whose values are numbers is one, and 0 when it is not given.
LEMMA GivenNumber ==
    ASSUME NEW node \in Nodes, NEW key,
           \A i \in DOMAIN node.children : node.children[i].key = key => node.children[i].value \in Nat
    PROVE  Given(node, key) \in Nat
<1> DEFINE all == {i \in DOMAIN node.children : node.children[i].key = key}
<1>1. Len(node.children) \in Nat /\ DOMAIN node.children = 1 .. Len(node.children)
  BY NodesAssumption, LenProperties
<1>2. CASE all = {} BY <1>2 DEF Given
<1>3. CASE all # {}
  <2>1. Max(all) \in all BY <1>1, <1>3, GreatestIndex
  <2>2. node.children[Max(all)].value \in Nat BY <2>1
  <2> QED BY <1>3, <2>2 DEF Given
<1> QED BY <1>2, <1>3

\* What a step asks for is what it takes.
LEMMA RequestFacts ==
    ASSUME NEW node \in Nodes, \A i \in DOMAIN node.children : Accepts(node.key, node.children[i])
    PROVE  /\ MessagesRequested(node) \in Nat /\ MessagesTaken(node) = MessagesRequested(node)
           /\ SizeRequested(node) \in Nat /\ SizeOf(node.key) \in Nat /\ SizeOf(node.key) <= SizeRequested(node)
           /\ TenthsRequested(node) \in Nat /\ (node.key \in AsioSteps => TenthsRequested(node) > 0)
<1> USE DEF Accepts, Reads, ReadsOwn
<1>1. node.key = "input_queue" => Given(node, "entry_count") \in Nat
  <2> SUFFICES ASSUME node.key = "input_queue" PROVE Given(node, "entry_count") \in Nat OBVIOUS
  <2>1. \A i \in DOMAIN node.children :
            node.children[i].key = "entry_count" => node.children[i].value \in Nat
    BY DEF ReadsInputQueue, Readable
  <2> QED BY <2>1, GivenNumber
<1>2. node.key \in {"ordered_merge", "shuffler"} => Given(node, "look_ahead") \in Nat
  <2> SUFFICES ASSUME node.key \in {"ordered_merge", "shuffler"} PROVE Given(node, "look_ahead") \in Nat OBVIOUS
  <2>1. \A i \in DOMAIN node.children :
            node.children[i].key = "look_ahead" => node.children[i].value \in Nat
    BY DEF ReadsMerge, ReadsShuffler, Readable
  <2> QED BY <2>1, GivenNumber
<1>3. node.key = "multicast_receiver" => Given(node, "packet_size") \in Nat
  <2> SUFFICES ASSUME node.key = "multicast_receiver" PROVE Given(node, "packet_size") \in Nat OBVIOUS
  <2>1. \A i \in DOMAIN node.children :
            node.children[i].key = "packet_size" => node.children[i].value \in Nat
    BY DEF ReadsReceiver, Readable
  <2> QED BY <2>1, GivenNumber
<1>4. Cardinality({node.key} \cap ToMessage) = IF node.key \in ToMessage THEN 1 ELSE 0
  <2>1. CASE node.key \in ToMessage
    <3>1. {node.key} \cap ToMessage = {node.key} BY <2>1
    <3> QED BY <2>1, <3>1, FS_Singleton, Zenon
  <2>2. CASE node.key \notin ToMessage
    <3>1. {node.key} \cap ToMessage = {} BY <2>2
    <3> QED BY <2>2, <3>1, FS_EmptySet, Zenon
  <2> QED BY <2>1, <2>2
<1>5. /\ WorkingMessages(node) \in Nat
      /\ MessagesTaken(node) = WorkingMessages(node) + (IF node.key \in ToMessage THEN 1 ELSE 0)
  BY <1>1, <1>2, <1>4 DEF WorkingMessages, EntriesRequested, MessagesTaken, EntriesCreated
<1>6. SizeRequested(node) \in Nat /\ SizeOf(node.key) \in Nat /\ SizeOf(node.key) <= SizeRequested(node)
  BY <1>3 DEF SizeRequested, SizeOf
<1>7. TenthsRequested(node) \in Nat /\ (node.key \in AsioSteps => TenthsRequested(node) > 0)
  BY DEF TenthsRequested
<1> QED BY <1>5, <1>6, <1>7 DEF MessagesRequested

\* A call is put on a stack.
LEMMA Pushed ==
    ASSUME NEW call \in Calls, NEW s \in Seq(Calls)
    PROVE  /\ <<call>> \o s \in Seq(Calls) /\ <<call>> \o s # <<>> /\ Len(<<call>> \o s) = Len(s) + 1
           /\ DOMAIN (<<call>> \o s) = 1 .. Len(s) + 1 /\ Len(s) \in Nat
           /\ (<<call>> \o s)[1] = call
           /\ \A i \in 1 .. Len(s) : (<<call>> \o s)[i + 1] = s[i]
           /\ \A i \in 2 .. Len(s) + 1 : (<<call>> \o s)[i] = s[i - 1]
<1>1. <<call>> \in Seq(Calls) /\ Len(<<call>>) = 1 /\ <<call>>[1] = call OBVIOUS
<1> QED BY <1>1, ConcatProperties, LenProperties

\* The innermost call has read a node.
LEMMA RestFacts ==
    ASSUME TypesInv, stack # <<>>, Top.nodes # <<>>
    PROVE  /\ Node \in Nodes /\ Top \in Calls /\ Top = stack[1] /\ Node = Top.nodes[1]
           /\ Rest \in Seq(Calls) /\ Rest # <<>> /\ Len(Rest) = Len(stack) /\ DOMAIN Rest = DOMAIN stack
           /\ DOMAIN stack = 1 .. Len(stack) /\ Len(stack) \in Nat \ {0}
           /\ \A i \in DOMAIN stack :
                /\ Rest[i].in = stack[i].in /\ Rest[i].step = stack[i].step
                /\ Rest[i].previous = stack[i].previous
                /\ i # 1 => Rest[i] = stack[i]
           /\ Rest[1].nodes = Tail(Top.nodes)
<1>1. stack \in Seq(Calls) BY DEF TypesInv
<1>2. /\ Top \in Calls /\ Top = stack[1] /\ Tail(stack) \in Seq(Calls) /\ Len(Tail(stack)) = Len(stack) - 1
      /\ \A i \in 1 .. Len(Tail(stack)) : Tail(stack)[i] = stack[i + 1]
      /\ DOMAIN stack = 1 .. Len(stack) /\ Len(stack) \in Nat \ {0}
  BY <1>1, HeadTailProperties, LenProperties, EmptySeq DEF Top
<1>3. Top.nodes \in Seq(Nodes) BY <1>2 DEF Calls
<1>4. Node \in Nodes /\ Node = Top.nodes[1] /\ Tail(Top.nodes) \in Seq(Nodes)
  BY <1>3, HeadTailProperties DEF Node
<1> DEFINE call == [Top EXCEPT !.nodes = Tail(@)]
<1>5. /\ call \in Calls /\ call.in = Top.in /\ call.step = Top.step /\ call.previous = Top.previous
      /\ call.nodes = Tail(Top.nodes)
  BY <1>2, <1>4 DEF Calls
<1> HIDE DEF call
<1>6. Rest = <<call>> \o Tail(stack) BY DEF Rest, call
<1>7. /\ Rest \in Seq(Calls) /\ Rest # <<>> /\ Len(Rest) = Len(stack) /\ DOMAIN Rest = 1 .. Len(stack)
      /\ Rest[1] = call /\ \A i \in 2 .. Len(stack) : Rest[i] = Tail(stack)[i - 1]
  BY <1>2, <1>5, <1>6, Pushed
<1>8. \A i \in DOMAIN stack : i # 1 => Rest[i] = stack[i]
  <2> SUFFICES ASSUME NEW i \in DOMAIN stack, i # 1 PROVE Rest[i] = stack[i] OBVIOUS
  <2>1. i \in 2 .. Len(stack) /\ i - 1 \in 1 .. Len(Tail(stack)) /\ (i - 1) + 1 = i BY <1>2
  <2> QED BY <1>2, <1>7, <2>1
<1> QED BY <1>2, <1>4, <1>5, <1>7, <1>8

\* The walk goes on when a node has been accepted.
LEMMA WalkRest ==
    ASSUME TypesInv, Walk(stack, made, steps), Top.nodes # <<>>,
           Top.in = "step" => Accepts(made[Top.step].key, Node)
    PROVE  Walk(Rest, made, steps)
<1>1. stack # <<>> BY DEF Walk
<1> USE <1>1
<1>2. \A i \in DOMAIN Rest : Rest[i].in = "step" => Configuring(Rest, made, i)
  <2> SUFFICES ASSUME NEW i \in DOMAIN Rest, Rest[i].in = "step" PROVE Configuring(Rest, made, i) OBVIOUS
  <2>1. Configuring(stack, made, i) /\ stack[i].in = "step" BY RestFacts DEF Walk
  <2>2. CASE i # 1 BY <2>1, <2>2, RestFacts DEF Configuring
  <2>3. CASE i = 1
    <3> DEFINE all == made[Top.step].children
               old == Top.nodes
    <3>1. Top = stack[1] /\ Top \in Calls /\ Node = old[1] /\ Rest[1].nodes = Tail(old) /\ Rest[1].step = Top.step
      BY RestFacts
    <3>2. old \in Seq(Nodes) /\ old # <<>> BY <3>1 DEF Calls
    <3>3. Top.step \in DOMAIN made BY <2>1, <2>3, <3>1 DEF Configuring
    <3>4. made[Top.step] \in Nodes BY <3>3, ElementOfSeq, LenProperties DEF TypesInv
    <3>5. all \in Seq(Nodes) BY <3>4, NodesAssumption
    <3>6. IsRest(old, all) /\ \A j \in 1 .. Len(all) - Len(old) : Accepts(made[Top.step].key, all[j])
      BY <2>1, <2>3, <3>1 DEF Configuring
    <3> HIDE DEF all, old
    <3>7. /\ Len(all) \in Nat /\ Len(old) \in Nat /\ Len(Tail(old)) = Len(old) - 1 /\ Len(old) > 0
          /\ \A j \in 1 .. Len(Tail(old)) : Tail(old)[j] = old[j + 1]
      BY <3>2, <3>5, HeadTailProperties, LenProperties, EmptySeq
    <3>8. Node = all[Len(all) - Len(old) + 1]
      <4>1. 1 \in 1 .. Len(old) BY <3>7
      <4> QED BY <3>1, <3>6, <4>1 DEF IsRest, old
    <3>9. Accepts(made[Top.step].key, Node) BY <2>1, <2>3, <3>1
    <3>10. IsRest(Tail(old), all)
      <4> DEFINE n == Len(all)  m == Len(old)  k == Len(Tail(old))
      <4>1. n \in Nat /\ m \in Nat /\ k = m - 1 /\ m > 0 BY <3>7
      <4>2. m <= n /\ \A i1 \in 1 .. m : old[i1] = all[n - m + i1] BY <3>6 DEF IsRest
      <4>3. \A i1 \in 1 .. k : Tail(old)[i1] = old[i1 + 1] BY <3>7
      <4> HIDE DEF n, m, k
      <4>4. k <= n BY <4>1, <4>2
      <4>5. \A i1 \in 1 .. k : i1 + 1 \in 1 .. m /\ n - m + (i1 + 1) = n - k + i1 BY <4>1
      <4>6. \A i1 \in 1 .. k : Tail(old)[i1] = all[n - k + i1] BY <4>2, <4>3, <4>5
      <4> QED BY <4>4, <4>6 DEF IsRest, n, k
    <3>11. \A j \in 1 .. Len(all) - Len(Tail(old)) : Accepts(made[Top.step].key, all[j])
      <4> SUFFICES ASSUME NEW j \in 1 .. Len(all) - Len(Tail(old)) PROVE Accepts(made[Top.step].key, all[j]) OBVIOUS
      <4>1. j \in 1 .. Len(all) - Len(old) \/ j = Len(all) - Len(old) + 1 BY <3>7
      <4> QED BY <3>6, <3>8, <3>9, <4>1
    <3>12. /\ 2 \in DOMAIN Rest /\ Rest[2].in = "pipe"
           /\ Len(made) > Top.step => Has(made[Top.step], "destination")
      BY <2>1, <2>3, <3>1, RestFacts DEF Configuring
    <3>13. Rest[1].nodes = Tail(old) /\ Rest[1].step = Top.step BY <3>1
    <3> QED BY <2>3, <3>3, <3>10, <3>11, <3>12, <3>13 DEF Configuring, all
  <2> QED BY <2>2, <2>3
<1>3. \A i \in DOMAIN Rest : Rest[i].in = "root" <=> i = Len(Rest) BY RestFacts DEF Walk
<1>4. \A i, j \in DOMAIN Rest : i < j /\ Rest[i].in = "step" => Rest[j].previous < Rest[i].step
  BY RestFacts DEF Walk
<1>5. \A i \in DOMAIN Rest : Rest[i].previous <= Len(made) BY RestFacts DEF Walk
<1>6. \A s \in DOMAIN made :
          s \in ToSet(steps) \/ \E i \in DOMAIN Rest : Rest[i].in = "step" /\ Rest[i].step = s
  BY RestFacts DEF Walk
<1>7. Rest # <<>> BY RestFacts
<1> QED BY <1>2, <1>3, <1>4, <1>5, <1>6, <1>7 DEF Walk

\* A pipe is walked through, as part of the configuration or of a step.
LEMMA WalkPipe ==
    ASSUME NEW calls \in Seq(Calls), made \in Seq(Nodes), Walk(calls, made, steps), NEW call \in Calls,
           call.in = "pipe", call.previous <= Len(made), calls[1].in # "pipe",
           calls[1].in = "step" => Has(made[calls[1].step], "destination")
    PROVE  Walk(<<call>> \o calls, made, steps)
<1> DEFINE all == <<call>> \o calls
<1>1. /\ Len(calls) \in Nat \ {0} /\ DOMAIN calls = 1 .. Len(calls) /\ all # <<>> /\ DOMAIN all = 1 .. Len(calls) + 1
      /\ Len(all) = Len(calls) + 1 /\ all[1] = call /\ \A i \in 1 .. Len(calls) + 1 : i # 1 => all[i] = calls[i - 1]
  BY Pushed, LenProperties, EmptySeq DEF Walk
<1>2. \A i \in DOMAIN all : i # 1 => i - 1 \in DOMAIN calls BY <1>1
<1> HIDE DEF all
<1>3. \A i \in DOMAIN all : all[i].in = "step" => Configuring(all, made, i)
  <2> SUFFICES ASSUME NEW i \in DOMAIN all, all[i].in = "step" PROVE Configuring(all, made, i) OBVIOUS
  <2>1. i # 1 /\ all[i] = calls[i - 1] /\ i - 1 \in DOMAIN calls BY <1>1, <1>2
  <2>2. Configuring(calls, made, i - 1) BY <2>1 DEF Walk
  <2>3. i - 1 = 1 \/ i - 1 > 1 BY <1>1, <2>1
  <2>4. Has(made[calls[i - 1].step], "destination") BY <2>1, <2>2, <2>3 DEF Configuring
  <2>5. i - 1 + 1 = i /\ i + 1 \in DOMAIN all /\ all[i + 1] = calls[i] BY <1>1, <2>1, <2>2 DEF Configuring
  <2> QED BY <2>1, <2>2, <2>4, <2>5 DEF Configuring
<1>4. \A i \in DOMAIN all : all[i].in = "root" <=> i = Len(all)
  <2> SUFFICES ASSUME NEW i \in DOMAIN all PROVE all[i].in = "root" <=> i = Len(all) OBVIOUS
  <2>1. CASE i = 1 BY <1>1, <2>1
  <2>2. CASE i # 1
    <3>1. calls[i - 1].in = "root" <=> i - 1 = Len(calls) BY <1>2, <2>2 DEF Walk
    <3> QED BY <1>1, <2>2, <3>1
  <2> QED BY <2>1, <2>2
<1>5. \A i, j \in DOMAIN all : i < j /\ all[i].in = "step" => all[j].previous < all[i].step
  <2> SUFFICES ASSUME NEW i \in DOMAIN all, NEW j \in DOMAIN all, i < j, all[i].in = "step"
               PROVE  all[j].previous < all[i].step
    OBVIOUS
  <2>1. i # 1 /\ j # 1 /\ i - 1 < j - 1 BY <1>1
  <2>2. i - 1 \in DOMAIN calls /\ j - 1 \in DOMAIN calls /\ all[i] = calls[i - 1] /\ all[j] = calls[j - 1]
    BY <1>1, <1>2, <2>1
  <2> QED BY <2>1, <2>2 DEF Walk
<1>6. \A i \in DOMAIN all : all[i].previous <= Len(made)
  <2> SUFFICES ASSUME NEW i \in DOMAIN all PROVE all[i].previous <= Len(made) OBVIOUS
  <2>1. CASE i = 1 BY <1>1, <2>1
  <2>2. CASE i # 1 BY <1>1, <1>2, <2>2 DEF Walk
  <2> QED BY <2>1, <2>2
<1>7. \A s \in DOMAIN made : s \in ToSet(steps) \/ \E i \in DOMAIN all : all[i].in = "step" /\ all[i].step = s
  <2> SUFFICES ASSUME NEW s \in DOMAIN made, s \notin ToSet(steps)
               PROVE  \E i \in DOMAIN all : all[i].in = "step" /\ all[i].step = s
    OBVIOUS
  <2>1. PICK i \in DOMAIN calls : calls[i].in = "step" /\ calls[i].step = s BY DEF Walk
  <2>2. i + 1 \in DOMAIN all /\ all[i + 1] = calls[i] BY <1>1
  <2> QED BY <2>1, <2>2
<1> QED BY <1>1, <1>3, <1>4, <1>5, <1>6, <1>7 DEF Walk, all

\* A step is made and configured.
LEMMA WalkStep ==
    ASSUME NEW calls \in Seq(Calls), made \in Seq(Nodes), Walk(calls, made, steps), calls[1].in = "pipe",
           NEW node \in Nodes, NEW call \in Calls, call.in = "step", call.nodes = node.children,
           call.step = Len(made) + 1, call.previous = 0
    PROVE  Walk(<<call>> \o calls, Append(made, node), steps)
<1> DEFINE all == <<call>> \o calls
           nodes == Append(made, node)
<1>1. /\ Len(calls) \in Nat \ {0} /\ DOMAIN calls = 1 .. Len(calls) /\ all # <<>> /\ DOMAIN all = 1 .. Len(calls) + 1
      /\ Len(all) = Len(calls) + 1 /\ all[1] = call /\ \A i \in 1 .. Len(calls) + 1 : i # 1 => all[i] = calls[i - 1]
  BY Pushed, LenProperties, EmptySeq DEF Walk
<1>2. \A i \in DOMAIN all : i # 1 => i - 1 \in DOMAIN calls BY <1>1
<1>3. /\ Len(made) \in Nat /\ DOMAIN made = 1 .. Len(made) /\ Len(nodes) = Len(made) + 1
      /\ DOMAIN nodes = 1 .. Len(made) + 1 /\ \A s \in DOMAIN made : nodes[s] = made[s]
      /\ nodes[Len(made) + 1] = node
  BY AppendProperties, LenProperties
<1> HIDE DEF all, nodes
<1>4. \A i \in DOMAIN all : all[i].in = "step" => Configuring(all, nodes, i)
  <2> SUFFICES ASSUME NEW i \in DOMAIN all, all[i].in = "step" PROVE Configuring(all, nodes, i) OBVIOUS
  <2>1. CASE i = 1
    <3>1. 2 \in DOMAIN all /\ all[2].in = "pipe" BY <1>1
    <3>2. Len(node.children) \in Nat BY NodesAssumption, LenProperties
    <3>3. IsRest(node.children, node.children) BY <3>2 DEF IsRest
    <3>4. Len(node.children) - Len(node.children) = 0 BY <3>2
    <3> QED BY <1>1, <1>3, <2>1, <3>1, <3>3, <3>4 DEF Configuring
  <2>2. CASE i # 1
    <3>1. all[i] = calls[i - 1] /\ i - 1 \in DOMAIN calls BY <1>1, <1>2, <2>2
    <3>2. Configuring(calls, made, i - 1) BY <3>1 DEF Walk
    <3>3. i - 1 # 1 /\ i - 1 > 1 BY <1>1, <3>1
    <3>4. i - 1 + 1 = i /\ i + 1 \in DOMAIN all /\ all[i + 1] = calls[i] BY <1>1, <3>1, <3>2 DEF Configuring
    <3>5. calls[i - 1].step \in DOMAIN made BY <3>2 DEF Configuring
    <3>6. calls[i - 1].step \in DOMAIN nodes /\ nodes[calls[i - 1].step] = made[calls[i - 1].step] BY <1>3, <3>5
    <3> QED BY <3>1, <3>2, <3>3, <3>4, <3>6 DEF Configuring
  <2> QED BY <2>1, <2>2
<1>5. \A i \in DOMAIN all : all[i].in = "root" <=> i = Len(all)
  <2> SUFFICES ASSUME NEW i \in DOMAIN all PROVE all[i].in = "root" <=> i = Len(all) OBVIOUS
  <2>1. CASE i = 1 BY <1>1, <2>1
  <2>2. CASE i # 1
    <3>1. calls[i - 1].in = "root" <=> i - 1 = Len(calls) BY <1>2, <2>2 DEF Walk
    <3> QED BY <1>1, <2>2, <3>1
  <2> QED BY <2>1, <2>2
<1>6. \A i \in DOMAIN calls : calls[i].previous <= Len(made) /\ calls[i].previous \in Nat
  <2>1. \A i \in DOMAIN calls : calls[i] \in Calls BY <1>1, ElementOfSeq
  <2>2. \A i \in DOMAIN calls : calls[i].previous \in Nat BY <2>1 DEF Calls
  <2> QED BY <2>2 DEF Walk
<1>7. \A i, j \in DOMAIN all : i < j /\ all[i].in = "step" => all[j].previous < all[i].step
  <2> SUFFICES ASSUME NEW i \in DOMAIN all, NEW j \in DOMAIN all, i < j, all[i].in = "step"
               PROVE  all[j].previous < all[i].step
    OBVIOUS
  <2>1. j # 1 /\ j - 1 \in DOMAIN calls /\ all[j] = calls[j - 1] BY <1>1
  <2>2. CASE i = 1
    <3>1. all[j].previous <= Len(made) /\ all[j].previous \in Nat BY <1>6, <2>1
    <3> QED BY <1>1, <1>3, <2>2, <3>1
  <2>3. CASE i # 1
    <3>1. i - 1 < j - 1 /\ i - 1 \in DOMAIN calls /\ all[i] = calls[i - 1] BY <1>1, <2>3
    <3> QED BY <2>1, <3>1 DEF Walk
  <2> QED BY <2>2, <2>3
<1>8. \A i \in DOMAIN all : all[i].previous <= Len(nodes)
  <2> SUFFICES ASSUME NEW i \in DOMAIN all PROVE all[i].previous <= Len(nodes) OBVIOUS
  <2>1. CASE i = 1 BY <1>1, <1>3, <2>1
  <2>2. CASE i # 1
    <3>1. all[i].previous <= Len(made) /\ all[i].previous \in Nat BY <1>1, <1>2, <1>6, <2>2
    <3> QED BY <1>3, <3>1
  <2> QED BY <2>1, <2>2
<1>9. \A s \in DOMAIN nodes : s \in ToSet(steps) \/ \E i \in DOMAIN all : all[i].in = "step" /\ all[i].step = s
  <2> SUFFICES ASSUME NEW s \in DOMAIN nodes, s \notin ToSet(steps)
               PROVE  \E i \in DOMAIN all : all[i].in = "step" /\ all[i].step = s
    OBVIOUS
  <2>1. CASE s = Len(made) + 1
    <3>1. 1 \in DOMAIN all /\ all[1].in = "step" /\ all[1].step = s BY <1>1, <2>1
    <3> QED BY <3>1
  <2>2. CASE s # Len(made) + 1
    <3>1. s \in DOMAIN made BY <1>3, <2>2
    <3>2. PICK i \in DOMAIN calls : calls[i].in = "step" /\ calls[i].step = s BY <3>1 DEF Walk
    <3>3. i + 1 \in DOMAIN all /\ all[i + 1] = calls[i] BY <1>1
    <3> QED BY <3>2, <3>3
  <2> QED BY <2>1, <2>2
<1> QED BY <1>1, <1>4, <1>5, <1>7, <1>8, <1>9 DEF Walk, all, nodes

\* A step has been configured and is added, or a pipe has ended.
LEMMA WalkAdd ==
    ASSUME NEW calls \in Seq(Calls), made \in Seq(Nodes), steps \in Seq(Nat), Walk(calls, made, steps),
           calls[1].in = "step", NEW call \in Calls, call.in = "pipe", call.previous = calls[1].step
    PROVE  Walk(<<call>> \o Tail(Tail(calls)), made, Append(steps, calls[1].step))
<1> DEFINE rest == Tail(Tail(calls))
           all == <<call>> \o rest
           added == Append(steps, calls[1].step)
<1>1. Len(calls) \in Nat /\ Len(calls) > 0 /\ DOMAIN calls = 1 .. Len(calls) BY LenProperties, EmptySeq DEF Walk
<1>2. 2 \in DOMAIN calls /\ calls[2].in = "pipe" /\ calls[1].step \in DOMAIN made BY <1>1 DEF Walk, Configuring
<1>3. /\ Tail(calls) \in Seq(Calls) /\ Len(Tail(calls)) = Len(calls) - 1
      /\ \A i \in 1 .. Len(calls) - 1 : Tail(calls)[i] = calls[i + 1]
  BY <1>1, HeadTailProperties
<1>4. Tail(calls) # <<>>
  <2> SUFFICES ASSUME Tail(calls) = <<>> PROVE FALSE OBVIOUS
  <2>1. Len(Tail(calls)) # 0 BY <1>1, <1>2, <1>3
  <2>2. Len(<<>>) = 0 OBVIOUS
  <2> QED BY <2>1, <2>2, Zenon
<1>5. /\ rest \in Seq(Calls) /\ Len(rest) = Len(calls) - 2
      /\ \A i \in 1 .. Len(calls) - 2 : rest[i] = Tail(calls)[i + 1]
  BY <1>1, <1>3, <1>4, HeadTailProperties
<1> HIDE DEF rest
<1>6. /\ all # <<>> /\ DOMAIN all = 1 .. Len(calls) - 1 /\ Len(all) = Len(calls) - 1 /\ all[1] = call
      /\ \A i \in 2 .. Len(calls) - 1 : all[i] = rest[i - 1]
  <2>1. /\ all # <<>> /\ DOMAIN all = 1 .. Len(rest) + 1 /\ Len(all) = Len(rest) + 1 /\ all[1] = call
        /\ \A i \in 2 .. Len(rest) + 1 : all[i] = rest[i - 1]
    BY <1>5, Pushed
  <2>2. Len(rest) + 1 = Len(calls) - 1 BY <1>1, <1>5
  <2> HIDE DEF all
  <2> QED BY <2>1, <2>2
<1> HIDE DEF all
<1>7. \A i \in DOMAIN all : i # 1 => all[i] = calls[i + 1] /\ i + 1 \in DOMAIN calls
  <2> SUFFICES ASSUME NEW i \in DOMAIN all, i # 1 PROVE all[i] = calls[i + 1] /\ i + 1 \in DOMAIN calls OBVIOUS
  <2>1. i \in 2 .. Len(calls) - 1 /\ i - 1 \in 1 .. Len(calls) - 2 /\ i - 1 + 1 = i /\ i \in 1 .. Len(calls) - 1
        /\ i + 1 \in 1 .. Len(calls)
    BY <1>1, <1>6
  <2> QED BY <1>1, <1>3, <1>5, <1>6, <2>1
<1>8. ToSet(added) = ToSet(steps) \cup {calls[1].step}
  <2>1. /\ Len(steps) \in Nat /\ DOMAIN steps = 1 .. Len(steps) /\ DOMAIN added = 1 .. Len(steps) + 1
        /\ \A i \in 1 .. Len(steps) : added[i] = steps[i]
        /\ added[Len(steps) + 1] = calls[1].step
    <3>1. calls[1] \in Calls BY <1>1, ElementOfSeq
    <3>2. calls[1].step \in Nat BY <3>1 DEF Calls
    <3> QED BY <3>2, AppendProperties, LenProperties
  <2> HIDE DEF added
  <2>2. \A i \in DOMAIN added : i \in DOMAIN steps \/ i = Len(steps) + 1 BY <2>1
  <2>3. DOMAIN steps \subseteq DOMAIN added /\ Len(steps) + 1 \in DOMAIN added BY <2>1
  <2>4. \A i \in DOMAIN steps : added[i] = steps[i] BY <2>1
  <2>5. added[Len(steps) + 1] = calls[1].step BY <2>1
  <2>6. ToSet(steps) \subseteq ToSet(added) /\ calls[1].step \in ToSet(added) BY <2>3, <2>4, <2>5 DEF ToSet
  <2>7. ASSUME NEW x \in ToSet(added) PROVE x \in ToSet(steps) \cup {calls[1].step}
    <3>1. PICK i \in DOMAIN added : x = added[i] BY DEF ToSet
    <3>2. CASE i \in DOMAIN steps BY <2>4, <3>1, <3>2 DEF ToSet
    <3>3. CASE i = Len(steps) + 1 BY <2>5, <3>1, <3>3
    <3> QED BY <2>2, <3>2, <3>3
  <2> QED BY <2>6, <2>7
<1>9. \A i \in DOMAIN all : all[i].in = "step" => Configuring(all, made, i)
  <2> SUFFICES ASSUME NEW i \in DOMAIN all, all[i].in = "step" PROVE Configuring(all, made, i) OBVIOUS
  <2>1. i # 1 /\ all[i] = calls[i + 1] /\ i + 1 \in DOMAIN calls BY <1>6, <1>7
  <2>2. Configuring(calls, made, i + 1) BY <2>1 DEF Walk
  <2>3. i + 1 > 1 /\ i + 1 + 1 \in DOMAIN calls BY <1>6, <2>2 DEF Configuring
  <2>4. i + 1 \in DOMAIN all /\ i + 1 # 1 BY <1>1, <1>6, <2>1, <2>3
  <2>5. all[i + 1] = calls[i + 1 + 1] BY <1>7, <2>4
  <2> QED BY <2>1, <2>2, <2>3, <2>4, <2>5 DEF Configuring
<1>10. \A i \in DOMAIN all : all[i].in = "root" <=> i = Len(all)
  <2> SUFFICES ASSUME NEW i \in DOMAIN all PROVE all[i].in = "root" <=> i = Len(all) OBVIOUS
  <2>1. CASE i = 1
    <3>1. calls[2].in = "root" <=> 2 = Len(calls) BY <1>2 DEF Walk
    <3> QED BY <1>1, <1>2, <1>6, <2>1, <3>1
  <2>2. CASE i # 1
    <3>1. calls[i + 1].in = "root" <=> i + 1 = Len(calls) BY <1>7, <2>2 DEF Walk
    <3> QED BY <1>1, <1>6, <1>7, <2>2, <3>1
  <2> QED BY <2>1, <2>2
<1>11. \A i, j \in DOMAIN all : i < j /\ all[i].in = "step" => all[j].previous < all[i].step
  <2> SUFFICES ASSUME NEW i \in DOMAIN all, NEW j \in DOMAIN all, i < j, all[i].in = "step"
               PROVE  all[j].previous < all[i].step
    OBVIOUS
  <2>1. i # 1 /\ j # 1 /\ i + 1 < j + 1 BY <1>6
  <2>2. /\ i + 1 \in DOMAIN calls /\ j + 1 \in DOMAIN calls
        /\ all[i] = calls[i + 1] /\ all[j] = calls[j + 1]
    BY <1>7, <2>1
  <2> QED BY <2>1, <2>2 DEF Walk
<1>12. \A i \in DOMAIN all : all[i].previous <= Len(made)
  <2> SUFFICES ASSUME NEW i \in DOMAIN all PROVE all[i].previous <= Len(made) OBVIOUS
  <2>1. CASE i = 1 BY <1>2, <1>6, <2>1, LenProperties
  <2>2. CASE i # 1 BY <1>7, <2>2 DEF Walk
  <2> QED BY <2>1, <2>2
<1>13. \A s \in DOMAIN made : s \in ToSet(added) \/ \E i \in DOMAIN all : all[i].in = "step" /\ all[i].step = s
  <2> SUFFICES ASSUME NEW s \in DOMAIN made, s \notin ToSet(added)
               PROVE  \E i \in DOMAIN all : all[i].in = "step" /\ all[i].step = s
    OBVIOUS
  <2>1. s \notin ToSet(steps) /\ s # calls[1].step BY <1>8
  <2>2. PICK i \in DOMAIN calls : calls[i].in = "step" /\ calls[i].step = s BY <2>1 DEF Walk
  <2>3. i # 1 /\ i # 2 BY <1>2, <2>1, <2>2
  <2>4. i - 1 \in DOMAIN all /\ i - 1 # 1 /\ i - 1 + 1 = i BY <1>1, <1>6, <2>3
  <2>5. all[i - 1] = calls[i] BY <1>7, <2>4
  <2> QED BY <2>2, <2>4, <2>5
<1> HIDE DEF added
<1> QED BY <1>6, <1>9, <1>10, <1>11, <1>12, <1>13 DEF Walk, all, added, rest

LEMMA WalkEnd ==
    ASSUME NEW calls \in Seq(Calls), made \in Seq(Nodes), Walk(calls, made, steps), calls[1].in = "pipe"
    PROVE  Tail(calls) \in Seq(Calls) /\ Walk(Tail(calls), made, steps)
<1> DEFINE all == Tail(calls)
<1>1. Len(calls) \in Nat /\ Len(calls) > 0 /\ DOMAIN calls = 1 .. Len(calls) BY LenProperties, EmptySeq DEF Walk
<1>2. Len(calls) # 1 BY <1>1 DEF Walk
<1>3. /\ all \in Seq(Calls) /\ Len(all) = Len(calls) - 1 /\ DOMAIN all = 1 .. Len(calls) - 1
      /\ \A i \in DOMAIN all : all[i] = calls[i + 1]
  BY <1>1, HeadTailProperties, LenProperties
<1>4. all # <<>>
  <2>1. Len(all) > 0 BY <1>1, <1>2, <1>3
  <2>2. Len(<<>>) = 0 OBVIOUS
  <2> QED BY <2>1, <2>2
<1>5. \A i \in DOMAIN all : i + 1 \in DOMAIN calls BY <1>1, <1>3
<1> HIDE DEF all
<1>6. \A i \in DOMAIN all : all[i].in = "step" => Configuring(all, made, i)
  <2> SUFFICES ASSUME NEW i \in DOMAIN all, all[i].in = "step" PROVE Configuring(all, made, i) OBVIOUS
  <2>1. all[i] = calls[i + 1] /\ i + 1 \in DOMAIN calls BY <1>3, <1>5
  <2>2. Configuring(calls, made, i + 1) BY <2>1 DEF Walk
  <2>3. i + 1 > 1 /\ i + 1 + 1 \in DOMAIN calls BY <1>3, <2>2 DEF Configuring
  <2>4. i + 1 \in DOMAIN all BY <1>1, <1>3, <2>3
  <2>5. all[i + 1] = calls[i + 1 + 1] BY <1>3, <2>4
  <2> QED BY <2>1, <2>2, <2>3, <2>4, <2>5 DEF Configuring
<1>7. \A i \in DOMAIN all : all[i].in = "root" <=> i = Len(all)
  <2> SUFFICES ASSUME NEW i \in DOMAIN all PROVE all[i].in = "root" <=> i = Len(all) OBVIOUS
  <2>1. calls[i + 1].in = "root" <=> i + 1 = Len(calls) BY <1>5 DEF Walk
  <2> QED BY <1>1, <1>3, <2>1
<1>8. \A i, j \in DOMAIN all : i < j /\ all[i].in = "step" => all[j].previous < all[i].step
  <2> SUFFICES ASSUME NEW i \in DOMAIN all, NEW j \in DOMAIN all, i < j, all[i].in = "step"
               PROVE  all[j].previous < all[i].step
    OBVIOUS
  <2>1. i + 1 < j + 1 BY <1>3
  <2> QED BY <1>3, <1>5, <2>1 DEF Walk
<1>9. \A i \in DOMAIN all : all[i].previous <= Len(made) BY <1>3, <1>5 DEF Walk
<1>10. \A s \in DOMAIN made : s \in ToSet(steps) \/ \E i \in DOMAIN all : all[i].in = "step" /\ all[i].step = s
  <2> SUFFICES ASSUME NEW s \in DOMAIN made, s \notin ToSet(steps)
               PROVE  \E i \in DOMAIN all : all[i].in = "step" /\ all[i].step = s
    OBVIOUS
  <2>1. PICK i \in DOMAIN calls : calls[i].in = "step" /\ calls[i].step = s BY DEF Walk
  <2>2. i # 1 BY <2>1
  <2>3. i - 1 \in DOMAIN all /\ i - 1 + 1 = i BY <1>1, <1>3, <2>2
  <2> QED BY <1>3, <2>1, <2>3
<1> QED BY <1>3, <1>4, <1>6, <1>7, <1>8, <1>9, <1>10 DEF Walk, all
-----------------------------------------------------------------------------
(* The walk through the configuration *)

LEMMA Initially == Init => ConstructionInv
<1> SUFFICES ASSUME Init PROVE ConstructionInv OBVIOUS
<1> USE DEF Init
<1> DEFINE call == Call("root", root, 0, 0)
<1>1. root \in Seq(Nodes) BY NodesAssumption
<1>2. call \in Calls /\ call.in = "root" /\ call.previous = 0 BY <1>1 DEF Call, Calls
<1> HIDE DEF call
<1>3. stack = <<call>> BY DEF call
<1>4. stack \in Seq(Calls) /\ Len(stack) = 1 /\ stack[1] = call /\ stack # <<>> /\ DOMAIN stack = {1} BY <1>2, <1>3
<1>5. DOMAIN steps = {} /\ DOMAIN made = {} /\ DOMAIN destinations = {} /\ DOMAIN queues = {} /\ Len(steps) = 0
      /\ Len(made) = 0 /\ steps \in Seq(Nat) /\ made \in Seq(Nodes) /\ ToSet(steps) = {}
  BY DEF ToSet
<1>6. TypesInv BY <1>4, <1>5 DEF TypesInv
<1>7. WalkInv
  <2>1. \A i \in DOMAIN stack : i = 1 /\ stack[i].in = "root" /\ stack[i].previous = 0 BY <1>2, <1>4
  <2>2. \A i, j \in DOMAIN stack : ~(i < j) BY <2>1
  <2> QED BY <1>4, <1>5, <2>1, <2>2 DEF WalkInv, Walk
<1>8. AddedInv BY <1>5 DEF AddedInv
<1>9. SumsInv
  <2> DEFINE sum == [i \in 0 .. 0 |-> 0]
  <2>1. sum \in [0 .. Len(steps) -> Nat] /\ sum[0] = 0 BY <1>5
  <2> HIDE DEF sum
  <2>2. IsSum(sum) BY <1>5, <2>1 DEF IsSum
  <2> QED BY <1>5, <2>1, <2>2 DEF SumsInv
<1>10. ResourcesInv BY <1>5 DEF ResourcesInv
<1> QED BY <1>6, <1>7, <1>8, <1>9, <1>10 DEF ConstructionInv

\* What is known of the steps that have been added stays when others are made.
LEMMA MadeOnly ==
    ASSUME ConstructionInv, place = "construct", place' \in {"construct", "rejected"}, Unchanged,
           made' = made \/ \E node \in Nodes : made' = Append(made, node), stack' \in Seq(Calls)
    PROVE  TypesInv' /\ AddedInv' /\ SumsInv' /\ ResourcesInv'
<1> USE DEF ConstructionInv
<1>1. made \in Seq(Nodes) BY DEF TypesInv
<1>2. made' \in Seq(Nodes) /\ DOMAIN made \subseteq DOMAIN made' /\ \A s \in DOMAIN made : made'[s] = made[s]
  <2>1. CASE made' = made BY <1>1, <2>1
  <2>2. ASSUME NEW node \in Nodes, made' = Append(made, node)
        PROVE  made' \in Seq(Nodes) /\ DOMAIN made \subseteq DOMAIN made' /\ \A s \in DOMAIN made : made'[s] = made[s]
    BY <1>1, <2>2, AppendProperties, LenProperties
  <2> QED BY <2>1, <2>2
<1>3. \A i \in DOMAIN steps : steps[i] \in DOMAIN made /\ made'[steps[i]] = made[steps[i]] BY <1>2 DEF TypesInv
<1>4. \A s \in ToSet(steps) : s \in DOMAIN made /\ made'[s] = made[s] BY <1>3 DEF ToSet
<1>5. UNCHANGED <<steps, destinations, queues, needed, largest, tenths, pool, service, connection, next, started>>
  BY DEF Unchanged, requests, resources
<1>6. TypesInv' BY <1>2, <1>5 DEF TypesInv
<1>7. AddedInv'
  <2>1. \A i, j \in DOMAIN steps : i < j /\ steps[j] < steps[i] => Has(made'[steps[j]], "destination")
    BY <1>3 DEF AddedInv
  <2>2. \A s \in DOMAIN destinations : \A d \in ToSet(destinations[s]) : d > s /\ d \in DOMAIN made'
    BY <1>2 DEF AddedInv
  <2>3. \A s \in ToSet(steps) :
          /\ \A i \in DOMAIN made'[s].children : Accepts(made'[s].key, made'[s].children[i])
          /\ SizeOf(made'[s].key) <= largest
          /\ made'[s].key \in AsioSteps => tenths > 0
    BY <1>4 DEF AddedInv
  <2>4. \A name \in DOMAIN queues :
          /\ queues[name] \in ToSet(steps) /\ made'[queues[name]].key = "input_queue"
          /\ Given(made'[queues[name]], "name") = name
    BY <1>4 DEF AddedInv
  <2> QED BY <1>5, <2>1, <2>2, <2>3, <2>4 DEF AddedInv
<1>8. SumsInv'
  <2>1. PICK sum : IsSum(sum) /\ sum[Len(steps)] = needed BY DEF SumsInv
  <2>2. DOMAIN steps = 1 .. Len(steps) BY LenProperties DEF TypesInv
  <2>3. \A i \in 1 .. Len(steps) : sum[i] = sum[i - 1] + MessagesRequested(made'[steps[i]])
    BY <1>3, <2>1, <2>2 DEF IsSum
  <2>4. IsSum(sum)' BY <1>5, <2>1, <2>3 DEF IsSum
  <2> QED BY <1>5, <2>1, <2>4 DEF SumsInv
<1>9. ResourcesInv' BY <1>5 DEF ResourcesInv
<1> QED BY <1>6, <1>7, <1>8, <1>9

\* A node of the configuration is read.
LEMMA ReadRootStep == ConstructionInv /\ ReadRoot => ConstructionInv'
<1> SUFFICES ASSUME ConstructionInv, ReadRoot PROVE ConstructionInv' OBVIOUS
<1>1. TypesInv /\ Walk(stack, made, steps) /\ place = "construct" /\ Top.in = "root" /\ Top.nodes # <<>>
      /\ made \in Seq(Nodes)
  BY DEF ConstructionInv, WalkInv, ReadRoot, Reading, TypesInv
<1>2. stack # <<>> BY <1>1 DEF Walk
<1>3. Walk(Rest, made, steps) /\ Rest \in Seq(Calls) /\ Rest[1].in = "root" /\ Node \in Nodes /\ stack \in Seq(Calls)
  BY <1>1, <1>2, WalkRest, RestFacts DEF TypesInv
<1>4. made' = made /\ Unchanged BY DEF ReadRoot, Ends
<1>5. /\ stack' \in Seq(Calls) /\ place' \in {"construct", "rejected"}
      /\ place' = "construct" => Walk(stack', made, steps)
  <2>1. CASE Node.key = "pipe"
    <3> DEFINE call == Call("pipe", Node.children, 0, 0)
    <3>1. call \in Calls /\ call.in = "pipe" /\ call.previous = 0 BY <1>3, NodesAssumption DEF Call, Calls
    <3>2. stack' = <<call>> \o Rest /\ place' = place BY <2>1 DEF ReadRoot
    <3> HIDE DEF call
    <3>3. call.previous <= Len(made) BY <1>1, <3>1, LenProperties
    <3>4. Walk(<<call>> \o Rest, made, steps) BY <1>1, <1>3, <3>1, <3>3, WalkPipe
    <3> QED BY <1>1, <1>3, <3>1, <3>2, <3>4, Pushed
  <2>2. CASE Node.key # "pipe" /\ Node.key = "comment" BY <1>1, <1>3, <2>2 DEF ReadRoot
  <2>3. CASE Node.key # "pipe" /\ Node.key # "comment" BY <1>3, <2>3 DEF ReadRoot, Ends
  <2> QED BY <2>1, <2>2, <2>3
<1>6. WalkInv' BY <1>4, <1>5 DEF WalkInv, Unchanged
<1> QED BY <1>1, <1>4, <1>5, <1>6, MadeOnly DEF ConstructionInv

\* A step is made.
LEMMA MakeStepStep == ConstructionInv /\ MakeStep => ConstructionInv'
<1> SUFFICES ASSUME ConstructionInv, MakeStep PROVE ConstructionInv' OBVIOUS
<1>1. TypesInv /\ Walk(stack, made, steps) /\ place = "construct" /\ Top.in = "pipe" /\ Top.nodes # <<>>
      /\ made \in Seq(Nodes)
  BY DEF ConstructionInv, WalkInv, MakeStep, Reading, TypesInv
<1>2. stack # <<>> BY <1>1 DEF Walk
<1>3. Walk(Rest, made, steps) /\ Rest \in Seq(Calls) /\ Rest[1].in = "pipe" /\ Node \in Nodes /\ stack \in Seq(Calls)
  BY <1>1, <1>2, WalkRest, RestFacts DEF TypesInv
<1>4. Unchanged BY DEF MakeStep
<1>5. /\ stack' \in Seq(Calls) /\ place' \in {"construct", "rejected"}
      /\ place' = "construct" => Walk(stack', made', steps)
      /\ made' = made \/ made' = Append(made, Node)
  <2>1. CASE Node.key = "comment"
    <3>1. Node.key \notin Registry
      BY <2>1 DEF Registry, ToMessage, Threaded, AsioSources, AsioSteps, Copying
    <3> QED BY <1>1, <1>3, <2>1, <3>1 DEF MakeStep
  <2>2. CASE Node.key # "comment" /\ Node.key \in Registry
    <3> DEFINE call == Call("step", Node.children, Len(made) + 1, 0)
    <3>1. Len(made) \in Nat BY <1>1, LenProperties
    <3>2. /\ call \in Calls /\ call.in = "step" /\ call.nodes = Node.children /\ call.step = Len(made) + 1
          /\ call.previous = 0
      BY <1>3, <3>1, NodesAssumption DEF Call, Calls
    <3>3. stack' = <<call>> \o Rest /\ place' = place /\ made' = Append(made, Node) BY <2>2 DEF MakeStep, Registry
    <3> HIDE DEF call
    <3>4. Walk(<<call>> \o Rest, Append(made, Node), steps) BY <1>1, <1>3, <3>2, WalkStep
    <3> QED BY <1>1, <1>3, <3>2, <3>3, <3>4, Pushed
  <2>3. CASE Node.key # "comment" /\ Node.key \notin Registry BY <1>3, <2>3 DEF MakeStep, Ends
  <2> QED BY <2>1, <2>2, <2>3
<1>6. WalkInv' BY <1>4, <1>5 DEF WalkInv, Unchanged
<1> QED BY <1>1, <1>3, <1>4, <1>5, <1>6, MadeOnly DEF ConstructionInv

\* A parameter of a step is read.
LEMMA ConfigureParameterStep == ConstructionInv /\ ConfigureParameter => ConstructionInv'
<1> SUFFICES ASSUME ConstructionInv, ConfigureParameter PROVE ConstructionInv' OBVIOUS
<1>1. TypesInv /\ Walk(stack, made, steps) /\ place = "construct" /\ Top.in = "step" /\ Top.nodes # <<>>
      /\ made \in Seq(Nodes)
  BY DEF ConstructionInv, WalkInv, ConfigureParameter, Reading, TypesInv
<1>2. stack # <<>> BY <1>1 DEF Walk
<1>3. /\ Rest \in Seq(Calls) /\ Rest[1].in = "step" /\ Rest[1].step = Top.step /\ stack \in Seq(Calls)
      /\ Node \in Nodes /\ Top = stack[1] /\ Top \in Calls /\ Node = Top.nodes[1] /\ 1 \in DOMAIN stack
  BY <1>1, <1>2, RestFacts DEF TypesInv
<1>4. Configuring(stack, made, 1) BY <1>1, <1>3 DEF Walk
<1>5. made' = made /\ Unchanged BY DEF ConfigureParameter, Ends
<1>6. /\ stack' \in Seq(Calls) /\ place' \in {"construct", "rejected"}
      /\ place' = "construct" => Walk(stack', made, steps)
  <2>1. CASE Node.key = "destination"
    <3> DEFINE call == Call("pipe", Node.children, 0, Top.step)
    <3>1. Top.step \in Nat /\ Top.step \in DOMAIN made BY <1>3, <1>4 DEF Calls, Configuring
    <3>2. call \in Calls /\ call.in = "pipe" /\ call.previous = Top.step
      BY <1>3, <3>1, NodesAssumption DEF Call, Calls
    <3>3. stack' = <<call>> \o Rest /\ place' = place BY <2>1 DEF ConfigureParameter
    <3> HIDE DEF call
    <3>4. call.previous <= Len(made) BY <1>1, <3>1, <3>2, LenProperties
    <3>5. Walk(Rest, made, steps) BY <1>1, <2>1, WalkRest DEF Accepts
    <3>6. Has(made[Top.step], "destination")
      <4> DEFINE all == made[Top.step].children
      <4>1. made[Top.step] \in Nodes BY <1>1, <3>1, ElementOfSeq, LenProperties
      <4>2. all \in Seq(Nodes) /\ Top.nodes \in Seq(Nodes) BY <1>3, <4>1, NodesAssumption DEF Calls
      <4>3. IsRest(Top.nodes, all) BY <1>3, <1>4 DEF Configuring
      <4> HIDE DEF all
      <4>4. Len(all) \in Nat /\ DOMAIN all = 1 .. Len(all) /\ Len(Top.nodes) \in Nat /\ Len(Top.nodes) > 0
        BY <1>1, <4>2, LenProperties, EmptySeq
      <4>5. 1 \in 1 .. Len(Top.nodes) BY <4>4
      <4>6. Top.nodes[1] = all[Len(all) - Len(Top.nodes) + 1] BY <4>3, <4>5 DEF IsRest
      <4>7. Len(all) - Len(Top.nodes) + 1 \in DOMAIN all BY <4>3, <4>4 DEF IsRest
      <4>8. all[Len(all) - Len(Top.nodes) + 1].key = "destination" BY <1>3, <2>1, <4>6
      <4> QED BY <4>7, <4>8 DEF Has, all
    <3>7. Walk(<<call>> \o Rest, made, steps) BY <1>1, <1>3, <3>2, <3>4, <3>5, <3>6, WalkPipe
    <3> QED BY <1>1, <1>3, <3>2, <3>3, <3>7, Pushed
  <2>2. CASE Node.key # "destination" /\ Reads(made[Top.step].key, Node)
    <3>1. Walk(Rest, made, steps) BY <1>1, <2>2, WalkRest DEF Accepts
    <3> QED BY <1>1, <1>3, <2>2, <3>1 DEF ConfigureParameter
  <2>3. CASE Node.key # "destination" /\ ~Reads(made[Top.step].key, Node)
    BY <1>3, <2>3 DEF ConfigureParameter, Ends
  <2> QED BY <2>1, <2>2, <2>3
<1>7. WalkInv' BY <1>5, <1>6 DEF WalkInv, Unchanged
<1> QED BY <1>1, <1>5, <1>6, <1>7, MadeOnly DEF ConstructionInv

\* A configuration is rejected because of a step without a name.
LEMMA NoNameStep == ConstructionInv /\ NoName => ConstructionInv'
<1> SUFFICES ASSUME ConstructionInv, NoName PROVE ConstructionInv' OBVIOUS
<1>1. place = "construct" /\ place' = "rejected" /\ stack' = stack /\ made' = made /\ Unchanged
  BY DEF NoName, ReadAll, Ends
<1>2. stack' \in Seq(Calls) BY <1>1 DEF ConstructionInv, TypesInv
<1>3. WalkInv' BY <1>1 DEF WalkInv
<1> QED BY <1>1, <1>2, <1>3, MadeOnly DEF ConstructionInv

\* A pipe has been read.
LEMMA PipeEndsStep == ConstructionInv /\ PipeEnds => ConstructionInv'
<1> SUFFICES ASSUME ConstructionInv, PipeEnds PROVE ConstructionInv' OBVIOUS
<1>1. TypesInv /\ Walk(stack, made, steps) /\ place = "construct" /\ Top.in = "pipe" /\ made \in Seq(Nodes)
      /\ stack \in Seq(Calls)
  BY DEF ConstructionInv, WalkInv, PipeEnds, ReadAll, TypesInv
<1>2. stack[1].in = "pipe" BY <1>1 DEF Top
<1>3. Tail(stack) \in Seq(Calls) /\ Walk(Tail(stack), made, steps) BY <1>1, <1>2, WalkEnd
<1>4. stack' = Tail(stack) /\ made' = made /\ place' = place /\ Unchanged BY DEF PipeEnds
<1>5. WalkInv' BY <1>3, <1>4 DEF WalkInv, Unchanged
<1> QED BY <1>1, <1>3, <1>4, <1>5, MadeOnly DEF ConstructionInv

\* A step has been configured.
LEMMA AddStepStep == ConstructionInv /\ AddStep => ConstructionInv'
<1> SUFFICES ASSUME ConstructionInv, AddStep PROVE ConstructionInv' OBVIOUS
<1> DEFINE step == Top.step
           pipe == stack[2]
           call == [pipe EXCEPT !.previous = step]
           total == Len(steps)
<1>1. TypesInv /\ Walk(stack, made, steps) /\ AddedInv /\ SumsInv /\ ResourcesInv
  BY DEF ConstructionInv, WalkInv, AddStep, ReadAll
<1>2. /\ place = "construct" /\ place' = "construct" /\ Top.in = "step" /\ Top.nodes = <<>>
      /\ AddQueue(step) /\ Request(made[step]) /\ steps' = Append(steps, step)
      /\ destinations' = Attached(step, pipe.previous)
      /\ stack' = <<call>> \o Tail(Tail(stack))
      /\ UNCHANGED <<made, pool, service, connection, next, started>>
  BY DEF AddStep, ReadAll, resources
<1>3. /\ stack \in Seq(Calls) /\ made \in Seq(Nodes) /\ steps \in Seq(Nat)
      /\ DOMAIN stack = 1 .. Len(stack) /\ Len(stack) \in Nat /\ Len(stack) > 0 /\ Top = stack[1]
      /\ DOMAIN made = 1 .. Len(made) /\ Len(made) \in Nat
      /\ DOMAIN steps = 1 .. total /\ total \in Nat
  <2>1. stack \in Seq(Calls) /\ made \in Seq(Nodes) /\ steps \in Seq(Nat) /\ stack # <<>>
    BY <1>1 DEF TypesInv, Walk
  <2> QED BY <2>1, LenProperties, EmptySeq DEF Top
<1>4. Configuring(stack, made, 1) BY <1>1, <1>2, <1>3 DEF Walk
<1>5. step \in DOMAIN made /\ step \in Nat /\ 2 \in DOMAIN stack /\ pipe.in = "pipe" BY <1>3, <1>4 DEF Configuring
<1>6. made[step] \in Nodes BY <1>3, <1>5, ElementOfSeq
<1>7. pipe \in Calls /\ call \in Calls /\ call.in = "pipe" /\ call.previous = step
  <2>1. pipe \in Calls BY <1>3, <1>5, ElementOfSeq
  <2> QED BY <1>5, <2>1 DEF Calls
<1>8. pipe.previous < step
  <2>1. 1 \in DOMAIN stack /\ 1 < 2 /\ stack[1].in = "step" BY <1>2, <1>3
  <2>2. stack[2].previous < stack[1].step BY <1>1, <1>5, <2>1 DEF Walk
  <2> QED BY <1>3, <2>2
<1>9. \A i \in DOMAIN made[step].children : Accepts(made[step].key, made[step].children[i])
  <2>1. \A j \in 1 .. Len(made[step].children) - Len(Top.nodes) : Accepts(made[step].key, made[step].children[j])
    BY <1>3, <1>4 DEF Configuring
  <2>2. made[step].children \in Seq(Nodes) BY <1>6, NodesAssumption
  <2>3. /\ Len(Top.nodes) = 0 /\ Len(made[step].children) \in Nat
        /\ DOMAIN made[step].children = 1 .. Len(made[step].children)
    BY <1>2, <2>2, LenProperties
  <2> QED BY <2>1, <2>3
<1>10. /\ MessagesRequested(made[step]) \in Nat
       /\ SizeRequested(made[step]) \in Nat /\ SizeOf(made[step].key) \in Nat
       /\ SizeOf(made[step].key) <= SizeRequested(made[step])
       /\ TenthsRequested(made[step]) \in Nat
       /\ made[step].key \in AsioSteps => TenthsRequested(made[step]) > 0
  BY <1>6, <1>9, RequestFacts
<1>11. Len(made) > step => Has(made[step], "destination") BY <1>3, <1>4 DEF Configuring
<1>12. Walk(stack', made, steps')
  <2>1. stack[1].in = "step" /\ call.previous = stack[1].step BY <1>2, <1>3, <1>7
  <2> HIDE DEF call
  <2> QED BY <1>1, <1>2, <1>3, <1>7, <2>1, WalkAdd
<1>13. stack' \in Seq(Calls)
  <2>1. Tail(stack) \in Seq(Calls) /\ Len(Tail(stack)) = Len(stack) - 1 BY <1>3, HeadTailProperties
  <2>2. Len(Tail(stack)) # 0
    <3>1. Len(stack) >= 2 BY <1>3, <1>5
    <3> QED BY <1>3, <2>1, <3>1
  <2>3. Tail(stack) # <<>>
    <3> SUFFICES ASSUME Tail(stack) = <<>> PROVE FALSE OBVIOUS
    <3>1. Len(<<>>) = 0 OBVIOUS
    <3> QED BY <2>2, <3>1, Zenon
  <2>4. Tail(Tail(stack)) \in Seq(Calls) BY <2>1, <2>3, HeadTailProperties
  <2> HIDE DEF call
  <2> QED BY <1>2, <1>7, <2>4, Pushed
<1>14. /\ steps' \in Seq(Nat) /\ Len(steps') = total + 1 /\ DOMAIN steps' = 1 .. total + 1
       /\ \A i \in 1 .. total : steps'[i] = steps[i]
       /\ steps'[total + 1] = step
  BY <1>2, <1>3, <1>5, AppendProperties, LenProperties
<1> HIDE DEF call, pipe, step, total
<1>15. ToSet(steps') = ToSet(steps) \cup {step}
  <2>1. \A i \in DOMAIN steps' : i \in DOMAIN steps \/ i = total + 1 BY <1>3, <1>14
  <2>2. DOMAIN steps \subseteq DOMAIN steps' /\ total + 1 \in DOMAIN steps' BY <1>3, <1>14
  <2>3. \A i \in DOMAIN steps : steps'[i] = steps[i] BY <1>3, <1>14
  <2>4. steps'[total + 1] = step BY <1>14
  <2> QED BY <2>1, <2>2, <2>3, <2>4 DEF ToSet
<1>16. /\ DOMAIN destinations' = DOMAIN made
       /\ \A s \in DOMAIN made : destinations'[s] =
            (IF s \in DOMAIN destinations THEN destinations[s] ELSE <<>>)
                \o (IF s = pipe.previous THEN <<step>> ELSE <<>>)
  BY <1>2 DEF Attached
<1>17. \A s \in DOMAIN made :
          /\ destinations'[s] \in Seq(Nat)
          /\ \A d \in ToSet(destinations'[s]) : d > s /\ d \in DOMAIN made
  <2> SUFFICES ASSUME NEW s \in DOMAIN made
               PROVE  /\ destinations'[s] \in Seq(Nat)
                      /\ \A d \in ToSet(destinations'[s]) : d > s /\ d \in DOMAIN made
    OBVIOUS
  <2> DEFINE old == IF s \in DOMAIN destinations THEN destinations[s] ELSE <<>>
             more == IF s = pipe.previous THEN <<step>> ELSE <<>>
  <2>1. old \in Seq(Nat) BY <1>1 DEF TypesInv
  <2>2. more \in Seq(Nat) BY <1>5
  <2>3. \A i \in DOMAIN old : old[i] > s /\ old[i] \in DOMAIN made BY <1>1 DEF AddedInv, ToSet
  <2>4. \A i \in DOMAIN more : more[i] > s /\ more[i] \in DOMAIN made
    <3>1. CASE s = pipe.previous
      <4>1. DOMAIN more = {1} /\ more[1] = step BY <3>1
      <4>2. s \in Nat BY <1>3
      <4> QED BY <1>3, <1>5, <1>8, <3>1, <4>1, <4>2
    <3>2. CASE s # pipe.previous BY <3>2
    <3> QED BY <3>1, <3>2
  <2>5. destinations'[s] = old \o more BY <1>16
  <2> HIDE DEF old, more
  <2>6. /\ Len(old) \in Nat /\ Len(more) \in Nat /\ DOMAIN old = 1 .. Len(old) /\ DOMAIN more = 1 .. Len(more)
        /\ old \o more \in Seq(Nat) /\ DOMAIN (old \o more) = 1 .. Len(old) + Len(more)
        /\ \A i \in 1 .. Len(old) + Len(more) : (old \o more)[i] = IF i <= Len(old) THEN old[i] ELSE more[i - Len(old)]
    BY <2>1, <2>2, LenProperties, ConcatProperties
  <2>7. \A i \in DOMAIN (old \o more) : (old \o more)[i] > s /\ (old \o more)[i] \in DOMAIN made
    BY <2>3, <2>4, <2>6
  <2> QED BY <2>5, <2>6, <2>7 DEF ToSet
<1>18. /\ needed' = needed + MessagesRequested(made[step])
       /\ largest' \in Nat /\ largest' >= largest /\ largest' >= SizeRequested(made[step])
       /\ tenths' = tenths + TenthsRequested(made[step])
       /\ needed \in Nat /\ tenths \in Nat /\ largest \in Nat
  <2>1. largest \in Nat /\ largest' = Larger(largest, SizeRequested(made[step])) BY <1>1, <1>2 DEF TypesInv, Request
  <2>2. largest' \in Nat /\ largest' >= largest /\ largest' >= SizeRequested(made[step]) BY <1>10, <2>1 DEF Larger
  <2> QED BY <1>1, <1>2, <2>2 DEF TypesInv, Request
<1>19. TypesInv'
  <2>1. destinations' \in [DOMAIN destinations' -> Seq(Nat)]
    <3>1. destinations' = [s \in DOMAIN made |-> destinations'[s]] BY <1>2 DEF Attached
    <3>2. [s \in DOMAIN made |-> destinations'[s]] \in [DOMAIN made -> Seq(Nat)] BY <1>17
    <3> QED BY <1>16, <3>1, <3>2
  <2>2. \A i \in DOMAIN steps' : steps'[i] \in DOMAIN made' /\ steps'[i] \in DOMAIN destinations'
    <3> SUFFICES ASSUME NEW i \in 1 .. total + 1 PROVE steps'[i] \in DOMAIN made
      BY <1>2, <1>14, <1>16
    <3>1. CASE i = total + 1 BY <1>5, <1>14, <3>1 DEF step
    <3>2. CASE i # total + 1
      <4>1. i \in DOMAIN steps /\ steps'[i] = steps[i] BY <1>3, <1>14, <3>2
      <4> QED BY <1>1, <4>1 DEF TypesInv
    <3> QED BY <3>1, <3>2
  <2>3. needed' \in Nat /\ largest' \in Nat /\ tenths' \in Nat BY <1>10, <1>18
  <2> QED BY <1>1, <1>2, <1>13, <1>14, <2>1, <2>2, <2>3 DEF TypesInv
<1>20. WalkInv' BY <1>2, <1>12 DEF WalkInv
<1>21. AddedInv'
  <2>1. \A i, j \in DOMAIN steps' : i < j /\ steps'[j] < steps'[i] => Has(made[steps'[j]], "destination")
    <3> SUFFICES ASSUME NEW i \in DOMAIN steps', NEW j \in DOMAIN steps', i < j, steps'[j] < steps'[i]
                 PROVE  Has(made[steps'[j]], "destination")
      OBVIOUS
    <3>1. i \in DOMAIN steps /\ steps'[i] = steps[i] BY <1>3, <1>14
    <3>2. CASE j = total + 1
      <4>1. steps[i] \in DOMAIN made BY <1>1, <3>1 DEF TypesInv
      <4>2. Len(made) > step BY <1>3, <1>5, <1>14, <3>1, <3>2, <4>1
      <4> QED BY <1>11, <1>14, <3>2, <4>2 DEF step
    <3>3. CASE j # total + 1
      <4>1. j \in DOMAIN steps /\ steps'[j] = steps[j] BY <1>3, <1>14, <3>3
      <4> QED BY <1>1, <3>1, <4>1 DEF AddedInv
    <3> QED BY <3>2, <3>3
  <2>2. \A s \in ToSet(steps') :
          /\ \A i \in DOMAIN made[s].children : Accepts(made[s].key, made[s].children[i])
          /\ SizeOf(made[s].key) <= largest'
          /\ made[s].key \in AsioSteps => tenths' > 0
    <3> SUFFICES ASSUME NEW s \in ToSet(steps')
                 PROVE  /\ \A i \in DOMAIN made[s].children : Accepts(made[s].key, made[s].children[i])
                        /\ SizeOf(made[s].key) <= largest'
                        /\ made[s].key \in AsioSteps => tenths' > 0
      OBVIOUS
    <3>1. CASE s = step BY <1>9, <1>10, <1>18, <3>1
    <3>2. CASE s \in ToSet(steps)
      <4>1. /\ \A i \in DOMAIN made[s].children : Accepts(made[s].key, made[s].children[i])
            /\ SizeOf(made[s].key) <= largest
            /\ made[s].key \in AsioSteps => tenths > 0
        BY <1>1, <3>2 DEF AddedInv
      <4>2. SizeOf(made[s].key) \in Nat BY DEF SizeOf
      <4> QED BY <1>10, <1>18, <4>1, <4>2
    <3> QED BY <1>15, <3>1, <3>2
  <2>3. \A name \in DOMAIN queues' :
          /\ queues'[name] \in ToSet(steps') /\ made[queues'[name]].key = "input_queue"
          /\ Given(made[queues'[name]], "name") = name
    <3> DEFINE new == Given(made[step], "name")
    <3>1. CASE made[step].key = "input_queue"
      <4>1. queues' = [n \in DOMAIN queues \cup {new} |-> IF n = new THEN step ELSE queues[n]]
        BY <1>2, <3>1 DEF AddQueue, step
      <4> HIDE DEF new
      <4>2. \A name \in DOMAIN queues' : IF name = new THEN queues'[name] = step
                                         ELSE name \in DOMAIN queues /\ queues'[name] = queues[name]
        BY <4>1
      <4>3. Given(made[step], "name") = new BY DEF new
      <4> QED BY <1>1, <1>15, <3>1, <4>2, <4>3 DEF AddedInv
    <3>2. CASE made[step].key # "input_queue"
      <4>1. queues' = queues BY <1>2, <3>2 DEF AddQueue, step
      <4> QED BY <1>1, <1>15, <4>1 DEF AddedInv
    <3> QED BY <3>1, <3>2
  <2>4. made' = made BY <1>2
  <2> QED BY <1>16, <1>17, <2>1, <2>2, <2>3, <2>4 DEF AddedInv
<1>22. SumsInv'
  <2>1. PICK sum : IsSum(sum) /\ sum[total] = needed BY <1>1 DEF SumsInv, total
  <2>9. PICK more : more = [i \in 0 .. total + 1 |-> IF i <= total THEN sum[i] ELSE needed'] OBVIOUS
  <2>2. /\ sum \in [0 .. total -> Nat] /\ sum[0] = 0
        /\ \A i \in 1 .. total : sum[i] = sum[i - 1] + MessagesRequested(made[steps[i]])
        /\ \A i \in 0 .. total : sum[i] <= needed
    BY <2>1 DEF IsSum, total
  <2>3. needed' \in Nat /\ needed <= needed' BY <1>10, <1>18
  <2>4. /\ more \in [0 .. total + 1 -> Nat] /\ more[0] = 0 /\ more[total + 1] = needed'
        /\ \A i \in 0 .. total : more[i] = sum[i]
    BY <1>3, <2>2, <2>3, <2>9
  <2>5. \A i \in 1 .. total + 1 : more[i] = more[i - 1] + MessagesRequested(made[steps'[i]])
    <3> SUFFICES ASSUME NEW i \in 1 .. total + 1
                 PROVE  more[i] = more[i - 1] + MessagesRequested(made[steps'[i]])
      OBVIOUS
    <3>1. i - 1 \in 0 .. total /\ more[i - 1] = sum[i - 1] BY <1>3, <2>4
    <3>2. CASE i = total + 1
      <4>1. more[i - 1] = needed BY <1>3, <2>1, <3>1, <3>2
      <4> QED BY <1>14, <1>18, <2>4, <3>2, <4>1
    <3>3. CASE i # total + 1
      <4>1. i \in 1 .. total /\ i \in 0 .. total BY <1>3, <3>3
      <4>2. more[i] = sum[i] BY <2>4, <4>1
      <4>3. steps'[i] = steps[i] BY <1>14, <4>1
      <4>4. sum[i] = sum[i - 1] + MessagesRequested(made[steps[i]]) BY <2>2, <4>1
      <4> QED BY <3>1, <4>2, <4>3, <4>4
    <3> QED BY <3>2, <3>3
  <2>6. \A i \in 0 .. total + 1 : more[i] <= more[total + 1]
    <3> SUFFICES ASSUME NEW i \in 0 .. total + 1 PROVE more[i] <= needed' BY <2>4
    <3>1. CASE i = total + 1 BY <2>3, <2>4, <3>1
    <3>2. CASE i # total + 1
      <4>1. i \in 0 .. total BY <1>3, <3>2
      <4>2. more[i] = sum[i] /\ sum[i] <= needed /\ sum[i] \in Nat BY <2>2, <2>4, <4>1
      <4> QED BY <1>18, <2>3, <4>2
    <3> QED BY <3>1, <3>2
  <2>7. IsSum(more)' /\ more[Len(steps')] = needed' BY <1>2, <1>14, <2>4, <2>5, <2>6 DEF IsSum
  <2> QED BY <1>2, <2>7 DEF SumsInv
<1>23. ResourcesInv' BY <1>1, <1>2 DEF ResourcesInv
<1> QED BY <1>19, <1>20, <1>21, <1>22, <1>23 DEF ConstructionInv

\* What has been described does not change when the walk is over.
LEMMA DescriptionStays ==
    ASSUME ConstructionInv, place' # "construct",
           UNCHANGED <<stack, made, steps, destinations, queues, needed, largest, tenths>>
    PROVE  /\ WalkInv' /\ AddedInv'
           /\ \A sum : IsSum(sum) => IsSum(sum)'
           /\ pool' \in Nat /\ next' \in Nat /\ place' \in {"threw", "attach", "validate", "start", "live"} => TypesInv'
           /\ steps \in Seq(Nat) /\ DOMAIN steps = 1 .. Len(steps) /\ Len(steps) \in Nat
<1>1. WalkInv' BY DEF WalkInv
<1>2. AddedInv' BY DEF ConstructionInv, AddedInv
<1>3. \A sum : IsSum(sum) => IsSum(sum)' BY DEF IsSum
<1>4. ASSUME pool' \in Nat, next' \in Nat, place' \in {"threw", "attach", "validate", "start", "live"}
      PROVE  TypesInv'
  BY <1>4 DEF ConstructionInv, TypesInv
<1>5. steps \in Seq(Nat) /\ DOMAIN steps = 1 .. Len(steps) /\ Len(steps) \in Nat
  BY LenProperties DEF ConstructionInv, TypesInv
<1> QED BY <1>1, <1>2, <1>3, <1>4, <1>5

\* Once the whole configuration has been read every step has been added.
LEMMA CreateResourcesStep == ConstructionInv /\ CreateResources => ConstructionInv'
<1> SUFFICES ASSUME ConstructionInv, CreateResources PROVE ConstructionInv' OBVIOUS
<1>1. /\ place = "construct" /\ Top.in = "root"
      /\ UNCHANGED <<stack, made, steps, destinations, queues, needed, largest, tenths, started>>
      /\ connection' = [s \in DOMAIN made |-> 0]
      /\ \/ place' = "threw" /\ pool' = pool /\ next' = next
         \/ pool' = needed /\ service' = (tenths > 0) /\ place' = "attach" /\ next' = 1
  BY DEF CreateResources, ReadAll, requests
<1>2. TypesInv /\ Walk(stack, made, steps) /\ SumsInv /\ ResourcesInv BY <1>1 DEF ConstructionInv, WalkInv
<1>3. place' \in {"threw", "attach"} /\ place' # "construct" BY <1>1
<1>4. /\ WalkInv' /\ AddedInv' /\ \A sum : IsSum(sum) => IsSum(sum)'
      /\ DOMAIN steps = 1 .. Len(steps) /\ Len(steps) \in Nat
  BY <1>1, <1>3, DescriptionStays
<1>5. TypesInv' BY <1>1, <1>2, <1>3, DescriptionStays DEF TypesInv
<1>6. DOMAIN made \subseteq ToSet(steps)
  <2>1. stack \in Seq(Calls) /\ stack # <<>> BY <1>2 DEF TypesInv, Walk
  <2>2. DOMAIN stack = 1 .. Len(stack) /\ Len(stack) \in Nat \ {0} BY <2>1, LenProperties, EmptySeq
  <2>3. stack[1].in = "root" /\ 1 \in DOMAIN stack BY <1>1, <2>2 DEF Top
  <2>4. Len(stack) = 1 BY <1>2, <2>3 DEF Walk
  <2>5. \A i \in DOMAIN stack : stack[i].in # "step"
    <3>1. \A i \in DOMAIN stack : i = 1 BY <2>2, <2>4
    <3> QED BY <2>3, <3>1
  <2> QED BY <1>2, <2>5 DEF Walk
<1>7. SumsInv'
  <2>1. PICK sum : IsSum(sum) /\ sum[Len(steps)] = needed BY <1>2 DEF SumsInv
  <2>2. IsSum(sum)' /\ sum[0] = 0 BY <1>4, <2>1 DEF IsSum
  <2>3. needed \in Nat BY <1>2 DEF TypesInv
  <2>4. place' = "attach" => next' - 1 = 0 /\ pool' = needed' /\ needed' = needed /\ needed' - sum[0] = needed'
    BY <1>1, <2>2, <2>3
  <2>5. place' = "attach" => next' - 1 \in 0 .. Len(steps') /\ pool' = needed' - sum[next' - 1]
    BY <1>1, <1>4, <2>4
  <2>6. sum[Len(steps')] = needed' BY <1>1, <2>1
  <2> QED BY <1>3, <2>2, <2>5, <2>6 DEF SumsInv
<1>8. ResourcesInv'
  <2>1. started' = {} BY <1>1, <1>2 DEF ResourcesInv
  <2>2. DOMAIN made' \subseteq ToSet(steps') /\ DOMAIN connection' = DOMAIN made' BY <1>1, <1>6
  <2>3. place' = "attach" => \A i \in DOMAIN steps' : ~(i < next') BY <1>1, <1>4
  <2>4. place' = "attach" => service' = (tenths' > 0) BY <1>1
  <2> QED BY <1>3, <2>1, <2>2, <2>3, <2>4 DEF ResourcesInv
<1> QED BY <1>4, <1>5, <1>7, <1>8 DEF ConstructionInv

\* A step takes its share: the pool has at least what it has asked for.
LEMMA AttachResourcesStep == ConstructionInv /\ AttachResources => ConstructionInv'
<1> SUFFICES ASSUME ConstructionInv, AttachResources PROVE ConstructionInv' OBVIOUS
<1>1. /\ place = "attach" /\ next \in DOMAIN steps
      /\ UNCHANGED <<stack, made, steps, destinations, queues, needed, largest, tenths, started, service>>
  BY DEF AttachResources, InTurn, requests
<1>2. TypesInv /\ AddedInv /\ SumsInv /\ ResourcesInv BY DEF ConstructionInv
<1>3. steps \in Seq(Nat) /\ DOMAIN steps = 1 .. Len(steps) /\ Len(steps) \in Nat /\ next \in Nat /\ pool \in Nat
  BY <1>2, LenProperties DEF TypesInv
<1>4. Step \in DOMAIN made /\ Step \in ToSet(steps) /\ StepNode = made[Step] /\ StepNode \in Nodes
  <2>1. Step \in DOMAIN made /\ Step \in ToSet(steps) BY <1>1, <1>2 DEF Step, TypesInv, ToSet
  <2> QED BY <1>2, <2>1, ElementOfSeq, LenProperties DEF StepNode, TypesInv
<1>5. MessagesRequested(StepNode) \in Nat /\ MessagesTaken(StepNode) = MessagesRequested(StepNode)
  BY <1>2, <1>4, RequestFacts DEF AddedInv
<1>6. PICK sum : /\ IsSum(sum) /\ sum[Len(steps)] = needed
                 /\ next - 1 \in 0 .. Len(steps) /\ pool = needed - sum[next - 1]
  BY <1>1, <1>2 DEF SumsInv
<1>7. /\ sum[next] \in Nat /\ sum[next - 1] \in Nat /\ sum[next] <= needed /\ needed \in Nat
      /\ sum[next] = sum[next - 1] + MessagesRequested(StepNode)
  <2>1. next \in 1 .. Len(steps) /\ next \in 0 .. Len(steps) BY <1>1, <1>3
  <2>2. needed \in Nat BY <1>2 DEF TypesInv
  <2> QED BY <1>6, <2>1, <2>2 DEF IsSum, StepNode, Step
<1>8. /\ pool' = needed - sum[next] /\ pool' \in Nat /\ next' = next + 1 /\ place' = place
      /\ connection' = [connection EXCEPT ![Step] =
            IF StepNode.key = "send_to_queue" THEN FindQueue(Given(StepNode, "queue")) ELSE 0]
  <2>1. ~(MessagesTaken(StepNode) > pool) BY <1>5, <1>6, <1>7
  <2>2. /\ pool' = pool - MessagesTaken(StepNode) /\ next' = next + 1 /\ place' = place
        /\ connection' = [connection EXCEPT ![Step] =
            IF StepNode.key = "send_to_queue" THEN FindQueue(Given(StepNode, "queue")) ELSE 0]
    BY <2>1 DEF AttachResources
  <2> QED BY <1>5, <1>6, <1>7, <2>2
<1>9. place' # "construct" /\ place' = "attach" BY <1>1, <1>8
<1>10. WalkInv' /\ AddedInv' /\ IsSum(sum)' BY <1>1, <1>6, <1>9, DescriptionStays
<1>11. TypesInv'
  <2>1. next' \in Nat BY <1>3, <1>8
  <2> QED BY <1>1, <1>8, <1>9, <2>1, DescriptionStays
<1>12. SumsInv'
  <2>1. next' - 1 = next BY <1>3, <1>8
  <2>2. next' - 1 \in 0 .. Len(steps') /\ pool' = needed' - sum[next' - 1] /\ sum[Len(steps')] = needed'
    BY <1>1, <1>3, <1>6, <1>8, <2>1
  <2> QED BY <1>9, <1>10, <2>2 DEF SumsInv
<1>13. ResourcesInv'
  <2>1. DOMAIN connection = DOMAIN made /\ \A i \in DOMAIN steps : i < next => Searched(steps[i])
    BY <1>1, <1>2 DEF ResourcesInv
  <2>2. /\ DOMAIN connection' = DOMAIN made
        /\ \A s \in DOMAIN made \ {Step} : connection'[s] = connection[s]
        /\ made[Step].key = "send_to_queue" => connection'[Step] = FindQueue(Given(made[Step], "queue"))
    BY <1>4, <1>8, <2>1
  <2>3. \A i \in DOMAIN steps : i < next' => Searched(steps[i])'
    <3> SUFFICES ASSUME NEW i \in DOMAIN steps, i < next',
                        made[steps[i]].key = "send_to_queue"
                 PROVE  connection'[steps[i]] = FindQueue(Given(made[steps[i]], "queue"))
      BY <1>1 DEF Searched, FindQueue
    <3>1. CASE steps[i] = Step BY <2>2, <3>1
    <3>2. CASE steps[i] # Step
      <4>1. i < next BY <1>3, <1>8, <3>2 DEF Step
      <4>2. steps[i] \in DOMAIN made BY <1>2 DEF TypesInv
      <4> QED BY <2>1, <2>2, <3>2, <4>1, <4>2 DEF Searched
    <3> QED BY <3>1, <3>2
  <2>4. DOMAIN made \subseteq ToSet(steps) /\ service = (tenths > 0) /\ started = {}
    BY <1>1, <1>2 DEF ResourcesInv
  <2> QED BY <1>1, <1>9, <2>2, <2>3, <2>4 DEF ResourcesInv
<1> QED BY <1>10, <1>11, <1>12, <1>13 DEF ConstructionInv

\* All steps have taken their share: nothing is left.
LEMMA AllAttachedStep == ConstructionInv /\ AllAttached => ConstructionInv'
<1> SUFFICES ASSUME ConstructionInv, AllAttached PROVE ConstructionInv' OBVIOUS
<1>1. /\ place = "attach" /\ next > Len(steps) /\ place' = "validate" /\ next' = 1
      /\ UNCHANGED <<stack, made, steps, destinations, queues, needed, largest, tenths, started, service, pool, connection>>
  BY DEF AllAttached, OnlyPlace, requests
<1>2. TypesInv /\ SumsInv /\ ResourcesInv BY DEF ConstructionInv
<1>3. PICK sum : /\ IsSum(sum) /\ sum[Len(steps)] = needed
                 /\ next - 1 \in 0 .. Len(steps) /\ pool = needed - sum[next - 1]
  BY <1>1, <1>2 DEF SumsInv
<1>4. DOMAIN steps = 1 .. Len(steps) /\ Len(steps) \in Nat BY <1>1, DescriptionStays
<1>5. pool = 0
  <2>1. next - 1 = Len(steps) BY <1>1, <1>2, <1>3, <1>4 DEF TypesInv
  <2>2. needed \in Nat /\ pool = needed - needed BY <1>2, <1>3, <2>1 DEF TypesInv
  <2> QED BY <2>2
<1>6. WalkInv' /\ AddedInv' /\ TypesInv' /\ IsSum(sum)' BY <1>1, <1>2, <1>3, DescriptionStays DEF TypesInv
<1>7. SumsInv' BY <1>1, <1>3, <1>5, <1>6 DEF SumsInv
<1>8. ResourcesInv'
  <2>1. \A i \in DOMAIN steps : i < next BY <1>1, <1>2, <1>4 DEF TypesInv
  <2>2. \A i \in DOMAIN steps : Searched(steps[i]) BY <1>1, <1>2, <2>1 DEF ResourcesInv
  <2>3. \A i \in DOMAIN steps' : Searched(steps[i])' BY <1>1, <2>2 DEF Searched, FindQueue
  <2>4. \A i \in DOMAIN steps' : ~(i < next') BY <1>1, <1>4
  <2>5. /\ DOMAIN made' \subseteq ToSet(steps') /\ DOMAIN connection' = DOMAIN made'
        /\ service' = (tenths' > 0) /\ started' = {}
    BY <1>1, <1>2 DEF ResourcesInv
  <2> QED BY <1>1, <2>3, <2>4, <2>5 DEF ResourcesInv
<1> QED BY <1>6, <1>7, <1>8 DEF ConstructionInv

\* A step is checked: a send_to_queue without a queue throws.
LEMMA ValidateStep == ConstructionInv /\ Validate => ConstructionInv'
<1> SUFFICES ASSUME ConstructionInv, Validate PROVE ConstructionInv' OBVIOUS
<1>1. /\ place = "validate" /\ next \in DOMAIN steps
      /\ UNCHANGED <<stack, made, steps, destinations, queues, needed, largest, tenths, started, service, pool, connection>>
      /\ \/ /\ Valid(StepNode, HasDestination(Step), connection[Step] # 0)
            /\ next' = next + 1 /\ place' = place
         \/ place' = "threw" /\ next' = next
  BY DEF Validate, InTurn, OnlyPlace, requests
<1>2. TypesInv /\ SumsInv /\ ResourcesInv BY DEF ConstructionInv
<1>3. DOMAIN steps = 1 .. Len(steps) /\ Len(steps) \in Nat BY <1>1, DescriptionStays
<1>4. next \in Nat /\ next' \in Nat /\ pool' \in Nat BY <1>1, <1>2 DEF TypesInv
<1>5. PICK sum : IsSum(sum) /\ sum[Len(steps)] = needed /\ pool = 0 BY <1>1, <1>2 DEF SumsInv
<1>6. WalkInv' /\ AddedInv' /\ TypesInv' /\ IsSum(sum)' BY <1>1, <1>4, <1>5, DescriptionStays
<1>7. SumsInv' BY <1>1, <1>5, <1>6 DEF SumsInv
<1>8. ResourcesInv'
  <2>1. /\ DOMAIN made \subseteq ToSet(steps) /\ DOMAIN connection = DOMAIN made
        /\ service = (tenths > 0) /\ started = {}
        /\ \A i \in DOMAIN steps : Searched(steps[i])
        /\ \A i \in DOMAIN steps : i < next => Found(steps[i])
    BY <1>1, <1>2 DEF ResourcesInv
  <2>2. \A i \in DOMAIN steps' : Searched(steps[i])' BY <1>1, <2>1 DEF Searched, FindQueue
  <2>3. place' = "validate" => \A i \in DOMAIN steps' : i < next' => Found(steps[i])'
    <3> SUFFICES ASSUME place' = "validate", NEW i \in DOMAIN steps, i < next' PROVE Found(steps[i])
      BY <1>1 DEF Found
    <3>1. Valid(StepNode, HasDestination(Step), connection[Step] # 0) /\ next' = next + 1 BY <1>1
    <3>2. Found(Step) BY <3>1 DEF Found, Valid, ValidSendToQueue, StepNode
    <3>3. i < next \/ i = next BY <1>3, <1>4, <3>1
    <3> QED BY <2>1, <3>2, <3>3 DEF Step
  <2> QED BY <1>1, <2>1, <2>2, <2>3 DEF ResourcesInv
<1> QED BY <1>6, <1>7, <1>8 DEF ConstructionInv

\* All steps are valid, and none has been started.
LEMMA AllValidStep == ConstructionInv /\ AllValid => ConstructionInv'
<1> SUFFICES ASSUME ConstructionInv, AllValid PROVE ConstructionInv' OBVIOUS
<1>1. /\ place = "validate" /\ next > Len(steps) /\ place' = "start" /\ next' = Len(steps)
      /\ UNCHANGED <<stack, made, steps, destinations, queues, needed, largest, tenths, started, service, pool, connection>>
  BY DEF AllValid, OnlyPlace, requests
<1>2. TypesInv /\ SumsInv /\ ResourcesInv BY DEF ConstructionInv
<1>3. DOMAIN steps = 1 .. Len(steps) /\ Len(steps) \in Nat BY <1>1, DescriptionStays
<1>4. next \in Nat /\ next' \in Nat /\ pool' \in Nat BY <1>1, <1>2, <1>3 DEF TypesInv
<1>5. PICK sum : IsSum(sum) /\ sum[Len(steps)] = needed /\ pool = 0 BY <1>1, <1>2 DEF SumsInv
<1>6. WalkInv' /\ AddedInv' /\ TypesInv' /\ IsSum(sum)' BY <1>1, <1>4, <1>5, DescriptionStays
<1>7. SumsInv' BY <1>1, <1>5, <1>6 DEF SumsInv
<1>8. ResourcesInv'
  <2>1. /\ DOMAIN made \subseteq ToSet(steps) /\ DOMAIN connection = DOMAIN made
        /\ service = (tenths > 0) /\ started = {}
        /\ \A i \in DOMAIN steps : Searched(steps[i])
        /\ \A i \in DOMAIN steps : i < next => Found(steps[i])
    BY <1>1, <1>2 DEF ResourcesInv
  <2>2. \A i \in DOMAIN steps : i < next /\ ~(i > Len(steps)) BY <1>1, <1>3, <1>4
  <2>3. \A i \in DOMAIN steps' : Searched(steps[i])' /\ Found(steps[i])'
    BY <1>1, <2>1, <2>2 DEF Searched, Found, FindQueue
  <2>4. started' = {steps'[i] : i \in {k \in DOMAIN steps' : k > next'}} BY <1>1, <2>1, <2>2
  <2> QED BY <1>1, <2>1, <2>3, <2>4 DEF ResourcesInv
<1> QED BY <1>6, <1>7, <1>8 DEF ConstructionInv

\* The next step is started.
LEMMA StartStepStep == ConstructionInv /\ StartStep => ConstructionInv'
<1> SUFFICES ASSUME ConstructionInv, StartStep PROVE ConstructionInv' OBVIOUS
<1>1. /\ place = "start" /\ next \in DOMAIN steps /\ place' = "start" /\ next' = next - 1
      /\ started' = started \cup {steps[next]}
      /\ UNCHANGED <<stack, made, steps, destinations, queues, needed, largest, tenths, service, pool, connection>>
  BY DEF StartStep, InTurn, Starting, OnlyPlace, requests
<1>2. TypesInv /\ SumsInv /\ ResourcesInv BY DEF ConstructionInv
<1>3. DOMAIN steps = 1 .. Len(steps) /\ Len(steps) \in Nat BY <1>1, DescriptionStays
<1>4. next \in Nat /\ next' \in Nat /\ pool' \in Nat BY <1>1, <1>2, <1>3 DEF TypesInv
<1>5. PICK sum : IsSum(sum) /\ sum[Len(steps)] = needed /\ pool = 0 BY <1>1, <1>2 DEF SumsInv
<1>6. WalkInv' /\ AddedInv' /\ TypesInv' /\ IsSum(sum)' BY <1>1, <1>4, <1>5, DescriptionStays
<1>7. SumsInv' BY <1>1, <1>5, <1>6 DEF SumsInv
<1>8. ResourcesInv'
  <2>1. /\ DOMAIN made \subseteq ToSet(steps) /\ DOMAIN connection = DOMAIN made
        /\ service = (tenths > 0)
        /\ \A i \in DOMAIN steps : Searched(steps[i]) /\ Found(steps[i])
        /\ started = {steps[i] : i \in {k \in DOMAIN steps : k > next}}
    BY <1>1, <1>2 DEF ResourcesInv
  <2>2. \A k \in DOMAIN steps : k > next' <=> k > next \/ k = next BY <1>1, <1>3, <1>4
  <2>3. \A i \in DOMAIN steps' : Searched(steps[i])' /\ Found(steps[i])'
    BY <1>1, <2>1 DEF Searched, Found, FindQueue
  <2>4. started' = {steps[i] : i \in {k \in DOMAIN steps : k > next'}} BY <1>1, <2>1, <2>2
  <2> QED BY <1>1, <2>1, <2>3, <2>4 DEF ResourcesInv
<1> QED BY <1>6, <1>7, <1>8 DEF ConstructionInv

\* All steps have been started.
LEMMA LiveStep == ConstructionInv /\ Live => ConstructionInv'
<1> SUFFICES ASSUME ConstructionInv, Live PROVE ConstructionInv' OBVIOUS
<1>1. /\ place = "start" /\ next = 0 /\ place' = "live"
      /\ UNCHANGED <<stack, made, steps, destinations, queues, needed, largest, tenths, started, service, pool, connection, next>>
  BY DEF Live, OnlyPlace, requests
<1>2. TypesInv /\ SumsInv /\ ResourcesInv BY DEF ConstructionInv
<1>4. next' \in Nat /\ pool' \in Nat BY <1>1, <1>2 DEF TypesInv
<1>5. PICK sum : IsSum(sum) /\ sum[Len(steps)] = needed /\ pool = 0 BY <1>1, <1>2 DEF SumsInv
<1>6. WalkInv' /\ AddedInv' /\ TypesInv' /\ IsSum(sum)' BY <1>1, <1>4, <1>5, DescriptionStays
<1>7. SumsInv' BY <1>1, <1>5, <1>6 DEF SumsInv
<1>8. ResourcesInv'
  <2>1. /\ DOMAIN made \subseteq ToSet(steps) /\ DOMAIN connection = DOMAIN made
        /\ service = (tenths > 0)
        /\ \A i \in DOMAIN steps : Searched(steps[i]) /\ Found(steps[i])
        /\ started = {steps[i] : i \in {k \in DOMAIN steps : k > next}}
    BY <1>1, <1>2 DEF ResourcesInv
  <2>2. \A i \in DOMAIN steps' : Searched(steps[i])' /\ Found(steps[i])'
    BY <1>1, <2>1 DEF Searched, Found, FindQueue
  <2> QED BY <1>1, <2>1, <2>2 DEF ResourcesInv
<1> QED BY <1>6, <1>7, <1>8 DEF ConstructionInv
-----------------------------------------------------------------------------
(* The invariant *)

LEMMA StutterStep == ConstructionInv /\ UNCHANGED vars => ConstructionInv'
<1> SUFFICES ASSUME ConstructionInv, UNCHANGED vars PROVE ConstructionInv' OBVIOUS
<1>1. UNCHANGED <<stack, made, steps, destinations, queues, needed, largest, tenths, pool, service,
                  connection, place, next, started>>
  BY DEF vars, requests, resources
<1>2. TypesInv' BY <1>1 DEF ConstructionInv, TypesInv
<1>3. WalkInv' BY <1>1 DEF ConstructionInv, WalkInv
<1>4. AddedInv' BY <1>1 DEF ConstructionInv, AddedInv
<1>5. SumsInv' BY <1>1 DEF ConstructionInv, SumsInv, IsSum
<1>6. ResourcesInv' BY <1>1 DEF ConstructionInv, ResourcesInv, Searched, Found, FindQueue
<1> QED BY <1>2, <1>3, <1>4, <1>5, <1>6 DEF ConstructionInv

THEOREM ConstructionInvariant == Spec => []ConstructionInv
<1>1. Init => ConstructionInv BY Initially
<1>2. ConstructionInv /\ [Next]_vars => ConstructionInv'
  BY ReadRootStep, MakeStepStep, ConfigureParameterStep, NoNameStep, AddStepStep, PipeEndsStep,
     CreateResourcesStep, AttachResourcesStep, AllAttachedStep, ValidateStep, AllValidStep,
     StartStepStep, LiveStep, StutterStep
  DEF Next
<1> QED BY <1>1, <1>2, PTL DEF Spec

\* Every accepted system has what its steps will use: the requests that
\* SharedResources::request adds up are what attachResources() takes, so that the pool
\* is never short and is empty in the end, whatever the configuration asks for; asio
\* steps find their AsioService; each send_to_queue has the queue of that name.
THEOREM EquippedCorrect == Spec => []Equipped
<1>1. ConstructionInv => Equipped
  <2> SUFFICES ASSUME ConstructionInv PROVE Equipped OBVIOUS
  <2>1. place # "starved" BY DEF ConstructionInv, TypesInv
  <2>2. ASSUME place \in {"start", "live"}, NEW s \in ToSet(steps)
        PROVE  /\ SizeOf(made[s].key) <= largest
               /\ made[s].key \in AsioSteps => service
               /\ made[s].key = "send_to_queue" =>
                      /\ connection[s] \in ToSet(steps) /\ made[connection[s]].key = "input_queue"
                      /\ Given(made[connection[s]], "name") = Given(made[s], "queue")
    <3>1. SizeOf(made[s].key) <= largest /\ (made[s].key \in AsioSteps => service)
      BY <2>2 DEF ConstructionInv, AddedInv, ResourcesInv
    <3>2. Searched(s) /\ Found(s)
      <4>1. \E i \in DOMAIN steps : steps[i] = s BY <2>2 DEF ToSet
      <4> QED BY <2>2, <4>1 DEF ConstructionInv, ResourcesInv
    <3>3. ASSUME made[s].key = "send_to_queue"
          PROVE  /\ connection[s] \in ToSet(steps) /\ made[connection[s]].key = "input_queue"
                 /\ Given(made[connection[s]], "name") = Given(made[s], "queue")
      <4>1. Given(made[s], "queue") \in DOMAIN queues /\ connection[s] = queues[Given(made[s], "queue")]
        BY <3>2, <3>3 DEF Searched, Found, FindQueue
      <4> QED BY <4>1 DEF ConstructionInv, AddedInv
    <3> QED BY <3>1, <3>3
  <2>3. place \in {"start", "live"} => pool = 0 BY DEF ConstructionInv, SumsInv
  <2> QED BY <2>1, <2>2, <2>3 DEF Equipped
<1> QED BY <1>1, ConstructionInvariant, PTL

\* SharedResources::start goes backwards through the steps as they were added, and a
\* step is added before those that it sends to, unless a pipe within its own parameters
\* was built first: a step that sends on its own finds all that is below it started.
THEOREM StartsLastCorrect == Spec => []StartsLast
<1>1. ConstructionInv => StartsLast
  <2> SUFFICES ASSUME ConstructionInv, NEW s \in started, s \in DOMAIN made, ~Has(made[s], "destination")
               PROVE  StartedBelow(s)
    BY DEF StartsLast, Sources
  <2> DEFINE below == {d \in DOMAIN made : d > s}
  <2>1. TypesInv /\ AddedInv /\ ResourcesInv BY DEF ConstructionInv
  <2>2. place \in {"start", "live"} BY <2>1 DEF ResourcesInv
  <2>3. /\ started = {steps[i] : i \in {k \in DOMAIN steps : k > next}}
        /\ DOMAIN made \subseteq ToSet(steps)
    BY <2>1, <2>2 DEF ResourcesInv
  <2>4. DOMAIN steps = 1 .. Len(steps) /\ DOMAIN made = 1 .. Len(made) /\ Len(made) \in Nat /\ Len(steps) \in Nat
        /\ next \in Nat
    BY <2>1, LenProperties DEF TypesInv
  <2>5. PICK k \in DOMAIN steps : k > next /\ s = steps[k] BY <2>3
  <2>6. below \subseteq started
    <3> SUFFICES ASSUME NEW d \in DOMAIN made, d > s PROVE d \in started OBVIOUS
    <3>1. PICK i \in DOMAIN steps : steps[i] = d BY <2>3 DEF ToSet
    <3>2. ~(i < k) BY <2>1, <2>5, <3>1 DEF AddedInv
    <3>3. i > next BY <2>4, <2>5, <3>2
    <3> QED BY <2>3, <3>1, <3>3
  <2>7. \A t \in DOMAIN made : \A d \in ToSet(destinations[t]) : d > t /\ d \in DOMAIN made
    <3>1. \A t \in DOMAIN made : t \in DOMAIN destinations
      BY <2>1, <2>3 DEF TypesInv, ToSet
    <3> QED BY <2>1, <3>1 DEF AddedInv
  <2>8. ToSet(destinations[s]) \subseteq below BY <2>7
  <2>9. \A d \in below : ToSet(destinations[d]) \subseteq below
    <3> SUFFICES ASSUME NEW d \in DOMAIN made, d > s, NEW t \in ToSet(destinations[d])
                 PROVE  t \in DOMAIN made /\ t > s
      OBVIOUS
    <3>1. t \in DOMAIN made /\ t > d BY <2>7
    <3> QED BY <2>4, <3>1
  <2> QED BY <2>6, <2>8, <2>9 DEF StartedBelow
<1> QED BY <1>1, ConstructionInvariant, PTL
-----------------------------------------------------------------------------
(* The queues *)

\* queues_ has the input_queues that have been added, of each name the last.
QueuesInv ==
    \A name : IF name \in DOMAIN queues
                THEN \E last \in QueuesNamed(name) :
                        queues[name] = steps[last] /\ \A j \in QueuesNamed(name) : j <= last
                ELSE QueuesNamed(name) = {}

\* A step is added: it replaces the queue that has had its name.
LEMMA AddStepQueues == ConstructionInv /\ QueuesInv /\ AddStep => QueuesInv'
<1> SUFFICES ASSUME ConstructionInv, QueuesInv, AddStep, NEW name
             PROVE  (IF name \in DOMAIN queues
                       THEN \E last \in QueuesNamed(name) :
                               queues[name] = steps[last] /\ \A j \in QueuesNamed(name) : j <= last
                       ELSE QueuesNamed(name) = {})'
  BY DEF QueuesInv
<1> DEFINE step == Top.step
           total == Len(steps)
           isOne == made[step].key = "input_queue" /\ Given(made[step], "name") = name
<1>1. steps' = Append(steps, step) /\ made' = made /\ AddQueue(step) /\ place = "construct"
  BY DEF AddStep, ReadAll
<1>2. steps \in Seq(Nat) /\ total \in Nat /\ DOMAIN steps = 1 .. total
  BY LenProperties DEF ConstructionInv, TypesInv
<1>3. step \in Nat
  <2>1. stack \in Seq(Calls) /\ stack # <<>>
    BY <1>1 DEF ConstructionInv, TypesInv, WalkInv, Walk
  <2>2. Top \in Calls BY <2>1, EmptySeq, LenProperties, ElementOfSeq DEF Top
  <2> QED BY <2>2 DEF Calls
<1> HIDE DEF step
<1>4. /\ DOMAIN steps' = 1 .. total + 1 /\ steps'[total + 1] = step
      /\ \A i \in 1 .. total : steps'[i] = steps[i]
  BY <1>1, <1>2, <1>3, AppendProperties, LenProperties
<1>5. QueuesNamed(name) \subseteq 1 .. total BY <1>2 DEF QueuesNamed
<1>6. QueuesNamed(name)' = QueuesNamed(name) \cup (IF isOne THEN {total + 1} ELSE {})
  <2>1. \A i \in DOMAIN steps' : i \in QueuesNamed(name)' <=>
            made[steps'[i]].key = "input_queue" /\ Given(made[steps'[i]], "name") = name
    BY <1>1 DEF QueuesNamed
  <2>2. \A i \in 1 .. total : i \in QueuesNamed(name)' <=> i \in QueuesNamed(name)
    BY <1>2, <1>4, <2>1 DEF QueuesNamed
  <2>3. total + 1 \in QueuesNamed(name)' <=> isOne BY <1>2, <1>4, <2>1
  <2>4. QueuesNamed(name)' \subseteq 1 .. total + 1 BY <1>4 DEF QueuesNamed
  <2>5. \A i \in 1 .. total + 1 : i \in 1 .. total \/ i = total + 1 BY <1>2
  <2>6. \A i \in 1 .. total : i # total + 1 BY <1>2
  <2> QED BY <1>5, <2>2, <2>3, <2>4, <2>5, <2>6
<1>7. CASE isOne
  <2>1. name \in DOMAIN queues' /\ queues'[name] = step BY <1>1, <1>7 DEF AddQueue
  <2>2. total + 1 \in QueuesNamed(name)' BY <1>6, <1>7
  <2>3. \A j \in QueuesNamed(name)' : j <= total + 1 BY <1>2, <1>5, <1>6, <1>7
  <2> QED BY <1>4, <2>1, <2>2, <2>3
<1>8. CASE ~isOne
  <2>1. /\ name \in DOMAIN queues' <=> name \in DOMAIN queues
        /\ name \in DOMAIN queues => queues'[name] = queues[name]
    BY <1>1, <1>8 DEF AddQueue
  <2>2. QueuesNamed(name)' = QueuesNamed(name) BY <1>6, <1>8
  <2>3. CASE name \in DOMAIN queues
    <3>1. PICK last \in QueuesNamed(name) :
              queues[name] = steps[last] /\ \A j \in QueuesNamed(name) : j <= last
      BY <2>3 DEF QueuesInv
    <3>2. steps'[last] = steps[last] BY <1>4, <1>5
    <3> QED BY <2>1, <2>2, <2>3, <3>1, <3>2
  <2>4. CASE name \notin DOMAIN queues
    <3>1. QueuesNamed(name) = {} BY <2>4 DEF QueuesInv
    <3> QED BY <2>1, <2>2, <2>4, <3>1
  <2> QED BY <2>3, <2>4
<1> QED BY <1>7, <1>8

\* No other step of the Builder or of SharedResources touches queues_ or steps_.
LEMMA OthersQueues ==
    ASSUME ConstructionInv, QueuesInv, UNCHANGED <<steps, queues>>,
           made' = made \/ \E node \in Nodes : made' = Append(made, node)
    PROVE  QueuesInv'
<1>1. made \in Seq(Nodes) /\ \A i \in DOMAIN steps : steps[i] \in DOMAIN made
  BY DEF ConstructionInv, TypesInv
<1>2. \A s \in DOMAIN made : made'[s] = made[s]
  <2>1. CASE made' = made BY <2>1
  <2>2. ASSUME NEW node \in Nodes, made' = Append(made, node)
        PROVE  \A s \in DOMAIN made : made'[s] = made[s]
    BY <1>1, <2>2, AppendProperties, LenProperties
  <2> QED BY <2>1, <2>2
<1>3. ASSUME NEW name PROVE QueuesNamed(name)' = QueuesNamed(name) BY <1>1, <1>2 DEF QueuesNamed
<1> QED BY <1>3 DEF QueuesInv

\* Every step keeps the table of the queues right.
LEMMA QueuesStep == ConstructionInv /\ QueuesInv /\ [Next]_vars => QueuesInv'
<1> SUFFICES ASSUME ConstructionInv, QueuesInv, [Next]_vars PROVE QueuesInv' OBVIOUS
<1>1. CASE AddStep BY <1>1, AddStepQueues
<1>2. CASE MakeStep
  <2>1. UNCHANGED <<steps, queues>> BY <1>2 DEF MakeStep, Unchanged
  <2>2. Node \in Nodes
    <3>1. TypesInv /\ stack # <<>> /\ Top.nodes # <<>>
      BY <1>2 DEF ConstructionInv, WalkInv, Walk, MakeStep, Reading
    <3> QED BY <3>1, RestFacts
  <2>3. made' = made \/ made' = Append(made, Node) BY <1>2 DEF MakeStep, Ends
  <2> QED BY <2>1, <2>2, <2>3, OthersQueues
<1>3. CASE ReadRoot \/ ConfigureParameter \/ NoName \/ PipeEnds
  <2>1. UNCHANGED <<steps, queues, made>>
    BY <1>3 DEF ReadRoot, ConfigureParameter, NoName, PipeEnds, Unchanged, Ends
  <2> QED BY <2>1, OthersQueues
<1>4. CASE CreateResources \/ AttachResources \/ AllAttached \/ Validate \/ AllValid \/ StartStep \/ Live
  <2>1. UNCHANGED <<steps, queues, made>>
    BY <1>4 DEF CreateResources, AttachResources, AllAttached, Validate, AllValid, StartStep, Live, OnlyPlace
  <2> QED BY <2>1, OthersQueues
<1>5. CASE UNCHANGED vars
  <2>1. UNCHANGED <<steps, queues, made>> BY <1>5 DEF vars
  <2> QED BY <2>1, OthersQueues
<1> QED BY <1>1, <1>2, <1>3, <1>4, <1>5 DEF Next

\* A send_to_queue publishes to the input_queue that its parameter names wherever that
\* one is described: it searches when all steps have been added.  Of queues with the same
\* name it takes the last, and it finds none only if there is none.
THEOREM QueueFoundCorrect == Spec => []QueueFound
<1>1. Init => QueuesInv BY DEF Init, QueuesInv, QueuesNamed
<1>2. ConstructionInv /\ QueuesInv => QueueFound
  <2> SUFFICES ASSUME ConstructionInv, QueuesInv, NEW i \in DOMAIN steps,
                      made[steps[i]].key = "send_to_queue", HasResources(i)
               PROVE  LET found == connection[steps[i]]
                          named == QueuesNamed(Given(made[steps[i]], "queue")) IN
                      IF named = {} THEN found = 0
                                    ELSE \E last \in named : found = steps[last] /\ \A j \in named : j <= last
    BY DEF QueueFound
  <2> DEFINE name == Given(made[steps[i]], "queue")
  <2>1. Searched(steps[i]) BY DEF ConstructionInv, ResourcesInv, HasResources
  <2>2. connection[steps[i]] = FindQueue(name) BY <2>1 DEF Searched
  <2> HIDE DEF name
  <2>3. CASE name \in DOMAIN queues
    <3>1. PICK last \in QueuesNamed(name) :
              queues[name] = steps[last] /\ \A j \in QueuesNamed(name) : j <= last
      BY <2>3 DEF QueuesInv
    <3>2. connection[steps[i]] = steps[last] BY <2>2, <2>3, <3>1 DEF FindQueue
    <3> QED BY <3>1, <3>2 DEF name
  <2>4. CASE name \notin DOMAIN queues
    <3>1. QueuesNamed(name) = {} /\ connection[steps[i]] = 0 BY <2>2, <2>4 DEF QueuesInv, FindQueue
    <3> QED BY <3>1 DEF name
  <2> QED BY <2>3, <2>4
<1> QED BY <1>1, <1>2, QueuesStep, ConstructionInvariant, PTL DEF Spec
=============================================================================
