-------------------------- MODULE PipelineInvariant --------------------------
(***************************************************************************)
(* Where the messages of a pipeline are and in which order: what every     *)
(* step of it keeps, and what InOrder and NothingLost follow from.         *)
(***************************************************************************)
EXTENDS Pipeline

To == PassesTo(config)
Below(s) == Reached(To, s)
Origin == Of({"producer", "heartbeat"})
Queues == Of({"input_queue"})
Consumers == Of({"consumer"})

\* Within a thread messages stay where they are sent to a queue.
WithinTo == [s \in Steps |-> IF s \in Of({"send_to_queue"}) THEN {} ELSE To[s]]
Within(s) == Reached(WithinTo, s)
-----------------------------------------------------------------------------
(* The hands of the threads *)

Busy(t) == stack[t] # <<>>
\* The source whose messages a thread handles.
From(t) == IF t = Asio THEN message[t].source ELSE t

\* The steps that a call has yet to reach, and those of all calls of a thread.
Pending(frame) == IF frame.at = "send" THEN frame.todo ELSE <<frame.step>>
PendingIn(frames) == UNION {ToSet(Pending(frames[i])) : i \in DOMAIN frames}
PendingOf(t) == PendingIn(stack[t])

\* A thread handles the messages of a source, at steps that are behind it in the thread.
Threading ==
    \A t \in Threads : Busy(t) =>
        /\ From(t) \in Of(Sources) /\ (t = Asio => From(t) \in Of({"heartbeat"}))
        /\ t \in Of({"producer"}) => message[t].source = t
        /\ From(t) \in Below(message[t].source)
        /\ PendingOf(t) \subseteq Within(From(t)) \ Of(Sources)
\* It reaches none of them twice.
ApartIn(frames) ==
    \A i, k \in DOMAIN frames : \A j \in DOMAIN Pending(frames[i]), l \in DOMAIN Pending(frames[k]) :
        i # k \/ j # l => Pending(frames[k])[l] \notin Below(Pending(frames[i])[j])
Apart == \A t \in Threads : ApartIn(stack[t])
-----------------------------------------------------------------------------
(* The order of the messages *)

\* The messages that a step has: those that a consumer has received, and those that are
\* in a queue or in the hands of its thread.
Held(x) ==
    IF x \in Consumers THEN ToSet(received[x])
    ELSE IF x \in Queues THEN ToSet(queue[x]) \cup (IF Busy(x) THEN {message[x]} ELSE {})
    ELSE {}
Older(k, m) == k.source = m.source => k.number < m.number
\* What these steps have was sent before m.
Behind(steps, m) == \A x \in steps : \A k \in Held(x) : Older(k, m)

\* A message is newer than all that is where it has yet to go,
ThreadsAhead == \A t \in Threads : \A d \in PendingOf(t) : Behind(Below(d), message[t])
QueuesAhead ==
    \A q \in Queues : \A i \in DOMAIN queue[q] :
        /\ Behind(Below(q) \ {q}, queue[q][i])
        /\ Busy(q) => Older(message[q], queue[q][i])
        /\ \A j \in DOMAIN queue[q] : j < i => Older(queue[q][j], queue[q][i])
\* ... and older than what comes later.
ReceivedSorted ==
    \A c \in Consumers : \A i, j \in DOMAIN received[c] : i < j => Older(received[c][i], received[c][j])
\* Messages are on the way from their source.
Fed == \A x \in Steps : \A k \in Held(x) : x \in Below(k.source)

\* The messages there are, and the numbers they can have.
InHands == {message[t] : t \in {u \in Threads : Busy(u)}}
Everywhere == InHands \cup UNION {Held(x) : x \in Steps}
Numbered(k) ==
    /\ k.number <= count[k.source]
    /\ k.source \in Of({"heartbeat"}) \/ run[k.source] \in {"none", "loop"} => k.number < count[k.source]
    /\ k.source \in Of({"heartbeat"}) => k.type = "heartbeat"
    /\ k.source \in Of({"producer"}) => k.type \in {"data", "shutdown"}
    /\ k.type = "shutdown" =>
           /\ k.number = count[k.source] /\ run[k.source] \in {"send", "ended"}
           /\ run[k.source] = "send" => message[k.source].type = "shutdown"
Counted ==
    /\ \A k \in Everywhere : Numbered(k)
    /\ \A p \in Of({"producer"}) : run[p] = "send" =>
           message[p].source = p /\ message[p].number = count[p] /\ message[p].type \in {"data", "shutdown"}

Ordered == ThreadsAhead /\ QueuesAhead /\ ReceivedSorted /\ Fed
OrderInv == Threading /\ Apart /\ Ordered /\ Counted
-----------------------------------------------------------------------------
(* Nothing is lost before the system is stopped *)

\* Only a shutdown has stopped anything.
Unstopped ==
    /\ \A t \in Threads : stopNext[t] > 1 => ~service
    /\ service => halted \subseteq Of({"send_to_queue"})
                  /\ stopping \subseteq Of({"send_to_queue", "consumer"})
\* No Producer has been stopped that a message has yet to reach.
Clear(s) == Below(s) \cap halted = {}
More2Come(p) == run[p] \in {"none", "loop"} \/ (run[p] = "send" /\ message[p].type = "data")
Open ==
    service =>
        /\ \A t \in Threads : \A d \in PendingOf(t) : Clear(d)
        /\ \A q \in Queues : queue[q] # <<>> => Clear(q)
        /\ \A p \in Of({"producer"}) : More2Come(p) => Clear(p)
        /\ \A h \in Of({"heartbeat"}) : Clear(h)

\* A message is there for the consumers among these steps.
There(k, steps) ==
    \/ \E c \in Consumers \cap steps : k \in ToSet(received[c])
    \/ \E q \in Queues : k \in ToSet(queue[q]) /\ Below(q) \cap steps # {}
    \/ \E t \in Threads : Busy(t) /\ k = message[t] /\ \E d \in PendingOf(t) : Below(d) \cap steps # {}
Sent(p) ==
    LET sending == p \in Of({"producer"}) /\ run[p] = "send" /\ message[p].type = "data"
    IN  0 .. (IF sending THEN count[p] ELSE count[p] - 1)
Tracked(steps) ==
    service /\ ~config.timeouts =>
        \A p \in Origin : Below(p) \cap steps # {} => \A n \in Sent(p) :
            \E k \in Everywhere : k.source = p /\ k.number = n /\ There(k, steps)
\* What can be asked for: a round_robin does not send a message to all consumers.
Targets(steps) == steps = Steps \/ (steps \subseteq Consumers /\ Of({"round_robin"}) = {})
TrackInv == \A steps \in SUBSET Steps : Targets(steps) => Tracked(steps)
=============================================================================
