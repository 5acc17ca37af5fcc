----------------------------- MODULE MCPipeline -----------------------------
(* The configurations of the pipeline runs. *)
EXTENDS Pipeline

Kind == [p1 |-> "producer", p2 |-> "producer", h |-> "heartbeat",
         q1 |-> "input_queue", q2 |-> "input_queue",
         s1 |-> "send_to_queue", s2 |-> "send_to_queue", s3 |-> "send_to_queue",
         f |-> "forward", fan |-> "fan_out", rr |-> "round_robin", x |-> "stopper",
         c1 |-> "consumer", c2 |-> "consumer", c3 |-> "consumer"]

NoPipes == <<>>
\* A configuration with these pipes, in which some steps have nested pipes, and s1 and
\* s2 send to the queues of the given names.
Pipes(pipes, nested, to1, to2, capacity, messages, options) ==
    LET inner == UNION {ToSet(nested[s]) : s \in DOMAIN nested}
        steps == UNION {ToSet(pipe) : pipe \in ToSet(pipes) \cup inner}
    IN  [kind |-> [s \in steps |-> Kind[s]],
         pipes |-> pipes,
         nested |-> [s \in steps |-> IF s \in DOMAIN nested THEN nested[s] ELSE NoPipes],
         target |-> [s1 |-> to1, s2 |-> to2],
         capacity |-> capacity, messages |-> messages, limit |-> 2,
         timeouts |-> "timeouts" \in options, stops |-> "stops" \in options]

\* A round_robin shares the messages out between a nested consumer and a queue.
Shares == Pipes(<<<<"p1", "rr", "s1">>, <<"q1", "c1">>>>, [rr |-> <<<<"c2">>>>], "q1", "q1", 2, 3, {"stops"})
\* Two producers share a queue, and a stopper stops the system after both shutdowns.
TwoProducers ==
    Pipes(<<<<"p1", "s1">>, <<"p2", "s2">>, <<"q1", "x", "c1">>>>, <<>>, "q1", "q1", 1, 1, {})
\* A heartbeat and a producer share a queue.
Heartbeats ==
    Pipes(<<<<"h", "s1">>, <<"p1", "s2">>, <<"q1", "c1">>>>, <<>>, "q1", "q1", 1, 1, {"stops"})
\* A queue whose waits may time out.
TimesOut == Pipes(<<<<"p1", "f", "s1">>, <<"q1", "c1">>>>, <<>>, "q1", "q1", 1, 3, {"timeouts", "stops"})
\* A relay: from a queue a fan_out copies to a consumer and on to a second queue.
Relay ==
    Pipes(<<<<"p1", "s1">>, <<"q1", "fan", "s2">>, <<"q2", "c2">>>>, [fan |-> <<<<"c1">>>>],
          "q1", "q2", 1, 2, {"stops"})

All == {Shares, TwoProducers, Heartbeats, TimesOut, Relay}
OnlyHeartbeats == {Heartbeats}

\* Two producers share a relay from one queue to another.
SharedRelay ==
    {[Pipes(<<<<"p1", "s1">>, <<"p2", "s2">>, <<"q1", "s3">>, <<"q2", "c2">>>>, <<>>, "q1", "q1", 1, 1, {})
        EXCEPT !.target = [s1 |-> "q1", s2 |-> "q1", s3 |-> "q2"]]}
\* A stopper that is content with the first shutdown, and a heartbeat that is started last.
EarlyStopper ==
    {[Pipes(<<<<"h", "s1">>, <<"p1", "s2">>, <<"q1", "x", "c1">>>>, <<>>, "q1", "q1", 2, 1, {})
        EXCEPT !.limit = 1]}

\* The steps of all of them are added in an order in which they can be started.
ASSUME OrderAssumption == \A c \in All : Orderly(c)
\* Their messages take one way each, and no relay is shared.
ASSUME WayAssumption == \A c \in All : OneWay(c) /\ Unshared(c)
=============================================================================
