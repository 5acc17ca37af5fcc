---------------------------- MODULE MCConstruction ----------------------------
(***************************************************************************)
(* All configurations of one pipe of up to three nodes, all of two short   *)
(* pipes with queues, and all with two pipes nested below one step; and    *)
(* the configurations of the tests.                                        *)
(***************************************************************************)
EXTENDS Construction, TestConfigurations

Node3(key, value, children) == [key |-> key, value |-> value, children |-> children]
P(key, value) == Node3(key, value, <<>>)
Named(kind, parameters) == Node3(kind, 0, <<P("name", 1)>> \o parameters)
PipeOf(nodes) == Node3("pipe", 0, nodes)
Nested(nodes) == Node3("destination", 0, nodes)
Comment == P("comment", 0)

Producer == Named("producer", <<P("message_count", 2), P("log_stats_on_exit", 1)>>)
Endless == Named("producer", <<P("message_count", 8)>>)
Heartbeat == Named("heartbeat", <<P("milliseconds", 5)>>)
Receiver == Named("multicast_receiver", <<P("packet_size", 4), P("port", 3), P("group", 1), P("listen", 1)>>)
Queue(entries) ==
    Named("input_queue", <<P("entry_count", entries),
        Node3("common_wait_strategy", 0, <<P("spin_count", Forever), P("timeout_nanoseconds", 5)>>)>>)
Sender == Named("multicast_sender", <<P("group", 1), P("port", 3), P("bind", 1)>>)
SendTo(name) == Named("send_to_queue", <<P("queue", name)>>)
Merge == Named("ordered_merge", <<P("look_ahead", 1), P("max_delay_heartbeats", 1)>>)
Shuffler == Named("shuffler", <<P("look_ahead", 2), P("look_ahead", 1), P("prime", 3)>>)
Leaker(every) == Named("leaker", <<P("every", every), P("count", 1), P("shutdowns", 1)>>)

\* What is right, and what has one thing wrong.
Right == {Producer, Heartbeat, Receiver, Queue(2), Sender, SendTo(1), Merge, Shuffler, Leaker(2),
          Named("console", <<P("prompt", 1)>>), Named("stopper", <<P("shutdowns", 1)>>),
          Named("tee", <<P("output", 1)>>), Named("fan_out", <<Comment>>),
          Named("consumer", <<P("message_count", Unreadable)>>), Named("binary_copy", <<>>), Comment}
Wrong == {Named("producer", <<>>), Named("producer", <<P("message_count", 7)>>),
          Named("multicast_receiver", <<P("packet_size", 4), P("group", 0)>>),
          Named("multicast_receiver", <<P("packet_size", 4), P("group", 1), P("listen", Unreadable)>>),
          Named("multicast_receiver", <<P("packet_size", 4), P("group", 1), P("bind", Unreadable)>>),
          Named("multicast_sender", <<P("group", 1), P("port", 4)>>),
          Named("multicast_sender", <<P("group", 1), P("port", 3), P("bind", 0)>>),
          Named("input_queue", <<P("entry_count", 1),
              Node3("produder_wait_strategy", 0, <<P("sleep_count", Unreadable)>>)>>),
          SendTo(2), Named("ordered_merge", <<P("look_ahead", Unreadable)>>), Leaker(0),
          Named("leaker", <<P("every", 2), P("heartbeats", 2)>>),
          Node3("tee", 0, <<>>), Named("unheard_of", <<>>), Named("consumer", <<P("interval", 1)>>)}

UpTo(n, set) == UNION {[1 .. k -> set] : k \in 0 .. n}
Single == {<<PipeOf(p)>> : p \in UpTo(2, Right \cup Wrong) \cup [1 .. 3 -> Right \ {Comment}]}
Pairs == {<<PipeOf(p), Comment, PipeOf(q)>> :
              p, q \in UpTo(2, {Producer, Endless, SendTo(1), Queue(1), Named("consumer", <<>>), Sender})}
\* A source or a fan_out with two pipes of its own, and what comes after it.
Nesting == {<<PipeOf(before \o <<Named(kind.key, kind.children \o <<Nested(p), Nested(q)>>)>> \o after)>> :
                before, after \in UpTo(1, {Producer, Merge}),
                kind \in {Producer, Named("fan_out", <<>>)},
                p, q \in UpTo(1, {Comment, Shuffler, SendTo(1)}) \cup
                         {<<Leaker(2), Named("round_robin", <<Nested(<<Merge>>), Nested(<<Leaker(1), Sender>>)>>)>>}}
MCConfigurations == Single \cup Pairs \cup Nesting \cup {<<P("destination", 0)>>, <<>>} \cup Tests
WithChildren(nodes) == nodes \cup UNION {ToSet(n.children) : n \in nodes}
\* No configuration is nested deeper.
AllNodes == LET pipes == UNION {ToSet(config) : config \in MCConfigurations} IN
            WithChildren(WithChildren(WithChildren(WithChildren(WithChildren(WithChildren(pipes))))))
\* A definition of its own, which TLC evaluates once.
MCNodes == AllNodes

\* A source that is described without a pipe of its own, with one, and with one or more
\* behind others; and a source that nothing follows.
NestedSources ==
    {<<PipeOf(<<Named(source.key, source.children \o pipes)>> \o after)>> :
        source \in {Producer, Heartbeat}, after \in UpTo(1, {Sender}),
        pipes \in {<<>>, <<Nested(<<Sender>>)>>, <<Nested(<<Leaker(2), Named("consumer", <<>>)>>)>>}}
NestedSourcesNodes == LET pipes == UNION {ToSet(config) : config \in NestedSources} IN
    WithChildren(WithChildren(WithChildren(WithChildren(pipes))))
LoneSources == {<<PipeOf(before \o <<source>>)>> : before \in UpTo(2, {Comment, Leaker(2), Producer}),
                                                    source \in {Heartbeat, Receiver, Producer}}
LoneSourcesNodes == LET pipes == UNION {ToSet(config) : config \in LoneSources} IN
    WithChildren(WithChildren(WithChildren(pipes)))
=============================================================================
