----------------------------- MODULE MCPrograms -----------------------------
(* The programs of the runs, with few messages and short queues. *)
EXTENDS Programs

Program(kind, producers, copies, entries, target, copyType) ==
    [kind |-> kind, producers |-> producers, copies |-> copies, entries |-> entries,
     target |-> target, copyType |-> copyType]

MCCandidates ==
    {Program("user", 1, 0, 1, 1, "PassThru"),
     Program("separately", 1, 0, 2, 2, "PassThru"),
     Program("alternating", 1, 0, 1, 3, "PassThru"),
     Program("no_consumer", 1, 0, 2, 5, "PassThru"),
     Program("rounds", 2, 0, 2, 4, "PassThru"),
     Program("multi_queue", 2, 0, 1, 4, "PassThru")}
        \cup {Program("pipeline", 1, 1, 1, 3, type) : type \in CopyTypes}
        \cup {Program("pipeline", 1, 2, 1, 2, "PassThru")}
        \cup {Program("batched", 1, 1, 1, 3, type) : type \in CopyTypes \ {"CopyConstruct"}}

MCNames ==
    {<<"entry", q, i>> : q \in 1 .. 3, i \in 0 .. 1} \cup {<<"main", 0, 1>>, <<"main", 0, 2>>}
        \cup {<<"producer", i, 1>> : i \in 1 .. 2} \cup {<<"copier", c, i>> : c, i \in 1 .. 2}
        \cup {<<"user", i, 1>> : i \in 1 .. 2}
MCItems == {<<i, n>> : i \in 0 .. 2, n \in 0 .. 4}
MCJunk == <<0, 0>>
=============================================================================
