------------------------------ MODULE FifoQueue ------------------------------
(***************************************************************************)
(* What a HighQueue promises its users (Producer.hpp, Consumer.hpp): a     *)
(* bounded first-in first-out queue.  A call of publish() puts its message *)
(* into the queue exactly once, while the call lasts, unless the producer  *)
(* was stopped or has timed out; the consumer takes the messages out one   *)
(* by one in the order they went in.                                       *)
(***************************************************************************)
EXTENDS Naturals, Sequences

CONSTANTS Producers, Capacity

VARIABLES
    queue,      \* the messages inside
    calls,      \* calls[p]: how often p has called publish()
    pending,    \* the producers whose current call has not put its message in
    excused,    \* the producers that may give up: stopped or timed out
    taken       \* the messages the consumer has got

fifoVars == <<queue, calls, pending, excused, taken>>

Init ==
    /\ queue = <<>> /\ taken = <<>>
    /\ calls = [p \in Producers |-> 0]
    /\ pending = {} /\ excused = {}

Call(p) ==
    /\ p \notin pending
    /\ calls' = [calls EXCEPT ![p] = @ + 1]
    /\ pending' = pending \cup {p}
    /\ UNCHANGED <<queue, taken>>

Put(p) ==
    /\ p \in pending /\ Len(queue) < Capacity
    /\ queue' = Append(queue, <<p, calls[p]>>)
    /\ pending' = pending \ {p}
    /\ UNCHANGED <<calls, taken>>

\* The message of this call never goes in.
Abandon(p) ==
    /\ p \in pending \cap excused
    /\ pending' = pending \ {p}
    /\ UNCHANGED <<queue, calls, taken>>

Take ==
    /\ queue # <<>>
    /\ taken' = Append(taken, Head(queue))
    /\ queue' = Tail(queue)
    /\ UNCHANGED <<calls, pending>>

\* Stops and timeouts come from outside, at any time.
Next ==
    /\ excused' \subseteq Producers
    /\ \/ Take
       \/ \E p \in Producers : Call(p) \/ Put(p) \/ Abandon(p)
       \/ UNCHANGED <<queue, calls, pending, taken>>

Spec == Init /\ [][Next]_fifoVars
=============================================================================
