------------------------------ MODULE BlockPool ------------------------------
(***************************************************************************)
(* What a pool of memory blocks promises: a block belongs to the pool or   *)
(* to one message, and no block appears or disappears.                     *)
(***************************************************************************)
EXTENDS Naturals

CONSTANTS Messages, Null

VARIABLES
    available,      \* the blocks in the pool
    held            \* the block of each message, or Null

Init == available \in SUBSET Nat /\ held = [m \in Messages |-> Null]

Allocate(m) ==
    /\ held[m] = Null
    /\ \E b \in available :
        /\ held' = [held EXCEPT ![m] = b]
        /\ available' = available \ {b}

Release(m) ==
    /\ held[m] # Null
    /\ held' = [held EXCEPT ![m] = Null]
    /\ available' = available \cup {held[m]}

Move(m, n) ==
    /\ held' = [held EXCEPT ![m] = held[n], ![n] = held[m]]
    /\ UNCHANGED available

Next == \E m \in Messages : Allocate(m) \/ Release(m) \/ \E n \in Messages : Move(m, n)

Spec == Init /\ [][Next]_<<available, held>>
=============================================================================
