---------------------------- MODULE MessageValues ----------------------------
(***************************************************************************)
(* What messages promise their users (Message.hpp): each has a sequence of *)
(* objects of its own, up to a capacity while it owns memory.  Moving a    *)
(* message takes everything to the target and leaves the source empty.     *)
(***************************************************************************)
EXTENDS Naturals, Sequences

CONSTANTS Names, Capacity, Items, Types

VARIABLES
    contents,   \* the objects in each message
    readTo,     \* how many of them have been read
    meta,       \* type, timestamp and sequence
    owners      \* the messages that have memory

valueVars == <<contents, readTo, meta, owners>>

ValuesInit ==
    /\ contents = [m \in Names |-> <<>>]
    /\ readTo = [m \in Names |-> 0]
    /\ meta \in [Names -> Types]
    /\ owners = {}

\* What can be in a message.
Room(m) == IF m \in owners THEN Capacity ELSE 0
Agree(s, t) == \A i \in DOMAIN s \cap DOMAIN t : s[i] = t[i]

Obtain(m) ==
    /\ m \notin owners
    /\ owners' = owners \cup {m}
    /\ UNCHANGED <<contents, readTo, meta>>
Discard(m) ==
    /\ m \in owners
    /\ owners' = owners \ {m}
    /\ contents' = [contents EXCEPT ![m] = <<>>]
    /\ UNCHANGED <<readTo, meta>>

\* More objects behind those that are there, or fewer of them.
Resize(m) ==
    /\ contents'[m] \in Seq(Items) /\ Len(contents'[m]) <= Room(m)
    /\ Agree(contents[m], contents'[m])
    /\ \A other \in Names \ {m} : contents'[other] = contents[other]
    /\ UNCHANGED <<readTo, meta, owners>>
\* One object in the place of all.
Replace(m) ==
    \E x \in Items :
        /\ Room(m) > 0
        /\ contents' = [contents EXCEPT ![m] = <<x>>]
        /\ UNCHANGED <<readTo, meta, owners>>
Clear(m) ==
    /\ contents' = [contents EXCEPT ![m] = <<>>]
    /\ readTo' = [readTo EXCEPT ![m] = 0]
    /\ UNCHANGED <<meta, owners>>
Reading(m) ==
    \E n \in 0 .. Len(contents[m]) :
        /\ readTo' = [readTo EXCEPT ![m] = n]
        /\ UNCHANGED <<contents, meta, owners>>
Label(m) ==
    \E type \in Types :
        /\ meta' = [meta EXCEPT ![m] = type]
        /\ UNCHANGED <<contents, readTo, owners>>

\* The memory, too, changes hands.
Move(m, n) ==
    /\ m # n
    /\ contents' = [contents EXCEPT ![n] = contents[m], ![m] = <<>>]
    /\ readTo' = [readTo EXCEPT ![n] = readTo[m], ![m] = 0]
    /\ meta' = [meta EXCEPT ![n] = meta[m]]
    /\ owners' = {x \in Names : IF x = m THEN n \in owners
                                ELSE IF x = n THEN m \in owners ELSE x \in owners}

ValuesNext ==
    \/ \E m \in Names : Obtain(m) \/ Discard(m) \/ Resize(m) \/ Replace(m) \/ Clear(m) \/ Reading(m) \/ Label(m)
    \/ \E m, n \in Names : Move(m, n)
ValuesSpec == ValuesInit /\ [][ValuesNext]_valueVars
=============================================================================
