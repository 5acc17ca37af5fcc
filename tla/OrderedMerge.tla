---------------------------- MODULE OrderedMerge ----------------------------
(***************************************************************************)
(* The step of src/src/StepLibrary/OrderedMerge.cpp: it merges redundant   *)
(* streams of numbered messages into one.  Messages ahead of the expected  *)
(* number are stashed in a window of look_ahead slots; heartbeats and      *)
(* shutdowns make it give up on the numbers that are missing.              *)
(*                                                                         *)
(* handle() is called by one thread at a time.  Each call starts in pc     *)
(* "idle" with an action for the branch it takes and ends there again; in  *)
(* between there is one action per iteration of the handler's loops.       *)
(***************************************************************************)
EXTENDS Integers, Sequences

CONSTANTS
    LookAhead,              \* lookAhead_, the size of pendingMessages_
    MaxDelayHeartbeats,     \* maxDelayHeartbeats_
    Numbers,                \* bound: the sequence numbers that arrive, far below 2^32
    Nothing                 \* what an empty slot of the stash holds

ASSUME LookAheadAssumption == LookAhead \in Nat \ {0}
ASSUME DelayAssumption == MaxDelayHeartbeats \in Nat
ASSUME NumbersAssumption == Numbers \subseteq Nat
ASSUME NothingAssumption == Nothing \notin Nat

VARIABLES
    stash,              \* pendingMessages_: the sequence number in each slot
    expected,           \* expectedSequenceNumber_, 0 before the first message
    highest,            \* highestStashed_
    heartbeatExpected,  \* lastHeartbeatSequenceNumber_
    heartbeatHighest,   \* lastHeartbeatHighestStashed_
    heartbeatDelays,    \* heartbeatDelays_
    pc, caller,         \* the loop the call is in, who called publishPendingMessages
    out,                \* history: the sequence numbers of the data messages sent
    received,           \* history: the numbers that arrived and were not ancient
    overrun             \* history: a message came from beyond the window

heartbeatVars == <<heartbeatExpected, heartbeatHighest, heartbeatDelays>>
vars == <<stash, expected, highest, heartbeatVars, pc, caller, out, received, overrun>>

Slots == 0 .. LookAhead - 1
Slot(sequence) == sequence % LookAhead
Occupied(slot) == stash[slot] # Nothing

Init ==
    /\ stash = [i \in Slots |-> Nothing]
    /\ expected = 0 /\ highest = 0
    /\ heartbeatExpected = 0 /\ heartbeatHighest = 0 /\ heartbeatDelays = 0
    /\ pc = "idle" /\ caller = "data"
    /\ out = <<>> /\ received = {} /\ overrun = FALSE
-----------------------------------------------------------------------------
(* handleDataMessage *)

\* The first message of all sets the number that is expected.
Expected(sequence) == IF expected = 0 THEN sequence ELSE expected

\* Sent at once; publishPendingMessages() follows.
ArrivedInOrder(sequence) ==
    /\ pc = "idle" /\ sequence = Expected(sequence)
    /\ out' = Append(out, sequence)
    /\ expected' = sequence + 1
    /\ highest' = IF expected = 0 THEN sequence ELSE highest
    /\ received' = received \cup {sequence}
    /\ pc' = "drain" /\ caller' = "data"
    /\ UNCHANGED <<stash, heartbeatVars, overrun>>

\* "We've already seen it."
Previous(sequence) ==
    /\ pc = "idle" /\ sequence < Expected(sequence)
    /\ UNCHANGED vars

\* Mutant: the window is one number wider than the stash.
InWindow_OneMore(sequence) == Expected(sequence) < sequence /\ sequence - Expected(sequence) <= LookAhead
InWindow(sequence) == Expected(sequence) < sequence /\ sequence - Expected(sequence) < LookAhead

Stash(sequence) ==
    /\ pc = "idle" /\ InWindow(sequence) /\ ~Occupied(Slot(sequence))
    /\ stash' = [stash EXCEPT ![Slot(sequence)] = sequence]
    /\ highest' = IF sequence > highest THEN sequence ELSE highest
    /\ received' = received \cup {sequence}
    /\ UNCHANGED <<expected, heartbeatVars, pc, caller, out, overrun>>

\* "We are already holding a copy."
DuplicateStash(sequence) ==
    /\ pc = "idle" /\ InWindow(sequence) /\ Occupied(Slot(sequence))
    /\ received' = received \cup {sequence}
    /\ UNCHANGED <<stash, expected, highest, heartbeatVars, pc, caller, out, overrun>>

\* Beyond the window.  The loop that should make room has its condition the wrong
\* way round and is never entered; the message replaces what is in its slot.
Future(sequence) ==
    /\ pc = "idle" /\ sequence - Expected(sequence) >= LookAhead
    /\ stash' = [stash EXCEPT ![Slot(sequence)] = sequence]
    /\ highest' = sequence
    /\ received' = received \cup {sequence}
    /\ overrun' = TRUE
    /\ UNCHANGED <<expected, heartbeatVars, pc, caller, out>>
-----------------------------------------------------------------------------
(* publishPendingMessages and findAndPublishGap *)

\* while(!pendingMessages_[index]->isEmpty()): send() also empties the slot.
Drain ==
    /\ pc = "drain" /\ Occupied(Slot(expected))
    /\ out' = Append(out, stash[Slot(expected)])
    /\ stash' = [stash EXCEPT ![Slot(expected)] = Nothing]
    /\ expected' = expected + 1
    /\ UNCHANGED <<highest, heartbeatVars, pc, caller, received, overrun>>
Drained ==
    /\ pc = "drain" /\ ~Occupied(Slot(expected))
    /\ pc' = IF caller = "data" THEN "idle" ELSE caller
    /\ UNCHANGED <<stash, expected, highest, heartbeatVars, caller, out, received, overrun>>

\* Mutant: the search stops before the last slot of the window.
Ahead_OneLess == {n \in 0 .. LookAhead - 2 : Occupied(Slot(expected + n))}
\* How far ahead of the expected number there are messages.
Ahead == {n \in 0 .. LookAhead - 1 : Occupied(Slot(expected + n))}

\* Mutant: goes on at the last message it finds.
CloseGap_Last(why) ==
    \E n \in Ahead :
        /\ \A m \in Ahead : m <= n
        /\ expected' = expected + n
        /\ pc' = "drain" /\ caller' = why
        /\ UNCHANGED <<stash, highest, heartbeatVars, out, received, overrun>>
\* findAndPublishGap() skips what is missing before the first of them, and
\* publishPendingMessages() follows.  publishGapMessage fills outMessage_ but
\* nobody sends it.
CloseGap(why) ==
    \E n \in Ahead :
        /\ \A m \in Ahead : n <= m
        /\ expected' = expected + n
        /\ pc' = "drain" /\ caller' = why
        /\ UNCHANGED <<stash, highest, heartbeatVars, out, received, overrun>>
-----------------------------------------------------------------------------
(* handleHeartbeat and handleShutdown *)

\* Mutant: forgets how far the stash reached.
Remember_NotHighest ==
    /\ heartbeatExpected' = expected
    /\ heartbeatDelays' = 0
    /\ UNCHANGED heartbeatHighest
Remember ==
    /\ heartbeatExpected' = expected
    /\ heartbeatHighest' = highest
    /\ heartbeatDelays' = 0

\* Something was published since the heartbeat before.
HeartbeatAfterProgress ==
    /\ pc = "idle" /\ expected # heartbeatExpected
    /\ Remember
    /\ UNCHANGED <<stash, expected, highest, pc, caller, out, received, overrun>>

Overdue == heartbeatDelays + 1 >= MaxDelayHeartbeats
HeartbeatWithoutProgress ==
    /\ pc = "idle" /\ expected = heartbeatExpected
    /\ heartbeatDelays' = heartbeatDelays + 1
    /\ pc' = IF Overdue THEN "heartbeat" ELSE "idle"
    /\ UNCHANGED <<stash, expected, highest, heartbeatExpected, heartbeatHighest, caller,
                   out, received, overrun>>

\* while(expectedSequenceNumber_ < lastHeartbeatHighestStashed_)
HeartbeatClosesGap ==
    pc = "heartbeat" /\ expected < heartbeatHighest /\ CloseGap("heartbeat")
\* ... also when nothing is found, again and again.
HeartbeatSearchesAgain ==
    /\ pc = "heartbeat" /\ expected < heartbeatHighest /\ Ahead = {}
    /\ UNCHANGED vars
HeartbeatDone ==
    /\ pc = "heartbeat" /\ expected >= heartbeatHighest
    /\ Remember
    /\ pc' = "idle"
    /\ UNCHANGED <<stash, expected, highest, caller, out, received, overrun>>

Shutdown ==
    /\ pc = "idle"
    /\ pc' = "shutdown"
    /\ UNCHANGED <<stash, expected, highest, heartbeatVars, caller, out, received, overrun>>
ShutdownClosesGap == pc = "shutdown" /\ CloseGap("shutdown")
ShutdownDone ==
    /\ pc = "shutdown" /\ Ahead = {}
    /\ pc' = "idle"
    /\ UNCHANGED <<stash, expected, highest, heartbeatVars, caller, out, received, overrun>>
-----------------------------------------------------------------------------
HandleData(sequence) ==
    \/ ArrivedInOrder(sequence) \/ Previous(sequence) \/ Stash(sequence)
    \/ DuplicateStash(sequence) \/ Future(sequence)
HandleHeartbeat == HeartbeatAfterProgress \/ HeartbeatWithoutProgress
\* The rest of a call.
Finish ==
    \/ Drain \/ Drained
    \/ HeartbeatClosesGap \/ HeartbeatSearchesAgain \/ HeartbeatDone
    \/ ShutdownClosesGap \/ ShutdownDone

Next == (\E sequence \in Numbers : HandleData(sequence)) \/ HandleHeartbeat \/ Shutdown \/ Finish

Spec == Init /\ [][Next]_vars

\* Calls go on; heartbeats come again and again, between whatever other messages.
FairSpec == Spec /\ WF_vars(Finish) /\ SF_vars(HandleHeartbeat)
-----------------------------------------------------------------------------
(* Properties *)

TypeOK ==
    /\ stash \in [Slots -> Nat \cup {Nothing}]
    /\ expected \in Nat /\ highest \in Nat
    /\ heartbeatExpected \in Nat /\ heartbeatHighest \in Nat /\ heartbeatDelays \in Nat
    /\ pc \in {"idle", "drain", "heartbeat", "shutdown"}
    /\ caller \in {"data", "heartbeat", "shutdown"}
    /\ out \in Seq(Nat) /\ received \in SUBSET Nat /\ overrun \in BOOLEAN

Sent == {out[i] : i \in DOMAIN out}
Stashed == {stash[i] : i \in Slots} \ {Nothing}

Behind == \A i \in DOMAIN out : out[i] < expected

\* "Merge streams of messages, sorting, eliminating duplicates, identifying gaps."
\* (OrderedMerge.cpp): what handle() sends is strictly increasing, wherever the numbers
\* of the streams may jump to.
Increasing == \A i, j \in DOMAIN out : i < j => out[i] < out[j]

\* The stash is a window on the numbers from expected on, each in its own slot; a
\* call does not end while the expected message is there.
WindowInv ==
    /\ \A i \in Slots : Occupied(i) =>
           Slot(stash[i]) = i /\ expected <= stash[i] /\ stash[i] < expected + LookAhead
    /\ pc # "drain" => ~Occupied(Slot(expected))
    /\ expected = 0 => \A i \in Slots : ~Occupied(i)

\* As long as no message comes from beyond the window: "sorting, eliminating
\* duplicates" (OrderedMerge.cpp), whatever the streams duplicate, delay or drop.
Sorted == overrun \/ Increasing

\* ... and no message gets lost that was not ancient when it came: it has been sent,
\* or it is in the stash.
NothingLost == overrun \/ received \subseteq Sent \cup Stashed

\* The inductive invariant of these: as long as no message comes from beyond the
\* window, what was sent is in order and before what is expected.
MergeInv ==
    overrun \/ (WindowInv /\ Increasing /\ Behind /\ received \subseteq Sent \cup Stashed)

\* ... and handle() returns: the loop for an overdue heartbeat finds the message that
\* it is looking for.
HandleReturns == pc # "idle" ~> pc = "idle" \/ overrun

\* ... and what is missing holds nothing up for ever: enough heartbeats without
\* progress release every message from the stash.
StashIsSent == \A s \in Numbers : s \in Stashed ~> s \in Sent \/ overrun

\* The shutdown message is not passed on before the stash is empty, even after
\* messages from beyond the window.
ShutdownFlushes == [][pc = "shutdown" /\ pc' = "idle" => Stashed = {}]_vars
=============================================================================
