-------------------------- MODULE OrderedMergeProofs --------------------------
(***************************************************************************)
(* What holds of OrderedMerge for every window and every choice of         *)
(* sequence numbers.                                                       *)
(***************************************************************************)
EXTENDS OrderedMerge, Remainders, TLAPS

\* pendingMessages_[sequence % lookAhead_] exists.
LEMMA SlotType == \A sequence \in Nat : Slot(sequence) \in Slots
BY LookAheadAssumption DEF Slot, Slots

\* Two numbers of one window with the same slot are the same.
LEMMA SlotsInWindow ==
    ASSUME NEW e \in Nat, NEW s \in Nat, NEW t \in Nat, Slot(s) = Slot(t),
           e <= s, s < e + LookAhead, e <= t, t < e + LookAhead
    PROVE  s = t
<1>1. CASE s < t
  <2>1. t < s + LookAhead BY LookAheadAssumption
  <2> QED BY <1>1, <2>1, SlotsDiffer, LookAheadAssumption DEF Slot
<1>2. CASE t < s
  <2>1. s < t + LookAhead BY LookAheadAssumption
  <2> QED BY <1>2, <2>1, SlotsDiffer, LookAheadAssumption DEF Slot
<1> QED BY <1>1, <1>2

\* findAndPublishGap() looks into every slot.
LEMMA SearchIsComplete ==
    ASSUME TypeOK, Ahead = {}
    PROVE  \A i \in Slots : ~Occupied(i)
<1> SUFFICES ASSUME NEW i \in Slots PROVE ~Occupied(i) OBVIOUS
<1>1. PICK n \in 0 .. LookAhead - 1 : (expected + n) % LookAhead = i
  BY SlotsCovered, LookAheadAssumption DEF TypeOK, Slots
<1> QED BY <1>1 DEF Ahead, Slot

\* The first message that findAndPublishGap() finds is the lowest in the stash.
LEMMA FirstIsLowest ==
    ASSUME TypeOK, WindowInv, NEW n \in Ahead, \A m \in Ahead : n <= m, NEW i \in Slots, Occupied(i)
    PROVE  expected + n <= stash[i]
<1>1. stash[i] \in Nat BY DEF TypeOK, Occupied
<1> DEFINE m == stash[i] - expected
<1>2. m \in 0 .. LookAhead - 1 /\ Slot(expected + m) = i
  BY <1>1, LookAheadAssumption DEF WindowInv, TypeOK
<1>3. m \in Ahead BY <1>2 DEF Ahead
<1>4. n \in Nat BY LookAheadAssumption DEF Ahead
<1> QED BY <1>1, <1>3, <1>4 DEF TypeOK
-----------------------------------------------------------------------------
(* Types *)

LEMMA TypeInit == Init => TypeOK
<1> SUFFICES ASSUME Init PROVE TypeOK OBVIOUS
<1>1. out \in Seq(Nat) BY DEF Init
<1>2. stash \in [Slots -> Nat \cup {Nothing}] BY DEF Init
<1> QED BY <1>1, <1>2 DEF Init, TypeOK

LEMMA TypeStep == TypeOK /\ [Next]_vars => TypeOK'
<1> SUFFICES ASSUME TypeOK, [Next]_vars PROVE TypeOK' OBVIOUS
<1> USE SlotType, LookAheadAssumption, NumbersAssumption DEF TypeOK
<1>1. ASSUME NEW sequence \in Numbers, ArrivedInOrder(sequence) PROVE TypeOK'
  BY <1>1 DEF ArrivedInOrder, heartbeatVars
<1>2. ASSUME NEW sequence \in Numbers, Previous(sequence) PROVE TypeOK'
  BY <1>2 DEF Previous, vars, heartbeatVars
<1>3. ASSUME NEW sequence \in Numbers, Stash(sequence) PROVE TypeOK'
  BY <1>3 DEF Stash, heartbeatVars
<1>4. ASSUME NEW sequence \in Numbers, DuplicateStash(sequence) PROVE TypeOK'
  BY <1>4 DEF DuplicateStash, heartbeatVars
<1>5. ASSUME NEW sequence \in Numbers, Future(sequence) PROVE TypeOK'
  BY <1>5 DEF Future, heartbeatVars
<1>6. CASE Drain
  BY <1>6 DEF Drain, Occupied, heartbeatVars
<1>7. CASE Drained
  BY <1>7 DEF Drained, heartbeatVars
<1>8. CASE HeartbeatAfterProgress \/ HeartbeatDone
  <2>1. UNCHANGED <<stash, expected, highest, caller, out, received, overrun>> /\ Remember
    BY <1>8 DEF HeartbeatAfterProgress, HeartbeatDone
  <2>2. pc' \in {pc, "idle"} BY <1>8 DEF HeartbeatAfterProgress, HeartbeatDone
  <2> QED BY <2>1, <2>2 DEF Remember
<1>9. CASE HeartbeatWithoutProgress
  BY <1>9 DEF HeartbeatWithoutProgress
<1>10. ASSUME NEW why \in {"heartbeat", "shutdown"}, CloseGap(why) PROVE TypeOK'
  <2>1. \A n \in Ahead : expected + n \in Nat BY DEF Ahead
  <2> QED BY <1>10, <2>1 DEF CloseGap, heartbeatVars
<1>11. CASE HeartbeatSearchesAgain \/ UNCHANGED vars
  BY <1>11 DEF HeartbeatSearchesAgain, vars, heartbeatVars
<1>12. CASE Shutdown \/ ShutdownDone
  BY <1>12 DEF Shutdown, ShutdownDone, heartbeatVars
<1> QED BY <1>1, <1>2, <1>3, <1>4, <1>5, <1>6, <1>7, <1>8, <1>9, <1>10, <1>11, <1>12
    DEF Next, HandleData, HandleHeartbeat, Finish, HeartbeatClosesGap, ShutdownClosesGap

\* Every variable has its type, whatever messages arrive.
THEOREM MergeTypeCorrect == Spec => []TypeOK
BY TypeInit, TypeStep, PTL DEF Spec
-----------------------------------------------------------------------------
(* Order and completeness, while no message comes from beyond the window *)

\* send() of the message that is expected.
LEMMA SendNext ==
    ASSUME TypeOK, Increasing, NEW e \in Nat, \A i \in DOMAIN out : out[i] < e,
           out' = Append(out, e), expected' = e + 1
    PROVE  Increasing' /\ Behind' /\ Sent' = Sent \cup {e}
<1>1. out \in Seq(Nat) BY DEF TypeOK
<1>2. /\ Len(out) \in Nat /\ DOMAIN out = 1 .. Len(out)
      /\ DOMAIN out' = 1 .. Len(out) + 1
      /\ \A i \in DOMAIN out : out'[i] = out[i] /\ out[i] \in Nat
      /\ out'[Len(out) + 1] = e
  BY <1>1
<1>3. Increasing' BY <1>2 DEF Increasing
<1>4. Behind' BY <1>2 DEF Behind
<1>5. Sent' = Sent \cup {e}
  <2>1. \A x \in Sent' : x \in Sent \/ x = e BY <1>2 DEF Sent
  <2>2. \A i \in DOMAIN out : i \in DOMAIN out' BY <1>2
  <2>3. Sent \subseteq Sent' BY <1>2, <2>2 DEF Sent
  <2>4. Len(out) + 1 \in DOMAIN out' BY <1>2
  <2>5. e \in Sent' BY <1>2, <2>4 DEF Sent
  <2> QED BY <2>1, <2>3, <2>5
<1> QED BY <1>3, <1>4, <1>5

LEMMA MergeInit == Init => MergeInv
<1> SUFFICES ASSUME Init PROVE MergeInv OBVIOUS
<1>1. \A i \in Slots : ~Occupied(i) BY DEF Init, Occupied
<1>2. WindowInv BY <1>1, SlotType DEF Init, WindowInv
<1>3. DOMAIN out = {} BY DEF Init
<1> QED BY <1>2, <1>3 DEF Init, MergeInv, Increasing, Behind

LEMMA MergeStep == TypeOK /\ MergeInv /\ [Next]_vars => MergeInv'
<1> SUFFICES ASSUME TypeOK, MergeInv, [Next]_vars, ~overrun' PROVE MergeInv'
  BY DEF MergeInv
<1>a. ~overrun
  BY DEF Next, HandleData, HandleHeartbeat, Finish, ArrivedInOrder, Previous, Stash, DuplicateStash,
      Future, Drain, Drained, CloseGap, HeartbeatAfterProgress, HeartbeatWithoutProgress,
      HeartbeatClosesGap, HeartbeatSearchesAgain, HeartbeatDone, Shutdown, ShutdownClosesGap,
      ShutdownDone, vars
<1>b. WindowInv /\ Increasing /\ Behind /\ received \subseteq Sent \cup Stashed
  BY <1>a DEF MergeInv
<1>c. stash \in [Slots -> Nat \cup {Nothing}] /\ expected \in Nat /\ TypeOK' BY TypeStep DEF TypeOK
<1>d. \A i \in Slots : Occupied(i) => stash[i] \in Nat BY <1>c DEF Occupied
<1>e. Nothing \notin Nat BY NothingAssumption
<1>1. ASSUME NEW sequence \in Numbers, ArrivedInOrder(sequence) PROVE MergeInv'
  <2>1. sequence \in Nat /\ expected' = sequence + 1 /\ out' = Append(out, sequence)
    BY <1>1, NumbersAssumption DEF ArrivedInOrder
  <2>2. expected <= sequence /\ (expected # 0 => sequence = expected)
    BY <1>1, <1>c, <2>1 DEF ArrivedInOrder, Expected
  <2>3. \A i \in DOMAIN out : out[i] < sequence
    <3>1. \A i \in DOMAIN out : out[i] \in Nat BY DEF TypeOK
    <3> QED BY <1>b, <1>c, <2>1, <2>2, <3>1 DEF Behind
  <2>4. Increasing' /\ Behind' /\ Sent' = Sent \cup {sequence} BY <1>b, <2>1, <2>3, SendNext
  <2>5. WindowInv'
    <3> SUFFICES ASSUME NEW i \in Slots, Occupied(i)
                 PROVE  Slot(stash[i]) = i /\ sequence + 1 <= stash[i] /\ stash[i] < sequence + 1 + LookAhead
      BY <1>1, <2>1, SlotType DEF WindowInv, ArrivedInOrder, Occupied
    <3>1. expected # 0 /\ sequence = expected BY <1>b, <2>2 DEF WindowInv
    <3>2. Slot(stash[i]) = i /\ expected <= stash[i] /\ stash[i] < expected + LookAhead BY <1>b DEF WindowInv
    <3>3. stash[i] # expected BY <1>1, <1>b, <3>2 DEF WindowInv, ArrivedInOrder
    <3> QED BY <1>c, <1>d, <3>1, <3>2, <3>3, LookAheadAssumption
  <2>6. received' = received \cup {sequence} /\ Stashed' = Stashed BY <1>1 DEF ArrivedInOrder, Stashed
  <2> QED BY <1>b, <2>4, <2>5, <2>6 DEF MergeInv
<1>2. ASSUME NEW sequence \in Numbers, Stash(sequence) PROVE MergeInv'
  <2>1. /\ sequence \in Nat /\ expected # 0 /\ expected < sequence /\ sequence < expected + LookAhead
        /\ ~Occupied(Slot(sequence)) /\ Slot(sequence) \in Slots
        /\ stash' = [stash EXCEPT ![Slot(sequence)] = sequence]
    BY <1>2, <1>c, SlotType, NumbersAssumption, LookAheadAssumption DEF Stash, InWindow, Expected
  <2>2. UNCHANGED <<expected, out, pc>> BY <1>2 DEF Stash
  <2>3. Slot(sequence) # Slot(expected)
    BY <1>c, <2>1, SlotsDiffer, LookAheadAssumption DEF Slot
  <2>4. WindowInv' BY <1>b, <1>c, <2>1, <2>2, <2>3, SlotType DEF WindowInv, Occupied
  <2>5. Stashed \cup {sequence} \subseteq Stashed'
    <3>1. \A i \in Slots : stash[i] # Nothing => stash'[i] = stash[i] BY <1>c, <2>1 DEF Occupied
    <3>2. stash'[Slot(sequence)] = sequence BY <1>c, <2>1
    <3> QED BY <1>e, <2>1, <3>1, <3>2 DEF Stashed
  <2>6. received' = received \cup {sequence} BY <1>2 DEF Stash
  <2> QED BY <1>b, <2>2, <2>4, <2>5, <2>6 DEF MergeInv, Increasing, Behind, Sent
<1>3. ASSUME NEW sequence \in Numbers, DuplicateStash(sequence) PROVE MergeInv'
  <2>1. /\ sequence \in Nat /\ expected < sequence /\ sequence < expected + LookAhead
        /\ Slot(sequence) \in Slots /\ Occupied(Slot(sequence))
    BY <1>b, <1>3, <1>c, SlotType, NumbersAssumption, LookAheadAssumption
    DEF DuplicateStash, InWindow, Expected, WindowInv
  <2>2. stash[Slot(sequence)] = sequence
    BY <1>b, <1>c, <1>d, <2>1, SlotsInWindow DEF WindowInv
  <2>3. sequence \in Stashed BY <1>e, <2>1, <2>2 DEF Stashed
  <2> QED BY <1>b, <1>3, <2>3
      DEF DuplicateStash, MergeInv, WindowInv, Increasing, Behind, Sent, Stashed, Occupied
<1>4. CASE Drain
  <2>1. Slot(expected) \in Slots /\ Occupied(Slot(expected)) BY <1>4, <1>c, SlotType DEF Drain
  <2>2. stash[Slot(expected)] = expected
    BY <1>b, <1>c, <1>d, <2>1, SlotsInWindow, LookAheadAssumption DEF WindowInv
  <2>3. /\ out' = Append(out, expected) /\ expected' = expected + 1
        /\ stash' = [stash EXCEPT ![Slot(expected)] = Nothing]
        /\ pc' = "drain" /\ received' = received
    BY <1>4, <2>2 DEF Drain
  <2>4. Increasing' /\ Behind' /\ Sent' = Sent \cup {expected} BY <1>b, <1>c, <2>3, SendNext DEF Behind
  <2>5. WindowInv'
    <3> SUFFICES ASSUME NEW i \in Slots, Occupied(i)'
                 PROVE  /\ Slot(stash[i]) = i /\ stash'[i] = stash[i]
                        /\ expected + 1 <= stash[i] /\ stash[i] < expected + 1 + LookAhead
      BY <1>b, <1>c, <2>1, <2>3 DEF WindowInv
    <3>1. i # Slot(expected) /\ stash'[i] = stash[i] /\ Occupied(i) BY <1>c, <2>1, <2>3 DEF Occupied
    <3>2. Slot(stash[i]) = i /\ expected <= stash[i] /\ stash[i] < expected + LookAhead
      BY <1>b, <3>1 DEF WindowInv
    <3>3. stash[i] # expected BY <3>1, <3>2
    <3> QED BY <1>c, <1>d, <3>1, <3>2, <3>3, LookAheadAssumption
  <2>6. Stashed \subseteq Stashed' \cup {expected}
    <3>1. \A i \in Slots : i # Slot(expected) => stash'[i] = stash[i] BY <1>c, <2>3
    <3> QED BY <2>2, <3>1 DEF Stashed
  <2> QED BY <1>b, <2>3, <2>4, <2>5, <2>6 DEF MergeInv
<1>5. CASE Drained
  BY <1>5, <1>b DEF Drained, MergeInv, WindowInv, Increasing, Behind, Sent, Stashed, Occupied
<1>6. ASSUME NEW why \in {"heartbeat", "shutdown"}, CloseGap(why) PROVE MergeInv'
  <2>1. PICK n \in Ahead : (\A m \in Ahead : n <= m) /\ expected' = expected + n /\ pc' = "drain"
    BY <1>6 DEF CloseGap
  <2>2. UNCHANGED <<stash, out, received>> BY <1>6 DEF CloseGap
  <2>3. n \in Nat /\ \E i \in Slots : Occupied(i)
    BY <1>c, SlotType, LookAheadAssumption DEF Ahead
  <2>4. expected # 0 BY <1>b, <2>3 DEF WindowInv
  <2>5. \A i \in Slots : Occupied(i) => expected + n <= stash[i] BY <1>b, <2>1, FirstIsLowest
  <2>6. WindowInv'
    <3>1. \A i \in Slots : Occupied(i) => stash[i] < expected + n + LookAhead
      BY <1>b, <1>c, <1>d, <2>3, LookAheadAssumption DEF WindowInv
    <3>2. expected + n # 0 BY <1>c, <2>3, <2>4
    <3> QED BY <1>b, <2>1, <2>2, <2>5, <3>1, <3>2 DEF WindowInv, Occupied
  <2>7. Behind'
    <3>1. \A i \in DOMAIN out : out[i] \in Nat BY DEF TypeOK
    <3> QED BY <1>b, <1>c, <2>1, <2>2, <2>3, <3>1 DEF Behind
  <2> QED BY <1>b, <2>2, <2>6, <2>7 DEF MergeInv, Increasing, Sent, Stashed
<1>7. CASE HeartbeatAfterProgress \/ HeartbeatWithoutProgress \/ HeartbeatDone \/ Shutdown \/ ShutdownDone
  <2>1. UNCHANGED <<stash, expected, out, received>> /\ pc # "drain"
    BY <1>7 DEF HeartbeatAfterProgress, HeartbeatWithoutProgress, HeartbeatDone, Shutdown, ShutdownDone
  <2> QED BY <1>b, <2>1 DEF MergeInv, WindowInv, Increasing, Behind, Sent, Stashed, Occupied
<1>8. CASE HeartbeatSearchesAgain \/ (\E sequence \in Numbers : Previous(sequence)) \/ UNCHANGED vars
  <2>1. UNCHANGED <<stash, expected, out, received, pc>>
    BY <1>8 DEF HeartbeatSearchesAgain, Previous, vars
  <2> QED BY <1>b, <2>1 DEF MergeInv, WindowInv, Increasing, Behind, Sent, Stashed, Occupied
<1>9. ASSUME NEW sequence \in Numbers, Future(sequence) PROVE FALSE BY <1>9 DEF Future
<1> QED BY <1>1, <1>2, <1>3, <1>4, <1>5, <1>6, <1>7, <1>8, <1>9
    DEF Next, HandleData, HandleHeartbeat, Finish, HeartbeatClosesGap, ShutdownClosesGap

\* The inductive invariant holds of every state.
THEOREM MergeInvCorrect == Spec => []MergeInv
<1>1. Init => TypeOK /\ MergeInv BY TypeInit, MergeInit
<1>2. TypeOK /\ MergeInv /\ [Next]_vars => (TypeOK /\ MergeInv)' BY TypeStep, MergeStep
<1> QED BY <1>1, <1>2, PTL DEF Spec

\* The output is sorted and free of duplicates, whatever the streams duplicate, delay
\* or drop, while no message comes from beyond the window.
THEOREM SortedCorrect == Spec => []Sorted
<1>1. MergeInv => Sorted BY DEF MergeInv, Sorted
<1> QED BY <1>1, MergeInvCorrect, PTL

\* A message that was not ancient when it came has been sent or is in the stash.
THEOREM NothingLostCorrect == Spec => []NothingLost
<1>1. MergeInv => NothingLost BY DEF MergeInv, NothingLost
<1> QED BY <1>1, MergeInvCorrect, PTL

\* When handleShutdown() passes the shutdown message on, the stash is empty, for
\* every size of the window.
THEOREM ShutdownFlushesCorrect == Spec => ShutdownFlushes
<1>1. TypeOK /\ [Next]_vars => [pc = "shutdown" /\ pc' = "idle" => Stashed = {}]_vars
  <2> SUFFICES ASSUME TypeOK, Next, pc = "shutdown", pc' = "idle" PROVE Stashed = {}
    OBVIOUS
  <2>1. ShutdownDone
    BY DEF Next, HandleData, HandleHeartbeat, Finish, ArrivedInOrder, Previous, Stash,
      DuplicateStash, Future, Drain, Drained, CloseGap, HeartbeatAfterProgress,
      HeartbeatWithoutProgress, HeartbeatClosesGap, HeartbeatSearchesAgain, HeartbeatDone,
      Shutdown, ShutdownClosesGap, vars
  <2> QED BY <2>1, SearchIsComplete DEF ShutdownDone, Stashed, Occupied
<1> QED BY <1>1, MergeTypeCorrect, PTL DEF Spec, ShutdownFlushes
=============================================================================
