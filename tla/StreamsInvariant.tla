-------------------------- MODULE StreamsInvariant --------------------------
(***************************************************************************)
(* What Streams keeps: where the Shuffler has its messages, and how far    *)
(* one stream can be ahead of the other when its messages reach the merge. *)
(***************************************************************************)
EXTENDS Streams

\* The slot that message n gets.
SlotOf(n) == ((n + 1) * Prime) % DeckSize
Sent == ToSet(packets[1])

SenderType ==
    /\ produced \in 0 .. MessageCount + 1 /\ branch \in Streams
    /\ produced > MessageCount => branch = 1
    /\ deck \in [Slots -> Numbers \cup {Nothing}]
    /\ position \in Nat
    /\ packets \in [Streams -> Seq(Numbers)]

\* No message is in two slots, or has been sent twice, or is both in the deck and sent.
Once ==
    /\ \A i, j \in Slots : deck[i] = deck[j] => deck[i] = Nothing \/ i = j
    /\ IsInjective(packets[1]) /\ Sent \cap InDeck = {}
Complete == Sent \cup InDeck = {n \in Numbers : n < Shuffled}
Flushed == produced > MessageCount \/ (produced = MessageCount /\ branch = 2) => InDeck = {}

\* Each slot has the last message that it was given; of those that have been sent, each
\* has had a successor in its slot.
Latest ==
    /\ position = Shuffled * Prime
    /\ \A i \in Slots : deck[i] # Nothing =>
           /\ SlotOf(deck[i]) = i
           /\ \A m \in Nat : deck[i] < m /\ m < Shuffled => SlotOf(m) # i
Overtaken == \A k \in Sent : \E m \in Nat : k < m /\ m < Shuffled /\ SlotOf(m) = SlotOf(k)
Ascending == \A i, j \in DOMAIN packets[1] : i < j => packets[1][i] < packets[1][j]

ShufflerInv ==
    /\ SenderType /\ Once /\ Complete /\ Flushed
    /\ Producing => Latest /\ Overtaken /\ Ascending
NeverShuffles == Producing => Ascending
-----------------------------------------------------------------------------
(* The two streams *)

\* Until the flush the Shuffler's packets are all the messages, the first one first, but
\* for those that are in the deck: after the flush this holds of the packets that a deck of
\* later messages has driven out.
Consecutive == Producing => \A i \in DOMAIN packets[1] : packets[1][i] = i - 1
DrivenOut(n) == n + 1 <= Len(packets[1]) /\ packets[1][n + 1] = n
Late == \A m \in Numbers : m < Shuffled => \A n \in Nat : n + DeckSize <= m => DrivenOut(n)

Delay == Consecutive /\ Late

\* The Leaker's packets begin with the very first message, and are not ahead of the
\* Shuffler's input.
Leaked ==
    /\ Producing => leakPosition = produced
    /\ packets[2] = <<>> => produced = 0
    /\ packets[2] # <<>> => packets[2][1] = 0
    /\ \A i \in DOMAIN packets[2] : packets[2][i] < Shuffled

SendersInv == ShufflerInv /\ Delay /\ Leaked
-----------------------------------------------------------------------------
(* The merge, on a reliable network *)

\* The numbers that are done with, or stashed, or in the queue before position j.
Before(j) == {n \in Nat : n < expected} \cup Merge!Stashed \cup {queue[i] : i \in 1 .. j - 1}
\* Those that must come before m: all that are a window behind, and the very first.
Due(m) == {n \in Nat : n + LookAhead <= m \/ (n = 0 /\ m # 0)}

NetworkInv ==
    \A s \in Streams : delivered[s] \in 0 .. Len(packets[s]) /\ Len(packets[s]) - delivered[s] <= MaxInFlight
\* What has been received is on its way to the merge or past it, and no message is ahead
\* of one that is due before it.
Arrived == \A s \in Streams : \A i \in 1 .. delivered[s] : packets[s][i] \in Before(Len(queue) + 1)
InReach == \A j \in DOMAIN queue : queue[j] # Heartbeat => Due(queue[j]) \subseteq Before(j)
\* The merge is in its window, and nobody shuts it down.
Merging ==
    /\ Merge!TypeOK /\ ~overrun
    /\ Merge!WindowInv /\ Merge!Increasing /\ Merge!Behind
    /\ pc # "shutdown" /\ caller # "shutdown"
\* What it has passed it has sent, or a heartbeat has given it up.
Passed == {n \in Nat : n < expected} \subseteq ToSet(out) \cup givenUp

MergedInv == queue \in Seq(Numbers \cup {Heartbeat}) /\ NetworkInv /\ Arrived /\ InReach /\ Merging /\ Passed

\* The inductive invariant behind Recovered, for a window that is large enough.
StreamsInv ==
    LookAhead >= DeckSize + MaxInFlight /\ network = "reliable" => SendersInv /\ MergedInv
=============================================================================
