---------------------------- MODULE StreamsProofs ----------------------------
(***************************************************************************)
(* What the Shuffler does to its messages, for every size of the deck,     *)
(* every prime and every number of messages: it loses none, and delays all *)
(* of them by the same number of others. And what the merge makes of the   *)
(* two streams, as long as its window is large enough.                     *)
(***************************************************************************)
EXTENDS StreamsInvariant, Remainders, SequenceTheorems, FiniteSetTheorems, TLAPS

\* A sequence that gets one more element.
LEMMA OneMore ==
    ASSUME NEW S, NEW s \in Seq(S), NEW x \in S
    PROVE  /\ s \o <<x>> \in Seq(S) /\ Len(s \o <<x>>) = Len(s) + 1
           /\ \A i \in 1 .. Len(s) : (s \o <<x>>)[i] = s[i]
           /\ (s \o <<x>>)[Len(s) + 1] = x
           /\ ToSet(s \o <<x>>) = ToSet(s) \cup {x}
<1>1. s \o <<x>> = Append(s, x) OBVIOUS
<1> QED BY <1>1, AppendProperties DEF ToSet

\* What has come round once comes round again from everywhere.
LEMMA SameDistance ==
    ASSUME NEW n \in Nat \ {0}, NEW a \in Nat, NEW b \in Nat, NEW x \in Nat, (a + x) % n = a % n
    PROVE  (b + x) % n = b % n
<1>1. PICK c \in Int : a = n * c + (a % n) BY Division
<1>2. a + x \in Nat OBVIOUS
<1>3. PICK d \in Int : a + x = n * d + ((a + x) % n) BY <1>2, Division
<1>4. PICK e \in Int : b = n * e + (b % n) BY Division
<1>5. a % n \in 0 .. n - 1 /\ b % n \in 0 .. n - 1 BY Division
<1>6. x = n * d - n * c BY <1>1, <1>3, <1>5
<1>7. n * (e + d - c) = n * e + n * d - n * c OBVIOUS
<1>8. b + x = n * (e + d - c) + (b % n) BY <1>4, <1>5, <1>6, <1>7
<1>9. b + x \in Nat /\ e + d - c \in Int OBVIOUS
<1> QED BY <1>5, <1>8, <1>9, Remainder
-----------------------------------------------------------------------------
(* The Shuffler *)

\* It implies what the runs check.
LEMMA InvGives == ShufflerInv => DeckKept /\ NeverShuffles
BY DEF ShufflerInv, SenderType, Once, Complete, Flushed, DeckKept, NeverShuffles, Sent
-----------------------------------------------------------------------------
(* The steps *)

\* Where a message is when it is Shuffled's turn.
LEMMA ShuffledType ==
    ASSUME SenderType
    PROVE  /\ Shuffled \in Nat
           /\ Producing => Shuffled <= MessageCount
           /\ Producing /\ branch = 1 => Shuffled = produced
BY ParametersAssumption DEF SenderType, Streams, Shuffled, Producing

\* Slots are slots.
LEMMA SlotType == ASSUME NEW n \in Nat PROVE (n + 1) * Prime \in Nat /\ SlotOf(n) \in Slots
<1>1. (n + 1) * Prime \in Nat BY ParametersAssumption
<1>2. SlotOf(n) \in 0 .. DeckSize - 1
  <2> DEFINE a == (n + 1) * Prime
  <2>1. a \in Nat BY <1>1
  <2> HIDE DEF a
  <2>2. a % DeckSize \in 0 .. DeckSize - 1 BY <2>1, ParametersAssumption
  <2> QED BY <2>2 DEF SlotOf, a
<1> QED BY <1>1, <1>2 DEF Slots

\* All messages wait for the same number of others.
LEMMA SameDelay ==
    ASSUME NEW k \in Nat, NEW r \in Nat, NEW d \in Nat, SlotOf(k + d) = SlotOf(k)
    PROVE  SlotOf(r + d) = SlotOf(r)
<1> DEFINE a == (k + 1) * Prime
           b == (r + 1) * Prime
           x == d * Prime
<1>1. a \in Nat /\ b \in Nat /\ x \in Nat /\ DeckSize \in Nat \ {0} BY ParametersAssumption
<1>2. (k + d + 1) * Prime = a + x /\ (r + d + 1) * Prime = b + x BY ParametersAssumption
<1>3. (a + x) % DeckSize = a % DeckSize BY <1>2 DEF SlotOf
<1> HIDE DEF a, b, x
<1>4. (b + x) % DeckSize = b % DeckSize
  <2>1. \A n \in Nat \ {0} : \A u, v, w \in Nat : (u + w) % n = u % n => (v + w) % n = v % n
    BY SameDistance
  <2>2. \A u, v, w \in Nat : (u + w) % DeckSize = u % DeckSize => (v + w) % DeckSize = v % DeckSize
    BY <1>1, <2>1
  <2>3. (a + x) % DeckSize = a % DeckSize => (b + x) % DeckSize = b % DeckSize
    BY <1>1, <2>2, ZenonT(30)
  <2> QED BY <1>3, <2>3
<1> QED BY <1>2, <1>4 DEF SlotOf, b

\* One more packet on the Shuffler's stream.
LEMMA SentOne ==
    ASSUME SenderType, NEW x \in Numbers, packets' = [packets EXCEPT ![1] = @ \o <<x>>]
    PROVE  /\ packets' \in [Streams -> Seq(Numbers)]
           /\ Len(packets[1]) \in Nat /\ DOMAIN packets[1] = 1 .. Len(packets[1])
           /\ DOMAIN packets'[1] = 1 .. Len(packets[1]) + 1
           /\ \A i \in 1 .. Len(packets[1]) : packets'[1][i] = packets[1][i]
           /\ packets'[1][Len(packets[1]) + 1] = x
           /\ Sent' = Sent \cup {x}
<1>1. packets[1] \in Seq(Numbers) BY DEF SenderType, Streams
<1>2. packets'[1] = packets[1] \o <<x>> BY DEF SenderType, Streams
<1>3. /\ packets'[1] \in Seq(Numbers) /\ Len(packets'[1]) = Len(packets[1]) + 1
      /\ \A i \in 1 .. Len(packets[1]) : packets'[1][i] = packets[1][i]
      /\ packets'[1][Len(packets[1]) + 1] = x
      /\ Sent' = Sent \cup {x}
  BY <1>1, <1>2, OneMore DEF Sent
<1>4. packets' \in [Streams -> Seq(Numbers)] BY <1>3 DEF SenderType, Streams
<1>5. Len(packets[1]) \in Nat /\ DOMAIN packets[1] = 1 .. Len(packets[1]) BY <1>1
<1>6. DOMAIN packets'[1] = 1 .. Len(packets[1]) + 1 BY <1>3, <1>5
<1> QED BY <1>3, <1>4, <1>5, <1>6

\* No packet on the Shuffler's stream.
LEMMA SentNone ==
    ASSUME SenderType, packets' = [packets EXCEPT ![1] = @ \o <<>>]
    PROVE  packets' = packets
<1>1. packets[1] \in Seq(Numbers) BY DEF SenderType, Streams
<1>2. packets[1] \o <<>> = packets[1] BY <1>1, ConcatEmptySeq
<1> QED BY <1>2 DEF SenderType, Streams

\* What has been sent, or is in the deck, has come.
LEMMA Came ==
    ASSUME SenderType, Complete
    PROVE  \A k \in Sent \cup InDeck : k \in Numbers /\ k \in Nat /\ k < Shuffled
BY DEF Complete, Numbers

\* The message that another one replaces comes after all that have been sent: it has
\* waited as long as they did.
LEMMA ReplacedIsNext ==
    ASSUME ShufflerInv, Producing, branch = 1, NEW i \in Slots, SlotOf(produced) = i, deck[i] # Nothing
    PROVE  \A k \in Sent : k < deck[i]
<1> DEFINE r == deck[i]
<1>1. SUFFICES ASSUME NEW k \in Sent, ~(k < r) PROVE FALSE OBVIOUS
<1>2. SenderType /\ Once /\ Complete /\ Latest /\ Overtaken BY DEF ShufflerInv
<1>3. r \in InDeck /\ r \in Nat /\ k \in Nat /\ Shuffled \in Nat
  BY <1>1, <1>2, Came, ShuffledType DEF InDeck
<1>4. k # r BY <1>1, <1>2, <1>3 DEF Once
<1>5. PICK m \in Nat : k < m /\ m < Shuffled /\ SlotOf(m) = SlotOf(k) BY <1>1, <1>2 DEF Overtaken
<1> DEFINE d == m - k
<1>6. d \in Nat /\ k + d = m /\ r + d \in Nat /\ r < r + d /\ r + d < Shuffled BY <1>1, <1>3, <1>4, <1>5
<1>7. SlotOf(k + d) = SlotOf(k) BY <1>5, <1>6
<1> HIDE DEF d
<1>8. SlotOf(r + d) = SlotOf(r) BY <1>3, <1>6, <1>7, SameDelay
<1>9. SlotOf(r) = i /\ SlotOf(r + d) # i BY <1>2, <1>6 DEF Latest
<1> QED BY <1>8, <1>9

\* The place of the next message.
LEMMA IndexOfNext ==
    ASSUME ShufflerInv, Producing, branch = 1
    PROVE  /\ Index = SlotOf(produced) /\ Index \in Slots /\ produced \in Numbers /\ produced \in Nat
           /\ Shuffled = produced /\ Advance = (produced + 1) * Prime
<1>1. SenderType /\ Latest BY DEF ShufflerInv
<1>2. Shuffled = produced /\ produced \in Nat BY <1>1, ShuffledType
<1>3. Advance = (produced + 1) * Prime
  <2>1. position = produced * Prime BY <1>1, <1>2 DEF Latest
  <2>2. (produced + 1) * Prime = produced * Prime + Prime BY <1>2, ParametersAssumption
  <2> QED BY <2>1, <2>2 DEF Advance
<1>4. produced \in Numbers BY <1>1, <1>2, ParametersAssumption DEF Producing, Numbers, SenderType
<1> QED BY <1>2, <1>3, <1>4, SlotType DEF Index, SlotOf
-----------------------------------------------------------------------------
\* The deck with a message in a slot: what it holds.
LEMMA Dealt ==
    ASSUME SenderType, Once, NEW i \in Slots, NEW n \in Numbers, deck' = [deck EXCEPT ![i] = n]
    PROVE  /\ deck' \in [Slots -> Numbers \cup {Nothing}]
           /\ deck'[i] = n /\ \A j \in Slots \ {i} : deck'[j] = deck[j]
           /\ InDeck' = (InDeck \ {deck[i]}) \cup {n}
<1>1. n # Nothing BY ParametersAssumption DEF Numbers
<1>2. deck'[i] = n /\ \A j \in Slots \ {i} : deck'[j] = deck[j] BY DEF SenderType
<1>3. deck' \in [Slots -> Numbers \cup {Nothing}] BY DEF SenderType
<1>4. InDeck' = {deck'[j] : j \in Slots} \ {Nothing} BY DEF InDeck
<1>5. InDeck' \subseteq (InDeck \ {deck[i]}) \cup {n}
  <2> SUFFICES ASSUME NEW j \in Slots, deck'[j] # Nothing, j # i
               PROVE  deck'[j] \in InDeck \ {deck[i]}
    BY <1>2, <1>4
  <2> QED BY <1>2 DEF InDeck, Once
<1>6. (InDeck \ {deck[i]}) \cup {n} \subseteq InDeck'
  <2>1. n \in InDeck' BY <1>1, <1>2, <1>4
  <2>2. ASSUME NEW j \in Slots, deck[j] # Nothing, deck[j] # deck[i] PROVE deck[j] \in InDeck'
    <3>1. j # i BY <2>2
    <3> QED BY <1>2, <1>4, <2>2, <3>1
  <2> QED BY <2>1, <2>2 DEF InDeck
<1> QED BY <1>2, <1>3, <1>5, <1>6

\* The deck without what was in a slot.
LEMMA Taken ==
    ASSUME SenderType, Once, NEW i \in Slots, deck' = [deck EXCEPT ![i] = Nothing]
    PROVE  /\ deck' \in [Slots -> Numbers \cup {Nothing}]
           /\ deck'[i] = Nothing /\ \A j \in Slots \ {i} : deck'[j] = deck[j]
           /\ InDeck' = InDeck \ {deck[i]}
<1>2. deck'[i] = Nothing /\ \A j \in Slots \ {i} : deck'[j] = deck[j] BY DEF SenderType
<1>3. deck' \in [Slots -> Numbers \cup {Nothing}] BY DEF SenderType
<1>4. InDeck' = {deck'[j] : j \in Slots} \ {Nothing} BY DEF InDeck
<1>5. InDeck' \subseteq InDeck \ {deck[i]}
  <2> SUFFICES ASSUME NEW j \in Slots, deck'[j] # Nothing, j # i
               PROVE  deck'[j] \in InDeck \ {deck[i]}
    BY <1>2, <1>4
  <2> QED BY <1>2 DEF InDeck, Once
<1>6. InDeck \ {deck[i]} \subseteq InDeck'
  <2>1. ASSUME NEW j \in Slots, deck[j] # Nothing, deck[j] # deck[i] PROVE deck[j] \in InDeck'
    <3>1. j # i BY <2>1
    <3> QED BY <1>2, <1>4, <2>1, <3>1
  <2> QED BY <2>1 DEF InDeck
<1> QED BY <1>2, <1>3, <1>5, <1>6

\* A packet that has not been sent before keeps the packets apart.
LEMMA SentApart ==
    ASSUME SenderType, IsInjective(packets[1]), NEW x \in Numbers, x \notin Sent,
           packets' = [packets EXCEPT ![1] = @ \o <<x>>]
    PROVE  IsInjective(packets'[1])
<1> DEFINE last == Len(packets[1]) + 1
<1>1. /\ Len(packets[1]) \in Nat /\ DOMAIN packets[1] = 1 .. Len(packets[1])
      /\ DOMAIN packets'[1] = 1 .. last
      /\ \A i \in 1 .. Len(packets[1]) : packets'[1][i] = packets[1][i]
      /\ packets'[1][last] = x
  BY SentOne
<1>2. \A i \in 1 .. Len(packets[1]) : packets[1][i] # x
  <2>1. packets[1] \in Seq(Numbers) BY DEF SenderType, Streams
  <2>2. \A i \in 1 .. Len(packets[1]) : packets[1][i] \in Sent BY <2>1 DEF Sent, ToSet
  <2> QED BY <2>2
<1>3. SUFFICES ASSUME NEW i \in 1 .. last, NEW j \in 1 .. last, packets'[1][i] = packets'[1][j] PROVE i = j
  BY <1>1 DEF IsInjective
<1>4. CASE i = last /\ j = last BY <1>4
<1>5. CASE i # last /\ j # last
  <2>1. i \in 1 .. Len(packets[1]) /\ j \in 1 .. Len(packets[1]) BY <1>1, <1>5
  <2> QED BY <1>1, <1>3, <2>1 DEF IsInjective
<1>6. CASE i = last /\ j # last
  <2>1. j \in 1 .. Len(packets[1]) BY <1>1, <1>6
  <2> QED BY <1>1, <1>2, <1>3, <1>6, <2>1
<1>7. CASE i # last /\ j = last
  <2>1. i \in 1 .. Len(packets[1]) BY <1>1, <1>7
  <2> QED BY <1>1, <1>2, <1>3, <1>7, <2>1
<1> QED BY <1>4, <1>5, <1>6, <1>7

\* What the packets of the Shuffler's stream become when a message is shuffled in.
LEMMA ShuffleSends ==
    ASSUME ShufflerInv, Shuffle
    PROVE  /\ packets' \in [Streams -> Seq(Numbers)]
           /\ IsInjective(packets'[1])
           /\ Sent' = IF deck[Index] = Nothing THEN Sent ELSE Sent \cup {deck[Index]}
           /\ Ascending'
<1> DEFINE r == deck[Index]
<1>1. /\ SenderType /\ Once /\ Complete /\ Latest /\ Overtaken /\ Ascending
      /\ Producing /\ branch = 1 /\ packets' = [packets EXCEPT ![1] = @ \o Replaced]
  BY DEF ShufflerInv, Shuffle, SendPackets
<1>2. Index \in Slots /\ Index = SlotOf(produced) BY <1>1, IndexOfNext
<1>3. CASE r = Nothing
  <2>1. packets' = packets BY <1>1, <1>3, SentNone DEF Replaced
  <2> QED BY <1>1, <1>3, <2>1 DEF SenderType, Once, Sent, Ascending
<1>4. CASE r # Nothing
  <2>1. r \in InDeck /\ r \in Numbers /\ r \in Nat /\ r \notin Sent
    BY <1>1, <1>2, <1>4, Came DEF InDeck, Once
  <2>2. packets' = [packets EXCEPT ![1] = @ \o <<r>>] BY <1>1, <1>4 DEF Replaced
  <2> HIDE DEF r
  <2>3. IsInjective(packets'[1]) BY <1>1, <2>1, <2>2, SentApart DEF Once
  <2>4. /\ packets' \in [Streams -> Seq(Numbers)]
        /\ Len(packets[1]) \in Nat /\ DOMAIN packets[1] = 1 .. Len(packets[1])
        /\ DOMAIN packets'[1] = 1 .. Len(packets[1]) + 1
        /\ \A i \in 1 .. Len(packets[1]) : packets'[1][i] = packets[1][i]
        /\ packets'[1][Len(packets[1]) + 1] = r
        /\ Sent' = Sent \cup {r}
    BY <1>1, <2>1, <2>2, SentOne
  <2>5. \A i \in 1 .. Len(packets[1]) : packets[1][i] < r
    <3>1. \A k \in Sent : k < r BY <1>1, <1>2, <1>4, ReplacedIsNext DEF r
    <3>2. \A i \in 1 .. Len(packets[1]) : packets[1][i] \in Sent BY <2>4 DEF Sent, ToSet
    <3> QED BY <3>1, <3>2
  <2>6. Ascending'
    <3> SUFFICES ASSUME NEW i \in 1 .. Len(packets[1]) + 1, NEW j \in 1 .. Len(packets[1]) + 1, i < j
                 PROVE  packets'[1][i] < packets'[1][j]
      BY <2>4 DEF Ascending
    <3>1. i \in 1 .. Len(packets[1]) BY <2>4
    <3>2. CASE j = Len(packets[1]) + 1 BY <2>4, <2>5, <3>1, <3>2
    <3>3. CASE j # Len(packets[1]) + 1
      <4>1. j \in 1 .. Len(packets[1]) BY <2>4, <3>3
      <4> QED BY <1>1, <2>4, <3>1, <4>1 DEF Ascending
    <3> QED BY <3>2, <3>3
  <2> QED BY <1>4, <2>3, <2>4, <2>6 DEF r
<1> QED BY <1>3, <1>4

\* A message is shuffled in: all the parts of the invariant.
LEMMA ShuffleStep == ShufflerInv /\ Shuffle => ShufflerInv'
<1> SUFFICES ASSUME ShufflerInv, Shuffle PROVE ShufflerInv' OBVIOUS
<1> DEFINE r == deck[Index]
           n == produced
<1>1. /\ SenderType /\ Once /\ Complete /\ Flushed /\ Latest /\ Overtaken
      /\ Producing /\ branch = 1
      /\ deck' = [deck EXCEPT ![Index] = n] /\ position' = Advance
      /\ produced' = produced /\ branch' = 2
  BY DEF ShufflerInv, Shuffle, FanOutNext
<1>2. /\ Index = SlotOf(n) /\ Index \in Slots /\ n \in Numbers /\ n \in Nat
      /\ Shuffled = n /\ Advance = (n + 1) * Prime
  BY <1>1, IndexOfNext
<1>3. Shuffled' = n + 1 BY <1>1, <1>2 DEF Shuffled, Producing
<1>4. /\ packets' \in [Streams -> Seq(Numbers)] /\ IsInjective(packets'[1])
      /\ Sent' = (IF r = Nothing THEN Sent ELSE Sent \cup {r}) /\ Ascending'
  BY ShuffleSends
<1>5. /\ deck' \in [Slots -> Numbers \cup {Nothing}]
      /\ deck'[Index] = n /\ \A j \in Slots \ {Index} : deck'[j] = deck[j]
      /\ InDeck' = (InDeck \ {r}) \cup {n}
  BY <1>1, <1>2, Dealt
<1>6. n # Nothing /\ n \notin InDeck /\ n \notin Sent
  <2>1. n # Nothing BY <1>2, ParametersAssumption
  <2>2. \A k \in Sent \cup InDeck : k < n BY <1>1, <1>2, Came
  <2> QED BY <1>2, <2>1, <2>2
<1>7. r # Nothing => r \in InDeck /\ r \in Nat /\ r < n /\ r \notin Sent
  BY <1>1, <1>2, Came DEF InDeck, Once
<1> HIDE DEF r, n
<1>8. SenderType'
  <2>1. position' \in Nat BY <1>1, <1>2, SlotType
  <2>2. produced' \in 0 .. MessageCount + 1 /\ branch' \in Streams
        /\ (produced' > MessageCount => branch' = 1)
    BY <1>1, ParametersAssumption DEF SenderType, Streams, Producing
  <2> QED BY <1>4, <1>5, <2>1, <2>2 DEF SenderType
<1>9. Once'
  <2>1. Sent' \cap InDeck' = {} BY <1>1, <1>4, <1>5, <1>6, <1>7 DEF Once
  <2>2. ASSUME NEW i \in Slots, NEW j \in Slots, deck'[i] = deck'[j]
        PROVE  deck'[i] = Nothing \/ i = j
    <3>1. \A k \in Slots : deck[k] # n BY <1>6 DEF InDeck
    <3>2. CASE i # Index /\ j # Index BY <1>1, <1>5, <2>2, <3>2 DEF Once
    <3>3. CASE i = Index \/ j = Index BY <1>5, <2>2, <3>1, <3>3
    <3> QED BY <3>2, <3>3
  <2> QED BY <1>4, <2>1, <2>2 DEF Once
<1>10. Complete'
  <2>1. Sent' \cup InDeck' = Sent \cup InDeck \cup {n}
    BY <1>4, <1>5, <1>7, <1>1 DEF InDeck
  <2>2. {k \in Numbers : k < n + 1} = {k \in Numbers : k < n} \cup {n}
    BY <1>2, ParametersAssumption DEF Numbers
  <2> QED BY <1>1, <1>2, <1>3, <2>1, <2>2 DEF Complete
<1>11. Flushed' BY <1>1, ParametersAssumption DEF Flushed, Producing, SenderType
<1>12. Latest'
  <2>1. position' = Shuffled' * Prime BY <1>1, <1>2, <1>3
  <2>2. ASSUME NEW i \in Slots, deck'[i] # Nothing
        PROVE  SlotOf(deck'[i]) = i /\ \A m \in Nat : deck'[i] < m /\ m < n + 1 => SlotOf(m) # i
    <3>1. CASE i = Index BY <1>2, <1>5, <3>1
    <3>2. CASE i # Index
      <4>1. deck'[i] = deck[i] BY <1>5, <3>2
      <4>2. SlotOf(deck[i]) = i /\ \A m \in Nat : deck[i] < m /\ m < n => SlotOf(m) # i
        BY <1>1, <1>2, <2>2, <4>1 DEF Latest
      <4>3. \A m \in Nat : m < n + 1 => m < n \/ m = n BY <1>2
      <4> QED BY <1>2, <3>2, <4>1, <4>2, <4>3
    <3> QED BY <3>1, <3>2
  <2> QED BY <1>3, <2>1, <2>2 DEF Latest, SlotOf
<1>13. Overtaken'
  <2>1. SUFFICES ASSUME NEW k \in Sent'
                 PROVE  \E m \in Nat : k < m /\ m < n + 1 /\ SlotOf(m) = SlotOf(k)
    BY <1>3 DEF Overtaken, SlotOf
  <2>2. CASE k \in Sent
    <3>1. PICK m \in Nat : k < m /\ m < n /\ SlotOf(m) = SlotOf(k) BY <1>1, <1>2, <2>2 DEF Overtaken
    <3>2. m < n + 1 BY <1>2, <3>1
    <3> QED BY <3>1, <3>2
  <2>3. CASE k \notin Sent
    <3>1. r # Nothing /\ k = r BY <1>4, <2>1, <2>3
    <3>2. SlotOf(r) = Index BY <1>1, <1>2, <3>1 DEF Latest, r
    <3>3. r < n /\ n < n + 1 /\ SlotOf(n) = SlotOf(r) BY <1>2, <1>7, <3>1, <3>2
    <3> QED BY <1>2, <3>1, <3>3
  <2> QED BY <2>2, <2>3
<1> QED BY <1>4, <1>8, <1>9, <1>10, <1>11, <1>12, <1>13 DEF ShufflerInv

\* The flush moves a message from the deck to the stream.
LEMMA FlushDeckStep == ShufflerInv /\ FlushDeck => ShufflerInv'
<1> SUFFICES ASSUME ShufflerInv, FlushDeck PROVE ShufflerInv' OBVIOUS
<1>1. PICK i \in Pending : /\ packets' = [packets EXCEPT ![1] = @ \o <<deck[i]>>]
                           /\ deck' = [deck EXCEPT ![i] = Nothing]
  BY DEF FlushDeck, SendPackets
<1>2. /\ SenderType /\ Once /\ Complete /\ Flushed /\ ShuttingDown /\ branch = 1
      /\ produced' = produced /\ branch' = branch /\ position' = position
  BY DEF ShufflerInv, FlushDeck
<1> DEFINE r == deck[i]
<1>3. i \in Slots /\ r # Nothing BY <1>1 DEF Pending
<1>4. r \in InDeck /\ r \in Numbers /\ r \notin Sent
  BY <1>2, <1>3, Came DEF InDeck, Once
<1>5. /\ deck' \in [Slots -> Numbers \cup {Nothing}]
      /\ deck'[i] = Nothing /\ \A j \in Slots \ {i} : deck'[j] = deck[j]
      /\ InDeck' = InDeck \ {r}
  BY <1>1, <1>2, <1>3, Taken
<1>6. packets' = [packets EXCEPT ![1] = @ \o <<r>>] BY <1>1
<1> HIDE DEF r
<1>7. packets' \in [Streams -> Seq(Numbers)] /\ Sent' = Sent \cup {r} BY <1>2, <1>4, <1>6, SentOne
<1>8. IsInjective(packets'[1]) BY <1>2, <1>4, <1>6, SentApart DEF Once
<1>9. ~Producing /\ ~Producing' /\ Shuffled' = Shuffled
  BY <1>2, ParametersAssumption DEF ShuttingDown, Producing, Shuffled
<1>10. SenderType' BY <1>2, <1>5, <1>7 DEF SenderType
<1>11. Once'
  <2>1. Sent' \cap InDeck' = {} BY <1>2, <1>5, <1>7 DEF Once
  <2>2. \A j, k \in Slots : deck'[j] = deck'[k] => deck'[j] = Nothing \/ j = k
    BY <1>2, <1>5 DEF Once
  <2> QED BY <1>8, <2>1, <2>2 DEF Once
<1>12. Complete'
  <2>1. Sent' \cup InDeck' = Sent \cup InDeck BY <1>4, <1>5, <1>7
  <2> QED BY <1>2, <1>9, <2>1 DEF Complete
<1>13. Flushed' BY <1>2, <1>5 DEF Flushed
<1> QED BY <1>9, <1>10, <1>11, <1>12, <1>13 DEF ShufflerInv

\* What a step does that leaves the deck and the Shuffler's stream alone: only the
\* number of the messages matters.
LEMMA KeepsShuffler ==
    ASSUME ShufflerInv, SenderType', Flushed', UNCHANGED <<deck, position>>,
           packets'[1] = packets[1], Shuffled' = Shuffled, Producing' => Producing
    PROVE  ShufflerInv'
<1>1. Sent' = Sent /\ InDeck' = InDeck BY DEF Sent, InDeck
<1>2. Once' BY <1>1 DEF ShufflerInv, Once
<1>3. Complete' BY <1>1 DEF ShufflerInv, Complete
<1>4. Producing' => Latest' /\ Overtaken' /\ Ascending'
  BY <1>1 DEF ShufflerInv, Latest, Overtaken, Ascending, SlotOf
<1> QED BY <1>2, <1>3, <1>4 DEF ShufflerInv

\* The Shuffler's part of a shutdown: the deck is empty.
LEMMA ShuffleShutdownStep == ShufflerInv /\ ShuffleShutdown => ShufflerInv'
<1> SUFFICES ASSUME ShufflerInv, ShuffleShutdown PROVE ShufflerInv' OBVIOUS
<1>1. /\ SenderType /\ produced = MessageCount /\ branch = 1 /\ Pending = {}
      /\ produced' = produced /\ branch' = 2 /\ UNCHANGED <<deck, position, packets>>
  BY DEF ShufflerInv, ShuffleShutdown, FanOutNext, ShuttingDown
<1>2. InDeck' = {} BY <1>1 DEF InDeck, Pending
<1>3. Flushed' BY <1>2 DEF Flushed
<1>4. SenderType' BY <1>1, ParametersAssumption DEF SenderType, Streams
<1>5. ~Producing /\ ~Producing' /\ Shuffled' = Shuffled
  BY <1>1, ParametersAssumption DEF Producing, Shuffled
<1> QED BY <1>1, <1>3, <1>4, <1>5, KeepsShuffler

\* The Leaker's turn: the other stream.
LEMMA LeakStep == ShufflerInv /\ Leak => ShufflerInv'
<1> SUFFICES ASSUME ShufflerInv, Leak PROVE ShufflerInv' OBVIOUS
<1>1. /\ SenderType /\ produced < MessageCount /\ branch = 2
      /\ produced' = produced + 1 /\ branch' = 1 /\ UNCHANGED <<deck, position>>
      /\ packets' = [packets EXCEPT ![2] = @ \o (IF Leaks THEN <<>> ELSE <<produced>>)]
  BY DEF ShufflerInv, Leak, FanOutNext, Producing, SendPackets
<1>2. produced \in Numbers /\ produced' \in 0 .. MessageCount + 1 /\ ~(produced' > MessageCount)
  BY <1>1, ParametersAssumption DEF SenderType, Numbers
<1>3. packets'[1] = packets[1] /\ packets' \in [Streams -> Seq(Numbers)]
  <2>1. packets[2] \in Seq(Numbers) BY <1>1 DEF SenderType, Streams
  <2>2. packets[2] \o <<produced>> \in Seq(Numbers) BY <1>2, <2>1, OneMore
  <2>3. packets[2] \o <<>> \in Seq(Numbers) BY <2>1, ConcatEmptySeq
  <2>4. packets[2] \o (IF Leaks THEN <<>> ELSE <<produced>>) \in Seq(Numbers) BY <2>2, <2>3
  <2> QED BY <1>1, <2>4 DEF SenderType, Streams
<1>4. SenderType' BY <1>1, <1>2, <1>3 DEF SenderType, Streams
<1>5. Flushed' BY <1>1, <1>2 DEF Flushed
<1>6. Shuffled' = Shuffled
  BY <1>1, <1>2, ParametersAssumption DEF Shuffled, Producing, SenderType
<1>7. Producing BY <1>1 DEF Producing
<1> QED BY <1>1, <1>3, <1>4, <1>5, <1>6, <1>7, KeepsShuffler

\* The Leaker's part of a shutdown.
LEMMA LeakShutdownStep == ShufflerInv /\ LeakShutdown => ShufflerInv'
<1> SUFFICES ASSUME ShufflerInv, LeakShutdown PROVE ShufflerInv' OBVIOUS
<1>1. /\ SenderType /\ produced = MessageCount /\ branch = 2
      /\ produced' = produced + 1 /\ branch' = 1 /\ UNCHANGED <<deck, position, packets>>
  BY DEF ShufflerInv, LeakShutdown, FanOutNext, ShuttingDown
<1>2. InDeck' = {} BY <1>1 DEF ShufflerInv, Flushed, InDeck
<1>3. Flushed' BY <1>2 DEF Flushed
<1>4. SenderType' BY <1>1, ParametersAssumption DEF SenderType, Streams
<1>5. ~Producing /\ ~Producing' BY <1>1, ParametersAssumption DEF Producing
<1>6. Complete'
  <2>1. \A k \in Numbers : k < MessageCount /\ k < MessageCount + 1 BY ParametersAssumption DEF Numbers
  <2>2. Shuffled = MessageCount /\ Shuffled' = MessageCount + 1
    BY <1>1, <1>5, ParametersAssumption DEF Shuffled
  <2>3. Sent' = Sent BY <1>1 DEF Sent
  <2>4. InDeck' = InDeck BY <1>1 DEF InDeck
  <2> QED BY <2>1, <2>2, <2>3, <2>4 DEF ShufflerInv, Complete
<1>7. Once' BY <1>1 DEF ShufflerInv, Once, Sent, InDeck
<1> QED BY <1>3, <1>4, <1>5, <1>6, <1>7 DEF ShufflerInv

\* The others do not touch what the senders have.
LEMMA OthersStep == ShufflerInv /\ UNCHANGED senderVars => ShufflerInv'
<1> SUFFICES ASSUME ShufflerInv, UNCHANGED senderVars PROVE ShufflerInv' OBVIOUS
<1>1. UNCHANGED <<produced, branch, deck, position, packets>> BY DEF senderVars
<1>2. SenderType' BY <1>1 DEF ShufflerInv, SenderType
<1>3. Flushed' BY <1>1 DEF ShufflerInv, Flushed, InDeck
<1>4. Shuffled' = Shuffled /\ Producing' = Producing BY <1>1 DEF Shuffled, Producing
<1> QED BY <1>1, <1>2, <1>3, <1>4, KeepsShuffler

\* At first there is no message.
LEMMA ShufflerInit == Init => ShufflerInv
<1> SUFFICES ASSUME Init PROVE ShufflerInv OBVIOUS
<1>1. /\ produced = 0 /\ branch = 1 /\ deck = [i \in Slots |-> Nothing] /\ position = 0
      /\ packets = [s \in Streams |-> <<>>]
  BY DEF Init
<1>2. InDeck = {} BY <1>1 DEF InDeck
<1>3. packets[1] = <<>> BY <1>1 DEF Streams
<1>4. Sent = {} /\ DOMAIN packets[1] = {} BY <1>3 DEF Sent, ToSet
<1>5. Shuffled = 0 BY <1>1 DEF Shuffled
<1>6. SenderType
  <2>1. <<>> \in Seq(Numbers) OBVIOUS
  <2> QED BY <1>1, <2>1, ParametersAssumption DEF SenderType, Streams
<1>7. Once BY <1>1, <1>2, <1>4 DEF Once, IsInjective
<1>8. Complete BY <1>2, <1>4, <1>5, ParametersAssumption DEF Complete, Numbers
<1>9. Flushed BY <1>2 DEF Flushed
<1>10. Latest /\ Overtaken /\ Ascending
  <2>1. position = Shuffled * Prime BY <1>1, <1>5, ParametersAssumption
  <2> QED BY <1>1, <1>4, <2>1 DEF Latest, Overtaken, Ascending
<1> QED BY <1>6, <1>7, <1>8, <1>9, <1>10 DEF ShufflerInv

\* The invariant holds in every state.
LEMMA ShufflerInvHolds == Spec => []ShufflerInv
<1>1. ShufflerInv /\ [Next]_vars => ShufflerInv'
  <2> SUFFICES ASSUME ShufflerInv, [Next]_vars PROVE ShufflerInv' OBVIOUS
  <2>1. CASE Shuffle BY <2>1, ShuffleStep
  <2>2. CASE FlushDeck BY <2>2, FlushDeckStep
  <2>3. CASE ShuffleShutdown BY <2>3, ShuffleShutdownStep
  <2>4. CASE Leak BY <2>4, LeakStep
  <2>5. CASE LeakShutdown BY <2>5, LeakShutdownStep
  <2>6. CASE Consume
    <3>1. UNCHANGED senderVars BY <2>6 DEF Consume, Handle, HandleFurther
    <3> QED BY <3>1, OthersStep
  <2>7. CASE SendHeartbeat
    <3>1. UNCHANGED senderVars BY <2>7 DEF SendHeartbeat
    <3> QED BY <3>1, OthersStep
  <2>8. CASE \E s \in Streams : ReceiveNext(s) \/ ReceiveAny(s) \/ ReceiveError(s)
    <3>1. UNCHANGED senderVars BY <2>8 DEF ReceiveNext, ReceiveAny, ReceiveError, Receive
    <3> QED BY <3>1, OthersStep
  <2>9. CASE UNCHANGED vars
    <3>1. UNCHANGED senderVars BY <2>9 DEF vars
    <3> QED BY <3>1, OthersStep
  <2> QED BY <2>1, <2>2, <2>3, <2>4, <2>5, <2>6, <2>7, <2>8, <2>9 DEF Next, Produce
<1> QED BY <1>1, ShufflerInit, PTL DEF Spec
-----------------------------------------------------------------------------
\* Shuffler (Shuffler.cpp) neither loses a message nor sends one twice, and a shutdown
\* leaves none in the deck.
THEOREM DeckKeptCorrect == Spec => []DeckKept
BY ShufflerInvHolds, InvGives, PTL

\* Although it is to "send messages out of order" (Shuffler.cpp), the Shuffler only delays
\* them: until the flush none overtakes another, for no size of the deck and no prime.
THEOREM NeverShufflesCorrect == Spec => []NeverShuffles
BY ShufflerInvHolds, InvGives, PTL
-----------------------------------------------------------------------------
(* The two streams *)

\* A message gets the slot of the one DeckSize before it.
LEMMA SlotAgain == ASSUME NEW n \in Nat PROVE SlotOf(n + DeckSize) = SlotOf(n)
<1> DEFINE a == (n + 1) * Prime
           b == a + DeckSize * Prime
<1>1. a \in Nat /\ b \in Nat /\ DeckSize \in Nat \ {0} /\ (n + DeckSize + 1) * Prime = b
  BY ParametersAssumption
<1>2. PICK d \in Int : a = DeckSize * d + (a % DeckSize)
  <2> HIDE DEF a
  <2> QED BY <1>1, Division
<1>3. d + Prime \in Int /\ b = DeckSize * (d + Prime) + (a % DeckSize)
  BY <1>1, <1>2, ParametersAssumption
<1>4. a % DeckSize \in 0 .. DeckSize - 1
  <2> HIDE DEF a
  <2> QED BY <1>1
<1> HIDE DEF a, b
<1>5. b % DeckSize = a % DeckSize BY <1>1, <1>3, <1>4, Remainder
<1> QED BY <1>1, <1>5 DEF SlotOf, a

\* A message stays in the deck until the next one for its slot.
LEMMA DeckHasLatest ==
    ASSUME ShufflerInv, Producing, NEW r \in InDeck, NEW d \in Nat \ {0}, SlotOf(r + d) = SlotOf(r)
    PROVE  Shuffled <= r + d
<1>1. SenderType /\ Complete /\ Latest BY DEF ShufflerInv
<1>2. r \in Nat /\ Shuffled \in Nat /\ r + d \in Nat /\ r < r + d BY <1>1, Came, ShuffledType
<1>3. PICK i \in Slots : deck[i] = r /\ deck[i] # Nothing BY DEF InDeck
<1>4. SlotOf(r) = i /\ \A m \in Nat : r < m /\ m < Shuffled => SlotOf(m) # i BY <1>1, <1>3 DEF Latest
<1> QED BY <1>2, <1>4

\* Until the flush the Shuffler has sent the first Len(packets[1]) messages.
LEMMA SentFirst ==
    ASSUME SenderType, Consecutive, Producing
    PROVE  Len(packets[1]) \in Nat /\ \A k \in Nat : k \in Sent <=> k < Len(packets[1])
<1>1. packets[1] \in Seq(Numbers) BY DEF SenderType, Streams
<1>2. Len(packets[1]) \in Nat /\ DOMAIN packets[1] = 1 .. Len(packets[1]) BY <1>1
<1>3. \A i \in 1 .. Len(packets[1]) : packets[1][i] = i - 1 BY <1>2 DEF Consecutive
<1>4. ASSUME NEW k \in Nat PROVE k \in Sent <=> k < Len(packets[1])
  <2>1. k \in Sent => k < Len(packets[1]) BY <1>2, <1>3 DEF Sent, ToSet
  <2>2. ASSUME k < Len(packets[1]) PROVE k \in Sent
    <3>1. k + 1 \in DOMAIN packets[1] /\ packets[1][k + 1] = k BY <1>2, <1>3, <2>2
    <3> QED BY <3>1 DEF Sent, ToSet
  <2> QED BY <2>1, <2>2
<1> QED BY <1>2, <1>4

\* So the one that leaves the deck now is the next.
LEMMA ReplacedFollows ==
    ASSUME ShufflerInv, Consecutive, Producing, branch = 1, deck[Index] # Nothing
    PROVE  deck[Index] = Len(packets[1])
<1> DEFINE r == deck[Index]  n == Len(packets[1])  d == produced - r
<1>1. SenderType /\ Once /\ Complete /\ Latest BY DEF ShufflerInv
<1>2. Index \in Slots /\ Index = SlotOf(produced) /\ Shuffled = produced /\ produced \in Nat /\ produced \in Numbers
  BY IndexOfNext
<1>3. r \in InDeck BY <1>2 DEF InDeck
<1>4. r \in Nat /\ r < produced /\ r \notin Sent BY <1>1, <1>2, <1>3, Came DEF Once
<1>5. n \in Nat /\ n <= r /\ n \notin Sent BY <1>1, <1>4, SentFirst
<1>6. ASSUME n < r PROVE FALSE
  <2>1. n \in InDeck
    <3>1. n \in Numbers /\ n < Shuffled BY <1>2, <1>4, <1>5, <1>6, ParametersAssumption DEF Numbers
    <3> QED BY <1>1, <1>5, <3>1 DEF Complete
  <2>2. d \in Nat \ {0} /\ r + d = produced BY <1>2, <1>4
  <2>3. SlotOf(r) = Index BY <1>1, <1>2 DEF Latest
  <2>4. SlotOf(r + d) = SlotOf(r) BY <1>2, <2>2, <2>3
  <2> HIDE DEF r, n, d
  <2>5. SlotOf(n + d) = SlotOf(n) BY <1>4, <1>5, <2>2, <2>4, SameDelay
  <2>6. Shuffled <= n + d BY <2>1, <2>2, <2>5, DeckHasLatest
  <2> QED BY <1>2, <1>4, <1>5, <1>6, <2>2, <2>6
<1> QED BY <1>4, <1>5, <1>6

\* ... and those that are a deck behind have been driven out.
LEMMA LateFollows == ShufflerInv /\ Consecutive /\ Producing => Late
<1> SUFFICES ASSUME ShufflerInv, Consecutive, Producing,
                    NEW m \in Numbers, m < Shuffled, NEW n \in Nat, n + DeckSize <= m
             PROVE  DrivenOut(n)
  BY DEF Late
<1>1. SenderType /\ Complete /\ Shuffled \in Nat /\ m \in Nat /\ DeckSize \in Nat \ {0}
  BY ShuffledType, ParametersAssumption DEF ShufflerInv, Numbers
<1>2. n \in Numbers /\ n < Shuffled /\ n + DeckSize < Shuffled BY <1>1, ParametersAssumption DEF Numbers
<1>3. n \notin InDeck
  <2>1. SlotOf(n + DeckSize) = SlotOf(n) BY SlotAgain
  <2>2. n \in InDeck => Shuffled <= n + DeckSize BY <1>1, <2>1, DeckHasLatest
  <2> QED BY <1>1, <1>2, <2>2
<1>4. n \in Sent BY <1>1, <1>2, <1>3 DEF Complete
<1>5. Len(packets[1]) \in Nat /\ n < Len(packets[1]) BY <1>1, <1>4, SentFirst
<1>6. n + 1 \in DOMAIN packets[1]
  <2>1. packets[1] \in Seq(Numbers) BY <1>1 DEF SenderType, Streams
  <2> QED BY <1>5, <2>1
<1>7. packets[1][n + 1] = n + 1 - 1 BY <1>6 DEF Consecutive
<1> QED BY <1>5, <1>7 DEF DrivenOut

\* What the senders do to the network: each stream gets longer at its end.
Grow ==
    \A s \in Streams :
        /\ Len(packets[s]) \in Nat /\ Len(packets'[s]) \in Nat /\ Len(packets[s]) <= Len(packets'[s])
        /\ \A i \in 1 .. Len(packets[s]) : packets'[s][i] = packets[s][i]
LEMMA SendGrows ==
    ASSUME SenderType, NEW t \in Streams, NEW new \in Seq(Numbers), packets' = [packets EXCEPT ![t] = @ \o new]
    PROVE  Grow
<1> SUFFICES ASSUME NEW s \in Streams
             PROVE  /\ Len(packets[s]) \in Nat /\ Len(packets'[s]) \in Nat /\ Len(packets[s]) <= Len(packets'[s])
                    /\ \A i \in 1 .. Len(packets[s]) : packets'[s][i] = packets[s][i]
  BY DEF Grow
<1>1. packets[s] \in Seq(Numbers) /\ Len(packets[s]) \in Nat BY DEF SenderType
<1>2. CASE s = t
  <2>1. packets'[s] = packets[s] \o new BY <1>2 DEF SenderType
  <2> QED BY <1>1, <2>1, ConcatProperties
<1>3. CASE s # t
  <2>1. packets'[s] = packets[s] BY <1>3 DEF SenderType
  <2> QED BY <1>1, <2>1
<1> QED BY <1>2, <1>3

\* What each step of the producer's thread sends.
LEMMA Sends ==
    ASSUME ShufflerInv, Produce
    PROVE  \/ UNCHANGED packets
           \/ \E t \in Streams, new \in Seq(Numbers) :
                  packets' = [packets EXCEPT ![t] = @ \o new]
                  /\ (network = "reliable" => Len(packets'[t]) - delivered[t] <= MaxInFlight)
<1> DEFINE Sending == \E t \in Streams, new \in Seq(Numbers) :
               packets' = [packets EXCEPT ![t] = @ \o new]
               /\ (network = "reliable" => Len(packets'[t]) - delivered[t] <= MaxInFlight)
<1>0. 1 \in Streams /\ 2 \in Streams /\ SenderType BY DEF Streams, ShufflerInv
<1>1. CASE Shuffle
  <2>1. Index \in Slots BY <1>1, IndexOfNext DEF Shuffle
  <2>2. Replaced \in Seq(Numbers) BY <1>0, <2>1 DEF Replaced, SenderType
  <2>3. SendPackets(1, Replaced) BY <1>1 DEF Shuffle
  <2> QED BY <1>0, <2>2, <2>3 DEF SendPackets
<1>2. CASE FlushDeck
  <2>1. PICK i \in Pending : SendPackets(1, <<deck[i]>>) BY <1>2 DEF FlushDeck
  <2>2. deck[i] \in Numbers BY <1>0, <2>1 DEF Pending, SenderType
  <2>3. <<deck[i]>> \in Seq(Numbers) BY <2>2
  <2> QED BY <1>0, <2>1, <2>3 DEF SendPackets
<1>3. CASE Leak
  <2>1. produced \in Numbers BY <1>0, <1>3, ParametersAssumption DEF Leak, Producing, Numbers, SenderType
  <2>2. (IF Leaks THEN <<>> ELSE <<produced>>) \in Seq(Numbers) BY <2>1
  <2>3. SendPackets(2, IF Leaks THEN <<>> ELSE <<produced>>) BY <1>3 DEF Leak
  <2> QED BY <1>0, <2>2, <2>3 DEF SendPackets
<1>4. CASE ShuffleShutdown \/ LeakShutdown BY <1>4 DEF ShuffleShutdown, LeakShutdown
<1> QED BY <1>1, <1>2, <1>3, <1>4 DEF Produce

LEMMA ProduceGrows == ASSUME ShufflerInv, Produce PROVE Grow
<1>1. SenderType BY DEF ShufflerInv
<1>2. CASE UNCHANGED packets
  <2>1. \A s \in Streams : Len(packets[s]) \in Nat BY <1>1 DEF SenderType
  <2> QED BY <1>2, <2>1 DEF Grow
<1> QED BY <1>1, <1>2, Sends, SendGrows

\* The count of the messages that the Shuffler has been given does not fall; from the last
\* one on it has been given them all.
LEMMA ShuffledGrows ==
    ASSUME SenderType, SenderType', Produce
    PROVE  /\ Shuffled \in Nat /\ Shuffled' \in Nat /\ Shuffled <= Shuffled'
           /\ Producing' => Producing
           /\ ~Producing' => MessageCount <= Shuffled
<1> DEFINE Rises ==
        /\ Shuffled \in Nat /\ Shuffled' \in Nat /\ Shuffled <= Shuffled'
        /\ Producing' => Producing
        /\ ~Producing' => MessageCount <= Shuffled
<1>0. MessageCount \in Nat /\ produced \in Nat BY ParametersAssumption DEF SenderType
<1>1. CASE Shuffle \/ Leak
  <2>1. /\ produced < MessageCount
        /\ \/ branch = 1 /\ branch' = 2 /\ produced' = produced
           \/ branch = 2 /\ branch' = 1 /\ produced' = produced + 1
    BY <1>1 DEF Shuffle, Leak, FanOutNext, Producing
  <2> QED BY <1>0, <2>1 DEF Shuffled, Producing
<1>2. CASE FlushDeck \/ ShuffleShutdown \/ LeakShutdown
  <2>1. produced = MessageCount /\ produced' \in {produced, produced + 1}
    BY <1>2 DEF FlushDeck, ShuffleShutdown, LeakShutdown, ShuttingDown, FanOutNext
  <2>2. ~Producing /\ ~Producing' BY <1>0, <2>1 DEF Producing
  <2>3. \A n \in Nat : n + 0 = n OBVIOUS
  <2>4. produced' \in Nat /\ produced <= produced' BY <1>0, <2>1
  <2>5. Shuffled = produced /\ Shuffled' = produced' BY <1>0, <2>2, <2>3, <2>4, Zenon DEF Shuffled
  <2> QED BY <1>0, <2>1, <2>2, <2>4, <2>5
<1> QED BY <1>1, <1>2 DEF Produce

\* The Shuffler's stream.
LEMMA ConsecutiveStep ==
    ASSUME ShufflerInv, Consecutive, Produce
    PROVE  Consecutive'
<1>1. SenderType BY DEF ShufflerInv
<1>2. CASE Shuffle
  <2>1. Producing /\ branch = 1 /\ packets' = [packets EXCEPT ![1] = @ \o Replaced] /\ produced' = produced
    BY <1>2 DEF Shuffle, SendPackets, FanOutNext
  <2>2. CASE deck[Index] = Nothing
    <3>1. packets' = packets BY <1>1, <2>1, <2>2, SentNone DEF Replaced
    <3> QED BY <2>1, <3>1 DEF Consecutive
  <2>3. CASE deck[Index] # Nothing
    <3>1. deck[Index] = Len(packets[1]) BY <2>1, <2>3, ReplacedFollows
    <3>2. Index \in Slots BY <2>1, IndexOfNext
    <3>3. deck[Index] \in Numbers BY <1>1, <2>3, <3>2 DEF SenderType
    <3>4. packets' = [packets EXCEPT ![1] = @ \o <<deck[Index]>>] BY <2>1, <2>3 DEF Replaced
    <3> HIDE DEF Index
    <3>5. /\ Len(packets[1]) \in Nat /\ DOMAIN packets[1] = 1 .. Len(packets[1])
          /\ DOMAIN packets'[1] = 1 .. Len(packets[1]) + 1
          /\ \A i \in 1 .. Len(packets[1]) : packets'[1][i] = packets[1][i]
          /\ packets'[1][Len(packets[1]) + 1] = deck[Index]
      BY <1>1, <3>3, <3>4, SentOne
    <3>6. ASSUME NEW i \in DOMAIN packets'[1] PROVE packets'[1][i] = i - 1
      <4>1. CASE i = Len(packets[1]) + 1 BY <3>1, <3>5, <4>1
      <4>2. CASE i # Len(packets[1]) + 1
        <5>1. i \in 1 .. Len(packets[1]) BY <3>5, <4>2
        <5> QED BY <2>1, <3>5, <5>1 DEF Consecutive
      <4> QED BY <4>1, <4>2
    <3> QED BY <3>6 DEF Consecutive
  <2> QED BY <2>2, <2>3
<1>3. CASE Leak
  <2>1. Producing /\ packets'[1] = packets[1] BY <1>1, <1>3 DEF Leak, SendPackets, SenderType, Streams
  <2> QED BY <2>1 DEF Consecutive
<1>4. CASE FlushDeck \/ ShuffleShutdown \/ LeakShutdown
  <2>1. produced = MessageCount /\ produced' \in {produced, produced + 1}
    BY <1>4 DEF FlushDeck, ShuffleShutdown, LeakShutdown, ShuttingDown, FanOutNext
  <2>2. ~Producing' BY <2>1, ParametersAssumption DEF Producing
  <2> QED BY <2>2 DEF Consecutive
<1> QED BY <1>2, <1>3, <1>4 DEF Produce
LEMMA LateStep ==
    ASSUME ShufflerInv, SenderType', Late, Produce, Producing' => Late'
    PROVE  Late'
<1> SUFFICES ASSUME ~Producing', NEW m \in Numbers, NEW n \in Nat, n + DeckSize <= m
             PROVE  DrivenOut(n)'
  BY DEF Late
<1>1. SenderType BY DEF ShufflerInv
<1>2. m < Shuffled BY <1>1, ShuffledGrows, ParametersAssumption DEF Numbers
<1>3. DrivenOut(n) BY <1>2 DEF Late
<1>4. Grow /\ 1 \in Streams BY ProduceGrows DEF Streams
<1>5. Len(packets[1]) \in Nat /\ Len(packets'[1]) \in Nat /\ Len(packets[1]) <= Len(packets'[1])
      /\ \A i \in 1 .. Len(packets[1]) : packets'[1][i] = packets[1][i]
  BY <1>4 DEF Grow
<1>6. n + 1 \in 1 .. Len(packets[1]) BY <1>3, <1>5 DEF DrivenOut
<1> QED BY <1>3, <1>5, <1>6 DEF DrivenOut

\* The Leaker's stream.
LEMMA LeakedStep ==
    ASSUME ShufflerInv, SenderType', Leaked, Produce, FirstComesFirst
    PROVE  Leaked'
<1>0. SenderType /\ packets[2] \in Seq(Numbers) BY DEF ShufflerInv, SenderType, Streams
<1>a. Shuffled \in Nat /\ Shuffled' \in Nat /\ Shuffled <= Shuffled' BY <1>0, ShuffledGrows
<1>1. CASE Leak
  <2>1. /\ produced < MessageCount /\ branch = 2 /\ leakPosition' = leakPosition + 1 /\ produced' = produced + 1
        /\ produced \in Nat /\ produced \in Numbers /\ leakPosition = produced
    BY <1>0, <1>1, ParametersAssumption DEF Leak, Producing, FanOutNext, Leaked, SenderType, Numbers
  <2>2. Shuffled = produced + 1 BY <2>1 DEF Shuffled, Producing
  <2>3. packets' = [packets EXCEPT ![2] = @ \o (IF Leaks THEN <<>> ELSE <<produced>>)]
    BY <1>1 DEF Leak, SendPackets
  <2>4. CASE Leaks
    <3>1. packets' = packets
      <4>1. packets[2] \o <<>> = packets[2] BY <1>0, ConcatEmptySeq
      <4> QED BY <1>0, <2>3, <2>4, <4>1 DEF SenderType, Streams
    <3>2. produced # 0
      <4>1. produced = 0 => leakPosition + 1 + Offset = 1 + Offset BY <2>1, ParametersAssumption
      <4> QED BY <2>1, <2>4, <4>1, ParametersAssumption DEF Leaks, FirstComesFirst
    <3>3. packets[2] # <<>> /\ packets[2][1] = 0 BY <3>2 DEF Leaked
    <3>4. \A i \in DOMAIN packets[2] : packets[2][i] < Shuffled /\ packets[2][i] \in Nat
      BY <1>0, ParametersAssumption DEF Leaked, Numbers
    <3>5. \A i \in DOMAIN packets[2] : packets[2][i] < Shuffled' BY <1>a, <3>4
    <3> QED BY <2>1, <3>1, <3>3, <3>5 DEF Leaked
  <2>5. CASE ~Leaks
    <3>1. packets'[2] = packets[2] \o <<produced>> BY <1>0, <2>3, <2>5 DEF SenderType, Streams
    <3>2. /\ packets'[2] \in Seq(Numbers) /\ Len(packets'[2]) = Len(packets[2]) + 1
          /\ \A i \in 1 .. Len(packets[2]) : packets'[2][i] = packets[2][i]
          /\ packets'[2][Len(packets[2]) + 1] = produced
      BY <1>0, <2>1, <3>1, OneMore
    <3>3. Len(packets[2]) \in Nat /\ DOMAIN packets[2] = 1 .. Len(packets[2])
          /\ DOMAIN packets'[2] = 1 .. Len(packets[2]) + 1
      BY <1>0, <3>2
    <3>4. packets'[2][1] = 0
      <4>1. CASE packets[2] = <<>> BY <2>1, <3>2, <4>1 DEF Leaked
      <4>2. CASE packets[2] # <<>>
        <5>1. Len(packets[2]) # 0 BY <1>0, <4>2, EmptySeq
        <5>2. 1 \in 1 .. Len(packets[2]) BY <3>3, <5>1
        <5> QED BY <3>2, <4>2, <5>2 DEF Leaked
      <4> QED BY <4>1, <4>2
    <3>5. ASSUME NEW i \in DOMAIN packets'[2] PROVE packets'[2][i] < Shuffled'
      <4>1. CASE i = Len(packets[2]) + 1 BY <1>a, <2>1, <2>2, <3>2, <4>1
      <4>2. CASE i # Len(packets[2]) + 1
        <5>1. i \in 1 .. Len(packets[2]) BY <3>3, <4>2
        <5>2. packets[2][i] < Shuffled /\ packets[2][i] \in Nat
          BY <1>0, <3>3, <5>1, ParametersAssumption DEF Leaked, Numbers
        <5> QED BY <1>a, <3>2, <5>1, <5>2
      <4> QED BY <4>1, <4>2
    <3>6. packets'[2] # <<>> BY <3>2, <3>3
    <3> QED BY <2>1, <3>4, <3>5, <3>6 DEF Leaked
  <2> QED BY <2>4, <2>5
<1>2. CASE Shuffle \/ FlushDeck \/ ShuffleShutdown \/ LeakShutdown
  <2>1. packets'[2] = packets[2]
    <3>1. UNCHANGED packets \/ \E new : packets' = [packets EXCEPT ![1] = new]
      BY <1>2 DEF Shuffle, FlushDeck, ShuffleShutdown, LeakShutdown, SendPackets
    <3> QED BY <1>0, <3>1 DEF SenderType, Streams
  <2>2. \A i \in DOMAIN packets[2] : packets[2][i] < Shuffled /\ packets[2][i] \in Nat
    BY <1>0, ParametersAssumption DEF Leaked, Numbers
  <2>3. \A i \in DOMAIN packets'[2] : packets'[2][i] < Shuffled' BY <1>a, <2>1, <2>2
  <2>4. produced' = 0 \/ produced > 0
    BY <1>0, <1>2, ParametersAssumption
    DEF Shuffle, FlushDeck, ShuffleShutdown, LeakShutdown, FanOutNext, ShuttingDown, FirstComesFirst, SenderType
  <2>5. Producing' => leakPosition' = produced'
    BY <1>0, <1>2, ParametersAssumption
    DEF Shuffle, FlushDeck, ShuffleShutdown, LeakShutdown, FanOutNext, ShuttingDown, Producing, Leaked, SenderType
  <2> QED BY <2>1, <2>3, <2>4, <2>5 DEF Leaked
<1> QED BY <1>1, <1>2 DEF Produce
-----------------------------------------------------------------------------
(* The merge, as long as no message comes from beyond its window *)

\* Numbers have slots in the stash, those of one window different ones.
LEMMA StashSlots ==
    /\ LookAhead \in Nat \ {0}
    /\ \A n \in Nat : Merge!Slot(n) \in Merge!Slots
    /\ \A e, m, n \in Nat : e <= m /\ m < e + LookAhead /\ e <= n /\ n < e + LookAhead
                            /\ Merge!Slot(m) = Merge!Slot(n) => m = n
<1>1. LookAhead \in Nat \ {0} BY ParametersAssumption
<1>2. \A n \in Nat : Merge!Slot(n) \in Merge!Slots BY <1>1 DEF Merge!Slot, Merge!Slots
<1>3. ASSUME NEW m \in Nat, NEW n \in Nat, m < n, n < m + LookAhead
      PROVE  Merge!Slot(m) # Merge!Slot(n)
  BY <1>1, <1>3, SlotsDiffer DEF Merge!Slot
<1>4. ASSUME NEW e \in Nat, NEW m \in Nat, NEW n \in Nat, e <= m, m < e + LookAhead, e <= n, n < e + LookAhead,
             Merge!Slot(m) = Merge!Slot(n)
      PROVE  m = n
  <2>1. CASE m < n
    <3>1. n < m + LookAhead BY <1>1, <1>4
    <3> QED BY <1>3, <1>4, <2>1, <3>1
  <2>2. CASE n < m
    <3>1. m < n + LookAhead BY <1>1, <1>4
    <3> QED BY <1>3, <1>4, <2>2, <3>1
  <2> QED BY <2>1, <2>2
<1> QED BY <1>1, <1>2, <1>4

\* What the invariant says of the stash.
LEMMA StashHolds ==
    ASSUME Merging
    PROVE  /\ expected \in Nat /\ Merge!Stashed \subseteq Nat
           /\ \A i \in Merge!Slots : stash[i] # Nothing =>
                  stash[i] \in Merge!Stashed /\ Merge!Slot(stash[i]) = i
                  /\ expected <= stash[i] /\ stash[i] < expected + LookAhead
           /\ \A n \in Merge!Stashed : Merge!Slot(n) \in Merge!Slots /\ stash[Merge!Slot(n)] = n
                                       /\ expected <= n /\ n < expected + LookAhead
           /\ \A n \in Nat : expected <= n /\ n < expected + LookAhead /\ stash[Merge!Slot(n)] # Nothing
                             => stash[Merge!Slot(n)] = n
           /\ pc # "drain" => expected \notin Merge!Stashed
           /\ expected = 0 => Merge!Stashed = {}
<1>1. /\ expected \in Nat /\ stash \in [Merge!Slots -> Nat \cup {Nothing}] /\ Nothing \notin Nat
      /\ \A i \in Merge!Slots : stash[i] # Nothing =>
             Merge!Slot(stash[i]) = i /\ expected <= stash[i] /\ stash[i] < expected + LookAhead
      /\ pc # "drain" => stash[Merge!Slot(expected)] = Nothing
      /\ expected = 0 => \A i \in Merge!Slots : stash[i] = Nothing
  BY ParametersAssumption DEF Merging, Merge!TypeOK, Merge!WindowInv, Merge!Occupied
<1>2. Merge!Stashed = {stash[i] : i \in Merge!Slots} \ {Nothing} BY DEF Merge!Stashed
<1>3. \A n \in Merge!Stashed : \E i \in Merge!Slots : stash[i] = n /\ n # Nothing BY <1>2
<1>4. \A n \in Merge!Stashed : n \in Nat /\ Merge!Slot(n) \in Merge!Slots /\ stash[Merge!Slot(n)] = n
                                /\ expected <= n /\ n < expected + LookAhead
  BY <1>1, <1>3
<1>5. ASSUME NEW n \in Nat, expected <= n, n < expected + LookAhead, stash[Merge!Slot(n)] # Nothing
      PROVE  stash[Merge!Slot(n)] = n
  <2>1. Merge!Slot(n) \in Merge!Slots BY StashSlots
  <2>2. stash[Merge!Slot(n)] \in Nat BY <1>1, <1>5, <2>1
  <2> QED BY <1>1, <1>5, <2>1, <2>2, StashSlots
<1>6. pc # "drain" => expected \notin Merge!Stashed BY <1>1, <1>4
<1>7. expected = 0 => Merge!Stashed = {} BY <1>1, <1>3
<1>8. \A i \in Merge!Slots : stash[i] # Nothing => stash[i] \in Merge!Stashed BY <1>2
<1> QED BY <1>1, <1>4, <1>5, <1>6, <1>7, <1>8

\* send() of a number that is next.
LEMMA MergeSends ==
    ASSUME Merging, NEW e \in Nat, expected <= e, out' = Append(out, e), expected' = e + 1
    PROVE  Merge!Increasing' /\ Merge!Behind' /\ ToSet(out') = ToSet(out) \cup {e} /\ out' \in Seq(Nat)
<1>1. out \in Seq(Nat) /\ expected \in Nat BY DEF Merging, Merge!TypeOK
<1>2. /\ Len(out) \in Nat /\ DOMAIN out = 1 .. Len(out)
      /\ DOMAIN out' = 1 .. Len(out) + 1 /\ out' \in Seq(Nat)
      /\ \A i \in DOMAIN out : out'[i] = out[i] /\ out[i] \in Nat
      /\ out'[Len(out) + 1] = e
  BY <1>1
<1>3. \A i \in DOMAIN out : out[i] < e BY <1>1, <1>2 DEF Merging, Merge!Behind
<1>4. Merge!Increasing' BY <1>2, <1>3 DEF Merging, Merge!Increasing
<1>5. Merge!Behind' BY <1>2, <1>3 DEF Merge!Behind
<1>6. ToSet(out') = ToSet(out) \cup {e}
  <2>1. ToSet(out') = {out'[i] : i \in DOMAIN out'} /\ ToSet(out) = {out[i] : i \in DOMAIN out} BY DEF ToSet
  <2>2. DOMAIN out' = DOMAIN out \cup {Len(out) + 1} BY <1>2
  <2>3. \A i \in DOMAIN out : out'[i] = out[i] BY <1>2
  <2>4. out'[Len(out) + 1] = e BY <1>2
  <2> HIDE <1>1, <1>2, <1>3, <1>4, <1>5
  <2> QED BY <2>1, <2>2, <2>3, <2>4
<1> QED BY <1>2, <1>4, <1>5, <1>6

\* What a step of the merge keeps: nothing that it had, or that it is given, gets lost.
Had(n) == n < expected \/ n \in Merge!Stashed
Keeps == Merging' /\ (\A n \in Nat : Had(n) => Had(n)') /\ expected <= expected'

\* A step that changes neither the stash nor what is expected.
LEMMA MergeRests ==
    ASSUME Merging, UNCHANGED <<stash, expected, out, overrun>>, Merge!TypeOK', pc = "drain" => pc' = "drain",
           pc' # "shutdown", caller' # "shutdown"
    PROVE  Keeps
<1>1. Merging'
  BY DEF Merging, Merge!WindowInv, Merge!Increasing, Merge!Behind, Merge!Occupied
<1>2. Merge!Stashed' = Merge!Stashed BY DEF Merge!Stashed
<1> QED BY <1>1, <1>2 DEF Keeps, Had, Merging, Merge!TypeOK

\* handleDataMessage, for a number within the window.
LEMMA DataKeeps ==
    ASSUME Merging, NEW m \in Nat, m < expected + LookAhead, expected = 0 => m = 0, Merge!HandleData(m),
           Passed, givenUp' = givenUp
    PROVE  Keeps /\ Had(m)' /\ Passed'
<1>0. /\ expected \in Nat /\ stash \in [Merge!Slots -> Nat \cup {Nothing}] /\ Nothing \notin Nat
      /\ highest \in Nat /\ received \in SUBSET Nat /\ LookAhead \in Nat \ {0} /\ pc = "idle"
      /\ ~overrun
  BY ParametersAssumption DEF Merging, Merge!TypeOK, Merge!HandleData, Merge!ArrivedInOrder, Merge!Previous, Merge!Stash,
      Merge!DuplicateStash, Merge!Future
<1>1. CASE Merge!ArrivedInOrder(m)
  <2>1. /\ expected <= m /\ (expected # 0 => m = expected)
        /\ out' = Append(out, m) /\ expected' = m + 1 /\ highest' \in Nat /\ received' = received \cup {m}
        /\ pc' = "drain" /\ caller' = "data"
        /\ UNCHANGED <<stash, heartbeatExpected, heartbeatHighest, heartbeatDelays, overrun>>
    BY <1>0, <1>1 DEF Merge!ArrivedInOrder, Merge!Expected, Merge!heartbeatVars
  <2>2. m = expected BY <2>1
  <2>3. Merge!Increasing' /\ Merge!Behind' /\ ToSet(out') = ToSet(out) \cup {m} /\ out' \in Seq(Nat)
    BY <2>1, MergeSends
  <2>4. Merge!TypeOK' BY <1>0, <2>1, <2>3 DEF Merging, Merge!TypeOK
  <2>5. expected \notin Merge!Stashed BY <1>0, StashHolds
  <2>6. ASSUME NEW i \in Merge!Slots, stash[i] # Nothing
        PROVE  /\ Merge!Slot(stash[i]) = i /\ m + 1 <= stash[i] /\ stash[i] < m + 1 + LookAhead
    <3>1. stash[i] \in Merge!Stashed /\ Merge!Slot(stash[i]) = i /\ stash[i] \in Nat
          /\ expected <= stash[i] /\ stash[i] < expected + LookAhead
      BY <2>6, StashHolds
    <3> QED BY <1>0, <2>2, <2>5, <3>1
  <2>7. Merge!WindowInv' BY <2>1, <2>6 DEF Merge!WindowInv, Merge!Occupied
  <2>8. Merging' BY <1>0, <2>1, <2>3, <2>4, <2>7 DEF Merging
  <2>9. Merge!Stashed' = Merge!Stashed BY <2>1 DEF Merge!Stashed
  <2>10. Keeps BY <1>0, <2>1, <2>2, <2>8, <2>9 DEF Keeps, Had
  <2>11. Had(m)' BY <2>1 DEF Had
  <2>12. Passed'
    <3>1. \A n \in Nat : n < m + 1 => n < expected \/ n = m BY <2>2
    <3> QED BY <2>1, <2>3, <3>1 DEF Passed
  <2> QED BY <2>10, <2>11, <2>12
<1>2. CASE Merge!Previous(m)
  <2>1. m < expected BY <1>0, <1>2 DEF Merge!Previous, Merge!Expected
  <2>2. UNCHANGED <<stash, expected, highest, heartbeatExpected, heartbeatHighest, heartbeatDelays, pc, caller,
                    out, received, overrun>>
    BY <1>2 DEF Merge!Previous, Merge!vars, Merge!heartbeatVars
  <2>3. Merge!TypeOK' /\ pc' # "shutdown" /\ caller' # "shutdown" BY <2>2 DEF Merging, Merge!TypeOK, Merge!Slots
  <2>4. Keeps BY <2>2, <2>3, MergeRests
  <2> QED BY <2>1, <2>2, <2>4 DEF Had, Passed
<1>3. CASE Merge!Stash(m)
  <2>1. /\ expected # 0 /\ expected < m /\ m < expected + LookAhead
        /\ stash[Merge!Slot(m)] = Nothing /\ Merge!Slot(m) \in Merge!Slots
        /\ stash' = [stash EXCEPT ![Merge!Slot(m)] = m]
        /\ highest' \in Nat /\ received' = received \cup {m}
        /\ UNCHANGED <<expected, heartbeatExpected, heartbeatHighest, heartbeatDelays, pc, caller, out, overrun>>
    BY <1>0, <1>3, StashSlots
    DEF Merge!Stash, Merge!InWindow, Merge!Expected, Merge!heartbeatVars, Merge!Occupied
  <2>2. stash'[Merge!Slot(m)] = m /\ \A i \in Merge!Slots \ {Merge!Slot(m)} : stash'[i] = stash[i] BY <1>0, <2>1
  <2>3. stash' \in [Merge!Slots -> Nat \cup {Nothing}] BY <1>0, <2>1
  <2>4. Merge!TypeOK' BY <1>0, <2>1, <2>3 DEF Merging, Merge!TypeOK
  <2>5. Merge!Slot(expected) # Merge!Slot(m)
    <3>1. expected <= expected /\ expected < expected + LookAhead /\ expected <= m /\ expected # m BY <1>0, <2>1
    <3> QED BY <1>0, <2>1, <3>1, StashSlots
  <2>6. Merge!Slot(expected) \in Merge!Slots /\ stash[Merge!Slot(expected)] = Nothing
    BY <1>0, StashSlots DEF Merging, Merge!WindowInv, Merge!Occupied
  <2>7. Merge!WindowInv'
    <3>1. ASSUME NEW i \in Merge!Slots, stash'[i] # Nothing
          PROVE  Merge!Slot(stash'[i]) = i /\ expected <= stash'[i] /\ stash'[i] < expected + LookAhead
      <4>1. CASE i = Merge!Slot(m) BY <1>0, <2>1, <2>2, <4>1
      <4>2. CASE i # Merge!Slot(m) BY <2>2, <3>1, <4>2, StashHolds
      <4> QED BY <4>1, <4>2
    <3>2. stash'[Merge!Slot(expected)] = Nothing BY <2>2, <2>5, <2>6
    <3> QED BY <2>1, <3>1, <3>2 DEF Merge!WindowInv, Merge!Occupied
  <2>8. Merging' BY <2>1, <2>4, <2>7 DEF Merging, Merge!Increasing, Merge!Behind
  <2>9. Merge!Stashed \subseteq Merge!Stashed' /\ m \in Merge!Stashed'
    <3>1. Merge!Stashed' = {stash'[i] : i \in Merge!Slots} \ {Nothing} BY DEF Merge!Stashed
    <3>2. m # Nothing BY <1>0
    <3>3. m \in Merge!Stashed' BY <2>1, <2>2, <3>1, <3>2
    <3>4. ASSUME NEW i \in Merge!Slots, stash[i] # Nothing PROVE stash[i] \in Merge!Stashed'
      <4>1. i # Merge!Slot(m) BY <2>1, <3>4
      <4> QED BY <2>2, <3>1, <3>4, <4>1
    <3> QED BY <3>3, <3>4 DEF Merge!Stashed
  <2> QED BY <1>0, <2>1, <2>8, <2>9 DEF Keeps, Had, Passed
<1>4. CASE Merge!DuplicateStash(m)
  <2>1. /\ expected < m /\ m < expected + LookAhead /\ stash[Merge!Slot(m)] # Nothing
        /\ received' = received \cup {m}
        /\ UNCHANGED <<stash, expected, highest, heartbeatExpected, heartbeatHighest, heartbeatDelays, pc, caller,
                       out, overrun>>
    BY <1>0, <1>4 DEF Merge!DuplicateStash, Merge!InWindow, Merge!Expected, Merge!heartbeatVars, Merge!Occupied
  <2>2. stash[Merge!Slot(m)] = m /\ m \in Merge!Stashed
    <3>1. Merge!Slot(m) \in Merge!Slots BY StashSlots
    <3> QED BY <1>0, <2>1, <3>1, StashHolds
  <2>3. Merge!TypeOK' /\ pc' # "shutdown" /\ caller' # "shutdown" BY <1>0, <2>1 DEF Merging, Merge!TypeOK, Merge!Slots
  <2>4. Keeps BY <2>1, <2>3, MergeRests
  <2> QED BY <2>1, <2>2, <2>4 DEF Keeps, Had, Passed
<1>5. CASE Merge!Future(m) BY <1>0, <1>5 DEF Merge!Future, Merge!Expected
<1> QED BY <1>1, <1>2, <1>3, <1>4, <1>5 DEF Merge!HandleData

\* A heartbeat that comes in, and the rest of a call.
LEMMA HeartbeatKeeps ==
    ASSUME Merging, Merge!HandleHeartbeat, Passed, givenUp' = givenUp
    PROVE  Keeps /\ Passed'
<1>1. /\ UNCHANGED <<stash, expected, out, overrun, highest, received, caller>> /\ pc = "idle"
      /\ pc' \in {"idle", "heartbeat"}
      /\ heartbeatExpected' \in Nat /\ heartbeatHighest' \in Nat /\ heartbeatDelays' \in Nat
  BY DEF Merging, Merge!TypeOK, Merge!HandleHeartbeat, Merge!HeartbeatAfterProgress, Merge!HeartbeatWithoutProgress,
      Merge!Remember
<1>2. Merge!TypeOK' BY <1>1 DEF Merging, Merge!TypeOK, Merge!Slots
<1>3. pc' # "shutdown" /\ caller' # "shutdown" BY <1>1 DEF Merging
<1> QED BY <1>1, <1>2, <1>3, MergeRests DEF Passed

\* The first stashed number that findAndPublishGap() finds is the lowest.
LEMMA GapEndsAtLowest ==
    ASSUME Merging, NEW n \in Merge!Ahead, \A m \in Merge!Ahead : n <= m, NEW k \in Merge!Stashed
    PROVE  expected + n <= k /\ n \in Nat
<1>1. k \in Nat /\ expected \in Nat /\ expected <= k /\ k < expected + LookAhead /\ stash[Merge!Slot(k)] = k
  BY StashHolds
<1>2. LookAhead \in Nat \ {0} /\ Nothing \notin Nat BY ParametersAssumption
<1> DEFINE d == k - expected
<1>3. d \in 0 .. LookAhead - 1 /\ expected + d = k BY <1>1, <1>2
<1> HIDE DEF d
<1>4. d \in Merge!Ahead BY <1>1, <1>2, <1>3 DEF Merge!Ahead, Merge!Occupied
<1>5. n \in Nat BY <1>2 DEF Merge!Ahead
<1> QED BY <1>1, <1>3, <1>4, <1>5

LEMMA FinishKeeps ==
    ASSUME Merging, Merge!Finish, Passed,
           givenUp' = IF pc = "heartbeat" THEN givenUp \cup expected .. expected' - 1 ELSE givenUp
    PROVE  Keeps /\ Passed'
<1>0. /\ expected \in Nat /\ stash \in [Merge!Slots -> Nat \cup {Nothing}] /\ Nothing \notin Nat
      /\ LookAhead \in Nat \ {0} /\ ~overrun /\ pc \in {"idle", "drain", "heartbeat"} /\ caller \in {"data", "heartbeat"}
  BY ParametersAssumption DEF Merging, Merge!TypeOK
<1>1. CASE Merge!Drain
  <2>1. /\ pc = "drain" /\ stash[Merge!Slot(expected)] # Nothing
        /\ out' = Append(out, stash[Merge!Slot(expected)])
        /\ stash' = [stash EXCEPT ![Merge!Slot(expected)] = Nothing]
        /\ expected' = expected + 1
        /\ UNCHANGED <<highest, heartbeatExpected, heartbeatHighest, heartbeatDelays, pc, caller, received, overrun>>
    BY <1>1 DEF Merge!Drain, Merge!Occupied, Merge!heartbeatVars
  <2>2. Merge!Slot(expected) \in Merge!Slots /\ stash[Merge!Slot(expected)] = expected
    <3>1. expected <= expected /\ expected < expected + LookAhead BY <1>0
    <3> QED BY <1>0, <2>1, <3>1, StashHolds, StashSlots
  <2>3. Merge!Increasing' /\ Merge!Behind' /\ ToSet(out') = ToSet(out) \cup {expected} /\ out' \in Seq(Nat)
    <3>1. out' = Append(out, expected) /\ expected <= expected BY <1>0, <2>1, <2>2
    <3> QED BY <1>0, <2>1, <3>1, MergeSends
  <2>4. stash' \in [Merge!Slots -> Nat \cup {Nothing}] BY <1>0, <2>1
  <2>5. /\ stash'[Merge!Slot(expected)] = Nothing
        /\ \A i \in Merge!Slots \ {Merge!Slot(expected)} : stash'[i] = stash[i]
    BY <1>0, <2>1, <2>2
  <2>6. Merge!TypeOK' BY <1>0, <2>1, <2>3, <2>4 DEF Merging, Merge!TypeOK
  <2>7. ASSUME NEW i \in Merge!Slots, stash'[i] # Nothing
        PROVE  /\ Merge!Slot(stash'[i]) = i /\ expected + 1 <= stash'[i] /\ stash'[i] < expected + 1 + LookAhead
    <3>1. i # Merge!Slot(expected) /\ stash'[i] = stash[i] /\ stash[i] # Nothing BY <2>5, <2>7
    <3>2. /\ Merge!Slot(stash[i]) = i /\ stash[i] \in Nat
          /\ expected <= stash[i] /\ stash[i] < expected + LookAhead
      BY <3>1, StashHolds
    <3>3. stash[i] # expected BY <3>1, <3>2
    <3> QED BY <1>0, <3>1, <3>2, <3>3
  <2>8. Merge!WindowInv' BY <1>0, <2>1, <2>7 DEF Merge!WindowInv, Merge!Occupied
  <2>9. Merging' BY <1>0, <2>1, <2>3, <2>6, <2>8 DEF Merging
  <2>10. \A n \in Merge!Stashed : n = expected \/ n \in Merge!Stashed'
    <3>1. Merge!Stashed' = {stash'[i] : i \in Merge!Slots} \ {Nothing} BY DEF Merge!Stashed
    <3>2. ASSUME NEW i \in Merge!Slots, stash[i] # Nothing, stash[i] # expected PROVE stash[i] \in Merge!Stashed'
      <4>1. i # Merge!Slot(expected) BY <2>2, <3>2
      <4> QED BY <2>5, <3>1, <3>2, <4>1
    <3> QED BY <3>2 DEF Merge!Stashed
  <2>11. \A n \in Nat : n < expected + 1 <=> n < expected \/ n = expected BY <1>0
  <2>12. \A n \in Nat : Had(n) => Had(n)' BY <2>1, <2>10, <2>11 DEF Had
  <2>13. Passed' BY <2>1, <2>3, <2>11 DEF Passed
  <2> QED BY <1>0, <2>1, <2>9, <2>12, <2>13 DEF Keeps
<1>2. CASE Merge!Drained
  <2>1. /\ pc = "drain" /\ stash[Merge!Slot(expected)] = Nothing /\ pc' = (IF caller = "data" THEN "idle" ELSE caller)
        /\ UNCHANGED <<stash, expected, highest, heartbeatExpected, heartbeatHighest, heartbeatDelays, caller,
                       out, received, overrun>>
    BY <1>2 DEF Merge!Drained, Merge!Occupied, Merge!heartbeatVars
  <2>2. Merge!TypeOK' BY <1>0, <2>1 DEF Merging, Merge!TypeOK, Merge!Slots
  <2>3. Merging' BY <1>0, <2>1, <2>2 DEF Merging, Merge!WindowInv, Merge!Increasing, Merge!Behind, Merge!Occupied
  <2>4. Merge!Stashed' = Merge!Stashed BY <2>1 DEF Merge!Stashed
  <2> QED BY <1>0, <2>1, <2>3, <2>4 DEF Keeps, Had, Passed
<1>3. CASE Merge!HeartbeatClosesGap
  <2>1. PICK n \in Merge!Ahead :
            /\ pc = "heartbeat" /\ \A m \in Merge!Ahead : n <= m
            /\ expected' = expected + n /\ pc' = "drain" /\ caller' = "heartbeat"
            /\ UNCHANGED <<stash, highest, heartbeatExpected, heartbeatHighest, heartbeatDelays, out, received, overrun>>
    BY <1>3 DEF Merge!HeartbeatClosesGap, Merge!CloseGap, Merge!heartbeatVars
  <2>2. n \in Nat /\ n < LookAhead /\ stash[Merge!Slot(expected + n)] # Nothing
    BY <1>0 DEF Merge!Ahead, Merge!Occupied
  <2>3. expected # 0
    <3>1. Merge!Slot(expected + n) \in Merge!Slots BY <1>0, <2>2, StashSlots
    <3> QED BY <2>2, <3>1, StashHolds
  <2>4. ASSUME NEW i \in Merge!Slots, stash[i] # Nothing
        PROVE  Merge!Slot(stash[i]) = i /\ expected + n <= stash[i] /\ stash[i] < expected + n + LookAhead
    <3>1. /\ stash[i] \in Merge!Stashed /\ Merge!Slot(stash[i]) = i /\ stash[i] \in Nat
          /\ stash[i] < expected + LookAhead
      BY <2>4, StashHolds
    <3>2. expected + n <= stash[i] BY <2>1, <3>1, GapEndsAtLowest
    <3> QED BY <1>0, <2>2, <3>1, <3>2
  <2>5. expected' \in Nat /\ expected' # 0 /\ expected <= expected' BY <1>0, <2>1, <2>2, <2>3
  <2>6. Merge!TypeOK' BY <2>1, <2>5 DEF Merging, Merge!TypeOK, Merge!Slots
  <2>7. Merge!WindowInv' BY <2>1, <2>4, <2>5 DEF Merge!WindowInv, Merge!Occupied
  <2>8. Merge!Behind'
    <3>1. \A i \in DOMAIN out : out[i] \in Nat /\ out[i] < expected BY DEF Merging, Merge!TypeOK, Merge!Behind
    <3> QED BY <1>0, <2>1, <2>5, <3>1 DEF Merge!Behind
  <2>9. Merging' BY <1>0, <2>1, <2>6, <2>7, <2>8 DEF Merging, Merge!Increasing
  <2>10. Merge!Stashed' = Merge!Stashed BY <2>1 DEF Merge!Stashed
  <2>11. \A k \in Nat : k < expected => k < expected' BY <1>0, <2>5
  <2>12. Passed'
    <3>1. givenUp' = givenUp \cup expected .. expected' - 1 BY <2>1
    <3>2. \A a, b, k \in Nat : k < b => k < a \/ k \in a .. b - 1 OBVIOUS
    <3>3. \A k \in Nat : k < expected' => k < expected \/ k \in expected .. expected' - 1
      BY <1>0, <2>5, <3>2, Zenon
    <3> QED BY <2>1, <3>1, <3>3 DEF Passed
  <2> QED BY <2>5, <2>9, <2>10, <2>11, <2>12 DEF Keeps, Had
<1>4. CASE Merge!HeartbeatSearchesAgain \/ Merge!HeartbeatDone
  <2>1. /\ UNCHANGED <<stash, expected, out, overrun, highest, received, caller>> /\ pc = "heartbeat"
        /\ pc' \in {"idle", "heartbeat"}
        /\ heartbeatExpected' \in Nat /\ heartbeatHighest' \in Nat /\ heartbeatDelays' \in Nat
    BY <1>4 DEF Merging, Merge!TypeOK, Merge!HeartbeatSearchesAgain, Merge!HeartbeatDone, Merge!Remember, Merge!vars,
        Merge!heartbeatVars
  <2>2. Merge!TypeOK' BY <2>1 DEF Merging, Merge!TypeOK, Merge!Slots
  <2>3. pc' # "shutdown" /\ caller' # "shutdown" BY <1>0, <2>1
  <2>4. Keeps BY <2>1, <2>2, <2>3, MergeRests
  <2>5. Passed' BY <2>1 DEF Passed
  <2> QED BY <2>4, <2>5
<1>5. CASE Merge!ShutdownClosesGap \/ Merge!ShutdownDone
  BY <1>0, <1>5 DEF Merge!ShutdownClosesGap, Merge!ShutdownDone
<1> QED BY <1>1, <1>2, <1>3, <1>4, <1>5 DEF Merge!Finish
-----------------------------------------------------------------------------
(* From the packets to the merge *)

\* A packet's number, and what is due before it.
LEMMA PacketType ==
    ASSUME SendersInv, NEW s \in Streams, NEW i \in 1 .. Len(packets[s])
    PROVE  packets[s][i] \in Numbers /\ packets[s][i] \in Nat /\ packets[s][i] < Shuffled
<1>1. SenderType /\ packets[s] \in Seq(Numbers) BY DEF SendersInv, ShufflerInv, SenderType
<1>2. i \in DOMAIN packets[s] /\ packets[s][i] \in Numbers BY <1>1
<1>3. packets[s][i] < Shuffled
  <2>1. CASE s = 1
    <3>1. packets[s][i] \in Sent BY <1>2, <2>1 DEF Sent, ToSet
    <3> QED BY <1>1, <3>1, Came DEF SendersInv, ShufflerInv
  <2>2. CASE s = 2 BY <1>2, <2>2 DEF SendersInv, Leaked
  <2> QED BY <2>1, <2>2 DEF Streams
<1> QED BY <1>2, <1>3, ParametersAssumption DEF Numbers

\* The first packet of each stream is the very first message.
LEMMA FirstPacket ==
    ASSUME SendersInv, FirstComesFirst, NEW s \in Streams, 1 \in 1 .. Len(packets[s])
    PROVE  packets[s][1] = 0
<1>1. SenderType /\ packets[s] \in Seq(Numbers) /\ 1 \in DOMAIN packets[s] /\ packets[s] # <<>>
  BY DEF SendersInv, ShufflerInv, SenderType
<1>2. CASE s = 2 BY <1>1, <1>2 DEF SendersInv, Leaked
<1>3. CASE s = 1 /\ Producing BY <1>1, <1>3 DEF SendersInv, Delay, Consecutive
<1>4. CASE s = 1 /\ ~Producing
  <2>1. MessageCount \in Nat /\ DeckSize \in Nat \ {0} /\ DeckSize < MessageCount /\ produced \in Nat
    BY <1>1, ParametersAssumption DEF FirstComesFirst, SenderType
  <2>2. MessageCount <= Shuffled
    <3>1. MessageCount <= produced BY <1>4, <2>1 DEF Producing
    <3> QED BY <1>4, <2>1, <3>1 DEF Shuffled
  <2>3. MessageCount - 1 \in Numbers /\ MessageCount - 1 < Shuffled /\ 0 + DeckSize <= MessageCount - 1
    BY <1>1, <2>1, <2>2, ShuffledType DEF Numbers
  <2>4. DrivenOut(0) BY <2>3 DEF SendersInv, Delay, Late
  <2> QED BY <1>4, <2>4 DEF DrivenOut
<1> QED BY <1>2, <1>3, <1>4 DEF Streams

\* What is due before a packet that arrives has arrived.
LEMMA DueArrived ==
    ASSUME LookAhead >= DeckSize + MaxInFlight, SendersInv, FirstComesFirst, NetworkInv, Arrived,
           NEW s \in Streams, delivered[s] < Len(packets[s])
    PROVE  Due(packets[s][delivered[s] + 1]) \subseteq Before(Len(queue) + 1)
<1> DEFINE next == delivered[s] + 1  m == packets[s][next]
<1>1. /\ Len(packets[s]) \in Nat /\ delivered[s] \in Nat /\ next \in 1 .. Len(packets[s])
      /\ Len(packets[1]) \in Nat /\ delivered[1] \in Nat /\ Len(packets[1]) <= delivered[1] + MaxInFlight
      /\ DeckSize \in Nat \ {0} /\ MaxInFlight \in Nat \ {0} /\ LookAhead \in Nat
  <2>1. packets[s] \in Seq(Numbers) /\ packets[1] \in Seq(Numbers) BY DEF SendersInv, ShufflerInv, SenderType, Streams
  <2>2. Len(packets[s]) \in Nat /\ Len(packets[1]) \in Nat BY <2>1
  <2> QED BY <2>2, ParametersAssumption DEF NetworkInv, Streams
<1>2. m \in Numbers /\ m \in Nat /\ m < Shuffled BY <1>1, PacketType
<1> HIDE DEF m
<1>3. ASSUME NEW n \in Nat, n + LookAhead <= m PROVE n \in Before(Len(queue) + 1)
  <2>1. n + MaxInFlight \in Nat /\ n + MaxInFlight + DeckSize <= m BY <1>1, <1>2, <1>3
  <2>2. DrivenOut(n + MaxInFlight) BY <1>2, <2>1 DEF SendersInv, Delay, Late
  <2>3. n + MaxInFlight + 1 <= Len(packets[1]) BY <2>2 DEF DrivenOut
  <2>4. n + 1 \in 1 .. delivered[1] BY <1>1, <2>3
  <2>5. n + DeckSize <= m BY <1>1, <1>2, <2>1
  <2>6. packets[1][n + 1] = n BY <1>2, <2>5 DEF SendersInv, Delay, Late, DrivenOut
  <2> QED BY <2>4, <2>6 DEF Arrived, Streams
<1>4. ASSUME m # 0 PROVE 0 \in Before(Len(queue) + 1)
  <2>1. 1 \in 1 .. Len(packets[s]) /\ packets[s][1] = 0 BY <1>1, FirstPacket
  <2>2. next # 1 BY <1>4, <2>1 DEF m
  <2>3. 1 \in 1 .. delivered[s] BY <1>1, <2>2
  <2> QED BY <2>1, <2>3 DEF Arrived
<1> QED BY <1>3, <1>4 DEF Due, m

\* One more entry in the queue.
LEMMA Enqueued ==
    ASSUME InReach, queue \in Seq(Numbers \cup {Heartbeat}), NEW e \in Numbers \cup {Heartbeat},
           queue' = Append(queue, e), UNCHANGED <<stash, expected>>,
           e # Heartbeat => Due(e) \subseteq Before(Len(queue) + 1)
    PROVE  /\ queue' \in Seq(Numbers \cup {Heartbeat}) /\ InReach'
           /\ Before(Len(queue) + 1) \subseteq Before(Len(queue) + 1)'
           /\ e \in Before(Len(queue) + 1)'
<1>1. /\ Len(queue) \in Nat /\ DOMAIN queue = 1 .. Len(queue)
      /\ queue' \in Seq(Numbers \cup {Heartbeat}) /\ Len(queue') = Len(queue) + 1
      /\ DOMAIN queue' = 1 .. Len(queue) + 1
      /\ \A i \in 1 .. Len(queue) : queue'[i] = queue[i]
      /\ queue'[Len(queue) + 1] = e
  OBVIOUS
<1>2. Merge!Stashed' = Merge!Stashed /\ expected' = expected BY DEF Merge!Stashed
<1> DEFINE Reached(q, j) == {n \in Nat : n < expected} \cup Merge!Stashed \cup {q[i] : i \in 1 .. j - 1}
<1>3. ASSUME NEW j \in 1 .. Len(queue) + 1 PROVE Reached(queue', j) = Reached(queue, j)
  <2>1. \A i \in 1 .. j - 1 : queue'[i] = queue[i] BY <1>1
  <2> QED BY <2>1
<1>4. ASSUME NEW j \in DOMAIN queue', queue'[j] # Heartbeat PROVE Due(queue'[j]) \subseteq Reached(queue', j)
  <2>1. CASE j = Len(queue) + 1 BY <1>1, <1>3, <1>4, <2>1 DEF Before
  <2>2. CASE j # Len(queue) + 1
    <3>1. j \in 1 .. Len(queue) /\ queue'[j] = queue[j] BY <1>1, <2>2
    <3> QED BY <1>1, <1>3, <1>4, <3>1 DEF InReach, Before
  <2> QED BY <2>1, <2>2
<1>5. InReach' BY <1>2, <1>4 DEF InReach, Before, Due
<1>6. Reached(queue, Len(queue) + 1) \cup {e} \subseteq Reached(queue', Len(queue') + 1)
  <2>1. Len(queue') + 1 - 1 = Len(queue) + 1 BY <1>1
  <2>2. \A i \in 1 .. Len(queue) : i \in 1 .. Len(queue) + 1 BY <1>1
  <2>3. Len(queue) + 1 \in 1 .. Len(queue) + 1 BY <1>1
  <2>4. Len(queue) + 1 - 1 = Len(queue) BY <1>1
  <2> QED BY <1>1, <2>1, <2>2, <2>3, <2>4
<1> QED BY <1>1, <1>2, <1>5, <1>6 DEF Before

\* The oldest entry leaves the queue, and the merge has its number or is done with it.
LEMMA Dequeued ==
    ASSUME InReach, queue \in Seq(Numbers \cup {Heartbeat}), queue # <<>>, queue' = Tail(queue), Keeps,
           NEW CONSTANT e, queue[1] = e, e # Heartbeat => Had(e)'
    PROVE  /\ queue' \in Seq(Numbers \cup {Heartbeat}) /\ InReach'
           /\ \A n \in Nat : n \in Before(Len(queue) + 1) => n \in Before(Len(queue) + 1)'
<1>1. /\ Len(queue) \in Nat \ {0} /\ DOMAIN queue = 1 .. Len(queue)
      /\ queue' \in Seq(Numbers \cup {Heartbeat}) /\ Len(queue') = Len(queue) - 1
      /\ DOMAIN queue' = 1 .. Len(queue) - 1
      /\ \A i \in 1 .. Len(queue) - 1 : queue'[i] = queue[i + 1]
  BY EmptySeq
<1>2. \A n \in Nat : Had(n) => Had(n)' BY DEF Keeps
<1>3. Heartbeat \notin Nat BY ParametersAssumption
<1>4. ASSUME NEW j \in 1 .. Len(queue), NEW n \in Nat, n \in Before(j + 1)
      PROVE  n \in {k \in Nat : k < expected'} \cup Merge!Stashed' \cup {queue'[i] : i \in 1 .. j - 1}
  <2>1. CASE Had(n) BY <1>2, <2>1 DEF Had
  <2>2. CASE ~Had(n)
    <3>1. PICK i \in 1 .. j + 1 - 1 : queue[i] = n BY <1>4, <2>2 DEF Before, Had
    <3>2. CASE i = 1
      <4>1. e = n /\ n # Heartbeat BY <1>3, <3>1, <3>2
      <4>2. Had(n)' BY <4>1
      <4> QED BY <4>2 DEF Had
    <3>3. CASE i # 1
      <4>1. i - 1 \in 1 .. j - 1 /\ i - 1 \in 1 .. Len(queue) - 1 /\ i - 1 + 1 = i BY <1>1, <3>1, <3>3
      <4>2. queue'[i - 1] = n BY <1>1, <3>1, <4>1
      <4> QED BY <4>1, <4>2
    <3> QED BY <3>2, <3>3
  <2> QED BY <2>1, <2>2
<1>5. ASSUME NEW j \in DOMAIN queue', queue'[j] # Heartbeat, NEW n \in Due(queue'[j])
      PROVE  n \in {k \in Nat : k < expected'} \cup Merge!Stashed' \cup {queue'[i] : i \in 1 .. j - 1}
  <2>1. j + 1 \in DOMAIN queue /\ queue'[j] = queue[j + 1] /\ j \in 1 .. Len(queue) BY <1>1
  <2>2. n \in Nat /\ n \in Before(j + 1) BY <1>5, <2>1 DEF InReach, Due
  <2> QED BY <1>4, <2>1, <2>2
<1>6. InReach' BY <1>5 DEF InReach, Before, Due
<1>7. ASSUME NEW n \in Nat, n \in Before(Len(queue) + 1) PROVE n \in Before(Len(queue) + 1)'
  <2>1. Len(queue') + 1 - 1 = Len(queue) - 1 /\ Len(queue) \in 1 .. Len(queue) BY <1>1
  <2> QED BY <1>4, <1>7, <2>1 DEF Before
<1> QED BY <1>1, <1>6, <1>7
-----------------------------------------------------------------------------
(* The steps *)

\* Only the producer's thread touches what the senders have.
LEMMA OthersKeep == [Next]_vars => Produce \/ UNCHANGED senderVars
BY DEF Next, Consume, Handle, HandleFurther, SendHeartbeat, ReceiveNext, ReceiveAny, ReceiveError, Receive, vars

\* The Shuffler's stream.
LEMMA DelayStep ==
    ASSUME ShufflerInv, Delay, SenderType', [Next]_vars, Consecutive' /\ Producing' => Late'
    PROVE  Delay'
<1>1. Consecutive /\ Late BY DEF Delay
<1>2. CASE Produce
  <2>1. Consecutive' BY <1>1, <1>2, ConsecutiveStep
  <2>2. Late' BY <1>1, <1>2, <2>1, LateStep
  <2> QED BY <2>1, <2>2 DEF Delay
<1>3. CASE UNCHANGED senderVars
  <2>1. UNCHANGED <<produced, branch, deck, position, leakPosition, packets>> BY <1>3 DEF senderVars
  <2>2. Consecutive' BY <1>1, <2>1 DEF Consecutive, Producing
  <2>3. Late' BY <1>1, <2>1 DEF Late, DrivenOut, Shuffled, Producing
  <2> QED BY <2>2, <2>3 DEF Delay
<1> QED BY <1>2, <1>3, OthersKeep

\* The senders' streams.
LEMMA SendersStep ==
    ASSUME FirstComesFirst, SendersInv, ShufflerInv', Delay', [Next]_vars
    PROVE  SendersInv'
<1>1. ShufflerInv /\ Leaked /\ SenderType' BY DEF SendersInv, ShufflerInv
<1>2. CASE Produce
  <2>1. Leaked' BY <1>1, <1>2, LeakedStep
  <2> QED BY <2>1 DEF SendersInv
<1>3. CASE UNCHANGED senderVars
  <2>1. UNCHANGED <<produced, branch, deck, position, leakPosition, packets>> BY <1>3 DEF senderVars
  <2>2. Leaked' BY <1>1, <2>1 DEF Leaked, Shuffled, Producing
  <2> QED BY <2>2 DEF SendersInv
<1> QED BY <1>2, <1>3, OthersKeep

LEMMA SendersInit == Init => SendersInv
<1> SUFFICES ASSUME Init PROVE SendersInv OBVIOUS
<1>1. /\ packets = [s \in Streams |-> <<>>] /\ leakPosition = 0 /\ produced = 0 /\ branch = 1
  BY DEF Init
<1>2. packets[1] = <<>> /\ packets[2] = <<>> BY <1>1 DEF Streams
<1>3. Shuffled = 0 BY <1>1 DEF Shuffled
<1>4. Consecutive BY <1>2 DEF Consecutive
<1>5. Late
  <2>1. \A m \in Numbers : ~(m < Shuffled) BY <1>3, ParametersAssumption DEF Numbers
  <2> QED BY <2>1 DEF Late
<1>6. Leaked BY <1>1, <1>2, <1>3 DEF Leaked
<1> QED BY <1>4, <1>5, <1>6, ShufflerInit DEF SendersInv, Delay

\* A merge at rest.
LEMMA MergeSame ==
    ASSUME Merging, Passed, UNCHANGED <<mergeVars, givenUp>>
    PROVE  Merging' /\ Passed' /\ UNCHANGED <<stash, expected>>
<1>1. UNCHANGED <<stash, expected, highest, heartbeatExpected, heartbeatHighest, heartbeatDelays,
                  pc, caller, out, received, overrun, givenUp>>
  BY DEF mergeVars
<1>2. Merge!TypeOK' BY <1>1 DEF Merging, Merge!TypeOK, Merge!Slots
<1>3. Merging' BY <1>1, <1>2 DEF Merging, Merge!WindowInv, Merge!Increasing, Merge!Behind, Merge!Occupied
<1> QED BY <1>1, <1>3 DEF Passed

\* What has been received stays before the end of the queue.
LEMMA ArrivedStays ==
    ASSUME SendersInv, NetworkInv, Arrived, Grow, NEW s \in Streams, NEW i \in 1 .. delivered[s],
           \A n \in Nat : n \in Before(Len(queue) + 1) => n \in Before(Len(queue) + 1)'
    PROVE  packets'[s][i] \in Before(Len(queue) + 1)'
<1>1. delivered[s] \in 0 .. Len(packets[s]) /\ Len(packets[s]) \in Nat BY DEF NetworkInv, Grow
<1>2. i \in 1 .. Len(packets[s]) BY <1>1
<1>3. packets'[s][i] = packets[s][i] BY <1>2 DEF Grow
<1>4. packets[s][i] \in Nat BY <1>2, PacketType
<1>5. packets[s][i] \in Before(Len(queue) + 1) BY DEF Arrived
<1> QED BY <1>3, <1>4, <1>5

LEMMA GrowNot == ASSUME SendersInv, UNCHANGED packets PROVE Grow
<1>1. \A s \in Streams : Len(packets[s]) \in Nat BY DEF SendersInv, ShufflerInv, SenderType
<1> QED BY <1>1 DEF Grow

\* The producer's thread.
LEMMA ProduceMerged ==
    ASSUME SendersInv, MergedInv, network = "reliable", Produce
    PROVE  MergedInv'
<1>1. UNCHANGED <<network, delivered, queue, mergeVars, givenUp>>
  BY DEF Produce, Shuffle, FlushDeck, ShuffleShutdown, Leak, LeakShutdown, receiverVars
<1>2. /\ queue \in Seq(Numbers \cup {Heartbeat}) /\ NetworkInv /\ Arrived /\ InReach /\ Merging /\ Passed
      /\ ShufflerInv /\ SenderType
  BY DEF MergedInv, SendersInv, ShufflerInv
<1>3. Merging' /\ Passed' /\ UNCHANGED <<stash, expected>> BY <1>1, <1>2, MergeSame
<1>4. Grow BY <1>2, ProduceGrows
<1>5. UNCHANGED <<queue, stash, expected>> BY <1>1, <1>3
<1>6. InReach' BY <1>2, <1>5 DEF InReach, Before, Due, Merge!Stashed
<1>7. \A n \in Nat : n \in Before(Len(queue) + 1) => n \in Before(Len(queue) + 1)'
  BY <1>5 DEF Before, Merge!Stashed
<1>8. Arrived'
  <2>1. \A s \in Streams : \A i \in 1 .. delivered[s] : packets'[s][i] \in Before(Len(queue) + 1)'
    BY <1>2, <1>4, <1>7, ArrivedStays
  <2> QED BY <1>1, <2>1 DEF Arrived
<1>9. NetworkInv'
  <2>1. ASSUME NEW s \in Streams
        PROVE  /\ delivered[s] \in 0 .. Len(packets'[s])
               /\ packets'[s] = packets[s] => Len(packets'[s]) - delivered[s] <= MaxInFlight
    BY <1>2, <1>4 DEF NetworkInv, Grow
  <2>2. CASE UNCHANGED packets BY <1>1, <2>1, <2>2 DEF NetworkInv
  <2>3. ASSUME NEW t \in Streams, NEW new \in Seq(Numbers), packets' = [packets EXCEPT ![t] = @ \o new],
               Len(packets'[t]) - delivered[t] <= MaxInFlight
        PROVE  NetworkInv'
    <3>1. \A s \in Streams : s # t => packets'[s] = packets[s] BY <1>2, <2>3 DEF SenderType
    <3> QED BY <1>1, <2>1, <2>3, <3>1 DEF NetworkInv
  <2> QED BY <1>2, <2>2, <2>3, Sends
<1> QED BY <1>2, <1>3, <1>5, <1>6, <1>8, <1>9 DEF MergedInv

\* A packet that arrives.
LEMMA ReceiveMerged ==
    ASSUME LookAhead >= DeckSize + MaxInFlight, FirstComesFirst, SendersInv, MergedInv,
           NEW s \in Streams, ReceiveNext(s)
    PROVE  MergedInv'
<1> DEFINE next == delivered[s] + 1
           m == packets[s][next]
<1>1. /\ queue \in Seq(Numbers \cup {Heartbeat}) /\ NetworkInv /\ Arrived /\ InReach /\ Merging /\ Passed
      /\ SenderType
  BY DEF MergedInv, SendersInv, ShufflerInv
<1>2. /\ delivered[s] < Len(packets[s]) /\ queue' = Append(queue, m)
      /\ delivered' = [delivered EXCEPT ![s] = @ + 1]
      /\ UNCHANGED <<packets, mergeVars, givenUp>>
  BY DEF ReceiveNext, Receive, Enqueue, senderVars
<1>3. Merging' /\ Passed' /\ UNCHANGED <<stash, expected>> BY <1>1, <1>2, MergeSame
<1>4. /\ Len(packets[s]) \in Nat /\ delivered[s] \in Nat /\ next \in 1 .. Len(packets[s])
  <2>1. packets[s] \in Seq(Numbers) BY <1>1 DEF SenderType
  <2> QED BY <1>1, <1>2, <2>1 DEF NetworkInv
<1>5. m \in Numbers /\ m \in Nat BY <1>4, PacketType
<1>6. Due(m) \subseteq Before(Len(queue) + 1) BY <1>1, <1>2, DueArrived
<1> HIDE DEF m
<1>7. /\ queue' \in Seq(Numbers \cup {Heartbeat}) /\ InReach'
      /\ Before(Len(queue) + 1) \subseteq Before(Len(queue) + 1)'
      /\ m \in Before(Len(queue) + 1)'
  BY <1>1, <1>2, <1>3, <1>5, <1>6, Enqueued
<1>8. Grow BY <1>2, GrowNot
<1>9. Arrived'
  <2> SUFFICES ASSUME NEW t \in Streams, NEW i \in 1 .. delivered'[t]
               PROVE  packets'[t][i] \in Before(Len(queue) + 1)'
    BY DEF Arrived
  <2>1. CASE i \in 1 .. delivered[t] BY <1>1, <1>7, <1>8, <2>1, ArrivedStays
  <2>2. CASE i \notin 1 .. delivered[t]
    <3>1. t = s /\ i = next
      <4>1. t # s => delivered'[t] = delivered[t] BY <1>2
      <4>2. t = s => i \in 1 .. delivered[s] + 1
        <5>1. delivered' = [delivered EXCEPT ![s] = @ + 1] BY <1>2
        <5> QED BY <1>4, <5>1
      <4> QED BY <1>4, <2>2, <4>1, <4>2
    <3> QED BY <1>2, <1>7, <3>1 DEF m
  <2> QED BY <2>1, <2>2
<1>10. NetworkInv'
  <2> SUFFICES ASSUME NEW t \in Streams
               PROVE  delivered'[t] \in 0 .. Len(packets[t]) /\ Len(packets[t]) - delivered'[t] <= MaxInFlight
    BY <1>2 DEF NetworkInv
  <2>1. delivered[t] \in 0 .. Len(packets[t]) /\ Len(packets[t]) - delivered[t] <= MaxInFlight BY <1>1 DEF NetworkInv
  <2> QED BY <1>2, <1>4, <2>1, ParametersAssumption
<1> QED BY <1>3, <1>7, <1>9, <1>10 DEF MergedInv

\* A heartbeat that enters the queue.
LEMMA SendHeartbeatMerged ==
    ASSUME SendersInv, MergedInv, SendHeartbeat
    PROVE  MergedInv'
<1>1. /\ queue \in Seq(Numbers \cup {Heartbeat}) /\ NetworkInv /\ Arrived /\ InReach /\ Merging /\ Passed
  BY DEF MergedInv
<1>2. queue' = Append(queue, Heartbeat) /\ UNCHANGED <<packets, delivered, mergeVars, givenUp>>
  BY DEF SendHeartbeat, Enqueue, senderVars, receiverVars
<1>3. Merging' /\ Passed' /\ UNCHANGED <<stash, expected>> BY <1>1, <1>2, MergeSame
<1>4. /\ queue' \in Seq(Numbers \cup {Heartbeat}) /\ InReach'
      /\ Before(Len(queue) + 1) \subseteq Before(Len(queue) + 1)'
  BY <1>1, <1>2, <1>3, Enqueued
<1>5. Grow BY <1>2, GrowNot
<1>6. Arrived'
  <2>1. \A s \in Streams : \A i \in 1 .. delivered[s] : packets'[s][i] \in Before(Len(queue) + 1)'
    BY <1>1, <1>4, <1>5, ArrivedStays
  <2> QED BY <1>2, <2>1 DEF Arrived
<1>7. NetworkInv' BY <1>1, <1>2 DEF NetworkInv
<1> QED BY <1>3, <1>4, <1>6, <1>7 DEF MergedInv

\* A number that the merge takes from the queue is within its window, and the first one is 0.
LEMMA NextInReach ==
    ASSUME MergedInv, pc = "idle", queue # <<>>, queue[1] # Heartbeat
    PROVE  queue[1] \in Nat /\ queue[1] < expected + LookAhead /\ (expected = 0 => queue[1] = 0)
<1> DEFINE m == queue[1]
<1>1. queue \in Seq(Numbers \cup {Heartbeat}) /\ InReach /\ Merging BY DEF MergedInv
<1>2. 1 \in DOMAIN queue BY <1>1, EmptySeq
<1>3. m \in Nat
  <2>1. m \in Numbers \cup {Heartbeat} BY <1>1, <1>2
  <2> QED BY <2>1, ParametersAssumption DEF Numbers
<1>4. \A n \in Due(m) : n < expected \/ n \in Merge!Stashed
  <2>1. Due(m) \subseteq Before(1) BY <1>1, <1>2 DEF InReach
  <2>2. \A i \in 1 .. 1 - 1 : FALSE OBVIOUS
  <2> QED BY <2>1, <2>2 DEF Before
<1>5. /\ expected \in Nat /\ expected \notin Merge!Stashed /\ (expected = 0 => Merge!Stashed = {})
      /\ LookAhead \in Nat \ {0}
  BY <1>1, StashHolds, StashSlots
<1> HIDE DEF m
<1>6. expected \notin Due(m) BY <1>4, <1>5
<1>7. m < expected + LookAhead BY <1>3, <1>5, <1>6 DEF Due
<1>8. expected = 0 => m = 0 BY <1>3, <1>6 DEF Due
<1> QED BY <1>3, <1>7, <1>8 DEF m

\* InputQueue::run, the rest of a call, and a step that changes nothing.
LEMMA HandleMerged ==
    ASSUME SendersInv, MergedInv, Handle
    PROVE  MergedInv'
<1>1. /\ queue \in Seq(Numbers \cup {Heartbeat}) /\ NetworkInv /\ Arrived /\ InReach /\ Merging /\ Passed
  BY DEF MergedInv
<1>2. /\ pc = "idle" /\ queue # <<>> /\ queue' = Tail(queue) /\ UNCHANGED <<packets, delivered, givenUp>>
      /\ queue[1] = Heartbeat => Merge!HandleHeartbeat
      /\ queue[1] # Heartbeat => Merge!HandleData(queue[1])
  BY DEF Handle, senderVars, receiverVars
<1>3. PICK e : e = queue[1] OBVIOUS
<1>4. Keeps /\ Passed' /\ (e # Heartbeat => Had(e)')
  <2>1. CASE e = Heartbeat BY <1>1, <1>2, <1>3, <2>1, HeartbeatKeeps
  <2>2. CASE e # Heartbeat
    <3>1. e \in Nat /\ e < expected + LookAhead /\ (expected = 0 => e = 0) BY <1>2, <1>3, <2>2, NextInReach
    <3>2. Merge!HandleData(e) BY <1>2, <1>3, <2>2
    <3> QED BY <1>1, <1>2, <3>1, <3>2, DataKeeps
  <2> QED BY <2>1, <2>2
<1>5. /\ queue' \in Seq(Numbers \cup {Heartbeat}) /\ InReach'
      /\ \A n \in Nat : n \in Before(Len(queue) + 1) => n \in Before(Len(queue) + 1)'
  BY <1>1, <1>2, <1>3, <1>4, Dequeued
<1>6. Grow BY <1>2, GrowNot
<1>7. Arrived'
  <2>1. \A s \in Streams : \A i \in 1 .. delivered[s] : packets'[s][i] \in Before(Len(queue) + 1)'
    BY <1>1, <1>5, <1>6, ArrivedStays
  <2> QED BY <1>2, <2>1 DEF Arrived
<1>8. NetworkInv' BY <1>1, <1>2 DEF NetworkInv
<1> QED BY <1>4, <1>5, <1>7, <1>8 DEF MergedInv, Keeps
LEMMA HandleFurtherMerged ==
    ASSUME SendersInv, MergedInv, HandleFurther
    PROVE  MergedInv'
<1>1. /\ queue \in Seq(Numbers \cup {Heartbeat}) /\ NetworkInv /\ Arrived /\ InReach /\ Merging /\ Passed
  BY DEF MergedInv
<1>2. UNCHANGED <<packets, delivered, queue>> BY DEF HandleFurther, senderVars, receiverVars
<1>3. Keeps /\ Passed' BY <1>1, FinishKeeps DEF HandleFurther
<1>4. ASSUME NEW j \in Int, NEW n \in Nat, n \in Before(j)
      PROVE  n \in {k \in Nat : k < expected'} \cup Merge!Stashed' \cup {queue[i] : i \in 1 .. j - 1}
  <2>1. CASE Had(n)
    <3>1. Had(n)' BY <1>3, <2>1 DEF Keeps
    <3> QED BY <3>1 DEF Had
  <2>2. CASE ~Had(n) BY <1>4, <2>2 DEF Had, Before
  <2> QED BY <2>1, <2>2
<1>5. InReach'
  <2>1. ASSUME NEW j \in DOMAIN queue, queue[j] # Heartbeat, NEW n \in Due(queue[j])
        PROVE  n \in {k \in Nat : k < expected'} \cup Merge!Stashed' \cup {queue[i] : i \in 1 .. j - 1}
    <3>1. j \in Int /\ n \in Nat /\ n \in Before(j) BY <1>1, <2>1 DEF InReach, Due
    <3> QED BY <1>4, <3>1
  <2> QED BY <1>2, <2>1 DEF InReach, Before, Due
<1>6. \A n \in Nat : n \in Before(Len(queue) + 1) => n \in Before(Len(queue) + 1)'
  <2>1. Len(queue) + 1 \in Int BY <1>1
  <2> QED BY <1>2, <1>4, <2>1 DEF Before
<1>7. Grow BY <1>2, GrowNot
<1>8. Arrived'
  <2>1. \A s \in Streams : \A i \in 1 .. delivered[s] : packets'[s][i] \in Before(Len(queue) + 1)'
    BY <1>1, <1>6, <1>7, ArrivedStays
  <2> QED BY <1>2, <2>1 DEF Arrived
<1>9. NetworkInv' BY <1>1, <1>2 DEF NetworkInv
<1> QED BY <1>1, <1>2, <1>3, <1>5, <1>8, <1>9 DEF MergedInv, Keeps
LEMMA StutterMerged ==
    ASSUME SendersInv, MergedInv, UNCHANGED vars
    PROVE  MergedInv'
<1>1. /\ queue \in Seq(Numbers \cup {Heartbeat}) /\ NetworkInv /\ Arrived /\ InReach /\ Merging /\ Passed
  BY DEF MergedInv
<1>2. UNCHANGED <<packets, delivered, queue, mergeVars, givenUp>> BY DEF vars, senderVars, receiverVars
<1>3. Merging' /\ Passed' /\ UNCHANGED <<stash, expected>> BY <1>1, <1>2, MergeSame
<1>4. InReach' BY <1>1, <1>2, <1>3 DEF InReach, Before, Due, Merge!Stashed
<1>5. Arrived' BY <1>1, <1>2, <1>3 DEF Arrived, Before, Merge!Stashed
<1>6. NetworkInv' BY <1>1, <1>2 DEF NetworkInv
<1> QED BY <1>1, <1>2, <1>3, <1>4, <1>5, <1>6 DEF MergedInv
LEMMA MergedStep ==
    ASSUME LookAhead >= DeckSize + MaxInFlight, FirstComesFirst, SendersInv, MergedInv, network = "reliable",
           [Next]_vars
    PROVE  MergedInv'
<1>1. CASE \E s \in Streams : ReceiveAny(s) \/ ReceiveError(s) BY <1>1 DEF ReceiveAny, ReceiveError
<1> QED BY <1>1, ProduceMerged, ReceiveMerged, SendHeartbeatMerged, HandleMerged, HandleFurtherMerged, StutterMerged
    DEF Next, Consume

LEMMA MergedInit == Init => MergedInv
<1> SUFFICES ASSUME Init PROVE MergedInv OBVIOUS
<1>1. /\ packets = [s \in Streams |-> <<>>] /\ delivered = [s \in Streams |-> 0] /\ queue = <<>> /\ givenUp = {}
      /\ stash = [i \in Merge!Slots |-> Nothing] /\ expected = 0 /\ highest = 0
      /\ heartbeatExpected = 0 /\ heartbeatHighest = 0 /\ heartbeatDelays = 0
      /\ pc = "idle" /\ caller = "data" /\ out = <<>> /\ received = {} /\ overrun = FALSE
  BY DEF Init, Merge!Init
<1>2. queue \in Seq(Numbers \cup {Heartbeat}) /\ DOMAIN queue = {} BY <1>1
<1>3. NetworkInv BY <1>1, ParametersAssumption DEF NetworkInv
<1>4. Arrived BY <1>1 DEF Arrived
<1>5. InReach BY <1>2 DEF InReach
<1>6. Merge!TypeOK
  <2>1. <<>> \in Seq(Nat) OBVIOUS
  <2> QED BY <1>1, <2>1 DEF Merge!TypeOK
<1>7. DOMAIN out = {} BY <1>1
<1>8. Merge!WindowInv
  <2>1. Merge!Slot(expected) \in Merge!Slots BY <1>1, StashSlots
  <2> QED BY <1>1, <2>1 DEF Merge!WindowInv, Merge!Occupied
<1>9. Merging BY <1>1, <1>6, <1>7, <1>8 DEF Merging, Merge!Increasing, Merge!Behind
<1>10. Passed BY <1>1 DEF Passed
<1> QED BY <1>2, <1>3, <1>4, <1>5, <1>9, <1>10 DEF MergedInv

LEMMA MergedGives == ASSUME MergedInv PROVE Recovered
<1>1. Merging /\ Passed BY DEF MergedInv
<1>2. Numbers \subseteq Nat BY ParametersAssumption DEF Numbers
<1>3. ~overrun /\ Merge!Increasing BY <1>1 DEF Merging
<1>4. {n \in Numbers : n < expected} \subseteq ToSet(out) \cup givenUp BY <1>1, <1>2 DEF Passed
<1> QED BY <1>3, <1>4 DEF Recovered

\* The Shuffler's stream is late in every state, whatever the Leaker leaks.
LEMMA DelayHolds == Spec => []Delay
<1>1. ASSUME ShufflerInv, Delay, ShufflerInv', [Next]_vars, ShufflerInv' /\ Consecutive' /\ Producing' => Late'
      PROVE  Delay'
  <2>1. SenderType' BY <1>1 DEF ShufflerInv
  <2> QED BY <1>1, <2>1, DelayStep
<1>2. ShufflerInv /\ Consecutive /\ Producing => Late BY LateFollows
<1>3. Init => Delay BY SendersInit DEF SendersInv
<1> QED BY <1>1, <1>2, <1>3, ShufflerInvHolds, PTL DEF Spec

\* No message is sent before its turn by more than the deck: what is a deck behind the
\* last message has its place already, and the others are no more than the deck holds.
LEMMA DelayGives == ASSUME ShufflerInv, Delay PROVE WithinDeck
<1> SUFFICES ASSUME NEW i \in DOMAIN packets[1]
             PROVE  i - DeckSize <= packets[1][i] + 1 /\ packets[1][i] + 1 <= i + DeckSize
  BY DEF WithinDeck
<1> DEFINE n == packets[1][i]
<1>1. packets[1] \in Seq(Numbers) /\ IsInjective(packets[1]) /\ SenderType
  BY DEF ShufflerInv, SenderType, Once, Streams
<1>2. i \in Nat /\ n \in Nat /\ n < MessageCount /\ MessageCount \in Nat /\ DeckSize \in Nat \ {0}
      /\ n \in Numbers
  BY <1>1, ParametersAssumption DEF Numbers
<1>3. CASE Producing
  <2>1. n = i - 1 BY <1>3 DEF Delay, Consecutive
  <2> QED BY <1>2, <2>1
<1>4. CASE ~Producing
  <2>1. MessageCount <= Shuffled
    BY <1>1, <1>2, <1>4 DEF Producing, Shuffled, SenderType
  <2>2. ASSUME NEW k \in Nat, k + DeckSize < MessageCount
        PROVE  k + 1 \in DOMAIN packets[1] /\ packets[1][k + 1] = k
    <3>1. MessageCount - 1 \in Numbers /\ MessageCount - 1 < Shuffled /\ k + DeckSize <= MessageCount - 1
      <4>1. Shuffled \in Nat BY <1>1, ShuffledType
      <4> QED BY <1>2, <2>1, <2>2, <4>1 DEF Numbers
    <3>2. DrivenOut(k) BY <3>1 DEF Delay, Late
    <3> QED BY <1>1, <3>2 DEF DrivenOut
  <2>3. i <= MessageCount
    <3>1. packets[1] \in Injection(1 .. Len(packets[1]), Numbers) BY <1>1 DEF Injection
    <3>2. IsFiniteSet(Numbers) /\ Cardinality(Numbers) = MessageCount
      BY <1>2, FS_Interval DEF Numbers
    <3>3. Cardinality(1 .. Len(packets[1])) <= MessageCount BY <3>1, <3>2, FS_Injection
    <3>4. Len(packets[1]) \in Nat BY <1>1
    <3>5. Cardinality(1 .. Len(packets[1])) = Len(packets[1]) BY <3>4, FS_Interval
    <3> QED BY <1>1, <1>2, <3>3, <3>4, <3>5
  <2>4. CASE n + DeckSize < MessageCount
    <3>1. n + 1 = i BY <1>1, <1>2, <2>2, <2>4 DEF IsInjective
    <3> QED BY <1>2, <3>1
  <2>5. CASE i - 1 + DeckSize < MessageCount
    <3>1. i - 1 \in Nat /\ (i - 1) + DeckSize < MessageCount BY <1>1, <1>2, <2>5
    <3>2. packets[1][(i - 1) + 1] = i - 1 BY <2>2, <3>1
    <3>3. (i - 1) + 1 = i BY <1>2
    <3> QED BY <1>2, <3>2, <3>3
  <2>6. CASE MessageCount <= n + DeckSize /\ MessageCount <= i - 1 + DeckSize
    BY <1>2, <2>3, <2>6
  <2> QED BY <1>2, <2>4, <2>5, <2>6
<1> QED BY <1>3, <1>4

\* look_ahead bounds how far a message moves (Shuffler.cpp), for every deck, prime and
\* number of messages, the flush included.
THEOREM WithinDeckCorrect == Spec => []WithinDeck
BY DelayGives, DelayHolds, ShufflerInvHolds, PTL

\* The window is large enough: the invariant holds in every state.
LEMMA StreamsInvHolds == ASSUME FirstComesFirst PROVE Spec => [](SendersInv /\ StreamsInv)
<1>1. ASSUME SendersInv, ShufflerInv', Delay', [Next]_vars
      PROVE  SendersInv'
  BY <1>1, SendersStep
<1>3. ASSUME SendersInv, SendersInv', StreamsInv, [Next]_vars PROVE StreamsInv'
  <2>1. UNCHANGED network
    BY <1>3 DEF Next, Produce, Shuffle, FlushDeck, ShuffleShutdown, Leak, LeakShutdown, Consume, Handle, HandleFurther,
        SendHeartbeat, ReceiveNext, ReceiveAny, ReceiveError, Receive, vars
  <2> SUFFICES ASSUME LookAhead >= DeckSize + MaxInFlight, network = "reliable" PROVE MergedInv'
    BY <1>3, <2>1 DEF StreamsInv
  <2>2. MergedInv BY <1>3 DEF StreamsInv
  <2> QED BY <1>3, <2>2, MergedStep
<1>4. Init => SendersInv /\ StreamsInv BY SendersInit, MergedInit DEF StreamsInv
<1> QED BY <1>1, <1>3, <1>4, ShufflerInvHolds, DelayHolds, PTL DEF Spec

\* With a window as large as the Shuffler's deck and what is on the way, the merge makes
\* one complete and ordered stream of the two (OrderedMerge.cpp), for every deck, prime,
\* leak, queue and number of messages that let the first message come first.
THEOREM RecoveredCorrect == ASSUME FirstComesFirst PROVE Spec => []Recovered
<1>1. SendersInv /\ StreamsInv => Recovered
  BY MergedGives DEF StreamsInv, Recovered
<1> QED BY <1>1, StreamsInvHolds, PTL
=============================================================================
