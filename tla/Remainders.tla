----------------------------- MODULE Remainders -----------------------------
(***************************************************************************)
(* What the ring buffer and OrderedMerge rely on when they take a position *)
(* modulo the size of an array: a window of that size meets every slot     *)
(* once.                                                                   *)
(***************************************************************************)
EXTENDS Integers, TLAPS

\* Division with remainder.
LEMMA Division ==
    ASSUME NEW n \in Nat \ {0}, NEW i \in Nat
    PROVE  i % n \in 0 .. n - 1 /\ \E d \in Int : i = n * d + (i % n)
<1>1. i \div n \in Int /\ i = n * (i \div n) + (i % n) OBVIOUS
<1>2. i % n \in 0 .. n - 1 OBVIOUS
<1> QED BY <1>1, <1>2

\* Two multiples of n that differ, differ by n at least.
LEMMA Multiples ==
    ASSUME NEW n \in Nat \ {0}, NEW a \in Int, NEW b \in Int, n * a - n * b > 0
    PROVE  n * a - n * b >= n
<1>1. CASE a > b
  <2>1. n * (a - b) >= n BY <1>1
  <2> QED BY <2>1
<1>2. CASE a = b BY <1>2
<1>3. CASE a < b
  <2>1. n * (b - a) >= n BY <1>3
  <2> QED BY <2>1
<1> QED BY <1>1, <1>2, <1>3

\* Numbers less than n apart have different slots.
LEMMA SlotsDiffer ==
    ASSUME NEW n \in Nat \ {0}, NEW i \in Nat, NEW j \in Nat, i < j, j < i + n
    PROVE  i % n # j % n
<1> SUFFICES ASSUME i % n = j % n PROVE FALSE OBVIOUS
<1>1. PICK b \in Int : i = n * b + (i % n) BY Division
<1>2. PICK a \in Int : j = n * a + (j % n) BY Division
<1>3. n * a \in Int /\ n * b \in Int /\ i % n \in Int BY Division
<1>4. n * a - n * b = j - i BY <1>1, <1>2, <1>3
<1>5. n * a - n * b >= n BY <1>4, Multiples
<1> QED BY <1>4, <1>5

\* A number between two multiples is that far from the first.
LEMMA Remainder ==
    ASSUME NEW n \in Nat \ {0}, NEW i \in Nat, NEW f \in Int, NEW slot \in 0 .. n - 1,
           i = n * f + slot
    PROVE  i % n = slot
<1>1. PICK e \in Int : i = n * e + (i % n) BY Division
<1>2. i % n \in 0 .. n - 1 BY Division
<1>3. n * e \in Int /\ n * f \in Int OBVIOUS
<1>4. n * e - n * f = slot - (i % n) BY <1>1, <1>2, <1>3
<1>5. ~(n * e - n * f > 0)
  <2> SUFFICES ASSUME n * e - n * f > 0 PROVE FALSE OBVIOUS
  <2>1. n * e - n * f >= n BY Multiples
  <2> QED BY <2>1, <1>2, <1>3, <1>4
<1>6. ~(n * f - n * e > 0)
  <2> SUFFICES ASSUME n * f - n * e > 0 PROVE FALSE OBVIOUS
  <2>1. n * f - n * e >= n BY Multiples
  <2> QED BY <2>1, <1>2, <1>3, <1>4
<1> QED BY <1>2, <1>3, <1>4, <1>5, <1>6

\* Every slot belongs to one of n numbers in a row.
LEMMA SlotsCovered ==
    ASSUME NEW n \in Nat \ {0}, NEW i \in Nat, NEW slot \in 0 .. n - 1
    PROVE  \E k \in 0 .. n - 1 : (i + k) % n = slot
<1>1. PICK d \in Int : i = n * d + (i % n) BY Division
<1>2. i % n \in 0 .. n - 1 BY Division
<1>3. n * d \in Int /\ n * (d + 1) = n * d + n OBVIOUS
<1>4. CASE i % n <= slot
  <2> DEFINE k == slot - (i % n)
  <2>1. k \in 0 .. n - 1 /\ i + k \in Nat BY <1>2, <1>4
  <2>2. i + k = n * d + slot BY <1>1, <1>2, <1>3
  <2> HIDE DEF k
  <2>3. (i + k) % n = slot BY <2>1, <2>2, Remainder
  <2> QED BY <2>1, <2>3
<1>5. CASE ~(i % n <= slot)
  <2> DEFINE k == slot + n - (i % n)
  <2>1. k \in 0 .. n - 1 /\ i + k \in Nat BY <1>2, <1>5
  <2>2. i + k = n * (d + 1) + slot BY <1>1, <1>2, <1>3
  <2>3. d + 1 \in Int OBVIOUS
  <2> HIDE DEF k
  <2>4. (i + k) % n = slot BY <2>1, <2>2, <2>3, Remainder
  <2> QED BY <2>1, <2>4
<1> QED BY <1>4, <1>5
=============================================================================
