--------------------------- MODULE MemoryPoolProofs ---------------------------
(***************************************************************************)
(* What holds of the memory pool for every number of threads, messages and *)
(* blocks, and every alignment.                                            *)
(***************************************************************************)
EXTENDS MemoryPool, Remainders, FiniteSetTheorems, TLAPS
-----------------------------------------------------------------------------
(* The layout *)

\* Multiplication keeps the order.
LEMMA TimesMonotonic ==
    ASSUME NEW n \in Nat, NEW a \in Int, NEW b \in Int, a <= b
    PROVE  a * n \in Int /\ b * n \in Int /\ a * n <= b * n
<1>1. (b - a) * n >= 0 OBVIOUS
<1>2. (b - a) * n = b * n - a * n OBVIOUS
<1> QED BY <1>1, <1>2

\* Blocks are at least as large as the messages asked for, in whole cache lines.
LEMMA BlockSizeFacts ==
    /\ BlockSize \in Nat \ {0} /\ MessageSize <= BlockSize
    /\ \E q \in Nat : BlockSize = CacheLineSize * q
<1> DEFINE n == MessageSize + CacheLineSize - 1
           q == n \div CacheLineSize
<1>1. n \in Nat /\ CacheLineSize \in Nat \ {0} /\ MessageSize \in Nat \ {0} BY SizeAssumption
<1>2. q \in Int /\ n = CacheLineSize * q + (n % CacheLineSize)
  <2> HIDE DEF n
  <2> QED BY <1>1
<1>3. n % CacheLineSize \in 0 .. CacheLineSize - 1 BY <1>1
<1>4. BlockSize = CacheLineSize * q
  <2>1. BlockSize = q * CacheLineSize BY DEF BlockSize
  <2> HIDE DEF q
  <2> QED BY <1>1, <1>2, <2>1
<1>5. CacheLineSize * q \in Int
  <2> HIDE DEF q
  <2> QED BY <1>1, <1>2
<1>6. CacheLineSize * q >= MessageSize BY <1>1, <1>2, <1>3, <1>5
<1>7. q >= 0
  <2> HIDE DEF q
  <2> SUFFICES ASSUME q < 0 PROVE FALSE BY <1>2
  <2>1. CacheLineSize * q <= 0 BY <1>1, <1>2
  <2> QED BY <2>1, <1>1, <1>5, <1>6
<1> QED BY <1>1, <1>2, <1>4, <1>5, <1>6, <1>7

\* The first block starts on a cache line, within a cache line of the header's end.
LEMMA StartFacts ==
    ASSUME base \in 0 .. CacheLineSize - 1
    PROVE  /\ Start \in Nat /\ SizeOfPool <= Start /\ Start < SizeOfPool + CacheLineSize
           /\ \E d \in Int : base + Start = CacheLineSize * d
<1> DEFINE end == base + SizeOfPool + CacheLineSize - 1
<1>1. end \in Nat /\ CacheLineSize \in Nat \ {0} /\ base \in Nat /\ SizeOfPool \in Nat
  BY SizeAssumption
<1>2. Start = end - (end % CacheLineSize) - base BY DEF Start
<1>3. end = base + SizeOfPool + CacheLineSize - 1 OBVIOUS
<1> HIDE DEF end
<1>4. PICK d \in Int : end = CacheLineSize * d + (end % CacheLineSize) BY <1>1, Division
<1>5. end % CacheLineSize \in 0 .. CacheLineSize - 1 BY <1>1, Division
<1>6. CacheLineSize * d \in Int BY <1>1
<1>7. Start \in Int /\ base + Start = CacheLineSize * d BY <1>1, <1>2, <1>4, <1>5, <1>6
<1>8. SizeOfPool <= Start /\ Start < SizeOfPool + CacheLineSize
  BY <1>1, <1>2, <1>3, <1>5
<1> QED BY <1>1, <1>7, <1>8

\* There are at least as many blocks as messages asked for, and no more than fit.
LEMMA CountFacts ==
    ASSUME base \in 0 .. CacheLineSize - 1
    PROVE  /\ BlockCount \in Nat /\ MessageCount <= BlockCount
           /\ Start + BlockCount * BlockSize <= PoolSize
           /\ PoolSize < Start + (BlockCount + 1) * BlockSize
<1> DEFINE room == PoolSize - Start
           fixed == BlockSize * MessageCount
<1>1. /\ Start \in Nat /\ SizeOfPool <= Start /\ Start < SizeOfPool + CacheLineSize
      /\ BlockSize \in Nat \ {0} /\ MessageCount \in Nat \ {0} /\ CacheLineSize \in Nat \ {0}
      /\ SizeOfPool \in Nat
  BY StartFacts, BlockSizeFacts, SizeAssumption
<1>2. fixed \in Nat BY <1>1
<1>3. PoolSize = SizeOfPool + fixed + CacheLineSize + CacheLineSize BY DEF PoolSize
<1>4. room \in Nat /\ fixed <= room
  <2> HIDE DEF fixed
  <2> QED BY <1>1, <1>2, <1>3
<1>5. BlockCount = room \div BlockSize BY DEF BlockCount
<1>6. BlockCount \in Int /\ room = BlockSize * BlockCount + (room % BlockSize)
  <2> HIDE DEF room
  <2> QED BY <1>1, <1>4, <1>5
<1>7. room % BlockSize \in 0 .. BlockSize - 1
  <2> HIDE DEF room
  <2> QED BY <1>1, <1>4, Division
<1>8. BlockSize * BlockCount \in Int /\ (BlockCount + 1) * BlockSize = BlockSize * BlockCount + BlockSize
      /\ BlockCount * BlockSize = BlockSize * BlockCount
  BY <1>1, <1>6
<1>9. MessageCount <= BlockCount
  <2> SUFFICES ASSUME BlockCount + 1 <= MessageCount PROVE FALSE BY <1>1, <1>6
  <2>1. (BlockCount + 1) * BlockSize <= MessageCount * BlockSize
    BY <1>1, <1>6, TimesMonotonic
  <2>2. MessageCount * BlockSize = fixed BY <1>1
  <2>3. (BlockCount + 1) * BlockSize <= room
    <3>1. (BlockCount + 1) * BlockSize \in Int BY <1>1, <1>6
    <3> HIDE DEF fixed, room
    <3> QED BY <2>1, <2>2, <3>1, <1>2, <1>4
  <2> DEFINE whole == BlockSize * BlockCount
             rest == room % BlockSize
  <2>4. whole + BlockSize <= whole + rest BY <2>3, <1>6, <1>8
  <2>5. whole \in Int /\ rest \in Int /\ rest < BlockSize BY <1>1, <1>7, <1>8
  <2> HIDE DEF whole, rest
  <2> QED BY <2>4, <2>5, <1>1
<1>10. PoolSize \in Nat /\ room = PoolSize - Start
  <2> HIDE DEF fixed
  <2> QED BY <1>1, <1>2, <1>3
<1> HIDE DEF room, fixed
<1> QED BY <1>1, <1>4, <1>6, <1>7, <1>8, <1>9, <1>10

\* The blocks lie one behind the other; each is linked to the next.
LEMMA BlockListFacts ==
    ASSUME base \in 0 .. CacheLineSize - 1
    PROVE  /\ BlockList \in Seq(Blocks) /\ Len(BlockList) = BlockCount
           /\ Blocks \subseteq Nat
           /\ \A i, j \in 1 .. BlockCount : BlockList[i] = BlockList[j] => i = j
           /\ \A i \in 1 .. BlockCount :
                NextBlock(BlockList[i]) = IF i = BlockCount THEN Null ELSE BlockList[i + 1]
           /\ BlockList[1] = Start
<1>1. /\ Start \in Nat /\ BlockSize \in Nat \ {0} /\ BlockCount \in Nat /\ 1 <= BlockCount
      /\ Start + BlockCount * BlockSize <= PoolSize
      /\ PoolSize < Start + (BlockCount + 1) * BlockSize
  BY StartFacts, BlockSizeFacts, CountFacts, SizeAssumption
<1>2. \A i \in 1 .. BlockCount : BlockList[i] = Start + (i - 1) * BlockSize BY DEF BlockList
<1>3. \A i \in Nat \ {0} : (i - 1) * BlockSize \in Nat BY <1>1
<1>4. BlockList \in Seq(Blocks) /\ Len(BlockList) = BlockCount
  <2>1. BlockList \in [1 .. BlockCount -> Blocks] BY DEF BlockList, Blocks
  <2> QED BY <1>1, <2>1
<1>5. Blocks \subseteq Nat BY <1>1, <1>2, <1>3 DEF Blocks
<1>6. ASSUME NEW i \in 1 .. BlockCount, NEW j \in 1 .. BlockCount, i < j
      PROVE  BlockList[i] < BlockList[j]
  <2>1. i * BlockSize <= (j - 1) * BlockSize BY <1>1, <1>6, TimesMonotonic
  <2>2. i * BlockSize = (i - 1) * BlockSize + BlockSize BY <1>1
  <2>3. (i - 1) * BlockSize \in Nat /\ (j - 1) * BlockSize \in Nat BY <1>1, <1>3
  <2> QED BY <1>1, <1>2, <2>1, <2>2, <2>3
<1>7. \A i, j \in 1 .. BlockCount : BlockList[i] = BlockList[j] => i = j
  <2>1. \A i \in 1 .. BlockCount : BlockList[i] \in Nat BY <1>1, <1>2, <1>3
  <2> QED BY <1>1, <1>6, <2>1
<1>8. ASSUME NEW i \in 1 .. BlockCount
      PROVE  NextBlock(BlockList[i]) = IF i = BlockCount THEN Null ELSE BlockList[i + 1]
  <2>1. BlockList[i] = Start + (i - 1) * BlockSize /\ (i - 1) * BlockSize \in Nat BY <1>1, <1>2, <1>3
  <2>2. i * BlockSize = (i - 1) * BlockSize + BlockSize
        /\ (i + 1) * BlockSize = (i - 1) * BlockSize + BlockSize + BlockSize
    BY <1>1
  <2>3. CASE i = BlockCount
    <3>1. BlockList[i] + BlockSize + BlockSize = Start + (BlockCount + 1) * BlockSize
      BY <1>1, <2>1, <2>2, <2>3
    <3>2. PoolSize \in Int /\ Start + (BlockCount + 1) * BlockSize \in Int
      BY <1>1, <2>1, <2>2, <2>3, BlockSizeFacts, SizeAssumption DEF PoolSize
    <3> QED BY <1>1, <2>3, <3>1, <3>2 DEF NextBlock
  <2>4. CASE i # BlockCount
    <3>1. (i + 1) * BlockSize <= BlockCount * BlockSize BY <1>1, <2>4, TimesMonotonic
    <3>2. PoolSize \in Int /\ BlockCount * BlockSize \in Int
      BY <1>1, BlockSizeFacts, SizeAssumption DEF PoolSize
    <3>3. BlockList[i] + BlockSize + BlockSize <= PoolSize
      BY <1>1, <2>1, <2>2, <3>1, <3>2
    <3>4. BlockList[i + 1] = Start + i * BlockSize
      <4>1. i + 1 \in 1 .. BlockCount /\ (i + 1) - 1 = i BY <1>1, <2>4
      <4> QED BY <4>1, <1>2
    <3> QED BY <1>1, <2>1, <2>2, <2>4, <3>2, <3>3, <3>4 DEF NextBlock
  <2> QED BY <2>3, <2>4
<1>9. BlockList[1] = Start
  <2>1. 1 \in 1 .. BlockCount /\ (1 - 1) * BlockSize = 0 BY <1>1
  <2> QED BY <2>1, <1>1, <1>2
<1> QED BY <1>4, <1>5, <1>7, <1>8, <1>9
-----------------------------------------------------------------------------
(* The invariant *)

IInv == TypeOK /\ PoolInv

\* The pool stays where it is.
LEMMA BlocksStay == ASSUME base' = base PROVE Blocks' = Blocks
BY DEF Blocks, BlockList, BlockCount, Start, PoolSize, BlockSize

\* What the invariants say of the free list.
LEMMA FreeFacts ==
    ASSUME IInv
    PROVE  /\ Len(free) \in Nat
           /\ \A i \in 1 .. Len(free) : free[i] \in Blocks /\ free[i] \notin Held
           /\ free = <<>> <=> Len(free) = 0
           /\ \A m \in Messages : offset[m] # Null => offset[m] \in Blocks /\ offset[m] \in Held
           /\ Null \notin Blocks /\ Blocks \subseteq Nat
<1>1. free \in Seq(Blocks) /\ offset \in [Messages -> Blocks \cup {Null}] BY DEF IInv, TypeOK
<1>2. \A i \in 1 .. Len(free) : free[i] \in Blocks \ Held BY DEF IInv, PoolInv, Conservation
<1>3. Blocks \subseteq Nat BY BlockListFacts DEF IInv, TypeOK
<1>4. Len(free) \in Nat /\ (free = <<>> <=> Len(free) = 0) BY <1>1
<1>5. \A m \in Messages : offset[m] # Null => offset[m] \in Blocks /\ offset[m] \in Held
  BY <1>1 DEF Held
<1>6. Null \notin Blocks BY <1>3, ValuesAssumption
<1> QED BY <1>2, <1>3, <1>4, <1>5, <1>6

\* Actions that leave the list and the messages' blocks alone.
LEMMA ListStays ==
    ASSUME IInv, UNCHANGED <<base, rootOffset, memory, offset, free>>
    PROVE  List' /\ Conservation'
<1>1. List' BY DEF IInv, PoolInv, List
<1>2. Blocks' = Blocks /\ Held' = Held BY BlocksStay DEF Held
<1>3. Conservation' BY <1>2 DEF IInv, PoolInv, Conservation
<1> QED BY <1>1, <1>3

LEMMA InvInit == Init => IInv
<1> SUFFICES ASSUME Init PROVE IInv OBVIOUS
<1>1. base \in 0 .. CacheLineSize - 1 BY DEF Init
<1>2. /\ BlockList \in Seq(Blocks) /\ Len(BlockList) = BlockCount /\ Blocks \subseteq Nat
      /\ \A i, j \in 1 .. BlockCount : BlockList[i] = BlockList[j] => i = j
      /\ \A i \in 1 .. BlockCount :
           NextBlock(BlockList[i]) = IF i = BlockCount THEN Null ELSE BlockList[i + 1]
      /\ BlockList[1] = Start
  BY <1>1, BlockListFacts
<1>3. BlockCount \in Nat /\ 1 <= BlockCount BY <1>1, CountFacts, SizeAssumption
<1>4. \A i \in 1 .. BlockCount : BlockList[i] \in Blocks BY DEF Blocks
<1>5. Start \in Blocks BY <1>2, <1>3, <1>4
<1>6. \A b \in Blocks : NextBlock(b) \in Blocks \cup {Null}
  <2> SUFFICES ASSUME NEW i \in 1 .. BlockCount PROVE NextBlock(BlockList[i]) \in Blocks \cup {Null}
    BY DEF Blocks
  <2>1. i # BlockCount => i + 1 \in 1 .. BlockCount BY <1>3
  <2> QED BY <1>2, <1>4, <2>1
<1>7. TypeOK BY <1>1, <1>2, <1>5, <1>6 DEF Init, TypeOK, Places
<1>8. Held = {} BY DEF Init, Held
<1>9. List
  <2>1. free # <<>> BY <1>2, <1>3 DEF Init
  <2>2. \A i \in 1 .. Len(free) : memory[free[i]] = NextBlock(free[i]) BY <1>2, <1>4 DEF Init
  <2> QED BY <1>2, <2>1, <2>2 DEF Init, List
<1>10. Conservation BY <1>2, <1>8 DEF Init, Conservation, Blocks
<1>11. Exclusion /\ Calls /\ Progress BY DEF Init, Exclusion, Calls, Progress
<1> QED BY <1>7, <1>9, <1>10, <1>11 DEF IInv, PoolInv

\* The actions that change neither the list nor who has which block.
LEMMA CallStep ==
    ASSUME IInv, NEW t \in Threads,
           \/ \E m \in Messages : TryAllocate(t, m) \/ Release(t, m)
           \/ Acquire(t) \/ ReadRoot(t) \/ Unlock(t)
    PROVE  IInv'
<1> USE DEF IInv, PoolInv, TypeOK, Goto
<1>1. UNCHANGED <<base, rootOffset, memory, offset, free>>
  BY DEF TryAllocate, Release, Acquire, ReadRoot, Unlock
<1>2. List' /\ Conservation' BY <1>1, ListStays
<1>3. Blocks' = Blocks BY <1>1, BlocksStay
<1>4. ASSUME NEW m \in Messages, TryAllocate(t, m) \/ Release(t, m) PROVE IInv'
  <2>1. TypeOK' BY <1>1, <1>3, <1>4 DEF TryAllocate, Release, Places
  <2>2. Exclusion' BY <1>4 DEF TryAllocate, Release, Exclusion
  <2>3. Calls' BY <1>4 DEF TryAllocate, Release, Calls, Busy
  <2>4. Progress' BY <1>4 DEF TryAllocate, Release, Progress
  <2> QED BY <1>2, <2>1, <2>2, <2>3, <2>4
<1>5. CASE Acquire(t)
  <2>1. TypeOK' BY <1>1, <1>3, <1>5 DEF Acquire, Places
  <2>2. Exclusion' BY <1>5, ValuesAssumption DEF Acquire, Exclusion
  <2>3. Calls' BY <1>5 DEF Acquire, Calls
  <2>4. Progress' BY <1>5 DEF Acquire, Progress
  <2> QED BY <1>2, <2>1, <2>2, <2>3, <2>4
<1>6. CASE ReadRoot(t)
  <2>1. TypeOK' BY <1>1, <1>3, <1>6 DEF ReadRoot, Places
  <2>2. Exclusion' BY <1>6 DEF ReadRoot, Exclusion
  <2>3. Calls' BY <1>6 DEF ReadRoot, Calls
  <2>4. Progress' BY <1>6 DEF ReadRoot, Progress
  <2> QED BY <1>2, <2>1, <2>2, <2>3, <2>4
<1>7. CASE Unlock(t)
  <2>1. TypeOK' BY <1>1, <1>3, <1>7 DEF Unlock, Places
  <2>2. Exclusion' BY <1>7 DEF Unlock, Exclusion
  <2>3. Calls' BY <1>7 DEF Unlock, Calls
  <2>4. Progress' BY <1>7 DEF Unlock, Progress
  <2> QED BY <1>2, <2>1, <2>2, <2>3, <2>4
<1> QED BY <1>4, <1>5, <1>6, <1>7

\* A block leaves the list at its head.
LEMMA PopStep == ASSUME IInv, NEW t \in Threads, Pop(t) PROVE IInv'
<1> DEFINE b == block[t]
           m == message[t]
<1>1. /\ pc[t] = "pop" /\ lock = t /\ b = rootOffset /\ rootOffset # Null
      /\ m \in Messages /\ offset[m] = Null
  BY DEF IInv, PoolInv, Exclusion, Calls, Progress, Pop
<1>2. free # <<>> /\ b = free[1] BY <1>1 DEF IInv, PoolInv, List
<1>3. /\ Len(free) \in Nat \ {0} /\ b \in Blocks /\ b \notin Held
      /\ Null \notin Blocks
  BY <1>2, FreeFacts
<1>4. /\ rootOffset' = memory[b] /\ offset' = [offset EXCEPT ![m] = b]
      /\ free' = Tail(free) /\ block' = [block EXCEPT ![t] = Null]
      /\ pc' = [pc EXCEPT ![t] = "unlock"]
      /\ UNCHANGED <<base, memory, lock, message>>
  BY DEF Pop, Goto
<1> HIDE DEF b, m
<1>5. Blocks' = Blocks BY <1>4, BlocksStay
<1>6. free \in Seq(Blocks) /\ offset \in [Messages -> Blocks \cup {Null}] BY DEF IInv, TypeOK
<1>7. /\ free' \in Seq(Blocks) /\ Len(free') = Len(free) - 1
      /\ \A i \in 1 .. Len(free) - 1 : free'[i] = free[i + 1]
      /\ free' = <<>> <=> Len(free) = 1
  <2>1. Len(free') = Len(free) - 1 BY <1>2, <1>4, <1>6
  <2>2. free' \in Seq(Blocks) BY <1>2, <1>4, <1>6
  <2>3. \A i \in 1 .. Len(free) - 1 : free'[i] = free[i + 1] BY <1>2, <1>4, <1>6
  <2>4. free' = <<>> <=> Len(free) = 1 BY <1>3, <2>1, <2>2
  <2> QED BY <2>1, <2>2, <2>3, <2>4
<1>8. /\ \A i \in 1 .. Len(free) : memory[free[i]] = IF i = Len(free) THEN Null ELSE free[i + 1]
      /\ \A i, j \in 1 .. Len(free) : free[i] = free[j] => i = j
  BY DEF IInv, PoolInv, List
<1>9. List'
  <2>1. rootOffset' = IF free' = <<>> THEN Null ELSE free'[1]
    <3>1. 1 \in 1 .. Len(free) BY <1>3, <1>6
    <3>2. memory[b] = IF 1 = Len(free) THEN Null ELSE free[1 + 1] BY <1>2, <1>8, <3>1
    <3>3. Len(free) # 1 => 1 \in 1 .. Len(free) - 1
      <4>1. \A k \in Nat \ {0} : k # 1 => k >= 2 OBVIOUS
      <4>2. Len(free) # 1 => Len(free) >= 2 BY <1>3, <4>1
      <4> QED BY <1>3, <4>2
    <3>4. Len(free) # 1 => free'[1] = free[1 + 1] BY <1>7, <3>3
    <3> QED BY <1>4, <1>7, <3>2, <3>4
  <2>2. ASSUME NEW i \in 1 .. Len(free') 
        PROVE  memory'[free'[i]] = IF i = Len(free') THEN Null ELSE free'[i + 1]
    <3>1. i \in 1 .. Len(free) - 1 /\ i + 1 \in 1 .. Len(free) BY <1>3, <1>7
    <3>2. i # Len(free') => i + 1 \in 1 .. Len(free) - 1 BY <1>3, <1>7, <3>1
    <3>3. free'[i] = free[i + 1] BY <1>7, <3>1
    <3>4. memory[free[i + 1]] = IF i + 1 = Len(free) THEN Null ELSE free[(i + 1) + 1]
      BY <1>8, <3>1
    <3>5. i + 1 = Len(free) <=> i = Len(free') BY <1>3, <1>6, <1>7, <3>1
    <3>6. i # Len(free') => free'[i + 1] = free[(i + 1) + 1] BY <1>7, <3>2
    <3> QED BY <1>4, <3>3, <3>4, <3>5, <3>6
  <2>3. \A i, j \in 1 .. Len(free') : free'[i] = free'[j] => i = j BY <1>3, <1>7, <1>8
  <2> QED BY <2>1, <2>2, <2>3 DEF List
<1>10. \A n \in Messages : offset'[n] = IF n = m THEN b ELSE offset[n] BY <1>1, <1>4, <1>6
<1>11. Held' = Held \cup {b}
  <2>1. \A n \in Messages : n # m => offset'[n] = offset[n] BY <1>10
  <2> QED BY <1>1, <1>3, <1>10, <2>1 DEF Held
<1>12. Conservation'
  <2>1. {free[i] : i \in 1 .. Len(free)} = Blocks \ Held BY DEF IInv, PoolInv, Conservation
  <2>2. \A x : x \in {free'[i] : i \in 1 .. Len(free')} <=> x \in Blocks \ Held /\ x # b
    <3>1. ASSUME NEW i \in 1 .. Len(free') PROVE free'[i] \in Blocks \ Held /\ free'[i] # b
      <4>1. i + 1 \in 1 .. Len(free) /\ i + 1 # 1 /\ 1 \in 1 .. Len(free) BY <1>3, <1>7
      <4>2. free'[i] = free[i + 1] BY <1>7
      <4> QED BY <1>2, <1>8, <2>1, <4>1, <4>2
    <3>2. ASSUME NEW x \in Blocks \ Held, x # b PROVE \E i \in 1 .. Len(free') : x = free'[i]
      <4>1. PICK i \in 1 .. Len(free) : x = free[i] BY <2>1
      <4>2. i # 1 BY <1>2, <3>2, <4>1
      <4>3. i - 1 \in 1 .. Len(free') /\ free'[i - 1] = free[(i - 1) + 1] /\ (i - 1) + 1 = i
        BY <1>3, <1>7, <4>2
      <4> QED BY <4>1, <4>3
    <3> QED BY <3>1, <3>2
  <2>3. {free'[i] : i \in 1 .. Len(free')} = Blocks' \ Held' BY <1>5, <1>11, <2>2
  <2>4. \A n, o \in Messages : offset'[n] = offset'[o] /\ offset'[n] # Null => n = o
    <3>1. \A n, o \in Messages : offset[n] = offset[o] /\ offset[n] # Null => n = o
      BY DEF IInv, PoolInv, Conservation
    <3>2. \A n \in Messages : offset[n] # b BY <1>3 DEF Held
    <3> QED BY <1>10, <3>1, <3>2
  <2> QED BY <2>3, <2>4 DEF Conservation
<1>13. TypeOK'
  <2>1. rootOffset' \in Blocks \cup {Null}
    <3>1. 1 \in 1 .. Len(free) BY <1>3, <1>6
    <3>2. memory[b] = IF 1 = Len(free) THEN Null ELSE free[1 + 1] BY <1>2, <1>8, <3>1
    <3>3. Len(free) # 1 => 1 + 1 \in 1 .. Len(free)
      <4>1. \A k \in Nat \ {0} : k # 1 => k >= 2 OBVIOUS
      <4>2. Len(free) # 1 => Len(free) >= 2 BY <1>3, <4>1
      <4> QED BY <1>3, <4>2
    <3>4. Len(free) # 1 => free[1 + 1] \in Blocks BY <1>6, <3>3
    <3> QED BY <1>4, <3>2, <3>4
  <2> QED BY <1>1, <1>3, <1>4, <1>5, <1>7, <2>1 DEF IInv, TypeOK, Places
<1>14. pc \in [Threads -> Places] BY DEF IInv, TypeOK
<1>15. Exclusion' BY <1>1, <1>4, <1>14 DEF IInv, PoolInv, Exclusion
<1>16. Calls'
  <2>1. \A u \in Threads : u # t /\ pc[u] # "idle" => message[u] # m /\ message[u] \in Messages
    BY <1>1 DEF IInv, PoolInv, Calls, m
  <2>2. m = message[t] BY DEF m
  <2> QED BY <1>1, <1>4, <1>10, <1>14, <2>1, <2>2 DEF IInv, PoolInv, Calls
<1>17. Progress'
  <2>1. \A u \in Threads : u # t => pc[u] \notin {"pop", "push"} BY <1>1 DEF IInv, PoolInv, Exclusion
  <2> QED BY <1>4, <1>14, <2>1 DEF Progress
<1> QED BY <1>9, <1>12, <1>13, <1>15, <1>16, <1>17 DEF IInv, PoolInv

\* What is written into a block that a message holds does not touch the list.
LEMMA ListUntouched ==
    ASSUME IInv, NEW m \in Messages, offset[m] # Null, NEW x \in Blocks \cup {Null, Data},
           memory' = [memory EXCEPT ![offset[m]] = x],
           UNCHANGED <<base, rootOffset, offset, free>>
    PROVE  /\ List' /\ Conservation' /\ Blocks' = Blocks
           /\ memory' \in [Blocks -> Blocks \cup {Null, Data}]
           /\ \A b \in Blocks : b # offset[m] => memory'[b] = memory[b]
<1>1. memory \in [Blocks -> Blocks \cup {Null, Data}] BY DEF IInv, TypeOK
<1>2. offset[m] \in Blocks /\ offset[m] \in Held BY FreeFacts
<1>3. \A i \in 1 .. Len(free) : free[i] \in Blocks /\ free[i] # offset[m] BY <1>2, FreeFacts
<1>4. \A b \in Blocks : b # offset[m] => memory'[b] = memory[b] BY <1>1
<1>5. List'
  <2>1. \A i \in 1 .. Len(free) : memory'[free[i]] = memory[free[i]] BY <1>3, <1>4
  <2> QED BY <2>1 DEF IInv, PoolInv, List
<1>6. Blocks' = Blocks /\ Held' = Held BY BlocksStay DEF Held
<1>7. Conservation' BY <1>6 DEF IInv, PoolInv, Conservation
<1> QED BY <1>1, <1>4, <1>5, <1>6, <1>7

LEMMA LinkStep == ASSUME IInv, NEW t \in Threads, Link(t) PROVE IInv'
<1> DEFINE m == message[t]
<1>1. pc[t] = "link" /\ lock = t /\ m \in Messages /\ offset[m] # Null /\ rootOffset \in Blocks \cup {Null}
  BY DEF IInv, TypeOK, PoolInv, Exclusion, Calls, Link
<1>2. /\ memory' = [memory EXCEPT ![offset[m]] = rootOffset]
      /\ pc' = [pc EXCEPT ![t] = "push"]
      /\ UNCHANGED <<base, rootOffset, lock, offset, message, block, free>>
  BY DEF Link, Goto
<1>3. List' /\ Conservation' /\ Blocks' = Blocks /\ memory' \in [Blocks -> Blocks \cup {Null, Data}]
  BY <1>1, <1>2, ListUntouched
<1>4. memory \in [Blocks -> Blocks \cup {Null, Data}] /\ pc \in [Threads -> Places]
      /\ offset[m] \in Blocks
  BY <1>1, FreeFacts DEF IInv, TypeOK
<1>5. TypeOK' BY <1>2, <1>3 DEF IInv, TypeOK, Places
<1>6. Exclusion' BY <1>1, <1>2, <1>4 DEF IInv, PoolInv, Exclusion
<1>7. Calls' BY <1>1, <1>2, <1>4 DEF IInv, PoolInv, Calls
<1>8. Progress'
  <2>1. \A u \in Threads : u # t => pc[u] \notin {"pop", "push"} BY <1>1 DEF IInv, PoolInv, Exclusion
  <2>2. memory'[offset[m]] = rootOffset BY <1>2, <1>4
  <2> QED BY <1>2, <1>4, <2>1, <2>2 DEF Progress
<1> QED BY <1>3, <1>5, <1>6, <1>7, <1>8 DEF IInv, PoolInv

LEMMA WriteStep == ASSUME IInv, NEW m \in Messages, Write(m) PROVE IInv'
<1>1. /\ ~Busy(m) /\ offset[m] # Null
      /\ memory' = [memory EXCEPT ![offset[m]] = Data]
      /\ UNCHANGED <<base, rootOffset, lock, offset, pc, message, block, free>>
  BY DEF Write
<1>2. /\ List' /\ Conservation' /\ Blocks' = Blocks
      /\ memory' \in [Blocks -> Blocks \cup {Null, Data}]
      /\ \A b \in Blocks : b # offset[m] => memory'[b] = memory[b]
  BY <1>1, ListUntouched
<1>3. TypeOK' BY <1>1, <1>2 DEF IInv, TypeOK
<1>4. Exclusion' /\ Calls' BY <1>1 DEF IInv, PoolInv, Exclusion, Calls
<1>5. Progress'
  <2>1. ASSUME NEW u \in Threads, pc[u] = "push" PROVE memory'[offset[message[u]]] = memory[offset[message[u]]]
    <3>1. message[u] \in Messages /\ offset[message[u]] # Null /\ message[u] # m
      BY <1>1, <2>1 DEF IInv, PoolInv, Calls, Busy
    <3>2. offset[message[u]] \in Blocks BY <3>1, FreeFacts
    <3>3. offset[message[u]] # offset[m] BY <3>1 DEF IInv, PoolInv, Conservation
    <3> QED BY <1>2, <3>2, <3>3
  <2> QED BY <1>1, <2>1 DEF IInv, PoolInv, Progress
<1> QED BY <1>2, <1>3, <1>4, <1>5 DEF IInv, PoolInv

\* A block returns to the head of the list.
LEMMA PushStep == ASSUME IInv, NEW t \in Threads, Push(t) PROVE IInv'
<1> DEFINE m == message[t]
           b == offset[m]
<1>1. /\ pc[t] = "push" /\ lock = t /\ m \in Messages /\ b # Null /\ memory[b] = rootOffset
  BY DEF IInv, PoolInv, Exclusion, Calls, Progress, Push
<1>2. b \in Blocks /\ b \in Held /\ Len(free) \in Nat /\ Null \notin Blocks
      /\ \A i \in 1 .. Len(free) : free[i] # b
  BY <1>1, FreeFacts
<1>3. /\ rootOffset' = b /\ offset' = [offset EXCEPT ![m] = Null] /\ free' = <<b>> \o free
      /\ pc' = [pc EXCEPT ![t] = "unlock"]
      /\ UNCHANGED <<base, memory, lock, message, block>>
  BY DEF Push, Goto
<1>4. Blocks' = Blocks BY <1>3, BlocksStay
<1>5. free \in Seq(Blocks) /\ offset \in [Messages -> Blocks \cup {Null}] /\ pc \in [Threads -> Places]
  BY DEF IInv, TypeOK
<1>6. \A n, o \in Messages : offset[n] = offset[o] /\ offset[n] # Null => n = o
  BY DEF IInv, PoolInv, Conservation
<1>7. \A u \in Threads : u # t => pc[u] \notin {"pop", "push"} BY <1>1 DEF IInv, PoolInv, Exclusion
<1>8. \A u \in Threads : u # t /\ pc[u] # "idle" => message[u] # m /\ message[u] \in Messages
  BY <1>1 DEF IInv, PoolInv, Calls
<1>9. m = message[t] OBVIOUS
<1>10. offset[m] = b OBVIOUS
<1> HIDE DEF b, m
<1>11. /\ free' \in Seq(Blocks) /\ Len(free') = Len(free) + 1 /\ free' # <<>>
       /\ free'[1] = b
       /\ \A i \in 2 .. Len(free) + 1 : free'[i] = free[i - 1]
  BY <1>2, <1>3, <1>5
<1>12. \A n \in Messages : offset'[n] = IF n = m THEN Null ELSE offset[n] BY <1>1, <1>3, <1>5
<1>13. Held' = Held \ {b}
  <2>1. \A n \in Messages : n # m => offset[n] # b BY <1>1, <1>6, <1>10
  <2> QED BY <1>10, <1>12, <2>1 DEF Held
<1>14. List'
  <2>1. rootOffset = IF free = <<>> THEN Null ELSE free[1] BY DEF IInv, PoolInv, List
  <2>2. \A i \in 1 .. Len(free) : memory[free[i]] = IF i = Len(free) THEN Null ELSE free[i + 1]
    BY DEF IInv, PoolInv, List
  <2>3. \A i, j \in 1 .. Len(free) : free[i] = free[j] => i = j BY DEF IInv, PoolInv, List
  <2>4. rootOffset' = IF free' = <<>> THEN Null ELSE free'[1] BY <1>3, <1>11
  <2>5. ASSUME NEW i \in 1 .. Len(free')
        PROVE  memory'[free'[i]] = IF i = Len(free') THEN Null ELSE free'[i + 1]
    <3>1. CASE i = 1
      <4>1. CASE free = <<>>
        <5>1. Len(free') = 1 BY <1>11, <4>1
        <5> QED BY <1>1, <1>3, <1>11, <2>1, <3>1, <4>1, <5>1
      <4>2. CASE free # <<>>
        <5>1. Len(free) # 0 BY <1>5, <4>2
        <5>2. \A k \in Nat : k # 0 => k >= 1 OBVIOUS
        <5>3. Len(free) >= 1 BY <1>2, <5>1, <5>2
        <5>4. 2 \in 2 .. Len(free) + 1 /\ Len(free') > 1 BY <1>2, <1>11, <5>3
        <5>5. free'[1 + 1] = free[1] BY <1>11, <5>4
        <5> QED BY <1>1, <1>3, <1>11, <2>1, <3>1, <4>2, <5>4, <5>5
      <4> QED BY <4>1, <4>2
    <3>2. CASE i > 1
      <4>1. i \in 2 .. Len(free) + 1 /\ i - 1 \in 1 .. Len(free) /\ (i - 1) + 1 = i
        BY <1>2, <1>11, <3>2
      <4>2. i < Len(free') => i + 1 \in 2 .. Len(free) + 1 /\ (i + 1) - 1 = i
        BY <1>2, <1>11, <3>2
      <4>3. free'[i] = free[i - 1] BY <1>11, <4>1
      <4>4. memory[free[i - 1]] = IF i - 1 = Len(free) THEN Null ELSE free[(i - 1) + 1]
        BY <2>2, <4>1
      <4>5. CASE i = Len(free')
        <5>1. i - 1 = Len(free) BY <1>2, <1>11, <4>5
        <5> QED BY <1>3, <4>3, <4>4, <4>5, <5>1
      <4>6. CASE i < Len(free')
        <5>1. i - 1 < Len(free) BY <1>2, <1>11, <4>6
        <5>2. free'[i + 1] = free[(i + 1) - 1] BY <1>11, <4>2, <4>6
        <5> QED BY <1>2, <1>3, <4>1, <4>2, <4>3, <4>4, <4>6, <5>1, <5>2
      <4> QED BY <1>2, <1>11, <4>5, <4>6
    <3> QED BY <3>1, <3>2
  <2>6. \A i, j \in 1 .. Len(free') : free'[i] = free'[j] => i = j
    <3> SUFFICES ASSUME NEW i \in 1 .. Len(free'), NEW j \in 1 .. Len(free'), i < j
                 PROVE  free'[i] # free'[j]
      BY <1>2, <1>11
    <3>1. j \in 2 .. Len(free) + 1 /\ j - 1 \in 1 .. Len(free) BY <1>2, <1>11
    <3>2. CASE i = 1 BY <1>2, <1>11, <3>1, <3>2
    <3>3. CASE i > 1
      <4>1. i \in 2 .. Len(free) + 1 /\ i - 1 \in 1 .. Len(free) /\ i - 1 # j - 1
        BY <1>2, <1>11, <3>3
      <4> QED BY <1>11, <2>3, <3>1, <4>1
    <3> QED BY <3>2, <3>3
  <2> QED BY <2>4, <2>5, <2>6 DEF List
<1>15. Conservation'
  <2>1. {free[i] : i \in 1 .. Len(free)} = Blocks \ Held BY DEF IInv, PoolInv, Conservation
  <2>2. ASSUME NEW i \in 1 .. Len(free') PROVE free'[i] \in (Blocks \ Held) \cup {b}
    <3>1. CASE i = 1 BY <1>11, <3>1
    <3>2. CASE i > 1
      <4>1. i \in 2 .. Len(free) + 1 /\ i - 1 \in 1 .. Len(free) BY <1>2, <1>11, <3>2
      <4> QED BY <1>11, <2>1, <4>1
    <3> QED BY <3>1, <3>2
  <2>3. ASSUME NEW x \in (Blocks \ Held) \cup {b} PROVE \E i \in 1 .. Len(free') : x = free'[i]
    <3>1. CASE x = b
      <4>1. 1 \in 1 .. Len(free') BY <1>2, <1>11
      <4> QED BY <1>11, <3>1, <4>1
    <3>2. CASE x # b
      <4>1. PICK i \in 1 .. Len(free) : x = free[i] BY <2>1, <3>2
      <4>2. i + 1 \in 2 .. Len(free) + 1 /\ i + 1 \in 1 .. Len(free') /\ (i + 1) - 1 = i
        BY <1>2, <1>11
      <4> QED BY <1>11, <4>1, <4>2
    <3> QED BY <3>1, <3>2
  <2>4. {free'[i] : i \in 1 .. Len(free')} = (Blocks \ Held) \cup {b} BY <2>2, <2>3
  <2>5. Blocks' \ Held' = (Blocks \ Held) \cup {b} BY <1>2, <1>4, <1>13
  <2>6. \A n, o \in Messages : offset'[n] = offset'[o] /\ offset'[n] # Null => n = o BY <1>6, <1>12
  <2> QED BY <2>4, <2>5, <2>6 DEF Conservation
<1>16. TypeOK' BY <1>2, <1>3, <1>4, <1>5, <1>11 DEF IInv, TypeOK, Places
<1>17. Exclusion' BY <1>1, <1>3, <1>5 DEF IInv, PoolInv, Exclusion
<1>18. Calls'
  <2>1. \A u \in Threads : pc'[u] # "idle" => message'[u] \in Messages BY <1>1, <1>3, <1>5, <1>8, <1>9
  <2>2. \A u \in Threads : u # t /\ pc[u] # "idle" => offset'[message[u]] = offset[message[u]]
    BY <1>8, <1>12
  <2> QED BY <1>1, <1>3, <1>5, <2>1, <2>2 DEF IInv, PoolInv, Calls
<1>19. Progress' BY <1>3, <1>5, <1>7 DEF Progress
<1> QED BY <1>14, <1>15, <1>16, <1>17, <1>18, <1>19 DEF IInv, PoolInv

LEMMA MoveToStep == ASSUME IInv, NEW m \in Messages, NEW n \in Messages, MoveTo(m, n) PROVE IInv'
<1>1. /\ m # n /\ ~Busy(m) /\ ~Busy(n)
      /\ offset' = [offset EXCEPT ![m] = offset[n], ![n] = offset[m]]
      /\ UNCHANGED <<base, rootOffset, memory, lock, pc, message, block, free>>
  BY DEF MoveTo
<1>2. offset \in [Messages -> Blocks \cup {Null}] /\ Blocks' = Blocks
  BY <1>1, BlocksStay DEF IInv, TypeOK
<1>3. \A o \in Messages :
        offset'[o] = IF o = m THEN offset[n] ELSE IF o = n THEN offset[m] ELSE offset[o]
  BY <1>1, <1>2
<1>4. Held' = Held
  <2>1. \A o \in Messages : \E p \in Messages : offset'[o] = offset[p] BY <1>3
  <2>2. \A o \in Messages : \E p \in Messages : offset[o] = offset'[p]
    <3> TAKE o \in Messages
    <3>1. CASE o = m BY <1>1, <1>3, <3>1
    <3>2. CASE o = n BY <1>1, <1>3, <3>2
    <3>3. CASE o # m /\ o # n BY <1>3, <3>3
    <3> QED BY <3>1, <3>2, <3>3
  <2> QED BY <2>1, <2>2 DEF Held
<1>5. List' BY <1>1 DEF IInv, PoolInv, List
<1>6. Conservation'
  <2>1. \A o, p \in Messages : offset'[o] = offset'[p] /\ offset'[o] # Null => o = p
    BY <1>3 DEF IInv, PoolInv, Conservation
  <2> QED BY <1>1, <1>2, <1>4, <2>1 DEF IInv, PoolInv, Conservation
<1>7. TypeOK' BY <1>1, <1>2 DEF IInv, TypeOK
<1>8. \A t \in Threads : pc[t] # "idle" => message[t] \in Messages /\ offset'[message[t]] = offset[message[t]]
  BY <1>1, <1>3 DEF IInv, PoolInv, Calls, Busy
<1>9. Exclusion' BY <1>1 DEF IInv, PoolInv, Exclusion
<1>10. Calls' BY <1>1, <1>8 DEF IInv, PoolInv, Calls
<1>11. Progress'
  <2>1. \A t \in Threads :
          /\ pc[t] = "pop" => block[t] = rootOffset /\ rootOffset # Null
          /\ pc[t] = "push" => memory[offset[message[t]]] = rootOffset
    BY DEF IInv, PoolInv, Progress
  <2>2. \A t \in Threads : pc[t] = "push" => memory[offset'[message[t]]] = rootOffset
    BY <1>8, <2>1
  <2> QED BY <1>1, <2>1, <2>2 DEF Progress
<1> QED BY <1>5, <1>6, <1>7, <1>9, <1>10, <1>11 DEF IInv, PoolInv

LEMMA InvStep == IInv /\ [Next]_vars => IInv'
<1> SUFFICES ASSUME IInv, [Next]_vars PROVE IInv' OBVIOUS
<1>1. CASE UNCHANGED vars
  <2>1. List' /\ Conservation' /\ Blocks' = Blocks BY <1>1, ListStays, BlocksStay DEF vars
  <2> QED BY <1>1, <2>1 DEF vars, IInv, PoolInv, TypeOK, Exclusion, Calls, Progress
<1>2. ASSUME NEW t \in Threads, ThreadStep(t) PROVE IInv'
  BY <1>2, CallStep, PopStep, LinkStep, PushStep DEF ThreadStep
<1>3. ASSUME NEW m \in Messages, MessageStep(m) PROVE IInv'
  BY <1>3, CallStep, WriteStep, MoveToStep DEF MessageStep
<1> QED BY <1>1, <1>2, <1>3 DEF Next

\* Whatever the threads and messages do, every variable has its type.
THEOREM PoolTypeCorrect == Spec => []TypeOK
<1>1. IInv => TypeOK BY DEF IInv
<1> QED BY <1>1, InvInit, InvStep, PTL DEF Spec

\* The free list is intact and has exactly the blocks that no message holds; a block
\* is never held twice.
THEOREM PoolInvCorrect == Spec => []PoolInv
<1>1. IInv => PoolInv BY DEF IInv
<1> QED BY <1>1, InvInit, InvStep, PTL DEF Spec

\* Every block is on a cache line of its own, large enough and within the pool.
THEOREM LayoutCorrect == Spec => []Layout
<1>1. TypeOK => Layout
  <2> SUFFICES ASSUME TypeOK, NEW i \in 1 .. BlockCount
               PROVE  /\ MessageSize <= BlockSize
                      /\ SizeOfPool <= BlockList[i] /\ BlockList[i] + BlockSize <= PoolSize
                      /\ (base + BlockList[i]) % CacheLineSize = 0
    BY BlockSizeFacts DEF Layout, Blocks
  <2>1. base \in 0 .. CacheLineSize - 1 BY DEF TypeOK
  <2>2. /\ BlockSize \in Nat \ {0} /\ CacheLineSize \in Nat \ {0} /\ base \in Nat
        /\ Start \in Nat /\ SizeOfPool \in Nat /\ SizeOfPool <= Start /\ BlockCount \in Nat
        /\ Start + BlockCount * BlockSize <= PoolSize /\ MessageSize <= BlockSize
    BY <2>1, BlockSizeFacts, StartFacts, CountFacts, SizeAssumption
  <2>3. BlockList[i] = Start + (i - 1) * BlockSize /\ (i - 1) * BlockSize \in Nat
    BY <2>2 DEF BlockList
  <2>4. BlockList[i] + BlockSize <= PoolSize
    <3>1. i * BlockSize <= BlockCount * BlockSize BY <2>2, TimesMonotonic
    <3>2. i * BlockSize = (i - 1) * BlockSize + BlockSize BY <2>2
    <3>3. PoolSize \in Int /\ BlockCount * BlockSize \in Int BY <2>2, SizeAssumption DEF PoolSize
    <3> QED BY <2>2, <2>3, <3>1, <3>2, <3>3
  <2>5. (base + BlockList[i]) % CacheLineSize = 0
    <3>1. PICK d \in Int : base + Start = CacheLineSize * d BY <2>1, StartFacts
    <3>2. PICK q \in Nat : BlockSize = CacheLineSize * q BY BlockSizeFacts
    <3>3. (i - 1) * BlockSize = CacheLineSize * ((i - 1) * q) /\ (i - 1) * q \in Int BY <2>2, <3>2
    <3>4. CacheLineSize * (d + (i - 1) * q) = CacheLineSize * d + CacheLineSize * ((i - 1) * q)
      BY <2>2, <3>2, <3>3
    <3>5. base + BlockList[i] = CacheLineSize * (d + (i - 1) * q)
      BY <2>2, <2>3, <3>1, <3>3, <3>4
    <3>6. base + BlockList[i] \in Nat /\ d + (i - 1) * q \in Int BY <2>2, <2>3, <3>3
    <3> QED BY <2>2, <3>5, <3>6, Remainder
  <2> QED BY <2>2, <2>3, <2>4, <2>5
<1> QED BY <1>1, PoolTypeCorrect, PTL

\* A pool for MessageCount messages has room for that many, wherever the memory is.
THEOREM FailsWhenEmptyCorrect == Spec => FailsWhenEmpty
<1>1. ASSUME IInv, NEW t \in Threads, Next, pc[t] = "read", pc'[t] = "unlock"
      PROVE  Cardinality({m \in Messages : offset[m] # Null}) >= MessageCount
  <2> DEFINE holders == {m \in Messages : offset[m] # Null}
             f == [m \in holders |-> offset[m]]
             g == [i \in 1 .. BlockCount |-> BlockList[i]]
  <2>1. rootOffset = Null
    <3>1. pc \in [Threads -> Places] BY <1>1 DEF IInv, TypeOK
    <3> QED BY <1>1, <3>1 DEF Next, ThreadStep, MessageStep, TryAllocate, Acquire, ReadRoot, Pop, Release,
        Link, Push, Unlock, Write, MoveTo, Goto
  <2>2. base \in 0 .. CacheLineSize - 1 BY <1>1 DEF IInv, TypeOK
  <2>3. Len(free) = 0
    <3>1. free # <<>> => free[1] \in Blocks
      <4>1. free \in Seq(Blocks) BY <1>1 DEF IInv, TypeOK
      <4> QED BY <4>1
    <3>2. Null \notin Blocks BY <1>1, FreeFacts
    <3>3. free = <<>> BY <1>1, <2>1, <3>1, <3>2 DEF IInv, PoolInv, List
    <3> QED BY <3>3
  <2>4. Blocks \subseteq Held BY <1>1, <2>3 DEF IInv, PoolInv, Conservation
  <2>5. f \in Surjection(holders, Blocks)
    <3>1. \A m \in holders : offset[m] \in Blocks BY <1>1, FreeFacts
    <3>2. \A b \in Blocks : \E m \in holders : f[m] = b
      <4>1. Null \notin Blocks BY <1>1, FreeFacts
      <4> QED BY <2>4, <4>1 DEF Held
    <3> QED BY <3>1, <3>2 DEF Surjection
  <2>6. IsFiniteSet(holders) BY MessagesAssumption, FS_Subset
  <2>7. IsFiniteSet(Blocks) /\ Cardinality(Blocks) <= Cardinality(holders)
    BY <2>5, <2>6, FS_Surjection
  <2>8. g \in Bijection(1 .. BlockCount, Blocks)
    <3>1. \A i, j \in 1 .. BlockCount : BlockList[i] = BlockList[j] => i = j BY <2>2, BlockListFacts
    <3>2. g \in [1 .. BlockCount -> Blocks] BY DEF Blocks
    <3>3. \A i, j \in 1 .. BlockCount : g[i] = g[j] => i = j BY <3>1
    <3>4. \A b \in Blocks : \E i \in 1 .. BlockCount : g[i] = b BY DEF Blocks
    <3> HIDE DEF g
    <3> QED BY <3>2, <3>3, <3>4 DEF Bijection, Injection, IsInjective, Surjection
  <2>9. BlockCount \in Nat /\ MessageCount <= BlockCount BY <2>2, CountFacts
  <2>10. IsFiniteSet(1 .. BlockCount) /\ Cardinality(1 .. BlockCount) = BlockCount
    BY <2>9, FS_Interval
  <2>11. Cardinality(Blocks) = BlockCount BY <2>8, <2>10, FS_Bijection DEF ExistsBijection
  <2>12. Cardinality(holders) \in Nat BY <2>6, FS_CardinalityType
  <2> HIDE DEF holders
  <2>13. Cardinality(holders) >= MessageCount BY <2>7, <2>9, <2>11, <2>12, SizeAssumption
  <2> USE DEF holders
  <2> QED BY <2>13
<1>2. IInv /\ [Next]_vars =>
        [\A t \in Threads : pc[t] = "read" /\ pc'[t] = "unlock" =>
           Cardinality({m \in Messages : offset[m] # Null}) >= MessageCount]_vars
  BY <1>1
<1> QED BY <1>2, InvInit, InvStep, PTL DEF Spec, FailsWhenEmpty

\* Every step of the pool is a step of the abstract one or leaves it as it is.
THEOREM PoolCorrect == Spec => ImplementsPool
<1>1. Init => Abstract!Init
  <2> SUFFICES ASSUME Init PROVE Abstract!Init OBVIOUS
  <2>1. Blocks \subseteq Nat BY BlockListFacts DEF Init
  <2> QED BY <2>1 DEF Init, Abstract!Init
<1>2. IInv /\ [Next]_vars => [Abstract!Next]_<<Blocks \ Held, offset>>
  <2> SUFFICES ASSUME IInv, [Next]_vars, ~UNCHANGED <<Blocks \ Held, offset>> PROVE Abstract!Next
    OBVIOUS
  <2>1. base' = base BY DEF Next, ThreadStep, MessageStep, TryAllocate, Acquire, ReadRoot, Pop, Release,
      Link, Push, Unlock, Write, MoveTo, vars
  <2>2. Blocks' = Blocks BY <2>1, BlocksStay
  <2>3. offset' # offset BY <2>2 DEF Held
  <2>4. offset \in [Messages -> Blocks \cup {Null}] BY DEF IInv, TypeOK
  <2>5. \A m, n \in Messages : offset[m] = offset[n] /\ offset[m] # Null => m = n
    BY DEF IInv, PoolInv, Conservation
  <2>6. ASSUME NEW t \in Threads, Pop(t) PROVE Abstract!Next
    <3> DEFINE m == message[t]
               b == block[t]
    <3>1. m \in Messages /\ offset[m] = Null /\ b = rootOffset /\ rootOffset # Null
      BY <2>6 DEF IInv, PoolInv, Calls, Progress, Pop
    <3>2. b \in Blocks \ Held
      <4>1. free # <<>> /\ b = free[1] BY <3>1 DEF IInv, PoolInv, List
      <4>2. 1 \in 1 .. Len(free)
        <5>1. free \in Seq(Blocks) BY DEF IInv, TypeOK
        <5> QED BY <4>1, <5>1
      <4> QED BY <4>1, <4>2, FreeFacts
    <3>3. offset' = [offset EXCEPT ![m] = b] BY <2>6 DEF Pop
    <3>4. Held' = Held \cup {b}
      <4>1. b # Null BY <3>1
      <4>2. \A n \in Messages : offset'[n] = IF n = m THEN b ELSE offset[n] BY <2>4, <3>3
      <4> HIDE DEF m, b
      <4>3. \A n \in Messages : n # m => offset'[n] = offset[n] BY <4>2
      <4> QED BY <3>1, <4>1, <4>2, <4>3 DEF Held
    <3>5. Abstract!Allocate(m)
      <4>1. (Blocks \ Held)' = (Blocks \ Held) \ {b} BY <2>2, <3>4
      <4> QED BY <3>1, <3>2, <3>3, <4>1 DEF Abstract!Allocate
    <3> QED BY <3>1, <3>5 DEF Abstract!Next
  <2>7. ASSUME NEW t \in Threads, Push(t) PROVE Abstract!Next
    <3> DEFINE m == message[t]
               b == offset[m]
    <3>1. m \in Messages /\ b # Null BY <2>7 DEF IInv, PoolInv, Calls, Push
    <3>2. b \in Blocks BY <3>1, FreeFacts
    <3>3. offset' = [offset EXCEPT ![m] = Null] BY <2>7 DEF Push
    <3>4. Held' = Held \ {b}
      <4>1. \A n \in Messages : offset'[n] = IF n = m THEN Null ELSE offset[n] BY <2>4, <3>3
      <4>2. \A n \in Messages : n # m => offset[n] # b BY <2>5, <3>1
      <4>3. offset[m] = b OBVIOUS
      <4> HIDE DEF m, b
      <4> QED BY <4>1, <4>2, <4>3 DEF Held
    <3>5. Abstract!Release(m)
      <4>1. (Blocks \ Held)' = (Blocks \ Held) \cup {b} BY <2>2, <3>2, <3>4
      <4> QED BY <3>1, <3>3, <4>1 DEF Abstract!Release
    <3> QED BY <3>1, <3>5 DEF Abstract!Next
  <2>8. ASSUME NEW m \in Messages, NEW n \in Messages, MoveTo(m, n) PROVE Abstract!Next
    <3>1. offset' = [offset EXCEPT ![m] = offset[n], ![n] = offset[m]] BY <2>8 DEF MoveTo
    <3>2. Conservation' /\ Conservation BY <2>8, MoveToStep DEF IInv, PoolInv
    <3>3. free' = free BY <2>8 DEF MoveTo
    <3>4. (Blocks \ Held)' = Blocks \ Held BY <3>2, <3>3 DEF Conservation
    <3> QED BY <3>1, <3>4 DEF Abstract!Next, Abstract!Move
  <2> QED BY <2>3, <2>6, <2>7, <2>8
      DEF Next, ThreadStep, MessageStep, TryAllocate, Acquire, ReadRoot, Release, Link, Unlock, Write, vars
<1> QED BY <1>1, <1>2, InvInit, InvStep, PTL DEF Spec, ImplementsPool, Abstract!Spec
=============================================================================
