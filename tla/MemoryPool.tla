----------------------------- MODULE MemoryPool -----------------------------
(***************************************************************************)
(* HQMemoryBlockPool (src/src/HighQueue/details), the pool that all        *)
(* messages get their memory from, and the part of Message that holds a    *)
(* block.                                                                  *)
(*                                                                         *)
(* Free blocks are linked by offsets that are stored in the blocks; what   *)
(* the holder of a block writes replaces the link.  Any thread may         *)
(* allocate and release; a message is used by one thread at a time.        *)
(***************************************************************************)
EXTENDS Integers, Sequences, FiniteSets

CONSTANTS
    Threads, Messages,
    CacheLineSize,
    SizeOfPool,         \* sizeof(HQMemoryBlockPool)
    MessageSize,        \* the size asked for
    MessageCount,       \* the number of messages asked for
    Null,               \* NULL_OFFSET; the offset of a message without a block
    Data,               \* what a message writes at the start of its block
    Free                \* lock_ when nobody holds it

ASSUME SizeAssumption ==
    /\ CacheLineSize \in Nat \ {0} /\ SizeOfPool \in Nat
    /\ MessageSize \in Nat \ {0} /\ MessageCount \in Nat \ {0}
ASSUME MessagesAssumption == IsFiniteSet(Messages) /\ Null \notin Messages
ASSUME ValuesAssumption == Null \notin Nat /\ Data \notin Nat /\ Data # Null /\ Free \notin Threads

VARIABLES
    base,           \* the address of the pool modulo CacheLineSize
    rootOffset,     \* rootOffset_
    memory,         \* the first word of each block
    lock,           \* lock_
    offset,         \* the block of each message
    pc, message,    \* per thread: the place in the call, and the message it is for, or Null
    block,          \* per thread: tryAllocate's offset, or Null
    free            \* history: the free blocks in the order of the list

vars == <<base, rootOffset, memory, lock, offset, pc, message, block, free>>
-----------------------------------------------------------------------------
(* The layout: MemoryPool::MemoryPool, spaceNeeded and preAllocate *)

\* cacheAlignedMessageSize
BlockSize == ((MessageSize + CacheLineSize - 1) \div CacheLineSize) * CacheLineSize

\* Mutant: no room for the alignment.
PoolSize_Exact == SizeOfPool + BlockSize * MessageCount
\* spaceNeeded, and a cache line that MemoryPool adds.
PoolSize == SizeOfPool + BlockSize * MessageCount + CacheLineSize + CacheLineSize

\* The first block starts at the first cache line after the pool's header.
Start ==
    LET end == base + SizeOfPool + CacheLineSize - 1
    IN  end - (end % CacheLineSize) - base

\* As many blocks as end within the pool.
BlockCount == (PoolSize - Start) \div BlockSize
BlockList == [i \in 1 .. BlockCount |-> Start + (i - 1) * BlockSize]
Blocks == {BlockList[i] : i \in 1 .. BlockCount}

\* preAllocate's loop links each block to the one behind it, if that fits.
NextBlock(b) == IF b + BlockSize + BlockSize > PoolSize THEN Null ELSE b + BlockSize

Init ==
    /\ base \in 0 .. CacheLineSize - 1
    /\ rootOffset = Start
    /\ memory = [b \in Blocks |-> NextBlock(b)]
    /\ lock = Free
    /\ offset = [m \in Messages |-> Null]
    /\ pc = [t \in Threads |-> "idle"]
    /\ message = [t \in Threads |-> Null]
    /\ block = [t \in Threads |-> Null]
    /\ free = BlockList
-----------------------------------------------------------------------------
Busy(m) == \E t \in Threads : pc[t] # "idle" /\ message[t] = m
Goto(t, place) == pc' = [pc EXCEPT ![t] = place]
Held == {offset[m] : m \in Messages} \ {Null}

\* For a message that has no block, because it is new or it has been released.
TryAllocate(t, m) ==
    /\ pc[t] = "idle" /\ ~Busy(m) /\ offset[m] = Null
    /\ message' = [message EXCEPT ![t] = m]
    /\ Goto(t, "allocate")
    /\ UNCHANGED <<base, rootOffset, memory, lock, offset, block, free>>

\* Mutant: does not look at the lock.
Acquire_Blindly(t) ==
    /\ pc[t] \in {"allocate", "release"}
    /\ lock' = t
    /\ Goto(t, IF pc[t] = "allocate" THEN "read" ELSE "link")
    /\ UNCHANGED <<base, rootOffset, memory, offset, message, block, free>>
\* SpinLock::Guard guard(lock_)
Acquire(t) ==
    /\ pc[t] \in {"allocate", "release"} /\ lock = Free
    /\ lock' = t
    /\ Goto(t, IF pc[t] = "allocate" THEN "read" ELSE "link")
    /\ UNCHANGED <<base, rootOffset, memory, offset, message, block, free>>

ReadRoot(t) ==
    /\ pc[t] = "read"
    /\ block' = [block EXCEPT ![t] = rootOffset]
    /\ Goto(t, IF rootOffset = Null THEN "unlock" ELSE "pop")
    /\ UNCHANGED <<base, rootOffset, memory, lock, offset, message, free>>

\* The root moves to the next block, and Message::set.
Pop(t) ==
    /\ pc[t] = "pop"
    /\ rootOffset' = memory[block[t]]
    /\ offset' = [offset EXCEPT ![message[t]] = block[t]]
    /\ block' = [block EXCEPT ![t] = Null]
    /\ free' = Tail(free)
    /\ Goto(t, "unlock")
    /\ UNCHANGED <<base, memory, lock, message>>

\* Message::release; without a block there is nothing to do.
Release(t, m) ==
    /\ pc[t] = "idle" /\ ~Busy(m) /\ offset[m] # Null
    /\ message' = [message EXCEPT ![t] = m]
    /\ Goto(t, "release")
    /\ UNCHANGED <<base, rootOffset, memory, lock, offset, block, free>>

\* *message.get<size_t>() = rootOffset_
Link(t) ==
    /\ pc[t] = "link"
    /\ memory' = [memory EXCEPT ![offset[message[t]]] = rootOffset]
    /\ Goto(t, "push")
    /\ UNCHANGED <<base, rootOffset, lock, offset, message, block, free>>

\* The block becomes the root, and Message::reset.
Push(t) ==
    /\ pc[t] = "push"
    /\ rootOffset' = offset[message[t]]
    /\ offset' = [offset EXCEPT ![message[t]] = Null]
    /\ free' = <<offset[message[t]]>> \o free
    /\ Goto(t, "unlock")
    /\ UNCHANGED <<base, memory, lock, message, block>>

\* ~Guard
Unlock(t) ==
    /\ pc[t] = "unlock"
    /\ lock' = Free
    /\ message' = [message EXCEPT ![t] = Null]
    /\ Goto(t, "idle")
    /\ UNCHANGED <<base, rootOffset, memory, offset, block, free>>

\* Message::emplace and the like, which throw when there is no block (capacity_ 0).
Write(m) ==
    /\ ~Busy(m) /\ offset[m] # Null
    /\ memory' = [memory EXCEPT ![offset[m]] = Data]
    /\ UNCHANGED <<base, rootOffset, lock, offset, pc, message, block, free>>

\* Mutant: copies the offset instead of swapping the two.
MoveTo_Copies(m, n) ==
    /\ m # n /\ ~Busy(m) /\ ~Busy(n)
    /\ offset' = [offset EXCEPT ![n] = offset[m]]
    /\ UNCHANGED <<base, rootOffset, memory, lock, pc, message, block, free>>
\* Message::moveTo swaps the blocks, so that the source can be used again.
MoveTo(m, n) ==
    /\ m # n /\ ~Busy(m) /\ ~Busy(n)
    /\ offset' = [offset EXCEPT ![m] = offset[n], ![n] = offset[m]]
    /\ UNCHANGED <<base, rootOffset, memory, lock, pc, message, block, free>>
-----------------------------------------------------------------------------
ThreadStep(t) == Acquire(t) \/ ReadRoot(t) \/ Pop(t) \/ Link(t) \/ Push(t) \/ Unlock(t)
MessageStep(m) ==
    \/ \E t \in Threads : TryAllocate(t, m) \/ Release(t, m)
    \/ Write(m)
    \/ \E n \in Messages : MoveTo(m, n)
Next == (\E t \in Threads : ThreadStep(t)) \/ \E m \in Messages : MessageStep(m)

Spec == Init /\ [][Next]_vars
-----------------------------------------------------------------------------
(* Properties *)

Places == {"idle", "allocate", "read", "pop", "release", "link", "push", "unlock"}

TypeOK ==
    /\ base \in 0 .. CacheLineSize - 1
    /\ rootOffset \in Blocks \cup {Null}
    /\ memory \in [Blocks -> Blocks \cup {Null, Data}]
    /\ lock \in Threads \cup {Free}
    /\ offset \in [Messages -> Blocks \cup {Null}]
    /\ pc \in [Threads -> Places]
    /\ message \in [Threads -> Messages \cup {Null}]
    /\ block \in [Threads -> Blocks \cup {Null}]
    /\ free \in Seq(Blocks)

\* The guard keeps the other threads out.
Exclusion ==
    \A t \in Threads : pc[t] \in {"read", "pop", "link", "push", "unlock"} => lock = t

\* A call has its message for itself, with a block or without.
Calls ==
    /\ \A t, u \in Threads :
        t # u /\ pc[t] # "idle" /\ pc[u] # "idle" => message[t] # message[u]
    /\ \A t \in Threads :
        /\ pc[t] # "idle" => message[t] \in Messages
        /\ pc[t] \in {"allocate", "read", "pop"} => offset[message[t]] = Null
        /\ pc[t] \in {"release", "link", "push"} => offset[message[t]] # Null

\* Between its accesses in the critical section a thread finds what it has left there.
Progress ==
    \A t \in Threads :
        /\ pc[t] = "pop" => block[t] = rootOffset /\ rootOffset # Null
        /\ pc[t] = "push" => memory[offset[message[t]]] = rootOffset

\* From the root the links lead through all the free blocks, each of them once,
\* whatever was written into them while they were in use.
List ==
    /\ rootOffset = IF free = <<>> THEN Null ELSE free[1]
    /\ \A i \in 1 .. Len(free) :
        memory[free[i]] = IF i = Len(free) THEN Null ELSE free[i + 1]
    /\ \A i, j \in 1 .. Len(free) : free[i] = free[j] => i = j

\* A block is free, or exactly one message has it: none is used twice, none gets lost.
Conservation ==
    /\ {free[i] : i \in 1 .. Len(free)} = Blocks \ Held
    /\ \A m, n \in Messages : offset[m] = offset[n] /\ offset[m] # Null => m = n

\* The inductive invariant.
PoolInv == Exclusion /\ Calls /\ Progress /\ List /\ Conservation

\* "the minimum number of messages" (HQMemoryBlockPool.hpp): wherever the memory is,
\* tryAllocate() fails only when at least MessageCount messages have a block.
FailsWhenEmpty ==
    [][\A t \in Threads : pc[t] = "read" /\ pc'[t] = "unlock" =>
           Cardinality({m \in Messages : offset[m] # Null}) >= MessageCount]_vars

\* Blocks do not overlap the pool's header or its end, start on a cache line and are
\* large enough.
Layout ==
    /\ MessageSize <= BlockSize
    /\ \A b \in Blocks :
        /\ SizeOfPool <= b /\ b + BlockSize <= PoolSize
        /\ (base + b) % CacheLineSize = 0

\* The pool implements the abstract one: the blocks that are not held are available.
Abstract == INSTANCE BlockPool WITH available <- Blocks \ Held, held <- offset
ImplementsPool == Abstract!Spec
=============================================================================
