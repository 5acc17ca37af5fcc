------------------------------ MODULE Messages ------------------------------
(***************************************************************************)
(* Message (src/src/HighQueue/Message.hpp and .cpp): a message is a window *)
(* on a block of memory.  Blocks are swapped between messages, and left    *)
(* full of what the messages before have written into them.                *)
(*                                                                         *)
(* Sizes are counted in objects of one size.  A message is used by one     *)
(* thread at a time, so every operation is one step; one that would exceed *)
(* the block or what is used throws and changes nothing: it has no step.   *)
(***************************************************************************)
EXTENDS Integers, Sequences

CONSTANTS
    Names,          \* the message objects
    Blocks,         \* the blocks of the memory pool
    Capacity,       \* the size of a block, capacity_ of a message that has one
    Items,          \* the objects that are put into messages
    Types, Unused,  \* what type_, timestamp_ and sequence_ say about a message
    NoBlock         \* container_ of a message without memory

ASSUME CapacityAssumption == Capacity \in Nat
ASSUME NoBlockAssumption == NoBlock \notin Blocks
ASSUME UnusedAssumption == Unused \in Types

VARIABLES
    messages,       \* the block, used_, read_ and type_ of each message
    memory          \* the objects in each block

messageVars == <<messages, memory>>

Fresh == [block |-> NoBlock, used |-> 0, read |-> 0, type |-> Unused]
InitMessages ==
    /\ messages = [m \in Names |-> Fresh]
    /\ memory \in [Blocks -> [1 .. Capacity -> Items]]

Has(m) == messages[m].block # NoBlock
CapacityOf(m) == IF Has(m) THEN Capacity ELSE 0
\* get(): what a message contains.
Contents(m) == [i \in 1 .. messages[m].used |-> memory[messages[m].block][i]]
Update(m, new) == messages' = [messages EXCEPT ![m] = new]
-----------------------------------------------------------------------------
(* Memory management *)

Available == Blocks \ {messages[m].block : m \in DOMAIN messages}
\* The constructor, and allocate() for a message that has been released: set() says
\* nothing about read_.
Allocate(m) ==
    /\ ~Has(m)
    /\ \E b \in Available : Update(m, [messages[m] EXCEPT !.block = b, !.used = 0])
    /\ UNCHANGED memory

\* release(): the pool takes the block and calls reset().
Release(m) ==
    /\ Has(m)
    /\ Update(m, [messages[m] EXCEPT !.block = NoBlock, !.used = 0])
    /\ UNCHANGED memory
-----------------------------------------------------------------------------
(* Writing *)

\* setUsed() throws otherwise.
Fits(m, size) == size <= CapacityOf(m)

SetUsed(m, size) ==
    /\ Fits(m, size)
    /\ Update(m, [messages[m] EXCEPT !.used = size])
    /\ UNCHANGED memory

\* Writes objects at a position of the block, after used_ has been set to their end.
WriteAt(m, position, items) ==
    LET end == position + Len(items) IN
    /\ Fits(m, end)
    /\ Update(m, [messages[m] EXCEPT !.used = end])
    /\ memory' = IF items = <<>> THEN memory
                 ELSE [memory EXCEPT ![messages[m].block] =
                          [i \in DOMAIN @ |-> IF i \in position + 1 .. end THEN items[i - position] ELSE @[i]]]
\* emplace(): at the front, whatever is there.
Emplace(m, item) == WriteAt(m, 0, <<item>>)
\* Mutant: writes where it reads.
Append_AtRead(m, items) == WriteAt(m, messages[m].read, items)
\* emplaceBack(), appendCopy() and appendBinaryCopy(): behind what is used.
AppendTo(m, items) == WriteAt(m, messages[m].used, items)
\* appendBinaryCopy() of another message's contents.
AppendCopyOf(m, source) == AppendTo(m, Contents(source))

SetEmpty(m) ==
    /\ Update(m, [messages[m] EXCEPT !.used = 0, !.read = 0])
    /\ UNCHANGED memory
-----------------------------------------------------------------------------
(* Reading *)

\* setRead(), and addRead(), read() and rewind() by way of it: throws beyond what is used.
SetRead(m, position) ==
    /\ position <= messages[m].used
    /\ Update(m, [messages[m] EXCEPT !.read = position])
    /\ UNCHANGED memory
AddRead(m, count) == SetRead(m, messages[m].read + count)
Rewind(m) == SetRead(m, 0)

SetType(m, type) ==
    /\ Update(m, [messages[m] EXCEPT !.type = type])
    /\ UNCHANGED memory
-----------------------------------------------------------------------------
(* From message to message *)

CopyMetaInfoTo(m, n) ==
    /\ Update(n, [messages[n] EXCEPT !.type = messages[m].type])
    /\ UNCHANGED memory

\* Mutant: leaves the source its block.
Swapped_Copied(m, n) ==
    [messages EXCEPT ![n] = messages[m], ![m] = [messages[m] EXCEPT !.used = 0, !.read = 0]]
\* What moveTo() makes of the two messages: their blocks are swapped.
Swapped(m, n) ==
    [messages EXCEPT
        ![n] = messages[m],
        ![m] = [messages[m] EXCEPT !.block = messages[n].block, !.used = 0, !.read = 0]]
MoveTo(m, n) ==
    /\ m # n
    /\ messages' = Swapped(m, n)
    /\ UNCHANGED memory
-----------------------------------------------------------------------------
Bundles == {<<>>} \cup {<<x>> : x \in Items} \cup {<<x, y>> : x, y \in Items}
Operation(m) ==
    \/ Allocate(m) \/ Release(m)
    \/ \E size \in 0 .. Capacity : SetUsed(m, size) \/ SetRead(m, size) \/ AddRead(m, size)
    \/ \E item \in Items : Emplace(m, item)
    \/ \E items \in Bundles : AppendTo(m, items)
    \/ SetEmpty(m) \/ Rewind(m)
    \/ \E type \in Types : SetType(m, type)
    \/ \E n \in Names \ {m} : AppendCopyOf(m, n) \/ CopyMetaInfoTo(m, n) \/ MoveTo(m, n)
NextMessages == \E m \in Names : Operation(m)

MessagesSpec == InitMessages /\ [][NextMessages]_messageVars
-----------------------------------------------------------------------------
(* Properties *)

MessageType == [block : Blocks \cup {NoBlock}, used : 0 .. Capacity, read : 0 .. Capacity, type : Types]

MessagesTypeOK ==
    /\ messages \in [Names -> MessageType]
    /\ memory \in [Blocks -> [1 .. Capacity -> Items]]

\* Two messages never share a block, and one without a block is empty: whatever was
\* moved, nobody writes into a message that he does not hold.
NoSharing ==
    /\ \A m, n \in Names : m # n /\ messages[m].block = messages[n].block => ~Has(m)
    /\ \A m \in Names : messages[m].used <= CapacityOf(m)

MessagesInv == MessagesTypeOK /\ NoSharing

\* The messages are values (MessageValues): no operation on one of them changes what
\* another one contains, and moveTo() moves all of it.
Values == INSTANCE MessageValues WITH
    contents <- [m \in Names |-> Contents(m)],
    readTo <- [m \in Names |-> messages[m].read],
    meta <- [m \in Names |-> messages[m].type],
    owners <- {m \in Names : Has(m)}
ImplementsValues == Values!ValuesSpec
=============================================================================
