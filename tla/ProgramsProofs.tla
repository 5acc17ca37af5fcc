--------------------------- MODULE ProgramsProofs ---------------------------
(***************************************************************************)
(* Messages never share a block, and they are values: MessagesInv is       *)
(* inductive, and Messages implements MessageValues, for any number of     *)
(* messages and blocks and any capacity.  So it is in every program that   *)
(* uses them; and no program fails, whatever its threads, queues and       *)
(* messages: ProgramsInv is inductive.                                     *)
(***************************************************************************)
EXTENDS ProgramsInvariant, Remainders, FiniteSetTheorems, SequenceTheorems, TLAPS

(* What an operation on one message leaves alone *)

\* Update() replaces one message.
LEMMA UpdateOne ==
    ASSUME MessagesTypeOK, NEW m \in Names, NEW new \in MessageType, Update(m, new)
    PROVE  /\ messages' \in [Names -> MessageType]
           /\ messages'[m] = new
           /\ \A n \in Names \ {m} : messages'[n] = messages[n]
BY DEF MessagesTypeOK, Update

\* The fields of a message.
LEMMA Fields ==
    ASSUME MessagesInv, NEW m \in Names
    PROVE  /\ messages[m] \in MessageType
           /\ messages[m].block \in Blocks \cup {NoBlock} /\ messages[m].type \in Types
           /\ messages[m].used \in 0 .. Capacity /\ messages[m].read \in 0 .. Capacity
           /\ messages[m].used <= CapacityOf(m)
           /\ CapacityOf(m) \in {0, Capacity} /\ CapacityOf(m) \in Nat
           /\ ~Has(m) => messages[m].used = 0
           /\ Has(m) => messages[m].block \in Blocks
BY CapacityAssumption DEF MessagesInv, MessagesTypeOK, NoSharing, MessageType, CapacityOf, Has

\* What a message contains is a sequence of items that fits.
LEMMA ContentsType ==
    ASSUME MessagesInv, NEW m \in Names
    PROVE  /\ Contents(m) \in Seq(Items) /\ Len(Contents(m)) = messages[m].used
           /\ \A i \in 1 .. messages[m].used : Contents(m)[i] = memory[messages[m].block][i]
<1>1. \A i \in 1 .. messages[m].used : memory[messages[m].block][i] \in Items
  <2>1. TAKE i \in 1 .. messages[m].used
  <2>2. Has(m) /\ i \in 1 .. Capacity BY Fields, CapacityAssumption
  <2> QED BY <2>2, Fields DEF MessagesInv, MessagesTypeOK
<1>2. messages[m].used \in Nat BY Fields
<1> QED BY <1>1, <1>2 DEF Contents

\* A message whose block and used_ stay contains what it did while nobody writes into it.
LEMMA ContentsStay ==
    ASSUME NEW m \in Names,
           messages'[m].block = messages[m].block, messages'[m].used = messages[m].used,
           \A i \in 1 .. messages[m].used : memory'[messages[m].block][i] = memory[messages[m].block][i]
    PROVE  Contents(m)' = Contents(m)
BY DEF Contents

\* Nobody but the message itself is touched by a step that keeps its block and the memory.
LEMMA Others ==
    ASSUME MessagesInv, NEW m \in Names, NEW n \in Names \ {m},
           messages'[n] = messages[n],
           \A b \in Blocks : b # messages[m].block => memory'[b] = memory[b]
    PROVE  Contents(n)' = Contents(n)
<1>1. CASE Has(n)
  <2>1. messages[n].block # messages[m].block BY <1>1 DEF MessagesInv, NoSharing
  <2>2. messages[n].block \in Blocks BY <1>1, Fields
  <2> QED BY <2>1, <2>2, ContentsStay
<1>2. CASE ~Has(n)
  <2>1. messages[n].used = 0 BY <1>2, Fields
  <2> QED BY <2>1, ContentsStay
<1> QED BY <1>1, <1>2

\* A message that changes its offsets and meta information only.
LEMMA KeepsBlock ==
    ASSUME MessagesInv, NEW m \in Names, NEW new \in MessageType, Update(m, new),
           new.block = messages[m].block, new.used <= CapacityOf(m),
           memory' \in [Blocks -> [1 .. Capacity -> Items]]
    PROVE  MessagesInv'
<1>1. /\ messages' \in [Names -> MessageType]
      /\ messages'[m] = new /\ \A n \in Names \ {m} : messages'[n] = messages[n]
  BY UpdateOne DEF MessagesInv
<1>2. \A n \in Names : messages'[n].block = messages[n].block BY <1>1
<1>3. \A n \in Names : CapacityOf(n)' = CapacityOf(n) /\ Has(n)' = Has(n) BY <1>2 DEF CapacityOf, Has
<1>4. \A n \in Names : messages'[n].used <= CapacityOf(n)'
  BY <1>1, <1>3 DEF MessagesInv, NoSharing
<1> QED BY <1>1, <1>2, <1>3, <1>4 DEF MessagesInv, MessagesTypeOK, NoSharing

\* What is written behind the first objects of a message leaves those and all other
\* messages as they are.
LEMMA Written ==
    ASSUME MessagesInv, NEW m \in Names, NEW items \in Seq(Items),
           NEW position \in 0 .. Capacity, WriteAt(m, position, items)
    PROVE  /\ MessagesInv'
           /\ \A n \in Names \ {m} : Contents(n)' = Contents(n)
           /\ \A n \in Names \ {m} : messages'[n] = messages[n]
           /\ messages'[m] = [messages[m] EXCEPT !.used = position + Len(items)]
           /\ position + Len(items) <= CapacityOf(m)
           /\ \A i \in 1 .. position : i \in 1 .. Capacity /\
                  memory'[messages[m].block][i] = memory[messages[m].block][i]
           /\ \A i \in position + 1 .. position + Len(items) :
                  memory'[messages[m].block][i] = items[i - position]
<1> DEFINE end == position + Len(items)
           new == [messages[m] EXCEPT !.used = end]
           block == messages[m].block
<1>1. end \in Nat /\ Len(items) \in Nat /\ end <= CapacityOf(m) /\ Update(m, new)
  BY LenProperties, CapacityAssumption DEF WriteAt, Fits
<1>2. end \in 0 .. Capacity BY <1>1, Fields, CapacityAssumption
<1>3. new \in MessageType /\ new.block = block /\ new.used = end /\ end <= CapacityOf(m)
  BY <1>1, <1>2, Fields DEF MessageType
<1>4. /\ messages' \in [Names -> MessageType]
      /\ messages'[m] = new /\ \A n \in Names \ {m} : messages'[n] = messages[n]
  BY <1>1, <1>3, UpdateOne DEF MessagesInv
<1>5. CASE items = <<>>
  <2>1. memory' = memory /\ Len(items) = 0 BY <1>5 DEF WriteAt
  <2>2. memory' \in [Blocks -> [1 .. Capacity -> Items]] BY <2>1 DEF MessagesInv, MessagesTypeOK
  <2> HIDE DEF new
  <2>7. MessagesInv' BY <1>1, <1>3, <2>2, KeepsBlock
  <2>3. \A n \in Names \ {m} : Contents(n)' = Contents(n) BY <1>4, <2>1, Others
  <2>4. \A i \in 1 .. position : i \in 1 .. Capacity BY CapacityAssumption
  <2>5. end = position BY <2>1
  <2>6. \A i \in position + 1 .. end : FALSE BY <2>5
  <2> QED BY <1>1, <1>4, <2>1, <2>3, <2>4, <2>6, <2>7 DEF new
<1>6. CASE items # <<>>
  <2>1. Len(items) > 0 BY <1>6, <1>1, EmptySeq
  <2>2. Has(m) /\ block \in Blocks BY <2>1, <1>1, Fields DEF CapacityOf
  <2> DEFINE text == [i \in 1 .. Capacity |-> IF i \in position + 1 .. end THEN items[i - position]
                                              ELSE memory[block][i]]
  <2>3. memory[block] \in [1 .. Capacity -> Items] BY <2>2 DEF MessagesInv, MessagesTypeOK
  <2>4. memory' = [memory EXCEPT ![block] = text] BY <1>6, <2>2, <2>3 DEF WriteAt, MessagesInv, MessagesTypeOK
  <2>5. text \in [1 .. Capacity -> Items]
    <3>1. \A i \in position + 1 .. end : items[i - position] \in Items
      BY <1>1, ElementOfSeq
    <3> QED BY <2>3, <3>1
  <2> HIDE DEF text
  <2>6. /\ memory' \in [Blocks -> [1 .. Capacity -> Items]] /\ memory'[block] = text
        /\ \A b \in Blocks : b # block => memory'[b] = memory[b]
    BY <2>2, <2>4, <2>5 DEF MessagesInv, MessagesTypeOK
  <2>7. MessagesInv'
    <3> HIDE DEF new
    <3> QED BY <1>1, <1>3, <2>6, KeepsBlock
  <2>8. \A n \in Names \ {m} : Contents(n)' = Contents(n) BY <1>4, <2>6, Others
  <2>9. \A i \in 1 .. position : i \in 1 .. Capacity /\ text[i] = memory[block][i]
    BY <1>2, CapacityAssumption DEF text
  <2>10. \A i \in position + 1 .. end : text[i] = items[i - position]
    BY <1>2, CapacityAssumption DEF text
  <2> QED BY <1>1, <1>4, <2>6, <2>7, <2>8, <2>9, <2>10
<1> QED BY <1>5, <1>6
-----------------------------------------------------------------------------
(* Every operation keeps MessagesInv and is an operation on values *)

\* An empty message contains the empty sequence.
LEMMA EmptyNow == ASSUME NEW m \in Names, messages[m].used = 0 PROVE Contents(m) = <<>>
<1>1. Contents(m) \in Seq({}) /\ Len(Contents(m)) = 0 BY DEF Contents
<1> QED BY <1>1, EmptySeq
LEMMA EmptyNext == ASSUME NEW m \in Names, messages'[m].used = 0 PROVE Contents(m)' = <<>>
<1>1. Contents(m)' \in Seq({}) /\ Len(Contents(m)') = 0 BY DEF Contents
<1> QED BY <1>1, EmptySeq

\* A message that has got another block, or none, and no objects.
Renew(old, b) == [old EXCEPT !.block = b, !.used = 0]
LEMMA Renewed ==
    ASSUME NEW old \in MessageType, NEW b \in Blocks \cup {NoBlock}
    PROVE  LET new == Renew(old, b) IN
           new \in MessageType /\ new.block = b /\ new.used = 0 /\ new.read = old.read /\ new.type = old.type
<1> DEFINE new == Renew(old, b)
<1>1. new.block = b /\ new.used = 0 /\ new.read = old.read /\ new.type = old.type BY DEF MessageType, Renew
<1>2. [old EXCEPT !.block = b] \in MessageType BY DEF MessageType
<1>3. [[old EXCEPT !.block = b] EXCEPT !.used = 0] \in MessageType
  <2>1. \A e \in MessageType : [e EXCEPT !.used = 0] \in MessageType
    BY CapacityAssumption DEF MessageType
  <2> QED BY <1>2, <2>1
<1>4. Renew(old, b) = [[old EXCEPT !.block = b] EXCEPT !.used = 0] BY DEF Renew
<1> QED BY <1>1, <1>3, <1>4

\* allocate() gives a message memory that nobody else has.
LEMMA AllocateStep ==
    ASSUME MessagesInv, NEW m \in Names, Allocate(m)
    PROVE  MessagesInv' /\ Values!Obtain(m)
<1>1. PICK b \in Available : Update(m, [messages[m] EXCEPT !.block = b, !.used = 0])
  BY DEF Allocate
<1> DEFINE new == Renew(messages[m], b)
<1>2. messages[m].used = 0 /\ ~Has(m) /\ memory' = memory BY Fields DEF Allocate
<1>3. b \in Blocks /\ b # NoBlock /\ \A n \in Names : messages[n].block # b
  BY NoBlockAssumption DEF Available, MessagesInv, MessagesTypeOK
<1>4. /\ new \in MessageType /\ new.block = b /\ new.used = 0
      /\ new.read = messages[m].read /\ new.type = messages[m].type
  <2>1. messages[m] \in MessageType /\ b \in Blocks \cup {NoBlock} BY <1>3, Fields
  <2> QED BY <2>1, Renewed
<1> HIDE DEF new
<1>5. /\ messages' \in [Names -> MessageType]
      /\ messages'[m] = new /\ \A n \in Names \ {m} : messages'[n] = messages[n]
  BY <1>1, <1>4, UpdateOne DEF MessagesInv, new, Renew
<1>6. \A n \in Names : Contents(n)' = Contents(n)
  <2>1. Contents(m)' = Contents(m) BY <1>2, <1>4, <1>5, EmptyNow, EmptyNext
  <2> QED BY <1>2, <1>5, <2>1, ContentsStay
<1>7. MessagesInv'
  <2>1. MessagesTypeOK' BY <1>2, <1>5 DEF MessagesInv, MessagesTypeOK
  <2>2. \A x, y \in Names : x # y /\ messages'[x].block = messages'[y].block => ~Has(x)'
    BY <1>3, <1>4, <1>5 DEF MessagesInv, NoSharing, Has
  <2>3. \A x \in Names : messages'[x].used <= CapacityOf(x)'
    BY <1>4, <1>5, CapacityAssumption DEF MessagesInv, NoSharing, Has, CapacityOf
  <2> QED BY <2>1, <2>2, <2>3 DEF MessagesInv, NoSharing
<1>8. {n \in Names : Has(n)}' = {n \in Names : Has(n)} \cup {m} BY <1>3, <1>4, <1>5 DEF Has
<1>9. \A n \in Names : messages'[n].read = messages[n].read /\ messages'[n].type = messages[n].type
  BY <1>4, <1>5
<1> QED BY <1>2, <1>6, <1>7, <1>8, <1>9 DEF Values!Obtain

\* release() gives it back, with everything in it.
LEMMA ReleaseStep ==
    ASSUME MessagesInv, NEW m \in Names, Release(m)
    PROVE  MessagesInv' /\ Values!Discard(m)
<1> DEFINE new == Renew(messages[m], NoBlock)
<1>1. Update(m, new) /\ Has(m) /\ memory' = memory BY DEF Release, Renew
<1>2. /\ new \in MessageType /\ new.block = NoBlock /\ new.used = 0
      /\ new.read = messages[m].read /\ new.type = messages[m].type
  <2>1. messages[m] \in MessageType BY Fields
  <2> QED BY <2>1, Renewed
<1> HIDE DEF new
<1>3. /\ messages' \in [Names -> MessageType]
      /\ messages'[m] = new /\ \A n \in Names \ {m} : messages'[n] = messages[n]
  BY <1>1, <1>2, UpdateOne DEF MessagesInv
<1>4. Contents(m)' = <<>> /\ \A n \in Names \ {m} : Contents(n)' = Contents(n)
  BY <1>1, <1>2, <1>3, EmptyNext, ContentsStay
<1>5. MessagesInv'
  <2>1. MessagesTypeOK' BY <1>1, <1>3 DEF MessagesInv, MessagesTypeOK
  <2>2. \A x, y \in Names : x # y /\ messages'[x].block = messages'[y].block => ~Has(x)'
    BY <1>2, <1>3 DEF MessagesInv, NoSharing, Has
  <2>3. \A x \in Names : messages'[x].used <= CapacityOf(x)'
    BY <1>2, <1>3, CapacityAssumption DEF MessagesInv, NoSharing, Has, CapacityOf
  <2> QED BY <2>1, <2>2, <2>3 DEF MessagesInv, NoSharing
<1>6. {n \in Names : Has(n)}' = {n \in Names : Has(n)} \ {m} BY <1>2, <1>3 DEF Has
<1>7. \A n \in Names : messages'[n].read = messages[n].read /\ messages'[n].type = messages[n].type
  BY <1>2, <1>3
<1>8. m \in {n \in Names : Has(n)} BY <1>1
<1> QED BY <1>4, <1>5, <1>6, <1>7, <1>8 DEF Values!Discard

\* The fields that no operation but a few change, and who has memory.
SameMarks == \A n \in Names : messages'[n].read = messages[n].read
SameLabels == \A n \in Names : messages'[n].type = messages[n].type
SameBlocks == \A n \in Names : messages'[n].block = messages[n].block
LEMMA Unchanged ==
    /\ SameMarks => [n \in Names |-> messages[n].read]' = [n \in Names |-> messages[n].read]
    /\ SameLabels => [n \in Names |-> messages[n].type]' = [n \in Names |-> messages[n].type]
    /\ SameBlocks => {n \in Names : Has(n)}' = {n \in Names : Has(n)}
    /\ (\A n \in Names : Contents(n)' = Contents(n)) =>
            [n \in Names |-> Contents(n)]' = [n \in Names |-> Contents(n)]
BY DEF SameMarks, SameLabels, SameBlocks, Has

\* setUsed() shows more or less of the block.
LEMMA SetUsedStep ==
    ASSUME MessagesInv, NEW m \in Names, NEW size \in 0 .. Capacity, SetUsed(m, size)
    PROVE  MessagesInv' /\ Values!Resize(m)
<1> DEFINE new == [messages[m] EXCEPT !.used = size]
<1>1. Update(m, new) /\ memory' = memory /\ size <= CapacityOf(m) BY DEF SetUsed, Fits
<1>2. /\ new \in MessageType /\ new.block = messages[m].block /\ new.used = size
      /\ new.read = messages[m].read /\ new.type = messages[m].type
  BY Fields DEF MessageType
<1> HIDE DEF new
<1>3. /\ messages' \in [Names -> MessageType]
      /\ messages'[m] = new /\ \A n \in Names \ {m} : messages'[n] = messages[n]
  BY <1>1, <1>2, UpdateOne DEF MessagesInv
<1>4. memory' \in [Blocks -> [1 .. Capacity -> Items]] BY <1>1 DEF MessagesInv, MessagesTypeOK
<1>5. MessagesInv' BY <1>1, <1>2, <1>4, KeepsBlock
<1>6. \A n \in Names \ {m} : Contents(n)' = Contents(n) BY <1>1, <1>3, Others
<1>7. SameMarks /\ SameLabels /\ SameBlocks BY <1>2, <1>3 DEF SameMarks, SameLabels, SameBlocks
<1>8. /\ Contents(m)' \in Seq(Items) /\ Len(Contents(m)') = size
      /\ \A i \in 1 .. size : Contents(m)'[i] = memory[messages[m].block][i]
  <2>1. Has(m) \/ size = 0 BY <1>1, Fields DEF CapacityOf
  <2>2. messages[m].block \in Blocks \/ size = 0 BY <2>1, Fields
  <2>3. \A i \in 1 .. size : memory[messages[m].block][i] \in Items
    BY <2>2, CapacityAssumption DEF MessagesInv, MessagesTypeOK
  <2>4. Contents(m)' = [i \in 1 .. size |-> memory[messages[m].block][i]]
    BY <1>1, <1>2, <1>3 DEF Contents
  <2> QED BY <2>3, <2>4
<1>9. Values!Agree(Contents(m), Contents(m)')
  BY <1>8, ContentsType, Fields DEF Values!Agree
<1> QED BY <1>1, <1>5, <1>6, <1>7, <1>8, <1>9, Unchanged DEF Values!Resize, Values!Room, CapacityOf

\* Whatever is written, only used_ of the message changes.
LEMMA WrittenFields ==
    ASSUME MessagesInv, NEW m \in Names, NEW size,
           messages'[m] = [messages[m] EXCEPT !.used = size],
           \A n \in Names \ {m} : messages'[n] = messages[n]
    PROVE  messages'[m].used = size /\ SameMarks /\ SameLabels /\ SameBlocks
<1>1. messages[m] \in MessageType BY Fields
<1>2. /\ messages'[m].used = size /\ messages'[m].block = messages[m].block
      /\ messages'[m].read = messages[m].read /\ messages'[m].type = messages[m].type
  BY <1>1 DEF MessageType
<1> QED BY <1>2 DEF SameMarks, SameLabels, SameBlocks

\* emplaceBack() and the copying operations leave what is there, and add to it.
LEMMA AppendStep ==
    ASSUME MessagesInv, NEW m \in Names, NEW items \in Seq(Items), AppendTo(m, items)
    PROVE  MessagesInv' /\ Values!Resize(m)
<1> DEFINE position == messages[m].used
           end == position + Len(items)
<1>1. position \in 0 .. Capacity /\ WriteAt(m, position, items) BY Fields DEF AppendTo
<1>2. /\ MessagesInv' /\ \A n \in Names \ {m} : Contents(n)' = Contents(n)
      /\ \A n \in Names \ {m} : messages'[n] = messages[n]
      /\ messages'[m] = [messages[m] EXCEPT !.used = end] /\ end <= CapacityOf(m)
      /\ \A i \in 1 .. position : memory'[messages[m].block][i] = memory[messages[m].block][i]
  BY <1>1, Written
<1>3. messages'[m].used = end /\ SameMarks /\ SameLabels /\ SameBlocks BY <1>2, WrittenFields
<1>4. Contents(m)' = [i \in 1 .. end |-> memory'[messages[m].block][i]]
  BY <1>3 DEF Contents, SameBlocks
<1>5. end \in Nat /\ position <= end BY <1>1, LenProperties
<1>6. Contents(m)' \in Seq(Items) /\ Len(Contents(m)') = end
  <2>1. Has(m) \/ end = 0 BY <1>2, <1>5, Fields DEF CapacityOf
  <2>2. end <= Capacity BY <1>2, Fields, <1>5, CapacityAssumption
  <2>3. \A i \in 1 .. end : memory'[messages[m].block][i] \in Items
    BY <1>2, <1>5, <2>1, <2>2, Fields, CapacityAssumption DEF MessagesInv, MessagesTypeOK
  <2> QED BY <1>4, <1>5, <2>3, SMTT(30)
<1>7. \A i \in 1 .. position : Contents(m)'[i] = Contents(m)[i]
  <2> SUFFICES ASSUME NEW i \in 1 .. position PROVE Contents(m)'[i] = Contents(m)[i] OBVIOUS
  <2>1. i \in 1 .. end BY <1>1, <1>5
  <2>2. Contents(m)'[i] = memory'[messages[m].block][i] BY <1>4, <2>1
  <2> QED BY <1>2, <2>2, ContentsType
<1>8. Values!Agree(Contents(m), Contents(m)')
  <2>1. DOMAIN Contents(m) = 1 .. position BY <1>1, ContentsType, LenProperties
  <2>2. DOMAIN Contents(m)' = 1 .. end BY <1>6, LenProperties
  <2> QED BY <1>7, <2>1, <2>2 DEF Values!Agree
<1> QED BY <1>2, <1>3, <1>6, <1>8, Unchanged DEF Values!Resize, Values!Room, CapacityOf

\* emplace() puts one object in the place of all.
LEMMA EmplaceStep ==
    ASSUME MessagesInv, NEW m \in Names, NEW item \in Items, Emplace(m, item)
    PROVE  MessagesInv' /\ Values!Replace(m)
<1>1. 0 \in 0 .. Capacity /\ <<item>> \in Seq(Items) /\ Len(<<item>>) = 1 BY CapacityAssumption
<1>2. WriteAt(m, 0, <<item>>) BY DEF Emplace
<1>3. /\ MessagesInv' /\ \A n \in Names \ {m} : Contents(n)' = Contents(n)
      /\ \A n \in Names \ {m} : messages'[n] = messages[n]
      /\ messages'[m] = [messages[m] EXCEPT !.used = 1] /\ 1 <= CapacityOf(m)
      /\ memory'[messages[m].block][1] = item
  <2>1. PICK items \in Seq(Items), position \in 0 .. Capacity :
            WriteAt(m, position, items) /\ position = 0 /\ Len(items) = 1 /\ items[1] = item
    BY <1>1, <1>2
  <2>2. /\ MessagesInv' /\ \A n \in Names \ {m} : Contents(n)' = Contents(n)
        /\ \A n \in Names \ {m} : messages'[n] = messages[n]
        /\ messages'[m] = [messages[m] EXCEPT !.used = position + Len(items)]
        /\ position + Len(items) <= CapacityOf(m)
        /\ \A i \in position + 1 .. position + Len(items) : memory'[messages[m].block][i] = items[i - position]
    <3>1. WriteAt(m, position, items) BY <2>1
    <3> QED BY <3>1, Written
  <2>3. position + Len(items) = 1 BY <2>1
  <2>4. 1 <= CapacityOf(m) /\ messages'[m] = [messages[m] EXCEPT !.used = 1] BY <2>2, <2>3
  <2>5. 1 \in position + 1 .. position + Len(items) /\ 1 - position = 1 BY <2>1
  <2> QED BY <2>1, <2>2, <2>4, <2>5
<1>4. messages'[m].used = 1 /\ SameMarks /\ SameLabels /\ SameBlocks BY <1>3, WrittenFields
<1>5. Contents(m)' = <<item>>
  <2>1. Contents(m)' = [i \in 1 .. 1 |-> memory'[messages[m].block][i]] BY <1>4 DEF Contents, SameBlocks
  <2>2. memory'[messages[m].block][1] = item BY <1>3
  <2> QED BY <2>1, <2>2
<1>6. Has(m) /\ Capacity > 0 BY <1>3, Fields, CapacityAssumption DEF CapacityOf
<1>7. [n \in Names |-> Contents(n)]' = [[n \in Names |-> Contents(n)] EXCEPT ![m] = <<item>>]
  BY <1>3, <1>5
<1> QED BY <1>3, <1>4, <1>6, <1>7, Unchanged DEF Values!Replace, Values!Room

\* setEmpty()
LEMMA SetEmptyStep ==
    ASSUME MessagesInv, NEW m \in Names, SetEmpty(m)
    PROVE  MessagesInv' /\ Values!Clear(m)
<1> DEFINE new == [messages[m] EXCEPT !.used = 0, !.read = 0]
<1>1. Update(m, new) /\ memory' = memory BY DEF SetEmpty
<1>2. /\ new \in MessageType /\ new.block = messages[m].block /\ new.used = 0
      /\ new.read = 0 /\ new.type = messages[m].type
  <2>1. \A e \in MessageType : [e EXCEPT !.used = 0] \in MessageType BY CapacityAssumption DEF MessageType
  <2>2. \A e \in MessageType : [e EXCEPT !.read = 0] \in MessageType BY CapacityAssumption DEF MessageType
  <2>3. new = [[messages[m] EXCEPT !.used = 0] EXCEPT !.read = 0] OBVIOUS
  <2>4. new \in MessageType BY <2>1, <2>2, <2>3, Fields
  <2>5. messages[m] \in MessageType BY Fields
  <2>6. new.block = messages[m].block /\ new.used = 0 /\ new.read = 0 /\ new.type = messages[m].type
    BY <2>5 DEF MessageType
  <2> QED BY <2>4, <2>6
<1> HIDE DEF new
<1>3. /\ messages' \in [Names -> MessageType]
      /\ messages'[m] = new /\ \A n \in Names \ {m} : messages'[n] = messages[n]
  BY <1>1, <1>2, UpdateOne DEF MessagesInv
<1>4. memory' \in [Blocks -> [1 .. Capacity -> Items]] /\ 0 <= CapacityOf(m)
  BY <1>1, Fields DEF MessagesInv, MessagesTypeOK
<1>5. MessagesInv' BY <1>1, <1>2, <1>4, KeepsBlock
<1>6. Contents(m)' = <<>> /\ \A n \in Names \ {m} : Contents(n)' = Contents(n)
  BY <1>1, <1>2, <1>3, EmptyNext, Others
<1>7. SameLabels /\ SameBlocks BY <1>2, <1>3 DEF SameLabels, SameBlocks
<1>8. /\ [n \in Names |-> Contents(n)]' = [[n \in Names |-> Contents(n)] EXCEPT ![m] = <<>>]
      /\ [n \in Names |-> messages[n].read]' = [[n \in Names |-> messages[n].read] EXCEPT ![m] = 0]
  BY <1>2, <1>3, <1>6
<1> QED BY <1>5, <1>7, <1>8, Unchanged DEF Values!Clear

\* setRead() and the operations that use it.
LEMMA SetReadStep ==
    ASSUME MessagesInv, NEW m \in Names, NEW position \in Nat, SetRead(m, position)
    PROVE  MessagesInv' /\ Values!Reading(m)
<1> DEFINE new == [messages[m] EXCEPT !.read = position]
<1>1. Update(m, new) /\ memory' = memory /\ position <= messages[m].used BY DEF SetRead
<1>2. position \in 0 .. messages[m].used /\ position \in 0 .. Capacity
  BY <1>1, Fields, CapacityAssumption
<1>3. /\ new \in MessageType /\ new.block = messages[m].block /\ new.used = messages[m].used
      /\ new.read = position /\ new.type = messages[m].type
  BY <1>2, Fields DEF MessageType
<1> HIDE DEF new
<1>4. /\ messages' \in [Names -> MessageType]
      /\ messages'[m] = new /\ \A n \in Names \ {m} : messages'[n] = messages[n]
  BY <1>1, <1>3, UpdateOne DEF MessagesInv
<1>5. memory' \in [Blocks -> [1 .. Capacity -> Items]] /\ new.used <= CapacityOf(m)
  BY <1>1, <1>3, Fields DEF MessagesInv, MessagesTypeOK
<1>6. MessagesInv' BY <1>1, <1>3, <1>5, KeepsBlock
<1>7. \A n \in Names : Contents(n)' = Contents(n) BY <1>1, <1>3, <1>4, ContentsStay
<1>8. SameLabels /\ SameBlocks BY <1>3, <1>4 DEF SameLabels, SameBlocks
<1>9. [n \in Names |-> messages[n].read]' = [[n \in Names |-> messages[n].read] EXCEPT ![m] = position]
  BY <1>3, <1>4
<1>10. position \in 0 .. Len([n \in Names |-> Contents(n)][m]) BY <1>2, ContentsType
<1> QED BY <1>6, <1>7, <1>8, <1>9, <1>10, Unchanged DEF Values!Reading

\* setType() and copyMetaInfoTo()
LEMMA LabelStep ==
    ASSUME MessagesInv, NEW m \in Names, NEW type \in Types,
           Update(m, [messages[m] EXCEPT !.type = type]), UNCHANGED memory
    PROVE  MessagesInv' /\ Values!Label(m)
<1> DEFINE new == [messages[m] EXCEPT !.type = type]
<1>1. Update(m, new) /\ memory' = memory OBVIOUS
<1>2. /\ new \in MessageType /\ new.block = messages[m].block /\ new.used = messages[m].used
      /\ new.read = messages[m].read /\ new.type = type
  BY Fields DEF MessageType
<1> HIDE DEF new
<1>3. /\ messages' \in [Names -> MessageType]
      /\ messages'[m] = new /\ \A n \in Names \ {m} : messages'[n] = messages[n]
  BY <1>1, <1>2, UpdateOne DEF MessagesInv
<1>4. memory' \in [Blocks -> [1 .. Capacity -> Items]] /\ new.used <= CapacityOf(m)
  BY <1>1, <1>2, Fields DEF MessagesInv, MessagesTypeOK
<1>5. MessagesInv' BY <1>1, <1>2, <1>4, KeepsBlock
<1>6. \A n \in Names : Contents(n)' = Contents(n) BY <1>1, <1>2, <1>3, ContentsStay
<1>7. SameMarks /\ SameBlocks BY <1>2, <1>3 DEF SameMarks, SameBlocks
<1>8. [n \in Names |-> messages[n].type]' = [[n \in Names |-> messages[n].type] EXCEPT ![m] = type]
  BY <1>2, <1>3
<1> QED BY <1>5, <1>6, <1>7, <1>8, Unchanged DEF Values!Label

\* moveTo(): the target's block is the source's now, and the other way round.
LEMMA MoveStep ==
    ASSUME MessagesInv, NEW m \in Names, NEW n \in Names, MoveTo(m, n)
    PROVE  MessagesInv' /\ Values!Move(m, n)
<1> DEFINE source == [messages[m] EXCEPT !.block = messages[n].block, !.used = 0, !.read = 0]
<1>1. /\ m # n /\ memory' = memory
      /\ messages' = [messages EXCEPT ![n] = messages[m], ![m] = source]
  BY DEF MoveTo, Swapped
<1>2. /\ source \in MessageType /\ source.block = messages[n].block /\ source.used = 0
      /\ source.read = 0 /\ source.type = messages[m].type
  <2>1. messages[m] \in MessageType /\ messages[n].block \in Blocks \cup {NoBlock} BY Fields
  <2>2. \A e \in MessageType : [e EXCEPT !.block = messages[n].block] \in MessageType BY <2>1 DEF MessageType
  <2>3. \A e \in MessageType : [e EXCEPT !.used = 0] \in MessageType BY CapacityAssumption DEF MessageType
  <2>4. \A e \in MessageType : [e EXCEPT !.read = 0] \in MessageType BY CapacityAssumption DEF MessageType
  <2>5. source = [[[messages[m] EXCEPT !.block = messages[n].block] EXCEPT !.used = 0] EXCEPT !.read = 0]
    OBVIOUS
  <2>6. source \in MessageType BY <2>1, <2>2, <2>3, <2>4, <2>5
  <2>7. /\ source.block = messages[n].block /\ source.used = 0
        /\ source.read = 0 /\ source.type = messages[m].type
    BY <2>1 DEF MessageType
  <2> QED BY <2>6, <2>7
<1> HIDE DEF source
<1>3. /\ messages' \in [Names -> MessageType]
      /\ messages'[m] = source /\ messages'[n] = messages[m]
      /\ \A x \in Names \ {m, n} : messages'[x] = messages[x]
  BY <1>1, <1>2 DEF MessagesInv, MessagesTypeOK
<1>4. MessagesInv'
  <2>1. MessagesTypeOK' BY <1>1, <1>3 DEF MessagesInv, MessagesTypeOK
  <2>2. \A x, y \in Names : x # y /\ messages'[x].block = messages'[y].block => ~Has(x)'
    BY <1>1, <1>2, <1>3 DEF MessagesInv, NoSharing, Has
  <2>3. \A x \in Names : messages'[x].used <= CapacityOf(x)'
    <3>1. messages'[m].used <= CapacityOf(m)' BY <1>2, <1>3, CapacityAssumption DEF CapacityOf
    <3>2. messages'[n].used <= CapacityOf(n)' BY <1>3, Fields DEF CapacityOf, Has
    <3>3. \A x \in Names \ {m, n} : messages'[x].used <= CapacityOf(x)' BY <1>3, Fields DEF CapacityOf, Has
    <3> QED BY <3>1, <3>2, <3>3
  <2> QED BY <2>1, <2>2, <2>3 DEF MessagesInv, NoSharing
<1>5. /\ Contents(m)' = <<>> /\ Contents(n)' = Contents(m)
      /\ \A x \in Names \ {m, n} : Contents(x)' = Contents(x)
  <2>1. Contents(m)' = <<>> BY <1>2, <1>3, EmptyNext
  <2>2. Contents(n)' = Contents(m) BY <1>1, <1>3 DEF Contents
  <2>3. \A x \in Names \ {m, n} : Contents(x)' = Contents(x) BY <1>1, <1>3 DEF Contents
  <2> QED BY <2>1, <2>2, <2>3
<1>6. [x \in Names |-> Contents(x)]' =
          [[x \in Names |-> Contents(x)] EXCEPT ![n] = [x \in Names |-> Contents(x)][m], ![m] = <<>>]
  BY <1>1, <1>5
<1>7. [x \in Names |-> messages[x].read]' =
          [[x \in Names |-> messages[x].read] EXCEPT ![n] = [x \in Names |-> messages[x].read][m], ![m] = 0]
  BY <1>1, <1>2, <1>3
<1>8. [x \in Names |-> messages[x].type]' =
          [[x \in Names |-> messages[x].type] EXCEPT ![n] = [x \in Names |-> messages[x].type][m]]
  BY <1>1, <1>2, <1>3
<1>9. {x \in Names : Has(x)}' =
          {x \in Names : IF x = m THEN n \in {y \in Names : Has(y)}
                         ELSE IF x = n THEN m \in {y \in Names : Has(y)} ELSE x \in {y \in Names : Has(y)}}
  BY <1>1, <1>2, <1>3 DEF Has
<1> QED BY <1>1, <1>4, <1>6, <1>7, <1>8, <1>9 DEF Values!Move
-----------------------------------------------------------------------------
(* The theorems *)

\* Every operation.
LEMMA OperationStep ==
    ASSUME MessagesInv, NEW m \in Names, Operation(m)
    PROVE  MessagesInv' /\ Values!ValuesNext
<1>1. CASE Allocate(m) BY <1>1, AllocateStep DEF Values!ValuesNext
<1>2. CASE Release(m) BY <1>2, ReleaseStep DEF Values!ValuesNext
<1>3. CASE \E size \in 0 .. Capacity : SetUsed(m, size) \/ SetRead(m, size) \/ AddRead(m, size)
  <2>1. PICK size \in 0 .. Capacity : SetUsed(m, size) \/ SetRead(m, size) \/ AddRead(m, size) BY <1>3
  <2>2. size \in Nat /\ messages[m].read + size \in Nat BY Fields, CapacityAssumption
  <2>3. CASE SetUsed(m, size) BY <2>3, SetUsedStep DEF Values!ValuesNext
  <2>4. CASE SetRead(m, size) BY <2>2, <2>4, SetReadStep DEF Values!ValuesNext
  <2>5. CASE AddRead(m, size) BY <2>2, <2>5, SetReadStep DEF Values!ValuesNext, AddRead
  <2> QED BY <2>1, <2>3, <2>4, <2>5
<1>4. CASE \E item \in Items : Emplace(m, item) BY <1>4, EmplaceStep DEF Values!ValuesNext
<1>5. CASE \E items \in Bundles : AppendTo(m, items)
  <2>1. PICK items \in Bundles : AppendTo(m, items) BY <1>5
  <2>2. items \in Seq(Items)
    <3>1. CASE items = <<>> BY <3>1
    <3>2. CASE \E x \in Items : items = <<x>> BY <3>2
    <3>3. CASE \E x, y \in Items : items = <<x, y>> BY <3>3
    <3> QED BY <3>1, <3>2, <3>3 DEF Bundles
  <2> QED BY <2>1, <2>2, AppendStep DEF Values!ValuesNext
<1>6. CASE SetEmpty(m) BY <1>6, SetEmptyStep DEF Values!ValuesNext
<1>7. CASE Rewind(m) BY <1>7, SetReadStep DEF Values!ValuesNext, Rewind
<1>8. CASE \E type \in Types : SetType(m, type) BY <1>8, LabelStep DEF Values!ValuesNext, SetType
<1>9. CASE \E n \in Names \ {m} : AppendCopyOf(m, n) \/ CopyMetaInfoTo(m, n) \/ MoveTo(m, n)
  <2>1. PICK n \in Names : AppendCopyOf(m, n) \/ CopyMetaInfoTo(m, n) \/ MoveTo(m, n) BY <1>9
  <2>2. CASE AppendCopyOf(m, n) BY <2>2, ContentsType, AppendStep DEF Values!ValuesNext, AppendCopyOf
  <2>3. CASE CopyMetaInfoTo(m, n) BY <2>3, Fields, LabelStep DEF Values!ValuesNext, CopyMetaInfoTo
  <2>4. CASE MoveTo(m, n) BY <2>4, MoveStep DEF Values!ValuesNext
  <2> QED BY <2>1, <2>2, <2>3, <2>4
<1> QED BY <1>1, <1>2, <1>3, <1>4, <1>5, <1>6, <1>7, <1>8, <1>9 DEF Operation

\* The first messages have no memory.
LEMMA InitValues == ASSUME InitMessages PROVE MessagesInv /\ Values!ValuesInit
<1>1. \A m \in Names : messages[m] = Fresh BY DEF InitMessages
<1>2. Fresh \in MessageType /\ Fresh.block = NoBlock /\ Fresh.used = 0 /\ Fresh.read = 0 /\ Fresh.type = Unused
  BY CapacityAssumption, UnusedAssumption DEF Fresh, MessageType
<1>3. MessagesInv
  BY <1>1, <1>2, CapacityAssumption DEF InitMessages, MessagesInv, MessagesTypeOK, NoSharing, Has, CapacityOf
<1>4. \A m \in Names : Contents(m) = <<>> /\ ~Has(m) BY <1>1, <1>2, EmptyNow DEF Has
<1>5. [m \in Names |-> Contents(m)] = [m \in Names |-> <<>>] BY <1>4
<1>6. [m \in Names |-> messages[m].read] = [m \in Names |-> 0] BY <1>1, <1>2
<1>7. [m \in Names |-> messages[m].type] \in [Names -> Types] BY <1>1, <1>2, UnusedAssumption
<1>8. {m \in Names : Has(m)} = {} BY <1>4
<1> QED BY <1>3, <1>5, <1>6, <1>7, <1>8 DEF Values!ValuesInit

\* A step of the messages is a step of the values.
LEMMA StepValues ==
    ASSUME MessagesInv, [NextMessages]_messageVars
    PROVE  MessagesInv' /\ [Values!ValuesNext]_(Values!valueVars)
<1>1. CASE NextMessages BY <1>1, OperationStep DEF NextMessages
<1>2. CASE UNCHANGED messageVars
  <2>1. messages' = messages /\ memory' = memory BY <1>2 DEF messageVars
  <2>2. MessagesInv' BY <2>1 DEF MessagesInv, MessagesTypeOK, NoSharing, Has, CapacityOf
  <2>3. UNCHANGED Values!valueVars BY <2>1 DEF Values!valueVars, Contents, Has
  <2> QED BY <2>2, <2>3
<1> QED BY <1>1, <1>2

\* Two messages never share a block, and none contains more than its block holds: what
\* moveTo() swaps and release() gives back keeps the memory of messages apart.
THEOREM MessagesInvCorrect == MessagesSpec => []MessagesInv
<1>1. InitMessages => MessagesInv BY InitValues
<1>2. MessagesInv /\ [NextMessages]_messageVars => MessagesInv' BY StepValues
<1> QED BY <1>1, <1>2, PTL DEF MessagesSpec

\* Messages are values: no operation changes what any other message contains, although
\* all of them write into blocks that others have had before.
THEOREM ImplementsValuesCorrect == MessagesSpec => ImplementsValues
<1>1. InitMessages => Values!ValuesInit BY InitValues
<1>2. MessagesInv /\ [NextMessages]_messageVars => [Values!ValuesNext]_(Values!valueVars) BY StepValues
<1> QED BY <1>1, <1>2, MessagesInvCorrect, PTL DEF MessagesSpec, ImplementsValues, Values!ValuesSpec
-----------------------------------------------------------------------------
(* The programs: their threads and messages *)

\* What a program is.
LEMMA ProgramFacts ==
    ASSUME program \in Candidates
    PROVE  /\ program.kind \in Kinds /\ program.copyType \in CopyTypes
           /\ program.producers \in Nat \ {0} /\ program.copies \in Nat
           /\ program.entries \in Nat \ {0} /\ program.target \in Nat \ {0}
           /\ Is(MainOnly \cup Copying) => program.producers = 1
           /\ ~Is(Copying) => program.copies = 0
           /\ Is({"separately"}) => program.target = program.entries
           /\ Is({"batched"}) => program.copyType # "CopyConstruct"
           /\ QueueCount \in Nat \ {0} /\ 1 \in Queues /\ QueueCount \in Queues
<1>1. WellFormed(program) BY CandidatesAssumption
<1>2. QueueCount \in Nat \ {0} BY <1>1 DEF WellFormed, QueueCount, QueuesOf
<1>3. 1 \in Queues /\ QueueCount \in Queues BY <1>2 DEF Queues
<1> QED BY <1>1, <1>2, <1>3 DEF WellFormed, Is, Kinds, MainOnly, Copying

\* The threads, and the queues that they use.
LEMMA ThreadFacts ==
    ASSUME program \in Candidates, NEW t \in Threads
    PROVE  /\ t = <<t[1], t[2]>>
           /\ \/ t = Main /\ t[1] = "main" /\ t[2] = 0 /\ t \notin Producers /\ t \notin Copiers
              \/ t \in Producers /\ t # Main /\ t \notin Copiers /\ t[1] = "producer" /\ t[2] \in 1 .. program.producers
                 /\ ~Is(MainOnly \cup {"user"})
              \/ t \in Copiers /\ t # Main /\ t \notin Producers /\ t[1] = "copier" /\ t[2] \in 1 .. program.copies
                 /\ Is(Copying)
           /\ OutQueue(t) \in Queues
           /\ t \in Copiers \/ t = Main => InQueue(t) \in Queues
<1>1. CASE t = Main
  <2>1. t \notin Producers /\ t \notin Copiers BY <1>1 DEF Main, Producers, Copiers
  <2>2. OutQueue(t) = 1 /\ InQueue(t) = QueueCount BY <1>1 DEF Main, OutQueue, InQueue
  <2> QED BY <1>1, <2>1, <2>2, ProgramFacts DEF Main
<1>2. CASE t \in Producers
  <2>1. PICK i \in 1 .. program.producers : t = <<"producer", i>> /\ ~Is(MainOnly \cup {"user"})
    BY <1>2, ProgramFacts DEF Producers
  <2>2. t # Main /\ t \notin Copiers /\ t[1] = "producer" /\ t[2] = i BY <2>1 DEF Main, Copiers
  <2>3. OutQueue(t) \in Queues
    <3>1. CASE Is({"multi_queue"})
      <4>1. QueueCount = program.producers BY <3>1 DEF Is, QueueCount, QueuesOf
      <4> QED BY <2>2, <3>1, <4>1 DEF OutQueue, Queues
    <3> QED BY <2>2, <3>1, ProgramFacts DEF OutQueue
  <2> QED BY <1>2, <2>1, <2>2, <2>3
<1>3. CASE t \in Copiers
  <2>1. PICK i \in 1 .. program.copies : t = <<"copier", i>> BY <1>3 DEF Copiers
  <2>2. t # Main /\ t \notin Producers /\ t[1] = "copier" /\ t[2] = i BY <2>1 DEF Main, Producers
  <2>3. i \in Nat /\ i >= 1 /\ i <= program.copies /\ program.copies \in Nat BY ProgramFacts
  <2>4. Is(Copying) BY <2>3, ProgramFacts
  <2>5. QueueCount = program.copies + 1 BY <2>4 DEF Is, Copying, QueueCount, QueuesOf
  <2>6. OutQueue(t) = i + 1 /\ InQueue(t) = i BY <2>2 DEF OutQueue, InQueue
  <2>7. OutQueue(t) \in Queues /\ InQueue(t) \in Queues BY <2>3, <2>5, <2>6 DEF Queues
  <2> QED BY <1>3, <2>1, <2>2, <2>4, <2>7
<1> QED BY <1>1, <1>2, <1>3 DEF Threads

\* The names of a thread's messages.
LEMMA MessageFacts ==
    ASSUME program \in Candidates, NEW t \in Threads
    PROVE  /\ OutMessage(t) \in Names /\ InMessage(t) \in Names /\ Mine(t) \subseteq Names
           /\ OutMessage(t) \in Mine(t) /\ InMessage(t) \in Mine(t) /\ Published(t) \in Mine(t)
           /\ Mine(t) \subseteq InUse
           /\ \A m \in Mine(t) : m[1] = t[1] /\ m[2] = t[2] /\ m[1] # "entry"
           /\ t \in Copiers => InMessage(t) # OutMessage(t)
           /\ t = Main /\ Is({"alternating"}) => InMessage(t) # OutMessage(t)
<1>1. OutMessage(t) = <<t[1], t[2], 1>> /\ InMessage(t) \in {<<t[1], t[2], 1>>, <<t[1], t[2], 2>>}
  BY DEF OutMessage, InMessage
<1>2. /\ t \in Copiers => InMessage(t) = <<t[1], t[2], 2>>
      /\ t = Main /\ Is({"alternating"}) => InMessage(t) = <<t[1], t[2], 2>>
  BY DEF InMessage
<1>3. /\ \A i \in 1 .. program.producers : <<"producer", i, 1>> \in Names
      /\ \A i \in 1 .. program.copies : <<"copier", i, 1>> \in Names /\ <<"copier", i, 2>> \in Names
      /\ <<"main", 0, 1>> \in Names /\ <<"main", 0, 2>> \in Names
  BY NamesAssumption
<1>4. t \in Producers => InMessage(t) = OutMessage(t)
  BY ThreadFacts DEF InMessage
<1>5. OutMessage(t) \in Names /\ InMessage(t) \in Names
  <2>1. CASE t[1] = "main" /\ t[2] = 0 BY <1>1, <1>3, <2>1
  <2>2. CASE t[1] = "producer" /\ t[2] \in 1 .. program.producers /\ t \in Producers BY <1>1, <1>3, <1>4, <2>2
  <2>3. CASE t[1] = "copier" /\ t[2] \in 1 .. program.copies BY <1>1, <1>3, <2>3
  <2> QED BY <2>1, <2>2, <2>3, ThreadFacts
<1>6. t[1] # "entry" BY ThreadFacts
<1>7. \A m \in Mine(t) : m[1] = t[1] /\ m[2] = t[2] /\ m[1] # "entry" BY <1>1, <1>6 DEF Mine
<1>8. <<t[1], t[2], 1>> # <<t[1], t[2], 2>> OBVIOUS
<1> QED BY <1>1, <1>2, <1>5, <1>7, <1>8 DEF Mine, Published, InUse

\* Threads have different messages, and none of the entries'.
LEMMA Apart ==
    ASSUME program \in Candidates, NEW t \in Threads, NEW u \in Threads, t # u
    PROVE  \A m \in Mine(t) : m \notin Mine(u) /\ m \notin EntryMessages
<1>1. t = <<t[1], t[2]>> /\ u = <<u[1], u[2]>> BY ThreadFacts
<1>2. ~(t[1] = u[1] /\ t[2] = u[2]) BY <1>1
<1> QED BY <1>2, MessageFacts DEF EntryMessages, Entry

LEMMA NotEntries == ASSUME program \in Candidates, NEW t \in Threads PROVE \A m \in Mine(t) : m \notin EntryMessages
BY MessageFacts DEF EntryMessages, Entry

\* The names of the entries' messages.
LEMMA EntryFacts ==
    ASSUME program \in Candidates, NEW q \in Queues, NEW i \in Nat
    PROVE  /\ Entry(q, i) \in EntryMessages /\ Entry(q, i) \in Names /\ Entry(q, i) \in InUse
           /\ Entry(q, i) = <<"entry", q, i % program.entries>> /\ Entry(q, i)[1] = "entry"
<1>1. program.entries \in Nat \ {0} BY ProgramFacts
<1>2. i % program.entries \in 0 .. program.entries - 1 BY <1>1, Division
<1>3. \A j \in 0 .. program.entries - 1 : <<"entry", q, j>> \in Names
  BY NamesAssumption DEF Queues, QueueCount
<1>4. \E j \in 1 .. program.entries : j % program.entries = i % program.entries
  <2>1. CASE i % program.entries = 0
    <3>1. program.entries % program.entries = 0
      <4>1. program.entries = program.entries * 1 + 0 BY <1>1
      <4> QED BY <1>1, <4>1, Remainder
    <3> QED BY <1>1, <2>1, <3>1
  <2>2. CASE i % program.entries # 0
    <3> DEFINE r == i % program.entries
    <3>1. r \in 1 .. program.entries /\ r \in 0 .. program.entries - 1 /\ r \in Nat BY <1>1, <1>2, <2>2
    <3>2. r = program.entries * 0 + r BY <1>1, <3>1
    <3> HIDE DEF r
    <3>3. r % program.entries = r BY <1>1, <3>1, <3>2, Remainder
    <3> QED BY <3>1, <3>3 DEF r
  <2> QED BY <2>1, <2>2
<1>5. PICK j \in 1 .. program.entries : j % program.entries = i % program.entries BY <1>4
<1>6. Entry(q, i) = Entry(q, j) BY <1>5 DEF Entry
<1>7. Entry(q, i) \in EntryMessages BY <1>6 DEF EntryMessages
<1> QED BY <1>2, <1>3, <1>7 DEF Entry, InUse
LEMMA EntryNames == ASSUME program \in Candidates PROVE EntryMessages \subseteq Names
<1>1. \A q \in Queues, i \in 1 .. program.entries : i \in Nat BY ProgramFacts
<1> QED BY <1>1, EntryFacts DEF EntryMessages
-----------------------------------------------------------------------------
(* The pool has a block for each message of the program *)

\* What is numbered has no more elements than numbers.
LEMMA CountByImage ==
    ASSUME NEW S, NEW T, NEW f \in [S -> T], IsFiniteSet(S), \A y \in T : \E x \in S : f[x] = y
    PROVE  IsFiniteSet(T) /\ Cardinality(T) <= Cardinality(S) /\ Cardinality(T) \in Nat
<1>1. f \in Surjection(S, T) BY DEF Surjection
<1> QED BY <1>1, FS_Surjection, FS_CardinalityType
LEMMA OneElement == ASSUME NEW x PROVE IsFiniteSet({x}) /\ Cardinality({x}) <= 1
<1>1. IsFiniteSet({x}) /\ Cardinality({x}) = 1 BY FS_Singleton, Zenon
<1> QED BY <1>1
LEMMA UnionBound ==
    ASSUME NEW S, NEW T, NEW m \in Nat, NEW n \in Nat, IsFiniteSet(S), IsFiniteSet(T),
           Cardinality(S) <= m, Cardinality(T) <= n
    PROVE  IsFiniteSet(S \cup T) /\ Cardinality(S \cup T) <= m + n
<1>1. IsFiniteSet(S \cup T) /\ Cardinality(S \cup T) = Cardinality(S) + Cardinality(T) - Cardinality(S \cap T)
  BY FS_Union
<1>2. IsFiniteSet(S \cap T) BY FS_Intersection
<1>3. Cardinality(S) \in Nat /\ Cardinality(T) \in Nat /\ Cardinality(S \cap T) \in Nat
  BY <1>2, FS_CardinalityType
<1> QED BY <1>1, <1>3

LEMMA EntriesCount ==
    ASSUME program \in Candidates
    PROVE  IsFiniteSet(EntryMessages) /\ Cardinality(EntryMessages) <= program.entries * QueueCount
<1>1. program.entries \in Nat \ {0} /\ QueueCount \in Nat \ {0} BY ProgramFacts
<1> DEFINE S == (1 .. program.entries) \X Queues
           f == [x \in S |-> Entry(x[2], x[1])]
<1>2. IsFiniteSet(1 .. program.entries) /\ Cardinality(1 .. program.entries) = program.entries
      /\ IsFiniteSet(Queues) /\ Cardinality(Queues) = QueueCount
  <2>1. \A n \in Nat \ {0} : IsFiniteSet(1 .. n) /\ Cardinality(1 .. n) = n BY FS_Interval
  <2> QED BY <1>1, <2>1 DEF Queues
<1>3. IsFiniteSet(S) /\ Cardinality(S) = program.entries * QueueCount BY <1>2, FS_Product
<1>4. f \in [S -> EntryMessages] BY DEF EntryMessages
<1>5. \A y \in EntryMessages : \E x \in S : f[x] = y
  <2> TAKE y \in EntryMessages
  <2>1. PICK q \in Queues, i \in 1 .. program.entries : y = Entry(q, i) BY DEF EntryMessages
  <2>2. <<i, q>> \in S /\ f[<<i, q>>] = y BY <2>1
  <2> QED BY <2>2
<1> HIDE DEF S, f
<1>6. IsFiniteSet(EntryMessages) /\ Cardinality(EntryMessages) <= Cardinality(S) BY <1>3, <1>4, <1>5, CountByImage
<1> QED BY <1>3, <1>6

\* The messages of the threads of one kind: so many of each.
Numbered(kind, n, k) == {<<kind, x[1], x[2]>> : x \in (1 .. n) \X (1 .. k)}
LEMMA InNumbered ==
    ASSUME NEW kind, NEW n, NEW k, NEW i \in 1 .. n, NEW j \in 1 .. k
    PROVE  <<kind, i, j>> \in Numbered(kind, n, k)
<1>1. <<i, j>> \in (1 .. n) \X (1 .. k) OBVIOUS
<1>2. <<kind, <<i, j>>[1], <<i, j>>[2]>> \in Numbered(kind, n, k) BY <1>1 DEF Numbered
<1> QED BY <1>2
LEMMA ThreadsCount ==
    ASSUME NEW kind, NEW n \in Nat, NEW k \in Nat, NEW T,
           T \subseteq Numbered(kind, n, k)
    PROVE  IsFiniteSet(T) /\ Cardinality(T) <= n * k
<1> DEFINE S == (1 .. n) \X (1 .. k)
           R == {<<kind, x[1], x[2]>> : x \in S}
           f == [x \in S |-> <<kind, x[1], x[2]>>]
<1>1. IsFiniteSet(S) /\ Cardinality(S) = n * k
  <2>1. IsFiniteSet(1 .. n) /\ Cardinality(1 .. n) = n /\ IsFiniteSet(1 .. k) /\ Cardinality(1 .. k) = k
    BY FS_Interval
  <2>2. IsFiniteSet(S) /\ Cardinality(S) = Cardinality(1 .. n) * Cardinality(1 .. k) BY <2>1, FS_Product, Zenon
  <2> QED BY <2>1, <2>2
<1>2. f \in [S -> R] /\ \A y \in R : \E x \in S : f[x] = y OBVIOUS
<1>3. IsFiniteSet(R) /\ Cardinality(R) <= n * k /\ Cardinality(R) \in Nat
  <2> HIDE DEF S, R, f
  <2>1. IsFiniteSet(R) /\ Cardinality(R) <= Cardinality(S) /\ Cardinality(R) \in Nat BY <1>1, <1>2, CountByImage
  <2> QED BY <1>1, <2>1
<1>4. T \subseteq R BY DEF Numbered
<1>5. IsFiniteSet(T) /\ Cardinality(T) <= Cardinality(R) /\ Cardinality(T) \in Nat
  <2> HIDE DEF R
  <2> QED BY <1>3, <1>4, FS_Subset, FS_CardinalityType
<1>6. n * k \in Nat OBVIOUS
<1> HIDE DEF S, R, f
<1> QED BY <1>3, <1>5, <1>6

\* "how many buffers do we need?"
LEMMA InUseCount ==
    ASSUME program \in Candidates, ~Is({"user"})
    PROVE  IsFiniteSet(InUse) /\ Cardinality(InUse) <= PoolSizeOf(program) /\ PoolSizeOf(program) \in Nat
<1> DEFINE produced == UNION {Mine(t) : t \in Producers}
           copied == UNION {Mine(t) : t \in Copiers}
           inQueues == program.entries * QueueCount
<1>1. /\ program.producers \in Nat \ {0} /\ program.copies \in Nat
      /\ program.entries \in Nat \ {0} /\ QueueCount \in Nat \ {0}
  BY ProgramFacts
<1>2. inQueues \in Nat /\ IsFiniteSet(EntryMessages) /\ Cardinality(EntryMessages) <= inQueues
  BY <1>1, EntriesCount
<1>3. /\ PoolSizeOf(program) \in Nat
      /\ inQueues + (1 + program.producers) + program.copies * 2 <= PoolSizeOf(program)
  <2>1. CASE Is(MainOnly)
    <3>1. program.kind \in MainOnly /\ program.kind # "user" BY <2>1 DEF Is, MainOnly
    <3>2. PoolSizeOf(program) = program.entries + Spare BY <3>1 DEF PoolSizeOf
    <3>3. program.copies = 0 /\ program.producers = 1 /\ QueueCount = 1
      <4>1. ~Is(Copying) /\ Is(MainOnly \cup Copying) /\ ~Is({"multi_queue"})
        BY <3>1 DEF Is, MainOnly, Copying
      <4>2. program.copies = 0 /\ program.producers = 1 BY <4>1, ProgramFacts
      <4> QED BY <4>1, <4>2 DEF QueueCount, QueuesOf, Is
    <3>4. inQueues = program.entries BY <1>1, <3>3
    <3> HIDE DEF inQueues
    <3> QED BY <1>1, <3>2, <3>3, <3>4, SpareAssumption
  <2>2. CASE ~Is(MainOnly)
    <3>1. PoolSizeOf(program) = program.entries * QueueCount + 1 + 2 * program.copies + program.producers
      BY <2>2 DEF PoolSizeOf, Is, QueueCount
    <3>2. PoolSizeOf(program) = inQueues + 1 + 2 * program.copies + program.producers BY <3>1
    <3> HIDE DEF inQueues
    <3> QED BY <1>1, <1>2, <3>2
  <2> QED BY <2>1, <2>2
<1>4. InUse = EntryMessages \cup Mine(Main) \cup produced \cup copied
  <2>1. Threads = {Main} \cup Producers \cup Copiers BY DEF Threads
  <2> QED BY <2>1 DEF InUse
<1>5. IsFiniteSet(copied) /\ Cardinality(copied) <= program.copies * 2
  <2>1. ASSUME NEW m \in copied PROVE m \in Numbered("copier", program.copies, 2)
    <3>1. PICK t \in Copiers : m \in Mine(t) OBVIOUS
    <3>2. t \in Threads BY <3>1 DEF Threads
    <3>3. t[1] = "copier" /\ t[2] \in 1 .. program.copies BY <3>1, <3>2, ThreadFacts
    <3>4. m \in {<<t[1], t[2], 1>>, <<t[1], t[2], 2>>} BY <3>1 DEF Mine, InMessage, OutMessage
    <3>5. 1 \in 1 .. 2 /\ 2 \in 1 .. 2 OBVIOUS
    <3> QED BY <3>3, <3>4, <3>5, InNumbered
  <2> HIDE DEF copied
  <2>2. program.copies \in Nat BY <1>1
  <2>3. 2 \in Nat OBVIOUS
  <2> QED BY <2>1, <2>2, <2>3, ThreadsCount
<1>6. IsFiniteSet(produced) /\ Cardinality(produced) <= program.producers * 1
  <2>1. ASSUME NEW m \in produced PROVE m \in Numbered("producer", program.producers, 1)
    <3>1. PICK t \in Producers : m \in Mine(t) OBVIOUS
    <3>2. t \in Threads BY <3>1 DEF Threads
    <3>3. t[1] = "producer" /\ t[2] \in 1 .. program.producers /\ t # Main /\ t \notin Copiers
      BY <3>1, <3>2, ThreadFacts
    <3>4. m = <<t[1], t[2], 1>> BY <3>1, <3>3 DEF Mine, InMessage, OutMessage
    <3>5. 1 \in 1 .. 1 OBVIOUS
    <3> QED BY <3>3, <3>4, <3>5, InNumbered
  <2> HIDE DEF produced
  <2>2. program.producers \in Nat BY <1>1
  <2>3. 1 \in Nat OBVIOUS
  <2> QED BY <2>1, <2>2, <2>3, ThreadsCount
<1>7. /\ IsFiniteSet(Mine(Main) \cup produced)
      /\ Cardinality(Mine(Main) \cup produced) <= 1 + program.producers
  <2>1. CASE Is(MainOnly)
    <3>1. produced = {} BY <2>1 DEF Producers, Is, MainOnly
    <3>2. Mine(Main) \cup produced = {OutMessage(Main)} \cup {InMessage(Main)} BY <3>1 DEF Mine
    <3>3. IsFiniteSet({OutMessage(Main)}) /\ Cardinality({OutMessage(Main)}) <= 1
          /\ IsFiniteSet({InMessage(Main)}) /\ Cardinality({InMessage(Main)}) <= 1
      BY OneElement, Zenon
    <3>4. IsFiniteSet({OutMessage(Main)} \cup {InMessage(Main)})
          /\ Cardinality({OutMessage(Main)} \cup {InMessage(Main)}) <= 1 + 1
      BY <3>3, UnionBound
    <3>5. program.producers = 1 BY <2>1, ProgramFacts DEF Is
    <3> HIDE DEF produced
    <3> QED BY <3>2, <3>4, <3>5
  <2>2. CASE ~Is(MainOnly)
    <3>1. Mine(Main) = {OutMessage(Main)}
      BY <2>2, ProgramFacts, ThreadFacts DEF Mine, InMessage, Is, MainOnly, Threads
    <3>2. IsFiniteSet(Mine(Main)) /\ Cardinality(Mine(Main)) <= 1 BY <3>1, OneElement, Zenon
    <3> HIDE DEF produced
    <3>3. Cardinality(produced) <= program.producers BY <1>1, <1>6
    <3> QED BY <1>1, <1>6, <3>2, <3>3, UnionBound
  <2> QED BY <2>1, <2>2
<1> HIDE DEF produced, copied, inQueues
<1>8. program.copies * 2 \in Nat /\ 1 + program.producers \in Nat /\ inQueues + (1 + program.producers) \in Nat
      /\ inQueues + (1 + program.producers) + program.copies * 2 \in Nat
  BY <1>1, <1>2
<1>9. LET S == EntryMessages \cup (Mine(Main) \cup produced) IN
      IsFiniteSet(S) /\ Cardinality(S) <= inQueues + (1 + program.producers)
  BY <1>2, <1>7, <1>8, UnionBound
<1>10. LET S == EntryMessages \cup (Mine(Main) \cup produced) \cup copied IN
       IsFiniteSet(S) /\ Cardinality(S) <= inQueues + (1 + program.producers) + program.copies * 2
  BY <1>5, <1>8, <1>9, UnionBound
<1>11. InUse = EntryMessages \cup (Mine(Main) \cup produced) \cup copied BY <1>4
<1>12. IsFiniteSet(InUse) /\ Cardinality(InUse) <= inQueues + (1 + program.producers) + program.copies * 2
  BY <1>10, <1>11
<1>13. Cardinality(InUse) \in Nat BY <1>12, FS_CardinalityType
<1> QED BY <1>3, <1>8, <1>12, <1>13

\* As long as a message of the program has no block, one is left for it.
LEMMA BlockLeft ==
    ASSUME program \in Candidates, ~Is({"user"}), MessagesInv, Held, NEW m \in InUse, ~Has(m)
    PROVE  Available \cap Pool # {}
<1>1. IsFiniteSet(Pool) /\ Cardinality(Pool) = PoolSizeOf(program) /\ Pool \subseteq Blocks
  BY BlocksAssumption DEF Pool
<1>2. SUFFICES ASSUME Available \cap Pool = {} PROVE FALSE OBVIOUS
<1>3. \A b \in Pool : \E n \in Names : messages[n].block = b
  BY <1>1, <1>2 DEF Available, MessagesInv, MessagesTypeOK
<1> DEFINE others == InUse \ {m}
           f == [b \in Pool |-> CHOOSE n \in Names : messages[n].block = b]
<1>4. \A b \in Pool : f[b] \in Names /\ messages[f[b]].block = b BY <1>3
<1>5. \A b \in Pool : Has(f[b])
  <2> HIDE DEF f
  <2> QED BY <1>1, <1>4, NoBlockAssumption DEF Has
<1>6. \A b \in Pool : f[b] \in others
  <2> HIDE DEF f
  <2>1. \A n \in Names : Has(n) => n \in InUse BY DEF Held
  <2> QED BY <1>4, <1>5, <2>1
<1>7. f \in Injection(Pool, others)
  <2>1. f \in [Pool -> others] BY <1>6
  <2> HIDE DEF f
  <2> QED BY <1>4, <2>1 DEF Injection, IsInjective
<1>8. IsFiniteSet(InUse) /\ Cardinality(InUse) <= PoolSizeOf(program) /\ PoolSizeOf(program) \in Nat BY InUseCount
<1>9. IsFiniteSet(others) /\ Cardinality(others) = Cardinality(InUse) - 1 BY <1>8, FS_RemoveElement
<1>10. Cardinality(InUse) \in Nat /\ Cardinality(others) \in Nat BY <1>8, <1>9, FS_CardinalityType
<1>11. Cardinality(Pool) <= Cardinality(others)
  <2> HIDE DEF f, others
  <2> QED BY <1>7, <1>9, FS_Injection
<1> HIDE DEF others
<1> QED BY <1>1, <1>8, <1>9, <1>10, <1>11
-----------------------------------------------------------------------------
(* What the operations of the programs do to the messages *)

\* A step of the messages that concerns none but those of a set.
Touching(S) ==
    /\ [NextMessages]_messageVars /\ MessagesInv'
    /\ \A x \in Names \ S : messages'[x] = messages[x]
\* Nobody gets or loses a block.
Holding == \A x \in Names : Has(x)' = Has(x)

LEMMA MoveEffect ==
    ASSUME MessagesInv, NEW m \in Names, NEW n \in Names, Has(m), Has(n), MoveTo(m, n)
    PROVE  Touching({m, n}) /\ Holding /\ messages'[m].used = 0 /\ messages'[n].used = messages[m].used
<1>1. MessagesInv' BY MoveStep
<1>2. NextMessages BY DEF NextMessages, Operation, MoveTo
<1> DEFINE source == [messages[m] EXCEPT !.block = messages[n].block, !.used = 0, !.read = 0]
<1>3. messages' = [messages EXCEPT ![n] = messages[m], ![m] = source] /\ m # n BY DEF MoveTo, Swapped
<1>4. messages[m] \in MessageType BY Fields
<1>5. source.block = messages[n].block /\ source.used = 0 BY <1>4 DEF MessageType
<1> HIDE DEF source
<1>6. /\ messages'[m] = source /\ messages'[n] = messages[m]
      /\ \A x \in Names \ {m, n} : messages'[x] = messages[x]
  BY <1>3 DEF MessagesInv, MessagesTypeOK
<1>7. Holding BY <1>5, <1>6 DEF Holding, Has
<1> QED BY <1>1, <1>2, <1>5, <1>6, <1>7 DEF Touching

\* Blocks stay where they are.
LEMMA SameBlocksHold == ASSUME SameBlocks PROVE Holding
BY DEF SameBlocks, Holding, Has
LEMMA WriteEffect ==
    ASSUME MessagesInv, NEW m \in Names, NEW items \in Seq(Items), NEW position \in 0 .. Capacity,
           WriteAt(m, position, items), Operation(m)
    PROVE  Touching({m}) /\ Holding
<1>1. /\ MessagesInv'
      /\ \A n \in Names \ {m} : messages'[n] = messages[n]
      /\ messages'[m] = [messages[m] EXCEPT !.used = position + Len(items)]
  BY Written
<1>2. SameBlocks BY <1>1, WrittenFields
<1> QED BY <1>1, <1>2, SameBlocksHold DEF Touching, NextMessages
LEMMA EmplaceEffect ==
    ASSUME MessagesInv, NEW m \in Names, NEW item \in Items, Emplace(m, item)
    PROVE  Touching({m}) /\ Holding
<1>1. <<item>> \in Seq(Items) /\ 0 \in 0 .. Capacity BY CapacityAssumption
<1>2. Operation(m) BY DEF Operation
<1> QED BY <1>1, <1>2, WriteEffect DEF Emplace
LEMMA AppendEffect ==
    ASSUME MessagesInv, NEW m \in Names, NEW items \in Seq(Items), AppendTo(m, items), Operation(m)
    PROVE  Touching({m}) /\ Holding
<1>1. messages[m].used \in 0 .. Capacity BY Fields
<1> QED BY <1>1, WriteEffect DEF AppendTo
LEMMA SetUsedEffect ==
    ASSUME MessagesInv, NEW m \in Names, SetUsed(m, 0)
    PROVE  Touching({m}) /\ Holding
<1>1. 0 \in 0 .. Capacity BY CapacityAssumption
<1>2. Operation(m) BY <1>1 DEF Operation
<1>3. MessagesInv' BY <1>1, SetUsedStep
<1>4. messages[m] \in MessageType BY Fields
<1>5. messages' = [messages EXCEPT ![m] = [messages[m] EXCEPT !.used = 0]] BY DEF SetUsed, Update
<1>6. /\ messages'[m] = [messages[m] EXCEPT !.used = 0]
      /\ \A n \in Names \ {m} : messages'[n] = messages[n]
  BY <1>5 DEF MessagesInv, MessagesTypeOK
<1>7. SameBlocks BY <1>6, WrittenFields
<1> QED BY <1>2, <1>3, <1>6, <1>7, SameBlocksHold DEF Touching, NextMessages
LEMMA AllocateEffect ==
    ASSUME MessagesInv, NEW m \in Names, Allocate(m)
    PROVE  /\ Touching({m}) /\ Has(m)' /\ messages'[m].used = 0
           /\ \A x \in Names \ {m} : Has(x)' = Has(x)
<1>1. MessagesInv' BY AllocateStep
<1>2. Operation(m) BY DEF Operation
<1>3. PICK b \in Available : Update(m, [messages[m] EXCEPT !.block = b, !.used = 0])
  BY DEF Allocate
<1>4. b # NoBlock BY NoBlockAssumption DEF Available
<1>5. messages[m] \in MessageType BY Fields
<1> DEFINE new == [messages[m] EXCEPT !.block = b, !.used = 0]
<1>6. new.block = b /\ new.used = 0 BY <1>5 DEF MessageType
<1> HIDE DEF new
<1>7. messages'[m] = new /\ \A n \in Names \ {m} : messages'[n] = messages[n]
  BY <1>3 DEF MessagesInv, MessagesTypeOK, Update, new
<1> QED BY <1>1, <1>2, <1>4, <1>6, <1>7 DEF Touching, NextMessages, Has
LEMMA ReleaseEffect ==
    ASSUME MessagesInv, NEW m \in Names, Release(m)
    PROVE  /\ Touching({m}) /\ ~Has(m)'
           /\ \A x \in Names \ {m} : Has(x)' = Has(x)
<1>1. MessagesInv' BY ReleaseStep
<1>2. Operation(m) BY DEF Operation
<1>5. messages[m] \in MessageType BY Fields
<1> DEFINE new == [messages[m] EXCEPT !.block = NoBlock, !.used = 0]
<1>6. new.block = NoBlock BY <1>5 DEF MessageType
<1>7. messages'[m] = new /\ \A n \in Names \ {m} : messages'[n] = messages[n]
  BY DEF MessagesInv, MessagesTypeOK, Update, Release
<1> HIDE DEF new
<1> QED BY <1>1, <1>2, <1>6, <1>7 DEF Touching, NextMessages, Has
LEMMA NoEffect ==
    ASSUME MessagesInv, UNCHANGED messageVars
    PROVE  Touching({}) /\ Holding
<1>1. messages' = messages /\ memory' = memory BY DEF messageVars
<1>2. MessagesInv' BY <1>1 DEF MessagesInv, MessagesTypeOK, NoSharing, Has, CapacityOf
<1> QED BY <1>1, <1>2 DEF Touching, Holding, Has
-----------------------------------------------------------------------------
(* What a step keeps *)

\* The program never changes, nor do its threads, queues and names.
LEMMA Fixed ==
    ASSUME program' = program
    PROVE  /\ Threads' = Threads /\ Producers' = Producers /\ Copiers' = Copiers
           /\ Queues' = Queues /\ EntryMessages' = EntryMessages /\ InUse' = InUse
           /\ \A t : InMessage(t)' = InMessage(t) /\ Mine(t)' = Mine(t)
           /\ \A kinds : Is(kinds)' = Is(kinds)
<1>1. \A kinds : Is(kinds)' = Is(kinds) BY DEF Is
<1>2. Producers' = Producers /\ Copiers' = Copiers BY DEF Producers, Copiers, Is
<1>3. Threads' = Threads BY <1>2 DEF Threads
<1>4. Queues' = Queues BY DEF Queues, QueueCount
<1>5. EntryMessages' = EntryMessages BY <1>4 DEF EntryMessages, Entry
<1>6. \A t : InMessage(t)' = InMessage(t) BY <1>1, <1>2 DEF InMessage
<1>7. \A t : Mine(t)' = Mine(t) BY <1>6 DEF Mine
<1>8. InUse' = InUse BY <1>3, <1>5, <1>7 DEF InUse
<1> QED BY <1>1, <1>2, <1>3, <1>4, <1>5, <1>6, <1>7, <1>8

\* The messages, as long as nobody gets or loses a block.
Outside == {"off", "start", "construct", "leave", "ended"}
LEMMA KeepsHolding ==
    ASSUME ProgramsInv, program' = program, Holding, NEW t \in Threads, NEW where,
           place' = [place EXCEPT ![t] = where],
           t = Main => (place[Main] = "create" => where = "create"),
           t # Main => (place[t] \in Outside => where \in Outside)
    PROVE  Held' /\ Supplied'
<1>1. place \in [Threads -> Places] /\ program \in Candidates BY DEF ProgramsInv, ProgramsType, Placed
<1>2. place'[t] = where /\ \A u \in Threads : u # t => place'[u] = place[u] BY <1>1
<1>3. Main \in Threads BY DEF Threads
<1>4. Held' BY Fixed DEF ProgramsInv, Held, Holding
<1>5. \A u \in Threads : Mine(u) \subseteq Names BY <1>1, MessageFacts
<1>6. EntryMessages \subseteq Names BY <1>1, EntryNames
<1>7. ASSUME place'[Main] # "create", NEW m \in EntryMessages \cup Mine(Main) PROVE Has(m)'
  <2>1. place[Main] # "create" BY <1>2, <1>3, <1>7
  <2> QED BY <2>1, <1>3, <1>5, <1>6 DEF ProgramsInv, Supplied, Holding
<1>8. ASSUME NEW u \in Threads \ {Main}, place'[u] \notin Outside, NEW m \in Mine(u) PROVE Has(m)'
  <2>1. place[u] \notin Outside BY <1>2, <1>8
  <2> QED BY <2>1, <1>5 DEF ProgramsInv, Supplied, Holding, Outside
<1> QED BY <1>4, <1>7, <1>8, Fixed DEF Supplied, Outside

\* The messages of a copying thread that does nothing.
LEMMA KeepsFitting ==
    ASSUME ProgramsInv, program' = program, NEW t \in Threads, NEW S, Touching(S),
           S \subseteq EntryMessages \cup Mine(t),
           \A u \in Copiers \ {t} : place'[u] = place[u] /\ number'[u] = number[u],
           t \in Copiers => CopyFits(t)'
    PROVE  CopiesFit'
<1> SUFFICES ASSUME NEW u \in Copiers, u # t PROVE CopyFits(u)'
  BY Fixed DEF CopiesFit
<1>1. u \in Threads /\ program \in Candidates BY DEF Threads, ProgramsInv, ProgramsType
<1>2. \A m \in Mine(u) : m \in Names \ S BY <1>1, Apart, MessageFacts
<1>3. messages'[OutMessage(u)] = messages[OutMessage(u)] /\ messages'[InMessage(u)] = messages[InMessage(u)]
  BY <1>1, <1>2, MessageFacts DEF Touching
<1>4. CopyFits(u) BY DEF ProgramsInv, CopiesFit
<1>5. OutMessage(u)' = OutMessage(u) /\ InMessage(u)' = InMessage(u) BY Fixed DEF OutMessage
<1>6. place'[u] = place[u] /\ number'[u] = number[u] OBVIOUS
<1> QED BY <1>3, <1>4, <1>5, <1>6 DEF CopyFits

\* A thread that goes on.
LEMMA ThreadMoves ==
    ASSUME ProgramsInv, NEW t \in Threads \ {Main}, NEW where,
           place[t] \notin {"off", "start", "ended"}, where \notin {"off", "start", "failed"},
           t \in Producers => where \in ProducerPlaces,
           t \in Copiers => where \in CopierPlaces /\ (where = "copy" => program.copyType # "PassThru"),
           place' = [place EXCEPT ![t] = where],
           UNCHANGED <<program, expected, solo, go, round, search, consumed>>,
           number' \in [Threads -> Nat], number'[Main] = number[Main], ready' \in Nat,
           QueuesType', MessagesInv'
    PROVE  ProgramsType' /\ Starting' /\ Rounds' /\ NobodyFailed'
<1>1. place \in [Threads -> Places] /\ program \in Candidates /\ Main \in Threads
  BY DEF ProgramsInv, ProgramsType, Placed, Threads
<1>2. where \in Places BY DEF ProducerPlaces, CopierPlaces, Places, Threads
<1>3. /\ place' \in [Threads -> Places] /\ place'[t] = where
      /\ \A u \in Threads : u # t => place'[u] = place[u]
      /\ place'[Main] = place[Main]
  BY <1>1, <1>2
<1>4. \A u \in Producers \cup Copiers : u \in Threads BY DEF Threads
<1>5. Placed' BY <1>3, <1>4, Fixed DEF ProgramsInv, ProgramsType, Placed
<1>6. Filling' BY <1>3, Fixed DEF ProgramsInv, ProgramsType, Filling
<1>7. ProgramsType' BY <1>5, <1>6, Fixed DEF ProgramsInv, ProgramsType
<1>8. NobodyFailed' BY <1>3, Fixed DEF ProgramsInv, NobodyFailed
<1>9. Starting' BY <1>3, <1>4, Fixed DEF ProgramsInv, Starting
<1>10. Rounds'
  <2>1. \A u \in Producers : (u[2] > round => place'[u] = "off") /\ (place'[u] = "off" => u \notin solo)
    BY <1>3, <1>4 DEF ProgramsInv, Rounds
  <2>2. place'[Main] \in {"create", "round", "done"} => \A u \in Producers : place'[u] \in {"off", "ended"}
    BY <1>3, <1>4 DEF ProgramsInv, Rounds
  <2>3. Is({"rounds"}) => /\ expected[1] = (IF place'[Main] \in {"create", "round"} THEN round - 1 ELSE round)
                          /\ round > 1 => \A u \in Producers \cap solo : place'[u] \in {"start", "ended"}
    BY <1>3, <1>4 DEF ProgramsInv, Rounds
  <2> QED BY <2>1, <2>2, <2>3, Fixed DEF Rounds
<1> QED BY <1>7, <1>8, <1>9, <1>10

\* The main thread, whose producers are as many as before.
LEMMA MainMoves ==
    ASSUME ProgramsInv, NEW where \in MainPlaces \ {"failed"},
           place' = [place EXCEPT ![Main] = where],
           where = "done" => \A u \in Producers : place[u] \in {"off", "ended"},
           where = "round" =>
                /\ place[Main] \in {"create", "round"} \/ Is({"separately"})
                /\ \A u \in Producers : place[u] \in {"off", "ended"},
           where = "create" => place[Main] = "create",
           place[Main] \in {"create", "round"} /\ where \notin {"create", "round"} => Is(MainOnly),
           UNCHANGED <<program, round>>, Is({"rounds"}) => expected' = expected,
           \A u \in Producers : u \in solo' <=> u \in solo,
           Is({"user"}) => where = "create",
           where \in {"fill", "put", "take"} => Is(MainOnly) /\ number'[Main] <= program.target,
           solo' \subseteq Threads, ready' \in Nat, go' \in BOOLEAN, search' \in Queues, consumed' \in Seq(Items),
           number' \in [Threads -> Nat], QueuesType', MessagesInv'
    PROVE  ProgramsType' /\ Starting' /\ Rounds' /\ NobodyFailed'
<1>1. place \in [Threads -> Places] /\ program \in Candidates /\ Main \in Threads
  BY DEF ProgramsInv, ProgramsType, Placed, Threads
<1>2. where \in Places BY DEF MainPlaces, Places
<1>3. /\ place' \in [Threads -> Places] /\ place'[Main] = where
      /\ \A u \in Threads : u # Main => place'[u] = place[u]
  BY <1>1, <1>2
<1>4. \A u \in Producers \cup Copiers : u \in Threads /\ u # Main BY <1>1, ThreadFacts DEF Threads
<1>5. Placed' BY <1>3, <1>4, Fixed DEF ProgramsInv, ProgramsType, Placed
<1>6. Filling' BY <1>3, Fixed DEF Filling
<1>7. ProgramsType' BY <1>5, <1>6, Fixed DEF ProgramsInv, ProgramsType
<1>8. NobodyFailed' BY <1>3, Fixed DEF ProgramsInv, NobodyFailed
<1>9. Starting'
  <2>1. Is({"separately"}) => Copiers = {} BY <1>1, ProgramFacts DEF Is, Copying, Copiers
  <2>2. where \in {"create", "round"} => \A u \in Copiers : place'[u] = "off"
    BY <1>3, <1>4, <2>1 DEF ProgramsInv, Starting
  <2> QED BY <1>3, <2>2, Fixed DEF Starting
<1>10. Rounds'
  <2>1. \A u \in Producers : (u[2] > round => place'[u] = "off") /\ (place'[u] = "off" => u \notin solo')
    BY <1>3, <1>4 DEF ProgramsInv, Rounds
  <2>2. where \in {"create", "round", "done"} => \A u \in Producers : place'[u] \in {"off", "ended"}
    BY <1>3, <1>4 DEF ProgramsInv, Rounds
  <2>3. Is({"rounds"}) => ~Is(MainOnly) /\ ~Is({"separately"}) BY DEF Is, MainOnly
  <2>4. Is({"rounds"}) => expected'[1] = (IF where \in {"create", "round"} THEN round - 1 ELSE round)
    BY <2>3 DEF ProgramsInv, Rounds
  <2>5. Is({"rounds"}) => (round > 1 => \A u \in Producers \cap solo' : place'[u] \in {"start", "ended"})
    BY <1>3, <1>4 DEF ProgramsInv, Rounds
  <2> QED BY <1>3, <2>1, <2>2, <2>4, <2>5, Fixed DEF Rounds
<1> QED BY <1>7, <1>8, <1>9, <1>10
-----------------------------------------------------------------------------
(* Each step keeps the invariant *)

Kept == [NextMessages]_messageVars /\ ProgramsInv'

\* The invariant, part by part.
LEMMA Parts ==
    ASSUME ProgramsInv
    PROVE  /\ MessagesInv /\ program \in Candidates /\ place \in [Threads -> Places]
           /\ number \in [Threads -> Nat] /\ solo \subseteq Threads /\ ready \in Nat /\ go \in BOOLEAN
           /\ round \in 1 .. program.producers /\ search \in Queues /\ consumed \in Seq(Items)
           /\ QueuesType /\ Main \in Threads /\ Copiers \subseteq Threads /\ Producers \subseteq Threads
           /\ \A t \in Threads : place[t] # "failed"
           /\ \A t \in Producers : place[t] \in ProducerPlaces
           /\ \A t \in Copiers : place[t] \in CopierPlaces
BY DEF ProgramsInv, ProgramsType, Placed, Threads, NobodyFailed

\* A thread that runs: main has all messages.
LEMMA MainIsReady ==
    ASSUME ProgramsInv, NEW t \in Threads \ {Main}, place[t] \notin {"off", "ended"}
    PROVE  place[Main] # "create" /\ ~Is({"user"})
BY DEF ProgramsInv, Starting, Rounds, Threads
LEMMA Has_Running ==
    ASSUME ProgramsInv, NEW t \in Threads \ {Main}, place[t] \notin Outside
    PROVE  \A m \in Mine(t) : Has(m)
BY DEF ProgramsInv, Supplied, Outside

LEMMA ConstructEffect ==
    ASSUME ProgramsInv, ~Is({"user"}), NEW t, NEW where, NEW m \in InUse, m \in Names, Construct(m, t, where)
    PROVE  /\ Touching({m}) /\ Has(m)' /\ messages'[m].used = 0
           /\ \A x \in Names \ {m} : Has(x)' = Has(x)
           /\ place' = [place EXCEPT ![t] = where]
<1>1. ~Has(m) BY DEF Construct
<1>2. Available \cap Pool # {} BY <1>1, Parts, BlockLeft DEF ProgramsInv
<1>3. Allocate(m) /\ place' = [place EXCEPT ![t] = where] BY <1>2 DEF Construct, Goto
<1> QED BY <1>3, Parts, AllocateEffect

LEMMA PublishEffect ==
    ASSUME ProgramsInv, NEW t \in Threads, NEW m \in Mine(t), NEW where, Has(m), place[Main] # "create",
           Publish(t, m, where)
    PROVE  /\ QueuesType' /\ Holding /\ messages'[m].used = 0
           /\ \E e \in EntryMessages : Touching({m, e})
           /\ place' = [place EXCEPT ![t] = where]
           /\ UNCHANGED <<program, number, expected, solo, barrier, round, search, consumed>>
<1> DEFINE q == OutQueue(t)
           e == Entry(q, written[q])
<1>1. program \in Candidates /\ q \in Queues /\ m \in Names /\ QueuesType /\ MessagesInv
  BY Parts, ThreadFacts, MessageFacts
<1>2. written[q] \in Nat /\ taken[q] \in Nat /\ program.entries \in Nat \ {0} BY <1>1, ProgramFacts DEF QueuesType
<1>3. e \in EntryMessages /\ e \in Names /\ e \in InUse BY <1>1, <1>2, EntryFacts
<1>4. Has(e) BY <1>3 DEF ProgramsInv, Supplied
<1>5. MoveTo(m, e) BY DEF Publish
<1>6. QueuesType'
  <2>1. /\ taken' = IF Full(q) THEN [taken EXCEPT ![q] = written[q]] ELSE taken
        /\ written' = [written EXCEPT ![q] = @ + 1]
        /\ program' = program /\ expected' = expected
    BY DEF Publish
  <2>2. written' \in [Queues -> Nat] /\ taken' \in [Queues -> Nat] BY <1>1, <1>2, <2>1 DEF QueuesType
  <2> HIDE DEF q
  <2>3. ASSUME NEW r \in Queues
        PROVE  taken'[r] <= written'[r] /\ written'[r] - taken'[r] <= program.entries
    <3>1. taken[r] \in Nat /\ written[r] \in Nat /\ taken[r] <= written[r] /\ written[r] - taken[r] <= program.entries
      BY <1>1 DEF QueuesType
    <3>2. CASE r # q
      <4>1. written'[r] = written[r] /\ taken'[r] = taken[r] BY <1>1, <2>1, <3>2 DEF QueuesType
      <4> QED BY <3>1, <4>1
    <3>3. CASE r = q /\ Full(q)
      <4>1. written'[q] = written[q] + 1 /\ taken'[q] = written[q] BY <1>1, <2>1, <3>3 DEF QueuesType
      <4> QED BY <1>2, <3>3, <4>1
    <3>4. CASE r = q /\ ~Full(q)
      <4>1. written'[q] = written[q] + 1 /\ taken'[q] = taken[q] BY <1>1, <2>1, <3>4 DEF QueuesType
      <4>2. written[q] - taken[q] # program.entries BY <3>4 DEF Full
      <4> QED BY <1>2, <3>1, <3>4, <4>1, <4>2
    <3> QED BY <3>2, <3>3, <3>4
  <2> QED BY <1>1, <2>1, <2>2, <2>3, Fixed DEF QueuesType
<1>7. Touching({m, e}) /\ Holding /\ messages'[m].used = 0
  BY <1>1, <1>3, <1>4, <1>5, MoveEffect
<1>8. /\ place' = [place EXCEPT ![t] = where]
      /\ UNCHANGED <<program, number, expected, solo, barrier, round, search, consumed>>
  BY DEF Publish, Goto
<1> HIDE DEF e, q
<1> QED BY <1>3, <1>6, <1>7, <1>8

LEMMA GetEffect ==
    ASSUME ProgramsInv, NEW t \in Threads, NEW m \in Mine(t), NEW q \in Queues, Has(m), place[Main] # "create",
           Get(q, m), UNCHANGED <<program, expected, written>>
    PROVE  /\ QueuesType' /\ Holding
           /\ messages'[m].used = messages[Entry(q, FirstIn(q))].used /\ messages'[m].used \in Nat
           /\ \E e \in EntryMessages : Touching({m, e})
           /\ Contents(Entry(q, FirstIn(q))) \in Seq(Items)
<1> DEFINE e == Entry(q, FirstIn(q))
<1>1. program \in Candidates /\ m \in Names /\ QueuesType /\ MessagesInv
  BY Parts, MessageFacts
<1>2. taken[q] \in Nat /\ FirstIn(q) \in Nat BY <1>1 DEF QueuesType, FirstIn
<1>3. e \in EntryMessages /\ e \in Names /\ e \in InUse BY <1>1, <1>2, EntryFacts
<1>4. Has(e) BY <1>3 DEF ProgramsInv, Supplied
<1>5. MoveTo(e, m) BY DEF Get
<1>6. QueuesType'
  <2>1. taken' = [taken EXCEPT ![q] = taken[q] + 1] /\ taken[q] < written[q] /\ written' = written BY DEF Get
  <2>2. taken' \in [Queues -> Nat] BY <1>1, <1>2, <2>1 DEF QueuesType
  <2>3. program.entries \in Nat BY <1>1, ProgramFacts
  <2>4. ASSUME NEW r \in Queues
        PROVE  taken'[r] <= written'[r] /\ written'[r] - taken'[r] <= program.entries
    <3>1. taken[r] \in Nat /\ written[r] \in Nat /\ taken[r] <= written[r] /\ written[r] - taken[r] <= program.entries
      BY <1>1 DEF QueuesType
    <3>2. taken'[r] = IF r = q THEN taken[q] + 1 ELSE taken[r] BY <1>1, <2>1 DEF QueuesType
    <3> QED BY <2>1, <2>3, <3>1, <3>2
  <2> QED BY <1>1, <2>1, <2>2, <2>4, Fixed DEF QueuesType
<1>7. Touching({e, m}) /\ Holding /\ messages'[m].used = messages[e].used
  BY <1>1, <1>3, <1>4, <1>5, MoveEffect
<1>8. messages[e].used \in Nat /\ Contents(e) \in Seq(Items) BY <1>1, <1>3, Fields, ContentsType, CapacityAssumption
<1>9. {e, m} = {m, e} OBVIOUS
<1> HIDE DEF e
<1>10. \E x \in EntryMessages : Touching({m, x}) BY <1>3, <1>7, <1>9
<1> QED BY <1>6, <1>7, <1>8, <1>10 DEF e

\* A thread that runs goes on and keeps its blocks.
LEMMA ThreadKept ==
    ASSUME ProgramsInv, NEW t \in Threads \ {Main}, NEW where, NEW n \in Nat, NEW S,
           place[t] \notin Outside, where \notin {"off", "start", "construct", "failed"},
           t \in Producers => where \in ProducerPlaces,
           t \in Copiers => where \in CopierPlaces /\ (where = "copy" => program.copyType # "PassThru"),
           place' = [place EXCEPT ![t] = where], number' = [number EXCEPT ![t] = n],
           UNCHANGED <<program, expected, solo, ready, go, round, search, consumed>>,
           Touching(S), S \subseteq EntryMessages \cup Mine(t), Holding, QueuesType',
           t \in Copiers => CopyFits(t)'
    PROVE  Kept
<1>1. /\ place \in [Threads -> Places] /\ number \in [Threads -> Nat] /\ ready \in Nat /\ Main \in Threads
      /\ Copiers \subseteq Threads
  BY Parts
<1>2. number' \in [Threads -> Nat] /\ number'[Main] = number[Main] /\ ready' \in Nat BY <1>1
<1>3. place[t] \notin {"off", "start", "ended"} BY DEF Outside
<1>4. ProgramsType' /\ Starting' /\ Rounds' /\ NobodyFailed'
  BY <1>2, <1>3, ThreadMoves DEF Touching
<1>5. Held' /\ Supplied' BY KeepsHolding
<1>6. \A u \in Copiers \ {t} : place'[u] = place[u] /\ number'[u] = number[u] BY <1>1
<1>7. CopiesFit' BY <1>6, KeepsFitting
<1> QED BY <1>4, <1>5, <1>7 DEF Kept, Touching, ProgramsInv

\* Unchanged functions.
LEMMA SameNumber == ASSUME ProgramsInv, NEW t \in Threads, number' = number
                    PROVE  number[t] \in Nat /\ number' = [number EXCEPT ![t] = number[t]]
<1>1. number \in [Threads -> Nat] BY Parts
<1> QED BY <1>1
LEMMA SamePlace == ASSUME ProgramsInv, NEW t \in Threads, place' = place
                   PROVE  place' = [place EXCEPT ![t] = place[t]]
<1>1. place \in [Threads -> Places] BY Parts
<1> QED BY <1>1
LEMMA SameQueues == ASSUME ProgramsInv, UNCHANGED <<program, expected, taken, written>>
                    PROVE  QueuesType'
<1>1. QueuesType BY Parts
<1> QED BY <1>1, Fixed DEF QueuesType

\* while(!producerGo) yield
LEMMA GoKept == ASSUME ProgramsInv, NEW t \in Threads \ {Main}, Go(t) PROVE Kept
<1>1. place[t] = "spin" /\ place' = [place EXCEPT ![t] = "loop"]
      /\ UNCHANGED <<program, expected, solo, taken, written, ready, go, round, search, consumed>>
      /\ UNCHANGED messageVars /\ number' = number
  BY DEF Go, At, Goto, Local, queueVars, barrier
<1>2. t \notin Copiers /\ t \in Producers BY <1>1, Parts DEF CopierPlaces, Threads
<1>3. Touching({}) /\ Holding BY <1>1, NoEffect, Parts
<1>4. number[t] \in Nat /\ number' = [number EXCEPT ![t] = number[t]] /\ QueuesType'
  BY <1>1, SameNumber, SameQueues
<1>5. place[t] \notin Outside /\ "loop" \in ProducerPlaces /\ "loop" \notin {"off", "start", "construct", "failed"}
  BY <1>1 DEF Outside, ProducerPlaces
<1>6. {} \subseteq EntryMessages \cup Mine(t) OBVIOUS
<1> QED BY <1>1, <1>2, <1>3, <1>4, <1>5, <1>6, ThreadKept

\* The objects of the producers.
LEMMA ItemFacts ==
    ASSUME ProgramsInv, NEW t \in Producers, More(t)
    PROVE  <<t[2], number[t]>> \in Items
<1>1. program \in Candidates /\ t \in Threads /\ number[t] \in Nat /\ round \in Nat \ {0} BY Parts, ProgramFacts
<1>2. t[2] \in 1 .. program.producers BY <1>1, ThreadFacts
<1>3. program.target \in Nat BY <1>1, ProgramFacts
<1>4. PerProducer <= program.target /\ PerProducer \in Int
  <2>1. PICK n \in Nat : n = program.target BY <1>3
  <2>2. PICK r \in Nat \ {0} : r = round BY <1>1
  <2>3. n \div r <= n /\ n \div r \in Int
    <3>1. n \div r \in Int /\ n = r * (n \div r) + (n % r) /\ n % r \in 0 .. r - 1 OBVIOUS
    <3> DEFINE d == n \div r
    <3>2. d \in Int /\ n >= r * d /\ r * d \in Int BY <3>1
    <3> HIDE DEF d
    <3>3. CASE d <= 0 BY <3>2, <3>3
    <3>4. CASE d > 0
      <4>1. (r - 1) * d >= 0 BY <3>2, <3>4
      <4>2. (r - 1) * d = r * d - d BY <3>2
      <4> QED BY <3>2, <4>1, <4>2
    <3>5. d <= n /\ d \in Int BY <3>2, <3>3, <3>4
    <3> QED BY <3>5 DEF d
  <2> QED BY <2>1, <2>2, <2>3 DEF PerProducer
<1>5. number[t] \in 0 .. program.target - 1 BY <1>1, <1>3, <1>4 DEF More
<1> QED BY <1>1, <1>2, <1>5, ItemsAssumption

\* A producer fills its message,
LEMMA FillKept == ASSUME ProgramsInv, NEW t \in Threads \ {Main}, Fill(t) PROVE Kept
<1>1. /\ place[t] = "loop" /\ More(t) /\ place' = [place EXCEPT ![t] = "publish"]
      /\ Emplace(OutMessage(t), <<t[2], number[t]>>)
      /\ UNCHANGED <<program, expected, solo, taken, written, ready, go, round, search, consumed>>
      /\ number' = [number EXCEPT ![t] = number[t] + 1]
  BY DEF Fill, At, Goto, Local, queueVars, barrier
<1>2. t \notin Copiers /\ t \in Producers BY <1>1, Parts DEF CopierPlaces, Threads
<1>3. Touching({OutMessage(t)}) /\ Holding BY <1>1, <1>2, ItemFacts, EmplaceEffect, Parts, MessageFacts
<1>4. number[t] + 1 \in Nat /\ QueuesType' BY <1>1, SameQueues, Parts
<1>5. place[t] \notin Outside /\ "publish" \in ProducerPlaces /\ "publish" \notin {"off", "start", "construct", "failed"}
  BY <1>1 DEF Outside, ProducerPlaces
<1>6. {OutMessage(t)} \subseteq EntryMessages \cup Mine(t) BY MessageFacts, Parts
<1> QED BY <1>1, <1>2, <1>3, <1>4, <1>5, <1>6, ThreadKept

\* ... or adds to it.
LEMMA AddKept == ASSUME ProgramsInv, NEW t \in Threads \ {Main}, Add(t) PROVE Kept
<1>1. /\ place[t] = "loop" /\ More(t) /\ place' = place
      /\ AppendTo(OutMessage(t), <<<<t[2], number[t]>>>>)
      /\ UNCHANGED <<program, expected, solo, taken, written, ready, go, round, search, consumed>>
      /\ number' = [number EXCEPT ![t] = number[t] + 1]
  BY DEF Add, At, Goto, Local, queueVars, barrier
<1>2. t \notin Copiers /\ t \in Producers BY <1>1, Parts DEF CopierPlaces, Threads
<1>3. Touching({OutMessage(t)}) /\ Holding
  <2>1. <<t[2], number[t]>> \in Items BY <1>1, <1>2, ItemFacts
  <2>2. <<<<t[2], number[t]>>>> \in Bundles /\ <<<<t[2], number[t]>>>> \in Seq(Items) BY <2>1 DEF Bundles
  <2>3. Operation(OutMessage(t)) BY <1>1, <2>2 DEF Operation
  <2> QED BY <1>1, <2>2, <2>3, AppendEffect, Parts, MessageFacts
<1>4. number[t] + 1 \in Nat /\ QueuesType' BY <1>1, SameQueues, Parts
<1>5. place[t] \notin Outside /\ "loop" \in ProducerPlaces /\ "loop" \notin {"off", "start", "construct", "failed"}
      /\ place' = [place EXCEPT ![t] = "loop"]
  BY <1>1, SamePlace DEF Outside, ProducerPlaces
<1>6. {OutMessage(t)} \subseteq EntryMessages \cup Mine(t) BY MessageFacts, Parts
<1> QED BY <1>1, <1>2, <1>3, <1>4, <1>5, <1>6, ThreadKept

\* A thread publishes and goes on.
LEMMA PublishKept ==
    ASSUME ProgramsInv, NEW t \in Threads \ {Main}, NEW m \in Mine(t), NEW where,
           place[t] \notin Outside, where \notin {"off", "start", "construct", "failed"},
           t \in Producers => where \in ProducerPlaces,
           t \in Copiers => /\ where \in CopierPlaces /\ where # "copy"
                            /\ program.copyType = "BinaryCopy" => m = OutMessage(t),
           Publish(t, m, where)
    PROVE  Kept
<1>1. place[Main] # "create" /\ Has(m) BY MainIsReady, Has_Running DEF Outside
<1>2. /\ QueuesType' /\ Holding /\ messages'[m].used = 0
      /\ \E e \in EntryMessages : Touching({m, e})
      /\ place' = [place EXCEPT ![t] = where]
      /\ UNCHANGED <<program, number, expected, solo, ready, go, round, search, consumed>>
  BY <1>1, PublishEffect DEF barrier
<1>3. PICK e \in EntryMessages : Touching({m, e}) BY <1>2
<1>4. {m, e} \subseteq EntryMessages \cup Mine(t) OBVIOUS
<1>5. number[t] \in Nat /\ number' = [number EXCEPT ![t] = number[t]] BY <1>2, SameNumber
<1>6. t \in Copiers => CopyFits(t)'
  <2>1. place'[t] = where BY <1>2, Parts
  <2> QED BY <1>2, <2>1 DEF CopyFits, OutMessage
<1> QED BY <1>2, <1>3, <1>4, <1>5, <1>6, ThreadKept

LEMMA PublishesKept ==
    ASSUME ProgramsInv, NEW t \in Threads \ {Main}, PublishBatch(t) \/ PublishNext(t) \/ PublishLast(t)
    PROVE  Kept
<1>1. place[t] \in {"loop", "publish", "last"} BY DEF PublishBatch, PublishNext, PublishLast, At
<1>2. t \notin Copiers /\ t \in Producers BY <1>1, Parts DEF CopierPlaces, Threads
<1>3. OutMessage(t) \in Mine(t) /\ place[t] \notin Outside BY <1>1 DEF Mine, Outside
<1>4. Publish(t, OutMessage(t), "loop") \/ Publish(t, OutMessage(t), "leave")
  BY DEF PublishBatch, PublishNext, PublishLast
<1> QED BY <1>2, <1>3, <1>4, PublishKept DEF ProducerPlaces

LEMMA PassKept == ASSUME ProgramsInv, NEW t \in Threads \ {Main}, Pass(t) PROVE Kept
<1>1. place[t] = "pass" BY DEF Pass, At
<1>2. t \in Copiers /\ t \notin Producers BY <1>1, Parts DEF ProducerPlaces, Threads
<1>3. /\ Published(t) \in Mine(t) /\ place[t] \notin Outside
      /\ program.copyType = "BinaryCopy" => Published(t) = OutMessage(t)
  BY <1>1 DEF Mine, Outside, Published
<1>4. Publish(t, Published(t), "leave") \/ Publish(t, Published(t), "get") BY DEF Pass
<1> QED BY <1>2, <1>3, <1>4, PublishKept DEF CopierPlaces

\* A thread has published all.
LEMMA EndOfMessagesKept == ASSUME ProgramsInv, NEW t \in Threads \ {Main}, EndOfMessages(t) PROVE Kept
<1>1. /\ place[t] = "loop"
      /\ UNCHANGED <<program, expected, solo, taken, written, ready, go, round, search, consumed>>
      /\ number' = number
      /\ \/ SetUsed(OutMessage(t), 0) /\ place' = [place EXCEPT ![t] = "last"]
         \/ UNCHANGED messageVars /\ place' = [place EXCEPT ![t] = "leave"]
  BY DEF EndOfMessages, At, Goto, Local, queueVars, barrier
<1>2. t \notin Copiers /\ t \in Producers BY <1>1, Parts DEF CopierPlaces, Threads
<1>3. number[t] \in Nat /\ number' = [number EXCEPT ![t] = number[t]] /\ QueuesType'
  BY <1>1, SameNumber, SameQueues
<1>4. PICK where \in {"last", "leave"} :
          /\ place' = [place EXCEPT ![t] = where]
          /\ SetUsed(OutMessage(t), 0) \/ UNCHANGED messageVars
  BY <1>1
<1>5. place[t] \notin Outside /\ where \in ProducerPlaces /\ where \notin {"off", "start", "construct", "failed"}
  BY <1>1 DEF Outside, ProducerPlaces
<1>6. {OutMessage(t)} \subseteq EntryMessages \cup Mine(t) /\ {} \subseteq EntryMessages \cup Mine(t)
  BY MessageFacts, Parts
<1>7. Holding /\ (Touching({OutMessage(t)}) \/ Touching({}))
  BY <1>4, SetUsedEffect, NoEffect, Parts, MessageFacts
<1> QED BY <1>1, <1>2, <1>3, <1>4, <1>5, <1>6, <1>7, ThreadKept

\* getNext()
LEMMA CopyGetKept == ASSUME ProgramsInv, NEW t \in Threads \ {Main}, CopyGet(t) PROVE Kept
<1> DEFINE where == IF program.copyType = "PassThru" THEN "pass" ELSE "copy"
           n == messages[Entry(InQueue(t), FirstIn(InQueue(t)))].used
<1>1. /\ place[t] = "get" /\ place' = [place EXCEPT ![t] = where]
      /\ Get(InQueue(t), InMessage(t))
      /\ number' = [number EXCEPT ![t] = n]
      /\ UNCHANGED <<program, expected, solo, written, ready, go, round, search, consumed>>
  BY DEF CopyGet, At, Goto, barrier
<1>2. t \in Copiers /\ t \notin Producers BY <1>1, Parts DEF ProducerPlaces, Threads
<1>3. place[t] \notin Outside BY <1>1 DEF Outside
<1>4. place[Main] # "create" /\ Has(InMessage(t)) /\ InMessage(t) \in Mine(t)
  BY <1>3, MainIsReady, Has_Running, Parts, MessageFacts DEF Outside
<1>5. InQueue(t) \in Queues BY <1>2, Parts, ThreadFacts
<1>6. /\ QueuesType' /\ Holding /\ messages'[InMessage(t)].used = n /\ n \in Nat
      /\ \E e \in EntryMessages : Touching({InMessage(t), e})
  <2> HIDE DEF where
  <2> QED BY <1>1, <1>4, <1>5, GetEffect
<1>7. PICK e \in EntryMessages : Touching({InMessage(t), e}) BY <1>6
<1>8. {InMessage(t), e} \subseteq EntryMessages \cup Mine(t) BY <1>4
<1>9. CopyFits(t)'
  <2>1. place'[t] = where /\ number'[t] = n BY <1>1, Parts
  <2>2. OutMessage(t) \in Names \ {InMessage(t), e} BY <1>2, Parts, MessageFacts, NotEntries
  <2>3. messages'[OutMessage(t)] = messages[OutMessage(t)] BY <1>7, <2>2 DEF Touching
  <2>4. program.copyType = "BinaryCopy" => messages[OutMessage(t)].used = 0
    BY <1>1, <1>2 DEF ProgramsInv, CopiesFit, CopyFits
  <2>5. OutMessage(t)' = OutMessage(t) /\ InMessage(t)' = InMessage(t) /\ program' = program BY <1>1, Fixed DEF OutMessage
  <2> HIDE DEF where, n
  <2> QED BY <1>6, <2>1, <2>3, <2>4, <2>5 DEF CopyFits
<1>10. /\ where \notin {"off", "start", "construct", "failed"} /\ where \in CopierPlaces
       /\ where = "copy" => program.copyType # "PassThru"
  BY DEF CopierPlaces
<1> HIDE DEF where, n
<1> QED BY <1>1, <1>2, <1>3, <1>6, <1>7, <1>8, <1>9, <1>10, ThreadKept

\* The copy fits: what has come in is no larger than a block, and the copy is empty.
LEMMA CopyNeverThrows ==
    ASSUME ProgramsInv, NEW t \in Copiers, place[t] = "copy"
    PROVE  ~CopyThrows(t)
<1>1. t \in Threads \ {Main} /\ OutMessage(t) \in Names /\ InMessage(t) \in Names /\ OutMessage(t) \in Mine(t)
  BY Parts, ThreadFacts, MessageFacts
<1>2. Has(OutMessage(t)) BY <1>1, Has_Running DEF Outside
<1>3. messages[InMessage(t)].used \in 0 .. Capacity BY <1>1, Parts, Fields
<1>4. number[t] = messages[InMessage(t)].used
      /\ (program.copyType = "BinaryCopy" => messages[OutMessage(t)].used = 0)
  BY DEF ProgramsInv, CopiesFit, CopyFits
<1> QED BY <1>2, <1>3, <1>4, CapacityAssumption DEF CopyThrows, Fits, CapacityOf

LEMMA CopyKept == ASSUME ProgramsInv, NEW t \in Threads \ {Main}, Copy(t) PROVE Kept
<1>1. place[t] = "copy" BY DEF Copy, At
<1>2. t \in Copiers /\ t \notin Producers BY <1>1, Parts DEF ProducerPlaces, Threads
<1>3. ~CopyThrows(t) BY <1>1, <1>2, CopyNeverThrows
<1>4. /\ place' = [place EXCEPT ![t] = "pass"] /\ number' = number
      /\ UNCHANGED <<program, expected, solo, taken, written, ready, go, round, search, consumed>>
      /\ \/ BufferSwap(t) \/ BinaryCopy(t) \/ CopyConstruct(t)
  <2>1. /\ Goto(t, "pass") /\ Local /\ number' = number
        /\ CASE program.copyType = "BufferSwap" -> BufferSwap(t)
             [] program.copyType = "BinaryCopy" -> BinaryCopy(t)
             [] program.copyType = "CopyConstruct" -> CopyConstruct(t)
    BY <1>3 DEF Copy
  <2>2. program.copyType \in {"BufferSwap", "BinaryCopy", "CopyConstruct"}
    <3>1. program.copyType # "PassThru" BY <1>1, <1>2 DEF ProgramsInv, ProgramsType, Placed
    <3> QED BY <3>1, Parts, ProgramFacts DEF CopyTypes
  <2> QED BY <2>1, <2>2 DEF Goto, Local, queueVars, barrier
<1>5. /\ OutMessage(t) \in Names /\ InMessage(t) \in Names /\ InMessage(t) # OutMessage(t) /\ MessagesInv
      /\ OutMessage(t) \in Mine(t) /\ InMessage(t) \in Mine(t)
  BY <1>2, Parts, MessageFacts
<1>6. Has(OutMessage(t)) /\ Has(InMessage(t)) BY <1>1, <1>5, Has_Running DEF Outside
<1>7. \E S \in SUBSET Mine(t) : Touching(S) /\ Holding
  <2>1. CASE BufferSwap(t)
    <3>1. Touching({InMessage(t), OutMessage(t)}) /\ Holding BY <1>5, <1>6, <2>1, MoveEffect DEF BufferSwap
    <3> QED BY <1>5, <3>1
  <2>2. CASE BinaryCopy(t)
    <3>1. AppendTo(OutMessage(t), Contents(InMessage(t))) /\ AppendCopyOf(OutMessage(t), InMessage(t))
      BY <2>2 DEF BinaryCopy, AppendCopyOf
    <3>2. Operation(OutMessage(t)) BY <1>5, <3>1 DEF Operation
    <3>3. Contents(InMessage(t)) \in Seq(Items) BY <1>5, ContentsType
    <3>4. Touching({OutMessage(t)}) /\ Holding BY <1>5, <3>1, <3>2, <3>3, AppendEffect
    <3> QED BY <1>5, <3>4
  <2>3. CASE CopyConstruct(t)
    <3>1. CASE number[t] = 0
      <4>1. SetUsed(OutMessage(t), 0) BY <2>3, <3>1 DEF CopyConstruct
      <4>2. Touching({OutMessage(t)}) /\ Holding BY <1>5, <4>1, SetUsedEffect
      <4> QED BY <1>5, <4>2
    <3>2. CASE number[t] # 0
      <4>1. Emplace(OutMessage(t), Contents(InMessage(t))[1]) BY <2>3, <3>2 DEF CopyConstruct
      <4>2. number[t] = messages[InMessage(t)].used BY <1>1, <1>2 DEF ProgramsInv, CopiesFit, CopyFits
      <4>3. messages[InMessage(t)].used \in 0 .. Capacity BY <1>5, Fields
      <4>4. Contents(InMessage(t)) \in Seq(Items) /\ Len(Contents(InMessage(t))) = messages[InMessage(t)].used
        BY <1>5, ContentsType
      <4>5. Contents(InMessage(t))[1] \in Items
        <5> DEFINE c == Contents(InMessage(t))
        <5>1. c \in Seq(Items) /\ Len(c) # 0 BY <3>2, <4>2, <4>4
        <5> HIDE DEF c
        <5>2. 1 \in 1 .. Len(c) BY <5>1, LenProperties
        <5>3. c[1] \in Items BY <5>1, <5>2, ElementOfSeq
        <5> QED BY <5>3 DEF c
      <4>6. Touching({OutMessage(t)}) /\ Holding BY <1>5, <4>1, <4>5, EmplaceEffect
      <4> QED BY <1>5, <4>6
    <3> QED BY <3>1, <3>2
  <2> QED BY <1>4, <2>1, <2>2, <2>3
<1>8. PICK S \in SUBSET Mine(t) : Touching(S) /\ Holding BY <1>7
<1>9. number[t] \in Nat /\ number' = [number EXCEPT ![t] = number[t]] /\ QueuesType'
  BY <1>4, SameNumber, SameQueues
<1>10. CopyFits(t)'
  <2>1. place'[t] = "pass" BY <1>4, Parts
  <2> QED BY <2>1 DEF CopyFits
<1>11. place[t] \notin Outside /\ "pass" \in CopierPlaces /\ "pass" \notin {"off", "start", "construct", "failed"}
       /\ "pass" # "copy"
  BY <1>1 DEF Outside, CopierPlaces
<1>12. S \subseteq EntryMessages \cup Mine(t) BY <1>8
<1> QED BY <1>2, <1>4, <1>8, <1>9, <1>10, <1>11, <1>12, ThreadKept

\* Whoever constructs or destructs a message: the other messages keep their blocks.
LEMMA KeepsOthers ==
    ASSUME ProgramsInv, program' = program, NEW t \in Threads \ {Main}, NEW where, NEW m \in Mine(t),
           \A x \in Names \ {m} : Has(x)' = Has(x),
           place' = [place EXCEPT ![t] = where],
           where \notin Outside => \A x \in Mine(t) : Has(x)'
    PROVE  Held' /\ Supplied'
<1>1. place \in [Threads -> Places] /\ program \in Candidates /\ Main \in Threads BY Parts
<1>2. place'[t] = where /\ \A u \in Threads : u # t => place'[u] = place[u] BY <1>1
<1>3. Mine(t) \subseteq InUse BY <1>1, MessageFacts
<1>4. Held' BY <1>3, Fixed DEF ProgramsInv, Held
<1>5. ASSUME place'[Main] # "create", NEW x \in EntryMessages \cup Mine(Main) PROVE Has(x)'
  <2>1. place[Main] # "create" BY <1>1, <1>2, <1>5
  <2>2. Has(x) BY <2>1, <1>5 DEF ProgramsInv, Supplied
  <2>3. x \in Names /\ x # m BY <1>1, EntryNames, MessageFacts, Apart
  <2> QED BY <2>2, <2>3
<1>6. ASSUME NEW u \in Threads \ {Main}, place'[u] \notin Outside, NEW x \in Mine(u) PROVE Has(x)'
  <2>1. CASE u = t BY <1>2, <1>6, <2>1
  <2>2. CASE u # t
    <3>1. Has(x) BY <1>2, <1>6, <2>2 DEF ProgramsInv, Supplied, Outside
    <3>2. x \in Names /\ x # m BY <1>1, <2>2, MessageFacts, Apart
    <3> QED BY <3>1, <3>2
  <2> QED BY <2>1, <2>2
<1> QED BY <1>4, <1>5, <1>6, Fixed DEF Supplied, Outside

LEMMA ConstructKept == ASSUME ProgramsInv, NEW t \in Threads \ {Main}, ConstructMessages(t) PROVE Kept
<1>1. /\ place[t] = "construct" /\ number' = number
      /\ UNCHANGED <<program, expected, solo, taken, written, go, round, search, consumed>>
  BY DEF ConstructMessages, At, queueVars
<1>2. /\ program \in Candidates /\ MessagesInv /\ number \in [Threads -> Nat] /\ ready \in Nat /\ Main \in Threads
      /\ place \in [Threads -> Places]
  BY Parts
<1>3. number' \in [Threads -> Nat] /\ number'[Main] = number[Main] /\ QueuesType' BY <1>1, <1>2, SameQueues
<1>4. ~Is({"user"}) BY <1>1, MainIsReady
<1>5. /\ OutMessage(t) \in Mine(t) /\ InMessage(t) \in Mine(t) /\ Mine(t) \subseteq Names /\ Mine(t) \subseteq InUse
  BY <1>2, MessageFacts
<1>6. "construct" \in ProducerPlaces /\ "construct" \in CopierPlaces /\ "construct" \in Outside
      /\ "spin" \in ProducerPlaces /\ "get" \in CopierPlaces
  BY DEF ProducerPlaces, CopierPlaces, Outside
<1>7. ASSUME NEW m \in Mine(t), Construct(m, t, "construct"), ready' = ready PROVE Kept
  <2>1. /\ Touching({m}) /\ Has(m)' /\ messages'[m].used = 0
        /\ \A x \in Names \ {m} : Has(x)' = Has(x)
        /\ place' = [place EXCEPT ![t] = "construct"]
    BY <1>4, <1>5, <1>7, ConstructEffect
  <2>2. ProgramsType' /\ Starting' /\ Rounds' /\ NobodyFailed'
    <3>1. ready' \in Nat /\ MessagesInv' BY <1>2, <1>7, <2>1 DEF Touching
    <3> QED BY <1>1, <1>3, <1>6, <2>1, <3>1, ThreadMoves
  <2>3. Held' /\ Supplied' BY <1>1, <1>6, <2>1, KeepsOthers
  <2>4. t \in Copiers => CopyFits(t)'
    <3> SUFFICES ASSUME t \in Copiers PROVE CopyFits(t)' OBVIOUS
    <3>1. place'[t] = "construct" BY <1>2, <2>1
    <3>2. messages'[OutMessage(t)].used = messages[OutMessage(t)].used \/ messages'[OutMessage(t)].used = 0
      BY <1>5, <2>1 DEF Touching
    <3>3. program.copyType = "BinaryCopy" => messages[OutMessage(t)].used = 0
      BY <1>1 DEF ProgramsInv, CopiesFit, CopyFits
    <3>4. OutMessage(t)' = OutMessage(t) BY DEF OutMessage
    <3> QED BY <1>1, <3>1, <3>2, <3>3, <3>4 DEF CopyFits
  <2>5. CopiesFit'
    <3>1. \A u \in Copiers \ {t} : place'[u] = place[u] /\ number'[u] = number[u]
      BY <1>1, <1>2, <2>1, Parts
    <3>2. {m} \subseteq EntryMessages \cup Mine(t) OBVIOUS
    <3> QED BY <1>1, <2>1, <2>4, <3>1, <3>2, KeepsFitting
  <2> QED BY <2>1, <2>2, <2>3, <2>5 DEF Kept, Touching, ProgramsInv
<1>8. ASSUME Has(InMessage(t)), Has(OutMessage(t)), ready' = ready + 1,
             place' = [place EXCEPT ![t] = IF t \in Producers THEN "spin" ELSE "get"], UNCHANGED messageVars
      PROVE  Kept
  <2> DEFINE where == IF t \in Producers THEN "spin" ELSE "get"
  <2>1. Touching({}) /\ Holding BY <1>2, <1>8, NoEffect
  <2>2. where \in {"spin", "get"} /\ (t \in Producers => where \in ProducerPlaces)
        /\ (t \in Copiers => where \in CopierPlaces)
    BY <1>2, <1>6, ThreadFacts
  <2>3. place' = [place EXCEPT ![t] = where] BY <1>8
  <2> HIDE DEF where
  <2>4. ProgramsType' /\ Starting' /\ Rounds' /\ NobodyFailed'
    <3>1. ready' \in Nat /\ MessagesInv' BY <1>2, <1>8, <2>1 DEF Touching
    <3> QED BY <1>1, <1>3, <2>2, <2>3, <3>1, ThreadMoves
  <2>5. Held' /\ Supplied'
    <3>1. \A x \in Mine(t) : Has(x)' BY <1>5, <1>8, <2>1 DEF Holding, Mine
    <3>2. \A x \in Names \ {OutMessage(t)} : Has(x)' = Has(x) BY <2>1 DEF Holding
    <3> QED BY <1>1, <1>5, <2>3, <3>1, <3>2, KeepsOthers
  <2>6. CopiesFit'
    <3>1. \A u \in Copiers \ {t} : place'[u] = place[u] /\ number'[u] = number[u]
      BY <1>1, <1>2, <2>3, Parts
    <3>2. t \in Copiers => CopyFits(t)'
      <4> SUFFICES ASSUME t \in Copiers PROVE CopyFits(t)' OBVIOUS
      <4>1. place'[t] \in {"spin", "get"} BY <1>2, <2>2, <2>3
      <4>2. messages' = messages /\ OutMessage(t)' = OutMessage(t) BY <1>8 DEF messageVars, OutMessage
      <4>3. program.copyType = "BinaryCopy" => messages[OutMessage(t)].used = 0
        BY <1>1 DEF ProgramsInv, CopiesFit, CopyFits
      <4> QED BY <1>1, <4>1, <4>2, <4>3 DEF CopyFits
    <3> QED BY <1>1, <2>1, <3>1, <3>2, KeepsFitting
  <2> QED BY <2>1, <2>4, <2>5, <2>6 DEF Kept, Touching, ProgramsInv
<1>9. \/ \E m \in Mine(t) : Construct(m, t, "construct") /\ ready' = ready
      \/ /\ Has(InMessage(t)) /\ Has(OutMessage(t)) /\ ready' = ready + 1
         /\ place' = [place EXCEPT ![t] = IF t \in Producers THEN "spin" ELSE "get"] /\ UNCHANGED messageVars
  BY <1>5 DEF ConstructMessages, Goto
<1> QED BY <1>7, <1>8, <1>9

\* Leaving a function destructs its messages.
LEMMA DestructKept == ASSUME ProgramsInv, NEW t \in Threads \ {Main}, Destruct(t) PROVE Kept
<1>1. /\ place[t] = "leave" /\ number' = number
      /\ UNCHANGED <<program, expected, solo, taken, written, ready, go, round, search, consumed>>
  BY DEF Destruct, At, Local, queueVars, barrier
<1>2. /\ program \in Candidates /\ MessagesInv /\ number \in [Threads -> Nat] /\ ready \in Nat /\ Main \in Threads
      /\ place \in [Threads -> Places]
  BY Parts
<1>3. number' \in [Threads -> Nat] /\ number'[Main] = number[Main] /\ QueuesType' BY <1>1, <1>2, SameQueues
<1>4. OutMessage(t) \in Mine(t) /\ InMessage(t) \in Mine(t) /\ Mine(t) \subseteq Names BY <1>2, MessageFacts
<1>5. \E m \in Mine(t), where \in {"leave", "ended"} :
         /\ place' = [place EXCEPT ![t] = where]
         /\ Release(m) \/ UNCHANGED messageVars
  <2>1. \/ \E m \in Mine(t) : Release(m) /\ place' = place
        \/ UNCHANGED messageVars /\ place' = [place EXCEPT ![t] = "ended"]
    BY <1>4 DEF Destruct, Goto
  <2>2. place' = place => place' = [place EXCEPT ![t] = "leave"] BY <1>1, SamePlace
  <2> QED BY <1>4, <2>1, <2>2
<1>6. PICK m \in Mine(t), where \in {"leave", "ended"} :
         /\ place' = [place EXCEPT ![t] = where]
         /\ Release(m) \/ UNCHANGED messageVars
  BY <1>5
<1>7. Touching({m}) /\ \A x \in Names \ {m} : Has(x)' = Has(x)
  <2>1. CASE Release(m) BY <1>2, <1>4, <2>1, ReleaseEffect
  <2>2. CASE UNCHANGED messageVars BY <1>2, <2>2, NoEffect DEF Touching, Holding
  <2> QED BY <1>6, <2>1, <2>2
<1>8. ProgramsType' /\ Starting' /\ Rounds' /\ NobodyFailed'
  <2>1. ready' \in Nat /\ MessagesInv' BY <1>1, <1>2, <1>7 DEF Touching
  <2>2. where \in ProducerPlaces /\ where \in CopierPlaces /\ where \notin {"off", "start", "failed"} /\ where # "copy"
    BY DEF ProducerPlaces, CopierPlaces
  <2>3. place[t] \notin {"off", "start", "ended"} BY <1>1
  <2> QED BY <1>1, <1>3, <1>6, <2>1, <2>2, <2>3, ThreadMoves
<1>9. Held' /\ Supplied' BY <1>1, <1>6, <1>7, KeepsOthers DEF Outside
<1>10. CopiesFit'
  <2>1. \A u \in Copiers \ {t} : place'[u] = place[u] /\ number'[u] = number[u]
    BY <1>1, <1>2, <1>6, Parts
  <2>2. CopyFits(t)'
    <3>1. place'[t] \in {"leave", "ended"} BY <1>2, <1>6
    <3> QED BY <3>1 DEF CopyFits
  <2>3. {m} \subseteq EntryMessages \cup Mine(t) OBVIOUS
  <2> QED BY <1>1, <1>7, <2>1, <2>2, <2>3, KeepsFitting
<1> QED BY <1>7, <1>8, <1>9, <1>10 DEF Kept, Touching, ProgramsInv

\* WillProduce() counts.
LEMMA WillProduceQueues ==
    ASSUME ProgramsInv, NEW q \in Queues, WillProduce(q) \/ expected' = expected,
           UNCHANGED <<program, taken, written>>
    PROVE  QueuesType' /\ (WillProduce(q) => expected'[q] = expected[q] + 1)
<1>1. QueuesType BY Parts
<1>2. expected' \in [Queues -> Nat] BY <1>1 DEF QueuesType, WillProduce
<1>3. WillProduce(q) => expected'[q] = expected[q] + 1 BY <1>1 DEF QueuesType, WillProduce
<1> QED BY <1>1, <1>2, <1>3, Fixed DEF QueuesType

\* A thread starts: the first producer of a queue may be alone, and no other.
LEMMA StartKept == ASSUME ProgramsInv, NEW t \in Threads \ {Main}, StartThread(t) PROVE Kept
<1>1. /\ place[t] = "start" /\ number' = number /\ place' = [place EXCEPT ![t] = "construct"]
      /\ UNCHANGED <<program, taken, written, ready, go, round, search, consumed>> /\ UNCHANGED messageVars
      /\ Is(Copying) => WillProduce(OutQueue(t))
      /\ ~Is(Copying) => /\ expected' = expected
                         /\ solo' = IF CanSolo(OutQueue(t)) THEN solo \cup {t} ELSE solo \ {t}
      /\ solo' \in {solo \cup {t}, solo \ {t}}
  BY DEF StartThread, ConstructProducer, At, Goto, barrier
<1>2. /\ program \in Candidates /\ MessagesInv /\ number \in [Threads -> Nat] /\ ready \in Nat /\ Main \in Threads
      /\ place \in [Threads -> Places] /\ solo \subseteq Threads /\ round \in Nat \ {0}
      /\ Producers \subseteq Threads /\ Copiers \subseteq Threads
  BY Parts, ProgramFacts
<1>3. Touching({}) /\ Holding BY <1>1, <1>2, NoEffect
<1>4. QueuesType'
  <2>1. OutQueue(t) \in Queues BY <1>2, ThreadFacts
  <2> QED BY <1>1, <2>1, WillProduceQueues
<1>5. /\ place' \in [Threads -> Places] /\ place'[t] = "construct"
      /\ \A u \in Threads : u # t => place'[u] = place[u]
      /\ place'[Main] = place[Main]
  BY <1>1, <1>2 DEF Places
<1>6. Placed' BY <1>1, <1>2, <1>5, Fixed
  DEF ProgramsInv, ProgramsType, Placed, ProducerPlaces, CopierPlaces
<1>7. Filling' BY <1>1, <1>5, Fixed DEF ProgramsInv, ProgramsType, Filling
<1>8. ProgramsType' BY <1>1, <1>2, <1>3, <1>4, <1>6, <1>7, Fixed DEF ProgramsInv, ProgramsType, Touching
<1>9. NobodyFailed' BY <1>1, <1>5, Fixed DEF ProgramsInv, NobodyFailed
<1>10. Starting' BY <1>1, <1>2, <1>5, Fixed DEF ProgramsInv, Starting
<1>11. Rounds'
  <2>1. \A u \in Producers : (u[2] > round => place'[u] = "off") /\ (place'[u] = "off" => u \notin solo')
    BY <1>1, <1>2, <1>5 DEF ProgramsInv, Rounds
  <2>2. place'[Main] \in {"create", "round", "done"} => \A u \in Producers : place'[u] \in {"off", "ended"}
    BY <1>1, <1>2, <1>5 DEF ProgramsInv, Rounds
  <2>3. ASSUME Is({"rounds"})
        PROVE  /\ expected'[1] = (IF place'[Main] \in {"create", "round"} THEN round - 1 ELSE round)
               /\ round > 1 => \A u \in Producers \cap solo' : place'[u] \in {"start", "ended"}
    <3>1. ~Is(Copying) BY <2>3 DEF Is, Copying
    <3>2. t \in Producers /\ OutQueue(t) = 1
      <4>1. t \notin Copiers BY <1>2, <3>1, ThreadFacts
      <4>2. t \in Producers /\ t[1] = "producer" BY <4>1, <1>2, ThreadFacts
      <4> QED BY <2>3, <4>2 DEF OutQueue, Is
    <3>3. place[Main] \notin {"create", "round"} BY <1>1, <3>2 DEF ProgramsInv, Rounds
    <3>4. expected[1] = round BY <2>3, <3>3 DEF ProgramsInv, Rounds
    <3>5. round > 1 => solo' = solo \ {t} BY <1>1, <3>1, <3>2, <3>4, <1>2 DEF CanSolo
    <3>6. round > 1 => \A u \in Producers \cap solo : place[u] \in {"start", "ended"} BY <2>3 DEF ProgramsInv, Rounds
    <3> QED BY <1>1, <1>2, <1>5, <3>1, <3>3, <3>4, <3>5, <3>6
  <2> QED BY <1>1, <2>1, <2>2, <2>3, Fixed DEF Rounds
<1>12. Held' /\ Supplied'
  <2>1. "construct" \in Outside /\ t \in Threads /\ t # Main BY DEF Outside
  <2> QED BY <1>1, <1>3, <2>1, KeepsHolding
<1>13. CopiesFit'
  <2>1. \A u \in Copiers \ {t} : place'[u] = place[u] /\ number'[u] = number[u] BY <1>1, <1>2, <1>5
  <2>2. t \in Copiers => CopyFits(t)'
    <3> SUFFICES ASSUME t \in Copiers PROVE CopyFits(t)' OBVIOUS
    <3>1. program.copyType = "BinaryCopy" => messages[OutMessage(t)].used = 0
      BY <1>1 DEF ProgramsInv, CopiesFit, CopyFits
    <3>2. messages' = messages /\ OutMessage(t)' = OutMessage(t) BY <1>1 DEF messageVars, OutMessage
    <3> QED BY <1>1, <1>5, <3>1, <3>2 DEF CopyFits
  <2>3. {} \subseteq EntryMessages \cup Mine(t) OBVIOUS
  <2> QED BY <1>1, <1>3, <2>1, <2>2, <2>3, KeepsFitting
<1> QED BY <1>3, <1>8, <1>9, <1>10, <1>11, <1>12, <1>13 DEF Kept, Touching, ProgramsInv

\* Every step of a thread but main.
LEMMA ThreadStepKept == ASSUME ProgramsInv, NEW t \in Threads \ {Main}, ThreadStep(t) PROVE Kept
BY StartKept, ConstructKept, GoKept, DestructKept, FillKept, AddKept, PublishesKept, EndOfMessagesKept, CopyGetKept,
   CopyKept, PassKept DEF ThreadStep
-----------------------------------------------------------------------------
(* The main thread's steps *)

\* Main's step keeps everybody's blocks: what remains is his place.
LEMMA MainKept ==
    ASSUME ProgramsInv, NEW where \in MainPlaces \ {"failed", "create"}, NEW S,
           place' = [place EXCEPT ![Main] = where],
           place[Main] # "create",
           where = "done" => \A u \in Producers : place[u] \in {"off", "ended"},
           where = "round" => Is({"separately"}) /\ \A u \in Producers : place[u] \in {"off", "ended"},
           place[Main] = "round" => Is(MainOnly),
           UNCHANGED <<program, round>>, Is({"rounds"}) => expected' = expected,
           \A u \in Producers : u \in solo' <=> u \in solo,
           where \in {"fill", "put", "take"} => Is(MainOnly) /\ number'[Main] <= program.target,
           solo' \subseteq Threads, ready' \in Nat, go' \in BOOLEAN, search' \in Queues, consumed' \in Seq(Items),
           number' \in [Threads -> Nat], \A u \in Copiers : number'[u] = number[u], QueuesType',
           Touching(S), S \subseteq EntryMessages \cup Mine(Main), Holding
    PROVE  Kept
<1>1. place \in [Threads -> Places] /\ program \in Candidates /\ Main \in Threads /\ Copiers \subseteq Threads BY Parts
<1>2. ~Is({"user"}) BY DEF ProgramsInv, Starting
<1>3. MessagesInv' BY DEF Touching
<1>4. ProgramsType' /\ Starting' /\ Rounds' /\ NobodyFailed' BY <1>2, <1>3, MainMoves
<1>5. Held' /\ Supplied' BY <1>1, KeepsHolding
<1>6. Main \notin Copiers BY <1>1, ThreadFacts
<1>7. \A u \in Copiers \ {Main} : place'[u] = place[u] /\ number'[u] = number[u] BY <1>1
<1>8. CopiesFit' BY <1>1, <1>6, <1>7, KeepsFitting
<1> QED BY <1>4, <1>5, <1>8 DEF Kept, Touching, ProgramsInv

\* ... while it does nothing with messages or queues.
LEMMA MainGoes ==
    ASSUME ProgramsInv, NEW where \in MainPlaces \ {"failed", "create"}, NEW n \in Nat,
           place' = [place EXCEPT ![Main] = where],
           place[Main] # "create",
           where = "done" => \A u \in Producers : place[u] \in {"off", "ended"},
           where = "round" => Is({"separately"}) /\ \A u \in Producers : place[u] \in {"off", "ended"},
           place[Main] = "round" => Is(MainOnly),
           UNCHANGED <<program, round, taken, written, ready, consumed>>, UNCHANGED messageVars,
           expected' = expected \/ (WillProduce(1) /\ Is(MainOnly)),
           solo' = solo \/ solo' = solo \cup {Main} \/ solo' = solo \ {Main},
           where \in {"fill", "put", "take"} => Is(MainOnly) /\ n <= program.target,
           go' \in BOOLEAN, search' \in Queues,
           number' = [number EXCEPT ![Main] = n]
    PROVE  Kept
<1>1. /\ number \in [Threads -> Nat] /\ program \in Candidates /\ Main \in Threads /\ Copiers \subseteq Threads
      /\ Producers \subseteq Threads /\ MessagesInv /\ solo \subseteq Threads /\ ready \in Nat /\ consumed \in Seq(Items)
  BY Parts
<1>2. Main \notin Producers /\ Main \notin Copiers /\ 1 \in Queues BY <1>1, ThreadFacts, ProgramFacts
<1>3. Touching({}) /\ Holding BY <1>1, NoEffect
<1>4. QueuesType' BY <1>2, WillProduceQueues
<1>5. number' \in [Threads -> Nat] /\ number'[Main] = n /\ \A u \in Copiers : number'[u] = number[u] BY <1>1, <1>2
<1>6. solo' \subseteq Threads /\ \A u \in Producers : u \in solo' <=> u \in solo BY <1>1, <1>2
<1>7. Is({"rounds"}) => expected' = expected BY DEF Is, MainOnly
<1>8. {} \subseteq EntryMessages \cup Mine(Main) OBVIOUS
<1>9. /\ ready' \in Nat /\ consumed' \in Seq(Items)
      /\ where \in {"fill", "put", "take"} => Is(MainOnly) /\ number'[Main] <= program.target
  BY <1>1, <1>5
<1> QED BY <1>3, <1>4, <1>5, <1>6, <1>7, <1>8, <1>9, MainKept

\* The programs of main alone.
LEMMA NoThreads ==
    /\ Is(MainOnly \cup {"user"}) => Producers = {}
    /\ program \in Candidates /\ ~Is(Copying) => Copiers = {}
<1>1. Is(MainOnly \cup {"user"}) => Producers = {} BY DEF Producers
<1>2. program \in Candidates /\ ~Is(Copying) => Copiers = {} BY ProgramFacts DEF Copiers
<1> QED BY <1>1, <1>2

\* main creates the connections and his messages.
LEMMA CreateKept == ASSUME ProgramsInv, Create PROVE Kept
<1>1. /\ place[Main] = "create" /\ ~Is({"user"}) /\ number' = number
      /\ UNCHANGED <<program, expected, solo, taken, written, ready, go, round, search, consumed>>
  BY DEF Create, At, Local, queueVars, barrier
<1>2. /\ program \in Candidates /\ MessagesInv /\ number \in [Threads -> Nat] /\ ready \in Nat /\ Main \in Threads
      /\ place \in [Threads -> Places] /\ solo \subseteq Threads /\ go \in BOOLEAN /\ search \in Queues
      /\ consumed \in Seq(Items) /\ Producers \subseteq Threads /\ Copiers \subseteq Threads
  BY Parts
<1>3. Main \notin Producers /\ Main \notin Copiers BY <1>2, ThreadFacts
<1>4. number' \in [Threads -> Nat] /\ QueuesType' BY <1>1, <1>2, SameQueues
<1>5. /\ \A u \in Producers : place[u] \in {"off", "ended"}
      /\ \A u \in Copiers : place[u] = "off"
  BY <1>1 DEF ProgramsInv, Rounds, Starting
<1>6. OutMessage(Main) \in Mine(Main) /\ InMessage(Main) \in Mine(Main) /\ Mine(Main) \subseteq Names
      /\ Mine(Main) \subseteq InUse
  BY <1>2, MessageFacts
<1>7. EntryMessages \subseteq Names /\ EntryMessages \subseteq InUse BY <1>2, EntryNames DEF InUse
<1>8. "create" \in MainPlaces \ {"failed"} /\ "round" \in MainPlaces \ {"failed"} BY DEF MainPlaces
<1>9. ASSUME NEW where \in {"create", "round"}, NEW S, S \subseteq EntryMessages \cup Mine(Main), Touching(S),
             place' = [place EXCEPT ![Main] = where]
      PROVE  ProgramsType' /\ Starting' /\ Rounds' /\ NobodyFailed' /\ CopiesFit'
  <2>1. MessagesInv' BY <1>9 DEF Touching
  <2>2. ready' \in Nat /\ go' \in BOOLEAN /\ search' \in Queues /\ consumed' \in Seq(Items)
        /\ solo' \subseteq Threads /\ (\A u \in Producers : u \in solo' <=> u \in solo)
    BY <1>1, <1>2
  <2>3. where \in MainPlaces \ {"failed"} /\ where # "done" /\ where \notin {"fill", "put", "take"} BY <1>8
  <2>4. ProgramsType' /\ Starting' /\ Rounds' /\ NobodyFailed'
    BY <1>1, <1>4, <1>5, <1>9, <2>1, <2>2, <2>3, MainMoves
  <2>5. \A u \in Copiers \ {Main} : place'[u] = place[u] /\ number'[u] = number[u] BY <1>1, <1>2, <1>9
  <2>6. CopiesFit' BY <1>1, <1>2, <1>3, <1>9, <2>5, KeepsFitting
  <2> QED BY <2>4, <2>6
<1>10. ASSUME NEW m \in EntryMessages \cup Mine(Main), Construct(m, Main, "create") PROVE Kept
  <2>1. m \in Names /\ m \in InUse BY <1>6, <1>7
  <2>2. /\ Touching({m}) /\ \A x \in Names \ {m} : Has(x)' = Has(x)
        /\ place' = [place EXCEPT ![Main] = "create"]
    BY <1>1, <1>10, <2>1, ConstructEffect
  <2>3. {m} \subseteq EntryMessages \cup Mine(Main) OBVIOUS
  <2>4. ProgramsType' /\ Starting' /\ Rounds' /\ NobodyFailed' /\ CopiesFit' BY <1>9, <2>2, <2>3
  <2>5. Held' BY <1>1, <2>1, <2>2, Fixed DEF ProgramsInv, Held
  <2>6. Supplied'
    <3>1. place'[Main] = "create" /\ \A u \in Threads \ {Main} : place'[u] = place[u] BY <1>2, <2>2
    <3>2. \A u \in Threads \ {Main} : place[u] \in {"off", "ended"} BY <1>5 DEF Threads
    <3> QED BY <1>1, <3>1, <3>2, Fixed DEF Supplied
  <2> QED BY <2>2, <2>4, <2>5, <2>6 DEF Kept, Touching, ProgramsInv
<1>11. ASSUME \A m \in EntryMessages \cup {OutMessage(Main), InMessage(Main)} : Has(m),
              place' = [place EXCEPT ![Main] = "round"], UNCHANGED messageVars
       PROVE  Kept
  <2>1. Touching({}) /\ Holding BY <1>2, <1>11, NoEffect
  <2>2. {} \subseteq EntryMessages \cup Mine(Main) OBVIOUS
  <2>3. ProgramsType' /\ Starting' /\ Rounds' /\ NobodyFailed' /\ CopiesFit' BY <1>9, <1>11, <2>1, <2>2
  <2>4. Held' BY <1>1, <2>1, Fixed DEF ProgramsInv, Held, Holding
  <2>5. Supplied'
    <3>1. \A u \in Threads \ {Main} : place'[u] = place[u] BY <1>2, <1>11
    <3>2. \A u \in Threads \ {Main} : place[u] \in {"off", "ended"} BY <1>5 DEF Threads
    <3>3. \A m \in EntryMessages \cup Mine(Main) : Has(m)' BY <1>6, <1>7, <1>11, <2>1 DEF Mine, Holding
    <3> QED BY <1>1, <3>1, <3>2, <3>3, Fixed DEF Supplied
  <2> QED BY <2>1, <2>3, <2>4, <2>5 DEF Kept, Touching, ProgramsInv
<1>12. \/ \E m \in EntryMessages \cup Mine(Main) : Construct(m, Main, "create")
       \/ /\ \A m \in EntryMessages \cup {OutMessage(Main), InMessage(Main)} : Has(m)
          /\ place' = [place EXCEPT ![Main] = "round"] /\ UNCHANGED messageVars
  <2>1. CASE CreateLocal
    <3> DEFINE m == CHOOSE m \in EntryMessages : ~Has(m)
    <3>1. m \in EntryMessages /\ Construct(m, Main, "create") BY <2>1 DEF CreateLocal
    <3> HIDE DEF m
    <3> QED BY <3>1
  <2>2. CASE Construct(IF Has(OutMessage(Main)) THEN InMessage(Main) ELSE OutMessage(Main), Main, "create")
    <3>1. (IF Has(OutMessage(Main)) THEN InMessage(Main) ELSE OutMessage(Main)) \in Mine(Main) BY <1>6
    <3> QED BY <2>2, <3>1
  <2> QED BY <2>1, <2>2 DEF Create, Goto
<1> QED BY <1>10, <1>11, <1>12

\* main starts the threads of a round.
LEMMA StartThreadsKept ==
    ASSUME ProgramsInv, StartThreads, place[Main] = "round", QueuesType',
           Is({"rounds"}) => expected'[1] = expected[1] + 1
    PROVE  Kept
<1>1. /\ place' = [t \in Threads |-> IF t = Main THEN "await" ELSE IF t \in Running THEN "start" ELSE place[t]]
      /\ number' = [t \in Threads |-> 0] /\ ready' = 0 /\ go' = FALSE /\ consumed' = <<>>
      /\ UNCHANGED messageVars /\ UNCHANGED <<program, solo, taken, written, round, search>>
  BY DEF StartThreads
<1>2. /\ program \in Candidates /\ MessagesInv /\ Main \in Threads
      /\ place \in [Threads -> Places] /\ solo \subseteq Threads /\ round \in 1 .. program.producers /\ search \in Queues
      /\ Producers \subseteq Threads /\ Copiers \subseteq Threads
  BY Parts
<1>3. Main \notin Producers /\ Main \notin Copiers BY <1>2, ThreadFacts
<1>4. Touching({}) /\ Holding BY <1>1, <1>2, NoEffect
<1>5. /\ place' \in [Threads -> Places] /\ place'[Main] = "await"
      /\ \A u \in Threads \ {Main} : place'[u] = (IF u \in Running THEN "start" ELSE place[u])
  BY <1>1, <1>2 DEF Places
<1>6. \A u \in Copiers : place'[u] = "start" BY <1>2, <1>3, <1>5 DEF Running
<1>7. \A u \in Producers : place'[u] = (IF u[2] <= round THEN "start" ELSE place[u])
  BY <1>2, <1>3, <1>5, ThreadFacts DEF Running
<1>8. Placed'
  <2>1. "await" \in MainPlaces /\ "start" \in ProducerPlaces /\ "start" \in CopierPlaces
    BY DEF MainPlaces, ProducerPlaces, CopierPlaces
  <2>2. \A u \in Producers : place'[u] \in ProducerPlaces BY <1>7, <2>1, Parts
  <2>3. \A u \in Copiers : place'[u] \in CopierPlaces /\ place'[u] # "copy" BY <1>6, <2>1
  <2>4. Threads' = Threads /\ Producers' = Producers /\ Copiers' = Copiers BY <1>1, Fixed
  <2> QED BY <1>5, <2>1, <2>2, <2>3, <2>4 DEF Placed
<1>9. number' \in [Threads -> Nat] /\ consumed' \in Seq(Items) /\ Filling' BY <1>1, <1>5 DEF Filling
<1>10. ProgramsType' BY <1>1, <1>2, <1>4, <1>8, <1>9, Fixed DEF ProgramsType, Touching
<1>11. ~Is({"user"}) BY DEF ProgramsInv, Starting
<1>12. Held' BY <1>1, <1>4, Fixed DEF ProgramsInv, Held, Holding
<1>13. Supplied'
  <2>1. \A u \in Threads \ {Main} : place'[u] \notin Outside => place[u] = place'[u] BY <1>5 DEF Outside
  <2>2. \A u \in Threads : Mine(u) \subseteq Names BY <1>2, MessageFacts
  <2>3. EntryMessages \subseteq Names BY <1>2, EntryNames
  <2>4. \A m \in EntryMessages \cup Mine(Main) : Has(m)' BY <1>2, <1>4, <2>2, <2>3 DEF ProgramsInv, Supplied, Holding
  <2>5. ASSUME NEW u \in Threads \ {Main}, place'[u] \notin Outside, NEW m \in Mine(u) PROVE Has(m)'
    BY <1>4, <2>1, <2>2, <2>5 DEF ProgramsInv, Supplied, Holding, Outside
  <2> QED BY <1>1, <2>4, <2>5, Fixed DEF Supplied, Outside
<1>14. Starting' BY <1>1, <1>5, <1>11, Fixed DEF Starting
<1>15. CopiesFit'
  <2> SUFFICES ASSUME NEW u \in Copiers PROVE CopyFits(u)' BY <1>1, Fixed DEF CopiesFit
  <2>1. program.copyType = "BinaryCopy" => messages[OutMessage(u)].used = 0
    <3>1. place[u] = "off" BY DEF ProgramsInv, Starting
    <3> QED BY <3>1 DEF ProgramsInv, CopiesFit, CopyFits
  <2>2. messages' = messages /\ OutMessage(u)' = OutMessage(u) BY <1>1 DEF messageVars, OutMessage
  <2> QED BY <1>1, <1>6, <2>1, <2>2 DEF CopyFits
<1>16. Rounds'
  <2>1. \A u \in Producers : (u[2] > round => place'[u] = "off") /\ (place'[u] = "off" => u \notin solo)
    <3> TAKE u \in Producers
    <3>1. u[2] \in Nat /\ round \in Nat BY <1>2, ThreadFacts, ProgramFacts
    <3> QED BY <1>7, <3>1 DEF ProgramsInv, Rounds
  <2>2. \A u \in Producers \cap solo : place'[u] \in {"start", "ended"}
    <3> TAKE u \in Producers \cap solo
    <3>1. place[u] \in {"off", "ended"} /\ place[u] # "off" BY DEF ProgramsInv, Rounds
    <3> QED BY <1>7, <3>1
  <2>3. Is({"rounds"}) => expected'[1] = round
    <3>1. Is({"rounds"}) => expected[1] = round - 1 BY DEF ProgramsInv, Rounds
    <3> QED BY <1>2, <3>1, ProgramFacts
  <2> QED BY <1>1, <1>5, <2>1, <2>2, <2>3, Fixed DEF Rounds
<1>17. NobodyFailed' BY <1>1, <1>5, Fixed DEF ProgramsInv, NobodyFailed
<1> QED BY <1>4, <1>10, <1>12, <1>13, <1>14, <1>15, <1>16, <1>17 DEF Kept, Touching, ProgramsInv

LEMMA SpawnKept == ASSUME ProgramsInv, SpawnRound \/ SpawnForQueues \/ SpawnPipeline PROVE Kept
<1>1. place[Main] = "round" /\ StartThreads BY DEF SpawnRound, SpawnForQueues, SpawnPipeline, At
<1>2. UNCHANGED <<program, taken, written>> BY <1>1 DEF StartThreads
<1>3. 1 \in Queues /\ QueuesType BY Parts, ProgramFacts
<1>4. CASE SpawnRound
  <2>1. WillProduce(1) BY <1>4 DEF SpawnRound
  <2> QED BY <1>1, <1>2, <1>3, <2>1, WillProduceQueues, StartThreadsKept
<1>5. CASE SpawnForQueues
  <2>1. expected' = [q \in Queues |-> 1] /\ ~Is({"rounds"}) BY <1>5 DEF SpawnForQueues, Is
  <2>2. expected' \in [Queues -> Nat] BY <2>1
  <2>3. QueuesType' BY <1>2, <1>3, <2>2, Fixed DEF QueuesType
  <2> QED BY <1>1, <2>1, <2>3, StartThreadsKept
<1>6. CASE SpawnPipeline
  <2>1. expected' = expected /\ ~Is({"rounds"}) BY <1>6 DEF SpawnPipeline, Is, Copying
  <2>2. QueuesType' BY <1>2, <1>3, <2>1, WillProduceQueues
  <2> QED BY <1>1, <2>1, <2>2, StartThreadsKept
<1> QED BY <1>4, <1>5, <1>6

LEMMA ReleaseThreadsKept == ASSUME ProgramsInv, ReleaseThreads PROVE Kept
<1>1. /\ place[Main] = "await" /\ place' = [place EXCEPT ![Main] = "consume"] /\ go' = TRUE /\ number' = number
      /\ UNCHANGED messageVars /\ UNCHANGED <<program, expected, solo, taken, written, ready, round, search, consumed>>
  BY DEF ReleaseThreads, At, Goto, queueVars
<1>2. number[Main] \in Nat /\ number' = [number EXCEPT ![Main] = number[Main]] /\ search \in Queues
  BY <1>1, Parts, SameNumber
<1>3. "consume" \in MainPlaces \ {"failed", "create"} BY DEF MainPlaces
<1> QED BY <1>1, <1>2, <1>3, MainGoes

LEMMA SearchOnKept == ASSUME ProgramsInv, SearchOn PROVE Kept
<1>1. /\ place[Main] = "consume" /\ place' = place /\ number' = number /\ search' = Search
      /\ UNCHANGED messageVars /\ UNCHANGED <<program, expected, solo, taken, written, ready, go, round, consumed>>
  BY DEF SearchOn, At, threadVars, queueVars, barrier
<1>2. number[Main] \in Nat /\ number' = [number EXCEPT ![Main] = number[Main]] /\ go \in BOOLEAN
      /\ place' = [place EXCEPT ![Main] = "consume"]
  BY <1>1, Parts, SameNumber, SamePlace
<1>3. "consume" \in MainPlaces \ {"failed", "create"} BY DEF MainPlaces
<1>4. search' \in Queues
  <2>1. search \in 1 .. QueueCount /\ QueueCount \in Nat \ {0} BY Parts, ProgramFacts DEF Queues
  <2> QED BY <1>1, <2>1 DEF Search, Queues
<1> QED BY <1>1, <1>2, <1>3, <1>4, MainGoes

\* main gets a message: from any queue.
LEMMA ArrivedKept ==
    ASSUME ProgramsInv, NEW q \in Queues, NEW last, last \in BOOLEAN, Arrived(q, last), place[Main] = "consume",
           search' \in Queues, UNCHANGED <<program, expected, solo, written, barrier, round>>
    PROVE  Kept
<1> DEFINE where == IF last THEN "join" ELSE "consume"
           e == Entry(q, FirstIn(q))
<1>1. /\ Get(q, OutMessage(Main)) /\ consumed' = consumed \o Contents(e)
      /\ number' = [number EXCEPT ![Main] = number[Main] + 1]
      /\ place' = [place EXCEPT ![Main] = where]
      /\ UNCHANGED <<program, expected, solo, written, ready, go, round>>
  BY DEF Arrived, Goto, barrier
<1>2. /\ number \in [Threads -> Nat] /\ program \in Candidates /\ Main \in Threads /\ Copiers \subseteq Threads
      /\ solo \subseteq Threads /\ ready \in Nat /\ go \in BOOLEAN /\ consumed \in Seq(Items)
  BY Parts
<1>3. Main \notin Producers /\ Main \notin Copiers /\ OutMessage(Main) \in Mine(Main)
  BY <1>2, ThreadFacts, MessageFacts
<1>4. Has(OutMessage(Main)) BY <1>3 DEF ProgramsInv, Supplied
<1>5. /\ QueuesType' /\ Holding /\ Contents(e) \in Seq(Items)
      /\ \E x \in EntryMessages : Touching({OutMessage(Main), x})
  <2> HIDE DEF where
  <2> QED BY <1>1, <1>2, <1>3, <1>4, GetEffect DEF e
<1>6. PICK x \in EntryMessages : Touching({OutMessage(Main), x}) BY <1>5
<1>7. {OutMessage(Main), x} \subseteq EntryMessages \cup Mine(Main) BY <1>3
<1>8. where \in MainPlaces \ {"failed", "create"} /\ where \notin {"done", "round", "fill", "put", "take"}
  BY DEF MainPlaces
<1> HIDE DEF where, e
<1>9. /\ number' \in [Threads -> Nat] /\ (\A u \in Copiers : number'[u] = number[u])
      /\ consumed' \in Seq(Items) /\ solo' \subseteq Threads /\ ready' \in Nat /\ go' \in BOOLEAN
      /\ (\A u \in Producers : u \in solo' <=> u \in solo)
  <2>1. consumed' \in Seq(Items) BY <1>1, <1>2, <1>5, ConcatProperties
  <2> QED BY <1>1, <1>2, <1>3, <2>1
<1> QED BY <1>1, <1>5, <1>6, <1>7, <1>8, <1>9, MainKept

LEMMA ConsumesKept ==
    ASSUME ProgramsInv, ConsumeAll \/ ConsumePipeline \/ ConsumeBatches \/ SearchFinds
    PROVE  Kept
<1>1. QueueCount \in Queues /\ search \in Queues /\ 1 \in Queues BY Parts, ProgramFacts
<1>2. ASSUME NEW kinds, NEW last \in BOOLEAN, Consume(kinds, last) PROVE Kept
  <2>1. /\ Arrived(QueueCount, last) /\ place[Main] = "consume"
        /\ UNCHANGED <<program, expected, solo, written, barrier, round>> /\ search' = search
    BY <1>2 DEF Consume, At
  <2> QED BY <1>1, <2>1, ArrivedKept
<1>3. ConsumeAll \/ ConsumePipeline => Kept
  <2>1. LastOfAll \in BOOLEAN BY DEF LastOfAll
  <2> QED BY <1>2, <2>1 DEF ConsumeAll, ConsumePipeline
<1>4. ConsumeBatches => Kept
  <2>1. (Contents(Entry(QueueCount, FirstIn(QueueCount))) = <<>>) \in BOOLEAN OBVIOUS
  <2> QED BY <1>2, <2>1 DEF ConsumeBatches
<1>5. SearchFinds => Kept
  <2> SUFFICES ASSUME SearchFinds PROVE Kept OBVIOUS
  <2>1. LastOfAll \in BOOLEAN BY DEF LastOfAll
  <2>2. /\ Arrived(search, LastOfAll) /\ place[Main] = "consume" /\ search' = 1
        /\ UNCHANGED <<program, expected, solo, written, barrier, round>>
    BY DEF SearchFinds, At
  <2> QED BY <1>1, <2>1, <2>2, ArrivedKept
<1> QED BY <1>3, <1>4, <1>5

\* Who is joined has ended; who has not run this time has not started.
LEMMA AllEnded == ASSUME ProgramsInv, Joined PROVE \A u \in Producers : place[u] \in {"off", "ended"}
<1> TAKE u \in Producers
<1>1. u[2] \in Nat /\ round \in Nat BY Parts, ThreadFacts, ProgramFacts
<1>2. u[2] <= round => place[u] = "ended" BY DEF Joined, Running
<1>3. u[2] > round => place[u] = "off" BY DEF ProgramsInv, Rounds
<1> QED BY <1>1, <1>2, <1>3

LEMMA JoinKept == ASSUME ProgramsInv, Join PROVE Kept
<1> DEFINE where == IF Is({"separately"}) THEN "round" ELSE "done"
<1>1. /\ place[Main] = "join" /\ place' = [place EXCEPT ![Main] = where] /\ Joined /\ number' = number
      /\ go' = (IF Is({"multi_queue"}) THEN FALSE ELSE go)
      /\ UNCHANGED messageVars /\ UNCHANGED <<program, expected, solo, taken, written, ready, round, search, consumed>>
  BY DEF Join, Joined, At, Goto, queueVars
<1>2. number[Main] \in Nat /\ number' = [number EXCEPT ![Main] = number[Main]] /\ search' \in Queues /\ go' \in BOOLEAN
  BY <1>1, Parts, SameNumber
<1>3. where \in MainPlaces \ {"failed", "create"} /\ where \notin {"fill", "put", "take"}
      /\ (where = "round" => Is({"separately"}))
  BY DEF MainPlaces
<1>4. \A u \in Producers : place[u] \in {"off", "ended"} BY <1>1, AllEnded
<1> HIDE DEF where
<1> QED BY <1>1, <1>2, <1>3, <1>4, MainGoes

\* The next round: its new producer has not started.
LEMMA JoinRoundKept == ASSUME ProgramsInv, JoinRound PROVE Kept
<1> DEFINE where == IF round < program.producers THEN "round" ELSE "done"
           next == IF round < program.producers THEN round + 1 ELSE round
<1>1. /\ place[Main] = "join" /\ place' = [place EXCEPT ![Main] = where] /\ Joined /\ number' = number
      /\ go' = FALSE /\ round' = next /\ Is({"rounds"})
      /\ UNCHANGED messageVars /\ UNCHANGED <<program, expected, solo, taken, written, ready, search, consumed>>
  BY DEF JoinRound, Joined, At, Goto, queueVars
<1>2. /\ program \in Candidates /\ MessagesInv /\ Main \in Threads /\ number \in [Threads -> Nat]
      /\ place \in [Threads -> Places] /\ solo \subseteq Threads /\ round \in 1 .. program.producers /\ search \in Queues
      /\ Producers \subseteq Threads /\ Copiers \subseteq Threads /\ program.producers \in Nat
  BY Parts, ProgramFacts
<1>3. Main \notin Producers BY <1>2, ThreadFacts
<1>4. Copiers = {} BY <1>1, <1>2, NoThreads DEF Is, Copying
<1>5. Touching({}) /\ Holding /\ QueuesType' BY <1>1, <1>2, NoEffect, SameQueues
<1>6. \A u \in Producers : place[u] \in {"off", "ended"} BY <1>1, AllEnded
<1>7. /\ where \in MainPlaces /\ where \in {"round", "done"} /\ (where = "round" => next = round + 1)
      /\ (where = "done" => next = round)
      /\ next \in 1 .. program.producers /\ round <= next
  BY <1>2 DEF MainPlaces
<1> HIDE DEF where, next
<1>8. /\ place' \in [Threads -> Places] /\ place'[Main] = where
      /\ \A u \in Threads \ {Main} : place'[u] = place[u]
  BY <1>1, <1>2, <1>7 DEF Places
<1>9. \A u \in Producers : place'[u] = place[u] BY <1>2, <1>3, <1>8
<1>10. Placed'
  <2>1. Threads' = Threads /\ Producers' = Producers /\ Copiers' = {} BY <1>1, <1>4, Fixed
  <2>2. \A u \in Producers : place'[u] \in ProducerPlaces BY <1>9, Parts
  <2> QED BY <1>7, <1>8, <2>1, <2>2 DEF Placed
<1>11. Filling' BY <1>7, <1>8 DEF Filling
<1>12. ProgramsType' BY <1>1, <1>2, <1>5, <1>7, <1>10, <1>11, Parts, Fixed DEF ProgramsType, Touching
<1>13. Held' /\ Supplied'
  <2>1. where # "create" /\ place[Main] # "create" BY <1>1, <1>7
  <2> QED BY <1>1, <1>2, <1>5, <2>1, KeepsHolding
<1>14. Starting' /\ CopiesFit' BY <1>1, <1>4, Fixed DEF Starting, CopiesFit, Is
<1>15. Rounds'
  <2>1. \A u \in Producers : (u[2] > next => place'[u] = "off") /\ (place'[u] = "off" => u \notin solo)
    <3> TAKE u \in Producers
    <3>1. u[2] \in Nat /\ round \in Nat BY <1>2, ThreadFacts
    <3> QED BY <1>7, <1>9, <3>1 DEF ProgramsInv, Rounds
  <2>2. \A u \in Producers \cap solo : place'[u] \in {"start", "ended"}
    BY <1>6, <1>9 DEF ProgramsInv, Rounds
  <2>3. expected[1] = (IF place'[Main] \in {"create", "round"} THEN next - 1 ELSE next)
    <3>1. expected[1] = round BY <1>1 DEF ProgramsInv, Rounds
    <3> QED BY <1>2, <1>7, <1>8, <3>1
  <2> QED BY <1>1, <1>6, <1>9, <2>1, <2>2, <2>3, Fixed DEF Rounds
<1>16. NobodyFailed'
  <2>1. \A u \in Threads : place'[u] # "failed" BY <1>7, <1>8, Parts
  <2> QED BY <1>1, <2>1, Fixed DEF NobodyFailed
<1> QED BY <1>5, <1>12, <1>13, <1>14, <1>15, <1>16 DEF Kept, Touching, ProgramsInv

\* main alone.
LEMMA ProduceKept == ASSUME ProgramsInv, Produce PROVE Kept
<1>1. /\ place[Main] = "round" /\ Is(MainOnly) /\ place' = [place EXCEPT ![Main] = "fill"]
      /\ number' = [number EXCEPT ![Main] = 0]
      /\ expected' = expected \/ WillProduce(1)
      /\ solo' = solo \cup {Main} \/ solo' = solo \ {Main}
      /\ UNCHANGED messageVars /\ UNCHANGED <<program, taken, written, ready, go, round, search, consumed>>
  BY DEF Produce, ConstructProducer, At, Goto, barrier
<1>2. "fill" \in MainPlaces \ {"failed", "create"} BY DEF MainPlaces
<1>3. search' \in Queues /\ go' \in BOOLEAN /\ 0 <= program.target BY <1>1, Parts, ProgramFacts
<1> QED BY <1>1, <1>2, <1>3, MainGoes

LEMMA QueueFilledKept == ASSUME ProgramsInv, QueueFilled PROVE Kept
<1> DEFINE where == IF Is({"separately"}) /\ taken[1] = 0 THEN "consume" ELSE "done"
<1>1. /\ place[Main] = "fill" /\ place' = [place EXCEPT ![Main] = where]
      /\ number' = [number EXCEPT ![Main] = 0]
      /\ UNCHANGED messageVars
      /\ UNCHANGED <<program, expected, solo, taken, written, ready, go, round, search, consumed>>
  BY DEF QueueFilled, At, Goto, queueVars, barrier
<1>2. where \in MainPlaces \ {"failed", "create"} /\ where \in {"consume", "done"} BY DEF MainPlaces
<1>3. search' \in Queues /\ go' \in BOOLEAN BY <1>1, Parts
<1>4. Is(MainOnly) BY <1>1 DEF ProgramsInv, ProgramsType, Filling
<1>5. Producers = {} BY <1>4, NoThreads DEF Is
<1> HIDE DEF where
<1> QED BY <1>1, <1>2, <1>3, <1>5, MainGoes

LEMMA FillQueueKept == ASSUME ProgramsInv, FillQueue PROVE Kept
<1>1. /\ place[Main] = "fill" /\ ~Filled /\ place' = [place EXCEPT ![Main] = "put"]
      /\ Emplace(OutMessage(Main), <<1, number[Main]>>)
      /\ number' = [number EXCEPT ![Main] = number[Main] + 1]
      /\ UNCHANGED <<program, expected, solo, taken, written, ready, go, round, search, consumed>>
  BY DEF FillQueue, At, Goto, Local, queueVars, barrier
<1>2. /\ number \in [Threads -> Nat] /\ program \in Candidates /\ Main \in Threads /\ Copiers \subseteq Threads
      /\ solo \subseteq Threads /\ ready \in Nat /\ go \in BOOLEAN /\ consumed \in Seq(Items) /\ search \in Queues
      /\ MessagesInv
  BY Parts
<1>3. Main \notin Producers /\ Main \notin Copiers /\ OutMessage(Main) \in Mine(Main) /\ OutMessage(Main) \in Names
  BY <1>2, ThreadFacts, MessageFacts
<1>4. Is(MainOnly) /\ number[Main] <= program.target BY <1>1 DEF ProgramsInv, ProgramsType, Filling
<1>5. /\ program.target \in Nat /\ number[Main] \in Nat /\ number[Main] # program.target
      /\ program.producers = 1
  BY <1>1, <1>2, <1>4, ProgramFacts DEF Filled, Is
<1>6. <<1, number[Main]>> \in Items
  <2>1. number[Main] \in 0 .. program.target - 1 /\ 1 \in 1 .. program.producers BY <1>4, <1>5
  <2> QED BY <1>2, <2>1, ItemsAssumption
<1>7. Touching({OutMessage(Main)}) /\ Holding BY <1>1, <1>2, <1>3, <1>6, EmplaceEffect
<1>8. {OutMessage(Main)} \subseteq EntryMessages \cup Mine(Main) BY <1>3
<1>9. "put" \in MainPlaces \ {"failed", "create"} BY DEF MainPlaces
<1>10. /\ number' \in [Threads -> Nat] /\ (\A u \in Copiers : number'[u] = number[u])
       /\ number'[Main] <= program.target
       /\ consumed' \in Seq(Items) /\ solo' \subseteq Threads /\ ready' \in Nat /\ go' \in BOOLEAN /\ search' \in Queues
       /\ (\A u \in Producers : u \in solo' <=> u \in solo)
  BY <1>1, <1>2, <1>3, <1>4, <1>5
<1>11. QueuesType' BY <1>1, SameQueues
<1> QED BY <1>1, <1>4, <1>7, <1>8, <1>9, <1>10, <1>11, MainKept

LEMMA PutMessageKept == ASSUME ProgramsInv, PutMessage PROVE Kept
<1> DEFINE where == IF Is({"alternating"}) THEN "take" ELSE "fill"
<1>1. place[Main] = "put" /\ Publish(Main, OutMessage(Main), where) BY DEF PutMessage, At
<1>2. /\ number \in [Threads -> Nat] /\ program \in Candidates /\ Main \in Threads /\ Copiers \subseteq Threads
      /\ solo \subseteq Threads /\ ready \in Nat /\ go \in BOOLEAN /\ consumed \in Seq(Items) /\ search \in Queues
  BY Parts
<1>3. OutMessage(Main) \in Mine(Main) BY <1>2, MessageFacts
<1>4. Has(OutMessage(Main)) BY <1>1, <1>3 DEF ProgramsInv, Supplied
<1>5. where \in MainPlaces \ {"failed", "create"} /\ where \in {"fill", "take"} BY DEF MainPlaces
<1> HIDE DEF where
<1>6. /\ QueuesType' /\ Holding
      /\ \E e \in EntryMessages : Touching({OutMessage(Main), e})
      /\ place' = [place EXCEPT ![Main] = where]
      /\ UNCHANGED <<program, number, expected, solo, ready, go, round, search, consumed>>
  BY <1>1, <1>2, <1>3, <1>4, PublishEffect DEF barrier
<1>7. PICK e \in EntryMessages : Touching({OutMessage(Main), e}) BY <1>6
<1>8. {OutMessage(Main), e} \subseteq EntryMessages \cup Mine(Main) BY <1>3
<1>9. Is(MainOnly) /\ number[Main] <= program.target BY <1>1 DEF ProgramsInv, ProgramsType, Filling
<1>10. number' \in [Threads -> Nat] /\ (\A u \in Copiers : number'[u] = number[u]) /\ number'[Main] <= program.target
       /\ consumed' \in Seq(Items) /\ solo' \subseteq Threads /\ ready' \in Nat /\ go' \in BOOLEAN /\ search' \in Queues
       /\ (\A u \in Producers : u \in solo' <=> u \in solo)
  BY <1>2, <1>6, <1>9
<1> QED BY <1>1, <1>5, <1>6, <1>7, <1>8, <1>9, <1>10, MainKept

LEMMA TakeMessageKept == ASSUME ProgramsInv, TakeMessage PROVE Kept
<1> DEFINE e == Entry(1, FirstIn(1))
<1>1. /\ place[Main] = "take" /\ Get(1, InMessage(Main)) /\ consumed' = consumed \o Contents(e)
      /\ place' = [place EXCEPT ![Main] = "fill"]
      /\ UNCHANGED <<program, number, expected, solo, written, ready, go, round, search>>
  BY DEF TakeMessage, At, Goto, barrier
<1>2. /\ number \in [Threads -> Nat] /\ program \in Candidates /\ Main \in Threads /\ Copiers \subseteq Threads
      /\ solo \subseteq Threads /\ ready \in Nat /\ go \in BOOLEAN /\ consumed \in Seq(Items) /\ search \in Queues
      /\ 1 \in Queues
  BY Parts, ProgramFacts
<1>3. InMessage(Main) \in Mine(Main) BY <1>2, MessageFacts
<1>4. Has(InMessage(Main)) BY <1>1, <1>3 DEF ProgramsInv, Supplied
<1>5. /\ QueuesType' /\ Holding /\ Contents(e) \in Seq(Items)
      /\ \E x \in EntryMessages : Touching({InMessage(Main), x})
  BY <1>1, <1>2, <1>3, <1>4, GetEffect DEF e
<1>6. PICK x \in EntryMessages : Touching({InMessage(Main), x}) BY <1>5
<1>7. {InMessage(Main), x} \subseteq EntryMessages \cup Mine(Main) BY <1>3
<1>8. "fill" \in MainPlaces \ {"failed", "create"} BY DEF MainPlaces
<1>9. Is(MainOnly) /\ number[Main] <= program.target BY <1>1 DEF ProgramsInv, ProgramsType, Filling
<1> HIDE DEF e
<1>10. /\ number' \in [Threads -> Nat] /\ (\A u \in Copiers : number'[u] = number[u]) /\ number'[Main] <= program.target
       /\ consumed' \in Seq(Items) /\ solo' \subseteq Threads /\ ready' \in Nat /\ go' \in BOOLEAN /\ search' \in Queues
       /\ (\A u \in Producers : u \in solo' <=> u \in solo)
  <2>1. consumed' \in Seq(Items) BY <1>1, <1>2, <1>5, ConcatProperties
  <2> QED BY <1>1, <1>2, <1>9, <2>1
<1> QED BY <1>1, <1>5, <1>6, <1>7, <1>8, <1>9, <1>10, MainKept

\* Whatever else is done with messages.
LEMMA UserKept == ASSUME ProgramsInv, User PROVE Kept
<1>1. /\ Is({"user"}) /\ number' = number
      /\ UNCHANGED <<program, expected, solo, taken, written, ready, go, round, search, consumed>>
  BY DEF User, Local, queueVars, barrier
<1>2. PICK m \in UserMessages : Use(m) BY DEF User
<1>3. /\ program \in Candidates /\ MessagesInv /\ place \in [Threads -> Places] /\ Main \in Threads
  BY Parts
<1>4. place[Main] = "create" BY <1>1 DEF ProgramsInv, Starting
<1>5. Producers = {} /\ Copiers = {} BY <1>1, <1>3, NoThreads DEF Is, Copying
<1>6. UserMessages \subseteq Names BY <1>3, NamesAssumption DEF UserMessages
<1>7. UserItems \subseteq Items
  <2>1. <<1, 0>> \in Items
    <3>1. 1 \in 1 .. program.producers /\ 0 \in 0 .. program.target - 1 BY <1>3, ProgramFacts
    <3> QED BY <1>3, <3>1, ItemsAssumption
  <2> QED BY <2>1, JunkAssumption DEF UserItems
<1>8. UserBundles \subseteq Bundles BY <1>7 DEF UserBundles, Bundles
<1>9. Operation(m) /\ place' = place
  <2>1. CASE Available \cap Pool # {} /\ Construct(m, Main, "create")
    <3>1. Allocate(m) /\ place' = [place EXCEPT ![Main] = "create"] BY <2>1 DEF Construct, Goto
    <3> QED BY <1>3, <1>4, <3>1 DEF Operation
  <2>2. CASE /\ \/ Release(m)
                \/ \E size \in 0 .. Capacity : SetUsed(m, size) \/ SetRead(m, size) \/ AddRead(m, size)
                \/ \E item \in UserItems : Emplace(m, item)
                \/ \E items \in UserBundles : AppendTo(m, items)
                \/ SetEmpty(m) \/ Rewind(m)
                \/ \E type \in Types : SetType(m, type)
                \/ \E n \in UserMessages \ {m} : AppendCopyOf(m, n) \/ CopyMetaInfoTo(m, n) \/ MoveTo(m, n)
             /\ UNCHANGED place
    <3>1. CASE Release(m) \/ SetEmpty(m) \/ Rewind(m) BY <2>2, <3>1 DEF Operation
    <3>2. CASE \E size \in 0 .. Capacity : SetUsed(m, size) \/ SetRead(m, size) \/ AddRead(m, size)
      BY <2>2, <3>2 DEF Operation
    <3>3. CASE \E item \in UserItems : Emplace(m, item) BY <1>7, <2>2, <3>3 DEF Operation
    <3>4. CASE \E items \in UserBundles : AppendTo(m, items) BY <1>8, <2>2, <3>4 DEF Operation
    <3>5. CASE \E type \in Types : SetType(m, type) BY <2>2, <3>5 DEF Operation
    <3>6. CASE \E n \in UserMessages \ {m} : AppendCopyOf(m, n) \/ CopyMetaInfoTo(m, n) \/ MoveTo(m, n)
      BY <1>6, <2>2, <3>6 DEF Operation
    <3> QED BY <2>2, <3>1, <3>2, <3>3, <3>4, <3>5, <3>6
  <2> QED BY <1>2, <2>1, <2>2 DEF Use
<1>10. NextMessages BY <1>6, <1>9 DEF NextMessages
<1>11. MessagesInv' BY <1>3, <1>10, StepValues
<1>12. QueuesType' BY <1>1, SameQueues
<1>13. Placed' BY <1>1, <1>9, Fixed DEF ProgramsInv, ProgramsType, Placed
<1>14. ProgramsType'
  <2>1. Filling' BY <1>4, <1>9 DEF Filling
  <2>2. Threads' = Threads /\ Queues' = Queues BY <1>1, Fixed
  <2> QED BY <1>1, <1>11, <1>12, <1>13, <2>1, <2>2 DEF ProgramsInv, ProgramsType
<1>15. Held' BY <1>1, Fixed DEF Held
<1>16. Supplied'
  <2>1. Threads \ {Main} = {} BY <1>5 DEF Threads
  <2> QED BY <1>1, <1>4, <1>9, <2>1, Fixed DEF Supplied
<1>17. Starting' /\ CopiesFit' BY <1>1, <1>4, <1>5, <1>9, Fixed DEF Starting, CopiesFit
<1>18. Rounds' BY <1>1, <1>5, Fixed DEF Rounds, Is
<1>19. NobodyFailed' BY <1>1, <1>9, Fixed DEF ProgramsInv, NobodyFailed
<1> QED BY <1>10, <1>14, <1>15, <1>16, <1>17, <1>18, <1>19 DEF Kept, ProgramsInv

LEMMA MainStepKept == ASSUME ProgramsInv, MainStep PROVE Kept
BY CreateKept, SpawnKept, ReleaseThreadsKept, ConsumesKept, SearchOnKept, JoinKept, JoinRoundKept, ProduceKept,
   FillQueueKept, PutMessageKept, TakeMessageKept, QueueFilledKept DEF MainStep
LEMMA StepKept == ASSUME ProgramsInv, Next PROVE Kept
BY ThreadStepKept, MainStepKept, UserKept DEF Next

\* Nothing changes.
LEMMA StutterKept == ASSUME ProgramsInv, UNCHANGED vars PROVE Kept
<1>1. UNCHANGED messageVars /\ UNCHANGED <<program, place, number, expected, solo, taken, written, ready, go, round, search, consumed>>
  BY DEF vars, threadVars, queueVars, barrier
<1>2. Touching({}) /\ Holding BY <1>1, Parts, NoEffect
<1>3. messages' = messages BY <1>1 DEF messageVars
<1>4. ProgramsType'
  <2>1. QueuesType' BY <1>1, SameQueues
  <2>2. Placed' /\ Filling' BY <1>1, Fixed DEF ProgramsInv, ProgramsType, Placed, Filling
  <2> QED BY <1>1, <1>2, <2>1, <2>2, Fixed DEF ProgramsInv, ProgramsType, Touching
<1>5. Held' /\ Supplied'
  <2>1. place' = [place EXCEPT ![Main] = place[Main]] /\ Main \in Threads BY <1>1, SamePlace, Parts
  <2> QED BY <1>1, <1>2, <2>1, KeepsHolding
<1>6. CopiesFit'
  <2> SUFFICES ASSUME NEW u \in Copiers PROVE CopyFits(u)' BY <1>1, Fixed DEF CopiesFit
  <2>1. CopyFits(u) BY DEF ProgramsInv, CopiesFit
  <2>2. OutMessage(u)' = OutMessage(u) /\ InMessage(u)' = InMessage(u) BY <1>1, Fixed DEF OutMessage
  <2> QED BY <1>1, <1>3, <2>1, <2>2 DEF CopyFits
<1>7. Starting' /\ Rounds' /\ NobodyFailed' BY <1>1, Fixed DEF ProgramsInv, Starting, Rounds, NobodyFailed
<1> QED BY <1>2, <1>4, <1>5, <1>6, <1>7 DEF Kept, Touching, ProgramsInv
-----------------------------------------------------------------------------
(* The theorems about the programs *)

LEMMA ProgramsInitInv == ASSUME Init PROVE InitMessages /\ ProgramsInv
<1>1. /\ program \in Candidates /\ messages = [m \in Names |-> Fresh]
      /\ memory = [b \in Blocks |-> [i \in 1 .. Capacity |-> Junk]]
      /\ place = [t \in Threads |-> IF t = Main THEN "create" ELSE "off"]
      /\ number = [t \in Threads |-> 0]
      /\ expected = [q \in Queues |-> 0] /\ solo = {}
      /\ taken = [q \in Queues |-> 0] /\ written = [q \in Queues |-> 0]
      /\ ready = 0 /\ go = FALSE
      /\ round = (IF Is({"rounds"}) THEN 1 ELSE program.producers)
      /\ search = 1 /\ consumed = <<>>
  BY DEF Init
<1>2. /\ program.producers \in Nat \ {0} /\ program.entries \in Nat /\ program.target \in Nat /\ 1 \in Queues
  BY <1>1, ProgramFacts
<1>3. InitMessages BY <1>1, JunkAssumption DEF InitMessages
<1>4. MessagesInv BY <1>3, InitValues
<1>5. Main \in Threads /\ Main \notin Producers /\ Main \notin Copiers /\ Producers \subseteq Threads /\ Copiers \subseteq Threads
  <2>1. Main \in Threads /\ Producers \subseteq Threads /\ Copiers \subseteq Threads BY DEF Threads
  <2> QED BY <1>1, <2>1, ThreadFacts
<1>6. place[Main] = "create" /\ \A t \in Threads \ {Main} : place[t] = "off" BY <1>1, <1>5
<1>7. Placed
  <2>1. place \in [Threads -> Places] BY <1>1 DEF Places
  <2> QED BY <1>5, <1>6, <2>1 DEF Placed, MainPlaces, ProducerPlaces, CopierPlaces
<1>8. QueuesType BY <1>1, <1>2 DEF QueuesType
<1>9. ProgramsType
  <2>1. number \in [Threads -> Nat] /\ round \in 1 .. program.producers /\ consumed \in Seq(Items) BY <1>1, <1>2
  <2>2. Filling BY <1>6 DEF Filling
  <2> QED BY <1>1, <1>2, <1>4, <1>7, <1>8, <2>1, <2>2 DEF ProgramsType
<1>10. \A m \in Names : ~Has(m) /\ messages[m].used = 0 BY <1>1 DEF Has, Fresh
<1>11. Held /\ Supplied BY <1>6, <1>10 DEF Held, Supplied
<1>12. Starting BY <1>5, <1>6 DEF Starting
<1>13. CopiesFit
  <2> SUFFICES ASSUME NEW t \in Copiers PROVE CopyFits(t) BY DEF CopiesFit
  <2>1. OutMessage(t) \in Names BY <1>1, <1>5, MessageFacts
  <2> QED BY <1>5, <1>6, <1>10, <2>1 DEF CopyFits
<1>14. Rounds
  <2>1. Is({"rounds"}) => expected[1] = round - 1 /\ round = 1 BY <1>1, <1>2
  <2> QED BY <1>1, <1>5, <1>6, <2>1 DEF Rounds
<1>15. NobodyFailed BY <1>5, <1>6 DEF NobodyFailed
<1> QED BY <1>3, <1>9, <1>11, <1>12, <1>13, <1>14, <1>15 DEF ProgramsInv

\* Only one thread at a time takes the solo Producer's way to a queue.
LEMMA SoloIsAlone ==
    ASSUME ProgramsInv, NEW t \in Running, NEW u \in Running, t # u, OutQueue(t) = OutQueue(u), t \in solo
    PROVE  place[t] \in {"start", "ended"}
<1>1. /\ program \in Candidates /\ round \in 1 .. program.producers /\ program.producers \in Nat \ {0}
      /\ Producers \subseteq Threads /\ Copiers \subseteq Threads
  BY Parts, ProgramFacts
<1>2. /\ (t \in Producers /\ t[2] <= round) \/ t \in Copiers
      /\ (u \in Producers /\ u[2] <= round) \/ u \in Copiers
  BY DEF Running
<1>3. t \in Threads /\ u \in Threads /\ t = <<t[1], t[2]>> /\ u = <<u[1], u[2]>> BY <1>1, <1>2, ThreadFacts
<1>4. CASE Is(Copying)
  <2>1. program.producers = 1 BY <1>1, <1>4, ProgramFacts DEF Is
  <2>2. \A x \in Threads : x \in Producers => x[1] = "producer" /\ x[2] = 1 BY <1>1, <2>1, ThreadFacts
  <2>3. \A x \in Threads : x \in Copiers => x[1] = "copier" /\ x[2] \in Nat /\ x[2] >= 1
    BY <1>1, ThreadFacts, ProgramFacts
  <2>4. ~Is({"multi_queue"}) BY <1>4 DEF Is, Copying
  <2>5. \A x \in Threads : x \in Producers => OutQueue(x) = 1 BY <2>2, <2>4 DEF OutQueue
  <2>6. \A x \in Threads : x \in Copiers => OutQueue(x) = x[2] + 1 BY <2>3 DEF OutQueue
  <2>7. ~(t \in Producers /\ u \in Producers) BY <1>3, <2>2
  <2>8. ~(t \in Copiers /\ u \in Copiers)
    <3> SUFFICES ASSUME t \in Copiers, u \in Copiers PROVE FALSE OBVIOUS
    <3>1. t[2] + 1 = u[2] + 1 /\ t[1] = "copier" /\ u[1] = "copier" /\ t[2] \in Nat /\ u[2] \in Nat
      BY <1>3, <2>3, <2>6
    <3>2. t[2] = u[2] BY <3>1
    <3> QED BY <1>3, <3>1, <3>2
  <2>9. ~(t \in Producers /\ u \in Copiers)
    <3> SUFFICES ASSUME t \in Producers, u \in Copiers PROVE FALSE OBVIOUS
    <3>1. u[2] + 1 = 1 /\ u[2] \in Nat /\ u[2] >= 1 BY <1>3, <2>3, <2>5, <2>6
    <3> QED BY <3>1
  <2>10. ~(t \in Copiers /\ u \in Producers)
    <3> SUFFICES ASSUME t \in Copiers, u \in Producers PROVE FALSE OBVIOUS
    <3>1. t[2] + 1 = 1 /\ t[2] \in Nat /\ t[2] >= 1 BY <1>3, <2>3, <2>5, <2>6
    <3> QED BY <3>1
  <2> QED BY <1>2, <2>7, <2>8, <2>9, <2>10
<1>5. CASE ~Is(Copying)
  <2>1. t \in Producers /\ u \in Producers /\ t[2] <= round /\ u[2] <= round
    BY <1>1, <1>2, <1>5, NoThreads
  <2>2. t[1] = "producer" /\ u[1] = "producer" /\ t[2] \in 1 .. program.producers /\ u[2] \in 1 .. program.producers
    BY <1>1, <1>3, <2>1, ThreadFacts
  <2>3. t[2] # u[2] BY <1>3, <2>2
  <2>4. ~Is({"multi_queue"}) BY <2>2, <2>3 DEF OutQueue
  <2>5. program.kind \notin MainOnly \cup {"user"} BY <2>1, NoThreads DEF Is
  <2>6. Is({"rounds"}) BY <1>1, <1>5, <2>4, <2>5, ProgramFacts DEF Is, Copying, MainOnly, Kinds
  <2>7. round > 1 BY <1>1, <2>1, <2>2, <2>3
  <2> QED BY <2>1, <2>6, <2>7 DEF ProgramsInv, Rounds
<1> QED BY <1>4, <1>5

LEMMA ProgramsSafe == ASSUME ProgramsInv PROVE TypeOK /\ NobodyFails
<1>1. TypeOK
  <2>1. round \in Nat BY Parts, ProgramFacts
  <2> QED BY <2>1, Parts DEF TypeOK, QueuesType, ProgramsInv, ProgramsType
<1>2. \A t, u \in Running :
        t # u /\ OutQueue(t) = OutQueue(u) /\ t \in solo => place[t] \in {"start", "ended"}
  BY SoloIsAlone
<1> QED BY <1>1, <1>2, Parts DEF NobodyFails

\* The inductive invariant.
LEMMA ProgramsInvCorrect == Spec => []ProgramsInv
<1>1. Init => ProgramsInv BY ProgramsInitInv
<1>2. ProgramsInv /\ [Next]_vars => ProgramsInv' BY StepKept, StutterKept DEF Kept
<1> QED BY <1>1, <1>2, PTL DEF Spec

\* The programs' state has its types, and their messages never share a block.
THEOREM ProgramsTypeCorrect == Spec => []TypeOK
<1>1. ProgramsInv => TypeOK BY ProgramsSafe
<1> QED BY <1>1, ProgramsInvCorrect, PTL

\* No thread ends with an exception: for any number of producers, copying threads and
\* entries the pool that is computed has a block for each message that is constructed,
\* and whatever is copied fits.  No thread publishes through a solo Producer while another
\* one publishes to the same queue.
THEOREM NobodyFailsCorrect == Spec => []NobodyFails
<1>1. ProgramsInv => NobodyFails BY ProgramsSafe
<1> QED BY <1>1, ProgramsInvCorrect, PTL

\* Whatever the threads of a program do with messages is what users of messages may do.
THEOREM ProgramsUseMessages == Spec => MessagesSpec
<1>1. Init => InitMessages BY ProgramsInitInv
<1>2. ProgramsInv /\ [Next]_vars => [NextMessages]_messageVars BY StepKept, StutterKept DEF Kept
<1> QED BY <1>1, <1>2, ProgramsInvCorrect, PTL DEF Spec, MessagesSpec

\* So messages are values in every program: no thread changes what another one's message
\* contains, although blocks move from thread to thread.
THEOREM ProgramsImplementCorrect == Spec => ImplementsValues
BY ProgramsUseMessages, ImplementsValuesCorrect
-----------------------------------------------------------------------------
(* What becomes of the objects: the histories that explain a state *)

\* All such histories.
Sents == [Queues -> [Nat -> Seq(Items)]]

-----------------------------------------------------------------------------
(* What has been sent before *)

LEMMA BeforeEmpty == ASSUME NEW sent, NEW l, NEW k \in Nat PROVE Before(sent, k, l, k) = {}
BY DEF Before

LEMMA BeforeNext ==
    ASSUME NEW sent, NEW l, NEW base \in Nat, NEW k \in Nat, base <= k
    PROVE  Before(sent, base, l, k + 1) = Before(sent, base, l, k) \cup {sent[l][k][i] : i \in DOMAIN sent[l][k]}
<1>1. base .. k + 1 - 1 = (base .. k - 1) \cup {k} OBVIOUS
<1> QED BY <1>1 DEF Before

\* A message more in a lane changes nothing of what has been sent there before.
LEMMA BeforeStays ==
    ASSUME NEW sent, NEW sent2, NEW l, NEW base \in Nat, NEW k \in Nat,
           \A j \in Nat : j < k => sent2[l][j] = sent[l][j]
    PROVE  Before(sent2, base, l, k) = Before(sent, base, l, k)
<1>1. \A j \in base .. k - 1 : sent2[l][j] = sent[l][j] OBVIOUS
<1> QED BY <1>1 DEF Before

LEMMA BeforeGrows ==
    ASSUME NEW sent, NEW l, NEW base \in Nat, NEW j \in Nat, NEW k \in Nat, j <= k
    PROVE  Before(sent, base, l, j) \subseteq Before(sent, base, l, k)
<1>1. base .. j - 1 \subseteq base .. k - 1 OBVIOUS
<1> QED BY <1>1 DEF Before

\* Objects that follow on others that follow.
LEMMA FollowBoth ==
    ASSUME NEW s \in Seq(Items), NEW t \in Seq(Items), Follow(s, {}), Follow(t, {s[i] : i \in DOMAIN s})
    PROVE  Follow(s \o t, {})
<1> DEFINE u == s \o t
<1>1. /\ u \in Seq(Items) /\ Len(u) = Len(s) + Len(t)
      /\ \A i \in 1 .. Len(s) : u[i] = s[i]
      /\ \A i \in Len(s) + 1 .. Len(s) + Len(t) : u[i] = t[i - Len(s)]
  BY ConcatProperties
<1>2. DOMAIN s = 1 .. Len(s) /\ DOMAIN t = 1 .. Len(t) /\ DOMAIN u = 1 .. Len(u) /\ Len(s) \in Nat /\ Len(t) \in Nat
  BY <1>1, LenProperties
<1> HIDE DEF u
<1>3. ASSUME NEW i \in DOMAIN u
      PROVE  \E p \in 1 .. program.producers, n \in 0 .. program.target - 1 :
                /\ u[i] = <<p, n>>
                /\ \A k \in 0 .. program.target - 1 : k < n <=> <<p, k>> \in {} \cup {u[j] : j \in 1 .. i - 1}
  <2>1. CASE i \in 1 .. Len(s)
    <3>1. \A j \in 1 .. i - 1 : u[j] = s[j] BY <1>1, <1>2, <2>1
    <3>2. {} \cup {u[j] : j \in 1 .. i - 1} = {} \cup {s[j] : j \in 1 .. i - 1} BY <3>1
    <3>3. i \in DOMAIN s /\ u[i] = s[i] BY <1>1, <1>2, <2>1
    <3> QED BY <3>2, <3>3 DEF Follow
  <2>2. CASE i \notin 1 .. Len(s)
    <3> DEFINE d == i - Len(s)
    <3>1. d \in DOMAIN t /\ u[i] = t[d] /\ i = Len(s) + d /\ d \in Nat BY <1>1, <1>2, <2>2
    <3> HIDE DEF d
    <3>2. {u[j] : j \in 1 .. i - 1} = {s[j] : j \in DOMAIN s} \cup {t[j] : j \in 1 .. d - 1}
      <4>1. ASSUME NEW j \in 1 .. i - 1 PROVE u[j] \in {s[h] : h \in DOMAIN s} \cup {t[h] : h \in 1 .. d - 1}
        <5>1. CASE j \in 1 .. Len(s) BY <1>1, <1>2, <5>1
        <5>2. CASE j \notin 1 .. Len(s)
          <6>1. j - Len(s) \in 1 .. d - 1 /\ j \in Len(s) + 1 .. Len(s) + Len(t) BY <1>1, <1>2, <3>1, <5>2
          <6> QED BY <1>1, <6>1
        <5> QED BY <5>1, <5>2
      <4>2. ASSUME NEW j \in DOMAIN s PROVE s[j] \in {u[h] : h \in 1 .. i - 1}
        <5>1. j \in 1 .. i - 1 /\ u[j] = s[j] BY <1>1, <1>2, <3>1
        <5> QED BY <5>1
      <4>3. ASSUME NEW j \in 1 .. d - 1 PROVE t[j] \in {u[h] : h \in 1 .. i - 1}
        <5>1. Len(s) + j \in 1 .. i - 1 /\ Len(s) + j \in Len(s) + 1 .. Len(s) + Len(t) BY <1>1, <1>2, <3>1
        <5>2. u[Len(s) + j] = t[j] BY <1>1, <1>2, <5>1
        <5> QED BY <5>1, <5>2
      <4> QED BY <4>1, <4>2, <4>3
    <3>3. {} \cup {u[j] : j \in 1 .. i - 1} = {s[j] : j \in DOMAIN s} \cup {t[j] : j \in 1 .. d - 1} BY <3>2
    <3> QED BY <3>1, <3>3 DEF Follow
  <2> QED BY <2>1, <2>2
<1> QED BY <1>3 DEF Follow, u

\* What is among others, and not before s, is of other producers.
Beside(s, before, among) ==
    \A i \in DOMAIN s, p \in 1 .. program.producers, n, k \in 0 .. program.target - 1 :
        s[i] = <<p, n>> /\ <<p, k>> \in among => <<p, k>> \in before

\* Objects of other producers in between make no difference.
LEMMA FollowAmong ==
    ASSUME NEW s, NEW before, NEW among, Follow(s, before), before \subseteq among, Beside(s, before, among)
    PROVE  Follow(s, among)
<1>1. ASSUME NEW i \in DOMAIN s
      PROVE  \E p \in 1 .. program.producers, n \in 0 .. program.target - 1 :
                /\ s[i] = <<p, n>>
                /\ \A k \in 0 .. program.target - 1 : k < n <=> <<p, k>> \in among \cup {s[j] : j \in 1 .. i - 1}
  <2>1. PICK p \in 1 .. program.producers, n \in 0 .. program.target - 1 :
           /\ s[i] = <<p, n>>
           /\ \A k \in 0 .. program.target - 1 : k < n <=> <<p, k>> \in before \cup {s[j] : j \in 1 .. i - 1}
    BY DEF Follow
  <2>2. \A k \in 0 .. program.target - 1 : <<p, k>> \in among <=> <<p, k>> \in before BY <2>1 DEF Beside
  <2> QED BY <2>1, <2>2
<1> QED BY <1>1 DEF Follow

\* A producer's objects from the first-th one on follow when all before the first-th have been sent.
LEMMA FollowRun ==
    ASSUME NEW s \in Seq(Items), NEW before, NEW p \in 1 .. program.producers, NEW first \in Nat,
           program.target \in Nat, first + Len(s) <= program.target,
           \A i \in 1 .. Len(s) : s[i] = <<p, first + i - 1>>,
           \A n \in 0 .. program.target - 1 : <<p, n>> \in before <=> n < first
    PROVE  /\ Follow(s, before)
           /\ \A n \in 0 .. program.target - 1 : <<p, n>> \in before \cup {s[i] : i \in DOMAIN s} <=> n < first + Len(s)
<1>1. DOMAIN s = 1 .. Len(s) /\ Len(s) \in Nat BY LenProperties
<1>2. ASSUME NEW h \in 0 .. Len(s), NEW k \in 0 .. program.target - 1
      PROVE  <<p, k>> \in before \cup {s[j] : j \in 1 .. h} <=> k < first + h
  <2>1. ASSUME <<p, k>> \in {s[j] : j \in 1 .. h} PROVE k < first + h /\ k >= first
    <3>1. PICK j \in 1 .. h : <<p, k>> = s[j] BY <2>1
    <3>2. j \in 1 .. Len(s) /\ s[j] = <<p, first + j - 1>> BY <1>1
    <3>3. k = first + j - 1 BY <3>1, <3>2
    <3> QED BY <3>3
  <2>2. ASSUME k >= first, k < first + h PROVE <<p, k>> \in {s[j] : j \in 1 .. h}
    <3>1. k - first + 1 \in 1 .. h /\ k - first + 1 \in 1 .. Len(s) /\ first + (k - first + 1) - 1 = k BY <1>1, <2>2
    <3>2. s[k - first + 1] = <<p, k>> BY <3>1
    <3> QED BY <3>1, <3>2
  <2>3. <<p, k>> \in before <=> k < first OBVIOUS
  <2>4. k < first => k < first + h OBVIOUS
  <2>5. k \in Int /\ first \in Int /\ h \in Int OBVIOUS
  <2>6. k >= first \/ k < first BY <2>5
  <2> QED BY <2>1, <2>2, <2>3, <2>4, <2>6
<1>3. ASSUME NEW i \in DOMAIN s
      PROVE  \E q \in 1 .. program.producers, n \in 0 .. program.target - 1 :
                /\ s[i] = <<q, n>>
                /\ \A k \in 0 .. program.target - 1 : k < n <=> <<q, k>> \in before \cup {s[j] : j \in 1 .. i - 1}
  <2>1. /\ i \in 1 .. Len(s) /\ i - 1 \in 0 .. Len(s)
        /\ first + i - 1 \in 0 .. program.target - 1 /\ first + i - 1 = first + (i - 1)
    BY <1>1
  <2>2. s[i] = <<p, first + i - 1>> BY <2>1
  <2>3. \A k \in 0 .. program.target - 1 : k < first + (i - 1) <=> <<p, k>> \in before \cup {s[j] : j \in 1 .. i - 1}
    BY <1>2, <2>1
  <2> QED BY <2>1, <2>2, <2>3
<1>4. \A n \in 0 .. program.target - 1 : <<p, n>> \in before \cup {s[i] : i \in DOMAIN s} <=> n < first + Len(s)
  <2>1. Len(s) \in 0 .. Len(s) BY <1>1
  <2> QED BY <1>1, <1>2, <2>1
<1> QED BY <1>3, <1>4 DEF Follow

-----------------------------------------------------------------------------
(* What the operations do to the contents of messages *)

Keeps(S) == \A x \in Names \ S : Contents(x)' = Contents(x)

LEMMA MovedContents ==
    ASSUME MessagesInv, NEW m \in Names, NEW n \in Names, MoveTo(m, n)
    PROVE  Contents(n)' = Contents(m) /\ Contents(m)' = <<>> /\ Keeps({m, n}) /\ m # n
<1> DEFINE old == [x \in Names |-> Contents(x)]
<1>1. /\ [x \in Names |-> Contents(x)]' = [old EXCEPT ![n] = old[m], ![m] = <<>>]
      /\ m # n
  BY MoveStep DEF Values!Move
<1>2. [x \in Names |-> Contents(x)]' = [x \in Names |-> Contents(x)'] OBVIOUS
<1>3. \A x \in Names : Contents(x)' = [old EXCEPT ![n] = old[m], ![m] = <<>>][x] BY <1>1, <1>2
<1>4. \A x \in Names : old[x] = Contents(x) OBVIOUS
<1>5. old = [x \in Names |-> old[x]] OBVIOUS
<1> HIDE DEF old
<1>6. Contents(n)' = old[m] /\ Contents(m)' = <<>> /\ \A x \in Names \ {m, n} : Contents(x)' = old[x]
  BY <1>1, <1>3, <1>5
<1> QED BY <1>1, <1>4, <1>6 DEF Keeps

LEMMA EmplacedContents ==
    ASSUME MessagesInv, NEW m \in Names, NEW item \in Items, Emplace(m, item)
    PROVE  Contents(m)' = <<item>> /\ Keeps({m})
<1> DEFINE items == <<item>>
           start == 0
<1>1. Len(items) = 1 /\ items[1] = item OBVIOUS
<1>2. WriteAt(m, start, items) /\ items \in Seq(Items) /\ start \in 0 .. Capacity BY CapacityAssumption DEF Emplace
<1>3. start = 0 OBVIOUS
<1> HIDE DEF items, start
<1>4. /\ \A n \in Names \ {m} : Contents(n)' = Contents(n)
      /\ messages'[m] = [messages[m] EXCEPT !.used = start + Len(items)]
      /\ \A i \in start + 1 .. start + Len(items) : memory'[messages[m].block][i] = items[i - start]
  BY <1>2, Written
<1>5. messages[m] \in MessageType BY Fields
<1>6. messages'[m].used = 1 /\ messages'[m].block = messages[m].block BY <1>1, <1>3, <1>4, <1>5 DEF MessageType
<1>7. memory'[messages[m].block][1] = item BY <1>1, <1>3, <1>4
<1>8. Contents(m)' = [i \in 1 .. messages'[m].used |-> memory'[messages'[m].block][i]] BY DEF Contents
<1>9. Contents(m)' = [i \in 1 .. 1 |-> memory'[messages[m].block][i]] BY <1>6, <1>8
<1>10. Contents(m)' = [i \in 1 .. 1 |-> item]
  <2>1. \A i \in 1 .. 1 : memory'[messages[m].block][i] = item BY <1>7
  <2> QED BY <1>9, <2>1
<1>11. [i \in 1 .. 1 |-> item] = <<item>> OBVIOUS
<1> QED BY <1>4, <1>10, <1>11 DEF Keeps

LEMMA AppendedContents ==
    ASSUME MessagesInv, NEW m \in Names, NEW items \in Seq(Items), AppendTo(m, items)
    PROVE  /\ Contents(m)' \in Seq(Items) /\ Len(Contents(m)') = Len(Contents(m)) + Len(items)
           /\ \A i \in 1 .. Len(Contents(m)) : Contents(m)'[i] = Contents(m)[i]
           /\ \A i \in Len(Contents(m)) + 1 .. Len(Contents(m)) + Len(items) :
                 Contents(m)'[i] = items[i - Len(Contents(m))]
           /\ Keeps({m})
<1> DEFINE used == messages[m].used
           block == messages[m].block
<1>1. WriteAt(m, used, items) BY DEF AppendTo
<1>2. used \in 0 .. Capacity /\ messages[m] \in MessageType BY Fields
<1> HIDE DEF used
<1>3. /\ MessagesInv'
      /\ \A n \in Names \ {m} : Contents(n)' = Contents(n)
      /\ messages'[m] = [messages[m] EXCEPT !.used = used + Len(items)]
      /\ \A i \in 1 .. used : memory'[block][i] = memory[block][i]
      /\ \A i \in used + 1 .. used + Len(items) : memory'[block][i] = items[i - used]
  BY <1>1, <1>2, Written
<1>4. messages'[m].used = used + Len(items) /\ messages'[m].block = block BY <1>2, <1>3 DEF MessageType
<1>5. Contents(m)' \in Seq(Items) /\ Len(Contents(m)') = messages'[m].used
  <2>1. /\ messages'[m].used \in 0 .. Capacity
        /\ messages'[m].block \in Blocks \/ messages'[m].used = 0
        /\ memory' \in [Blocks -> [1 .. Capacity -> Items]]
    <3>1. /\ messages' \in [Names -> MessageType] /\ memory' \in [Blocks -> [1 .. Capacity -> Items]]
          /\ messages'[m].used <= (IF messages'[m].block # NoBlock THEN Capacity ELSE 0)
      BY <1>3 DEF MessagesInv, MessagesTypeOK, NoSharing, CapacityOf, Has
    <3> QED BY <3>1, CapacityAssumption DEF MessageType
  <2> DEFINE n == messages'[m].used
             cells == memory'[messages'[m].block]
  <2>2. Contents(m)' = [i \in 1 .. n |-> cells[i]] BY DEF Contents
  <2>3. \A i \in 1 .. n : cells[i] \in Items BY <2>1, CapacityAssumption
  <2>4. n \in Nat BY <2>1, CapacityAssumption
  <2> HIDE DEF n, cells
  <2>5. Contents(m)' \in Seq(Items) /\ Len(Contents(m)') = n BY <2>2, <2>3, <2>4
  <2> QED BY <2>5 DEF n
<1>6. Len(Contents(m)) = used /\ \A i \in 1 .. used : Contents(m)[i] = memory[block][i] BY ContentsType DEF used
<1>7. Contents(m)' = [i \in 1 .. messages'[m].used |-> memory'[messages'[m].block][i]] BY DEF Contents
<1>8. \A i \in 1 .. used + Len(items) : Contents(m)'[i] = memory'[block][i] BY <1>4, <1>7
<1>9. Len(items) \in Nat /\ used \in Nat BY <1>2, LenProperties, CapacityAssumption
<1> HIDE DEF block
<1>10. \A i \in 1 .. used : i \in 1 .. used + Len(items) BY <1>9
<1>11. \A i \in used + 1 .. used + Len(items) : i \in 1 .. used + Len(items) BY <1>9
<1>12. \A i \in 1 .. used : Contents(m)'[i] = Contents(m)[i] BY <1>3, <1>6, <1>8, <1>10
<1>13. \A i \in used + 1 .. used + Len(items) : Contents(m)'[i] = items[i - used] BY <1>3, <1>8, <1>11
<1> QED BY <1>3, <1>4, <1>5, <1>6, <1>12, <1>13 DEF Keeps

\* Nothing is in a message with nothing used.
LEMMA NothingUsed ==
    ASSUME NEW m \in Names, NEW S, Touching(S), MessagesInv, messages'[m].used = 0
    PROVE  Contents(m)' = <<>>
BY EmptyNext

\* Allocating and releasing empty a message, and touch no other one.
LEMMA ClearedContents ==
    ASSUME MessagesInv, NEW m \in Names, Allocate(m) \/ Release(m) \/ SetUsed(m, 0)
    PROVE  Contents(m)' = <<>> /\ Keeps({m})
<1>1. memory' = memory /\ \A x \in Names \ {m} : messages'[x] = messages[x]
  BY DEF Allocate, Release, SetUsed, Update, MessagesInv, MessagesTypeOK
<1>2. messages'[m].used = 0
  <2>1. messages \in [Names -> MessageType] BY DEF MessagesInv, MessagesTypeOK
  <2>2. \A b : [messages[m] EXCEPT !.block = b, !.used = 0].used = 0 BY <2>1 DEF MessageType
  <2>3. [messages[m] EXCEPT !.used = 0].used = 0 BY <2>1 DEF MessageType
  <2> QED BY <2>1, <2>2, <2>3 DEF Allocate, Release, SetUsed, Update
<1>3. Contents(m)' = <<>> BY <1>2, EmptyNext
<1>4. \A x \in Names \ {m} : Contents(x)' = Contents(x) BY <1>1 DEF Contents
<1> QED BY <1>3, <1>4 DEF Keeps

LEMMA UntouchedContents == ASSUME UNCHANGED messageVars PROVE Keeps({})
BY DEF messageVars, Contents, Keeps

-----------------------------------------------------------------------------
(* Lanes, and what a step leaves as it is *)

LEMMA LaneFacts ==
    ASSUME program \in Candidates
    PROVE  /\ Lanes \subseteq Queues /\ LastQueues \subseteq Queues
           /\ \A q \in Queues : Lane(q) \in Lanes /\ Lane(q) \in Queues
           /\ \A l \in Lanes : Lane(l) = l
           /\ \A q, r \in LastQueues : Lane(q) = Lane(r) => q = r
           /\ ~Is({"multi_queue"}) => Lanes = {1} /\ LastQueues = {QueueCount}
           /\ Is({"multi_queue"}) => Lanes = Queues /\ LastQueues = Queues
           /\ Is({"multi_queue"}) => QueueCount = program.producers /\ ~Is(Copying) /\ ~Is(MainOnly)
           /\ Is({"alternating"}) => Is(MainOnly)
           /\ Is(MainOnly) => QueueCount = 1 /\ ~Is(Copying)
<1>1. 1 \in Queues /\ QueueCount \in Queues BY ProgramFacts
<1>2. Is({"multi_queue"}) => QueueCount = program.producers /\ ~Is(Copying) /\ ~Is(MainOnly)
  BY DEF Is, QueueCount, QueuesOf, Copying, MainOnly
<1>3. Is({"alternating"}) => Is(MainOnly) BY DEF Is, MainOnly
<1>4. Is(MainOnly) => ~Is(Copying) BY DEF Is, MainOnly, Copying
<1>5. Is(MainOnly) => QueueCount = 1
  <2>1. Is(MainOnly) => program.copies = 0 BY <1>4, ProgramFacts
  <2>2. Is(MainOnly) => program.kind # "multi_queue" BY DEF Is, MainOnly
  <2> QED BY <2>1, <2>2 DEF QueueCount, QueuesOf
<1>6. CASE Is({"multi_queue"})
  <2>1. (\A q : Lane(q) = q) /\ LastQueues = Queues BY <1>6 DEF Lane, LastQueues
  <2>2. Lanes = Queues BY <2>1 DEF Lanes
  <2> QED BY <1>2, <1>3, <1>4, <1>5, <1>6, <2>1, <2>2
<1>7. CASE ~Is({"multi_queue"})
  <2>1. (\A q : Lane(q) = 1) /\ LastQueues = {QueueCount} BY <1>7 DEF Lane, LastQueues
  <2>2. Lanes = {1} BY <1>1, <2>1 DEF Lanes
  <2> QED BY <1>1, <1>3, <1>4, <1>5, <1>7, <2>1, <2>2
<1> QED BY <1>6, <1>7

\* Who sends has a lane of his own or shares it, and a name that no other one has.
LEMMA SendingFacts ==
    ASSUME ProgramsInv, NEW t \in Sending
    PROVE  /\ t \in Threads /\ t \notin Copiers /\ OutQueue(t) \in Lanes /\ OutQueue(t) \in Queues
           /\ Id(t) \in 1 .. round /\ Id(t) \in 1 .. program.producers
           /\ Is({"multi_queue"}) => Id(t) = OutQueue(t)
           /\ t = Main \/ t \in Producers
           /\ t = Main => Is(MainOnly) /\ place[Main] \in {"fill", "put", "take"}
           /\ \A u \in Sending : u # t => Id(u) # Id(t)
           /\ Is(Copying) => Id(t) = 1
<1>1. /\ program \in Candidates /\ Main \in Threads /\ Producers \subseteq Threads /\ round \in 1 .. program.producers
      /\ program.producers \in Nat
  BY Parts, ProgramFacts
<1>2. CASE Is(MainOnly)
  <2>1. t = Main /\ place[Main] \in {"fill", "put", "take"} /\ Sending = {Main} BY <1>2 DEF Sending
  <2>2. ~Is({"multi_queue"}) /\ OutQueue(Main) = 1 /\ Id(Main) = 1 BY <1>2 DEF Is, MainOnly, OutQueue, Main, Id
  <2>3. Main \notin Copiers BY <1>1, ThreadFacts
  <2>4. 1 \in 1 .. round /\ 1 \in 1 .. program.producers BY <1>1
  <2>5. 1 \in Lanes /\ 1 \in Queues BY <1>1, <2>2, LaneFacts
  <2> QED BY <1>1, <1>2, <2>1, <2>2, <2>3, <2>4, <2>5
<1>3. CASE ~Is(MainOnly)
  <2>1. Sending = {u \in Producers : u[2] <= round} BY <1>3 DEF Sending
  <2>2. t \in Producers /\ t[2] <= round BY <2>1
  <2>3. \A u \in Producers : u # Main /\ u = <<"producer", u[2]>> /\ u[2] \in 1 .. program.producers /\ Id(u) = u[2]
    BY <1>1 DEF Producers, Main, Id
  <2>4. OutQueue(t) = IF Is({"multi_queue"}) THEN t[2] ELSE 1
    <3>1. t[1] = "producer" BY <2>2 DEF Producers
    <3> QED BY <3>1 DEF OutQueue
  <2>5. Id(t) \in 1 .. round /\ Id(t) \in 1 .. program.producers BY <1>1, <2>2, <2>3
  <2>6. t \notin Copiers /\ OutQueue(t) \in Queues /\ t # Main BY <1>1, <2>2, <2>3, ThreadFacts
  <2>7. OutQueue(t) \in Lanes BY <1>1, <2>4, <2>6, LaneFacts
  <2>8. \A u \in Sending : u # t => Id(u) # Id(t) BY <2>1, <2>2, <2>3
  <2>9. Is(Copying) => Id(t) = 1
    <3>1. Is(Copying) => program.producers = 1
      <4>1. Is(Copying) => Is(MainOnly \cup Copying) BY DEF Is
      <4> QED BY <1>1, <4>1, ProgramFacts
    <3> QED BY <2>5, <3>1
  <2>10. Is({"multi_queue"}) => Id(t) = OutQueue(t) BY <2>2, <2>3, <2>4
  <2> QED BY <1>1, <2>2, <2>5, <2>6, <2>7, <2>8, <2>9, <2>10
<1> QED BY <1>2, <1>3

LEMMA FixedMore ==
    ASSUME program' = program
    PROVE  /\ \A t : OutMessage(t)' = OutMessage(t) /\ OutQueue(t)' = OutQueue(t) /\ InQueue(t)' = InQueue(t)
                     /\ Published(t)' = Published(t) /\ Id(t)' = Id(t)
           /\ \A q, k : Entry(q, k)' = Entry(q, k)
           /\ \A q : Lane(q)' = Lane(q)
           /\ Lanes' = Lanes /\ LastQueues' = LastQueues /\ QueueCount' = QueueCount
           /\ \A s, before : Follow(s, before)' <=> Follow(s, before)
           /\ round' = round => PerProducer' = PerProducer /\ Total' = Total
<1>1. QueueCount' = QueueCount BY DEF QueueCount
<1>2. Queues' = Queues /\ \A kinds : Is(kinds)' = Is(kinds) BY Fixed
<1>3. \A t : OutMessage(t)' = OutMessage(t) /\ OutQueue(t)' = OutQueue(t) /\ InQueue(t)' = InQueue(t) /\ Id(t)' = Id(t)
  BY <1>1, <1>2 DEF OutMessage, OutQueue, InQueue, Id
<1>4. \A t : Published(t)' = Published(t) BY <1>3, Fixed DEF Published
<1>5. \A q, k : Entry(q, k)' = Entry(q, k) BY DEF Entry
<1>6. \A q : Lane(q)' = Lane(q) BY <1>2 DEF Lane
<1>7. Lanes' = Lanes BY <1>2, <1>6 DEF Lanes
<1>8. LastQueues' = LastQueues BY <1>1, <1>2 DEF LastQueues
<1>9. \A s, before : Follow(s, before)' <=> Follow(s, before) BY DEF Follow
<1>10. round' = round => PerProducer' = PerProducer /\ Total' = Total BY DEF PerProducer, Total
<1> QED BY <1>1, <1>3, <1>4, <1>5, <1>6, <1>7, <1>8, <1>9, <1>10

LEMMA OrderedStays ==
    ASSUME program' = program, round' = round, \A l \in Lanes : written'[l] = written[l],
           NEW sent, NEW base, Ordered(sent, base)
    PROVE  Ordered(sent, base)'
<1>1. /\ Lanes' = Lanes /\ PerProducer' = PerProducer /\ \A kinds : Is(kinds)' = Is(kinds)
      /\ \A s, before : Follow(s, before)' <=> Follow(s, before)
  BY FixedMore, Fixed
<1> QED BY <1>1 DEF Ordered

LEMMA NextContents ==
    ASSUME program' = program, NEW q, NEW k, NEW e, e = Entry(q, k)
    PROVE  Contents(Entry(q, k))' = Contents(e)'
<1>1. Entry(q, k)' = e BY FixedMore
<1> QED BY <1>1 DEF Contents

LEMMA QueuedStays ==
    ASSUME program \in Candidates, QueuesType, UNCHANGED <<program, taken, written>>,
           \A m \in EntryMessages : Contents(m)' = Contents(m),
           NEW sent, Queued(sent)
    PROVE  Queued(sent)'
<1>1. Queues' = Queues /\ (\A q : Lane(q)' = Lane(q)) /\ (\A q, k : Entry(q, k)' = Entry(q, k))
  BY FixedMore, Fixed
<1>2. \A q \in Queues, k \in Nat : Contents(Entry(q, k))' = Contents(Entry(q, k))
  <2> TAKE q \in Queues, k \in Nat
  <2>1. PICK e : e = Entry(q, k) OBVIOUS
  <2>2. e \in EntryMessages BY <2>1, EntryFacts
  <2>3. Contents(Entry(q, k))' = Contents(e)' BY <2>1, NextContents
  <2> QED BY <2>1, <2>2, <2>3
<1> QED BY <1>1, <1>2 DEF Queued

LEMMA InCopyFacts ==
    ASSUME ProgramsInv, NEW t \in Copiers
    PROVE  /\ t \in Threads /\ t # Main /\ InCopy(t) \subseteq Mine(t) /\ Mine(t) \subseteq Names
           /\ InQueue(t) \in Queues /\ OutQueue(t) \in Queues
           /\ OutQueue(t) = InQueue(t) + 1 /\ InQueue(t) = t[2] /\ InQueue(t) \in Nat
           /\ \A u \in Copiers : u # t => InQueue(u) # InQueue(t) /\ OutQueue(u) # OutQueue(t)
           /\ Lane(InQueue(t)) = 1 /\ Lane(OutQueue(t)) = 1 /\ OutQueue(t) # 1
           /\ ~Is({"multi_queue"}) /\ Is(Copying) /\ InQueue(t) # QueueCount
<1>1. program \in Candidates /\ t \in Threads /\ Copiers \subseteq Threads BY Parts DEF Threads
<1>2. /\ t # Main /\ t[1] = "copier" /\ t[2] \in 1 .. program.copies /\ Is(Copying) /\ Mine(t) \subseteq Names
      /\ InMessage(t) \in Mine(t) /\ Published(t) \in Mine(t)
      /\ InQueue(t) \in Queues /\ OutQueue(t) \in Queues
  BY <1>1, ThreadFacts, MessageFacts
<1>3. \A u \in Copiers : OutQueue(u) = u[2] + 1 /\ InQueue(u) = u[2] /\ u[2] \in 1 .. program.copies /\ u = <<"copier", u[2]>>
  BY DEF Copiers, OutQueue, InQueue, Main
<1>4. InCopy(t) \subseteq Mine(t) BY <1>2 DEF InCopy
<1>5. program.copies \in Nat BY <1>1, ProgramFacts
<1>6. \A u \in Copiers : u # t => u[2] # t[2] BY <1>3
<1>7. ~Is({"multi_queue"}) BY <1>1, <1>2, LaneFacts
<1>8. QueueCount = program.copies + 1 BY <1>7 DEF QueueCount, QueuesOf, Is
<1>9. \A q : Lane(q) = 1 BY <1>7 DEF Lane
<1> QED BY <1>1, <1>2, <1>3, <1>4, <1>5, <1>6, <1>7, <1>8, <1>9

LEMMA HandedStays ==
    ASSUME ProgramsInv, program' = program, NEW t \in Copiers, place'[t] = place[t],
           taken'[InQueue(t)] = taken[InQueue(t)], written'[OutQueue(t)] = written[OutQueue(t)],
           \A m \in Mine(t) : Contents(m)' = Contents(m),
           NEW sent, HandedBy(sent, t)
    PROVE  HandedBy(sent, t)'
<1>1. InCopy(t)' = InCopy(t)
  <2>1. InMessage(t)' = InMessage(t) /\ Published(t)' = Published(t) BY Fixed, FixedMore
  <2> QED BY <2>1 DEF InCopy
<1>2. InQueue(t)' = InQueue(t) /\ OutQueue(t)' = OutQueue(t) BY FixedMore
<1>3. InCopy(t) \subseteq Mine(t) BY InCopyFacts
<1>4. taken[InQueue(t)]' = taken[InQueue(t)] /\ written[OutQueue(t)]' = written[OutQueue(t)] BY <1>2
<1> QED BY <1>1, <1>3, <1>4 DEF HandedBy

LEMMA InHandStays ==
    ASSUME program' = program, NEW t, place'[t] = place[t], Contents(OutMessage(t))' = Contents(OutMessage(t))
    PROVE  InHand(t)' = InHand(t)
<1>1. Is({"batched"})' = Is({"batched"}) BY Fixed
<1> QED BY <1>1 DEF InHand

LEMMA SentStays ==
    ASSUME program' = program, round' = round, NEW t, place'[t] = place[t], number'[t] = number[t],
           Contents(OutMessage(t))' = Contents(OutMessage(t)),
           NEW sent, NEW base, NEW sent2,
           \A n : <<Id(t), n>> \in Before(sent2, base, OutQueue(t), written'[OutQueue(t)])
                     <=> <<Id(t), n>> \in Before(sent, base, OutQueue(t), written[OutQueue(t)]),
           SentBy(sent, base, t)
    PROVE  SentBy(sent2, base, t)'
<1>1. InHand(t)' = InHand(t) BY InHandStays
<1>2. OutQueue(t)' = OutQueue(t) /\ Id(t)' = Id(t) /\ PerProducer' = PerProducer BY FixedMore
<1>3. Before(sent2, base, OutQueue(t), written[OutQueue(t)])' = Before(sent2, base, OutQueue(t), written'[OutQueue(t)])
  BY <1>2
<1>4. Is(Copying)' = Is(Copying) BY Fixed
<1> QED BY <1>1, <1>2, <1>3, <1>4 DEF SentBy

LEMMA CollectedStays ==
    ASSUME program' = program, consumed' = consumed, \A q \in LastQueues : taken'[q] = taken[q],
           NEW sent, NEW base, Collected(sent, base)
    PROVE  Collected(sent, base)'
<1>1. LastQueues' = LastQueues /\ (\A q : Lane(q)' = Lane(q)) BY FixedMore
<1> QED BY <1>1 DEF Collected

LEMMA FollowNext ==
    ASSUME program' = program, Follow(consumed', {}) PROVE Follow(consumed, {})'
<1>1. PICK s : s = consumed' OBVIOUS
<1>2. Follow(s, {})' BY <1>1, FixedMore
<1>3. Follow(s, {})' <=> Follow(consumed, {})' BY <1>1 DEF Follow
<1> QED BY <1>2, <1>3

LEMMA NoneYetStays ==
    ASSUME ProgramsInv, program' = program, NoneYet,
           \A t \in Producers : Is({"batched"}) /\ place'[t] \in {"off", "start", "construct", "spin", "ended"} =>
               Contents(OutMessage(t))' = <<>>
               \/ (place'[t] = place[t] /\ Contents(OutMessage(t))' = Contents(OutMessage(t)))
    PROVE  NoneYet'
<1>1. Producers' = Producers /\ Is({"batched"})' = Is({"batched"}) BY Fixed
<1> QED BY <1>1 DEF NoneYet

\* Where main is, and so who sends and what is flowing.
LEMMA MainStays ==
    ASSUME program' = program, round' = round, place'[Main] = place[Main], taken' = taken, consumed' = consumed
    PROVE  Again' = Again /\ Flowing' = Flowing /\ Sending' = Sending /\ Complete' = Complete
<1>1. Producers' = Producers /\ \A kinds : Is(kinds)' = Is(kinds) BY Fixed
<1>2. Again' = Again BY <1>1 DEF Again
<1>3. Flowing' = Flowing BY <1>2 DEF Flowing
<1>4. Sending' = Sending BY <1>1 DEF Sending
<1>5. Complete' = Complete BY FixedMore DEF Complete
<1> QED BY <1>2, <1>3, <1>4, <1>5

\* A step of a thread with its own messages.
LEMMA ThreadFlow ==
    ASSUME ProgramsInv, InOrderInv, NEW t \in Threads \ {Main}, NEW S, Keeps(S), S \subseteq Mine(t),
           UNCHANGED <<program, taken, written, round, consumed>>,
           \A u \in Threads \ {t} : place'[u] = place[u] /\ number'[u] = number[u],
           t \in Copiers => \A sent \in Sents, base \in Nat : Flow(sent, base) /\ HandedBy(sent, t) => HandedBy(sent, t)',
           t \in Producers => \A sent \in Sents, base \in Nat : SentBy(sent, base, t) => SentBy(sent, base, t)',
           t \in Producers /\ Is({"batched"}) /\ place'[t] \in {"off", "start", "construct", "spin", "ended"} =>
               Contents(OutMessage(t))' = <<>>
    PROVE  InOrderInv'
<1>1. /\ program \in Candidates /\ Main \in Threads /\ Producers \subseteq Threads /\ Copiers \subseteq Threads
      /\ QueuesType
  BY Parts
<1>2. place'[Main] = place[Main] /\ number'[Main] = number[Main] BY <1>1
<1>3. /\ Again' = Again /\ Flowing' = Flowing /\ Sending' = Sending /\ Complete' = Complete
      /\ Queues' = Queues /\ Copiers' = Copiers /\ Total' = Total /\ \A kinds : Is(kinds)' = Is(kinds)
  BY <1>2, MainStays, Fixed, FixedMore
<1>4. \A u \in Threads \ {t} : \A m \in Mine(u) : Contents(m)' = Contents(m)
  BY <1>1, Apart, MessageFacts DEF Keeps
<1>5. \A m \in EntryMessages : Contents(m)' = Contents(m)
  <2>1. \A m \in Mine(t) : m \notin EntryMessages BY <1>1, NotEntries
  <2> QED BY <1>1, <2>1, EntryNames DEF Keeps
<1> SUFFICES ASSUME ~Is({"user", "no_consumer"}) PROVE InOrderInv' BY <1>3 DEF InOrderInv
<1>6. Follow(consumed, {})'
  <2>1. Follow(consumed, {}) BY DEF InOrderInv
  <2> QED BY <2>1, FollowNext
<1>7. NoneYet'
  <2>1. NoneYet BY DEF InOrderInv
  <2>2. \A u \in Producers \ {t} : place'[u] = place[u] /\ Contents(OutMessage(u))' = Contents(OutMessage(u))
    BY <1>1, <1>4, MessageFacts
  <2> QED BY <2>1, <2>2, NoneYetStays
<1>8. (place[Main] \in {"join", "done"} \/ Again => Complete)' BY <1>2, <1>3 DEF InOrderInv
<1>9. (place[Main] \in {"create", "round"} /\ ~Again =>
              /\ \E base \in Nat : Rest(base)
              /\ Is(MainOnly) => consumed = <<>>
              /\ place[Main] = "create" => taken[1] = 0)'
  <2>1. \A base \in Nat : Rest(base) => Rest(base)' BY <1>3 DEF Rest
  <2> QED BY <1>2, <1>3, <2>1 DEF InOrderInv
<1>10. ASSUME Flowing PROVE \E sent \in Sents, base \in Nat : Flow(sent, base)'
  <2>1. PICK sent \in Sents, base \in Nat : Flow(sent, base) BY <1>10 DEF InOrderInv, Sents
  <2>2. Ordered(sent, base)' BY <2>1, OrderedStays DEF Flow
  <2>3. Queued(sent)' BY <1>1, <1>5, <2>1, QueuedStays DEF Flow
  <2>4. Collected(sent, base)' BY <2>1, CollectedStays DEF Flow
  <2>5. Counts' BY <1>2, <1>3, <2>1 DEF Flow, Counts
  <2>6. ASSUME NEW u \in Copiers PROVE HandedBy(sent, u)'
    <3>1. HandedBy(sent, u) BY <2>1 DEF Flow
    <3>2. CASE u = t BY <2>1, <3>1, <3>2
    <3>3. CASE u # t BY <1>1, <1>4, <3>1, <3>3, HandedStays
    <3> QED BY <3>2, <3>3
  <2>7. ASSUME NEW u \in Sending PROVE SentBy(sent, base, u)'
    <3>1. SentBy(sent, base, u) BY <2>1 DEF Flow
    <3>2. u \in Threads /\ (u = Main \/ u \in Producers) BY SendingFacts
    <3>3. CASE u = t BY <2>1, <3>1, <3>2, <3>3
    <3>4. CASE u # t
      <4>1. Contents(OutMessage(u))' = Contents(OutMessage(u)) BY <1>1, <1>4, <3>2, <3>4, MessageFacts
      <4> QED BY <1>1, <3>1, <3>2, <3>4, <4>1, SentStays
    <3> QED BY <3>3, <3>4
  <2>8. \A q \in Queues' : base <= taken'[q] BY <1>3, <2>1 DEF Flow
  <2> QED BY <1>3, <2>1, <2>2, <2>3, <2>4, <2>5, <2>6, <2>7, <2>8 DEF Flow
<1>11. (Flowing => \E sent \in [Queues -> [Nat -> Seq(Items)]], base \in Nat : Flow(sent, base))'
  BY <1>3, <1>10 DEF Sents
<1> QED BY <1>6, <1>7, <1>8, <1>9, <1>11 DEF InOrderInv

-----------------------------------------------------------------------------
(* The threads and their own messages *)

\* Nothing is in hand before or after, or one object more.
LEMMA SentIdle ==
    ASSUME UNCHANGED <<program, round, written>>, NEW t, number'[t] = number[t],
           InHand(t) = <<>>, InHand(t)' = <<>>, place'[t] \notin {"publish", "put"},
           place'[t] = "last" => Is(Copying) /\ Contents(OutMessage(t))' = <<>> /\ number[t] = PerProducer,
           NEW sent, NEW base, SentBy(sent, base, t)
    PROVE  SentBy(sent, base, t)'
<1>1. OutQueue(t)' = OutQueue(t) /\ Id(t)' = Id(t) /\ PerProducer' = PerProducer BY FixedMore
<1>2. Len(InHand(t)') = Len(InHand(t)) /\ \A i : InHand(t)'[i] = InHand(t)[i] OBVIOUS
<1>3. Before(sent, base, OutQueue(t), written[OutQueue(t)])' = Before(sent, base, OutQueue(t), written[OutQueue(t)])
  BY <1>1
<1>4. InHand(t)' = InHand(t) OBVIOUS
<1>5. Is(Copying)' = Is(Copying) BY Fixed
<1> QED BY <1>1, <1>3, <1>4, <1>5 DEF SentBy

LEMMA SentAdds ==
    ASSUME ProgramsInv, UNCHANGED <<program, round, written>>, NEW t \in Threads, number'[t] = number[t] + 1,
           number[t] < PerProducer,
           InHand(t) \in Seq(Items), InHand(t)' \in Seq(Items), Len(InHand(t)') = Len(InHand(t)) + 1,
           \A i \in 1 .. Len(InHand(t)) : InHand(t)'[i] = InHand(t)[i],
           InHand(t)'[Len(InHand(t)) + 1] = <<Id(t), number[t]>>,
           place'[t] \in {"publish", "put"} => Len(InHand(t)) = 0, place'[t] # "last",
           NEW sent, NEW base, SentBy(sent, base, t)
    PROVE  SentBy(sent, base, t)'
<1>1. OutQueue(t)' = OutQueue(t) /\ Id(t)' = Id(t) /\ PerProducer' = PerProducer BY FixedMore
<1>2. Before(sent, base, OutQueue(t), written[OutQueue(t)])' = Before(sent, base, OutQueue(t), written[OutQueue(t)])
  BY <1>1
<1>3. PICK n : n = Len(InHand(t)) OBVIOUS
<1>4. PICK c : c = number[t] OBVIOUS
<1>5. n \in Nat /\ c \in Nat BY <1>3, <1>4, Parts, LenProperties
<1>6. PerProducer \in Int
  <2>1. round \in 1 .. program.producers /\ program \in Candidates BY Parts
  <2>2. program.target \in Nat /\ program.producers \in Nat BY <2>1, ProgramFacts
  <2>3. round \in Nat \ {0} BY <2>1, <2>2
  <2> QED BY <2>2, <2>3 DEF PerProducer
<1>7. Len(InHand(t)') = n + 1 /\ number'[t] = c + 1 BY <1>3, <1>4
<1>8. (c + 1) - (n + 1) = c - n BY <1>5
<1>9. \A i \in 1 .. n : InHand(t)[i] = <<Id(t), c - n + i - 1>> BY <1>3, <1>4 DEF SentBy
<1>10. \A i \in 1 .. n + 1 : InHand(t)'[i] = <<Id(t), c - n + i - 1>>
  <2> TAKE i \in 1 .. n + 1
  <2>1. CASE i \in 1 .. n BY <1>3, <1>9, <2>1
  <2>2. CASE i = n + 1
    <3>1. c - n + i - 1 = c BY <1>5, <2>2
    <3> QED BY <1>3, <1>4, <2>2, <3>1
  <2> QED BY <1>5, <2>1, <2>2
<1>11. c + 1 <= PerProducer BY <1>4, <1>5, <1>6
<1>12. c - n >= 0 BY <1>3, <1>4 DEF SentBy
<1>13. place'[t] \in {"publish", "put"} => n + 1 = 1 BY <1>3, <1>5
<1>14. \A k \in 0 .. program.target - 1 :
          <<Id(t), k>> \in Before(sent, base, OutQueue(t), written[OutQueue(t)]) <=> k < c - n
  BY <1>3, <1>4 DEF SentBy
<1> QED BY <1>1, <1>2, <1>7, <1>8, <1>10, <1>11, <1>12, <1>13, <1>14 DEF SentBy

LEMMA HandedIdle ==
    ASSUME UNCHANGED <<program, taken, written>>, NEW t, InCopy(t) = {}, InCopy(t)' = {},
           NEW sent, HandedBy(sent, t)
    PROVE  HandedBy(sent, t)'
BY FixedMore DEF HandedBy

\* Before and after its loop a thread has nothing in hand.
LEMMA IdleFlow ==
    ASSUME ProgramsInv, InOrderInv, NEW t \in Threads \ {Main}, NEW where, NEW S, Keeps(S), S \subseteq Mine(t),
           UNCHANGED <<program, number, taken, written, round, consumed>>,
           place' = [place EXCEPT ![t] = where],
           place[t] \notin {"publish", "put", "loop", "last", "copy", "pass"},
           where \notin {"publish", "put", "loop", "last", "copy", "pass"},
           t \in Producers /\ Is({"batched"}) /\ where \in {"off", "start", "construct", "spin", "ended"} =>
               Contents(OutMessage(t))' = <<>>
    PROVE  InOrderInv'
<1>1. place \in [Threads -> Places] BY Parts
<1>2. place'[t] = where /\ \A u \in Threads \ {t} : place'[u] = place[u] BY <1>1
<1>3. InCopy(t) = {} /\ InCopy(t)' = {} BY <1>2 DEF InCopy
<1>4. InHand(t) = <<>> /\ InHand(t)' = <<>> BY <1>2 DEF InHand
<1>5. \A sent \in Sents, base \in Nat : Flow(sent, base) /\ HandedBy(sent, t) => HandedBy(sent, t)' BY <1>3, HandedIdle
<1>6. \A sent \in Sents, base \in Nat : SentBy(sent, base, t) => SentBy(sent, base, t)' BY <1>2, <1>4, SentIdle
<1> QED BY <1>2, <1>5, <1>6, ThreadFlow

LEMMA NoneYetFacts ==
    ASSUME InOrderInv, NEW t \in Producers, Is({"batched"}), place[t] \in {"off", "start", "construct", "spin", "ended"}
    PROVE  Contents(OutMessage(t)) = <<>>
<1>1. ~Is({"user", "no_consumer"}) BY DEF Is
<1> QED BY <1>1 DEF InOrderInv, NoneYet

LEMMA StartFlow == ASSUME ProgramsInv, InOrderInv, NEW t \in Threads \ {Main}, StartThread(t) PROVE InOrderInv'
<1>1. /\ place[t] = "start" /\ place' = [place EXCEPT ![t] = "construct"]
      /\ UNCHANGED <<messageVars, program, number, taken, written, round, consumed>>
  BY DEF StartThread, At, Goto
<1>2. Keeps({}) BY <1>1, UntouchedContents
<1>3. t \in Producers /\ Is({"batched"}) => Contents(OutMessage(t))' = <<>>
  BY <1>1, <1>2, NoneYetFacts, Parts, MessageFacts DEF Keeps
<1> QED BY <1>1, <1>2, <1>3, IdleFlow

LEMMA ConstructFlow == ASSUME ProgramsInv, InOrderInv, NEW t \in Threads \ {Main}, ConstructMessages(t) PROVE InOrderInv'
<1>1. /\ place[t] = "construct"
      /\ UNCHANGED <<program, number, taken, written, round, consumed>>
      /\ \/ \E m \in {InMessage(t), OutMessage(t)} : Construct(m, t, "construct")
         \/ Goto(t, IF t \in Producers THEN "spin" ELSE "get") /\ UNCHANGED messageVars
  BY DEF ConstructMessages, At, queueVars
<1>2. /\ program \in Candidates /\ Mine(t) \subseteq Names /\ InMessage(t) \in Mine(t) /\ OutMessage(t) \in Mine(t)
      /\ MessagesInv
  BY Parts, MessageFacts
<1>3. t \in Producers /\ Is({"batched"}) => Contents(OutMessage(t)) = <<>> BY <1>1, NoneYetFacts
<1>4. CASE Goto(t, IF t \in Producers THEN "spin" ELSE "get") /\ UNCHANGED messageVars
  <2> DEFINE where == IF t \in Producers THEN "spin" ELSE "get"
  <2>1. Keeps({}) BY <1>4, UntouchedContents
  <2>2. t \in Producers /\ Is({"batched"}) => Contents(OutMessage(t))' = <<>> BY <1>2, <1>3, <2>1 DEF Keeps
  <2>3. place' = [place EXCEPT ![t] = where] BY <1>4 DEF Goto
  <2>4. where \notin {"publish", "put", "loop", "last", "copy", "pass"} OBVIOUS
  <2> HIDE DEF where
  <2> QED BY <1>1, <2>1, <2>2, <2>3, <2>4, IdleFlow
<1>5. ASSUME NEW m \in {InMessage(t), OutMessage(t)}, Construct(m, t, "construct") PROVE InOrderInv'
  <2>1. CASE Available \cap Pool = {}
    <3>1. place' = [place EXCEPT ![t] = "failed"] /\ UNCHANGED messageVars BY <1>5, <2>1 DEF Construct, Goto
    <3>2. Keeps({}) BY <3>1, UntouchedContents
    <3> QED BY <1>1, <3>1, <3>2, IdleFlow
  <2>2. CASE Available \cap Pool # {}
    <3>1. place' = [place EXCEPT ![t] = "construct"] /\ Allocate(m) BY <1>5, <2>2 DEF Construct, Goto
    <3>2. m \in Names /\ {m} \subseteq Mine(t) BY <1>2
    <3>3. Contents(m)' = <<>> /\ Keeps({m}) BY <1>2, <3>1, <3>2, ClearedContents
    <3>4. t \in Producers /\ Is({"batched"}) => Contents(OutMessage(t))' = <<>> BY <1>2, <1>3, <3>3 DEF Keeps
    <3> QED BY <1>1, <3>1, <3>2, <3>3, <3>4, IdleFlow
  <2> QED BY <2>1, <2>2
<1> QED BY <1>1, <1>4, <1>5

LEMMA DestructFlow == ASSUME ProgramsInv, InOrderInv, NEW t \in Threads \ {Main}, Destruct(t) PROVE InOrderInv'
<1>1. /\ place[t] = "leave" /\ place \in [Threads -> Places]
      /\ UNCHANGED <<program, number, taken, written, round, consumed>>
  BY Parts DEF Destruct, At, Local, queueVars
<1>2. /\ program \in Candidates /\ Mine(t) \subseteq Names /\ InMessage(t) \in Mine(t) /\ OutMessage(t) \in Mine(t)
      /\ MessagesInv
  BY Parts, MessageFacts
<1>3. \/ \E m \in {InMessage(t), OutMessage(t)} : Release(m) /\ UNCHANGED place
      \/ place' = [place EXCEPT ![t] = "ended"] /\ UNCHANGED messageVars /\ ~Has(OutMessage(t))
  BY DEF Destruct, Goto
<1>4. CASE place' = [place EXCEPT ![t] = "ended"] /\ UNCHANGED messageVars /\ ~Has(OutMessage(t))
  <2>1. Keeps({}) BY <1>4, UntouchedContents
  <2>2. messages[OutMessage(t)].used = 0 /\ messages' = messages BY <1>2, <1>4, Fields DEF messageVars
  <2>3. Contents(OutMessage(t))' = <<>> BY <1>2, <2>2, EmptyNext
  <2> QED BY <1>1, <1>4, <2>1, <2>3, IdleFlow
<1>5. ASSUME NEW m \in {InMessage(t), OutMessage(t)}, Release(m), UNCHANGED place PROVE InOrderInv'
  <2>1. m \in Names /\ {m} \subseteq Mine(t) BY <1>2
  <2>2. Keeps({m}) BY <1>2, <1>5, <2>1, ClearedContents
  <2>3. place' = [place EXCEPT ![t] = "leave"] BY <1>1, <1>5
  <2> QED BY <1>1, <2>1, <2>2, <2>3, IdleFlow
<1> QED BY <1>3, <1>4, <1>5

LEMMA GoFlow == ASSUME ProgramsInv, InOrderInv, NEW t \in Threads \ {Main}, Go(t) PROVE InOrderInv'
<1>1. /\ place[t] = "spin" /\ place' = [place EXCEPT ![t] = "loop"]
      /\ UNCHANGED <<messageVars, program, number, taken, written, round, consumed>>
  BY DEF Go, At, Goto, Local, queueVars
<1>2. place \in [Threads -> Places] /\ Keeps({}) /\ program \in Candidates BY <1>1, Parts, UntouchedContents
<1>3. place'[t] = "loop" /\ \A u \in Threads \ {t} : place'[u] = place[u] BY <1>1, <1>2
<1>4. t \in Producers /\ t \notin Copiers BY <1>1, <1>2, Parts, ThreadFacts DEF CopierPlaces, Threads
<1>5. Is({"batched"}) => Contents(OutMessage(t))' = <<>>
  BY <1>1, <1>2, <1>4, NoneYetFacts, MessageFacts DEF Keeps
<1>6. InHand(t) = <<>> BY <1>1 DEF InHand
<1>7. InHand(t)' = <<>> BY <1>1, <1>3, <1>5, Fixed DEF InHand
<1>8. \A sent \in Sents, base \in Nat : SentBy(sent, base, t) => SentBy(sent, base, t)'
  BY <1>1, <1>3, <1>6, <1>7, SentIdle
<1>9. {} \subseteq Mine(t) OBVIOUS
<1>10. \A u \in Threads \ {t} : number'[u] = number[u] BY <1>1
<1>11. UNCHANGED <<program, taken, written, round, consumed>> BY <1>1
<1>12. place'[t] \notin {"off", "start", "construct", "spin", "ended"} BY <1>3
<1> QED BY <1>2, <1>3, <1>4, <1>8, <1>9, <1>10, <1>11, <1>12, ThreadFlow

\* A producer's loop.
LEMMA LoopFacts ==
    ASSUME ProgramsInv, NEW t \in Threads \ {Main}, place[t] = "loop"
    PROVE  /\ t \in Producers /\ t \notin Copiers /\ Id(t) = t[2] /\ OutMessage(t) \in Names /\ OutMessage(t) \in Mine(t)
           /\ InHand(t) = IF Is({"batched"}) THEN Contents(OutMessage(t)) ELSE <<>>
           /\ Contents(OutMessage(t)) \in Seq(Items)
           /\ Len(Contents(OutMessage(t))) = messages[OutMessage(t)].used
<1>1. t \in Producers /\ t \notin Copiers BY Parts, ThreadFacts DEF CopierPlaces, Threads
<1>2. OutMessage(t) \in Names /\ OutMessage(t) \in Mine(t) /\ MessagesInv BY Parts, MessageFacts
<1>3. Id(t) = t[2] BY DEF Id
<1>4. InHand(t) = IF Is({"batched"}) THEN Contents(OutMessage(t)) ELSE <<>> BY DEF InHand
<1> QED BY <1>1, <1>2, <1>3, <1>4, ContentsType

LEMMA FillFlow == ASSUME ProgramsInv, InOrderInv, NEW t \in Threads \ {Main}, Fill(t) PROVE InOrderInv'
<1>1. /\ place[t] = "loop" /\ More(t) /\ ~Is({"batched"})
      /\ Emplace(OutMessage(t), <<t[2], number[t]>>)
      /\ number' = [number EXCEPT ![t] = number[t] + 1]
      /\ place' = [place EXCEPT ![t] = "publish"]
      /\ UNCHANGED <<program, taken, written, round, consumed>>
  BY DEF Fill, At, Goto, Local, queueVars
<1>2. /\ place \in [Threads -> Places] /\ number \in [Threads -> Nat] /\ MessagesInv BY Parts
<1>3. /\ t \in Producers /\ t \notin Copiers /\ Id(t) = t[2] /\ OutMessage(t) \in Names /\ OutMessage(t) \in Mine(t)
      /\ InHand(t) = <<>>
  BY <1>1, LoopFacts
<1>4. place'[t] = "publish" /\ number'[t] = number[t] + 1
      /\ \A u \in Threads \ {t} : place'[u] = place[u] /\ number'[u] = number[u]
  BY <1>1, <1>2
<1>5. PICK x \in Items : x = <<t[2], number[t]>> BY <1>1, <1>3, ItemFacts
<1>6. Emplace(OutMessage(t), x) BY <1>1, <1>5
<1>7. Contents(OutMessage(t))' = <<x>> /\ Keeps({OutMessage(t)}) BY <1>2, <1>3, <1>6, EmplacedContents
<1>8. InHand(t)' = <<x>> BY <1>4, <1>7 DEF InHand
<1>9. /\ InHand(t) \in Seq(Items) /\ InHand(t)' \in Seq(Items) /\ Len(InHand(t)') = Len(InHand(t)) + 1
      /\ Len(InHand(t)) = 0 /\ InHand(t)'[Len(InHand(t)) + 1] = x
  <2>1. <<x>> \in Seq(Items) /\ Len(<<x>>) = 1 /\ <<x>>[1] = x OBVIOUS
  <2>2. InHand(t) \in Seq(Items) /\ Len(InHand(t)) = 0 BY <1>3
  <2>3. InHand(t)' \in Seq(Items) /\ Len(InHand(t)') = 1 /\ InHand(t)'[1] = x BY <1>8, <2>1
  <2>4. 0 + 1 = 1 OBVIOUS
  <2> QED BY <2>2, <2>3, <2>4
<1>10. \A i \in 1 .. Len(InHand(t)) : InHand(t)'[i] = InHand(t)[i] BY <1>9
<1>11. InHand(t)'[Len(InHand(t)) + 1] = <<Id(t), number[t]>> BY <1>3, <1>5, <1>9
<1>12. number[t] < PerProducer BY <1>1 DEF More
<1>13. \A sent \in Sents, base \in Nat : SentBy(sent, base, t) => SentBy(sent, base, t)'
  BY <1>1, <1>4, <1>9, <1>10, <1>11, <1>12, SentAdds
<1>14. {OutMessage(t)} \subseteq Mine(t) BY <1>3
<1> QED BY <1>1, <1>3, <1>4, <1>7, <1>13, <1>14, ThreadFlow

LEMMA AddFlow == ASSUME ProgramsInv, InOrderInv, NEW t \in Threads \ {Main}, Add(t) PROVE InOrderInv'
<1>1. /\ place[t] = "loop" /\ More(t) /\ Is({"batched"})
      /\ AppendTo(OutMessage(t), <<<<t[2], number[t]>>>>)
      /\ number' = [number EXCEPT ![t] = number[t] + 1]
      /\ place' = place
      /\ UNCHANGED <<program, taken, written, round, consumed>>
  BY DEF Add, At, Local, queueVars
<1>2. number \in [Threads -> Nat] /\ MessagesInv BY Parts
<1>3. /\ t \in Producers /\ t \notin Copiers /\ Id(t) = t[2] /\ OutMessage(t) \in Names /\ OutMessage(t) \in Mine(t)
      /\ InHand(t) = Contents(OutMessage(t)) /\ Contents(OutMessage(t)) \in Seq(Items)
  BY <1>1, LoopFacts
<1>4. number'[t] = number[t] + 1 /\ \A u \in Threads \ {t} : place'[u] = place[u] /\ number'[u] = number[u]
  BY <1>1, <1>2
<1>5. PICK s \in Seq(Items) : s = <<<<t[2], number[t]>>>>
  <2>1. PICK x \in Items : x = <<t[2], number[t]>> BY <1>1, <1>3, ItemFacts
  <2>2. <<x>> \in Seq(Items) OBVIOUS
  <2>3. <<x>> = <<<<t[2], number[t]>>>> BY <2>1
  <2> QED BY <2>2, <2>3
<1>6. AppendTo(OutMessage(t), s) BY <1>1, <1>5
<1>7. /\ Contents(OutMessage(t))' \in Seq(Items)
      /\ Len(Contents(OutMessage(t))') = Len(Contents(OutMessage(t))) + Len(s)
      /\ \A i \in 1 .. Len(Contents(OutMessage(t))) : Contents(OutMessage(t))'[i] = Contents(OutMessage(t))[i]
      /\ \A i \in Len(Contents(OutMessage(t))) + 1 .. Len(Contents(OutMessage(t))) + Len(s) :
            Contents(OutMessage(t))'[i] = s[i - Len(Contents(OutMessage(t)))]
      /\ Keeps({OutMessage(t)})
  BY <1>2, <1>3, <1>6, AppendedContents
<1>8. Len(s) = 1 /\ s[1] = <<t[2], number[t]>> BY <1>5
<1>9. InHand(t)' = Contents(OutMessage(t))' BY <1>1, Fixed DEF InHand
<1>10. PICK n \in Nat : n = Len(InHand(t)) BY <1>3, LenProperties
<1>11. /\ InHand(t) \in Seq(Items) /\ InHand(t)' \in Seq(Items) /\ Len(InHand(t)') = n + 1
       /\ \A i \in 1 .. n : InHand(t)'[i] = InHand(t)[i]
  BY <1>3, <1>7, <1>8, <1>9, <1>10
<1>12. InHand(t)'[n + 1] = <<Id(t), number[t]>>
  <2>1. \A i \in n + 1 .. n + 1 : InHand(t)'[i] = s[i - n] BY <1>3, <1>7, <1>8, <1>9, <1>10
  <2>2. (n + 1) - n = 1 /\ n + 1 \in n + 1 .. n + 1 OBVIOUS
  <2> QED BY <1>3, <1>8, <2>1, <2>2
<1>13. number[t] < PerProducer BY <1>1 DEF More
<1>14. place'[t] \notin {"publish", "put", "last"} BY <1>1
<1>15. \A sent \in Sents, base \in Nat : SentBy(sent, base, t) => SentBy(sent, base, t)'
  BY <1>1, <1>4, <1>10, <1>11, <1>12, <1>13, <1>14, SentAdds
<1>16. {OutMessage(t)} \subseteq Mine(t) BY <1>3
<1>17. place'[t] \notin {"off", "start", "construct", "spin", "ended"} BY <1>1
<1> QED BY <1>1, <1>3, <1>4, <1>7, <1>15, <1>16, <1>17, ThreadFlow

LEMMA EndFlow == ASSUME ProgramsInv, InOrderInv, NEW t \in Threads \ {Main}, EndOfMessages(t) PROVE InOrderInv'
<1> DEFINE where == IF Is(Copying) THEN "last" ELSE "leave"
<1>1. /\ place[t] = "loop" /\ ~More(t) /\ ~(Is({"batched"}) /\ Unsent(t))
      /\ place' = [place EXCEPT ![t] = where]
      /\ IF Is(Copying) THEN SetUsed(OutMessage(t), 0) ELSE UNCHANGED messageVars
      /\ UNCHANGED <<program, number, taken, written, round, consumed>>
  BY DEF EndOfMessages, At, Goto, Local, queueVars
<1>2. /\ place \in [Threads -> Places] /\ number \in [Threads -> Nat] /\ MessagesInv BY Parts
<1>3. where \in {"last", "leave"} /\ (where = "last" => Is(Copying)) OBVIOUS
<1> HIDE DEF where
<1>4. /\ t \in Producers /\ t \notin Copiers /\ Id(t) = t[2] /\ OutMessage(t) \in Names /\ OutMessage(t) \in Mine(t)
      /\ InHand(t) = IF Is({"batched"}) THEN Contents(OutMessage(t)) ELSE <<>>
  BY <1>1, LoopFacts
<1>5. place'[t] = where /\ \A u \in Threads \ {t} : place'[u] = place[u] BY <1>1, <1>2
<1>6. InHand(t) = <<>>
  <2>1. CASE Is({"batched"})
    <3>1. ~(messages[OutMessage(t)].used > 0) BY <1>1, <2>1 DEF Unsent
    <3>2. messages[OutMessage(t)].used \in 0 .. Capacity BY <1>2, <1>4, Fields
    <3>3. messages[OutMessage(t)].used = 0 BY <3>1, <3>2, CapacityAssumption
    <3> QED BY <1>4, <2>1, <3>3, EmptyNow
  <2> QED BY <1>4, <2>1
<1>7. InHand(t)' = <<>> BY <1>3, <1>5 DEF InHand
<1>8. Keeps({OutMessage(t)}) /\ (Is(Copying) => Contents(OutMessage(t))' = <<>>)
  <2>1. CASE Is(Copying) BY <1>1, <1>2, <1>4, <2>1, ClearedContents
  <2>2. CASE ~Is(Copying)
    <3>1. Keeps({}) BY <1>1, <2>2, UntouchedContents
    <3> QED BY <2>2, <3>1 DEF Keeps
  <2> QED BY <2>1, <2>2
<1>9. ASSUME NEW sent \in Sents, NEW base \in Nat, SentBy(sent, base, t) PROVE SentBy(sent, base, t)'
  <2>1. number[t] = PerProducer
    <3>1. ~(number[t] < PerProducer) BY <1>1 DEF More
    <3>2. number[t] <= PerProducer BY <1>9 DEF SentBy
    <3>3. program.target \in Nat /\ round \in Nat \ {0} BY Parts, ProgramFacts
    <3>4. PerProducer \in Int BY <3>3 DEF PerProducer
    <3> QED BY <1>2, <3>1, <3>2, <3>4
  <2>2. place'[t] = "last" => Is(Copying) /\ Contents(OutMessage(t))' = <<>> /\ number[t] = PerProducer
    BY <1>3, <1>5, <1>8, <2>1
  <2>3. place'[t] \notin {"publish", "put"} /\ number'[t] = number[t] BY <1>1, <1>3, <1>5
  <2> QED BY <1>1, <1>6, <1>7, <1>9, <2>2, <2>3, SentIdle
<1>10. {OutMessage(t)} \subseteq Mine(t) BY <1>4
<1>11. place'[t] \notin {"off", "start", "construct", "spin", "ended"} BY <1>3, <1>5
<1>12. \A u \in Threads \ {t} : number'[u] = number[u] BY <1>1
<1>13. UNCHANGED <<program, taken, written, round, consumed>> BY <1>1
<1> QED BY <1>4, <1>5, <1>8, <1>9, <1>10, <1>11, <1>12, <1>13, ThreadFlow

\* Of what the copying threads have, all has been sent in this round.
LEMMA RouteFacts ==
    ASSUME ProgramsInv, NEW sent \in Sents, NEW base \in Nat, Flow(sent, base)
    PROVE  /\ \A q \in Queues : taken[q] \in Nat /\ written[q] \in Nat /\ base <= taken[q] /\ taken[q] <= written[q]
                               /\ written[q] <= written[Lane(q)] /\ written[q] - taken[q] <= program.entries
           /\ \A l \in Queues, k \in Nat : sent[l][k] \in Seq(Items)
           /\ \A q \in Queues, k \in Nat : k >= taken[q] /\ k < written[q] =>
                 Contents(Entry(q, k)) = sent[Lane(q)][k]
<1>1. QueuesType BY Parts
<1>2. \A q \in Queues : taken[q] \in Nat /\ written[q] \in Nat /\ taken[q] <= written[q]
                        /\ written[q] - taken[q] <= program.entries
  BY <1>1 DEF QueuesType
<1>3. \A q \in Queues : base <= taken[q] /\ written[q] <= written[Lane(q)] BY DEF Flow, Queued
<1>4. \A l \in Queues, k \in Nat : sent[l][k] \in Seq(Items) BY DEF Sents
<1>5. \A q \in Queues, k \in Nat : k >= taken[q] /\ k < written[q] => Contents(Entry(q, k)) = sent[Lane(q)][k]
  <2> TAKE q \in Queues, k \in Nat
  <2>1. k >= taken[q] /\ k < written[q] => k \in taken[q] .. written[q] - 1 BY <1>2
  <2> QED BY <2>1 DEF Flow, Queued
<1> QED BY <1>2, <1>3, <1>4, <1>5

LEMMA CopyFlow == ASSUME ProgramsInv, InOrderInv, NEW t \in Threads \ {Main}, Copy(t) PROVE InOrderInv'
<1>1. place[t] = "copy" BY DEF Copy, At
<1>2. /\ t \in Copiers /\ t \notin Producers /\ place \in [Threads -> Places] /\ MessagesInv
      /\ program.copyType # "PassThru"
  BY <1>1, Parts DEF ProducerPlaces, Threads, ProgramsInv, ProgramsType, Placed
<1>3. /\ place' = [place EXCEPT ![t] = "pass"]
      /\ UNCHANGED <<program, number, taken, written, round, consumed>>
      /\ \/ BufferSwap(t)
         \/ BinaryCopy(t) /\ program.copyType = "BinaryCopy"
         \/ CopyConstruct(t) /\ program.copyType = "CopyConstruct"
  <2>1. ~CopyThrows(t) BY <1>1, <1>2, CopyNeverThrows
  <2>2. program.copyType \in {"BufferSwap", "BinaryCopy", "CopyConstruct"} BY <1>2, Parts, ProgramFacts DEF CopyTypes
  <2>3. /\ place' = [place EXCEPT ![t] = "pass"]
        /\ UNCHANGED <<program, number, taken, written, round, consumed>>
        /\ CASE program.copyType = "BufferSwap" -> BufferSwap(t)
             [] program.copyType = "BinaryCopy" -> BinaryCopy(t)
             [] program.copyType = "CopyConstruct" -> CopyConstruct(t)
    BY <2>1 DEF Copy, Goto, Local, queueVars
  <2> QED BY <2>2, <2>3
<1>4. place'[t] = "pass" /\ \A u \in Threads \ {t} : place'[u] = place[u] BY <1>2, <1>3
<1>5. /\ OutMessage(t) \in Names /\ InMessage(t) \in Names /\ InMessage(t) # OutMessage(t)
      /\ OutMessage(t) \in Mine(t) /\ InMessage(t) \in Mine(t)
  BY <1>2, Parts, MessageFacts
<1>6. PICK s : s = Contents(InMessage(t)) OBVIOUS
<1>7. s \in Seq(Items) /\ Len(s) = messages[InMessage(t)].used /\ number[t] = Len(s)
  <2>1. number[t] = messages[InMessage(t)].used BY <1>1, <1>2 DEF ProgramsInv, CopiesFit, CopyFits
  <2> QED BY <1>2, <1>5, <1>6, <2>1, ContentsType
<1>8. /\ Keeps(Mine(t))
      /\ Len(s) <= 1 \/ program.copyType # "CopyConstruct" => Contents(OutMessage(t))' = s
  <2>1. CASE BufferSwap(t)
    <3>1. MoveTo(InMessage(t), OutMessage(t)) BY <2>1 DEF BufferSwap
    <3>2. Contents(OutMessage(t))' = s /\ Keeps({InMessage(t), OutMessage(t)}) BY <1>2, <1>5, <1>6, <3>1, MovedContents
    <3> QED BY <1>5, <3>2 DEF Keeps
  <2>2. CASE BinaryCopy(t) /\ program.copyType = "BinaryCopy"
    <3>1. AppendTo(OutMessage(t), s) BY <1>6, <2>2 DEF BinaryCopy, AppendCopyOf
    <3>2. messages[OutMessage(t)].used = 0 BY <1>1, <1>2, <2>2 DEF ProgramsInv, CopiesFit, CopyFits
    <3>3. Contents(OutMessage(t)) = <<>> BY <1>5, <3>2, EmptyNow
    <3>4. Len(Contents(OutMessage(t))) = 0 BY <1>2, <1>5, <3>2, ContentsType
    <3>5. /\ Contents(OutMessage(t))' \in Seq(Items)
          /\ Len(Contents(OutMessage(t))') = Len(Contents(OutMessage(t))) + Len(s)
          /\ \A i \in Len(Contents(OutMessage(t))) + 1 .. Len(Contents(OutMessage(t))) + Len(s) :
                Contents(OutMessage(t))'[i] = s[i - Len(Contents(OutMessage(t)))]
          /\ Keeps({OutMessage(t)})
      BY <1>2, <1>5, <1>7, <3>1, AppendedContents
    <3>6. PICK c \in Seq(Items) : c = Contents(OutMessage(t))' BY <3>5
    <3>7. PICK n : n = Len(Contents(OutMessage(t))) OBVIOUS
    <3>8. n = 0 /\ Len(c) = n + Len(s) /\ \A i \in n + 1 .. n + Len(s) : c[i] = s[i - n] BY <3>4, <3>5, <3>6, <3>7
    <3>9. Len(c) = Len(s) /\ \A i \in 1 .. Len(s) : c[i] = s[i] BY <1>7, <3>8, LenProperties
    <3>10. c = s BY <1>7, <3>6, <3>9
    <3> QED BY <1>5, <3>5, <3>6, <3>10 DEF Keeps
  <2>3. CASE CopyConstruct(t) /\ program.copyType = "CopyConstruct"
    <3>1. CASE number[t] = 0
      <4>1. SetUsed(OutMessage(t), 0) BY <2>3, <3>1 DEF CopyConstruct
      <4>2. Contents(OutMessage(t))' = <<>> /\ Keeps({OutMessage(t)}) BY <1>2, <1>5, <4>1, ClearedContents
      <4>3. s = <<>> BY <1>7, <3>1, EmptySeq
      <4> QED BY <1>5, <4>2, <4>3 DEF Keeps
    <3>2. CASE number[t] # 0
      <4>1. Emplace(OutMessage(t), s[1]) BY <1>6, <2>3, <3>2 DEF CopyConstruct
      <4>2. s[1] \in Items
        <5>1. 1 \in 1 .. Len(s) BY <1>7, <3>2, LenProperties
        <5> QED BY <1>7, <5>1, ElementOfSeq
      <4>3. Contents(OutMessage(t))' = <<s[1]>> /\ Keeps({OutMessage(t)}) BY <1>2, <1>5, <4>1, <4>2, EmplacedContents
      <4>4. Len(s) <= 1 => s = <<s[1]>>
        <5> SUFFICES ASSUME Len(s) <= 1 PROVE s = <<s[1]>> OBVIOUS
        <5>1. Len(s) = 1 BY <1>7, <3>2, LenProperties
        <5> QED BY <1>7, <5>1
      <4> QED BY <1>5, <2>3, <4>3, <4>4 DEF Keeps
    <3> QED BY <3>1, <3>2
  <2> QED BY <1>3, <2>1, <2>2, <2>3
<1>9. ASSUME NEW sent \in Sents, NEW base \in Nat, Flow(sent, base), HandedBy(sent, t) PROVE HandedBy(sent, t)'
  <2>1. InCopy(t) = {InMessage(t)} BY <1>1 DEF InCopy
  <2>2. InCopy(t)' = {OutMessage(t)}
    <3>1. Published(t)' = OutMessage(t) BY <1>2, <1>3, FixedMore DEF Published
    <3> QED BY <1>4, <3>1 DEF InCopy
  <2>3. PICK k \in Nat : k = written[OutQueue(t)] BY <1>2, <1>9, RouteFacts, InCopyFacts
  <2>4. taken[InQueue(t)] = k + 1 /\ sent[1][k] = s
    <3>1. InCopy(t) # {} BY <2>1
    <3> QED BY <1>6, <1>9, <2>1, <2>3, <3>1 DEF HandedBy
  <2>5. Len(s) <= 1 \/ program.copyType # "CopyConstruct"
    <3> SUFFICES ASSUME program.copyType = "CopyConstruct" PROVE Len(s) <= 1 OBVIOUS
    <3>1. ~Is({"batched"}) BY Parts, ProgramFacts
    <3>2. /\ InQueue(t) \in Queues /\ OutQueue(t) \in Queues /\ Lane(InQueue(t)) = 1 /\ ~Is({"multi_queue"})
          /\ program \in Candidates
      BY <1>2, InCopyFacts, Parts
    <3>3. 1 \in Lanes BY <3>2, LaneFacts
    <3>4. /\ taken[InQueue(t)] \in Nat /\ written[InQueue(t)] \in Nat /\ taken[InQueue(t)] <= written[InQueue(t)]
          /\ written[InQueue(t)] <= written[Lane(InQueue(t))] /\ written[Lane(InQueue(t))] \in Nat
          /\ base <= taken[OutQueue(t)] /\ taken[OutQueue(t)] <= written[OutQueue(t)] /\ taken[OutQueue(t)] \in Nat
      BY <1>9, <3>2, RouteFacts, LaneFacts
    <3>5. k \in base .. written[1] - 1
      <4> DEFINE w == written[1]
      <4>1. w \in Nat /\ k + 1 <= w /\ base <= k BY <2>3, <2>4, <3>2, <3>4
      <4> HIDE DEF w
      <4>2. k \in base .. w - 1 BY <4>1
      <4> QED BY <4>2 DEF w
    <3>6. Len(sent[1][k]) <= 1 BY <1>9, <3>1, <3>3, <3>5 DEF Flow, Ordered
    <3> QED BY <2>4, <3>6
  <2>6. Contents(OutMessage(t))' = s BY <1>8, <2>5
  <2>7. InQueue(t)' = InQueue(t) /\ OutQueue(t)' = OutQueue(t) BY <1>3, FixedMore
  <2>8. taken[InQueue(t)]' = k + 1 /\ written[OutQueue(t)]' = k BY <1>3, <2>3, <2>4, <2>7
  <2>9. \A m \in InCopy(t)' : Contents(m)' = sent[1][k] BY <2>2, <2>4, <2>6
  <2>10. InCopy(t)' # {} BY <2>2
  <2> QED BY <2>8, <2>9, <2>10 DEF HandedBy
<1>10. UNCHANGED <<program, taken, written, round, consumed>> /\ \A u \in Threads \ {t} : number'[u] = number[u] BY <1>3
<1>11. Mine(t) \subseteq Mine(t) OBVIOUS
<1> QED BY <1>2, <1>4, <1>8, <1>9, <1>10, <1>11, ThreadFlow

-----------------------------------------------------------------------------
(* Messages that go through queues *)

LEMMA EntriesDiffer ==
    ASSUME program \in Candidates, NEW q \in Queues, NEW r \in Queues, NEW i \in Nat, NEW j \in Nat,
           r # q \/ (i # j /\ i < j + program.entries /\ j < i + program.entries)
    PROVE  Entry(q, i) # Entry(r, j)
<1>1. program.entries \in Nat \ {0} BY ProgramFacts
<1>2. Entry(q, i) = <<"entry", q, i % program.entries>> /\ Entry(r, j) = <<"entry", r, j % program.entries>>
  BY EntryFacts
<1>3. r = q => i % program.entries # j % program.entries
  <2>1. CASE i < j BY <1>1, <2>1, SlotsDiffer
  <2>2. CASE j < i BY <1>1, <2>2, SlotsDiffer
  <2> QED BY <2>1, <2>2
<1> QED BY <1>2, <1>3

LEMMA PublishMoves ==
    ASSUME ProgramsInv, ~Is({"user", "no_consumer"}), NEW t \in Threads, NEW m \in Mine(t), NEW where,
           Publish(t, m, where), NEW q, q = OutQueue(t), NEW k, k = written[q]
    PROVE  /\ q \in Queues /\ k \in Nat
           /\ taken' = taken /\ written' = [written EXCEPT ![q] = k + 1]
           /\ place' = [place EXCEPT ![t] = where]
           /\ UNCHANGED <<program, number, round, consumed>>
           /\ Contents(Entry(q, k))' = Contents(m) /\ Contents(m)' = <<>>
           /\ \A u \in Threads \ {t}, x \in Names : x \in Mine(u) => Contents(x)' = Contents(x)
           /\ \A x \in Mine(t) \ {m} : Contents(x)' = Contents(x)
           /\ \A r \in Queues, j \in Nat : j >= taken[r] /\ j < written[r] =>
                 Contents(Entry(r, j))' = Contents(Entry(r, j))
<1>1. /\ program \in Candidates /\ q \in Queues /\ m \in Names /\ Mine(t) \subseteq Names /\ MessagesInv
      /\ taken \in [Queues -> Nat] /\ written \in [Queues -> Nat] /\ program.entries \in Nat \ {0}
      /\ \A r \in Queues : taken[r] <= written[r] /\ written[r] - taken[r] <= program.entries
  BY Parts, ThreadFacts, MessageFacts, ProgramFacts DEF QueuesType
<1>2. ~Full(q)
  <2>1. Full(OutQueue(t)) => Discards BY DEF Publish
  <2>2. ~Discards BY DEF Discards, Is
  <2> QED BY <2>1, <2>2
<1>3. /\ taken' = taken /\ MoveTo(m, Entry(q, k)) /\ written' = [written EXCEPT ![q] = k + 1]
      /\ place' = [place EXCEPT ![t] = where]
      /\ UNCHANGED <<program, number, round, consumed>>
  <2>1. /\ taken' = (IF Full(q) THEN [taken EXCEPT ![q] = written[q]] ELSE taken)
        /\ MoveTo(m, Entry(q, written[q])) /\ written' = [written EXCEPT ![q] = written[q] + 1]
        /\ place' = [place EXCEPT ![t] = where] /\ UNCHANGED <<program, number, round, consumed>>
    BY DEF Publish, Goto
  <2> QED BY <1>2, <2>1
<1>4. k \in Nat /\ taken[q] \in Nat /\ taken[q] <= k /\ k - taken[q] < program.entries
  <2>1. k - taken[q] # program.entries BY <1>2 DEF Full
  <2> QED BY <1>1, <2>1
<1>5. PICK e : e = Entry(q, k) OBVIOUS
<1>6. e \in Names /\ e \in EntryMessages BY <1>1, <1>4, <1>5, EntryFacts
<1>7. Contents(e)' = Contents(m) /\ Contents(m)' = <<>> /\ Keeps({m, e})
  BY <1>1, <1>3, <1>5, <1>6, MovedContents
<1>8. Contents(Entry(q, k))' = Contents(m)
  <2>1. Contents(Entry(q, k))' = Contents(e)' BY <1>3, <1>5, NextContents
  <2> QED BY <1>7, <2>1
<1>9. ASSUME NEW u \in Threads \ {t}, NEW x \in Names, x \in Mine(u) PROVE Contents(x)' = Contents(x)
  <2>1. x # m /\ x # e BY <1>1, <1>6, <1>9, Apart, NotEntries
  <2> QED BY <1>7, <2>1 DEF Keeps
<1>10. ASSUME NEW x \in Mine(t) \ {m} PROVE Contents(x)' = Contents(x)
  <2>1. x # e /\ x \in Names BY <1>1, <1>6, NotEntries
  <2> QED BY <1>7, <2>1 DEF Keeps
<1>11. ASSUME NEW r \in Queues, NEW j \in Nat, j >= taken[r], j < written[r]
       PROVE  Contents(Entry(r, j))' = Contents(Entry(r, j))
  <2>1. r # q \/ (k # j /\ k < j + program.entries /\ j < k + program.entries)
    <3>1. CASE r # q BY <3>1
    <3>2. CASE r = q
      <4>1. j < k /\ j >= taken[q] BY <1>11, <3>2
      <4> QED BY <1>1, <1>4, <4>1
    <3> QED BY <3>1, <3>2
  <2>2. PICK x : x = Entry(r, j) OBVIOUS
  <2>3. x # e BY <1>1, <1>4, <1>5, <2>1, <2>2, EntriesDiffer
  <2>4. x \in Names /\ x \in EntryMessages BY <1>1, <2>2, EntryFacts
  <2>5. x # m BY <1>1, <2>4, NotEntries
  <2>6. Contents(x)' = Contents(x) BY <1>7, <2>3, <2>4, <2>5 DEF Keeps
  <2>7. Contents(Entry(r, j))' = Contents(x)' BY <1>3, <2>2, NextContents
  <2> QED BY <2>2, <2>6, <2>7
<1> QED BY <1>1, <1>3, <1>4, <1>7, <1>8, <1>9, <1>10, <1>11

LEMMA GetMoves ==
    ASSUME ProgramsInv, NEW t \in Threads, NEW m \in Mine(t), NEW q \in Queues, Get(q, m),
           UNCHANGED <<program, written>>, NEW k, k = taken[q]
    PROVE  /\ k \in Nat /\ written[q] \in Nat /\ k < written[q]
           /\ taken' = [taken EXCEPT ![q] = k + 1]
           /\ Contents(m)' = Contents(Entry(q, k)) /\ Contents(Entry(q, k)) \in Seq(Items)
           /\ \A u \in Threads \ {t}, x \in Names : x \in Mine(u) => Contents(x)' = Contents(x)
           /\ \A x \in Mine(t) \ {m} : Contents(x)' = Contents(x)
           /\ \A r \in Queues, j \in Nat : j >= taken'[r] /\ j < written[r] =>
                 Contents(Entry(r, j))' = Contents(Entry(r, j))
<1>1. /\ program \in Candidates /\ m \in Names /\ Mine(t) \subseteq Names /\ MessagesInv
      /\ taken \in [Queues -> Nat] /\ written \in [Queues -> Nat] /\ program.entries \in Nat \ {0}
      /\ \A r \in Queues : taken[r] <= written[r] /\ written[r] - taken[r] <= program.entries
  BY Parts, MessageFacts, ProgramFacts DEF QueuesType
<1>2. /\ taken' = [taken EXCEPT ![q] = k + 1] /\ MoveTo(Entry(q, k), m) /\ k < written[q] /\ program' = program
  BY DEF Get, FirstIn
<1>3. k \in Nat /\ written[q] \in Nat BY <1>1
<1>4. PICK e : e = Entry(q, k) OBVIOUS
<1>5. e \in Names /\ e \in EntryMessages BY <1>1, <1>3, <1>4, EntryFacts
<1>6. Contents(m)' = Contents(e) /\ Keeps({e, m}) /\ Contents(e) \in Seq(Items)
  BY <1>1, <1>2, <1>4, <1>5, MovedContents, ContentsType
<1>7. ASSUME NEW u \in Threads \ {t}, NEW x \in Names, x \in Mine(u) PROVE Contents(x)' = Contents(x)
  <2>1. x # m /\ x # e BY <1>1, <1>5, <1>7, Apart, NotEntries
  <2> QED BY <1>6, <2>1 DEF Keeps
<1>8. ASSUME NEW x \in Mine(t) \ {m} PROVE Contents(x)' = Contents(x)
  <2>1. x # e /\ x \in Names BY <1>1, <1>5, NotEntries
  <2> QED BY <1>6, <2>1 DEF Keeps
<1>9. ASSUME NEW r \in Queues, NEW j \in Nat, j >= taken'[r], j < written[r]
      PROVE  Contents(Entry(r, j))' = Contents(Entry(r, j))
  <2>1. r # q \/ (k # j /\ k < j + program.entries /\ j < k + program.entries)
    <3>1. CASE r # q BY <3>1
    <3>2. CASE r = q
      <4>1. j < written[q] /\ j >= k + 1 /\ written[q] - k <= program.entries BY <1>1, <1>2, <1>9, <3>2
      <4> QED BY <1>1, <1>3, <4>1
    <3> QED BY <3>1, <3>2
  <2>2. PICK x : x = Entry(r, j) OBVIOUS
  <2>3. x # e BY <1>1, <1>3, <1>4, <2>1, <2>2, EntriesDiffer
  <2>4. x \in Names /\ x \in EntryMessages BY <1>1, <2>2, EntryFacts
  <2>5. x # m BY <1>1, <2>4, NotEntries
  <2>6. Contents(x)' = Contents(x) BY <1>6, <2>3, <2>4, <2>5 DEF Keeps
  <2>7. Contents(Entry(r, j))' = Contents(x)' BY <1>2, <2>2, NextContents
  <2> QED BY <2>2, <2>6, <2>7
<1> QED BY <1>2, <1>3, <1>4, <1>6, <1>7, <1>8, <1>9

LEMMA PerProducerFacts ==
    ASSUME ProgramsInv
    PROVE  /\ PerProducer \in Nat /\ PerProducer <= program.target /\ program.target \in Nat \ {0}
           /\ round = 1 => PerProducer = program.target
           /\ Total \in Nat /\ Total = PerProducer * round /\ (round = 1 => Total = PerProducer)
           /\ Is(MainOnly \cup Copying) => round = 1
<1>1. program.target \in Nat \ {0} /\ round \in Nat \ {0} BY Parts, ProgramFacts
<1>2. PerProducer \in Nat /\ PerProducer <= program.target /\ (round = 1 => PerProducer = program.target)
  <2>1. ASSUME NEW n \in Nat, NEW r \in Nat \ {0} PROVE n \div r \in Nat /\ n \div r <= n /\ (r = 1 => n \div r = n)
    <3>1. n \div r \in Int /\ n % r \in 0 .. r - 1 /\ n = r * (n \div r) + (n % r) OBVIOUS
    <3>2. PICK d \in Int : d = n \div r BY <3>1
    <3>3. PICK m \in 0 .. r - 1 : m = n % r BY <3>1
    <3>4. n = r * d + m BY <3>1, <3>2, <3>3
    <3>5. d >= 0
      <4> SUFFICES ASSUME d <= -1 PROVE FALSE OBVIOUS
      <4>1. r * d <= -r BY <2>1
      <4> QED BY <3>4, <4>1
    <3>6. r * d >= d BY <3>5
    <3>7. r * d \in Int BY <3>2
    <3>8. d <= n BY <3>3, <3>4, <3>6, <3>7
    <3>9. r = 1 => d = n BY <3>3, <3>4
    <3> QED BY <3>2, <3>5, <3>8, <3>9
  <2> QED BY <1>1, <2>1 DEF PerProducer
<1>3. Is(MainOnly \cup Copying) => round = 1
  <2>1. round \in 1 .. program.producers BY Parts
  <2> QED BY <2>1, Parts, ProgramFacts
<1>4. Total = PerProducer * round BY DEF Total
<1>5. Total \in Nat /\ (round = 1 => Total = PerProducer)
  <2>1. ASSUME NEW n \in Nat, NEW r \in Nat PROVE n * r \in Nat /\ (r = 1 => n * r = n) OBVIOUS
  <2> QED BY <1>1, <1>2, <1>4, <2>1
<1> QED BY <1>1, <1>2, <1>3, <1>4, <1>5

\* A message more in lane q.
Extends(sent2, sent, base, q, k, s) ==
    /\ sent2[q][k] = s
    /\ \A l \in Queues, j \in Nat : l # q \/ j # k => sent2[l][j] = sent[l][j]
    /\ \A l \in Queues, j \in Nat : l # q \/ j <= k => Before(sent2, base, l, j) = Before(sent, base, l, j)
    /\ Before(sent2, base, q, k + 1) = Before(sent, base, q, k) \cup {s[i] : i \in DOMAIN s}

LEMMA SentMore ==
    ASSUME NEW sent \in Sents, NEW q \in Queues, NEW k \in Nat, NEW s \in Seq(Items), NEW base \in Nat, base <= k
    PROVE  \E sent2 \in Sents : Extends(sent2, sent, base, q, k, s)
<1> DEFINE lane == [sent[q] EXCEPT ![k] = s]
           sent2 == [sent EXCEPT ![q] = lane]
<1>1. sent[q] \in [Nat -> Seq(Items)] BY DEF Sents
<1>2. lane \in [Nat -> Seq(Items)] /\ lane[k] = s /\ \A j \in Nat : j # k => lane[j] = sent[q][j] BY <1>1
<1> HIDE DEF lane
<1>3. sent2 \in Sents /\ sent2[q] = lane /\ \A l \in Queues : l # q => sent2[l] = sent[l] BY <1>2 DEF Sents
<1> HIDE DEF sent2
<1>4. \A l \in Queues, j \in Nat : l # q \/ j # k => sent2[l][j] = sent[l][j] BY <1>2, <1>3
<1>5. \A l \in Queues, j \in Nat : l # q \/ j <= k => Before(sent2, base, l, j) = Before(sent, base, l, j)
  <2> TAKE l \in Queues, j \in Nat
  <2> SUFFICES ASSUME l # q \/ j <= k PROVE Before(sent2, base, l, j) = Before(sent, base, l, j) OBVIOUS
  <2>1. \A i \in base .. j - 1 : sent2[l][i] = sent[l][i] BY <1>4
  <2> QED BY <2>1 DEF Before
<1>6. sent2[q][k] = s BY <1>2, <1>3
<1>7. Before(sent2, base, q, k) = Before(sent, base, q, k) BY <1>5
<1>8. Before(sent2, base, q, k + 1) = Before(sent, base, q, k) \cup {s[i] : i \in DOMAIN s}
  <2>1. PICK x : x = sent2 OBVIOUS
  <2>2. Before(x, base, q, k + 1) = Before(x, base, q, k) \cup {x[q][k][i] : i \in DOMAIN x[q][k]}
    <3>1. base .. k + 1 - 1 = (base .. k - 1) \cup {k} OBVIOUS
    <3> QED BY <3>1 DEF Before
  <2>3. x[q][k] = s BY <1>6, <2>1
  <2>4. Before(x, base, q, k + 1) = Before(x, base, q, k) \cup {s[i] : i \in DOMAIN s} BY <2>2, <2>3
  <2> QED BY <1>7, <2>1, <2>4
<1>9. Extends(sent2, sent, base, q, k, s) BY <1>4, <1>5, <1>6, <1>8 DEF Extends
<1> QED BY <1>3, <1>9

\* Whoever sends extends the lane by what is in his hand.
LEMMA SendFlow ==
    ASSUME ProgramsInv, ~Is({"user", "no_consumer"}), NEW t \in Sending, NEW where, Publish(t, OutMessage(t), where),
           NEW s \in Seq(Items), s = Contents(OutMessage(t)), s = InHand(t),
           Is({"batched"}) \/ Len(s) <= 1,
           s = <<>> => Is(Copying) /\ number[t] = PerProducer,
           where \in {"loop", "leave", "take", "fill"}, t = Main => where \in {"take", "fill"},
           Is({"alternating"}) => where = "take" /\ place[Main] # "take",
           NEW sent \in Sents, NEW base \in Nat, Flow(sent, base)
    PROVE  \E sent2 \in Sents : Flow(sent2, base)'
<1>1. /\ t \in Threads /\ t \notin Copiers /\ OutQueue(t) \in Lanes /\ Id(t) \in 1 .. round
      /\ Id(t) \in 1 .. program.producers /\ (t = Main \/ t \in Producers)
      /\ t = Main => Is(MainOnly) /\ place[Main] \in {"fill", "put", "take"}
      /\ \A u \in Sending : u # t => Id(u) # Id(t)
      /\ Is({"multi_queue"}) => Id(t) = OutQueue(t)
      /\ Is(Copying) => Id(t) = 1
  BY SendingFacts
<1>2. PICK q : q = OutQueue(t) OBVIOUS
<1>3. PICK k : k = written[q] OBVIOUS
<1>4. /\ program \in Candidates /\ OutMessage(t) \in Mine(t) /\ Main \in Threads /\ QueuesType
      /\ Producers \subseteq Threads /\ Copiers \subseteq Threads
      /\ place \in [Threads -> Places] /\ number \in [Threads -> Nat]
  BY <1>1, Parts, MessageFacts
<1>5. /\ q \in Queues /\ k \in Nat
      /\ taken' = taken /\ written' = [written EXCEPT ![q] = k + 1]
      /\ place' = [place EXCEPT ![t] = where]
      /\ UNCHANGED <<program, number, round, consumed>>
      /\ Contents(Entry(q, k))' = s /\ Contents(OutMessage(t))' = <<>>
      /\ \A u \in Threads \ {t}, x \in Names : x \in Mine(u) => Contents(x)' = Contents(x)
      /\ \A r \in Queues, j \in Nat : j >= taken[r] /\ j < written[r] =>
            Contents(Entry(r, j))' = Contents(Entry(r, j))
  <2>1. t \in Threads /\ OutMessage(t) \in Mine(t) BY <1>1, <1>4
  <2>2. PICK m \in Mine(t) : m = OutMessage(t) BY <2>1
  <2>3. Publish(t, m, where) BY <2>2
  <2>4. /\ q \in Queues /\ k \in Nat
        /\ taken' = taken /\ written' = [written EXCEPT ![q] = k + 1]
        /\ place' = [place EXCEPT ![t] = where]
        /\ UNCHANGED <<program, number, round, consumed>>
        /\ Contents(Entry(q, k))' = Contents(m) /\ Contents(m)' = <<>>
        /\ \A u \in Threads \ {t}, x \in Names : x \in Mine(u) => Contents(x)' = Contents(x)
        /\ \A r \in Queues, j \in Nat : j >= taken[r] /\ j < written[r] =>
              Contents(Entry(r, j))' = Contents(Entry(r, j))
    <3>1. t \in Threads BY <2>1
    <3> QED BY <1>2, <1>3, <2>3, <3>1, PublishMoves
  <2>5. Contents(OutMessage(t))' = Contents(m)' BY <2>2, <2>4, FixedMore DEF Contents
  <2>6. Contents(m) = s BY <2>2
  <2> QED BY <2>4, <2>5, <2>6
<1>6. /\ q \in Lanes /\ Lane(q) = q /\ Lanes \subseteq Queues
      /\ \A r \in Queues : Lane(r) \in Lanes /\ Lane(r) \in Queues
  BY <1>1, <1>2, <1>4, LaneFacts
<1>7. /\ \A r \in Queues : taken[r] \in Nat /\ written[r] \in Nat /\ base <= taken[r] /\ taken[r] <= written[r]
                           /\ written[r] <= written[Lane(r)]
      /\ \A r \in Queues, j \in Nat : j >= taken[r] /\ j < written[r] => Contents(Entry(r, j)) = sent[Lane(r)][j]
  BY RouteFacts
<1>8. base <= k BY <1>3, <1>5, <1>7
<1>9. written'[q] = k + 1 /\ \A r \in Queues : r # q => written'[r] = written[r] BY <1>4, <1>5 DEF QueuesType
<1>10. place'[t] = where /\ \A u \in Threads : u # t => place'[u] = place[u] BY <1>1, <1>4, <1>5
<1>11. PICK sent2 \in Sents :
          /\ sent2[q][k] = s
          /\ \A l \in Queues, j \in Nat : l # q \/ j # k => sent2[l][j] = sent[l][j]
          /\ \A l \in Queues, j \in Nat : l # q \/ j <= k => Before(sent2, base, l, j) = Before(sent, base, l, j)
          /\ Before(sent2, base, q, k + 1) = Before(sent, base, q, k) \cup {s[i] : i \in DOMAIN s}
  <2>1. q \in Queues /\ k \in Nat BY <1>5
  <2>2. PICK sent2 \in Sents : Extends(sent2, sent, base, q, k, s) BY <1>8, <2>1, SentMore
  <2> QED BY <2>2 DEF Extends
<1>12. /\ Queues' = Queues /\ Copiers' = Copiers /\ Producers' = Producers /\ \A kinds : Is(kinds)' = Is(kinds)
       /\ Lanes' = Lanes /\ LastQueues' = LastQueues /\ (\A r : Lane(r)' = Lane(r)) /\ PerProducer' = PerProducer
       /\ (\A x, before : Follow(x, before)' <=> Follow(x, before)) /\ Total' = Total
       /\ \A u : OutQueue(u)' = OutQueue(u) /\ Id(u)' = Id(u)
  BY <1>5, Fixed, FixedMore
<1>13. PICK first : first = number[t] - Len(InHand(t)) OBVIOUS
<1>14. /\ first \in Nat /\ first + Len(s) = number[t] /\ number[t] <= PerProducer /\ Len(s) \in Nat
       /\ \A i \in 1 .. Len(s) : s[i] = <<Id(t), first + i - 1>>
       /\ \A n \in 0 .. program.target - 1 : <<Id(t), n>> \in Before(sent, base, q, k) <=> n < first
  <2>1. SentBy(sent, base, t) BY DEF Flow
  <2>2. /\ first >= 0 /\ number[t] <= PerProducer
        /\ \A i \in 1 .. Len(s) : s[i] = <<Id(t), first + i - 1>>
        /\ \A n \in 0 .. program.target - 1 : <<Id(t), n>> \in Before(sent, base, q, k) <=> n < first
    BY <1>2, <1>3, <1>13, <2>1 DEF SentBy
  <2>3. number[t] \in Nat /\ Len(s) \in Nat /\ first = number[t] - Len(s) BY <1>1, <1>4, <1>13, LenProperties
  <2> QED BY <2>2, <2>3
<1>15. PerProducer \in Nat /\ PerProducer <= program.target /\ program.target \in Nat BY PerProducerFacts
<1>16. /\ Follow(s, Before(sent, base, q, k))
       /\ \A n \in 0 .. program.target - 1 :
             <<Id(t), n>> \in Before(sent, base, q, k) \cup {s[i] : i \in DOMAIN s} <=> n < number[t]
  <2>1. first + Len(s) <= program.target BY <1>1, <1>4, <1>14, <1>15
  <2>2. /\ Follow(s, Before(sent, base, q, k))
        /\ \A n \in 0 .. program.target - 1 :
             <<Id(t), n>> \in Before(sent, base, q, k) \cup {s[i] : i \in DOMAIN s} <=> n < first + Len(s)
    <3>1. PICK p \in 1 .. program.producers : p = Id(t) BY <1>1
    <3>2. PICK before : before = Before(sent, base, q, k) OBVIOUS
    <3>3. first \in Nat /\ program.target \in Nat BY <1>14, <1>15
    <3>4. \A i \in 1 .. Len(s) : s[i] = <<p, first + i - 1>> BY <1>14, <3>1
    <3>5. \A n \in 0 .. program.target - 1 : <<p, n>> \in before <=> n < first BY <1>14, <3>1, <3>2
    <3>6. /\ Follow(s, before)
          /\ \A n \in 0 .. program.target - 1 : <<p, n>> \in before \cup {s[i] : i \in DOMAIN s} <=> n < first + Len(s)
      BY <2>1, <3>3, <3>4, <3>5, FollowRun
    <3> QED BY <3>1, <3>2, <3>6
  <2> QED BY <1>14, <2>2
<1>17. \A i \in DOMAIN s : s[i] = <<Id(t), first + i - 1>> /\ first + i - 1 \in 0 .. PerProducer - 1
  <2> TAKE i \in DOMAIN s
  <2>1. i \in 1 .. Len(s) BY LenProperties
  <2>2. PICK n \in Nat : n = Len(s) BY <1>14
  <2>3. PICK c \in Nat : c = number[t] BY <1>1, <1>4
  <2>4. first \in Nat /\ first + n = c /\ c <= PerProducer /\ i \in 1 .. n BY <1>14, <2>1, <2>2, <2>3
  <2>5. first + i - 1 \in 0 .. PerProducer - 1 BY <1>15, <2>4
  <2>6. s[i] = <<Id(t), first + i - 1>> BY <1>14, <2>1
  <2> QED BY <2>5, <2>6
<1>18. Ordered(sent2, base)'
  <2>1. ASSUME NEW l \in Lanes, NEW j \in Nat, j \in base .. written'[l] - 1
        PROVE  /\ Follow(sent2[l][j], Before(sent2, base, l, j))
               /\ \A i \in DOMAIN sent2[l][j] : \E p \in 1 .. round, n \in 0 .. PerProducer - 1 :
                     sent2[l][j][i] = <<p, n>> /\ (Is({"multi_queue"}) => p = l)
               /\ Is({"batched"}) \/ Len(sent2[l][j]) <= 1
               /\ sent2[l][j] = <<>> =>
                     Is(Copying) /\ \A n \in 0 .. PerProducer - 1 : <<1, n>> \in Before(sent2, base, l, j)
    <3>1. CASE l = q /\ j = k
      <4>1. sent2[l][j] = s /\ Before(sent2, base, l, j) = Before(sent, base, q, k) BY <1>5, <1>11, <3>1
      <4>2. \A i \in DOMAIN s : \E p \in 1 .. round, n \in 0 .. PerProducer - 1 :
               s[i] = <<p, n>> /\ (Is({"multi_queue"}) => p = q)
        BY <1>1, <1>2, <1>17
      <4>3. s = <<>> => Is(Copying) /\ \A n \in 0 .. PerProducer - 1 : <<1, n>> \in Before(sent, base, q, k)
        <5> SUFFICES ASSUME s = <<>>
                     PROVE  Is(Copying) /\ \A n \in 0 .. PerProducer - 1 : <<1, n>> \in Before(sent, base, q, k)
          OBVIOUS
        <5>1. Is(Copying) /\ number[t] = PerProducer /\ Id(t) = 1 /\ Len(s) = 0 BY <1>1
        <5>2. first = PerProducer BY <1>14, <5>1
        <5> QED BY <1>14, <1>15, <5>1, <5>2
      <4> QED BY <1>16, <3>1, <4>1, <4>2, <4>3
    <3>2. CASE ~(l = q /\ j = k)
      <4>1. l \in Queues /\ written[l] \in Nat BY <1>6, <1>7
      <4>2. j \in base .. written[l] - 1 /\ (l # q \/ j <= k)
        <5>1. CASE l = q
          <6>1. j # k /\ j <= k BY <1>5, <1>9, <2>1, <3>2, <5>1
          <6> QED BY <1>3, <1>5, <2>1, <5>1, <6>1
        <5>2. CASE l # q BY <1>9, <2>1, <4>1, <5>2
        <5> QED BY <5>1, <5>2
      <4>3. sent2[l][j] = sent[l][j] /\ Before(sent2, base, l, j) = Before(sent, base, l, j)
        BY <1>11, <3>2, <4>1, <4>2
      <4>4. /\ Follow(sent[l][j], Before(sent, base, l, j))
            /\ \A i \in DOMAIN sent[l][j] : \E p \in 1 .. round, n \in 0 .. PerProducer - 1 :
                     sent[l][j][i] = <<p, n>> /\ (Is({"multi_queue"}) => p = l)
            /\ Is({"batched"}) \/ Len(sent[l][j]) <= 1
            /\ sent[l][j] = <<>> =>
                     Is(Copying) /\ \A n \in 0 .. PerProducer - 1 : <<1, n>> \in Before(sent, base, l, j)
        BY <4>2 DEF Flow, Ordered
      <4> QED BY <4>3, <4>4
    <3> QED BY <3>1, <3>2
  <2> QED BY <1>5, <1>12, <2>1 DEF Ordered
<1>19. Queued(sent2)'
  <2>1. ASSUME NEW r \in Queues
        PROVE  /\ written'[r] <= written'[Lane(r)]
               /\ \A j \in Nat : j \in taken[r] .. written'[r] - 1 => Contents(Entry(r, j))' = sent2[Lane(r)][j]
    <3>1. /\ Lane(r) \in Queues /\ written[r] \in Nat /\ taken[r] \in Nat /\ written[r] <= written[Lane(r)]
          /\ written[Lane(r)] \in Nat
      BY <1>6, <1>7
    <3>2. written'[r] <= written'[Lane(r)]
      <4>1. CASE r = q BY <1>5, <1>6, <1>9, <4>1
      <4>2. CASE r # q BY <1>3, <1>5, <1>9, <3>1, <4>2
      <4> QED BY <4>1, <4>2
    <3>3. ASSUME NEW j \in Nat, j \in taken[r] .. written'[r] - 1 PROVE Contents(Entry(r, j))' = sent2[Lane(r)][j]
      <4>1. CASE r = q /\ j = k BY <1>5, <1>6, <1>11, <4>1
      <4>2. CASE ~(r = q /\ j = k)
        <5>1. j >= taken[r] /\ j < written[r] BY <1>3, <1>5, <1>9, <3>1, <3>3, <4>2
        <5>2. Contents(Entry(r, j))' = sent[Lane(r)][j] BY <1>5, <1>7, <5>1
        <5>3. Lane(r) # q \/ j # k BY <1>3, <3>1, <5>1
        <5> QED BY <1>11, <3>1, <5>2, <5>3
      <4> QED BY <4>1, <4>2
    <3> QED BY <3>2, <3>3
  <2> QED BY <1>5, <1>12, <2>1 DEF Queued
<1>20. Collected(sent2, base)'
  <2>1. LastQueues \subseteq Queues BY <1>4, LaneFacts
  <2>2. \A r \in LastQueues : Before(sent2, base, Lane(r), taken[r]) = Before(sent, base, Lane(r), taken[r])
    <3> TAKE r \in LastQueues
    <3>1. r \in Queues /\ Lane(r) \in Queues /\ taken[r] \in Nat BY <1>6, <1>7, <2>1
    <3>2. Lane(r) # q \/ taken[r] <= k
      <4>1. taken[r] <= written[r] /\ written[r] <= written[Lane(r)] /\ written[r] \in Nat /\ written[Lane(r)] \in Nat
        BY <1>7, <3>1
      <4> QED BY <1>3, <3>1, <4>1
    <3> QED BY <1>11, <3>1, <3>2
  <2>3. Collected(sent, base) BY DEF Flow
  <2> QED BY <1>5, <1>12, <2>2, <2>3 DEF Collected
<1>21. Counts'
  <2>1. Counts BY DEF Flow
  <2>2. CASE t = Main
    <3>1. place'[Main] = where BY <1>10, <2>2
    <3>2. where \notin {"await", "consume"} OBVIOUS
    <3>3. Is({"alternating"}) => written'[1] = taken'[1] + (IF place'[Main] = "take" THEN 1 ELSE 0)
      <4> SUFFICES ASSUME Is({"alternating"}) PROVE written'[1] = taken'[1] + (IF place'[Main] = "take" THEN 1 ELSE 0)
        OBVIOUS
      <4>1. q = 1
        <5>1. ~Is({"multi_queue"}) BY DEF Is
        <5> QED BY <1>4, <1>6, <5>1, LaneFacts
      <4>2. written[1] = taken[1] + 0 BY <2>1 DEF Counts
      <4>3. written'[1] = k + 1 /\ taken'[1] = taken[1] /\ taken[1] \in Nat BY <1>5, <1>7, <1>9, <4>1
      <4> QED BY <1>3, <3>1, <4>1, <4>2, <4>3
    <3> QED BY <1>12, <3>1, <3>2, <3>3 DEF Counts
  <2>3. CASE t # Main
    <3>1. place'[Main] = place[Main] BY <1>4, <1>10, <2>3
    <3>2. ~Is({"alternating"})
      <4>1. t \in Producers BY <1>1, <2>3
      <4>2. ~Is(MainOnly)
        <5>1. Is(MainOnly) => Is(MainOnly \cup {"user"}) BY DEF Is
        <5> QED BY <4>1, <5>1, NoThreads
      <4> QED BY <1>4, <4>2, LaneFacts
    <3> QED BY <1>5, <1>12, <2>1, <3>1, <3>2 DEF Counts
  <2> QED BY <2>2, <2>3
<1>22. ASSUME NEW u \in Copiers PROVE HandedBy(sent2, u)'
  <2>1. /\ u \in Threads /\ u # t /\ InQueue(u) \in Queues /\ OutQueue(u) \in Queues /\ OutQueue(u) # 1
        /\ Lane(InQueue(u)) = 1 /\ ~Is({"multi_queue"}) /\ Mine(u) \subseteq Names
    BY <1>1, <1>22, InCopyFacts
  <2>2. q = 1 BY <1>4, <1>6, <2>1, LaneFacts
  <2>3. written'[OutQueue(u)] = written[OutQueue(u)] BY <1>9, <2>1, <2>2
  <2>4. HandedBy(sent, u) BY DEF Flow
  <2>5. \A m \in Mine(u) : Contents(m)' = Contents(m) BY <1>5, <2>1
  <2>6. place'[u] = place[u] BY <1>10, <2>1
  <2>7. HandedBy(sent, u)' BY <1>5, <2>1, <2>3, <2>4, <2>5, <2>6, HandedStays
  <2>8. InCopy(u) # {} => sent2[1][written[OutQueue(u)]] = sent[1][written[OutQueue(u)]]
    <3> SUFFICES ASSUME InCopy(u) # {} PROVE sent2[1][written[OutQueue(u)]] = sent[1][written[OutQueue(u)]] OBVIOUS
    <3>1. taken[InQueue(u)] = written[OutQueue(u)] + 1 BY <2>4 DEF HandedBy
    <3>2. /\ taken[InQueue(u)] <= written[InQueue(u)] /\ written[InQueue(u)] <= written[1]
          /\ written[InQueue(u)] \in Nat /\ written[OutQueue(u)] \in Nat
      BY <1>7, <2>1
    <3>3. written[OutQueue(u)] # k BY <1>3, <1>5, <2>2, <3>1, <3>2
    <3> QED BY <1>5, <1>11, <2>2, <3>2, <3>3
  <2>9. InCopy(u)' = InCopy(u)
    <3>1. InMessage(u)' = InMessage(u) /\ Published(u)' = Published(u) BY <1>5, Fixed, FixedMore
    <3> QED BY <2>6, <3>1 DEF InCopy
  <2>10. written[OutQueue(u)]' = written[OutQueue(u)] BY <1>12, <2>3
  <2> QED BY <2>7, <2>8, <2>9, <2>10 DEF HandedBy
<1>23. ASSUME NEW u \in Sending PROVE SentBy(sent2, base, u)'
  <2>1. SentBy(sent, base, u) BY DEF Flow
  <2>2. u \in Threads /\ OutQueue(u) \in Queues BY SendingFacts
  <2>3. CASE u = t
    <3>1. InHand(t)' = <<>>
      <4>1. CASE where = "loop" /\ Is({"batched"}) BY <1>5, <1>10, <1>12, <4>1 DEF InHand
      <4>2. CASE ~(where = "loop" /\ Is({"batched"})) BY <1>10, <1>12, <4>2 DEF InHand
      <4> QED BY <4>1, <4>2
    <3>2. \A n \in 0 .. program.target - 1 : <<Id(t), n>> \in Before(sent2, base, q, k + 1) <=> n < number[t]
      BY <1>11, <1>16
    <3>3. PICK c \in Nat : c = number[t] BY <1>1, <1>4
    <3>4. number'[t] = c /\ c - 0 = c /\ c >= 0 /\ c <= PerProducer BY <1>5, <1>14, <3>3
    <3>5. PICK h : h = InHand(t)' OBVIOUS
    <3>6. Len(h) = 0 BY <3>1, <3>5
    <3>7. \A i \in 1 .. Len(h) : h[i] = <<Id(t), c - Len(h) + i - 1>> BY <3>6
    <3>8. place'[t] \notin {"publish", "put", "last"} BY <1>10
    <3>9. Before(sent2, base, OutQueue(t), written[OutQueue(t)])' = Before(sent2, base, q, k + 1) BY <1>2, <1>9, <1>12
    <3> QED BY <1>5, <1>12, <2>3, <3>2, <3>3, <3>4, <3>5, <3>6, <3>7, <3>8, <3>9 DEF SentBy
  <2>4. CASE u # t
    <3>1. place'[u] = place[u] /\ number'[u] = number[u] BY <1>5, <1>10, <2>2, <2>4
    <3>2. OutMessage(u) \in Mine(u) /\ OutMessage(u) \in Names BY <1>4, <2>2, MessageFacts
    <3>3. Contents(OutMessage(u))' = Contents(OutMessage(u)) BY <1>5, <2>2, <2>4, <3>2
    <3>4. \A n : <<Id(u), n>> \in Before(sent2, base, OutQueue(u), written'[OutQueue(u)])
                    <=> <<Id(u), n>> \in Before(sent, base, OutQueue(u), written[OutQueue(u)])
      <4>1. CASE OutQueue(u) # q
        <5>1. written'[OutQueue(u)] = written[OutQueue(u)] /\ written[OutQueue(u)] \in Nat BY <1>7, <1>9, <2>2, <4>1
        <5> QED BY <1>11, <2>2, <4>1, <5>1
      <4>2. CASE OutQueue(u) = q
        <5>1. Id(u) # Id(t) BY <1>1, <2>4
        <5>2. \A n : <<Id(u), n>> \notin {s[i] : i \in DOMAIN s} BY <1>17, <5>1
        <5>3. \A n : <<Id(u), n>> \in Before(sent2, base, q, k + 1) <=> <<Id(u), n>> \in Before(sent, base, q, k)
          BY <1>11, <5>2
        <5> QED BY <1>3, <1>9, <4>2, <5>3
      <4> QED BY <4>1, <4>2
    <3> QED BY <1>5, <2>1, <3>1, <3>3, <3>4, SentStays
  <2> QED BY <2>3, <2>4
<1>24. Sending' = Sending
  <2>1. CASE t = Main
    <3>1. place'[Main] \in {"fill", "put", "take"} /\ place[Main] \in {"fill", "put", "take"} /\ Is(MainOnly)
      BY <1>1, <1>10, <2>1
    <3> QED BY <1>12, <3>1 DEF Sending
  <2>2. CASE t # Main
    <3>1. place'[Main] = place[Main] BY <1>4, <1>10, <2>2
    <3> QED BY <1>5, <1>12, <3>1 DEF Sending
  <2> QED BY <2>1, <2>2
<1>25. \A r \in Queues : base <= taken'[r] BY <1>5, <1>7
<1>26. Flow(sent2, base)' BY <1>12, <1>18, <1>19, <1>20, <1>21, <1>22, <1>23, <1>24, <1>25 DEF Flow
<1> QED BY <1>26

\* A thread that is neither off nor at its end has a part in the flow.
LEMMA BusyFacts ==
    ASSUME ProgramsInv, NEW t \in Threads \ {Main}, place[t] \notin {"off", "ended"}
    PROVE  /\ ~Is({"user", "no_consumer"}) /\ ~Is(MainOnly) /\ ~Again
           /\ place[Main] \notin {"create", "round"}
           /\ t \in Producers => t \in Sending /\ Flowing
<1>1. program \in Candidates /\ Main \in Threads BY Parts
<1>2. ~Is(MainOnly) /\ ~Is({"user"})
  <2>1. /\ Is(MainOnly) => Is(MainOnly \cup {"user"})
        /\ Is({"user"}) => Is(MainOnly \cup {"user"})
        /\ Is(MainOnly \cup {"user"}) => ~Is(Copying)
    BY DEF Is, MainOnly, Copying
  <2> QED BY <1>1, <2>1, ThreadFacts
<1>3. ~Again /\ ~Is({"user", "no_consumer"}) BY <1>2 DEF Again, Is, MainOnly
<1>4. t \in Producers => t[2] <= round /\ place[Main] \notin {"create", "round", "done"}
  <2>1. Rounds /\ round \in Nat /\ (t \in Producers => t[2] \in Nat)
    BY <1>1, Parts, ProgramFacts, ThreadFacts DEF ProgramsInv
  <2> QED BY <2>1 DEF Rounds
<1>5. t \in Copiers => place[Main] \notin {"create", "round"} BY DEF ProgramsInv, Starting
<1>6. t \in Producers \/ t \in Copiers BY DEF Threads
<1> QED BY <1>2, <1>3, <1>4, <1>5, <1>6 DEF Sending, Flowing

\* A message of a thread's enters its queue.
LEMMA PublishFlow ==
    ASSUME ProgramsInv, InOrderInv, NEW t \in Threads \ {Main}, NEW m \in Mine(t), NEW where,
           Publish(t, m, where), where \in {"loop", "leave", "get"}, place[t] \notin {"off", "ended"},
           \A sent \in Sents, base \in Nat : Flow(sent, base) /\ Flowing => \E sent2 \in Sents : Flow(sent2, base)'
    PROVE  InOrderInv'
<1>1. ~Is({"user", "no_consumer"}) /\ ~Again /\ place[Main] \notin {"create", "round"} BY BusyFacts
<1>2. PICK q : q = OutQueue(t) OBVIOUS
<1>3. PICK k : k = written[q] OBVIOUS
<1>4. t \in Threads /\ place \in [Threads -> Places] /\ Main \in Threads /\ program \in Candidates
      /\ Producers \subseteq Threads
  BY Parts
<1>5. /\ taken' = taken /\ place' = [place EXCEPT ![t] = where]
      /\ UNCHANGED <<program, number, round, consumed>>
      /\ \A u \in Threads \ {t}, x \in Names : x \in Mine(u) => Contents(x)' = Contents(x)
  BY <1>1, <1>2, <1>3, <1>4, PublishMoves
<1>6. place'[t] = where /\ \A u \in Threads \ {t} : place'[u] = place[u] BY <1>4, <1>5
<1>7. place'[Main] = place[Main] BY <1>4, <1>6
<1>8. /\ Again' = Again /\ Flowing' = Flowing /\ Sending' = Sending /\ Complete' = Complete
      /\ Queues' = Queues /\ \A kinds : Is(kinds)' = Is(kinds)
  BY <1>5, <1>7, MainStays, Fixed
<1>9. Follow(consumed, {})'
  <2>1. Follow(consumed, {}) BY <1>1 DEF InOrderInv
  <2> QED BY <1>5, <2>1, FollowNext
<1>10. NoneYet'
  <2>1. NoneYet BY <1>1 DEF InOrderInv
  <2>2. \A u \in Producers \ {t} : place'[u] = place[u] /\ Contents(OutMessage(u))' = Contents(OutMessage(u))
    BY <1>4, <1>5, <1>6, MessageFacts
  <2>3. place'[t] \notin {"off", "start", "construct", "spin", "ended"} BY <1>6
  <2> QED BY <1>5, <2>1, <2>2, <2>3, NoneYetStays
<1>11. (place[Main] \in {"join", "done"} \/ Again => Complete)' BY <1>1, <1>7, <1>8 DEF InOrderInv
<1>12. (place[Main] \in {"create", "round"} /\ ~Again =>
              /\ \E base \in Nat : Rest(base)
              /\ Is(MainOnly) => consumed = <<>>
              /\ place[Main] = "create" => taken[1] = 0)'
  BY <1>1, <1>7
<1>13. (Flowing => \E sent \in [Queues -> [Nat -> Seq(Items)]], base \in Nat : Flow(sent, base))'
  <2>1. Flowing => \E sent \in Sents, base \in Nat : Flow(sent, base) BY <1>1 DEF InOrderInv, Sents
  <2> QED BY <1>8, <2>1 DEF Sents
<1> QED BY <1>9, <1>10, <1>11, <1>12, <1>13 DEF InOrderInv

LEMMA PublishesFlow ==
    ASSUME ProgramsInv, InOrderInv, NEW t \in Threads \ {Main}, PublishBatch(t) \/ PublishNext(t) \/ PublishLast(t)
    PROVE  InOrderInv'
<1>1. PICK where \in {"loop", "leave"} : Publish(t, OutMessage(t), where)
  BY DEF PublishBatch, PublishNext, PublishLast
<1>2. place[t] \in {"loop", "publish", "last"} BY DEF PublishBatch, PublishNext, PublishLast, At
<1>3. t \in Producers BY <1>2, Parts DEF CopierPlaces, Threads
<1>4. t \in Sending /\ Flowing /\ ~Is({"user", "no_consumer"}) /\ ~Is(MainOnly) BY <1>2, <1>3, BusyFacts
<1>5. OutMessage(t) \in Mine(t) /\ OutMessage(t) \in Names /\ MessagesInv BY Parts, MessageFacts
<1>6. PICK s \in Seq(Items) : s = Contents(OutMessage(t)) /\ Len(s) = messages[OutMessage(t)].used
  BY <1>5, ContentsType
<1>7. ASSUME NEW sent \in Sents, NEW base \in Nat, Flow(sent, base) PROVE \E sent2 \in Sents : Flow(sent2, base)'
  <2>1. SentBy(sent, base, t) BY <1>4, <1>7 DEF Flow
  <2>2. /\ s = InHand(t)
        /\ Is({"batched"}) \/ Len(s) <= 1
        /\ s = <<>> => Is(Copying) /\ number[t] = PerProducer
    <3>1. CASE PublishBatch(t)
      <4>1. place[t] = "loop" /\ Is({"batched"}) /\ Unsent(t) BY <3>1 DEF PublishBatch, At
      <4>2. s = InHand(t) BY <1>6, <4>1 DEF InHand
      <4>3. s # <<>>
        <5> SUFFICES ASSUME s = <<>> PROVE FALSE OBVIOUS
        <5>1. messages[OutMessage(t)].used = 0 BY <1>6
        <5>2. Has(OutMessage(t)) BY <1>5, <4>1 DEF ProgramsInv, Supplied
        <5>3. Fits(OutMessage(t), messages[OutMessage(t)].used + 1)
          BY <5>1, <5>2, RoomAssumption, CapacityAssumption DEF Fits, CapacityOf
        <5> QED BY <4>1, <5>1, <5>3 DEF Unsent
      <4> QED BY <4>1, <4>2, <4>3
    <3>2. CASE PublishNext(t)
      <4>1. place[t] = "publish" BY <3>2 DEF PublishNext, At
      <4>2. s = InHand(t) BY <1>6, <4>1 DEF InHand
      <4>3. Len(InHand(t)) = 1 BY <2>1, <4>1 DEF SentBy
      <4>4. s # <<>> BY <4>2, <4>3
      <4> QED BY <4>2, <4>3, <4>4
    <3>3. CASE PublishLast(t)
      <4>1. place[t] = "last" BY <3>3 DEF PublishLast, At
      <4>2. InHand(t) = <<>> BY <4>1 DEF InHand
      <4>3. Is(Copying) /\ s = <<>> /\ number[t] = PerProducer BY <1>6, <2>1, <4>1 DEF SentBy
      <4>4. Len(s) = 0 BY <4>3
      <4> QED BY <4>2, <4>3, <4>4
    <3> QED BY <3>1, <3>2, <3>3
  <2>3. t # Main OBVIOUS
  <2>4. ~Is({"alternating"}) BY <1>4, Parts, LaneFacts
  <2>5. where \in {"loop", "leave", "take", "fill"} OBVIOUS
  <2> QED BY <1>1, <1>4, <1>6, <1>7, <2>2, <2>3, <2>4, <2>5, SendFlow
<1>8. where \in {"loop", "leave", "get"} /\ place[t] \notin {"off", "ended"} BY <1>2
<1> QED BY <1>1, <1>5, <1>7, <1>8, PublishFlow

\* A copying thread passes on what it has.
LEMMA PassFlow == ASSUME ProgramsInv, InOrderInv, NEW t \in Threads \ {Main}, Pass(t) PROVE InOrderInv'
<1>1. place[t] = "pass" BY DEF Pass, At
<1>2. PICK where \in {"leave", "get"} : Publish(t, Published(t), where)
  <2>1. Publish(t, Published(t), IF number[t] = 0 THEN "leave" ELSE "get") BY DEF Pass
  <2> QED BY <2>1
<1>3. t \in Copiers BY <1>1, Parts DEF ProducerPlaces, Threads
<1>4. PICK m \in Mine(t) : m = Published(t) BY Parts, MessageFacts
<1>5. Publish(t, m, where) BY <1>2, <1>4
<1>6. ~Is({"user", "no_consumer"}) /\ ~Is(MainOnly) BY <1>1, BusyFacts
<1>7. PICK q : q = OutQueue(t) OBVIOUS
<1>8. PICK k : k = written[q] OBVIOUS
<1>9. /\ t \in Threads /\ place \in [Threads -> Places] /\ Main \in Threads /\ program \in Candidates
      /\ Copiers \subseteq Threads /\ QueuesType
  BY Parts
<1>10. /\ q \in Queues /\ k \in Nat
       /\ taken' = taken /\ written' = [written EXCEPT ![q] = k + 1]
       /\ place' = [place EXCEPT ![t] = where]
       /\ UNCHANGED <<program, number, round, consumed>>
       /\ Contents(Entry(q, k))' = Contents(m)
       /\ \A u \in Threads \ {t}, x \in Names : x \in Mine(u) => Contents(x)' = Contents(x)
       /\ \A r \in Queues, j \in Nat : j >= taken[r] /\ j < written[r] =>
             Contents(Entry(r, j))' = Contents(Entry(r, j))
  BY <1>5, <1>6, <1>7, <1>8, <1>9, PublishMoves
<1>11. place'[t] = where /\ \A u \in Threads \ {t} : place'[u] = place[u] BY <1>9, <1>10
<1>12. written'[q] = k + 1 /\ \A r \in Queues : r # q => written'[r] = written[r] BY <1>9, <1>10 DEF QueuesType
<1>13. /\ q # 1 /\ InQueue(t) \in Queues /\ ~Is({"multi_queue"}) /\ Lanes = {1} /\ (\A r : Lane(r) = 1)
       /\ 1 \in Queues
       /\ \A u \in Copiers : u # t => OutQueue(u) # q
  BY <1>3, <1>7, <1>9, InCopyFacts, LaneFacts, ProgramFacts DEF Lane
<1>14. /\ Queues' = Queues /\ Copiers' = Copiers /\ Total' = Total /\ (\A r : Lane(r)' = Lane(r))
       /\ \A kinds : Is(kinds)' = Is(kinds)
  BY <1>10, Fixed, FixedMore
<1>15. ASSUME NEW sent \in Sents, NEW base \in Nat, Flow(sent, base) PROVE Flow(sent, base)'
  <2>1. /\ \A r \in Queues : taken[r] \in Nat /\ written[r] \in Nat /\ base <= taken[r] /\ taken[r] <= written[r]
                             /\ written[r] <= written[1]
        /\ \A r \in Queues, j \in Nat : j >= taken[r] /\ j < written[r] => Contents(Entry(r, j)) = sent[1][j]
    BY <1>13, <1>15, RouteFacts
  <2>2. Contents(m) = sent[1][k] /\ taken[InQueue(t)] = k + 1
    <3>1. HandedBy(sent, t) BY <1>3, <1>15 DEF Flow
    <3>2. InCopy(t) = {m} BY <1>1, <1>4 DEF InCopy
    <3> QED BY <1>7, <1>8, <3>1, <3>2 DEF HandedBy
  <2>3. written'[1] = written[1] /\ k + 1 <= written[1] BY <1>12, <1>13, <2>1, <2>2
  <2>4. Ordered(sent, base)' BY <1>10, <1>13, <1>15, <2>3, OrderedStays DEF Flow
  <2>5. Queued(sent)'
    <3>1. ASSUME NEW r \in Queues
          PROVE  /\ written'[r] <= written'[1]
                 /\ \A j \in Nat : j \in taken[r] .. written'[r] - 1 => Contents(Entry(r, j))' = sent[1][j]
      <4>1. taken[r] \in Nat /\ written[r] \in Nat /\ written[r] <= written[1] BY <2>1
      <4>2. written'[r] <= written'[1] BY <1>12, <2>3, <4>1
      <4>3. ASSUME NEW j \in Nat, j \in taken[r] .. written'[r] - 1 PROVE Contents(Entry(r, j))' = sent[1][j]
        <5>1. CASE r = q /\ j = k BY <1>10, <2>2, <5>1
        <5>2. CASE ~(r = q /\ j = k)
          <6>1. j >= taken[r] /\ j < written[r] BY <1>8, <1>10, <1>12, <4>1, <4>3, <5>2
          <6> QED BY <1>10, <2>1, <6>1
        <5> QED BY <5>1, <5>2
      <4> QED BY <4>2, <4>3
    <3> QED BY <1>10, <1>13, <1>14, <3>1 DEF Queued
  <2>6. Collected(sent, base)' BY <1>10, <1>15, CollectedStays DEF Flow
  <2>7. Counts'
    <3>1. ~Is({"alternating"}) BY <1>6, <1>9, LaneFacts
    <3>2. place'[Main] = place[Main] BY <1>9, <1>11
    <3> QED BY <1>10, <1>14, <1>15, <3>1, <3>2 DEF Flow, Counts
  <2>8. ASSUME NEW u \in Copiers PROVE HandedBy(sent, u)'
    <3>1. HandedBy(sent, u) BY <1>15 DEF Flow
    <3>2. CASE u = t
      <4>1. InCopy(t)' = {} BY <1>11 DEF InCopy
      <4>2. taken[InQueue(t)]' = k + 1 /\ written[OutQueue(t)]' = k + 1 BY <1>7, <1>10, <1>12, <2>2, FixedMore
      <4>3. k + 1 = k + 1 + 0 BY <1>10
      <4> QED BY <3>2, <4>1, <4>2, <4>3 DEF HandedBy
    <3>3. CASE u # t
      <4>1. /\ u \in Threads \ {t} /\ Mine(u) \subseteq Names /\ OutQueue(u) \in Queues
        BY <1>9, <3>3, InCopyFacts
      <4>2. written'[OutQueue(u)] = written[OutQueue(u)] BY <1>12, <1>13, <3>3, <4>1
      <4>3. \A x \in Mine(u) : Contents(x)' = Contents(x) BY <1>10, <4>1
      <4>4. place'[u] = place[u] BY <1>11, <4>1
      <4> QED BY <1>10, <3>1, <4>2, <4>3, <4>4, HandedStays
    <3> QED BY <3>2, <3>3
  <2>9. ASSUME NEW u \in Sending PROVE SentBy(sent, base, u)'
    <3>1. SentBy(sent, base, u) BY <1>15 DEF Flow
    <3>2. u \in Threads /\ u # t /\ OutQueue(u) = 1 BY <1>3, <1>13, SendingFacts
    <3>3. OutMessage(u) \in Mine(u) /\ OutMessage(u) \in Names BY <1>9, <3>2, MessageFacts
    <3>4. Contents(OutMessage(u))' = Contents(OutMessage(u)) BY <1>10, <3>2, <3>3
    <3>5. place'[u] = place[u] /\ number'[u] = number[u] BY <1>10, <1>11, <3>2
    <3>6. \A n : <<Id(u), n>> \in Before(sent, base, OutQueue(u), written'[OutQueue(u)])
                    <=> <<Id(u), n>> \in Before(sent, base, OutQueue(u), written[OutQueue(u)])
      BY <2>3, <3>2
    <3> QED BY <1>10, <3>1, <3>4, <3>5, <3>6, SentStays
  <2>10. Sending' = Sending
    <3>1. place'[Main] = place[Main] BY <1>9, <1>11
    <3> QED BY <1>10, <3>1, MainStays
  <2>11. \A r \in Queues : base <= taken'[r] BY <1>10, <2>1
  <2> QED BY <1>14, <2>4, <2>5, <2>6, <2>7, <2>8, <2>9, <2>10, <2>11 DEF Flow
<1>16. where \in {"loop", "leave", "get"} /\ place[t] \notin {"off", "ended"} BY <1>1
<1> QED BY <1>5, <1>15, <1>16, PublishFlow

\* What is left in the queues when a message has been taken.
LEMMA QueuedLess ==
    ASSUME ProgramsInv, UNCHANGED <<program, written>>, NEW q \in Queues, NEW k \in Nat, k = taken[q],
           taken' = [taken EXCEPT ![q] = k + 1],
           \A r \in Queues, j \in Nat : j >= taken'[r] /\ j < written[r] =>
               Contents(Entry(r, j))' = Contents(Entry(r, j)),
           NEW sent \in Sents, NEW base \in Nat, Flow(sent, base)
    PROVE  Queued(sent)' /\ \A r \in Queues : base <= taken'[r]
<1>1. /\ \A r \in Queues : taken[r] \in Nat /\ written[r] \in Nat /\ base <= taken[r] /\ taken[r] <= written[r]
                           /\ written[r] <= written[Lane(r)]
      /\ \A r \in Queues, j \in Nat : j >= taken[r] /\ j < written[r] => Contents(Entry(r, j)) = sent[Lane(r)][j]
  BY RouteFacts
<1>2. taken'[q] = k + 1 /\ \A r \in Queues : r # q => taken'[r] = taken[r] BY Parts DEF QueuesType
<1>3. \A r \in Queues : taken'[r] \in Nat /\ taken[r] <= taken'[r] BY <1>1, <1>2
<1>4. ASSUME NEW r \in Queues, NEW j \in Nat, j \in taken'[r] .. written[r] - 1
      PROVE  Contents(Entry(r, j))' = sent[Lane(r)][j]
  <2>1. j >= taken'[r] /\ j < written[r] BY <1>1, <1>3, <1>4
  <2>2. j >= taken[r] BY <1>1, <1>3, <2>1
  <2> QED BY <1>1, <2>1, <2>2
<1>5. Queues' = Queues /\ (\A r : Lane(r)' = Lane(r)) BY Fixed, FixedMore
<1>6. Queued(sent)' BY <1>1, <1>4, <1>5 DEF Queued
<1>7. \A r \in Queues : base <= taken'[r] BY <1>1, <1>3
<1> QED BY <1>6, <1>7

LEMMA CopyGetFlow == ASSUME ProgramsInv, InOrderInv, NEW t \in Threads \ {Main}, CopyGet(t) PROVE InOrderInv'
<1>1. /\ place[t] = "get" /\ Get(InQueue(t), InMessage(t))
      /\ place' = [place EXCEPT ![t] = IF program.copyType = "PassThru" THEN "pass" ELSE "copy"]
      /\ UNCHANGED <<program, written, round, consumed>>
      /\ \A u \in Threads \ {t} : number'[u] = number[u]
  BY Parts DEF CopyGet, At, Goto
<1>2. t \in Copiers BY <1>1, Parts DEF ProducerPlaces, Threads
<1>3. ~Is({"user", "no_consumer"}) /\ ~Is(MainOnly) /\ ~Again /\ place[Main] \notin {"create", "round"}
  BY <1>1, BusyFacts
<1>4. /\ t \in Threads /\ place \in [Threads -> Places] /\ Main \in Threads /\ program \in Candidates
      /\ Copiers \subseteq Threads /\ Producers \subseteq Threads /\ QueuesType
  BY Parts
<1>5. PICK q : q = InQueue(t) OBVIOUS
<1>6. PICK m \in Mine(t) : m = InMessage(t) BY <1>4, MessageFacts
<1>7. PICK k : k = taken[q] OBVIOUS
<1>8. /\ q \in Queues /\ q # QueueCount /\ ~Is({"multi_queue"}) /\ Lanes = {1} /\ (\A r : Lane(r) = 1)
      /\ LastQueues = {QueueCount} /\ OutQueue(t) \in Queues
      /\ \A u \in Copiers : u # t => InQueue(u) # q
  BY <1>2, <1>4, <1>5, InCopyFacts, LaneFacts DEF Lane
<1>9. Get(q, m) BY <1>1, <1>5, <1>6
<1>10. /\ k \in Nat /\ written[q] \in Nat /\ k < written[q]
       /\ taken' = [taken EXCEPT ![q] = k + 1]
       /\ Contents(m)' = Contents(Entry(q, k))
       /\ \A u \in Threads \ {t}, x \in Names : x \in Mine(u) => Contents(x)' = Contents(x)
       /\ \A r \in Queues, j \in Nat : j >= taken'[r] /\ j < written[r] =>
             Contents(Entry(r, j))' = Contents(Entry(r, j))
  <2>1. UNCHANGED <<program, written>> BY <1>1
  <2> QED BY <1>4, <1>7, <1>8, <1>9, <2>1, GetMoves
<1>11. /\ place'[t] = IF program.copyType = "PassThru" THEN "pass" ELSE "copy"
       /\ \A u \in Threads \ {t} : place'[u] = place[u]
  BY <1>1, <1>4
<1>12. place'[Main] = place[Main] /\ number'[Main] = number[Main] BY <1>1, <1>4, <1>11
<1>13. taken'[q] = k + 1 /\ \A r \in Queues : r # q => taken'[r] = taken[r]
  <2>1. q \in Queues /\ taken \in [Queues -> Nat] BY <1>4, <1>8 DEF QueuesType
  <2> QED BY <1>10, <2>1
<1>14. /\ Queues' = Queues /\ Copiers' = Copiers /\ Producers' = Producers /\ Total' = Total
       /\ \A kinds : Is(kinds)' = Is(kinds)
  BY <1>1, Fixed, FixedMore
<1>15. ~Is({"separately"}) BY <1>3 DEF Is, MainOnly
<1>16. ~Again' /\ Flowing' = Flowing /\ Sending' = Sending /\ Complete' = Complete
  <2>1. ~Again' BY <1>14, <1>15 DEF Again
  <2>2. Flowing' = Flowing BY <1>3, <1>12, <2>1 DEF Flowing
  <2>3. Sending' = Sending BY <1>1, <1>12, <1>14 DEF Sending
  <2>4. Complete' = Complete BY <1>1, FixedMore DEF Complete
  <2> QED BY <2>1, <2>2, <2>3, <2>4
<1>17. ASSUME NEW sent \in Sents, NEW base \in Nat, Flow(sent, base) PROVE Flow(sent, base)'
  <2>1. Ordered(sent, base)' BY <1>1, <1>17, OrderedStays DEF Flow
  <2>2. Queued(sent)' /\ \A r \in Queues : base <= taken'[r]
    <3>1. UNCHANGED <<program, written>> BY <1>1
    <3> QED BY <1>7, <1>8, <1>10, <1>17, <3>1, QueuedLess
  <2>3. Collected(sent, base)'
    <3>1. \A r \in LastQueues : taken'[r] = taken[r] BY <1>4, <1>8, <1>13, LaneFacts
    <3> QED BY <1>1, <1>17, <3>1, CollectedStays DEF Flow
  <2>4. Counts'
    <3>1. ~Is({"alternating"}) BY <1>3, <1>4, LaneFacts
    <3> QED BY <1>1, <1>12, <1>14, <1>17, <3>1 DEF Flow, Counts
  <2>5. ASSUME NEW u \in Copiers PROVE HandedBy(sent, u)'
    <3>1. HandedBy(sent, u) BY <1>17 DEF Flow
    <3>2. CASE u = t
      <4>1. InCopy(t) = {} BY <1>1 DEF InCopy
      <4>2. k = written[OutQueue(t)]
        <5>1. written[OutQueue(t)] \in Nat BY <1>4, <1>8 DEF QueuesType
        <5> QED BY <1>5, <1>7, <3>1, <3>2, <4>1, <5>1 DEF HandedBy
      <4>3. InCopy(t)' = {m}
        <5>1. Published(t)' = Published(t) /\ InMessage(t)' = InMessage(t) /\ program' = program
          BY <1>1, Fixed, FixedMore
        <5>2. program.copyType = "PassThru" => Published(t) = m BY <1>6 DEF Published
        <5> QED BY <1>6, <1>11, <5>1, <5>2 DEF InCopy
      <4>4. Contents(m)' = sent[1][k]
        <5>1. Contents(Entry(q, k)) = sent[Lane(q)][k]
          <6>1. k >= taken[q] /\ k < written[q] BY <1>7, <1>10
          <6> QED BY <1>8, <1>10, <1>17, <6>1, RouteFacts
        <5> QED BY <1>8, <1>10, <5>1
      <4>5. taken[InQueue(t)]' = k + 1 /\ written[OutQueue(t)]' = k BY <1>1, <1>5, <1>13, <4>2, FixedMore
      <4>6. \A x \in InCopy(t)' : Contents(x)' = sent[1][k] BY <4>3, <4>4
      <4>7. InCopy(t)' # {} BY <4>3
      <4> QED BY <3>2, <4>5, <4>6, <4>7 DEF HandedBy
    <3>3. CASE u # t
      <4>1. /\ u \in Threads \ {t} /\ Mine(u) \subseteq Names /\ InQueue(u) \in Queues
        BY <1>4, <3>3, InCopyFacts
      <4>2. taken'[InQueue(u)] = taken[InQueue(u)] BY <1>8, <1>13, <3>3, <4>1
      <4>3. \A x \in Mine(u) : Contents(x)' = Contents(x) BY <1>10, <4>1
      <4>4. place'[u] = place[u] /\ written'[OutQueue(u)] = written[OutQueue(u)] BY <1>1, <1>11, <4>1
      <4> QED BY <1>1, <3>1, <4>2, <4>3, <4>4, HandedStays
    <3> QED BY <3>2, <3>3
  <2>6. ASSUME NEW u \in Sending PROVE SentBy(sent, base, u)'
    <3>1. SentBy(sent, base, u) BY <1>17 DEF Flow
    <3>2. u \in Threads /\ u # t BY <1>2, SendingFacts
    <3>3. OutMessage(u) \in Mine(u) /\ OutMessage(u) \in Names BY <1>4, <3>2, MessageFacts
    <3>4. Contents(OutMessage(u))' = Contents(OutMessage(u)) BY <1>10, <3>2, <3>3
    <3>5. place'[u] = place[u] /\ number'[u] = number[u] BY <1>1, <1>11, <3>2
    <3>6. \A n : <<Id(u), n>> \in Before(sent, base, OutQueue(u), written'[OutQueue(u)])
                    <=> <<Id(u), n>> \in Before(sent, base, OutQueue(u), written[OutQueue(u)])
      BY <1>1
    <3> QED BY <1>1, <3>1, <3>4, <3>5, <3>6, SentStays
  <2> QED BY <1>14, <1>16, <2>1, <2>2, <2>3, <2>4, <2>5, <2>6 DEF Flow
<1>18. Follow(consumed, {})'
  <2>1. Follow(consumed, {}) BY <1>3 DEF InOrderInv
  <2> QED BY <1>1, <2>1, FollowNext
<1>19. NoneYet'
  <2>1. NoneYet BY <1>3 DEF InOrderInv
  <2>2. \A u \in Producers : place'[u] = place[u] /\ Contents(OutMessage(u))' = Contents(OutMessage(u))
    <3> TAKE u \in Producers
    <3>1. u \in Threads \ {t} BY <1>2, <1>4, ThreadFacts
    <3> QED BY <1>4, <1>10, <1>11, <3>1, MessageFacts
  <2> QED BY <1>1, <2>1, <2>2, NoneYetStays
<1>20. (place[Main] \in {"join", "done"} \/ Again => Complete)' BY <1>3, <1>12, <1>16 DEF InOrderInv
<1>21. (place[Main] \in {"create", "round"} /\ ~Again =>
              /\ \E base \in Nat : Rest(base)
              /\ Is(MainOnly) => consumed = <<>>
              /\ place[Main] = "create" => taken[1] = 0)'
  BY <1>3, <1>12
<1>22. (Flowing => \E sent \in [Queues -> [Nat -> Seq(Items)]], base \in Nat : Flow(sent, base))'
  <2>1. Flowing => \E sent \in Sents, base \in Nat : Flow(sent, base) BY <1>3 DEF InOrderInv, Sents
  <2> QED BY <1>14, <1>16, <1>17, <2>1 DEF Sents
<1> QED BY <1>18, <1>19, <1>20, <1>21, <1>22 DEF InOrderInv

LEMMA ThreadStepFlow == ASSUME ProgramsInv, InOrderInv, NEW t \in Threads \ {Main}, ThreadStep(t) PROVE InOrderInv'
BY StartFlow, ConstructFlow, GoFlow, DestructFlow, FillFlow, AddFlow, PublishesFlow, EndFlow, CopyGetFlow, CopyFlow,
   PassFlow DEF ThreadStep

-----------------------------------------------------------------------------
(* The main thread between the messages *)

LEMMA MainKeeps ==
    ASSUME program \in Candidates, Main \in Threads, NEW S, S \subseteq Mine(Main) \cup EntryMessages, Keeps(S)
    PROVE  /\ \A u \in Threads \ {Main} : \A m \in Mine(u) : Contents(m)' = Contents(m)
           /\ S \subseteq Mine(Main) => \A m \in EntryMessages : Contents(m)' = Contents(m)
<1>1. \A u \in Threads \ {Main} : \A m \in Mine(u) : m \in Names /\ m \notin S BY Apart, MessageFacts
<1>2. S \subseteq Mine(Main) => \A m \in EntryMessages : m \in Names /\ m \notin S BY NotEntries, EntryNames
<1> QED BY <1>1, <1>2 DEF Keeps

LEMMA FlowMain ==
    ASSUME ProgramsInv, NEW S, S \subseteq Mine(Main), Keeps(S),
           UNCHANGED <<program, taken, written, round, consumed>>,
           \A u \in Threads \ {Main} : place'[u] = place[u] /\ number'[u] = number[u],
           NEW sent \in Sents, NEW base \in Nat, Flow(sent, base),
           Counts', Sending' \subseteq Sending, Main \in Sending' => SentBy(sent, base, Main)'
    PROVE  Flow(sent, base)'
<1>1. program \in Candidates /\ Main \in Threads /\ Copiers \subseteq Threads /\ QueuesType BY Parts
<1>2. /\ \A u \in Threads \ {Main} : \A m \in Mine(u) : Contents(m)' = Contents(m)
      /\ \A m \in EntryMessages : Contents(m)' = Contents(m)
  BY <1>1, MainKeeps
<1>3. Ordered(sent, base)' BY OrderedStays DEF Flow
<1>4. Queued(sent)' BY <1>1, <1>2, QueuedStays DEF Flow
<1>5. Collected(sent, base)' BY CollectedStays DEF Flow
<1>6. ASSUME NEW u \in Copiers PROVE HandedBy(sent, u)'
  <2>1. HandedBy(sent, u) BY DEF Flow
  <2>2. u \in Threads \ {Main} BY InCopyFacts
  <2> QED BY <1>2, <2>1, <2>2, HandedStays
<1>7. ASSUME NEW u \in Sending' PROVE SentBy(sent, base, u)'
  <2>1. u \in Sending /\ SentBy(sent, base, u) BY DEF Flow
  <2>2. u \in Threads BY <2>1, SendingFacts
  <2>3. CASE u = Main BY <2>3
  <2>4. CASE u # Main
    <3>1. Contents(OutMessage(u))' = Contents(OutMessage(u)) BY <1>1, <1>2, <2>2, <2>4, MessageFacts
    <3>2. place'[u] = place[u] /\ number'[u] = number[u] BY <2>2, <2>4
    <3>3. \A n : <<Id(u), n>> \in Before(sent, base, OutQueue(u), written'[OutQueue(u)])
                    <=> <<Id(u), n>> \in Before(sent, base, OutQueue(u), written[OutQueue(u)])
      OBVIOUS
    <3> QED BY <2>1, <3>1, <3>2, <3>3, SentStays
  <2> QED BY <2>3, <2>4
<1>8. Queues' = Queues /\ Copiers' = Copiers BY Fixed
<1>9. \A q \in Queues : base <= taken'[q] BY DEF Flow
<1> QED BY <1>3, <1>4, <1>5, <1>6, <1>7, <1>8, <1>9 DEF Flow

\* Main goes on, and the queues are as they were.
LEMMA MainQuiet ==
    ASSUME ProgramsInv, InOrderInv, ~Is({"user", "no_consumer"}),
           NEW S, S \subseteq Mine(Main) \cup EntryMessages, Flowing' => S \subseteq Mine(Main), Keeps(S),
           UNCHANGED <<program, taken, written, round, consumed>>,
           \A u \in Threads \ {Main} : place'[u] = place[u] /\ number'[u] = number[u],
           place'[Main] \in {"join", "done"} \/ Again' => Complete,
           place'[Main] \in {"create", "round"} /\ ~Again' =>
              /\ \E base \in Nat : Rest(base)
              /\ Is(MainOnly) => consumed = <<>>
              /\ place'[Main] = "create" => taken[1] = 0,
           Flowing' => Flowing /\ Sending' \subseteq Sending,
           \A sent \in Sents, base \in Nat : Flow(sent, base) /\ Flowing' =>
               Counts' /\ (Main \in Sending' => SentBy(sent, base, Main)')
    PROVE  InOrderInv'
<1>1. program \in Candidates /\ Main \in Threads /\ Producers \subseteq Threads BY Parts
<1>2. \A u \in Threads \ {Main} : \A m \in Mine(u) : Contents(m)' = Contents(m) BY <1>1, MainKeeps
<1>3. /\ Queues' = Queues /\ Complete' = Complete /\ \A kinds : Is(kinds)' = Is(kinds)
  BY Fixed, FixedMore DEF Complete
<1>4. Follow(consumed, {})'
  <2>1. Follow(consumed, {}) BY DEF InOrderInv
  <2> QED BY <2>1, FollowNext
<1>5. NoneYet'
  <2>1. NoneYet BY DEF InOrderInv
  <2>2. \A u \in Producers : place'[u] = place[u] /\ Contents(OutMessage(u))' = Contents(OutMessage(u))
    <3> TAKE u \in Producers
    <3>1. u \in Threads \ {Main} BY <1>1, ThreadFacts
    <3> QED BY <1>1, <1>2, <3>1, MessageFacts
  <2> QED BY <2>1, <2>2, NoneYetStays
<1>6. (place[Main] \in {"join", "done"} \/ Again => Complete)' BY <1>3
<1>7. (place[Main] \in {"create", "round"} /\ ~Again =>
              /\ \E base \in Nat : Rest(base)
              /\ Is(MainOnly) => consumed = <<>>
              /\ place[Main] = "create" => taken[1] = 0)'
  <2>1. \A base \in Nat : Rest(base) => Rest(base)' BY <1>3 DEF Rest
  <2> QED BY <1>3, <2>1
<1>8. (Flowing => \E sent \in [Queues -> [Nat -> Seq(Items)]], base \in Nat : Flow(sent, base))'
  <2> SUFFICES ASSUME Flowing' PROVE \E sent \in Sents, base \in Nat : Flow(sent, base)' BY <1>3 DEF Sents
  <2>1. PICK sent \in Sents, base \in Nat : Flow(sent, base) BY DEF InOrderInv, Sents
  <2>2. Flow(sent, base)' BY <2>1, FlowMain
  <2> QED BY <2>2
<1> QED BY <1>4, <1>5, <1>6, <1>7, <1>8 DEF InOrderInv

\* The invariant holds of the programs that are not about order, whatever they do.
LEMMA NotAboutOrder == ASSUME program' = program, Is({"user", "no_consumer"}) PROVE InOrderInv'
<1>1. Is({"user", "no_consumer"})' = Is({"user", "no_consumer"}) BY Fixed
<1> QED BY <1>1 DEF InOrderInv

LEMMA StutterFlow ==
    ASSUME ProgramsInv, InOrderInv, UNCHANGED <<messageVars, program, place, number, taken, written, round, consumed>>
    PROVE  InOrderInv'
<1> SUFFICES ASSUME ~Is({"user", "no_consumer"}) PROVE InOrderInv' BY NotAboutOrder
<1>1. Keeps({}) /\ {} \subseteq Mine(Main) BY UntouchedContents
<1>2. Again' = Again /\ Flowing' = Flowing /\ Sending' = Sending BY MainStays
<1>3. ASSUME NEW sent \in Sents, NEW base \in Nat, Flow(sent, base)
      PROVE  Counts' /\ (Main \in Sending' => SentBy(sent, base, Main)')
  <2>1. Counts'
    <3>1. Total' = Total /\ \A kinds : Is(kinds)' = Is(kinds) BY Fixed, FixedMore
    <3> QED BY <1>3, <3>1 DEF Flow, Counts
  <2>2. ASSUME Main \in Sending PROVE SentBy(sent, base, Main)'
    <3>1. SentBy(sent, base, Main) BY <1>3, <2>2 DEF Flow
    <3>2. Contents(OutMessage(Main))' = Contents(OutMessage(Main)) BY <1>1, Parts, MessageFacts DEF Keeps
    <3>3. place'[Main] = place[Main] /\ number'[Main] = number[Main] OBVIOUS
    <3>4. \A n : <<Id(Main), n>> \in Before(sent, base, OutQueue(Main), written'[OutQueue(Main)])
                    <=> <<Id(Main), n>> \in Before(sent, base, OutQueue(Main), written[OutQueue(Main)])
      OBVIOUS
    <3> QED BY <3>1, <3>2, <3>3, <3>4, SentStays
  <2> QED BY <1>2, <2>1, <2>2
<1>4. place'[Main] \in {"join", "done"} \/ Again' => Complete BY <1>2 DEF InOrderInv
<1>5. place'[Main] \in {"create", "round"} /\ ~Again' =>
              /\ \E base \in Nat : Rest(base)
              /\ Is(MainOnly) => consumed = <<>>
              /\ place'[Main] = "create" => taken[1] = 0
  BY <1>2 DEF InOrderInv
<1>6. Flowing' => Flowing /\ Sending' \subseteq Sending BY <1>2
<1>7. \A u \in Threads \ {Main} : place'[u] = place[u] /\ number'[u] = number[u] OBVIOUS
<1> QED BY <1>1, <1>3, <1>4, <1>5, <1>6, <1>7, MainQuiet

LEMMA SearchOnFlow == ASSUME ProgramsInv, InOrderInv, SearchOn PROVE InOrderInv'
<1>1. UNCHANGED <<messageVars, program, place, number, taken, written, round, consumed>>
  BY DEF SearchOn, threadVars, queueVars
<1> QED BY <1>1, StutterFlow

LEMMA ReleaseFlow == ASSUME ProgramsInv, InOrderInv, ReleaseThreads PROVE InOrderInv'
<1>1. /\ place[Main] = "await" /\ place' = [place EXCEPT ![Main] = "consume"]
      /\ UNCHANGED <<messageVars, program, number, taken, written, round, consumed>>
  BY DEF ReleaseThreads, At, Goto, queueVars
<1> SUFFICES ASSUME ~Is({"user", "no_consumer"}) PROVE InOrderInv' BY <1>1, NotAboutOrder
<1>2. place \in [Threads -> Places] /\ Main \in Threads BY Parts
<1>3. place'[Main] = "consume" /\ \A u \in Threads \ {Main} : place'[u] = place[u] /\ number'[u] = number[u]
  BY <1>1, <1>2
<1>4. Keeps({}) /\ {} \subseteq Mine(Main) BY <1>1, UntouchedContents
<1>5. Producers' = Producers /\ Total' = Total /\ \A kinds : Is(kinds)' = Is(kinds) BY <1>1, Fixed, FixedMore
<1>6. ~Again' /\ Flowing BY <1>1, <1>3, <1>5 DEF Again, Flowing
<1>7. Sending' = Sending /\ Main \notin Sending'
  <2>1. Sending' = Sending BY <1>1, <1>3, <1>5 DEF Sending
  <2>2. Main \notin Sending BY <1>1, SendingFacts
  <2> QED BY <2>1, <2>2
<1>8. ASSUME NEW sent \in Sents, NEW base \in Nat, Flow(sent, base) PROVE Counts'
  <2>1. Len(consumed) = number[Main] \/ Is({"batched"}) BY <1>1, <1>8 DEF Flow, Counts
  <2>2. number[Main] = 0 BY <1>1, <1>8 DEF Flow, Counts
  <2>3. Is({"pipeline"}) => 0 < Total
    <3>1. Is({"pipeline"}) => Is(MainOnly \cup Copying) BY DEF Is, Copying
    <3> QED BY <3>1, PerProducerFacts
  <2>4. Is({"alternating"}) => written[1] = taken[1] + 0 BY <1>1, <1>8 DEF Flow, Counts
  <2> QED BY <1>1, <1>3, <1>5, <2>1, <2>2, <2>3, <2>4 DEF Counts
<1>9. UNCHANGED <<program, taken, written, round, consumed>> BY <1>1
<1>10. place'[Main] \notin {"join", "done", "create", "round"} BY <1>3
<1> QED BY <1>3, <1>4, <1>6, <1>7, <1>8, <1>9, <1>10, MainQuiet

LEMMA CreateFlow == ASSUME ProgramsInv, InOrderInv, Create PROVE InOrderInv'
<1>1. /\ place[Main] = "create" /\ UNCHANGED <<program, number, taken, written, round, consumed>>
  BY DEF Create, At, Local, queueVars
<1> SUFFICES ASSUME ~Is({"user", "no_consumer"}) PROVE InOrderInv' BY <1>1, NotAboutOrder
<1>2. place \in [Threads -> Places] /\ Main \in Threads /\ program \in Candidates /\ MessagesInv BY Parts
<1>3. PICK where \in {"create", "round"} : place' = [place EXCEPT ![Main] = where]
  <2>1. ProgramsInv' BY CreateKept DEF Kept
  <2>2. place'[Main] # "failed" BY <1>1, <1>2, <2>1, Fixed DEF ProgramsInv, NobodyFailed
  <2>3. PICK where \in {"create", "round", "failed"} : place' = [place EXCEPT ![Main] = where]
    BY DEF Create, CreateLocal, Construct, Goto
  <2>4. where # "failed" BY <1>2, <2>2, <2>3
  <2> QED BY <2>3, <2>4
<1>4. place'[Main] = where /\ \A u \in Threads \ {Main} : place'[u] = place[u] /\ number'[u] = number[u]
  BY <1>1, <1>2, <1>3
<1>5. \E S : S \subseteq Mine(Main) \cup EntryMessages /\ Keeps(S)
  <2>1. OutMessage(Main) \in Mine(Main) /\ InMessage(Main) \in Mine(Main) /\ Mine(Main) \subseteq Names
    BY <1>2, MessageFacts
  <2>2. EntryMessages \subseteq Names BY <1>2, EntryNames
  <2>3. UNCHANGED messageVars \/ \E m \in Mine(Main) \cup EntryMessages : Allocate(m)
    <3>1. CASE CreateLocal
      <4> DEFINE m == CHOOSE m \in EntryMessages : ~Has(m)
      <4>1. m \in EntryMessages /\ Construct(m, Main, "create") BY <3>1 DEF CreateLocal
      <4> HIDE DEF m
      <4> QED BY <4>1 DEF Construct
    <3>2. CASE Construct(IF Has(OutMessage(Main)) THEN InMessage(Main) ELSE OutMessage(Main), Main, "create")
      <4>1. (IF Has(OutMessage(Main)) THEN InMessage(Main) ELSE OutMessage(Main)) \in Mine(Main) BY <2>1
      <4> QED BY <3>2, <4>1 DEF Construct
    <3> QED BY <3>1, <3>2 DEF Create
  <2>4. CASE UNCHANGED messageVars
    <3>1. Keeps({}) BY <2>4, UntouchedContents
    <3> QED BY <3>1
  <2>5. ASSUME NEW m \in Mine(Main) \cup EntryMessages, Allocate(m)
        PROVE  \E S : S \subseteq Mine(Main) \cup EntryMessages /\ Keeps(S)
    <3>1. Keeps({m}) BY <1>2, <2>1, <2>2, <2>5, ClearedContents
    <3>2. {m} \subseteq Mine(Main) \cup EntryMessages OBVIOUS
    <3> QED BY <3>1, <3>2
  <2> QED BY <2>3, <2>4, <2>5
<1>6. PICK S : S \subseteq Mine(Main) \cup EntryMessages /\ Keeps(S) BY <1>5
<1>7. ~Again BY <1>1 DEF Again
<1>8. /\ \E base \in Nat : Rest(base)
      /\ Is(MainOnly) => consumed = <<>>
      /\ taken[1] = 0
  BY <1>1, <1>7 DEF InOrderInv
<1>9. ~Again' /\ ~Flowing'
  <2>1. taken'[1] = 0 BY <1>1, <1>8
  <2> QED BY <1>4, <2>1 DEF Again, Flowing
<1>10. UNCHANGED <<program, taken, written, round, consumed>> BY <1>1
<1>11. place'[Main] \notin {"join", "done"} BY <1>4
<1> QED BY <1>4, <1>6, <1>8, <1>9, <1>10, <1>11, MainQuiet

\* When main has consumed all, something has been taken.
LEMMA SomethingTaken ==
    ASSUME ProgramsInv, Is(MainOnly), Complete, NEW sent \in Sents, NEW base \in Nat, Flow(sent, base)
    PROVE  taken[1] # 0
<1>1. program \in Candidates /\ 1 \in Queues BY Parts, ProgramFacts
<1>2. LastQueues = {1} /\ Lane(1) = 1
  <2>1. ~Is({"multi_queue"}) BY DEF Is, MainOnly
  <2> QED BY <1>1, <2>1, LaneFacts DEF Lane
<1>3. round = 1 /\ PerProducer \in Nat \ {0}
  <2>1. Is(MainOnly) => Is(MainOnly \cup Copying) BY DEF Is
  <2> QED BY <2>1, PerProducerFacts
<1>4. 1 \in 1 .. round /\ 0 \in 0 .. PerProducer - 1 BY <1>3
<1>5. PICK i \in DOMAIN consumed : consumed[i] = <<1, 0>> BY <1>4 DEF Complete
<1>6. consumed[i] \in Before(sent, base, 1, taken[1]) BY <1>2 DEF Flow, Collected
<1>7. PICK j \in base .. taken[1] - 1 : TRUE BY <1>6 DEF Before
<1> QED BY <1>7

LEMMA JoinFlow == ASSUME ProgramsInv, InOrderInv, Join PROVE InOrderInv'
<1> DEFINE where == IF Is({"separately"}) THEN "round" ELSE "done"
<1>1. /\ place[Main] = "join" /\ place' = [place EXCEPT ![Main] = where]
      /\ UNCHANGED <<messageVars, program, number, taken, written, round, consumed>>
  BY DEF Join, Joined, At, Goto, queueVars
<1> SUFFICES ASSUME ~Is({"user", "no_consumer"}) PROVE InOrderInv' BY <1>1, NotAboutOrder
<1>2. place \in [Threads -> Places] /\ Main \in Threads BY Parts
<1>3. place'[Main] = where /\ \A u \in Threads \ {Main} : place'[u] = place[u] /\ number'[u] = number[u]
  BY <1>1, <1>2
<1>4. Keeps({}) /\ {} \subseteq Mine(Main) BY <1>1, UntouchedContents
<1>5. Flowing /\ Complete BY <1>1 DEF InOrderInv, Flowing, Again
<1>6. ~Flowing' BY <1>3 DEF Flowing
<1>7. Is({"separately"}) => Again'
  <2> SUFFICES ASSUME Is({"separately"}) PROVE Again' OBVIOUS
  <2>1. PICK sent \in Sents, base \in Nat : Flow(sent, base) BY <1>5 DEF InOrderInv, Sents
  <2>2. Is(MainOnly) BY DEF Is, MainOnly
  <2>3. taken[1] # 0 BY <1>5, <2>1, <2>2, SomethingTaken
  <2>4. Is({"separately"})' BY <1>1, Fixed
  <2> QED BY <1>1, <1>3, <2>3, <2>4 DEF Again
<1>8. place'[Main] \in {"create", "round"} => Again' BY <1>3, <1>7
<1>9. UNCHANGED <<program, taken, written, round, consumed>> BY <1>1
<1> QED BY <1>3, <1>4, <1>5, <1>6, <1>8, <1>9, MainQuiet

LEMMA FillQueueFlow == ASSUME ProgramsInv, InOrderInv, FillQueue PROVE InOrderInv'
<1>1. /\ place[Main] = "fill" /\ ~Filled /\ place' = [place EXCEPT ![Main] = "put"]
      /\ Emplace(OutMessage(Main), <<1, number[Main]>>)
      /\ number' = [number EXCEPT ![Main] = number[Main] + 1]
      /\ UNCHANGED <<program, taken, written, round, consumed>>
  BY DEF FillQueue, At, Goto, Local, queueVars
<1> SUFFICES ASSUME ~Is({"user", "no_consumer"}) PROVE InOrderInv' BY <1>1, NotAboutOrder
<1>2. /\ place \in [Threads -> Places] /\ number \in [Threads -> Nat] /\ Main \in Threads /\ MessagesInv
      /\ program \in Candidates
  BY Parts
<1>3. /\ place'[Main] = "put" /\ number'[Main] = number[Main] + 1
      /\ \A u \in Threads \ {Main} : place'[u] = place[u] /\ number'[u] = number[u]
  BY <1>1, <1>2
<1>4. OutMessage(Main) \in Names /\ OutMessage(Main) \in Mine(Main) BY <1>2, MessageFacts
<1>5. Is(MainOnly) /\ round = 1 /\ number[Main] < program.target /\ number[Main] < PerProducer
      /\ number[Main] \in Nat /\ program.target \in Nat
  <2>1. Is(MainOnly) /\ number[Main] <= program.target BY <1>1 DEF ProgramsInv, ProgramsType, Filling
  <2>2. Is(MainOnly) => Is(MainOnly \cup Copying) BY DEF Is
  <2>3. round = 1 /\ PerProducer = program.target /\ program.target \in Nat BY <2>1, <2>2, PerProducerFacts
  <2>4. number[Main] # program.target BY <1>1 DEF Filled
  <2> QED BY <1>2, <2>1, <2>3, <2>4
<1>6. PICK x \in Items : x = <<1, number[Main]>>
  <2>1. 1 \in 1 .. program.producers /\ number[Main] \in 0 .. program.target - 1 BY <1>2, <1>5, ProgramFacts
  <2> QED BY <1>2, <2>1, ItemsAssumption
<1>7. Contents(OutMessage(Main))' = <<x>> /\ Keeps({OutMessage(Main)})
  <2>1. Emplace(OutMessage(Main), x) BY <1>1, <1>6
  <2> QED BY <1>2, <1>4, <2>1, EmplacedContents
<1>8. \A kinds : Is(kinds)' = Is(kinds) BY <1>1, Fixed
<1>9. Again' = Again BY <1>1, <1>3, <1>8 DEF Again
<1>10. Flowing' = Flowing BY <1>1, <1>3, <1>9 DEF Flowing
<1>11. Sending' = Sending /\ Main \in Sending BY <1>1, <1>3, <1>5, <1>8 DEF Sending
<1>12. InHand(Main) = <<>>
  <2>1. ~Is({"batched"}) BY <1>5 DEF Is, MainOnly
  <2> QED BY <1>1, <2>1 DEF InHand
<1>13. InHand(Main)' = <<x>> BY <1>3, <1>7 DEF InHand
<1>14. /\ InHand(Main) \in Seq(Items) /\ InHand(Main)' \in Seq(Items) /\ Len(InHand(Main)') = Len(InHand(Main)) + 1
       /\ Len(InHand(Main)) = 0 /\ InHand(Main)'[Len(InHand(Main)) + 1] = x
  <2>1. <<x>> \in Seq(Items) /\ Len(<<x>>) = 1 /\ <<x>>[1] = x OBVIOUS
  <2>2. InHand(Main) \in Seq(Items) /\ Len(InHand(Main)) = 0 BY <1>12
  <2>3. InHand(Main)' \in Seq(Items) /\ Len(InHand(Main)') = 1 /\ InHand(Main)'[1] = x BY <1>13, <2>1
  <2>4. 0 + 1 = 1 OBVIOUS
  <2> QED BY <2>2, <2>3, <2>4
<1>15. \A i \in 1 .. Len(InHand(Main)) : InHand(Main)'[i] = InHand(Main)[i] BY <1>14
<1>16. InHand(Main)'[Len(InHand(Main)) + 1] = <<Id(Main), number[Main]>> BY <1>6, <1>14 DEF Id
<1>17. ASSUME NEW sent \in Sents, NEW base \in Nat, Flow(sent, base) PROVE Counts' /\ SentBy(sent, base, Main)'
  <2>1. SentBy(sent, base, Main)
    <3>1. Main \in Sending BY <1>11
    <3> QED BY <1>17, <3>1 DEF Flow
  <2>2. SentBy(sent, base, Main)'
    <3>1. number[Main] < PerProducer BY <1>5
    <3> QED BY <1>1, <1>2, <1>3, <1>14, <1>15, <1>16, <2>1, <3>1, SentAdds
  <2>3. Counts' BY <1>1, <1>3, <1>8, <1>17 DEF Flow, Counts
  <2> QED BY <2>2, <2>3
<1>18. {OutMessage(Main)} \subseteq Mine(Main) BY <1>4
<1>19. place'[Main] \in {"join", "done"} \/ Again' => Complete BY <1>3, <1>9 DEF InOrderInv
<1>20. UNCHANGED <<program, taken, written, round, consumed>> /\ place'[Main] \notin {"create", "round"} BY <1>1, <1>3
<1> QED BY <1>3, <1>7, <1>10, <1>11, <1>17, <1>18, <1>19, <1>20, MainQuiet

LEMMA QueueFilledFlow == ASSUME ProgramsInv, InOrderInv, QueueFilled PROVE InOrderInv'
<1> DEFINE where == IF Is({"separately"}) /\ taken[1] = 0 THEN "consume" ELSE "done"
<1>1. /\ place[Main] = "fill" /\ Filled /\ place' = [place EXCEPT ![Main] = where]
      /\ number' = [number EXCEPT ![Main] = 0]
      /\ UNCHANGED <<messageVars, program, taken, written, round, consumed>>
  BY DEF QueueFilled, At, Goto, queueVars
<1> SUFFICES ASSUME ~Is({"user", "no_consumer"}) PROVE InOrderInv' BY <1>1, NotAboutOrder
<1>2. place \in [Threads -> Places] /\ number \in [Threads -> Nat] /\ Main \in Threads /\ program \in Candidates
      /\ 1 \in Queues
  BY Parts, ProgramFacts
<1>3. /\ place'[Main] = where /\ number'[Main] = 0
      /\ \A u \in Threads \ {Main} : place'[u] = place[u] /\ number'[u] = number[u]
  BY <1>1, <1>2
<1>4. Is(MainOnly) /\ round = 1 /\ PerProducer = program.target /\ program.target \in Nat
  <2>1. Is(MainOnly) BY <1>1 DEF ProgramsInv, ProgramsType, Filling
  <2>2. Is(MainOnly) => Is(MainOnly \cup Copying) BY DEF Is
  <2> QED BY <2>1, <2>2, PerProducerFacts
<1>5. Keeps({}) /\ {} \subseteq Mine(Main) BY <1>1, UntouchedContents
<1>6. (\A kinds : Is(kinds)' = Is(kinds)) /\ Total' = Total /\ Producers' = Producers BY <1>1, Fixed, FixedMore
<1>7. Main \in Sending BY <1>1, <1>4 DEF Sending
<1>8. LastQueues = {1} /\ Lane(1) = 1 /\ OutQueue(Main) = 1 /\ Id(Main) = 1
  <2>1. ~Is({"multi_queue"}) BY <1>4 DEF Is, MainOnly
  <2> QED BY <1>2, <1>4, <2>1, LaneFacts DEF Lane, OutQueue, Main, Id
<1>9. CASE Is({"separately"}) /\ taken[1] = 0
  <2>1. place'[Main] = "consume" BY <1>3, <1>9
  <2>2. Flowing /\ ~Again' BY <1>1, <1>9, <2>1 DEF Flowing, Again
  <2>3. Sending' = {} BY <1>4, <1>6, <2>1 DEF Sending
  <2>4. ASSUME NEW sent \in Sents, NEW base \in Nat, Flow(sent, base) PROVE Counts'
    <3>1. base = 0 BY <1>2, <1>9, <2>4 DEF Flow
    <3>2. Before(sent, base, 1, taken[1]) = {} BY <1>9, <3>1, BeforeEmpty
    <3>3. \A i \in DOMAIN consumed : FALSE BY <1>8, <2>4, <3>2 DEF Flow, Collected
    <3>4. consumed \in Seq(Items) BY Parts
    <3>5. Len(consumed) = 0
      <4>1. DOMAIN consumed = 1 .. Len(consumed) /\ Len(consumed) \in Nat BY <3>4, LenProperties
      <4> QED BY <3>3, <4>1
    <3>6. ~Is({"pipeline"}) /\ ~Is({"alternating"}) BY <1>9 DEF Is
    <3> QED BY <1>1, <1>3, <1>6, <2>1, <3>5, <3>6 DEF Counts
  <2>5. UNCHANGED <<program, taken, written, round, consumed>> BY <1>1
  <2>6. place'[Main] \notin {"join", "done", "create", "round"} BY <2>1
  <2>7. Sending' \subseteq Sending /\ Main \notin Sending' BY <2>3
  <2> QED BY <1>3, <1>5, <2>2, <2>4, <2>5, <2>6, <2>7, MainQuiet
<1>10. CASE ~(Is({"separately"}) /\ taken[1] = 0)
  <2>1. place'[Main] = "done" BY <1>3, <1>10
  <2>2. ~Flowing' BY <2>1 DEF Flowing
  <2>3. Complete
    <3>1. CASE Again BY <3>1 DEF InOrderInv
    <3>2. CASE ~Again
      <4>1. Is({"alternating"})
        <5>1. ~Is({"separately"}) BY <1>1, <1>10, <3>2 DEF Again
        <5> QED BY <1>4, <5>1 DEF Is, MainOnly
      <4>2. Flowing BY <1>1, <3>2 DEF Flowing
      <4>3. PICK sent \in Sents, base \in Nat : Flow(sent, base) BY <4>2 DEF InOrderInv, Sents
      <4>4. written[1] = taken[1]
        <5>1. written[1] = taken[1] + 0 BY <1>1, <4>1, <4>3 DEF Flow, Counts
        <5>2. taken[1] \in Nat BY <1>2, Parts DEF QueuesType
        <5> QED BY <5>1, <5>2
      <4>5. InHand(Main) = <<>>
        <5>1. ~Is({"batched"}) BY <1>4 DEF Is, MainOnly
        <5> QED BY <1>1, <5>1 DEF InHand
      <4>6. \A n \in 0 .. program.target - 1 : <<1, n>> \in Before(sent, base, 1, taken[1])
        <5>1. SentBy(sent, base, Main) BY <1>7, <4>3 DEF Flow
        <5>2. PICK h : h = InHand(Main) OBVIOUS
        <5>3. Len(h) = 0 BY <4>5, <5>2
        <5>4. \A n \in 0 .. program.target - 1 :
                 <<1, n>> \in Before(sent, base, 1, written[1]) <=> n < number[Main] - Len(h)
          BY <1>8, <5>1, <5>2 DEF SentBy
        <5>5. number[Main] - Len(h) = program.target BY <1>1, <1>4, <5>3 DEF Filled
        <5>6. \A n \in 0 .. program.target - 1 : n < program.target BY <1>4
        <5> QED BY <4>4, <5>4, <5>5, <5>6
      <4>7. ASSUME NEW n \in 0 .. program.target - 1 PROVE \E i \in DOMAIN consumed : consumed[i] = <<1, n>>
        <5>1. \A x \in Before(sent, base, 1, taken[1]) : \E i \in DOMAIN consumed : consumed[i] = x
          BY <1>8, <4>3 DEF Flow, Collected
        <5> QED BY <4>6, <5>1
      <4>8. \A p \in 1 .. round : p = 1 BY <1>4
      <4> QED BY <1>4, <4>7, <4>8 DEF Complete
    <3> QED BY <3>1, <3>2
  <2>4. UNCHANGED <<program, taken, written, round, consumed>> BY <1>1
  <2>5. place'[Main] \notin {"create", "round"} BY <2>1
  <2> QED BY <1>3, <1>5, <2>2, <2>3, <2>4, <2>5, MainQuiet
<1> QED BY <1>9, <1>10

\* Nothing is in the queues, and nothing has been sent.
LEMMA FreshFlow ==
    ASSUME ProgramsInv, UNCHANGED <<program, taken, written, round>>, consumed' = <<>>,
           NEW base \in Nat, Rest(base),
           \A u \in Copiers : place'[u] \notin {"copy", "pass"},
           \A u \in Sending' : /\ u \in Threads /\ number'[u] = 0 /\ InHand(u)' = <<>>
                               /\ place'[u] \notin {"publish", "put", "last"},
           Counts'
    PROVE  \E sent \in Sents : Flow(sent, base)'
<1>1. program \in Candidates BY Parts
<1>2. PICK sent \in Sents : TRUE
  <2>1. <<>> \in Seq(Items) OBVIOUS
  <2>2. [q \in Queues |-> [n \in Nat |-> <<>>]] \in Sents BY <2>1 DEF Sents
  <2> QED BY <2>2
<1>3. \A q \in Queues : taken[q] = base /\ written[q] = base BY DEF Rest
<1>4. \A l : Before(sent, base, l, base) = {} BY BeforeEmpty
<1>5. /\ Queues' = Queues /\ Copiers' = Copiers /\ Lanes' = Lanes /\ LastQueues' = LastQueues
      /\ \A q : Lane(q)' = Lane(q)
      /\ \A u : InQueue(u)' = InQueue(u) /\ OutQueue(u)' = OutQueue(u) /\ Id(u)' = Id(u)
      /\ PerProducer' = PerProducer /\ \A kinds : Is(kinds)' = Is(kinds)
  BY Fixed, FixedMore
<1>6. Lanes \subseteq Queues /\ LastQueues \subseteq Queues /\ \A q \in Queues : Lane(q) \in Queues BY <1>1, LaneFacts
<1>7. base .. base - 1 = {} OBVIOUS
<1>8. Ordered(sent, base)'
  <2>1. \A l \in Lanes' : base .. written'[l] - 1 = {} BY <1>3, <1>5, <1>6, <1>7
  <2> QED BY <2>1 DEF Ordered
<1>9. Queued(sent)'
  <2>1. \A q \in Queues' : taken'[q] .. written'[q] - 1 = {} BY <1>3, <1>5, <1>7
  <2>2. \A q \in Queues' : written'[q] <= written'[Lane(q)'] BY <1>3, <1>5, <1>6
  <2> QED BY <2>1, <2>2 DEF Queued
<1>10. Collected(sent, base)'
  <2>1. DOMAIN consumed' = {}
    <3>1. <<>> \in Seq(Items) /\ Len(<<>>) = 0 OBVIOUS
    <3>2. DOMAIN <<>> = {} BY <3>1
    <3> QED BY <3>2
  <2>2. \A q \in LastQueues' : Before(sent, base, Lane(q)', taken'[q]) = {} BY <1>3, <1>4, <1>5, <1>6
  <2> QED BY <2>1, <2>2 DEF Collected
<1>11. ASSUME NEW u \in Copiers PROVE HandedBy(sent, u)'
  <2>1. InCopy(u)' = {} BY DEF InCopy
  <2>2. InQueue(u) \in Queues /\ OutQueue(u) \in Queues BY InCopyFacts
  <2>3. taken'[InQueue(u)] = base /\ written'[OutQueue(u)] = base /\ base = base + 0 BY <1>3, <2>2
  <2> QED BY <1>5, <2>1, <2>3 DEF HandedBy
<1>12. ASSUME NEW u \in Sending' PROVE SentBy(sent, base, u)'
  <2>1. OutQueue(u) \in Queues BY <1>1, ThreadFacts
  <2>2. Before(sent, base, OutQueue(u), written[OutQueue(u)])' = {} BY <1>3, <1>4, <1>5, <2>1
  <2>3. PICK h : h = InHand(u)' OBVIOUS
  <2>4. Len(h) = 0 BY <2>3
  <2>5. number'[u] - Len(h) = 0 BY <2>4
  <2>6. number'[u] <= PerProducer BY PerProducerFacts
  <2>7. \A i \in 1 .. Len(h) : FALSE BY <2>4
  <2>8. \A n \in 0 .. program.target - 1 : ~(n < 0) OBVIOUS
  <2>9. place'[u] \notin {"publish", "put", "last"} OBVIOUS
  <2> QED BY <1>5, <2>2, <2>3, <2>5, <2>6, <2>7, <2>8, <2>9 DEF SentBy
<1>13. \A q \in Queues : base <= taken'[q] BY <1>3
<1>14. Flow(sent, base)' BY <1>5, <1>8, <1>9, <1>10, <1>11, <1>12, <1>13 DEF Flow
<1> QED BY <1>14

LEMMA FollowNone == ASSUME NEW before PROVE Follow(<<>>, before)
BY DEF Follow

\* main fills a queue itself.
LEMMA ProduceFlow == ASSUME ProgramsInv, InOrderInv, Produce PROVE InOrderInv'
<1>1. /\ place[Main] = "round" /\ Is(MainOnly) /\ place' = [place EXCEPT ![Main] = "fill"]
      /\ number' = [number EXCEPT ![Main] = 0]
      /\ UNCHANGED <<messageVars, program, taken, written, round, consumed>>
  BY DEF Produce, At, Goto
<1> SUFFICES ASSUME ~Is({"user", "no_consumer"}) PROVE InOrderInv' BY <1>1, NotAboutOrder
<1>2. place \in [Threads -> Places] /\ number \in [Threads -> Nat] /\ Main \in Threads /\ program \in Candidates
      /\ 1 \in Queues
  BY Parts, ProgramFacts
<1>3. /\ place'[Main] = "fill" /\ number'[Main] = 0
      /\ \A u \in Threads \ {Main} : place'[u] = place[u] /\ number'[u] = number[u]
  BY <1>1, <1>2
<1>4. /\ Queues' = Queues /\ Producers' = Producers /\ \A kinds : Is(kinds)' = Is(kinds)
  BY <1>1, Fixed
<1>5. Again' = Again BY <1>1, <1>3, <1>4 DEF Again
<1>6. CASE Again
  <2>1. Keeps({}) /\ {} \subseteq Mine(Main) BY <1>1, UntouchedContents
  <2>2. Complete BY <1>6 DEF InOrderInv
  <2>3. ~Flowing' BY <1>5, <1>6 DEF Flowing
  <2>4. UNCHANGED <<program, taken, written, round, consumed>> BY <1>1
  <2>5. place'[Main] \notin {"create", "round"} BY <1>3
  <2> QED BY <1>3, <2>1, <2>2, <2>3, <2>4, <2>5, MainQuiet
<1>7. CASE ~Again
  <2>1. PICK base \in Nat : Rest(base) BY <1>1, <1>7 DEF InOrderInv
  <2>2. consumed = <<>> BY <1>1, <1>7 DEF InOrderInv
  <2>3. ~Is({"batched"}) /\ ~Is({"multi_queue"}) BY <1>1 DEF Is, MainOnly
  <2>4. Sending' = {Main} BY <1>1, <1>3, <1>4 DEF Sending
  <2>5. InHand(Main)' = <<>> BY <1>3, <1>4, <2>3 DEF InHand
  <2>6. Copiers = {}
    <3>1. ~Is(Copying) BY <1>1, <1>2, LaneFacts
    <3> QED BY <1>2, <3>1, NoThreads
  <2>7. Counts'
    <3>1. taken[1] = base /\ written[1] = base /\ base = base + 0 BY <1>2, <2>1 DEF Rest
    <3> QED BY <1>1, <1>3, <1>4, <3>1 DEF Counts
  <2>8. \A u \in Sending' : /\ u \in Threads /\ number'[u] = 0 /\ InHand(u)' = <<>>
                            /\ place'[u] \notin {"publish", "put", "last"}
    <3>1. Main \in Threads /\ place'[Main] \notin {"publish", "put", "last"} BY <1>2, <1>3
    <3> QED BY <1>3, <2>4, <2>5, <3>1
  <2>9. \A u \in Copiers : place'[u] \notin {"copy", "pass"} BY <2>6
  <2>10. consumed' = <<>> /\ UNCHANGED <<program, taken, written, round>> BY <1>1, <2>2
  <2>11. \E sent \in Sents : Flow(sent, base)' BY <2>1, <2>7, <2>8, <2>9, <2>10, FreshFlow
  <2>12. (Flowing => \E sent \in [Queues -> [Nat -> Seq(Items)]], base2 \in Nat : Flow(sent, base2))'
    BY <1>4, <2>11 DEF Sents
  <2>13. Follow(consumed, {})'
    <3>1. Follow(consumed', {}) BY <2>10, FollowNone
    <3> QED BY <1>1, <3>1, FollowNext
  <2>14. NoneYet' BY <1>4, <2>3 DEF NoneYet
  <2>15. ~Again' /\ place'[Main] \notin {"join", "done", "create", "round"} BY <1>3, <1>5, <1>7
  <2> QED BY <2>12, <2>13, <2>14, <2>15 DEF InOrderInv
<1> QED BY <1>6, <1>7

LEMMA PutMessageFlow == ASSUME ProgramsInv, InOrderInv, PutMessage PROVE InOrderInv'
<1>1. PICK where \in {"take", "fill"} :
         /\ place[Main] = "put" /\ Publish(Main, OutMessage(Main), where)
         /\ Is({"alternating"}) <=> where = "take"
  BY DEF PutMessage, At
<1>2. /\ place \in [Threads -> Places] /\ Main \in Threads /\ program \in Candidates /\ MessagesInv
      /\ Producers \subseteq Threads
  BY Parts
<1>3. OutMessage(Main) \in Mine(Main) /\ OutMessage(Main) \in Names BY <1>2, MessageFacts
<1>4. Is(MainOnly) BY <1>1 DEF ProgramsInv, ProgramsType, Filling
<1> SUFFICES ASSUME ~Is({"user", "no_consumer"}) PROVE InOrderInv'
  <2>1. program' = program BY <1>1 DEF Publish
  <2> QED BY <2>1, NotAboutOrder
<1>5. PICK q : q = OutQueue(Main) OBVIOUS
<1>6. PICK k : k = written[q] OBVIOUS
<1>7. PICK m \in Mine(Main) : m = OutMessage(Main) BY <1>3
<1>8. Publish(Main, m, where) BY <1>1, <1>7
<1>9. /\ taken' = taken /\ place' = [place EXCEPT ![Main] = where]
      /\ UNCHANGED <<program, number, round, consumed>>
  BY <1>2, <1>5, <1>6, <1>8, PublishMoves
<1>10. place'[Main] = where BY <1>2, <1>9
<1>11. /\ Queues' = Queues /\ Complete' = Complete /\ \A kinds : Is(kinds)' = Is(kinds)
  BY <1>9, Fixed, FixedMore DEF Complete
<1>12. Is({"separately"}) => ~Is({"alternating"}) BY DEF Is
<1>13. Again' = Again BY <1>1, <1>9, <1>10, <1>11, <1>12 DEF Again
<1>14. Flowing' = Flowing BY <1>1, <1>10, <1>13 DEF Flowing
<1>15. Follow(consumed, {})'
  <2>1. Follow(consumed, {}) BY DEF InOrderInv
  <2> QED BY <1>9, <2>1, FollowNext
<1>16. NoneYet'
  <2>1. ~Is({"batched"}) BY <1>4 DEF Is, MainOnly
  <2> QED BY <1>11, <2>1 DEF NoneYet
<1>17. (place[Main] \in {"join", "done"} \/ Again => Complete)' BY <1>10, <1>11, <1>13 DEF InOrderInv
<1>18. place'[Main] \notin {"create", "round"} BY <1>10
<1>19. ASSUME Flowing PROVE \E sent \in Sents, base \in Nat : Flow(sent, base)'
  <2>1. PICK sent \in Sents, base \in Nat : Flow(sent, base) BY <1>19 DEF InOrderInv, Sents
  <2>2. Main \in Sending BY <1>1, <1>4 DEF Sending
  <2>3. PICK s \in Seq(Items) : s = Contents(OutMessage(Main)) BY <1>2, <1>3, ContentsType
  <2>4. s = InHand(Main) BY <1>1, <2>3 DEF InHand
  <2>5. Len(s) = 1
    <3>1. SentBy(sent, base, Main) BY <2>1, <2>2 DEF Flow
    <3> QED BY <1>1, <2>4, <3>1 DEF SentBy
  <2>6. Len(s) <= 1 /\ s # <<>>
    <3>1. Len(s) <= 1 BY <2>5
    <3>2. s = <<>> => Len(s) = 0 OBVIOUS
    <3> QED BY <2>5, <3>1, <3>2
  <2>7. where \in {"loop", "leave", "take", "fill"} /\ (Is({"alternating"}) => where = "take" /\ place[Main] # "take")
    BY <1>1
  <2>8. \E sent2 \in Sents : Flow(sent2, base)' BY <1>1, <2>1, <2>2, <2>3, <2>4, <2>6, <2>7, SendFlow
  <2> QED BY <2>8
<1>20. (Flowing => \E sent \in [Queues -> [Nat -> Seq(Items)]], base \in Nat : Flow(sent, base))'
  BY <1>11, <1>14, <1>19 DEF Sents
<1> QED BY <1>15, <1>16, <1>17, <1>18, <1>20 DEF InOrderInv

\* main starts the threads of a round.
LEMMA SpawnFlow ==
    ASSUME ProgramsInv, InOrderInv, SpawnRound \/ SpawnForQueues \/ SpawnPipeline
    PROVE  InOrderInv'
<1>1. /\ place[Main] = "round" /\ Is({"rounds", "multi_queue"} \cup Copying)
      /\ place' = [t \in Threads |-> IF t = Main THEN "await" ELSE IF t \in Running THEN "start" ELSE place[t]]
      /\ number' = [t \in Threads |-> 0] /\ consumed' = <<>>
      /\ UNCHANGED <<messageVars, program, taken, written, round>>
  BY DEF SpawnRound, SpawnForQueues, SpawnPipeline, At, StartThreads, Is
<1>2. /\ place \in [Threads -> Places] /\ Main \in Threads /\ program \in Candidates
      /\ Producers \subseteq Threads /\ Copiers \subseteq Threads
  BY Parts
<1>3. ~Is({"user", "no_consumer"}) /\ ~Is(MainOnly) /\ ~Is({"separately"}) BY <1>1 DEF Is, Copying, MainOnly
<1>4. /\ place'[Main] = "await" /\ number'[Main] = 0
      /\ \A u \in Threads \ {Main} : place'[u] = (IF u \in Running THEN "start" ELSE place[u])
      /\ \A u \in Threads : number'[u] = 0
  BY <1>1, <1>2
<1>5. /\ Queues' = Queues /\ Producers' = Producers /\ \A kinds : Is(kinds)' = Is(kinds)
  BY <1>1, Fixed
<1>6. ~Again /\ ~Again' BY <1>3, <1>5 DEF Again
<1>7. PICK base \in Nat : Rest(base) BY <1>1, <1>3, <1>6 DEF InOrderInv
<1>8. \A u \in Copiers : place'[u] = "start"
  <2>1. \A u \in Copiers : u \in Threads \ {Main} /\ u \in Running BY <1>2, ThreadFacts DEF Running
  <2> QED BY <1>4, <2>1
<1>9. \A u \in Sending' : u \in Threads /\ place'[u] = "start"
  <2>1. Sending' = {u \in Producers : u[2] <= round} BY <1>1, <1>3, <1>5 DEF Sending
  <2>2. \A u \in Sending' : u \in Threads \ {Main} /\ u \in Running BY <1>2, <2>1, ThreadFacts DEF Running
  <2> QED BY <1>4, <2>2
<1>10. \A u \in Sending' : /\ u \in Threads /\ number'[u] = 0 /\ InHand(u)' = <<>>
                           /\ place'[u] \notin {"publish", "put", "last"}
  <2> TAKE u \in Sending'
  <2>1. u \in Threads /\ place'[u] = "start" BY <1>9
  <2>2. InHand(u)' = <<>> BY <2>1 DEF InHand
  <2> QED BY <1>4, <2>1, <2>2
<1>11. Counts'
  <2>1. ~Is({"alternating"}) BY <1>3 DEF Is, MainOnly
  <2>2. Len(consumed') = 0 BY <1>1
  <2> QED BY <1>4, <1>5, <2>1, <2>2 DEF Counts
<1>12. \E sent \in Sents : Flow(sent, base)'
  <2>1. \A u \in Copiers : place'[u] \notin {"copy", "pass"} BY <1>8
  <2>2. consumed' = <<>> /\ UNCHANGED <<program, taken, written, round>> BY <1>1
  <2> QED BY <1>7, <1>10, <1>11, <2>1, <2>2, FreshFlow
<1>13. Follow(consumed, {})'
  <2>1. Follow(consumed', {}) /\ program' = program BY <1>1, FollowNone
  <2> QED BY <2>1, FollowNext
<1>14. NoneYet'
  <2> SUFFICES ASSUME Is({"batched"}), NEW u \in Producers PROVE Contents(OutMessage(u))' = <<>>
    BY <1>5 DEF NoneYet
  <2>1. place[u] \in {"off", "ended"} BY <1>1 DEF ProgramsInv, Rounds
  <2>2. Contents(OutMessage(u)) = <<>> BY <2>1, NoneYetFacts
  <2>3. Keeps({}) BY <1>1, UntouchedContents
  <2>4. OutMessage(u) \in Names BY <1>2, MessageFacts
  <2> QED BY <2>2, <2>3, <2>4 DEF Keeps
<1>15. (Flowing => \E sent \in [Queues -> [Nat -> Seq(Items)]], base2 \in Nat : Flow(sent, base2))'
  BY <1>5, <1>12 DEF Sents
<1>16. place'[Main] \notin {"join", "done", "create", "round"} BY <1>4
<1> QED BY <1>6, <1>13, <1>14, <1>15, <1>16 DEF InOrderInv

\* When all has been consumed, there is nothing left that could have been sent.
LEMMA NothingLeft ==
    ASSUME ProgramsInv, ~Is(Copying), Complete, NEW sent \in Sents, NEW base \in Nat, Flow(sent, base),
           NEW q \in LastQueues
    PROVE  taken[q] = written[q]
<1>1. /\ program \in Candidates /\ LastQueues \subseteq Queues /\ q \in Queues
  BY Parts, LaneFacts
<1>2. QueueCount = 1 \/ Is({"multi_queue"})
  <2>1. program.copies = 0 BY <1>1, ProgramFacts
  <2> QED BY <2>1 DEF QueueCount, QueuesOf, Is
<1>3. Lane(q) = q /\ q \in Lanes BY <1>1, <1>2, LaneFacts DEF Lane, LastQueues
<1> SUFFICES ASSUME taken[q] # written[q] PROVE FALSE OBVIOUS
<1>4. PICK k : k = taken[q] OBVIOUS
<1>5. k \in Nat /\ k \in base .. written[q] - 1
  <2>1. taken[q] \in Nat /\ written[q] \in Nat /\ base <= taken[q] /\ taken[q] <= written[q] BY <1>1, RouteFacts
  <2> QED BY <1>4, <2>1
<1>6. /\ Follow(sent[q][k], Before(sent, base, q, k))
      /\ \A i \in DOMAIN sent[q][k] : \E p \in 1 .. round, n \in 0 .. PerProducer - 1 : sent[q][k][i] = <<p, n>>
      /\ sent[q][k] # <<>>
  BY <1>3, <1>5 DEF Flow, Ordered
<1>7. PICK s \in Seq(Items) : s = sent[q][k] BY <1>1, <1>5, RouteFacts
<1>8. s # <<>> BY <1>6, <1>7
<1>9. 1 \in DOMAIN s BY <1>8
<1>10. PICK p \in 1 .. round, n \in 0 .. PerProducer - 1 : s[1] = <<p, n>> BY <1>6, <1>7, <1>9
<1>11. <<p, n>> \notin Before(sent, base, q, k)
  <2>1. PICK p2 \in 1 .. program.producers, n2 \in 0 .. program.target - 1 :
           /\ s[1] = <<p2, n2>>
           /\ \A j \in 0 .. program.target - 1 : j < n2 <=>
                 <<p2, j>> \in Before(sent, base, q, k) \cup {s[i] : i \in 1 .. 1 - 1}
    BY <1>6, <1>7, <1>9 DEF Follow
  <2>2. p2 = p /\ n2 = n BY <1>10, <2>1
  <2>3. ~(n2 < n2) OBVIOUS
  <2> QED BY <2>1, <2>2, <2>3
<1>12. PICK i \in DOMAIN consumed : consumed[i] = <<p, n>> BY <1>10 DEF Complete
<1>13. PICK r \in LastQueues : <<p, n>> \in Before(sent, base, Lane(r), taken[r])
  BY <1>12 DEF Flow, Collected
<1>14. CASE r = q BY <1>3, <1>4, <1>11, <1>13, <1>14
<1>15. CASE r # q
  <2>1. Is({"multi_queue"}) BY <1>13, <1>15 DEF LastQueues
  <2>2. r \in Queues /\ Lane(r) = r /\ r \in Lanes BY <1>1, <1>13, <2>1, LaneFacts DEF Lane
  <2>3. PICK j \in base .. taken[r] - 1 : <<p, n>> \in {sent[r][j][h] : h \in DOMAIN sent[r][j]}
    BY <1>13, <2>2 DEF Before
  <2>4. j \in Nat /\ j \in base .. written[r] - 1
    <3>1. taken[r] \in Nat /\ written[r] \in Nat /\ taken[r] <= written[r] BY <2>2, RouteFacts
    <3> QED BY <2>3, <3>1
  <2>5. p = r BY <2>1, <2>2, <2>3, <2>4 DEF Flow, Ordered
  <2>6. p = q
    <3>1. \A h \in DOMAIN s : \E p2 \in 1 .. round, n2 \in 0 .. PerProducer - 1 :
             s[h] = <<p2, n2>> /\ (Is({"multi_queue"}) => p2 = q)
      BY <1>3, <1>5, <1>7 DEF Flow, Ordered
    <3> QED BY <1>9, <1>10, <2>1, <3>1
  <2> QED BY <1>15, <2>5, <2>6
<1> QED BY <1>14, <1>15

LEMMA JoinRoundFlow == ASSUME ProgramsInv, InOrderInv, JoinRound PROVE InOrderInv'
<1> DEFINE where == IF round < program.producers THEN "round" ELSE "done"
<1>1. /\ place[Main] = "join" /\ Is({"rounds"}) /\ place' = [place EXCEPT ![Main] = where]
      /\ round' = IF round < program.producers THEN round + 1 ELSE round
      /\ UNCHANGED <<messageVars, program, number, taken, written, consumed>>
  BY DEF JoinRound, Joined, At, Goto, queueVars
<1>2. place \in [Threads -> Places] /\ Main \in Threads /\ program \in Candidates BY Parts
<1>3. place'[Main] = where BY <1>1, <1>2
<1>4. ~Is({"user", "no_consumer"}) /\ ~Is({"separately"}) /\ ~Is({"batched"}) /\ ~Is(Copying) /\ ~Is(MainOnly)
      /\ ~Is({"multi_queue"})
  BY <1>1 DEF Is, Copying, MainOnly
<1>5. /\ Queues' = Queues /\ \A kinds : Is(kinds)' = Is(kinds) BY <1>1, Fixed
<1>6. ~Again /\ ~Again' BY <1>4, <1>5 DEF Again
<1>7. Flowing /\ Complete BY <1>1, <1>4, <1>6 DEF InOrderInv, Flowing
<1>8. where \in {"round", "done"} /\ (where = "done" => round' = round) BY <1>1
<1> HIDE DEF where
<1>9. ~Flowing' BY <1>3, <1>8 DEF Flowing
<1>10. Follow(consumed, {})'
  <2>1. Follow(consumed, {}) BY <1>4 DEF InOrderInv
  <2> QED BY <1>1, <2>1, FollowNext
<1>11. NoneYet' BY <1>4, <1>5 DEF NoneYet
<1>12. (place[Main] \in {"join", "done"} \/ Again => Complete)'
  <2> SUFFICES ASSUME where = "done" PROVE Complete' BY <1>3, <1>6, <1>8
  <2>1. round' = round BY <1>8
  <2> QED BY <1>1, <1>7, <2>1, FixedMore DEF Complete
<1>13. \E base \in Nat : Rest(base)'
  <2>1. PICK sent \in Sents, base \in Nat : Flow(sent, base) BY <1>4, <1>7 DEF InOrderInv, Sents
  <2>2. LastQueues = Queues
    <3>1. QueueCount = 1
      <4>1. program.copies = 0 BY <1>2, <1>4, ProgramFacts
      <4> QED BY <1>4, <4>1 DEF QueueCount, QueuesOf, Is
    <3> QED BY <1>4, <3>1 DEF LastQueues, Queues
  <2>3. \A q \in Queues : taken[q] = written[q] BY <1>4, <1>7, <2>1, <2>2, NothingLeft
  <2>4. Queues = {1} /\ taken[1] \in Nat
    <3>1. QueueCount = 1
      <4>1. program.copies = 0 BY <1>2, <1>4, ProgramFacts
      <4> QED BY <1>4, <4>1 DEF QueueCount, QueuesOf, Is
    <3>2. 1 .. 1 = {1} OBVIOUS
    <3>3. Queues = {1} BY <3>1, <3>2 DEF Queues
    <3> QED BY <3>3, Parts DEF QueuesType
  <2>5. PICK b \in Nat : b = taken[1] BY <2>4
  <2>6. Rest(b)' BY <1>1, <1>5, <2>3, <2>4, <2>5 DEF Rest
  <2> QED BY <2>6
<1>14. (place[Main] \in {"create", "round"} /\ ~Again =>
              /\ \E base \in Nat : Rest(base)
              /\ Is(MainOnly) => consumed = <<>>
              /\ place[Main] = "create" => taken[1] = 0)'
  BY <1>3, <1>4, <1>5, <1>8, <1>13
<1> QED BY <1>9, <1>10, <1>11, <1>12, <1>14 DEF InOrderInv

-----------------------------------------------------------------------------
(* What main consumes *)

\* With a queue for each producer only its objects are sent through it.
LEMMA OwnQueue ==
    ASSUME ProgramsInv, Is({"multi_queue"}), NEW sent \in Sents, NEW base \in Nat, Flow(sent, base),
           NEW q \in Queues, NEW p, NEW n, <<p, n>> \in Before(sent, base, q, taken[q])
    PROVE  p = q
<1>1. q \in Lanes /\ program \in Candidates BY Parts, LaneFacts
<1>2. PICK j \in base .. taken[q] - 1 : <<p, n>> \in {sent[q][j][h] : h \in DOMAIN sent[q][j]} BY DEF Before
<1>3. j \in Nat /\ j \in base .. written[q] - 1
  <2>1. taken[q] \in Nat /\ written[q] \in Nat /\ taken[q] <= written[q] BY RouteFacts
  <2> QED BY <1>2, <2>1
<1>4. \A h \in DOMAIN sent[q][j] : \E p2 \in 1 .. round, n2 \in 0 .. PerProducer - 1 :
         sent[q][j][h] = <<p2, n2>> /\ (Is({"multi_queue"}) => p2 = q)
  BY <1>1, <1>3 DEF Flow, Ordered
<1> QED BY <1>2, <1>4

\* Each element of a concatenation is one of the two sequences'.
Concatenates(d, c, s) ==
    /\ \A i \in DOMAIN c : i \in DOMAIN d /\ d[i] = c[i]
    /\ \A i \in DOMAIN s : Len(c) + i \in DOMAIN d /\ d[Len(c) + i] = s[i]
    /\ \A i \in DOMAIN d : i \in DOMAIN c \/ (i - Len(c) \in DOMAIN s /\ d[i] = s[i - Len(c)])

LEMMA Joining ==
    ASSUME NEW c \in Seq(Items), NEW s \in Seq(Items), NEW d, d = c \o s
    PROVE  Concatenates(d, c, s)
<1>1. Len(c) \in Nat /\ Len(s) \in Nat /\ DOMAIN c = 1 .. Len(c) /\ DOMAIN s = 1 .. Len(s) OBVIOUS
<1>2. DOMAIN d = 1 .. Len(c) + Len(s) OBVIOUS
<1>3. \A i \in DOMAIN c : i \in DOMAIN d /\ d[i] = c[i] BY <1>1, <1>2
<1>4. \A i \in DOMAIN s : Len(c) + i \in DOMAIN d /\ d[Len(c) + i] = s[i] BY <1>1, <1>2
<1>5. ASSUME NEW i \in DOMAIN d PROVE i \in DOMAIN c \/ (i - Len(c) \in DOMAIN s /\ d[i] = s[i - Len(c)])
  <2>1. i \in Int /\ i >= 1 /\ i <= Len(c) + Len(s) BY <1>1, <1>2
  <2>2. CASE i <= Len(c) BY <1>1, <2>1, <2>2
  <2>3. CASE i > Len(c)
    <3>1. i - Len(c) \in DOMAIN s BY <1>1, <2>1, <2>3
    <3>2. Len(c) + (i - Len(c)) = i BY <1>1, <2>1
    <3> QED BY <1>4, <3>1, <3>2
  <2> QED BY <1>1, <2>1, <2>2, <2>3
<1> QED BY <1>3, <1>4, <1>5 DEF Concatenates

\* The next message from a last queue goes on where what main has ends.
LEMMA Collecting ==
    ASSUME ProgramsInv, NEW sent \in Sents, NEW base \in Nat, Flow(sent, base), Follow(consumed, {}),
           NEW q \in LastQueues, NEW k \in Nat, k = taken[q], k < written[q],
           NEW s \in Seq(Items), s = sent[Lane(q)][k],
           program' = program, taken' = [taken EXCEPT ![q] = k + 1], consumed' = consumed \o s
    PROVE  Follow(consumed \o s, {}) /\ Follow(consumed, {})' /\ Collected(sent, base)'
<1>1. /\ program \in Candidates /\ LastQueues \subseteq Queues /\ q \in Queues /\ consumed \in Seq(Items)
      /\ QueuesType
  BY Parts, LaneFacts
<1>2. PICK l \in Lanes : l = Lane(q) BY <1>1, LaneFacts
<1>3. k \in base .. written[l] - 1 /\ base <= k
  <2>1. /\ taken[q] \in Nat /\ written[q] \in Nat /\ base <= taken[q] /\ written[q] <= written[Lane(q)]
        /\ written[l] \in Nat
    BY <1>1, <1>2, LaneFacts, RouteFacts
  <2> QED BY <1>2, <2>1
<1>4. Follow(s, Before(sent, base, l, k)) BY <1>2, <1>3 DEF Flow, Ordered
<1>5. PICK among : among = {consumed[i] : i \in DOMAIN consumed} OBVIOUS
<1>6. Before(sent, base, l, k) \subseteq among BY <1>2, <1>5 DEF Flow, Collected
<1>7. ASSUME NEW i \in DOMAIN s, NEW p \in 1 .. program.producers, NEW n \in 0 .. program.target - 1,
             NEW n2 \in 0 .. program.target - 1, s[i] = <<p, n>>, <<p, n2>> \in among
      PROVE  <<p, n2>> \in Before(sent, base, l, k)
  <2>1. PICK j \in DOMAIN consumed : consumed[j] = <<p, n2>> BY <1>5, <1>7
  <2>2. PICK r \in LastQueues : <<p, n2>> \in Before(sent, base, Lane(r), taken[r])
    BY <2>1 DEF Flow, Collected
  <2>3. CASE r = q BY <1>2, <2>2, <2>3
  <2>4. CASE r # q
    <3>1. Is({"multi_queue"}) BY <2>2, <2>4 DEF LastQueues
    <3>2. r \in Queues /\ Lane(r) = r /\ l = q BY <1>1, <1>2, <2>2, <3>1 DEF Lane
    <3>3. p = r BY <2>2, <3>1, <3>2, OwnQueue
    <3>4. \A h \in DOMAIN s : \E p2 \in 1 .. round, m2 \in 0 .. PerProducer - 1 :
             s[h] = <<p2, m2>> /\ (Is({"multi_queue"}) => p2 = l)
      <4>1. s = sent[l][k] BY <1>2
      <4>2. \A h \in DOMAIN sent[l][k] : \E p2 \in 1 .. round, m2 \in 0 .. PerProducer - 1 :
               sent[l][k][h] = <<p2, m2>> /\ (Is({"multi_queue"}) => p2 = l)
        BY <1>3 DEF Flow, Ordered
      <4> QED BY <4>1, <4>2
    <3>5. p = q BY <1>7, <3>1, <3>2, <3>4
    <3> QED BY <2>4, <3>3, <3>5
  <2> QED BY <2>3, <2>4
<1>8. Follow(s, among)
  <2>1. PICK before : before = Before(sent, base, l, k) OBVIOUS
  <2>2. Follow(s, before) /\ before \subseteq among BY <1>4, <1>6, <2>1
  <2>3. Beside(s, before, among) BY <1>7, <2>1 DEF Beside
  <2> QED BY <2>2, <2>3, FollowAmong
<1>9. Follow(consumed \o s, {}) /\ Follow(consumed, {})'
  <2>1. Follow(consumed \o s, {}) BY <1>1, <1>5, <1>8, FollowBoth
  <2> QED BY <2>1, FollowNext
<1>10. taken'[q] = k + 1 /\ \A r \in Queues : r # q => taken'[r] = taken[r]
  <2>1. q \in Queues /\ taken \in [Queues -> Nat] BY <1>1 DEF QueuesType
  <2> QED BY <2>1
<1>11. /\ LastQueues' = LastQueues /\ \A r : Lane(r)' = Lane(r) BY FixedMore
<1>12. /\ \A i \in DOMAIN consumed : i \in DOMAIN consumed' /\ consumed'[i] = consumed[i]
       /\ \A i \in DOMAIN s : Len(consumed) + i \in DOMAIN consumed' /\ consumed'[Len(consumed) + i] = s[i]
       /\ \A i \in DOMAIN consumed' : i \in DOMAIN consumed \/ (i - Len(consumed) \in DOMAIN s
                                          /\ consumed'[i] = s[i - Len(consumed)])
  <2>1. PICK c \in Seq(Items) : c = consumed BY <1>1
  <2>2. PICK d : d = c \o s OBVIOUS
  <2>3. Concatenates(d, c, s) BY <2>2, Joining
  <2>4. consumed' = d BY <2>1, <2>2
  <2> QED BY <2>1, <2>3, <2>4 DEF Concatenates
<1>13. \A r \in LastQueues : taken[r] \in Nat /\ taken'[r] \in Nat /\ taken[r] <= taken'[r]
  <2>1. \A r \in LastQueues : taken[r] \in Nat BY <1>1, RouteFacts
  <2> QED BY <1>1, <1>10, <2>1
<1>14. \A x \in Before(sent, base, l, k + 1) : x \in Before(sent, base, l, k) \/ \E i \in DOMAIN s : s[i] = x
  <2>1. base .. k + 1 - 1 = (base .. k - 1) \cup {k} BY <1>3
  <2> QED BY <1>2, <2>1 DEF Before
<1>15. \A i \in DOMAIN s : s[i] \in Before(sent, base, l, k + 1)
  <2>1. k \in base .. k + 1 - 1 BY <1>3
  <2> QED BY <1>2, <2>1 DEF Before
<1>16. ASSUME NEW i \in DOMAIN consumed' PROVE \E r \in LastQueues : consumed'[i] \in Before(sent, base, Lane(r), taken'[r])
  <2>1. CASE i \in DOMAIN consumed
    <3>1. PICK r \in LastQueues : consumed[i] \in Before(sent, base, Lane(r), taken[r]) BY <2>1 DEF Flow, Collected
    <3>2. Before(sent, base, Lane(r), taken[r]) \subseteq Before(sent, base, Lane(r), taken'[r]) BY <1>13, BeforeGrows
    <3> QED BY <1>12, <2>1, <3>1, <3>2
  <2>2. CASE i - Len(consumed) \in DOMAIN s /\ consumed'[i] = s[i - Len(consumed)]
    <3>1. consumed'[i] \in Before(sent, base, l, k + 1) BY <1>15, <2>2
    <3> QED BY <1>2, <1>10, <3>1
  <2> QED BY <1>12, <2>1, <2>2
<1>17. ASSUME NEW r \in LastQueues, NEW x \in Before(sent, base, Lane(r), taken'[r])
       PROVE  \E i \in DOMAIN consumed' : consumed'[i] = x
  <2>1. CASE x \in Before(sent, base, Lane(r), taken[r])
    <3>1. PICK i \in DOMAIN consumed : consumed[i] = x BY <2>1 DEF Flow, Collected
    <3> QED BY <1>12, <3>1
  <2>2. CASE \E i \in DOMAIN s : s[i] = x
    <3>1. PICK i \in DOMAIN s : s[i] = x BY <2>2
    <3> QED BY <1>12, <3>1
  <2>3. r = q => x \in Before(sent, base, l, k + 1) BY <1>2, <1>10, <1>17
  <2>4. r # q => x \in Before(sent, base, Lane(r), taken[r]) BY <1>1, <1>10, <1>17
  <2> QED BY <1>2, <1>14, <2>1, <2>2, <2>3, <2>4
<1>18. Collected(sent, base)' BY <1>11, <1>16, <1>17 DEF Collected
<1> QED BY <1>9, <1>18

\* What main gets was sent; an empty message means that main has all.
LEMMA ArrivedFacts ==
    ASSUME ProgramsInv, NEW sent \in Sents, NEW base \in Nat, Flow(sent, base),
           NEW q \in LastQueues, NEW k, k = taken[q], taken[q] < written[q]
    PROVE  /\ q \in Queues /\ k \in Nat /\ k < written[q]
           /\ Contents(Entry(q, k)) \in Seq(Items) /\ Contents(Entry(q, k)) = sent[Lane(q)][k]
           /\ Is({"batched"}) \/ Len(Contents(Entry(q, k))) <= 1
           /\ Contents(Entry(q, k)) = <<>> =>
                 Is(Copying) /\ \A n \in 0 .. PerProducer - 1 : \E i \in DOMAIN consumed : consumed[i] = <<1, n>>
<1>1. program \in Candidates /\ LastQueues \subseteq Queues /\ q \in Queues BY Parts, LaneFacts
<1>2. /\ k \in Nat /\ written[q] \in Nat /\ base <= k /\ written[q] <= written[Lane(q)] /\ written[Lane(q)] \in Nat
  BY <1>1, LaneFacts, RouteFacts
<1>3. PICK l \in Lanes : l = Lane(q) BY <1>1, LaneFacts
<1>4. k \in base .. written[l] - 1 BY <1>2, <1>3
<1>5. PICK s \in Seq(Items) : s = sent[l][k] BY <1>1, <1>2, <1>3, LaneFacts, RouteFacts
<1>6. Contents(Entry(q, k)) = s
  <2>1. k >= taken[q] /\ k < written[q] BY <1>2
  <2> QED BY <1>1, <1>2, <1>3, <1>5, <2>1, RouteFacts
<1>7. /\ Is({"batched"}) \/ Len(s) <= 1
      /\ s = <<>> => Is(Copying) /\ \A n \in 0 .. PerProducer - 1 : <<1, n>> \in Before(sent, base, l, k)
  BY <1>2, <1>4, <1>5 DEF Flow, Ordered
<1>8. \A x \in Before(sent, base, l, k) : \E i \in DOMAIN consumed : consumed[i] = x
  BY <1>3 DEF Flow, Collected
<1>9. /\ Is({"batched"}) \/ Len(Contents(Entry(q, k))) <= 1
      /\ Contents(Entry(q, k)) = <<>> =>
            Is(Copying) /\ \A n \in 0 .. PerProducer - 1 : \E i \in DOMAIN consumed : consumed[i] = <<1, n>>
  BY <1>6, <1>7, <1>8
<1>10. Contents(Entry(q, k)) \in Seq(Items) /\ Contents(Entry(q, k)) = sent[Lane(q)][k] BY <1>3, <1>5, <1>6
<1>11. k < written[q] BY <1>2
<1> QED BY <1>1, <1>2, <1>9, <1>10, <1>11

LEMMA ArrivedFlow ==
    ASSUME ProgramsInv, NEW sent \in Sents, NEW base \in Nat, Flow(sent, base), Follow(consumed, {}),
           NEW q \in LastQueues, NEW m \in Mine(Main), Get(q, m), UNCHANGED <<program, written, round>>,
           consumed' = consumed \o Contents(Entry(q, taken[q])),
           \A u \in Threads \ {Main} : place'[u] = place[u] /\ number'[u] = number[u],
           Counts', Sending' \subseteq Sending, Main \in Sending' => SentBy(sent, base, Main)'
    PROVE  /\ Flow(sent, base)' /\ Follow(consumed \o Contents(Entry(q, taken[q])), {}) /\ Follow(consumed, {})'
           /\ \A u \in Threads \ {Main} : Contents(OutMessage(u))' = Contents(OutMessage(u))
<1>1. /\ program \in Candidates /\ Main \in Threads /\ Copiers \subseteq Threads /\ QueuesType
  BY Parts
<1>2. PICK k : k = taken[q] OBVIOUS
<1>3. taken[q] < written[q] BY DEF Get
<1>4. /\ q \in Queues /\ k \in Nat /\ k < written[q] BY <1>2, <1>3, ArrivedFacts
<1>5. PICK s \in Seq(Items) : s = Contents(Entry(q, k)) /\ s = sent[Lane(q)][k] BY <1>2, <1>3, ArrivedFacts
<1>6. /\ taken' = [taken EXCEPT ![q] = k + 1]
      /\ \A u \in Threads \ {Main}, x \in Names : x \in Mine(u) => Contents(x)' = Contents(x)
      /\ \A r \in Queues, j \in Nat : j >= taken'[r] /\ j < written[r] =>
            Contents(Entry(r, j))' = Contents(Entry(r, j))
  <2>1. UNCHANGED <<program, written>> OBVIOUS
  <2> QED BY <1>1, <1>2, <1>4, <2>1, GetMoves
<1>7. Follow(consumed \o s, {}) /\ Follow(consumed, {})' /\ Collected(sent, base)'
  <2>1. consumed' = consumed \o s /\ program' = program BY <1>2, <1>5
  <2> QED BY <1>2, <1>4, <1>5, <1>6, <2>1, Collecting
<1>8. Queued(sent)' /\ \A r \in Queues : base <= taken'[r]
  <2>1. UNCHANGED <<program, written>> OBVIOUS
  <2> QED BY <1>2, <1>4, <1>6, <2>1, QueuedLess
<1>9. Ordered(sent, base)' BY OrderedStays DEF Flow
<1>10. \A r \in Queues : r # q => taken'[r] = taken[r] BY <1>1, <1>4, <1>6 DEF QueuesType
<1>11. ASSUME NEW u \in Copiers PROVE HandedBy(sent, u)'
  <2>1. HandedBy(sent, u) BY DEF Flow
  <2>2. u \in Threads \ {Main} /\ Mine(u) \subseteq Names /\ InQueue(u) \in Queues BY <1>1, InCopyFacts
  <2>3. InQueue(u) # q
    <3>1. ~Is({"multi_queue"}) /\ InQueue(u) # QueueCount BY InCopyFacts
    <3> QED BY <3>1 DEF LastQueues
  <2>4. taken'[InQueue(u)] = taken[InQueue(u)] BY <1>10, <2>2, <2>3
  <2>5. \A x \in Mine(u) : Contents(x)' = Contents(x) BY <1>6, <2>2
  <2>6. place'[u] = place[u] /\ written'[OutQueue(u)] = written[OutQueue(u)] BY <2>2
  <2> QED BY <2>1, <2>4, <2>5, <2>6, HandedStays
<1>12. ASSUME NEW u \in Sending' PROVE SentBy(sent, base, u)'
  <2>1. u \in Sending /\ SentBy(sent, base, u) BY DEF Flow
  <2>2. u \in Threads BY <2>1, SendingFacts
  <2>3. CASE u = Main BY <2>3
  <2>4. CASE u # Main
    <3>1. OutMessage(u) \in Mine(u) /\ OutMessage(u) \in Names BY <1>1, <2>2, MessageFacts
    <3>2. Contents(OutMessage(u))' = Contents(OutMessage(u)) BY <1>6, <2>2, <2>4, <3>1
    <3>3. place'[u] = place[u] /\ number'[u] = number[u] BY <2>2, <2>4
    <3>4. \A n : <<Id(u), n>> \in Before(sent, base, OutQueue(u), written'[OutQueue(u)])
                    <=> <<Id(u), n>> \in Before(sent, base, OutQueue(u), written[OutQueue(u)])
      OBVIOUS
    <3> QED BY <2>1, <3>2, <3>3, <3>4, SentStays
  <2> QED BY <2>3, <2>4
<1>13. Queues' = Queues /\ Copiers' = Copiers BY Fixed
<1>14. Flow(sent, base)' BY <1>7, <1>8, <1>9, <1>11, <1>12, <1>13 DEF Flow
<1>15. \A u \in Threads \ {Main} : Contents(OutMessage(u))' = Contents(OutMessage(u)) BY <1>1, <1>6, MessageFacts
<1> QED BY <1>2, <1>5, <1>7, <1>14, <1>15

\* Who has as many objects as there are, each behind those before it, has them all.
LEMMA AllCollected ==
    ASSUME ProgramsInv, NEW s \in Seq(Items), Follow(s, {}), Len(s) = Total,
           \A i \in DOMAIN s : \E p \in 1 .. round, n \in 0 .. PerProducer - 1 : s[i] = <<p, n>>
    PROVE  \A p \in 1 .. round, n \in 0 .. PerProducer - 1 : \E i \in DOMAIN s : s[i] = <<p, n>>
<1>1. /\ PerProducer \in Nat /\ Total = PerProducer * round /\ round \in Nat \ {0}
  <2>1. round \in 1 .. program.producers /\ program.producers \in Nat BY Parts, ProgramFacts
  <2> QED BY <2>1, PerProducerFacts
<1>2. PICK D : D = 1 .. Len(s) OBVIOUS
<1>3. PICK T : T = (1 .. round) \X (0 .. PerProducer - 1) OBVIOUS
<1>4. PICK f : f = [i \in D |-> s[i]] OBVIOUS
<1>5. f \in [D -> T]
  <2>1. \A i \in D : s[i] \in T BY <1>2, <1>3
  <2> QED BY <1>4, <2>1
<1>6. ASSUME NEW i \in D, NEW j \in D, i < j, s[i] = s[j] PROVE FALSE
  <2>1. j \in DOMAIN s BY <1>2
  <2>2. PICK p \in 1 .. program.producers, n \in 0 .. program.target - 1 :
           /\ s[j] = <<p, n>>
           /\ \A k \in 0 .. program.target - 1 : k < n <=> <<p, k>> \in {} \cup {s[h] : h \in 1 .. j - 1}
    BY <2>1 DEF Follow
  <2>3. i \in 1 .. j - 1 BY <1>2, <1>6
  <2>4. <<p, n>> \in {s[h] : h \in 1 .. j - 1} BY <1>6, <2>2, <2>3
  <2>5. ~(n < n) BY <2>2
  <2> QED BY <2>2, <2>4, <2>5
<1>7. \A i, j \in D : f[i] = f[j] => i = j
  <2> TAKE i \in D, j \in D
  <2>1. i < j \/ j < i \/ i = j BY <1>2
  <2>2. f[i] = s[i] /\ f[j] = s[j] BY <1>4
  <2> QED BY <1>6, <2>1, <2>2
<1>8. f \in Injection(D, T) BY <1>5, <1>7 DEF Injection, IsInjective
<1>9. IsFiniteSet(T) /\ Cardinality(T) = Total
  <2>1. IsFiniteSet(1 .. round) /\ Cardinality(1 .. round) = round
    <3>1. 1 \in Int /\ round \in Int /\ ~(1 > round) /\ round - 1 + 1 = round BY <1>1
    <3> QED BY <3>1, FS_Interval, Zenon
  <2>2. IsFiniteSet(0 .. PerProducer - 1) /\ Cardinality(0 .. PerProducer - 1) = PerProducer
    <3>1. PICK last \in Int : last = PerProducer - 1 BY <1>1
    <3>2. 0 \in Int OBVIOUS
    <3>3. IsFiniteSet(0 .. last) /\ Cardinality(0 .. last) = IF 0 > last THEN 0 ELSE last - 0 + 1
      BY <3>1, <3>2, FS_Interval, Zenon
    <3>4. (IF 0 > last THEN 0 ELSE last - 0 + 1) = PerProducer BY <1>1, <3>1
    <3> QED BY <3>1, <3>3, <3>4
  <2>3. IsFiniteSet(T) /\ Cardinality(T) = Cardinality(1 .. round) * Cardinality(0 .. PerProducer - 1)
    BY <1>1, <1>3, <2>1, <2>2, FS_Product
  <2>4. Cardinality(T) = round * PerProducer BY <2>1, <2>2, <2>3
  <2>5. round * PerProducer = PerProducer * round BY <1>1
  <2> QED BY <1>1, <2>3, <2>4, <2>5
<1>10. Cardinality(D) = Total
  <2>1. Len(s) \in Nat OBVIOUS
  <2> QED BY <1>2, <2>1, FS_Interval
<1>11. f \in Surjection(D, T)
  <2>1. Cardinality(D) = Cardinality(T) BY <1>9, <1>10
  <2> QED BY <1>8, <1>9, <2>1, FS_Injection
<1>12. \A y \in T : \E i \in D : f[i] = y BY <1>11 DEF Surjection
<1> SUFFICES ASSUME NEW p \in 1 .. round, NEW n \in 0 .. PerProducer - 1
             PROVE  \E i \in DOMAIN s : s[i] = <<p, n>>
  OBVIOUS
<1>13. PICK i \in D : f[i] = <<p, n>> BY <1>3, <1>12
<1>14. i \in DOMAIN s /\ s[i] = f[i] BY <1>2, <1>4
<1> QED BY <1>13, <1>14

\* Who has so many objects of a producer is as long.
LEMMA EnoughCollected ==
    ASSUME NEW s \in Seq(Items), NEW count \in Nat, \A n \in 0 .. count - 1 : \E i \in DOMAIN s : s[i] = <<1, n>>
    PROVE  count <= Len(s)
<1>1. PICK D : D = 0 .. count - 1 OBVIOUS
<1>2. PICK T : T = 1 .. Len(s) OBVIOUS
<1>3. PICK f : f = [n \in D |-> CHOOSE i \in T : s[i] = <<1, n>>] OBVIOUS
<1>4. \A n \in D : f[n] \in T /\ s[f[n]] = <<1, n>>
  <2> TAKE n \in D
  <2>1. \E i \in T : s[i] = <<1, n>>
    <3>1. DOMAIN s = T BY <1>2
    <3>2. n \in 0 .. count - 1 BY <1>1
    <3> QED BY <3>1, <3>2
  <2> QED BY <1>3, <2>1
<1>5. f \in Injection(D, T)
  <2>1. f \in [D -> T] BY <1>3, <1>4
  <2>2. \A a, b \in D : f[a] = f[b] => a = b BY <1>4
  <2> QED BY <2>1, <2>2 DEF Injection, IsInjective
<1>6. IsFiniteSet(D) /\ Cardinality(D) = count
  <2>1. PICK last \in Int : last = count - 1 OBVIOUS
  <2>2. 0 \in Int OBVIOUS
  <2>3. IsFiniteSet(0 .. last) /\ Cardinality(0 .. last) = IF 0 > last THEN 0 ELSE last - 0 + 1
    BY <2>1, <2>2, FS_Interval, Zenon
  <2>4. (IF 0 > last THEN 0 ELSE last - 0 + 1) = count BY <2>1
  <2> QED BY <1>1, <2>1, <2>3, <2>4
<1>7. IsFiniteSet(T) /\ Cardinality(T) = Len(s)
  <2>1. PICK last \in Nat : last = Len(s) OBVIOUS
  <2>2. 1 \in Int /\ last \in Int BY <2>1
  <2>3. IsFiniteSet(1 .. last) /\ Cardinality(1 .. last) = IF 1 > last THEN 0 ELSE last - 1 + 1
    BY <2>1, <2>2, FS_Interval, Zenon
  <2>4. (IF 1 > last THEN 0 ELSE last - 1 + 1) = last BY <2>1
  <2> QED BY <1>2, <2>1, <2>3, <2>4
<1>8. Cardinality(D) <= Cardinality(T) BY <1>5, <1>7, FS_Injection
<1> QED BY <1>6, <1>7, <1>8

\* All that main has was sent in this round.
LEMMA ConsumedItems ==
    ASSUME ProgramsInv, NEW sent \in Sents, NEW base \in Nat, Flow(sent, base), NEW i \in DOMAIN consumed
    PROVE  \E p \in 1 .. round, n \in 0 .. PerProducer - 1 : consumed[i] = <<p, n>>
<1>1. PICK q \in LastQueues : consumed[i] \in Before(sent, base, Lane(q), taken[q]) BY DEF Flow, Collected
<1>2. program \in Candidates /\ q \in Queues BY <1>1, Parts, LaneFacts
<1>3. PICK l \in Lanes : l = Lane(q) BY <1>2, LaneFacts
<1>4. PICK j \in base .. taken[q] - 1 : consumed[i] \in {sent[l][j][h] : h \in DOMAIN sent[l][j]}
  BY <1>1, <1>3 DEF Before
<1>5. j \in Nat /\ j \in base .. written[l] - 1
  <2>1. /\ taken[q] \in Nat /\ written[q] \in Nat /\ taken[q] <= written[q] /\ written[q] <= written[Lane(q)]
        /\ written[l] \in Nat
    BY <1>2, <1>3, LaneFacts, RouteFacts
  <2> QED BY <1>3, <1>4, <2>1
<1>6. \A h \in DOMAIN sent[l][j] : \E p \in 1 .. round, n \in 0 .. PerProducer - 1 : sent[l][j][h] = <<p, n>>
  BY <1>5 DEF Flow, Ordered
<1> QED BY <1>4, <1>6

\* What main counts, and when it has all.
LEMMA Counting ==
    ASSUME ProgramsInv, NEW sent \in Sents, NEW base \in Nat, Flow(sent, base), place[Main] = "consume",
           ~Is({"batched"}), NEW q \in LastQueues, NEW k, k = taken[q], taken[q] < written[q],
           NEW s \in Seq(Items), s = Contents(Entry(q, k))
    PROVE  Len(consumed \o s) = number[Main] + 1 /\ number[Main] \in Nat
<1>1. /\ Len(s) <= 1 /\ Contents(Entry(q, k)) = s
      /\ s = <<>> =>
                 Is(Copying) /\ \A n \in 0 .. PerProducer - 1 : \E i \in DOMAIN consumed : consumed[i] = <<1, n>>
  BY ArrivedFacts
<1>2. consumed \in Seq(Items) /\ number[Main] \in Nat BY Parts
<1>3. Len(consumed) = number[Main] /\ (Is({"pipeline"}) => number[Main] < Total) BY DEF Flow, Counts
<1>4. s # <<>>
  <2> SUFFICES ASSUME s = <<>> PROVE FALSE OBVIOUS
  <2>1. Is(Copying) /\ \A n \in 0 .. PerProducer - 1 : \E i \in DOMAIN consumed : consumed[i] = <<1, n>> BY <1>1
  <2>2. Is({"pipeline"}) /\ Is(MainOnly \cup Copying) BY <2>1 DEF Is, Copying
  <2>3. PerProducer \in Nat /\ Total = PerProducer BY <2>2, PerProducerFacts
  <2>4. PerProducer <= Len(consumed) BY <1>2, <2>1, <2>3, EnoughCollected
  <2> QED BY <1>2, <1>3, <2>2, <2>3, <2>4
<1>5. Len(s) = 1
  <2>1. Len(s) \in Nat /\ (Len(s) = 0 => s = <<>>) OBVIOUS
  <2>2. PICK count \in Nat : count = Len(s) BY <2>1
  <2>3. count <= 1 BY <1>1, <2>2
  <2>4. count # 0 BY <1>4, <2>1, <2>2
  <2>5. count = 1 BY <2>3, <2>4
  <2> QED BY <2>2, <2>5
<1>6. Len(consumed \o s) = Len(consumed) + Len(s) BY <1>2
<1> QED BY <1>2, <1>3, <1>5, <1>6

LEMMA ArrivedItem ==
    ASSUME ProgramsInv, NEW sent \in Sents, NEW base \in Nat, Flow(sent, base),
           NEW q \in LastQueues, NEW k, k = taken[q], taken[q] < written[q],
           NEW s \in Seq(Items), s = Contents(Entry(q, k)), NEW i \in DOMAIN s
    PROVE  \E p \in 1 .. round, n \in 0 .. PerProducer - 1 : s[i] = <<p, n>>
<1>1. q \in Queues /\ k \in Nat /\ k < written[q] /\ program \in Candidates BY ArrivedFacts, Parts
<1>2. Contents(Entry(q, k)) = sent[Lane(q)][k] BY ArrivedFacts
<1>3. PICK l \in Lanes : l = Lane(q) BY <1>1, LaneFacts
<1>4. k \in base .. written[l] - 1
  <2>1. /\ written[q] \in Nat /\ base <= taken[q] /\ written[q] <= written[Lane(q)] /\ written[l] \in Nat
    BY <1>1, <1>3, LaneFacts, RouteFacts
  <2> QED BY <1>1, <1>3, <2>1
<1>5. \A h \in DOMAIN sent[l][k] : \E p \in 1 .. round, n \in 0 .. PerProducer - 1 : sent[l][k][h] = <<p, n>>
  BY <1>1, <1>4 DEF Flow, Ordered
<1>6. s = sent[l][k] BY <1>2, <1>3
<1> QED BY <1>5, <1>6

LEMMA ArrivesFlow ==
    ASSUME ProgramsInv, InOrderInv, NEW q \in LastQueues, NEW last \in BOOLEAN, Arrived(q, last),
           place[Main] = "consume", Is({"separately", "rounds", "pipeline", "batched", "multi_queue"}),
           last <=> IF Is({"batched"}) THEN Contents(Entry(q, taken[q])) = <<>> ELSE LastOfAll,
           UNCHANGED <<program, written, round>>
    PROVE  InOrderInv'
<1> DEFINE where == IF last THEN "join" ELSE "consume"
<1>1. /\ Get(q, OutMessage(Main)) /\ consumed' = consumed \o Contents(Entry(q, taken[q]))
      /\ number' = [number EXCEPT ![Main] = @ + 1] /\ place' = [place EXCEPT ![Main] = where]
  BY DEF Arrived, FirstIn, Goto
<1>2. /\ place \in [Threads -> Places] /\ number \in [Threads -> Nat] /\ Main \in Threads /\ program \in Candidates
      /\ Producers \subseteq Threads /\ consumed \in Seq(Items)
  BY Parts
<1>3. /\ where \in {"join", "consume"} /\ (where = "join" <=> last) OBVIOUS
<1> HIDE DEF where
<1>4. /\ place'[Main] = where /\ number'[Main] = number[Main] + 1
      /\ \A u \in Threads \ {Main} : place'[u] = place[u] /\ number'[u] = number[u]
  BY <1>1, <1>2
<1>5. /\ Queues' = Queues /\ Producers' = Producers /\ Total' = Total /\ PerProducer' = PerProducer
      /\ \A kinds : Is(kinds)' = Is(kinds)
  BY Fixed, FixedMore
<1>6. ~Is({"user", "no_consumer"}) /\ ~Is({"alternating"}) BY DEF Is
<1>7. ~Again /\ ~Again' /\ Flowing /\ Flowing' BY <1>3, <1>4 DEF Again, Flowing
<1>8. Sending' \subseteq Sending /\ Main \notin Sending'
  <2>1. Main \notin Producers BY <1>2, ThreadFacts
  <2> QED BY <1>3, <1>4, <1>5, <2>1 DEF Sending
<1>9. PICK sent \in Sents, base \in Nat : Flow(sent, base) BY <1>6, <1>7 DEF InOrderInv, Sents
<1>10. PICK k : k = taken[q] OBVIOUS
<1>11. taken[q] < written[q] BY <1>1 DEF Get
<1>12. PICK s \in Seq(Items) : s = Contents(Entry(q, k)) BY <1>9, <1>10, <1>11, ArrivedFacts
<1>13. Follow(consumed, {}) BY <1>6 DEF InOrderInv
<1>14. consumed' = consumed \o s BY <1>1, <1>10, <1>12
<1>15. ~Is({"batched"}) => Len(consumed \o s) = number[Main] + 1 /\ number[Main] \in Nat
  <2> SUFFICES ASSUME ~Is({"batched"}) PROVE Len(consumed \o s) = number[Main] + 1 /\ number[Main] \in Nat OBVIOUS
  <2> QED BY <1>9, <1>10, <1>11, <1>12, Counting
<1>16. Counts'
  <2>1. Is({"pipeline"}) => number[Main] < Total /\ Total \in Nat /\ number[Main] \in Nat
    BY <1>2, <1>9, PerProducerFacts DEF Flow, Counts
  <2>2. Is({"pipeline"}) => ~Is({"batched"}) BY DEF Is
  <2>3. where = "consume" /\ Is({"pipeline"}) => number[Main] + 1 < Total
    BY <1>3, <2>1, <2>2 DEF LastOfAll
  <2>4. ~Is({"batched"}) => Len(consumed') = number'[Main] BY <1>4, <1>14, <1>15
  <2>5. place'[Main] # "await" BY <1>3, <1>4
  <2> QED BY <1>4, <1>5, <1>6, <2>3, <2>4, <2>5 DEF Counts
<1>17. /\ Flow(sent, base)' /\ Follow(consumed \o s, {}) /\ Follow(consumed, {})'
       /\ \A u \in Threads \ {Main} : Contents(OutMessage(u))' = Contents(OutMessage(u))
  <2>1. PICK m \in Mine(Main) : m = OutMessage(Main) BY <1>2, MessageFacts
  <2>2. Get(q, m) BY <1>1, <2>1
  <2>3. consumed' = consumed \o Contents(Entry(q, taken[q])) /\ Contents(Entry(q, taken[q])) = s
    BY <1>1, <1>10, <1>12
  <2> QED BY <1>4, <1>8, <1>9, <1>13, <1>16, <2>2, <2>3, ArrivedFlow
<1>18. ASSUME last PROVE Complete'
  <2>1. CASE Is({"batched"})
    <3>1. s = <<>> BY <1>10, <1>12, <1>18, <2>1
    <3>2. \A n \in 0 .. PerProducer - 1 : \E i \in DOMAIN consumed : consumed[i] = <<1, n>>
      BY <1>9, <1>10, <1>11, <1>12, <3>1, ArrivedFacts
    <3>3. round = 1
      <4>1. Is(MainOnly \cup Copying) BY <2>1 DEF Is, Copying
      <4> QED BY <4>1, PerProducerFacts
    <3>4. consumed' = consumed BY <1>2, <1>14, <3>1
    <3>5. \A p \in 1 .. round : p = 1 BY <3>3
    <3> QED BY <1>5, <3>2, <3>3, <3>4, <3>5 DEF Complete
  <2>2. CASE ~Is({"batched"})
    <3>1. PICK c \in Seq(Items) : c = consumed \o s
      <4>1. consumed \in Seq(Items) BY <1>2
      <4>2. consumed \o s \in Seq(Items) BY <4>1
      <4> QED BY <4>2
    <3>2. Len(c) = Total BY <1>15, <1>18, <2>2, <3>1 DEF LastOfAll
    <3>3. Follow(c, {}) BY <1>17, <3>1
    <3>4. \A i \in DOMAIN c : \E p \in 1 .. round, n \in 0 .. PerProducer - 1 : c[i] = <<p, n>>
      <4>1. \A i \in DOMAIN consumed : \E p \in 1 .. round, n \in 0 .. PerProducer - 1 : consumed[i] = <<p, n>>
        BY <1>9, ConsumedItems
      <4>2. \A i \in DOMAIN s : \E p \in 1 .. round, n \in 0 .. PerProducer - 1 : s[i] = <<p, n>>
        <5> TAKE i \in DOMAIN s
        <5> QED BY <1>9, <1>10, <1>11, <1>12, ArrivedItem
      <4> TAKE i \in DOMAIN c
      <4>3. PICK a \in Seq(Items) : a = consumed BY <1>2
      <4>4. i \in DOMAIN a \/ (i - Len(a) \in DOMAIN s /\ c[i] = s[i - Len(a)])
        BY <3>1, <4>3
      <4>5. i \in DOMAIN a => c[i] = a[i] BY <3>1, <4>3
      <4> QED BY <4>1, <4>2, <4>3, <4>4, <4>5
    <3>5. \A p \in 1 .. round, n \in 0 .. PerProducer - 1 : \E i \in DOMAIN c : c[i] = <<p, n>>
      BY <3>2, <3>3, <3>4, AllCollected
    <3>6. consumed' = c BY <1>14, <3>1
    <3> QED BY <1>5, <3>5, <3>6 DEF Complete
  <2> QED BY <2>1, <2>2
<1>19. NoneYet'
  <2>1. NoneYet BY <1>6 DEF InOrderInv
  <2>2. \A u \in Producers : place'[u] = place[u] /\ Contents(OutMessage(u))' = Contents(OutMessage(u))
    <3> TAKE u \in Producers
    <3>1. u \in Threads \ {Main} BY <1>2, ThreadFacts
    <3> QED BY <1>4, <1>17, <3>1
  <2> QED BY <2>1, <2>2, NoneYetStays
<1>20. (place[Main] \in {"join", "done"} \/ Again => Complete)' BY <1>3, <1>4, <1>7, <1>18
<1>21. place'[Main] \notin {"create", "round"} BY <1>3, <1>4
<1>22. (Flowing => \E sent2 \in [Queues -> [Nat -> Seq(Items)]], base2 \in Nat : Flow(sent2, base2))'
  BY <1>5, <1>9, <1>17 DEF Sents
<1> QED BY <1>17, <1>19, <1>20, <1>21, <1>22 DEF InOrderInv

LEMMA ConsumesFlow ==
    ASSUME ProgramsInv, InOrderInv, ConsumeAll \/ ConsumePipeline \/ ConsumeBatches \/ SearchFinds
    PROVE  InOrderInv'
<1>1. program \in Candidates BY Parts
<1>2. ASSUME ConsumeAll \/ ConsumePipeline PROVE InOrderInv'
  <2>1. /\ Arrived(QueueCount, LastOfAll) /\ place[Main] = "consume" /\ Is({"separately", "rounds", "pipeline"})
        /\ UNCHANGED <<program, written, round>>
    BY <1>2 DEF ConsumeAll, ConsumePipeline, Consume, At, Is
  <2>2. ~Is({"batched"}) /\ ~Is({"multi_queue"}) /\ Is({"separately", "rounds", "pipeline", "batched", "multi_queue"})
    BY <2>1 DEF Is
  <2>3. PICK last \in BOOLEAN : last <=> LastOfAll OBVIOUS
  <2>4. PICK q \in LastQueues : q = QueueCount BY <1>1, <2>2, LaneFacts
  <2>5. Arrived(q, last) BY <2>1, <2>3, <2>4 DEF Arrived, Goto
  <2> QED BY <2>1, <2>2, <2>3, <2>5, ArrivesFlow
<1>3. ASSUME ConsumeBatches PROVE InOrderInv'
  <2>1. PICK q : q = QueueCount OBVIOUS
  <2>2. PICK last \in BOOLEAN : last <=> Contents(Entry(q, taken[q])) = <<>> OBVIOUS
  <2>3. /\ Arrived(q, last) /\ place[Main] = "consume" /\ Is({"batched"})
        /\ UNCHANGED <<program, written, round>>
    BY <1>3, <2>1, <2>2 DEF ConsumeBatches, Consume, At, Arrived, FirstIn, Goto
  <2>4. ~Is({"multi_queue"}) /\ Is({"separately", "rounds", "pipeline", "batched", "multi_queue"})
    BY <2>3 DEF Is
  <2>5. q \in LastQueues BY <1>1, <2>1, <2>4, LaneFacts
  <2> QED BY <2>2, <2>3, <2>4, <2>5, ArrivesFlow
<1>4. ASSUME SearchFinds PROVE InOrderInv'
  <2>1. PICK q : q = search OBVIOUS
  <2>2. PICK last \in BOOLEAN : last <=> LastOfAll OBVIOUS
  <2>3. /\ Arrived(q, last) /\ place[Main] = "consume" /\ Is({"multi_queue"})
        /\ UNCHANGED <<program, written, round>>
    BY <1>4, <2>1, <2>2 DEF SearchFinds, At, Arrived, Goto
  <2>4. ~Is({"batched"}) /\ Is({"separately", "rounds", "pipeline", "batched", "multi_queue"})
    BY <2>3 DEF Is
  <2>5. q \in LastQueues BY <1>1, <2>1, <2>3, Parts, LaneFacts
  <2> QED BY <2>2, <2>3, <2>4, <2>5, ArrivesFlow
<1> QED BY <1>2, <1>3, <1>4

\* Main takes out a message between two that it puts in only in one of the programs.
LEMMA TakingKept == ASSUME ProgramsInv, Taking, Next PROVE Taking'
<1>1. place \in [Threads -> Places] /\ Main \in Threads BY Parts
<1>2. ASSUME NEW t \in Threads \ {Main}, ThreadStep(t) PROVE Taking'
  <2>1. program' = program /\ place'[Main] = place[Main]
    <3>1. CASE StartThread(t) BY <1>1, <3>1 DEF StartThread, Goto
    <3>2. CASE ConstructMessages(t) BY <1>1, <3>2 DEF ConstructMessages, Construct, Goto
    <3>3. CASE Go(t) \/ Destruct(t) BY <1>1, <3>3 DEF Go, Destruct, Goto, Local
    <3>4. CASE Fill(t) \/ Add(t) \/ EndOfMessages(t) BY <1>1, <3>4 DEF Fill, Add, EndOfMessages, Goto, Local
    <3>5. CASE PublishBatch(t) \/ PublishNext(t) \/ PublishLast(t) \/ Pass(t)
      BY <1>1, <3>5 DEF PublishBatch, PublishNext, PublishLast, Pass, Publish, Goto
    <3>6. CASE CopyGet(t) BY <1>1, <3>6 DEF CopyGet, Goto
    <3>7. CASE Copy(t) BY <1>1, <3>7 DEF Copy, Goto, Local
    <3> QED BY <1>2, <3>1, <3>2, <3>3, <3>4, <3>5, <3>6, <3>7 DEF ThreadStep
  <2> QED BY <2>1, Fixed DEF Taking
<1>3. ASSUME MainStep PROVE Taking'
  <2>1. CASE PutMessage
    <3>1. program' = program /\ place' = [place EXCEPT ![Main] = IF Is({"alternating"}) THEN "take" ELSE "fill"]
      BY <2>1 DEF PutMessage, Publish, Goto
    <3> QED BY <1>1, <3>1, Fixed DEF Taking
  <2>2. CASE Create
    <3>1. place'[Main] \in {"create", "failed", "round"}
      BY <1>1, <2>2 DEF Create, CreateLocal, Construct, Goto
    <3> QED BY <3>1 DEF Taking
  <2>3. CASE SpawnRound \/ SpawnForQueues \/ SpawnPipeline
    <3>1. place'[Main] = "await" BY <1>1, <2>3 DEF SpawnRound, SpawnForQueues, SpawnPipeline, StartThreads
    <3> QED BY <3>1 DEF Taking
  <2>4. CASE SearchOn BY <2>4, Fixed DEF SearchOn, threadVars, Taking, At
  <2>5. CASE ConsumeAll \/ ConsumePipeline \/ ConsumeBatches \/ SearchFinds
    <3>1. place'[Main] \in {"join", "consume"}
      BY <1>1, <2>5 DEF ConsumeAll, ConsumePipeline, ConsumeBatches, SearchFinds, Consume, Arrived, Goto
    <3> QED BY <3>1 DEF Taking
  <2>6. CASE ReleaseThreads \/ Join \/ JoinRound \/ Produce \/ FillQueue \/ TakeMessage \/ QueueFilled
    <3>1. place'[Main] # "take"
      BY <1>1, <2>6 DEF ReleaseThreads, Join, JoinRound, Produce, FillQueue, TakeMessage, QueueFilled, Goto
    <3> QED BY <3>1 DEF Taking
  <2> QED BY <1>3, <2>1, <2>2, <2>3, <2>4, <2>5, <2>6 DEF MainStep
<1>4. ASSUME User PROVE Taking'
  <2>1. place[Main] = "create" BY <1>4 DEF User, ProgramsInv, Starting
  <2>2. place'[Main] # "take" BY <1>1, <1>4, <2>1 DEF User, Use, Construct, Goto
  <2> QED BY <2>2 DEF Taking
<1> QED BY <1>2, <1>3, <1>4 DEF Next

\* Main takes out the message that it has just put in.
LEMMA TakeMessageFlow == ASSUME ProgramsInv, Taking, InOrderInv, TakeMessage PROVE InOrderInv'
<1>1. /\ place[Main] = "take" /\ Get(1, InMessage(Main)) /\ consumed' = consumed \o Contents(Entry(1, taken[1]))
      /\ place' = [place EXCEPT ![Main] = "fill"] /\ UNCHANGED <<program, number, written, round>>
      /\ Is({"alternating"})
  BY DEF TakeMessage, At, Goto, FirstIn, Taking
<1>2. /\ place \in [Threads -> Places] /\ Main \in Threads /\ program \in Candidates /\ Producers \subseteq Threads
      /\ 1 \in Queues /\ taken \in [Queues -> Nat] /\ written \in [Queues -> Nat]
  BY Parts, ProgramFacts DEF QueuesType
<1>3. Is(MainOnly) /\ ~Is({"user", "no_consumer"}) /\ ~Is({"separately"}) /\ ~Is({"batched"}) /\ ~Is({"multi_queue"})
  BY <1>1 DEF Is, MainOnly
<1>4. place'[Main] = "fill" /\ \A u \in Threads \ {Main} : place'[u] = place[u] /\ number'[u] = number[u]
  BY <1>1, <1>2
<1>5. Queues' = Queues /\ Producers' = Producers /\ \A kinds : Is(kinds)' = Is(kinds) BY <1>1, Fixed
<1>6. InHand(Main) = <<>> /\ InHand(Main)' = <<>> BY <1>1, <1>3, <1>4, <1>5 DEF InHand
<1>7. 1 \in LastQueues BY <1>2, <1>3, LaneFacts
<1>8. ~Again /\ ~Again' /\ Flowing BY <1>1, <1>3, <1>5 DEF Again, Flowing
<1>9. PICK sent \in Sents, base \in Nat : Flow(sent, base) BY <1>3, <1>8 DEF InOrderInv, Sents
<1>10. taken'[1] = taken[1] + 1 /\ taken[1] \in Nat /\ written'[1] = written[1]
  <2>1. taken' = [taken EXCEPT ![1] = @ + 1] BY <1>1 DEF Get
  <2> QED BY <1>1, <1>2, <2>1
<1>11. Counts'
  <2>1. written[1] = taken[1] + 1 BY <1>1, <1>9 DEF Flow, Counts
  <2>2. written'[1] = taken'[1] + 0 BY <1>10, <2>1
  <2> QED BY <1>4, <2>2 DEF Counts
<1>12. Sending' \subseteq Sending BY <1>1, <1>3, <1>4, <1>5 DEF Sending
<1>13. SentBy(sent, base, Main)'
  <2>1. Main \in Sending BY <1>1, <1>3 DEF Sending
  <2>2. SentBy(sent, base, Main) BY <1>9, <2>1 DEF Flow
  <2>3. number'[Main] = number[Main] /\ place'[Main] \notin {"publish", "put", "last"} BY <1>1, <1>4
  <2> QED BY <1>1, <1>6, <2>2, <2>3, SentIdle
<1>14. /\ Flow(sent, base)' /\ Follow(consumed, {})'
       /\ \A u \in Threads \ {Main} : Contents(OutMessage(u))' = Contents(OutMessage(u))
  <2>1. PICK m \in Mine(Main) : m = InMessage(Main) BY <1>2, MessageFacts
  <2>2. PICK q \in LastQueues : q = 1 BY <1>7
  <2>3. Get(q, m) /\ consumed' = consumed \o Contents(Entry(q, taken[q])) BY <1>1, <2>1, <2>2
  <2>4. Follow(consumed, {}) BY <1>3 DEF InOrderInv
  <2> QED BY <1>1, <1>4, <1>9, <1>11, <1>12, <1>13, <2>3, <2>4, ArrivedFlow
<1>15. NoneYet' BY <1>3, <1>5 DEF NoneYet
<1>16. (Flowing => \E sent2 \in [Queues -> [Nat -> Seq(Items)]], base2 \in Nat : Flow(sent2, base2))'
  BY <1>5, <1>9, <1>14 DEF Sents
<1> QED BY <1>4, <1>8, <1>14, <1>15, <1>16 DEF InOrderInv

LEMMA MainStepFlow == ASSUME ProgramsInv, Taking, InOrderInv, MainStep PROVE InOrderInv'
BY CreateFlow, SpawnFlow, ReleaseFlow, ConsumesFlow, SearchOnFlow, JoinFlow, JoinRoundFlow, ProduceFlow, FillQueueFlow,
   PutMessageFlow, TakeMessageFlow, QueueFilledFlow DEF MainStep
-----------------------------------------------------------------------------
(* The theorem about the order *)

LEMMA InOrderInit == ASSUME Init PROVE Taking /\ InOrderInv
<1>1. /\ program \in Candidates /\ messages = [m \in Names |-> Fresh]
      /\ place = [t \in Threads |-> IF t = Main THEN "create" ELSE "off"]
      /\ taken = [q \in Queues |-> 0] /\ written = [q \in Queues |-> 0] /\ consumed = <<>>
  BY DEF Init
<1>2. Main \in Threads /\ Producers \subseteq Threads /\ 1 \in Queues BY <1>1, ProgramFacts DEF Threads
<1>3. place[Main] = "create" BY <1>1, <1>2
<1>4. ~Again /\ ~Flowing /\ Taking BY <1>3 DEF Again, Flowing, Taking
<1>5. Follow(consumed, {}) BY <1>1, FollowNone
<1>6. NoneYet
  <2> SUFFICES ASSUME NEW t \in Producers PROVE Contents(OutMessage(t)) = <<>> BY DEF NoneYet
  <2>1. OutMessage(t) \in Names BY <1>1, <1>2, MessageFacts
  <2>2. messages[OutMessage(t)].used = 0 BY <1>1, <2>1 DEF Fresh
  <2> QED BY <2>1, <2>2, EmptyNow
<1>7. Rest(0) /\ taken[1] = 0 BY <1>1, <1>2 DEF Rest
<1> QED BY <1>1, <1>3, <1>4, <1>5, <1>6, <1>7 DEF InOrderInv

LEMMA InOrderStep == ASSUME ProgramsInv, Taking, InOrderInv, [Next]_vars PROVE Taking' /\ InOrderInv'
<1>1. CASE UNCHANGED vars
  <2>1. UNCHANGED <<messageVars, program, place, number, taken, written, round, consumed>>
    BY <1>1 DEF vars, threadVars, queueVars
  <2>2. Taking' BY <2>1, Fixed DEF Taking
  <2> QED BY <2>1, <2>2, StutterFlow
<1>2. CASE Next
  <2>1. Taking' BY <1>2, TakingKept
  <2>2. ASSUME User PROVE InOrderInv' BY <2>2, NotAboutOrder DEF User, Local, Is
  <2> QED BY <1>2, <2>1, <2>2, ThreadStepFlow, MainStepFlow DEF Next
<1> QED BY <1>1, <1>2

\* Main gets each producer's objects in the order in which they were sent, none twice and
\* none that was not sent, and when it stops consuming it has them all: for any number of
\* producers, copying threads, entries and objects, whatever way the messages take.
THEOREM ProgramsInOrderCorrect == Spec => []InOrder
<1>1. Init => ProgramsInv /\ Taking /\ InOrderInv BY ProgramsInitInv, InOrderInit
<1>2. ProgramsInv /\ Taking /\ InOrderInv /\ [Next]_vars => ProgramsInv' /\ Taking' /\ InOrderInv'
  BY StepKept, StutterKept, InOrderStep DEF Kept
<1>3. InOrderInv => InOrder BY DEF InOrderInv, InOrder
<1> QED BY <1>1, <1>2, <1>3, PTL DEF Spec
=============================================================================
