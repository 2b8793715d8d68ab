----------------------------- MODULE Ssif_proofs -----------------------------
(***************************************************************************)
(* Theorems about Ssif, for every block size, buffer size and set of       *)
(* messages, wherever a transaction fails and whatever is wrong with the   *)
(* blocks of an answer.                                                    *)
(***************************************************************************)
EXTENDS Ssif, SequenceTheorems, TLAPS

\* In SendDataToBmcPort: the command tells how much is left of the message, and
\* in the middle of a long one the BMC has just the bytes that went out.
SendInv ==
  pc = "write" =>
    /\ msg \in Requests /\ DataOffset < Len(msg) /\ SMBusCmd \in WriteCommands
    /\ SMBusCmd = "WRITE" => DataOffset = 0 /\ Len(msg) <= WriteMax
    /\ SMBusCmd = "MULT_WRITE_START" => DataOffset = 0 /\ Len(msg) > WriteMax
    /\ SMBusCmd = "MULT_WRITE_MIDDLE" => Len(msg) - DataOffset > WriteMax
    /\ SMBusCmd = "MULT_WRITE_END" => Len(msg) - DataOffset <= WriteMax
    /\ SMBusCmd \in {"MULT_WRITE_MIDDLE", "MULT_WRITE_END"} =>
         partial = SubSeq(msg, 1, DataOffset)

\* In ReceiveBmcDataFromPort: no fault but empty blocks has got through, and
\* without one the host has just the bytes that the BMC takes for read, and both
\* count the same blocks.
InStep ==
  /\ Data = SubSeq(rep, 1, position)
  /\ BlockNumber = block /\ position = ReadMax - 2 + block * Chunk

ReadInv ==
  pc = "read" =>
    /\ SMBusCmd \in {"READ", "MULT_READ"} /\ fault \in {"none", "empty"}
    /\ SMBusCmd = "READ" => Data = <<>> /\ position = 0 /\ fault = "none"
    /\ position > 0 =>
         outbox # <<>> /\ position < Len(rep) /\ (fault = "none" => InStep)

IInv == TypeOK /\ Data \in Seq(Bytes) /\ SendInv /\ ReadInv
-------------------------------------------------------------------------------
(***************************************************************************)
(* Numbers and sequences.                                                  *)
(***************************************************************************)
\* BlockAssumption, in the form the proofs use it.
LEMMA ConstFacts ==
  /\ WriteMax \in Nat /\ WriteMax > 0 /\ ReadMax \in Nat /\ ReadMax > 2
  /\ ByteRange \in Nat /\ LastBlock \in Nat /\ BufferSize \in Nat
  /\ ReadMax < ByteRange /\ BufferSize < ByteRange - 1
  /\ Chunk \in Nat /\ Chunk > 0 /\ Chunk = ReadMax - 1
BY BlockAssumption DEF Chunk

\* Requests and answers are sequences of bytes, requests nonempty.
LEMMA MessageType ==
  /\ \A m \in Requests : m \in Seq(Bytes) /\ Len(m) > 0
  /\ \A r \in Replies : r \in Seq(Bytes)
BY BlockAssumption

\* Remainders are below the modulus.
LEMMA ModRange == \A a \in Nat, n \in Nat \ {0} : a % n \in 0..(n - 1)
OBVIOUS

\* A number below the modulus is its own remainder.
LEMMA ModSmall == \A a \in Nat, n \in Nat \ {0} : a < n => a % n = a
OBVIOUS

\* What line 199 computes for a block too short for its number.
LEMMA ModUnderflow == \A n \in Nat \ {0} : (0 - 1) % n = n - 1
OBVIOUS

\* Multiples compare as their factors do.
LEMMA MulLess ==
  ASSUME NEW a \in Int, NEW b \in Int, NEW n \in Nat \ {0}, a * n < b * n
  PROVE  a < b
<1> SUFFICES ASSUME b <= a PROVE FALSE
  OBVIOUS
<1>1. PICK d \in Nat : a = b + d
  BY a - b \in Nat, a = b + (a - b)
<1>2. a * n = b * n + d * n /\ d * n \in Nat
  BY <1>1
<1> QED BY <1>2

\* The next multiple.
LEMMA MulNext ==
  \A k \in Nat, n \in Nat : k * n \in Nat /\ (k + 1) * n = k * n + n
OBVIOUS

\* A multiple of the modulus does not count.
LEMMA ModMultiple ==
  ASSUME NEW a \in Nat, NEW j \in Nat, NEW n \in Nat \ {0}, a < n
  PROVE  (a + j * n) % n = a
OBVIOUS

\* Block numbers stay below 0xFF.
LEMMA FollowingType == \A k \in Nat : Following(k) \in 0..LastBlock
BY ModRange, ConstFacts DEF Following

\* Below the last number, the next one follows.
LEMMA FollowingNext == \A k \in Nat : k < LastBlock => Following(k) = k + 1
BY ModSmall, ConstFacts DEF Following

\* A part of a message is as long as it says and has the message's bytes.
LEMMA SubSeqType ==
  ASSUME NEW s \in Seq(Bytes), NEW p \in Nat, NEW q \in Nat, p <= q, q <= Len(s)
  PROVE  /\ SubSeq(s, p + 1, q) \in Seq(Bytes) /\ Len(SubSeq(s, p + 1, q)) = q - p
         /\ \A i \in 1..(q - p) : SubSeq(s, p + 1, q)[i] = s[p + i]
OBVIOUS

\* Two adjacent parts make one.
LEMMA Join ==
  ASSUME NEW s \in Seq(Bytes), NEW p \in Nat, NEW q \in Nat, p <= q, q <= Len(s)
  PROVE  SubSeq(s, 1, p) \o SubSeq(s, p + 1, q) = SubSeq(s, 1, q)
<1> DEFINE a == SubSeq(s, 1, p)
           b == SubSeq(s, p + 1, q)
           c == SubSeq(s, 1, q)
<1>1. /\ a \in Seq(Bytes) /\ Len(a) = p /\ \A i \in 1..p : a[i] = s[i]
      /\ c \in Seq(Bytes) /\ Len(c) = q /\ \A i \in 1..q : c[i] = s[i]
  OBVIOUS
<1>2. b \in Seq(Bytes) /\ Len(b) = q - p /\ \A i \in 1..(q - p) : b[i] = s[p + i]
  BY SubSeqType
<1> HIDE DEF a, b, c
<1>3. /\ a \o b \in Seq(Bytes) /\ Len(a \o b) = Len(a) + Len(b)
      /\ \A i \in 1..(Len(a) + Len(b)) : (a \o b)[i] = IF i <= Len(a) THEN a[i] ELSE b[i - Len(a)]
  <2>1. a \in Seq(Bytes) /\ b \in Seq(Bytes)
    BY <1>1, <1>2
  <2> QED BY <2>1, ConcatProperties
<1>4. Len(a \o b) = Len(c) /\ \A i \in 1..Len(a \o b) : (a \o b)[i] = c[i]
  <2>1. Len(a) + Len(b) = q
    BY <1>1, <1>2
  <2>2. ASSUME NEW i \in 1..q PROVE (IF i <= p THEN a[i] ELSE b[i - p]) = s[i]
    <3>1. CASE i <= p
      BY <1>1, <3>1
    <3>2. CASE ~ (i <= p)
      <4>1. i - p \in 1..(q - p) /\ p + (i - p) = i
        BY <3>2
      <4> QED BY <1>2, <3>2, <4>1
    <3> QED BY <3>1, <3>2
  <2> QED BY <1>1, <1>3, <2>1, <2>2
<1>5. a \o b = c
  BY <1>1, <1>3, <1>4, SeqEqual
<1> QED BY <1>5 DEF a, b, c

\* All of a message is the message.
LEMMA WholeSeq ==
  ASSUME NEW s \in Seq(Bytes)
  PROVE  SubSeq(s, 1, Len(s)) = s
OBVIOUS
-------------------------------------------------------------------------------
(***************************************************************************)
(* SendDataToBmcPort.                                                      *)
(***************************************************************************)

\* The parts of TypeOK.
HostType ==
  /\ pc \in {"idle", "write", "read"} /\ outcome \in {"ok", "error"}
  /\ msg \in Requests \cup {<<>>} /\ DataOffset \in 0..Len(msg)
  /\ SMBusCmd \in WriteCommands \cup {"READ", "MULT_READ"}
  /\ Len(Data) <= BufferSize /\ BlockNumber \in 0..LastBlock
  /\ Data \in Seq(Bytes)

ReadType == block \in 0..LastBlock /\ position \in Nat /\ fault \in Faults

PartialType == partial # NoAnswer => \E m \in Requests : IsPrefix(partial, m)

\* The type invariant by its parts.
LEMMA TypeParts ==
  TypeOK /\ Data \in Seq(Bytes) <=> HostType /\ ReadType /\ PartialType /\ Channel!TypeOK
BY DEF TypeOK, HostType, ReadType, PartialType

\* The same in the next state.
LEMMA TypePartsNext ==
  (TypeOK /\ Data \in Seq(Bytes))' <=> (HostType /\ ReadType /\ PartialType /\ Channel!TypeOK)'
BY DEF TypeOK, HostType, ReadType, PartialType, Channel!TypeOK, Channel!Answers

\* What SendDataToBmcPort has written is within its message.
LEMMA MsgType ==
  ASSUME HostType
  PROVE  msg \in Seq(Bytes) /\ Len(msg) \in Nat /\ DataOffset \in Nat /\ DataOffset <= Len(msg)
<1>1. msg \in Seq(Bytes)
  <2>1. CASE msg = <<>>
    BY <2>1
  <2> QED BY <2>1, MessageType DEF HostType
<1> QED BY <1>1 DEF HostType

\* The block is the next WriteSize bytes of the message, and one at least.
LEMMA WriteSizeFacts ==
  ASSUME HostType, DataOffset < Len(msg)
  PROVE  /\ WriteSize \in Nat /\ WriteSize > 0 /\ DataOffset + WriteSize <= Len(msg)
         /\ WriteSize <= WriteMax
         /\ Len(msg) - DataOffset <= WriteMax => DataOffset + WriteSize = Len(msg)
         /\ Len(msg) - DataOffset > WriteMax => DataOffset + WriteSize < Len(msg)
BY ConstFacts, MsgType DEF WriteSize

\* With each block but the last the BMC has the message so far, and with the
\* last one it has the message.
LEMMA BmcGets ==
  ASSUME HostType, SendInv, pc = "write",
         BmcWrites(SMBusCmd, SubSeq(msg, DataOffset + 1, DataOffset + WriteSize))
  PROVE  \/ /\ SMBusCmd \in {"MULT_WRITE_START", "MULT_WRITE_MIDDLE"}
            /\ DataOffset + WriteSize < Len(msg)
            /\ partial' = SubSeq(msg, 1, DataOffset + WriteSize) /\ inbox' = inbox
         \/ /\ SMBusCmd \in {"WRITE", "MULT_WRITE_END"}
            /\ DataOffset + WriteSize = Len(msg)
            /\ partial' = NoAnswer /\ inbox' = Append(inbox, msg)
            /\ Len(inbox) + Len(outbox) < MaxInFlight
<1> DEFINE data == SubSeq(msg, DataOffset + 1, DataOffset + WriteSize)
<1>1. msg \in Seq(Bytes) /\ Len(msg) \in Nat /\ DataOffset \in Nat /\ DataOffset < Len(msg)
  BY MsgType DEF SendInv
<1>2. /\ WriteSize \in Nat /\ WriteSize > 0 /\ DataOffset + WriteSize <= Len(msg)
      /\ Len(msg) - DataOffset <= WriteMax => DataOffset + WriteSize = Len(msg)
      /\ Len(msg) - DataOffset > WriteMax => DataOffset + WriteSize < Len(msg)
  BY <1>1, WriteSizeFacts
<1>3. SubSeq(msg, 1, DataOffset) \o data = SubSeq(msg, 1, DataOffset + WriteSize)
  BY <1>1, <1>2, Join
<1>4. SubSeq(msg, 1, Len(msg)) = msg
  BY <1>1, WholeSeq
<1> HIDE DEF data
<1>5. CASE SMBusCmd = "MULT_WRITE_START"
  <2>1. DataOffset = 0 /\ DataOffset + WriteSize < Len(msg)
    BY <1>1, <1>2, <1>5, ConstFacts DEF SendInv
  <2>2. data = SubSeq(msg, 1, DataOffset + WriteSize)
    BY <2>1 DEF data
  <2> QED BY <1>5, <2>1, <2>2 DEF BmcWrites, data
<1>6. CASE SMBusCmd = "MULT_WRITE_MIDDLE"
  BY <1>1, <1>2, <1>3, <1>6, ConstFacts DEF BmcWrites, data, SendInv
<1>7. CASE SMBusCmd = "WRITE"
  <2>1. DataOffset = 0 /\ DataOffset + WriteSize = Len(msg)
    BY <1>1, <1>2, <1>7, ConstFacts DEF SendInv
  <2>2. data = msg
    BY <1>4, <2>1 DEF data
  <2> QED BY <1>7, <2>1, <2>2 DEF BmcWrites, data
<1>8. CASE SMBusCmd = "MULT_WRITE_END"
  <2>1. DataOffset + WriteSize = Len(msg) /\ partial \o data = msg
    BY <1>1, <1>2, <1>3, <1>4, <1>8, ConstFacts DEF SendInv
  <2> QED BY <1>8, <2>1 DEF BmcWrites, data
<1> QED BY <1>5, <1>6, <1>7, <1>8 DEF SendInv, WriteCommands

\* What is sent so far is a prefix of the message.
LEMMA PrefixSent ==
  ASSUME HostType, NEW q \in Nat, q <= Len(msg)
  PROVE  IsPrefix(SubSeq(msg, 1, q), msg)
<1>1. msg \in Seq(Bytes)
  BY MsgType
<1>2. SubSeq(msg, 1, q) \in Seq(Bytes) /\ Len(SubSeq(msg, 1, q)) = q
  BY <1>1
<1>3. SubSeq(SubSeq(msg, 1, q), 1, q) = SubSeq(msg, 1, q)
  BY <1>2, WholeSeq
<1> QED BY <1>2, <1>3 DEF IsPrefix

\* One transaction of SendDataToBmcPort, done or failed.
LEMMA WriteStep ==
  ASSUME HostType, PartialType, SendInv, WriteBlock
  PROVE  HostType' /\ PartialType' /\ SendInv' /\ ReadInv'
<1> DEFINE q == DataOffset + WriteSize
<1>1. /\ pc = "write" /\ msg \in Requests /\ DataOffset \in Nat /\ DataOffset < Len(msg)
      /\ msg \in Seq(Bytes) /\ Len(msg) \in Nat
  BY MsgType DEF WriteBlock, SendInv
<1>2. q \in Nat /\ q > 0 /\ q <= Len(msg)
  BY <1>1, WriteSizeFacts
<1>3. PartialType'
  <2>1. CASE UNCHANGED <<partial, inbox>>
    BY <2>1 DEF PartialType
  <2>2. CASE BmcWrites(SMBusCmd, SubSeq(msg, DataOffset + 1, DataOffset + WriteSize))
    <3>1. partial' = NoAnswer \/ partial' = SubSeq(msg, 1, q)
      BY <1>1, <2>2, BmcGets
    <3>2. IsPrefix(SubSeq(msg, 1, q), msg)
      BY <1>2, PrefixSent
    <3> QED BY <1>1, <3>1, <3>2 DEF PartialType
  <2> QED BY <2>1, <2>2 DEF WriteBlock
<1>4. CASE /\ BmcWrites(SMBusCmd, SubSeq(msg, DataOffset + 1, DataOffset + WriteSize))
           /\ Len(msg) - q > 0
           /\ DataOffset' = q /\ SMBusCmd' = NextWriteCmd(SMBusCmd, Len(msg) - q)
           /\ UNCHANGED <<pc, outcome, msg, BlockNumber, Data>>
  <2>1. /\ SMBusCmd \in {"MULT_WRITE_START", "MULT_WRITE_MIDDLE"}
        /\ partial' = SubSeq(msg, 1, q)
    BY <1>1, <1>2, <1>4, BmcGets
  <2>2. /\ SMBusCmd' \in {"MULT_WRITE_MIDDLE", "MULT_WRITE_END"}
        /\ SMBusCmd' = "MULT_WRITE_END" <=> Len(msg) - q <= WriteMax
    BY <1>4, <2>1 DEF NextWriteCmd
  <2> HIDE DEF q
  <2>3. HostType'
    BY <1>1, <1>2, <1>4, <2>2 DEF HostType, WriteCommands
  <2>4. SendInv'
    BY <1>1, <1>2, <1>4, <2>1, <2>2, ConstFacts DEF SendInv, WriteCommands
  <2> QED BY <1>1, <1>3, <1>4, <2>3, <2>4 DEF ReadInv
<1>5. CASE (Return("ok") \/ Return("error")) /\ UNCHANGED Data
  <2>1. HostType'
    BY <1>5, ConstFacts DEF Return, HostType
  <2> QED BY <1>3, <1>5, <2>1 DEF Return, SendInv, ReadInv
<1> QED BY <1>4, <1>5 DEF WriteBlock
-------------------------------------------------------------------------------
(***************************************************************************)
(* ReceiveBmcDataFromPort.                                                 *)
(***************************************************************************)

\* The answer being read.
LEMMA RepType ==
  ASSUME Channel!TypeOK, outbox # <<>>
  PROVE  rep \in Replies /\ rep \in Seq(Bytes) /\ Len(rep) \in Nat
         /\ Head(outbox) = [req |-> Head(outbox).req, rep |-> rep]
         /\ Head(outbox).req \in Requests
<1>1. Head(outbox) \in Channel!Answers
  BY DEF Channel!TypeOK
<1>2. rep \in Replies /\ Head(outbox).req \in Requests
      /\ Head(outbox) = [req |-> Head(outbox).req, rep |-> rep]
  BY <1>1 DEF Channel!Answers, rep
<1> QED BY <1>2, MessageType

\* Where host and BMC are in step, a block number is far from 0xFF.
LEMMA BlockBound ==
  ASSUME HostType, ReadType, Channel!TypeOK, outbox # <<>>, position < Len(rep), InStep
  PROVE  block \in Nat /\ block + 1 < LastBlock
<1>1. rep \in Seq(Bytes) /\ position \in Nat /\ block \in Nat
  BY RepType DEF ReadType
<1>2. Len(Data) = position
  BY <1>1 DEF InStep
<1>3. block * Chunk < (LastBlock - 1) * Chunk
  BY <1>1, <1>2, BlockAssumption, ConstFacts DEF HostType, InStep, Chunk
<1>4. block < LastBlock - 1
  BY <1>1, <1>3, ConstFacts, MulLess
<1> QED BY <1>1, <1>4, ConstFacts

\* Where the data of a block begins.
LEMMA Offsets ==
  BlockDataOffset("single") = 0 /\ BlockDataOffset("multi") = 2 /\ BlockDataOffset("part") = 1
BY DEF BlockDataOffset

\* b is the block of the answer's bytes after the first p, with number k unless
\* it is the last one.
IsPart(b, p, k) ==
  /\ b.kind = "part" /\ b.data \in Seq(Bytes)
  /\ b.size = 1 + Len(b.data) /\ Len(b.data) <= Chunk
  /\ b.number \in {k, LastBlock}
  /\ Len(rep) - p <= Chunk => b.number = LastBlock /\ b.data = SubSeq(rep, p + 1, Len(rep))
  /\ Len(rep) - p > Chunk => b.number = k /\ b.data = SubSeq(rep, p + 1, p + Chunk)

\* PartBlock makes the block of the answer's next bytes.
LEMMA PartFacts ==
  ASSUME Channel!TypeOK, outbox # <<>>, NEW p \in Nat, p < Len(rep), NEW k \in Nat
  PROVE  IsPart(PartBlock(p, k), p, k)
<1>1. rep \in Seq(Bytes) /\ Len(rep) \in Nat
  BY RepType
<1>2. CASE Len(rep) - p <= Chunk
  <2>1. /\ SubSeq(rep, p + 1, Len(rep)) \in Seq(Bytes)
        /\ Len(SubSeq(rep, p + 1, Len(rep))) = Len(rep) - p
    BY <1>1, SubSeqType
  <2>2. PartBlock(p, k) = Block("part", LastBlock, SubSeq(rep, p + 1, Len(rep)))
    BY <1>2 DEF PartBlock
  <2> QED BY <1>1, <1>2, <2>1, <2>2, Offsets, ConstFacts DEF Block, IsPart
<1>3. CASE ~ (Len(rep) - p <= Chunk)
  <2>1. /\ SubSeq(rep, p + 1, p + Chunk) \in Seq(Bytes)
        /\ Len(SubSeq(rep, p + 1, p + Chunk)) = Chunk
    BY <1>1, <1>3, SubSeqType, ConstFacts
  <2>2. PartBlock(p, k) = Block("part", k, SubSeq(rep, p + 1, p + Chunk))
    BY <1>3 DEF PartBlock
  <2> QED BY <1>1, <1>3, <2>1, <2>2, Offsets, ConstFacts DEF Block, IsPart
<1> QED BY <1>2, <1>3

\* A block that is not too short has its own size after its header.
LEMMA DataSize ==
  ASSUME NEW b, b.kind \in {"single", "multi", "part"}, b.data \in Seq(Bytes),
         b.size = BlockDataOffset(b.kind) + Len(b.data), Len(b.data) < ByteRange
  PROVE  BlockDataSize(b) = Len(b.data)
<1>1. b.size - BlockDataOffset(b.kind) = Len(b.data)
  BY DEF BlockDataOffset
<1> QED BY <1>1, ModSmall, ConstFacts DEF BlockDataSize

\* What the host makes of the block of an offer: if it is taken, it fits the
\* buffer; it is no repeated and no short one, and a skipped one only at the end;
\* and as long as nothing was wrong, it is the next part of the answer.
Fits(c) == c.b.data \in Seq(Bytes) /\ Len(Data) + Len(c.b.data) <= BufferSize

Proceeds(c) ==
  IF Done(c.b) THEN Data \o c.b.data = rep /\ c.position >= Len(rep)
  ELSE /\ c.position = ReadMax - 2 + c.block * Chunk /\ c.position < Len(rep)
       /\ Data \o c.b.data = SubSeq(rep, 1, c.position)
       /\ c.block = IF c.b.kind = "multi" THEN 0 ELSE Following(c.b.number)

SkipsOne(c) ==
  /\ Done(c.b)
  /\ Data \o c.b.data = SubSeq(rep, 1, Len(rep) - LastSize - Chunk)
                          \o SubSeq(rep, Len(rep) - LastSize + 1, Len(rep))

OfferType(c) ==
  /\ c.position \in Nat /\ c.block \in 0..LastBlock /\ c.fault \in Faults
  /\ c.b.number \in Nat /\ c.b.kind \in {"single", "multi", "part"}

Taken(c) ==
  /\ Fits(c) /\ c.fault \in {"none", "empty", "skip"}
  /\ fault = "none" /\ c.fault = "none" => Proceeds(c)
  /\ c.fault = "skip" => SkipsOne(c)

GoodOffer(c) == OfferType(c) /\ (~ OutOfOrder(c.b) /\ ~ TooSmall(c.b) => Taken(c))

\* The first block: the answer if it fits one, else its beginning.
LEMMA FirstGood ==
  ASSUME HostType, ReadType, Channel!TypeOK, outbox # <<>>, Data = <<>>
  PROVE  GoodOffer(FirstOffer)
<1> DEFINE c == FirstOffer
<1>1. rep \in Seq(Bytes) /\ Len(rep) \in Nat
  BY RepType
<1>2. CASE Len(rep) <= ReadMax
  <2>1. c = [b |-> Block("single", 0, rep), position |-> Len(rep), block |-> 0, fault |-> "none"]
    BY <1>2 DEF FirstOffer, FirstBlock, Block
  <2>2. /\ c.b.kind = "single" /\ c.b.data = rep
             /\ c.b.size = BlockDataOffset("single") + Len(rep)
        /\ c.b.number = 0 /\ c.position = Len(rep) /\ c.block = 0 /\ c.fault = "none"
    BY <2>1 DEF Block
  <2> HIDE DEF c
  <2>3. BlockDataSize(c.b) = Len(rep)
    BY <1>1, <1>2, <2>2, DataSize, ConstFacts
  <2>4. Data \o c.b.data = rep /\ Len(Data) = 0
    BY <1>1, <2>2
  <2>5. OfferType(c)
    BY <1>1, <2>2, ConstFacts DEF OfferType, Faults
  <2>6. ASSUME ~ TooSmall(c.b) PROVE Taken(c)
    BY <1>1, <2>2, <2>3, <2>4, <2>6, ConstFacts DEF TooSmall, Taken, Fits, Proceeds, Done
  <2> QED BY <2>5, <2>6 DEF GoodOffer, c
<1>3. CASE ~ (Len(rep) <= ReadMax)
  <2> DEFINE d == SubSeq(rep, 1, ReadMax - 2)
  <2>1. d \in Seq(Bytes) /\ Len(d) = ReadMax - 2
    BY <1>1, <1>3, ConstFacts
  <2>2. c = [b |-> Block("multi", 0, d), position |-> Len(d), block |-> 0, fault |-> "none"]
    BY <1>3 DEF FirstOffer, FirstBlock, Block
  <2> HIDE DEF d
  <2>3. /\ c.b.kind = "multi" /\ c.b.data = d /\ c.b.size = BlockDataOffset("multi") + Len(d)
        /\ c.b.number = 0 /\ c.position = Len(d) /\ c.block = 0 /\ c.fault = "none"
    BY <2>2 DEF Block
  <2> HIDE DEF c
  <2>4. BlockDataSize(c.b) = Len(d)
    BY <2>1, <2>3, DataSize, ConstFacts
  <2>5. Data \o c.b.data = d /\ Len(Data) = 0
    BY <2>1, <2>3
  <2>6. OfferType(c)
    BY <2>1, <2>3, ConstFacts DEF OfferType, Faults
  <2>7. Proceeds(c)
    <3>1. 0 * Chunk = 0
      BY ConstFacts
    <3> QED BY <1>1, <1>3, <2>1, <2>3, <2>5, <3>1, ConstFacts DEF Proceeds, Done, d
  <2>8. ASSUME ~ TooSmall(c.b) PROVE Taken(c)
    BY <2>1, <2>3, <2>4, <2>5, <2>7, <2>8, ConstFacts DEF TooSmall, Taken, Fits
  <2> QED BY <2>6, <2>8 DEF GoodOffer, c
<1> QED BY <1>2, <1>3

\* A part of the answer that is not refused as too large fits the buffer.
LEMMA FitsPart ==
  ASSUME HostType, NEW c, c.b.kind = "part", c.b.data \in Seq(Bytes),
         c.b.size = 1 + Len(c.b.data), Len(c.b.data) <= Chunk, ~ TooSmall(c.b)
  PROVE  Fits(c)
<1>1. BlockDataSize(c.b) = Len(c.b.data)
  BY DataSize, Offsets, ConstFacts
<1> QED BY <1>1, ConstFacts DEF TooSmall, Fits, HostType

\* The next block in order continues the answer.
LEMMA NextGood ==
  ASSUME HostType, ReadType, Channel!TypeOK, outbox # <<>>, position < Len(rep),
         fault = "none" => InStep
  PROVE  GoodOffer(PartOffer("none"))
<1> DEFINE c == PartOffer("none")
<1>1. c = [b |-> PartBlock(position, block), position |-> position + Chunk,
           block |-> Following(block), fault |-> "none"]
  BY DEF PartOffer
<1>2. /\ c.b = PartBlock(position, block) /\ c.position = position + Chunk
      /\ c.block = Following(block) /\ c.fault = "none"
  BY <1>1
<1> HIDE DEF c
<1>3. rep \in Seq(Bytes) /\ Len(rep) \in Nat /\ position \in Nat /\ block \in Nat
  BY RepType DEF ReadType
<1>4. /\ c.b.kind = "part" /\ c.b.data \in Seq(Bytes)
      /\ c.b.size = 1 + Len(c.b.data) /\ Len(c.b.data) <= Chunk
      /\ c.b.number \in {block, LastBlock}
      /\ Len(rep) - position <= Chunk =>
           c.b.number = LastBlock /\ c.b.data = SubSeq(rep, position + 1, Len(rep))
      /\ Len(rep) - position > Chunk =>
           c.b.number = block /\ c.b.data = SubSeq(rep, position + 1, position + Chunk)
  <2>1. IsPart(c.b, position, block)
    BY <1>2, <1>3, PartFacts
  <2> QED BY <2>1 DEF IsPart
<1>5. OfferType(c)
  <2>1. Following(block) \in 0..LastBlock
    BY <1>3, FollowingType
  <2>2. c.position \in Nat
    BY <1>2, <1>3, ConstFacts
  <2>3. c.b.number \in Nat
    BY <1>3, <1>4, ConstFacts
  <2> QED BY <1>2, <1>4, <2>1, <2>2, <2>3 DEF OfferType, Faults
<1>6. ASSUME fault = "none" PROVE Proceeds(c)
  <2>1. block + 1 < LastBlock /\ InStep
    BY <1>6, BlockBound
  <2>2. CASE Len(rep) - position <= Chunk
    <3>1. Data \o c.b.data = rep
      <4>1. SubSeq(rep, 1, position) \o SubSeq(rep, position + 1, Len(rep)) = rep
        <5>1. position <= Len(rep) /\ Len(rep) <= Len(rep)
          BY <1>3
        <5>2. SubSeq(rep, 1, position) \o SubSeq(rep, position + 1, Len(rep))
                = SubSeq(rep, 1, Len(rep))
          BY <1>3, <5>1, Join
        <5> QED BY <1>3, <5>2, WholeSeq
      <4> QED BY <1>4, <2>1, <2>2, <4>1 DEF InStep
    <3> QED BY <1>2, <1>3, <1>4, <2>2, <3>1, ConstFacts DEF Proceeds, Done
  <2>3. CASE ~ (Len(rep) - position <= Chunk)
    <3>1. position + Chunk \in Nat /\ position <= position + Chunk /\ position + Chunk < Len(rep)
      BY <1>3, <2>3, ConstFacts
    <3>2. Data \o c.b.data = SubSeq(rep, 1, position + Chunk)
      <4>1. SubSeq(rep, 1, position) \o SubSeq(rep, position + 1, position + Chunk)
              = SubSeq(rep, 1, position + Chunk)
        BY <1>3, <3>1, Join
      <4>2. Len(rep) - position > Chunk
        BY <1>3, <2>3, ConstFacts
      <4>3. c.b.data = SubSeq(rep, position + 1, position + Chunk)
        BY <1>4, <4>2
      <4> QED BY <2>1, <4>1, <4>3 DEF InStep
    <3>3. c.b.number = block /\ Following(block) = block + 1
      BY <1>3, <1>4, <2>1, <2>3, FollowingNext, ConstFacts
    <3>4. position + Chunk = ReadMax - 2 + (block + 1) * Chunk
      BY <1>3, <2>1, ConstFacts DEF InStep
    <3> QED BY <1>2, <1>3, <1>4, <2>1, <3>1, <3>2, <3>3, <3>4, ConstFacts DEF Proceeds, Done
  <2> QED BY <2>2, <2>3
<1>7. ASSUME ~ TooSmall(c.b) PROVE Taken(c)
  BY <1>2, <1>4, <1>6, <1>7, FitsPart DEF Taken
<1> QED BY <1>5, <1>7 DEF GoodOffer, c

\* A block that was sent before is out of order.
LEMMA RepeatGood ==
  ASSUME HostType, ReadType, Channel!TypeOK, outbox # <<>>, position < Len(rep), InStep, block > 0
  PROVE  GoodOffer(PartOffer("repeat"))
<1> DEFINE c == PartOffer("repeat")
<1>1. c = [b |-> PartBlock(position - Chunk, block - 1), position |-> position,
           block |-> block, fault |-> "repeat"]
  BY DEF PartOffer
<1>2. /\ c.b = PartBlock(position - Chunk, block - 1) /\ c.position = position
      /\ c.block = block /\ c.fault = "repeat"
  BY <1>1
<1> HIDE DEF c
<1>3. rep \in Seq(Bytes) /\ Len(rep) \in Nat /\ position \in Nat /\ block - 1 \in Nat
  BY RepType DEF ReadType
<1>4. position - Chunk \in Nat /\ position - Chunk < Len(rep)
  <2>1. block * Chunk = (block - 1) * Chunk + Chunk /\ (block - 1) * Chunk \in Nat
    <3>1. (block - 1) + 1 = block
      BY DEF ReadType
    <3> QED BY <1>3, <3>1, ConstFacts, MulNext
  <2> QED BY <1>3, <2>1, ConstFacts, SMTT(30) DEF InStep
<1>5. c.b.kind = "part" /\ c.b.number = block - 1
  <2>1. IsPart(c.b, position - Chunk, block - 1)
    BY <1>2, <1>3, <1>4, PartFacts
  <2>2. Len(rep) - (position - Chunk) > Chunk
    BY <1>3, ConstFacts
  <2> QED BY <2>1, <2>2 DEF IsPart
<1>6. OutOfOrder(c.b)
  <2>1. block \in Nat /\ block + 1 < LastBlock
    BY BlockBound
  <2>2. block - 1 # LastBlock /\ block - 1 # block
    BY <2>1, ConstFacts
  <2> QED BY <1>5, <2>2 DEF OutOfOrder, InStep
<1>7. OfferType(c)
  BY <1>2, <1>3, <1>5 DEF OfferType, Faults, ReadType
<1> QED BY <1>6, <1>7 DEF GoodOffer, c

\* A skipped block is noticed at the next one, unless that one is the last.
LEMMA SkipGood ==
  ASSUME HostType, ReadType, Channel!TypeOK, outbox # <<>>, position + Chunk < Len(rep), InStep
  PROVE  GoodOffer(PartOffer("skip"))
<1> DEFINE c == PartOffer("skip")
           p == position + Chunk
<1>1. c = [b |-> PartBlock(p, block + 1), position |-> position + 2 * Chunk,
           block |-> block + 2, fault |-> "skip"]
  BY DEF PartOffer
<1>2. /\ c.b = PartBlock(p, block + 1) /\ c.position = position + 2 * Chunk
      /\ c.block = block + 2 /\ c.fault = "skip"
  BY <1>1
<1> HIDE DEF c
<1>3. /\ rep \in Seq(Bytes) /\ Len(rep) \in Nat /\ position \in Nat /\ block \in Nat
      /\ p \in Nat /\ p < Len(rep) /\ position < Len(rep)
  BY RepType, ConstFacts DEF ReadType
<1>4. block + 1 < LastBlock
  BY <1>3, BlockBound
<1>5. /\ c.b.kind = "part" /\ c.b.data \in Seq(Bytes)
      /\ c.b.size = 1 + Len(c.b.data) /\ Len(c.b.data) <= Chunk
      /\ c.b.number \in {block + 1, LastBlock}
      /\ Len(rep) - p <= Chunk =>
           c.b.number = LastBlock /\ c.b.data = SubSeq(rep, p + 1, Len(rep))
      /\ Len(rep) - p > Chunk => c.b.number = block + 1
  <2>1. block + 1 \in Nat
    BY <1>3
  <2> HIDE DEF p
  <2>2. IsPart(c.b, p, block + 1)
    BY <1>2, <1>3, <2>1, PartFacts
  <2> QED BY <2>2 DEF IsPart
<1>6. OfferType(c)
  BY <1>2, <1>3, <1>4, <1>5, ConstFacts, SMTT(30) DEF OfferType, Faults
<1>7. ASSUME ~ OutOfOrder(c.b) PROVE SkipsOne(c)
  <2>1. Len(rep) - p <= Chunk
    BY <1>3, <1>4, <1>5, <1>7, ConstFacts DEF OutOfOrder, InStep
  <2>2. LastSize = Len(rep) - p
    <3>1. Len(rep) - ReadMax + 1 = (Len(rep) - p - 1) + (block + 1) * Chunk
      BY <1>3, ConstFacts DEF InStep
    <3>2. Len(rep) - p - 1 \in Nat /\ Len(rep) - p - 1 < Chunk
      BY <1>3, <2>1, ConstFacts
    <3>3. ((Len(rep) - p - 1) + (block + 1) * Chunk) % Chunk = Len(rep) - p - 1
      <4>1. block + 1 \in Nat /\ Chunk \in Nat \ {0}
        BY <1>3, ConstFacts
      <4> QED BY <3>2, <4>1, ModMultiple
    <3> HIDE DEF p
    <3> QED BY <1>3, <3>1, <3>3 DEF LastSize
  <2>3. Len(rep) - LastSize - Chunk = position /\ Len(rep) - LastSize + 1 = p + 1
    BY <1>3, <2>2, ConstFacts
  <2> QED BY <1>5, <2>1, <2>3 DEF SkipsOne, Done, InStep
<1>8. ASSUME ~ OutOfOrder(c.b), ~ TooSmall(c.b) PROVE Taken(c)
  BY <1>2, <1>5, <1>7, <1>8, FitsPart DEF Taken
<1> QED BY <1>6, <1>8 DEF GoodOffer, c

\* An empty block adds nothing and is taken.
LEMMA EmptyGood ==
  ASSUME HostType, ReadType
  PROVE  GoodOffer(PartOffer("empty"))
<1> DEFINE c == PartOffer("empty")
<1>1. c = [b |-> Block("part", block, <<>>), position |-> position,
           block |-> Following(block), fault |-> "empty"]
  BY DEF PartOffer
<1>2. /\ c.b = [kind |-> "part", number |-> block, data |-> <<>>,
                size |-> BlockDataOffset("part") + Len(<<>>)]
      /\ c.position = position /\ c.block = Following(block) /\ c.fault = "empty"
  BY <1>1 DEF Block
<1> HIDE DEF c
<1>3. c.b.kind = "part" /\ c.b.number = block /\ c.b.data = <<>>
  BY <1>2
<1>4. OfferType(c)
  BY <1>2, <1>3, FollowingType DEF OfferType, Faults, ReadType
<1>5. Fits(c)
  BY <1>3, ConstFacts DEF Fits, HostType
<1> QED BY <1>2, <1>4, <1>5 DEF GoodOffer, Taken, c

\* The size of a block that has not even its number underflows and exceeds every
\* buffer.
LEMMA ShortGood ==
  ASSUME HostType, ReadType
  PROVE  GoodOffer(PartOffer("short"))
<1> DEFINE c == PartOffer("short")
<1>1. c = [b |-> [kind |-> "part", data |-> <<>>, size |-> 0,
                  number |-> IF BlockNumber = 0 THEN 0 ELSE BlockNumber - 1],
           position |-> position, block |-> block, fault |-> "short"]
  BY DEF PartOffer
<1>2. /\ c.b.kind = "part" /\ c.b.size = 0 /\ c.b.number \in Nat
      /\ c.position = position /\ c.block = block /\ c.fault = "short"
  BY <1>1 DEF HostType
<1> HIDE DEF c
<1>3. OfferType(c)
  BY <1>2 DEF OfferType, Faults, ReadType
<1>4. BlockDataSize(c.b) = ByteRange - 1
  BY <1>2, Offsets, ModUnderflow, ConstFacts DEF BlockDataSize
<1>5. TooSmall(c.b)
  BY <1>4, ConstFacts DEF TooSmall, HostType
<1> QED BY <1>3, <1>5 DEF GoodOffer, c

\* Every block the BMC may answer with.
LEMMA OfferGood ==
  ASSUME HostType, ReadType, Channel!TypeOK, ReadInv, pc = "read", NEW c \in Offers
  PROVE  outbox # <<>> /\ GoodOffer(c) /\ (position > 0 => position < Len(rep))
<1>1. outbox # <<>>
  BY DEF Offers
<1>2. CASE SMBusCmd = "READ"
  BY <1>1, <1>2, FirstGood DEF Offers, ReadInv
<1>3. CASE SMBusCmd # "READ"
  <2>1. PICK f \in PossibleFaults : c = PartOffer(f)
    BY <1>1, <1>3 DEF Offers
  <2>2. position > 0 /\ position \in Nat
    BY <1>1, <1>3 DEF Offers, ReadType
  <2>3. position < Len(rep) /\ (fault = "none" => InStep)
    BY <2>2 DEF ReadInv
  <2>4. /\ f \in {"none", "repeat", "skip", "empty", "short"}
        /\ f = "repeat" => block > 0 /\ fault = "none"
        /\ f = "skip" => position + Chunk < Len(rep) /\ fault = "none"
    BY DEF PossibleFaults, Faults
  <2> QED
    BY <1>1, <2>1, <2>3, <2>4, NextGood, RepeatGood, SkipGood, EmptyGood, ShortGood
<1> QED BY <1>2, <1>3, <1>1 DEF ReadInv

\* The BMC's side of a read leaves the answer or is done with it.
LEMMA BmcReadsFacts ==
  ASSUME ReadType, NEW c, OfferType(c), BmcReads(c)
  PROVE  /\ ReadType'
         /\ outbox' = outbox \/ outbox' = Tail(outbox)
         /\ c.position >= Len(rep) => outbox' = Tail(outbox) /\ position' = 0
         /\ ~ (c.position >= Len(rep)) => outbox' = outbox /\ position' = c.position
         /\ block' = c.block /\ fault' = IF c.fault = "none" THEN fault ELSE c.fault
BY DEF ReadType, OfferType, BmcReads

\* A call that returns leaves nothing under way.
LEMMA ReturnStep ==
  ASSUME HostType, NEW o \in {"ok", "error"}, Return(o), Data' \in Seq(Bytes),
         Len(Data') <= BufferSize
  PROVE  HostType' /\ SendInv' /\ ReadInv'
<1>1. HostType'
  BY ConstFacts DEF Return, HostType
<1> QED BY <1>1 DEF Return, SendInv, ReadInv

\* A block is taken and the answer goes on.
LEMMA MoreStep ==
  ASSUME HostType, ReadType, Channel!TypeOK, ReadInv, pc = "read", NEW c \in Offers, BmcReads(c),
         ~ OutOfOrder(c.b), ~ TooSmall(c.b), ~ Done(c.b),
         Data' = Data \o c.b.data, SMBusCmd' = "MULT_READ",
         BlockNumber' = IF c.b.kind = "multi" THEN 0 ELSE Following(c.b.number),
         UNCHANGED <<pc, outcome, msg, DataOffset>>
  PROVE  HostType' /\ SendInv' /\ ReadInv'
<1>1. outbox # <<>> /\ OfferType(c) /\ Taken(c)
  BY OfferGood DEF GoodOffer
<1>2. Data' \in Seq(Bytes) /\ Len(Data') <= BufferSize
  BY <1>1 DEF Taken, Fits, HostType
<1>3. BlockNumber' \in 0..LastBlock
  <2>1. 0 \in 0..LastBlock
    BY ConstFacts
  <2>2. Following(c.b.number) \in 0..LastBlock
    BY <1>1, FollowingType DEF OfferType
  <2> QED BY <2>1, <2>2
<1>4. HostType'
  BY <1>2, <1>3 DEF HostType
<1>5. c.fault \in {"none", "empty"} /\ fault \in {"none", "empty"}
  BY <1>1 DEF Taken, SkipsOne, ReadInv
<1>6. /\ ~ (c.position >= Len(rep)) => outbox' = outbox /\ position' = c.position
      /\ c.position >= Len(rep) => position' = 0
      /\ block' = c.block /\ fault' = IF c.fault = "none" THEN fault ELSE c.fault
  BY <1>1, BmcReadsFacts
<1>7. ASSUME position' > 0
      PROVE  outbox' # <<>> /\ position' < Len(rep)' /\ (fault' = "none" => InStep')
  <2>1. outbox' = outbox /\ position' = c.position /\ rep' = rep /\ ~ (c.position >= Len(rep))
    BY <1>6, <1>7 DEF rep
  <2>2. c.position < Len(rep)
    BY <1>1, <2>1, RepType DEF OfferType
  <2>3. ASSUME fault' = "none" PROVE InStep'
    <3>1. Proceeds(c)
      BY <1>1, <1>5, <1>6, <2>3 DEF Taken
    <3> QED BY <1>6, <2>1, <3>1 DEF Proceeds, InStep, Chunk
  <2> QED BY <1>1, <2>1, <2>2, <2>3
<1>8. ReadInv'
  BY <1>5, <1>6, <1>7 DEF ReadInv
<1> QED BY <1>4, <1>8 DEF SendInv

\* One block of an answer: taken, taken as the last one, or refused.
LEMMA ReadStep ==
  ASSUME HostType, ReadType, Channel!TypeOK, ReadInv, ReadBlock
  PROVE  HostType' /\ ReadType' /\ SendInv' /\ ReadInv'
<1>1. PICK c \in Offers :
        /\ BmcReads(c)
        /\ \/ Return("error") /\ UNCHANGED Data
           \/ /\ ~ OutOfOrder(c.b) /\ ~ TooSmall(c.b)
              /\ Data' = Data \o c.b.data
              /\ \/ Return("ok")
                 \/ /\ ~ Done(c.b) /\ SMBusCmd' = "MULT_READ"
                    /\ BlockNumber' = IF c.b.kind = "multi" THEN 0 ELSE Following(c.b.number)
                    /\ UNCHANGED <<pc, outcome, msg, DataOffset>>
  BY DEF ReadBlock
<1>2. pc = "read"
  BY DEF ReadBlock
<1>3. OfferType(c) /\ (~ OutOfOrder(c.b) /\ ~ TooSmall(c.b) => Fits(c))
  BY <1>2, OfferGood DEF GoodOffer, Taken
<1>4. ReadType'
  BY <1>1, <1>3, BmcReadsFacts
<1>5. CASE Return("error") /\ UNCHANGED Data
  BY <1>4, <1>5, ReturnStep DEF HostType
<1>6. CASE Return("ok") /\ ~ OutOfOrder(c.b) /\ ~ TooSmall(c.b) /\ Data' = Data \o c.b.data
  <2>1. Data' \in Seq(Bytes) /\ Len(Data') <= BufferSize
    BY <1>3, <1>6 DEF Fits, HostType
  <2> QED BY <1>4, <1>6, <2>1, ReturnStep
<1> QED BY <1>1, <1>2, <1>4, <1>5, <1>6, MoreStep

\* A read that fails on the bus, which the BMC may have served all the same.
LEMMA ReadFailsStep ==
  ASSUME HostType, ReadType, Channel!TypeOK, ReadInv, ReadFails
  PROVE  HostType' /\ ReadType' /\ SendInv' /\ ReadInv'
<1>1. pc = "read" /\ Return("error") /\ UNCHANGED Data
  BY DEF ReadFails
<1>2. ReadType'
  <2>1. CASE UNCHANGED <<outbox, position, block, fault>>
    BY <2>1 DEF ReadType
  <2>2. ASSUME NEW c \in Offers, BmcReads(c) PROVE ReadType'
    BY <1>1, <2>2, OfferGood, BmcReadsFacts DEF GoodOffer
  <2> QED BY <2>1, <2>2 DEF ReadFails
<1> QED BY <1>1, <1>2, ReturnStep DEF HostType

\* While the host reads, the BMC may drop the answer, and then there is none to
\* go on with.
LEMMA BmcStep ==
  ASSUME HostType, ReadType, Channel!TypeOK, SendInv, ReadInv, Bmc
  PROVE  HostType' /\ ReadType' /\ SendInv' /\ ReadInv'
<1>1. UNCHANGED <<pc, outcome, msg, DataOffset, SMBusCmd, Data, BlockNumber, partial, block,
                  fault>>
  BY DEF Bmc, host
<1>2. HostType' /\ SendInv'
  BY <1>1 DEF HostType, SendInv
<1>3. position' \in {0, position}
  BY DEF Bmc
<1>4. ReadType'
  BY <1>1, <1>3 DEF ReadType
<1>5. ASSUME pc = "read", position' > 0 PROVE outbox' # <<>> /\ rep' = rep /\ position' = position
  <2>1. position' = position /\ outbox # <<>> /\ outbox' # Tail(outbox)
    BY <1>3, <1>5 DEF Bmc, ReadInv, ReadType
  <2>2. CASE outbox' = outbox
    BY <2>1, <2>2 DEF rep
  <2>3. ASSUME NEW x \in Channel!Answers, outbox' = Append(outbox, x)
        PROVE  outbox' # <<>> /\ Head(outbox') = Head(outbox)
    BY <2>1, <2>3 DEF Channel!TypeOK
  <2>4. CASE Channel!Answer
    <3>1. PICK r \in Replies : outbox' = Append(outbox, [req |-> Head(inbox), rep |-> r])
      BY <2>4 DEF Channel!Answer
    <3>2. Head(inbox) \in Requests
      BY <2>4 DEF Channel!Answer, Channel!TypeOK
    <3>3. [req |-> Head(inbox), rep |-> r] \in Channel!Answers
      BY <3>2 DEF Channel!Answers
    <3> QED BY <2>1, <2>3, <3>1, <3>3 DEF rep
  <2> QED BY <2>1, <2>2, <2>4 DEF Bmc, Channel!Bmc, Channel!LoseRequest, Channel!LoseAnswer
<1>6. ReadInv'
  BY <1>1, <1>3, <1>5 DEF ReadInv, InStep, Chunk
<1> QED BY <1>2, <1>4, <1>6
-------------------------------------------------------------------------------
(***************************************************************************)
(* Refinement and invariance.                                              *)
(***************************************************************************)
ChannelStep == [Channel!Next]_(Channel!vars)

\* The channel keeps whole messages and answers.
LEMMA ChannelType ==
  ASSUME Channel!TypeOK, ChannelStep
  PROVE  Channel!TypeOK'
<1>1. inbox \in Seq(Requests) /\ outbox \in Seq(Channel!Answers)
      /\ taken \in Channel!Answers \cup {NoAnswer}
  BY DEF Channel!TypeOK
<1>2. ASSUME NEW m \in Requests, Channel!Deliver(m) PROVE Channel!TypeOK'
  BY <1>1, <1>2 DEF Channel!Deliver, Channel!TypeOK, Channel!Answers
<1>3. CASE Channel!Answer
  <2>1. PICK r \in Replies : outbox' = Append(outbox, [req |-> Head(inbox), rep |-> r])
    BY <1>3 DEF Channel!Answer
  <2>2. Head(inbox) \in Requests /\ inbox' \in Seq(Requests) /\ taken' = taken
    BY <1>1, <1>3 DEF Channel!Answer
  <2>3. [req |-> Head(inbox), rep |-> r] \in Channel!Answers
    BY <2>2 DEF Channel!Answers
  <2>4. outbox' \in Seq(Channel!Answers)
    BY <1>1, <2>1, <2>3
  <2> QED BY <1>1, <2>2, <2>4 DEF Channel!TypeOK, Channel!Answers
<1>4. CASE Channel!LoseRequest \/ Channel!LoseAnswer
  <2>1. inbox' \in Seq(Requests) /\ outbox' \in Seq(Channel!Answers) /\ taken' = taken
    <3>1. CASE Channel!LoseRequest
      BY <1>1, <3>1 DEF Channel!LoseRequest
    <3>2. CASE Channel!LoseAnswer
      BY <1>1, <3>2 DEF Channel!LoseAnswer
    <3> QED BY <1>4, <3>1, <3>2
  <2> QED BY <1>1, <2>1 DEF Channel!TypeOK, Channel!Answers
<1>5. CASE Channel!Take
  <2>1. inbox' \in Seq(Requests) /\ outbox' \in Seq(Channel!Answers) /\ taken' \in Channel!Answers
    BY <1>1, <1>5 DEF Channel!Take
  <2> QED BY <2>1 DEF Channel!TypeOK, Channel!Answers
<1>6. CASE UNCHANGED Channel!vars
  BY <1>1, <1>6 DEF Channel!vars, Channel!TypeOK, Channel!Answers
<1> QED BY <1>2, <1>3, <1>4, <1>5, <1>6 DEF ChannelStep, Channel!Next, Channel!Bmc

\* Steps that leave the queues and what the host took alone.
LEMMA StutterStep == ASSUME UNCHANGED <<inbox, outbox, taken>> PROVE ChannelStep
BY DEF ChannelStep, Channel!vars

\* An answer of which a block went out last is dropped, or not.
LEMMA DropStep ==
  ASSUME outbox # <<>>, outbox' = outbox \/ outbox' = Tail(outbox), UNCHANGED <<inbox, taken>>
  PROVE  ChannelStep
<1>1. CASE outbox' = outbox
  BY <1>1, StutterStep
<1>2. CASE outbox' = Tail(outbox)
  <2>1. Channel!LoseAnswer
    BY <1>2 DEF Channel!LoseAnswer
  <2> QED BY <2>1 DEF ChannelStep, Channel!Next, Channel!Bmc
<1> QED BY <1>1, <1>2

\* A message is delivered with its last block.
LEMMA WriteChannel == ASSUME HostType, SendInv, WriteBlock PROVE ChannelStep
<1>1. pc = "write" /\ msg \in Requests /\ UNCHANGED <<outbox, taken>>
  BY DEF WriteBlock, SendInv, reading
<1>2. CASE UNCHANGED <<partial, inbox>>
  BY <1>1, <1>2, StutterStep
<1>3. CASE BmcWrites(SMBusCmd, SubSeq(msg, DataOffset + 1, DataOffset + WriteSize))
  <2>1. \/ inbox' = inbox
        \/ inbox' = Append(inbox, msg) /\ Len(inbox) + Len(outbox) < MaxInFlight
    BY <1>1, <1>3, BmcGets
  <2>2. CASE inbox' = inbox
    BY <1>1, <2>2, StutterStep
  <2>3. CASE inbox' = Append(inbox, msg) /\ Len(inbox) + Len(outbox) < MaxInFlight
    <3>1. Channel!Deliver(msg)
      BY <1>1, <2>3 DEF Channel!Deliver
    <3> QED BY <1>1, <3>1 DEF ChannelStep, Channel!Next
  <2> QED BY <2>1, <2>2, <2>3
<1> QED BY <1>2, <1>3 DEF WriteBlock

\* An answer read without a fault is taken with its last block.
LEMMA ReadChannel ==
  ASSUME HostType, ReadType, Channel!TypeOK, ReadInv, ReadBlock
  PROVE  ChannelStep
<1>1. PICK c \in Offers :
        /\ BmcReads(c)
        /\ \/ taken' = taken
           \/ /\ ~ OutOfOrder(c.b) /\ ~ TooSmall(c.b) /\ Done(c.b)
              /\ Data' = Data \o c.b.data /\ fault' = "none"
              /\ taken' = [req |-> Head(outbox).req, rep |-> Data']
  BY DEF ReadBlock
<1>2. pc = "read" /\ inbox' = inbox
  BY DEF ReadBlock
<1>3. outbox # <<>> /\ OfferType(c) /\ (~ OutOfOrder(c.b) /\ ~ TooSmall(c.b) => Taken(c))
  BY <1>2, OfferGood DEF GoodOffer
<1>4. /\ outbox' = outbox \/ outbox' = Tail(outbox)
      /\ c.position >= Len(rep) => outbox' = Tail(outbox)
      /\ fault' = IF c.fault = "none" THEN fault ELSE c.fault
  BY <1>1, <1>3, BmcReadsFacts
<1>5. CASE taken' = taken
  BY <1>2, <1>3, <1>4, <1>5, DropStep
<1>6. CASE taken' # taken
  <2>1. fault = "none" /\ c.fault = "none" /\ Done(c.b) /\ Taken(c)
    BY <1>1, <1>3, <1>4, <1>6
  <2>2. Data' = rep /\ outbox' = Tail(outbox)
    BY <1>1, <1>4, <1>6, <2>1 DEF Taken, Proceeds
  <2>3. taken' = Head(outbox)
    BY <1>1, <1>3, <1>6, <2>2, RepType
  <2>4. Channel!Take
    BY <1>2, <1>3, <2>2, <2>3 DEF Channel!Take
  <2> QED BY <2>4 DEF ChannelStep, Channel!Next
<1> QED BY <1>5, <1>6

\* A failed read drops the answer, or not.
LEMMA ReadFailsChannel ==
  ASSUME HostType, ReadType, Channel!TypeOK, ReadInv, ReadFails
  PROVE  ChannelStep
<1>1. pc = "read" /\ UNCHANGED <<inbox, taken>>
  BY DEF ReadFails
<1>2. CASE UNCHANGED <<outbox, position, block, fault>>
  BY <1>1, <1>2, StutterStep
<1>3. ASSUME NEW c \in Offers, BmcReads(c) PROVE ChannelStep
  <2>1. outbox # <<>> /\ OfferType(c)
    BY <1>1, OfferGood DEF GoodOffer
  <2> QED BY <1>1, <1>3, <2>1, BmcReadsFacts, DropStep
<1> QED BY <1>2, <1>3 DEF ReadFails

\* A call begins, or is refused at once.
LEMMA CallStep ==
  ASSUME HostType, ReadType, PartialType,
         (\E m \in Requests \cup {<<>>} : SendDataToBmcPort(m)) \/ ReceiveBmcDataFromPort
  PROVE  (HostType /\ ReadType /\ PartialType /\ SendInv /\ ReadInv)' /\ ChannelStep
<1>1. ASSUME NEW m \in Requests \cup {<<>>}, SendDataToBmcPort(m)
      PROVE  (HostType /\ ReadType /\ PartialType /\ SendInv /\ ReadInv)' /\ ChannelStep
  <2>1. UNCHANGED <<Data, partial, inbox, outbox, taken, position, block, fault>>
    BY <1>1 DEF SendDataToBmcPort, reading
  <2>2. ReadType' /\ PartialType' /\ ChannelStep
    BY <2>1, StutterStep DEF ReadType, PartialType
  <2>3. CASE Return("error")
    BY <2>1, <2>2, <2>3, ReturnStep DEF HostType
  <2>4. CASE /\ m # <<>> /\ pc' = "write" /\ msg' = m /\ DataOffset' = 0
             /\ SMBusCmd' = IF Len(m) > WriteMax THEN "MULT_WRITE_START" ELSE "WRITE"
             /\ UNCHANGED <<outcome, BlockNumber>>
    <3>1. m \in Requests /\ Len(m) \in Nat /\ Len(m) > 0
      BY <2>4, MessageType
    <3>2. HostType' /\ SendInv' /\ ReadInv'
      BY <2>1, <2>4, <3>1, ConstFacts DEF HostType, SendInv, ReadInv, WriteCommands
    <3> QED BY <2>2, <3>2
  <2> QED BY <1>1, <2>3, <2>4 DEF SendDataToBmcPort
<1>2. CASE ReceiveBmcDataFromPort
  <2>1. /\ Data' = <<>> /\ position' = 0 /\ block' = 0 /\ fault' = "none"
        /\ UNCHANGED <<partial, inbox, outbox, taken>>
    BY <1>2 DEF ReceiveBmcDataFromPort
  <2>2. ReadType' /\ PartialType' /\ ChannelStep
    BY <2>1, StutterStep, ConstFacts DEF ReadType, PartialType, Faults
  <2>3. Data' \in Seq(Bytes) /\ Len(Data') <= BufferSize
    BY <2>1, ConstFacts
  <2>4. CASE Return("error")
    BY <2>2, <2>3, <2>4, ReturnStep
  <2>5. CASE /\ pc' = "read" /\ SMBusCmd' = "READ"
             /\ UNCHANGED <<outcome, msg, DataOffset, BlockNumber>>
    BY <2>1, <2>2, <2>3, <2>5 DEF HostType, SendInv, ReadInv
  <2> QED BY <1>2, <2>4, <2>5 DEF ReceiveBmcDataFromPort
<1> QED BY <1>1, <1>2

\* Every step keeps the invariant and is a step of the channel, or none.
LEMMA StepInv ==
  ASSUME IInv, [Next]_vars
  PROVE  IInv' /\ ChannelStep
<1> DEFINE Rest == HostType /\ ReadType /\ PartialType /\ SendInv /\ ReadInv
<1>1. Rest /\ Channel!TypeOK
  BY TypeParts DEF IInv
<1>2. Rest' /\ ChannelStep
  <2>1. CASE (\E m \in Requests \cup {<<>>} : SendDataToBmcPort(m)) \/ ReceiveBmcDataFromPort
    BY <1>1, <2>1, CallStep
  <2>2. CASE WriteBlock
    <3>1. ReadType'
      BY <1>1, <2>2 DEF WriteBlock, reading, ReadType
    <3> QED BY <1>1, <2>2, <3>1, WriteStep, WriteChannel
  <2>3. CASE ReadBlock
    <3>1. PartialType'
      BY <1>1, <2>3 DEF ReadBlock, PartialType
    <3> QED BY <1>1, <2>3, <3>1, ReadStep, ReadChannel
  <2>4. CASE ReadFails
    <3>1. PartialType'
      BY <1>1, <2>4 DEF ReadFails, PartialType
    <3> QED BY <1>1, <2>4, <3>1, ReadFailsStep, ReadFailsChannel
  <2>5. CASE Bmc
    <3>1. PartialType' /\ ChannelStep
      BY <1>1, <2>5 DEF Bmc, PartialType, ChannelStep, Channel!Next
    <3> QED BY <1>1, <2>5, <3>1, BmcStep
  <2>6. CASE UNCHANGED vars
    <3>1. ChannelStep
      BY <2>6, StutterStep DEF vars, reading
    <3> QED
      BY <1>1, <2>6, <3>1 DEF vars, host, reading, HostType, ReadType, PartialType, SendInv,
         ReadInv, InStep, rep
  <2> QED BY <2>1, <2>2, <2>3, <2>4, <2>5, <2>6 DEF Next, Host
<1>3. Channel!TypeOK'
  BY <1>1, <1>2, ChannelType
<1> QED BY <1>2, <1>3, TypePartsNext DEF IInv

\* The invariant holds at first.
LEMMA InitInv == Init => IInv
<1> SUFFICES ASSUME Init PROVE IInv
  OBVIOUS
<1>1. <<>> \in Seq(Bytes) /\ Len(<<>>) = 0 /\ <<>> \in Seq(Requests)
        /\ <<>> \in Seq(Channel!Answers)
  OBVIOUS
<1>2. HostType /\ ReadType /\ PartialType
  BY <1>1, ConstFacts DEF Init, HostType, ReadType, PartialType, Faults
<1>3. Channel!TypeOK
  BY <1>1 DEF Init, Channel!Init, Channel!TypeOK
<1> QED BY <1>2, <1>3, TypeParts DEF Init, IInv, SendInv, ReadInv

\* The inductive invariant holds.
LEMMA Invariance == Spec => []IInv
BY InitInv, StepInv, PTL DEF Spec
-------------------------------------------------------------------------------
(***************************************************************************)
(* Theorems.                                                               *)
(***************************************************************************)

\* TypeOK: what ReceiveBmcDataFromPort copies never exceeds the buffer, though
\* the size of a block is computed in a UINT8 (lines 199-205), and no more of a
\* message goes out than there is.
THEOREM TypeCorrect == Spec => []TypeOK
<1>1. IInv => TypeOK
  BY DEF IInv
<1> QED BY <1>1, Invariance, PTL

\* SendDelivers: EFI_SUCCESS from SendDataToBmcPort means that the BMC has the
\* whole message, for every length and every block size.
THEOREM SendCorrect == Spec => SendDelivers
<1>1. IInv /\ [Next]_vars =>
        [pc = "write" /\ pc' = "idle" /\ outcome' = "ok" => inbox' = Append(inbox, msg)]_vars
  <2> SUFFICES ASSUME IInv, Next, pc = "write", pc' = "idle", outcome' = "ok"
               PROVE  inbox' = Append(inbox, msg)
    BY DEF vars
  <2>1. HostType /\ SendInv
    BY TypeParts DEF IInv
  <2>2. WriteBlock
    BY DEF Next, SendDataToBmcPort, ReceiveBmcDataFromPort, Host, ReadBlock, ReadFails, Bmc, host
  <2>3. /\ BmcWrites(SMBusCmd, SubSeq(msg, DataOffset + 1, DataOffset + WriteSize))
        /\ ~ (Len(msg) - (DataOffset + WriteSize) > 0)
    BY <2>2 DEF WriteBlock, Return
  <2>4. DataOffset < Len(msg) /\ DataOffset + WriteSize \in Nat /\ Len(msg) \in Nat
    BY <2>1, MsgType, WriteSizeFacts DEF SendInv
  <2> QED BY <2>1, <2>3, <2>4, BmcGets
<1> QED BY <1>1, Invariance, PTL DEF Spec, SendDelivers

\* FaultsRefused: ReceiveBmcDataFromPort returns EFI_SUCCESS for no repeated block
\* and for none too short for its number, and for a skipped one only if it is
\* the one before the last, at every block and buffer size.
THEOREM FaultsAreRefused == Spec => FaultsRefused
<1>1. IInv /\ [Next]_vars =>
        [pc = "read" /\ pc' = "idle" /\ outcome' = "ok" =>
           /\ fault' \notin {"repeat", "short"}
           /\ fault' = "skip" => Data' = SubSeq(rep, 1, Len(rep) - LastSize - Chunk)
                                           \o SubSeq(rep, Len(rep) - LastSize + 1, Len(rep))]_vars
  <2> SUFFICES ASSUME IInv, Next, pc = "read", pc' = "idle", outcome' = "ok"
               PROVE  /\ fault' \notin {"repeat", "short"}
                      /\ fault' = "skip" => Data' = SubSeq(rep, 1, Len(rep) - LastSize - Chunk)
                                               \o SubSeq(rep, Len(rep) - LastSize + 1, Len(rep))
    BY DEF vars
  <2>1. HostType /\ ReadType /\ Channel!TypeOK /\ ReadInv
    BY TypeParts DEF IInv
  <2>2. ReadBlock
    BY DEF Next, SendDataToBmcPort, ReceiveBmcDataFromPort, Host, WriteBlock, ReadFails, Return,
       Bmc, host
  <2>3. PICK c \in Offers : /\ BmcReads(c) /\ ~ OutOfOrder(c.b) /\ ~ TooSmall(c.b)
                            /\ Data' = Data \o c.b.data
    BY <2>2 DEF ReadBlock, Return
  <2>4. OfferType(c) /\ Taken(c)
    BY <2>1, <2>3, OfferGood DEF GoodOffer
  <2>5. fault' = IF c.fault = "none" THEN fault ELSE c.fault
    BY <2>1, <2>3, <2>4, BmcReadsFacts
  <2>6. fault \in {"none", "empty"}
    BY <2>1 DEF ReadInv
  <2> QED BY <2>3, <2>4, <2>5, <2>6 DEF Taken, SkipsOne
<1> QED BY <1>1, Invariance, PTL DEF Spec, FaultsRefused

\* ImplementsChannel: cut into blocks and put together again, with transactions
\* failing before or after the BMC saw them, messages and answers arrive whole
\* or not at all: the transport is the channel the generic layer relies on.
THEOREM SsifImplementsChannel == Spec => ImplementsChannel
<1>1. Init => Channel!Init
  BY DEF Init
<1>2. IInv /\ [Next]_vars => [Channel!Next]_(Channel!vars)
  BY StepInv DEF ChannelStep
<1> QED BY <1>1, <1>2, Invariance, PTL DEF Spec, ImplementsChannel, Channel!Spec
-------------------------------------------------------------------------------
(***************************************************************************)
(* Progress.  That a call returns needs fairness and stays with TLC; that  *)
(* it takes a bounded number of transactions does not.                     *)
(***************************************************************************)
\* A block for every byte that is left to send, or for every number a block of
\* the answer may still have, the first block and the last besides.
StepsLeft ==
  CASE pc = "idle"  -> 0
    [] pc = "write" -> Len(msg) - DataOffset
    [] pc = "read"  -> IF SMBusCmd = "READ" THEN LastBlock + 2 ELSE LastBlock + 1 - BlockNumber

\* What a step does to the steps left.
Bounded ==
  /\ Host => StepsLeft' < StepsLeft
  /\ StepsLeft \in Nat /\ (StepsLeft = 0 <=> pc = "idle")
  /\ StepsLeft' > StepsLeft =>
       pc = "idle" /\ StepsLeft' \in {Len(msg'), LastBlock + 2}

\* The steps left are a number, 0 between calls.
LEMMA StepsLeftType ==
  ASSUME HostType, SendInv
  PROVE  StepsLeft \in Nat /\ (StepsLeft = 0 <=> pc = "idle")
<1>1. CASE pc = "idle"
  BY <1>1 DEF StepsLeft
<1>2. CASE pc = "write"
  BY <1>2, MsgType DEF StepsLeft, SendInv, HostType
<1>3. CASE pc = "read"
  <2>1. BlockNumber \in 0..LastBlock /\ LastBlock \in Nat
    BY ConstFacts DEF HostType
  <2>2. StepsLeft = IF SMBusCmd = "READ" THEN LastBlock + 2 ELSE LastBlock + 1 - BlockNumber
    BY <1>3 DEF StepsLeft
  <2> QED BY <1>3, <2>1, <2>2
<1> QED BY <1>1, <1>2, <1>3 DEF HostType

\* A block that goes out leaves less of the message.
LEMMA WriteProgress ==
  ASSUME HostType, SendInv, WriteBlock
  PROVE  StepsLeft' \in Int /\ StepsLeft' < StepsLeft
<1>1. /\ pc = "write" /\ DataOffset < Len(msg) /\ DataOffset \in Nat /\ Len(msg) \in Nat
  BY MsgType DEF WriteBlock, SendInv, HostType
<1>2. CASE pc' = "idle"
  BY <1>1, <1>2 DEF StepsLeft
<1>3. CASE pc' = pc /\ msg' = msg /\ DataOffset' = DataOffset + WriteSize
  BY <1>1, <1>3, WriteSizeFacts DEF StepsLeft
<1> QED BY <1>2, <1>3 DEF WriteBlock, Return

\* The blocks of a long answer after the first one say that they are such, and
\* the first one does not.
LEMMA KindOfOffer ==
  ASSUME NEW c \in Offers
  PROVE  /\ SMBusCmd = "READ" => c.b.kind # "part"
         /\ SMBusCmd # "READ" => c.b.kind = "part"
<1>1. CASE SMBusCmd = "READ"
  BY <1>1 DEF Offers, FirstOffer, FirstBlock, Block
<1>2. CASE SMBusCmd # "READ"
  <2>1. PICK f \in PossibleFaults : c = PartOffer(f)
    BY <1>2 DEF Offers
  <2>2. f \in Faults
    BY DEF PossibleFaults
  <2> QED BY <1>2, <2>1, <2>2 DEF Faults, PartOffer, PartBlock, Block
<1> QED BY <1>1, <1>2

\* A block that is read ends the call, or is the first, or has the number that
\* was due, which is not the last.
LEMMA ReadProgress ==
  ASSUME HostType, ReadBlock
  PROVE  StepsLeft' \in Int /\ StepsLeft' < StepsLeft
<1>1. pc = "read" /\ BlockNumber \in 0..LastBlock /\ LastBlock \in Nat
  BY ConstFacts DEF ReadBlock, HostType
<1>2. CASE pc' = "idle"
  BY <1>1, <1>2 DEF StepsLeft
<1>3. ASSUME NEW c \in Offers, ~ OutOfOrder(c.b), ~ Done(c.b), pc' = pc, SMBusCmd' = "MULT_READ",
             BlockNumber' = IF c.b.kind = "multi" THEN 0 ELSE Following(c.b.number)
      PROVE  StepsLeft' \in Int /\ StepsLeft' < StepsLeft
  <2>1. CASE SMBusCmd = "READ"
    <3>1. BlockNumber' \in 0..LastBlock
      <4>1. c.b.kind = "multi"
        BY <1>3, <2>1, KindOfOffer DEF Offers, FirstOffer, FirstBlock, Block, Done
      <4> QED BY <1>1, <1>3, <4>1
    <3> QED BY <1>1, <1>3, <2>1, <3>1 DEF StepsLeft
  <2>2. CASE SMBusCmd # "READ"
    <3>1. c.b.kind = "part" /\ c.b.number = BlockNumber /\ c.b.number # LastBlock
      BY <1>3, <2>2, KindOfOffer DEF OutOfOrder, Done
    <3>2. BlockNumber' = BlockNumber + 1
      BY <1>1, <1>3, <3>1, FollowingNext
    <3> QED BY <1>1, <1>3, <2>2, <3>2 DEF StepsLeft
  <2> QED BY <2>1, <2>2
<1> QED BY <1>2, <1>3 DEF ReadBlock, Return

\* The transactions of a call are bounded, whatever the BMC answers: blocks that
\* bring nothing and come without end have run out of numbers after LastBlock of
\* them (lines 186-193), and every block that goes out takes bytes along.
THEOREM CallBounded == Spec => [][Bounded]_vars
<1>1. IInv /\ [Next]_vars => [Bounded]_vars
  <2> SUFFICES ASSUME IInv, Next PROVE Bounded
    OBVIOUS
  <2>1. HostType /\ SendInv /\ StepsLeft \in Nat /\ (StepsLeft = 0 <=> pc = "idle")
    BY TypeParts, StepsLeftType DEF IInv
  <2>2. Host => StepsLeft' \in Int /\ StepsLeft' < StepsLeft
    <3>1. ReadFails => StepsLeft' \in Int /\ StepsLeft' < StepsLeft
      <4> SUFFICES ASSUME ReadFails PROVE StepsLeft' \in Int /\ StepsLeft' < StepsLeft
        OBVIOUS
      <4>1. pc = "read" /\ pc' = "idle"
        BY DEF ReadFails, Return
      <4> QED BY <2>1, <4>1 DEF StepsLeft
    <3> QED BY <2>1, <3>1, WriteProgress, ReadProgress DEF Host
  <2>3. StepsLeft' > StepsLeft =>
          pc = "idle" /\ StepsLeft' \in {Len(msg'), LastBlock + 2}
    <3>1. CASE Host
      BY <2>1, <2>2, <3>1
    <3>2. CASE Bmc
      <4>1. StepsLeft' = StepsLeft
        BY <3>2 DEF Bmc, host, StepsLeft
      <4> QED BY <2>1, <4>1
    <3>3. CASE \E m \in Requests \cup {<<>>} : SendDataToBmcPort(m)
      <4>1. /\ pc = "idle"
            /\ pc' = "idle" \/ (pc' = "write" /\ DataOffset' = 0 /\ msg' \in Requests)
        BY <3>3 DEF SendDataToBmcPort, Return
      <4>2. pc' = "write" => Len(msg') \in Nat
        BY <4>1, MessageType
      <4>3. pc' = "write" => StepsLeft' = Len(msg')
        BY <4>1, <4>2 DEF StepsLeft
      <4>4. pc' = "idle" => StepsLeft' = StepsLeft
        BY <4>1 DEF StepsLeft
      <4> QED BY <2>1, <4>1, <4>3, <4>4
    <3>4. CASE ReceiveBmcDataFromPort
      <4>1. pc = "idle" /\ (pc' = "idle" \/ (pc' = "read" /\ SMBusCmd' = "READ"))
        BY <3>4 DEF ReceiveBmcDataFromPort, Return
      <4>2. pc' = "read" => StepsLeft' = LastBlock + 2
        BY <4>1 DEF StepsLeft
      <4>3. pc' = "idle" => StepsLeft' = StepsLeft
        BY <4>1 DEF StepsLeft
      <4> QED BY <2>1, <4>1, <4>2, <4>3
    <3> QED BY <3>1, <3>2, <3>3, <3>4 DEF Next
  <2> QED BY <2>1, <2>2, <2>3 DEF Bounded
<1> QED BY <1>1, Invariance, PTL DEF Spec
===============================================================================
