--------------------------------- MODULE Ssif ---------------------------------
(***************************************************************************)
(* Library/IpmiTransportLibSsif/Ssif.c: messages cut into SMBus blocks and *)
(* put together again.  One host step is one SMBus transaction with the    *)
(* code up to the next one; BmcSmbusClose belongs to the step that returns.*)
(*                                                                         *)
(* The SMBus library and the BMC are not in this repository.  Any          *)
(* transaction may fail, before or after the BMC saw it, and in the blocks *)
(* of one answer the BMC may repeat or skip one, send empty ones, or one   *)
(* that has not even its number.  The first block of an answer has the two *)
(* bytes that line 165 looks at.                                           *)
(***************************************************************************)
EXTENDS Integers, Sequences, SequencesExt

CONSTANTS
  Requests,     \* byte sequences the host sends
  Replies,      \* byte sequences the BMC answers
  WriteMax,     \* SSIF_MAX_WRITE_SIZE
  ReadMax,      \* SSIF_MAX_READ_SIZE
  BufferSize,   \* *DataSize of ReceiveBmcDataFromPort
  ByteRange,    \* values of a UINT8
  LastBlock,    \* the block number 0xFF
  MaxInFlight,  \* bound: messages the BMC holds
  NoAnswer

Bytes == UNION {Range(m) : m \in Requests \cup Replies}

\* A block fits a UINT8, and the data of an answer that fills the buffer comes in
\* fewer blocks than there are numbers for: ReadMax is 32, BufferSize 254 and
\* LastBlock 0xFF.
ASSUME BlockAssumption ==
  /\ WriteMax \in Nat \ {0} /\ ReadMax \in Nat /\ ReadMax > 2
  /\ ByteRange \in Nat /\ LastBlock \in Nat /\ BufferSize \in Nat
  /\ ReadMax < ByteRange /\ BufferSize < ByteRange - 1
  /\ BufferSize < ReadMax - 2 + (LastBlock - 1) * (ReadMax - 1)
  /\ \A m \in Requests : m \in Seq(Bytes) /\ m # <<>>
  /\ \A r \in Replies : r \in Seq(Bytes)

VARIABLES
  pc,         \* "idle", "write" or "read"
  outcome,    \* what the last call returned
  msg, DataOffset,     \* the message being sent and how much of it is
  SMBusCmd,
  Data,       \* what ReceiveBmcDataFromPort has copied; its length is the offset there
  BlockNumber,
  partial,    \* the BMC: blocks of an unfinished message, or NoAnswer
  inbox, outbox,       \* the BMC: messages to answer, answers to be read
  position,   \* the BMC: bytes of Head(outbox) that went out
  block,      \* the BMC: number of the next block
  fault,      \* history: what the BMC did wrong in this receive
  taken       \* history: the answer received last

host == <<pc, outcome, msg, DataOffset, SMBusCmd, Data, BlockNumber>>
reading == <<outbox, position, block, fault, taken>>
vars == <<host, partial, inbox, reading>>

Channel == INSTANCE BmcChannel

WriteCommands == {"WRITE", "MULT_WRITE_START", "MULT_WRITE_MIDDLE", "MULT_WRITE_END"}

Faults == {"none", "repeat", "skip", "empty", "short"}

TypeOK ==
  /\ pc \in {"idle", "write", "read"} /\ outcome \in {"ok", "error"}
  /\ msg \in Requests \cup {<<>>} /\ DataOffset \in 0..Len(msg)
  /\ SMBusCmd \in WriteCommands \cup {"READ", "MULT_READ"}
  /\ Len(Data) <= BufferSize /\ BlockNumber \in 0..LastBlock
  /\ block \in 0..LastBlock /\ position \in Nat
  /\ fault \in Faults
  /\ partial # NoAnswer => \E m \in Requests : IsPrefix(partial, m)
  /\ Channel!TypeOK

Init ==
  /\ pc = "idle" /\ outcome = "ok"
  /\ msg = <<>> /\ DataOffset = 0 /\ SMBusCmd = "READ" /\ Data = <<>> /\ BlockNumber = 0
  /\ partial = NoAnswer
  /\ Channel!Init
  /\ position = 0 /\ block = 0 /\ fault = "none"

\* A call returns and its locals are gone.
Return(o) ==
  /\ pc' = "idle" /\ outcome' = o
  /\ msg' = <<>> /\ DataOffset' = 0 /\ SMBusCmd' = "READ" /\ BlockNumber' = 0
-------------------------------------------------------------------------------
(***************************************************************************)
(* SendDataToBmcPort.                                                      *)
(***************************************************************************)
\* An empty message is refused, and BmcSmbusOpen may fail.
SendDataToBmcPort(m) ==
  /\ pc = "idle"
  /\ \/ /\ m # <<>>
        /\ pc' = "write" /\ msg' = m /\ DataOffset' = 0
        /\ SMBusCmd' = IF Len(m) > WriteMax THEN "MULT_WRITE_START" ELSE "WRITE"
        /\ UNCHANGED <<outcome, BlockNumber>>
     \/ Return("error")
  /\ UNCHANGED <<Data, partial, inbox, reading>>

\* The BMC gets a block (external).
BmcWrites(cmd, data) ==
  LET whole == IF cmd = "WRITE" THEN data ELSE partial \o data
  IN  \/ /\ cmd = "MULT_WRITE_START"
         /\ partial' = data
         /\ UNCHANGED inbox
      \/ /\ cmd = "MULT_WRITE_MIDDLE" /\ partial # NoAnswer
         /\ partial' = partial \o data
         /\ UNCHANGED inbox
      \/ /\ cmd = "WRITE" \/ (cmd = "MULT_WRITE_END" /\ partial # NoAnswer)
         /\ Len(inbox) + Len(outbox) < MaxInFlight
         /\ partial' = NoAnswer
         /\ inbox' = Append(inbox, whole)

NextWriteCmdEnds(cmd, RemainingSize) ==
  IF cmd = "MULT_WRITE_START" THEN "MULT_WRITE_END" ELSE cmd

NextWriteCmdLate(cmd, RemainingSize) ==
  LET c == IF cmd = "MULT_WRITE_START" THEN "MULT_WRITE_MIDDLE" ELSE cmd
  IN  IF c = "MULT_WRITE_MIDDLE" /\ RemainingSize < WriteMax THEN "MULT_WRITE_END" ELSE c

\* Lines 89-101: the last block of a long message, full or not, is an END.
NextWriteCmd(cmd, RemainingSize) ==
  LET c == IF cmd = "MULT_WRITE_START" THEN "MULT_WRITE_MIDDLE" ELSE cmd
  IN  IF c = "MULT_WRITE_MIDDLE" /\ RemainingSize <= WriteMax THEN "MULT_WRITE_END" ELSE c

WriteSize == IF Len(msg) - DataOffset < WriteMax THEN Len(msg) - DataOffset ELSE WriteMax

WriteBlock ==
  LET data == SubSeq(msg, DataOffset + 1, DataOffset + WriteSize)
      RemainingSize == Len(msg) - (DataOffset + WriteSize)
  IN  /\ pc = "write"
      /\ \/ /\ BmcWrites(SMBusCmd, data)
            /\ IF RemainingSize > 0
               THEN /\ DataOffset' = DataOffset + WriteSize
                    /\ SMBusCmd' = NextWriteCmd(SMBusCmd, RemainingSize)
                    /\ UNCHANGED <<pc, outcome, msg, BlockNumber>>
               ELSE Return("ok")
         \/ /\ BmcWrites(SMBusCmd, data) \/ UNCHANGED <<partial, inbox>>
            /\ Return("error")
      /\ UNCHANGED <<Data, reading>>
-------------------------------------------------------------------------------
(***************************************************************************)
(* ReceiveBmcDataFromPort.                                                 *)
(***************************************************************************)
ReceiveBmcDataFromPort ==
  /\ pc = "idle"
  /\ Data' = <<>>
  /\ position' = 0 /\ block' = 0 /\ fault' = "none"
  /\ \/ /\ pc' = "read" /\ SMBusCmd' = "READ"
        /\ UNCHANGED <<outcome, msg, DataOffset, BlockNumber>>
     \/ Return("error")
  /\ UNCHANGED <<partial, inbox, outbox, taken>>

rep == Head(outbox).rep

\* Bytes that fit the block after its number.
Chunk == ReadMax - 1

\* BlockDataOffset: the bytes 0 and 1 that announce a long answer, the number of
\* each of its later blocks.
BlockDataOffset(kind) == CASE kind = "single" -> 0 [] kind = "multi" -> 2 [] kind = "part" -> 1

Block(kind, number, data) ==
  [kind |-> kind, number |-> number, data |-> data, size |-> BlockDataOffset(kind) + Len(data)]

FirstBlock == IF Len(rep) <= ReadMax THEN Block("single", 0, rep)
              ELSE Block("multi", 0, SubSeq(rep, 1, ReadMax - 2))

\* The block of a long answer that begins after the first p bytes.
PartBlock(p, number) ==
  IF Len(rep) - p <= Chunk THEN Block("part", LastBlock, SubSeq(rep, p + 1, Len(rep)))
  ELSE Block("part", number, SubSeq(rep, p + 1, p + Chunk))

\* BlockBuffer[0] + 1 in a UINT8 whose largest value is LastBlock.
Following(number) == (number + 1) % (LastBlock + 1)

\* The blocks the BMC may answer with (external), each with the fault it is and
\* what the BMC takes for read after it.  A block without a number leaves the
\* one of the block before in BlockBuffer.
FirstOffer ==
  [b |-> FirstBlock, position |-> Len(FirstBlock.data), block |-> 0, fault |-> "none"]

PartOffer(f) ==
  CASE f = "none"   -> [b |-> PartBlock(position, block), position |-> position + Chunk,
                        block |-> Following(block), fault |-> f]
    [] f = "repeat" -> [b |-> PartBlock(position - Chunk, block - 1), position |-> position,
                        block |-> block, fault |-> f]
    [] f = "skip"   -> [b |-> PartBlock(position + Chunk, block + 1), position |-> position + 2 * Chunk,
                        block |-> block + 2, fault |-> f]
    [] f = "empty"  -> [b |-> Block("part", block, <<>>), position |-> position,
                        block |-> Following(block), fault |-> f]
    [] f = "short"  -> [b |-> [kind |-> "part", data |-> <<>>, size |-> 0,
                               number |-> IF BlockNumber = 0 THEN 0 ELSE BlockNumber - 1],
                        position |-> position, block |-> block, fault |-> f]

\* One kind of fault in a receive, and a repeated or skipped block is one there is.
PossibleFaults ==
  {f \in Faults :
     /\ f = "none" \/ fault \in {"none", f}
     /\ f = "repeat" => block > 0 /\ fault = "none"
     /\ f = "skip" => position + Chunk < Len(rep) /\ fault = "none"}

Offers ==
  IF outbox = <<>> THEN {}
  ELSE IF SMBusCmd = "READ" THEN {FirstOffer}
  ELSE IF position = 0 THEN {}
  ELSE {PartOffer(f) : f \in PossibleFaults}

\* The BMC's side of a read: an answer that went out whole is done with.
BmcReads(c) ==
  /\ fault' = IF c.fault = "none" THEN fault ELSE c.fault
  /\ block' = c.block
  /\ IF c.position >= Len(rep)
     THEN outbox' = Tail(outbox) /\ position' = 0
     ELSE position' = c.position /\ UNCHANGED outbox

\* Line 189: only the number of a block that is not the last is looked at.
OutOfOrder(b) == b.kind = "part" /\ b.number # LastBlock /\ b.number # BlockNumber

BlockDataSizeSigned(b) == b.size - BlockDataOffset(b.kind)

\* Line 199, in a UINT8.
BlockDataSize(b) == (b.size - BlockDataOffset(b.kind)) % ByteRange

TooSmallLate(b) == Len(Data) + BlockDataSize(b) > BufferSize + 1

TooSmall(b) == Len(Data) + BlockDataSize(b) > BufferSize

DoneUnlessPart(b) == b.kind = "single"

Done(b) == b.kind = "single" \/ (b.kind = "part" /\ b.number = LastBlock)

ReadBlock ==
  /\ pc = "read"
  /\ \E c \in Offers :
       /\ BmcReads(c)
       /\ \/ /\ OutOfOrder(c.b) \/ TooSmall(c.b)
             /\ Return("error")
             /\ UNCHANGED <<Data, taken>>
          \/ /\ ~ OutOfOrder(c.b) /\ ~ TooSmall(c.b)
             /\ Data' = Data \o c.b.data
             /\ IF Done(c.b)
                THEN Return("ok")
                ELSE /\ SMBusCmd' = "MULT_READ"
                     /\ BlockNumber' = IF c.b.kind = "multi" THEN 0 ELSE Following(c.b.number)
                     /\ UNCHANGED <<pc, outcome, msg, DataOffset>>
             /\ taken' = IF Done(c.b) /\ fault' = "none"
                         THEN [req |-> Head(outbox).req, rep |-> Data'] ELSE taken
  /\ UNCHANGED <<partial, inbox>>

\* BmcSmbusBlockRead fails; the BMC may have sent the block.
ReadFails ==
  /\ pc = "read"
  /\ (\E c \in Offers : BmcReads(c)) \/ UNCHANGED <<outbox, position, block, fault>>
  /\ Return("error")
  /\ UNCHANGED <<Data, partial, inbox, taken>>

Host == WriteBlock \/ ReadBlock \/ ReadFails

\* The BMC answers a message, forgets one, or an answer (external).
Bmc ==
  /\ Channel!Bmc
  /\ position' = IF outbox # <<>> /\ outbox' = Tail(outbox) THEN 0 ELSE position
  /\ UNCHANGED <<host, partial, block, fault>>

Next ==
  \/ \E m \in Requests \cup {<<>>} : SendDataToBmcPort(m)
  \/ ReceiveBmcDataFromPort
  \/ Host
  \/ Bmc

Spec == Init /\ [][Next]_vars

FairSpec == Spec /\ WF_vars(Host)
-------------------------------------------------------------------------------
(***************************************************************************)
(* Properties.                                                             *)
(***************************************************************************)

\* A transport for GenericIpmi: the BMC gets whole messages of the host, and an
\* answer received without a fault of the BMC is one it gave, byte for byte.
ImplementsChannel == Channel!Spec

\* EFI_SUCCESS from SendDataToBmcPort means that the message went out as one the
\* BMC has whole, at every length up to, at and over a multiple of the block
\* size (lines 77-102).
SendDelivers ==
  [][pc = "write" /\ pc' = "idle" /\ outcome' = "ok" => inbox' = Append(inbox, msg)]_vars

\* The size of a long answer's last block.
LastSize == ((Len(rep) - ReadMax + 1) % Chunk) + 1

\* Whatever is wrong with its blocks, ReceiveBmcDataFromPort returns EFI_SUCCESS
\* neither for a repeated block nor for one too short for its number: the size
\* that underflows in line 199 exceeds the buffer.  A skipped block goes
\* unnoticed only if it is the one before the last, which has no number of its
\* own (line 186): all else of the answer is there.
FaultsRefused ==
  [][pc = "read" /\ pc' = "idle" /\ outcome' = "ok" =>
       /\ fault' \notin {"repeat", "short"}
       /\ fault' = "skip" => Data' = SubSeq(rep, 1, Len(rep) - LastSize - Chunk)
                                       \o SubSeq(rep, Len(rep) - LastSize + 1, Len(rep))]_vars

\* Every call returns, even if the BMC sends empty blocks without end: their
\* number gets to 0xFF.
CallReturns == pc # "idle" ~> pc = "idle"
===============================================================================
