------------------------- MODULE KcsTransport_proofs -------------------------
(***************************************************************************)
(* Theorems about KcsTransport and KcsSmi, for every set of messages and   *)
(* answers and every buffer size, wherever either side gives up, errs or   *)
(* restarts, and wherever an SMI hits the driver.                          *)
(***************************************************************************)
EXTENDS KcsSmi, SequenceTheorems, TLAPS

AbortLoops == {"abortIbf", "abortCmd", "abortZero", "abortObf", "abortRead", "abortDone"}

Cmd(c) == [reg |-> "cmd", byte |-> c]

Pending(c) == ibf /\ din = Cmd(c)

\* What is left of the message when k bytes of it were written.
Rest(k) == SubSeq(msg, k + 1, Len(msg))

\* The BMC alone: its state follows its mode, and it holds an answer only when
\* it has executed a request.
StateOf(m) ==
  CASE m \in {"write", "writeEnd", "abort1"} -> "Write"
    [] m \in {"exec", "read", "abort2"} -> "Read"
    [] m = "idle" -> "Idle"
    [] m = "error" -> "Error"

BmcInv ==
  /\ state = StateOf(mode)
  /\ answer # NoAnswer => mode \in {"read", "idle", "error"}

\* What it is given to execute is a whole request.
WholeInv ==
  /\ collected \in Seq(Bytes)
  /\ mode = "exec" => collected \in Requests
  /\ mode \in {"write", "writeEnd"} /\ ibf /\ din.reg = "data" => din.byte \in Bytes
  /\ mode = "writeEnd" /\ ibf /\ din.reg = "data" => Append(collected, din.byte) \in Requests

\* What a poll that has ended still says: the input register is empty, and
\* meanwhile the BMC can only have erred or restarted, or have begun to answer.
PollInv ==
  /\ pc = "idle" => polled = "none"
  /\ polled # "none" \/ pc \in {"checkObf", "abortObf", "abortDone"} => ~ ibf
  /\ polled = "Write" => mode \in {"write", "writeEnd", "abort1", "idle", "error"}
  /\ polled = "Read" => mode \in {"exec", "read", "abort2", "idle", "error"}
  /\ polled \in {"Idle", "Error"} => mode \in {"idle", "error"}
  /\ pc = "checkObf" /\ ~ Idle => mode \in {"exec", "read", "abort2", "idle", "error"}
  /\ pc = "checkObf" /\ Idle => mode \in {"idle", "error"}

\* Where the host is within the two port functions.
HostInv ==
  /\ pc # "idle" <=> outcome = "none"
  /\ op = "send" => cont # "read" /\ Data = <<>> /\ pc # "checkObf"
  /\ op = "receive" /\ pc # "idle" => cont = "read" /\ pc # "start" /\ caller # "start"
  /\ op = "send" /\ pc # "idle" =>
       /\ sent < Len(msg)
       /\ cont = "first" => sent = 0
       /\ cont = "end" => sent = Len(msg) - 1
       /\ pc = "start" \/ (pc \in AbortLoops /\ caller = "start") => cont = "first"

\* Once ABORT is written nothing of the exchange before survives its arrival.
AbortInv ==
  /\ pc \in AbortLoops \ {"abortIbf"} =>
       \/ pc = "abortCmd" /\ Pending("ABORT")
       \/ /\ mode \in {"idle", "error", "abort1", "abort2"}
          /\ answer = NoAnswer
          /\ ibf => din.reg = "data"
  /\ pc = "abortDone" => mode \in {"idle", "error"}
  /\ pc = "abortIbf" /\ caller = "check" => ~ ibf /\ mode \in {"idle", "error"}

\* In the middle of a message: WRITE_START is on its way; or the BMC has just
\* the bytes that were written; or it has lost the message and will refuse it.
InMessage == op = "send" /\ pc = "checkIbf"

Beginning == cont = "first" /\ polled = "none" /\ Pending("WRITE_START")

Collecting ==
  /\ answer = NoAnswer /\ collected \in Seq(Bytes)
  /\ \/ /\ mode = "write" /\ ~ ibf /\ collected \o Rest(sent) = msg
        /\ ~ (cont = "byte" /\ sent = Len(msg) - 1)
     \/ /\ mode = "write" /\ ibf /\ din.reg = "data" /\ din.byte \in Bytes /\ cont # "first"
        /\ Append(collected, din.byte) \o Rest(sent) = msg
        /\ ~ (cont = "byte" /\ sent = Len(msg) - 1)
     \/ /\ mode = "write" /\ Pending("WRITE_END") /\ collected \o Rest(sent) = msg
        /\ cont = "byte" /\ sent = Len(msg) - 1
     \/ /\ mode = "writeEnd" /\ ~ ibf /\ collected \o Rest(sent) = msg
        /\ cont = "byte" /\ sent = Len(msg) - 1

Refusing ==
  /\ mode \in {"idle", "error"} /\ answer = NoAnswer /\ disturbed
  /\ ibf => din.reg = "data" \/ din = Cmd("WRITE_END")

SendInv ==
  /\ InMessage => Beginning \/ Collecting \/ Refusing
  /\ op = "send" /\ pc \in AbortLoops /\ caller = "check" => disturbed

\* The message is written, and its answer read so far: the BMC has the message,
\* or executes it; or what it has put out is what the host has read, but for
\* the byte in the data port; or the dummy byte is out, and the host has the
\* answer; or all is lost, and no dummy byte will come.
Written ==
  \/ pc = "idle" /\ op = "send" /\ outcome = "ok"
  \/ op = "receive" /\ pc \in {"checkIbf", "checkObf"}

LastByte ==
  /\ mode = "writeEnd" /\ ibf /\ din.reg = "data" /\ Append(collected, din.byte) = msg
  /\ ~ obf /\ Data = <<>>

Executing ==
  /\ mode = "exec" /\ ~ ibf /\ collected = msg /\ ~ obf /\ Data = <<>>
  /\ pc = "checkObf" => polled = "none"

Answering ==
  /\ mode = "read" /\ collected = msg /\ answer # NoAnswer
  /\ \/ obf /\ ~ ibf /\ answer = [req |-> msg, rep |-> Append(Data, dout) \o remaining]
     \/ /\ ~ obf /\ ibf /\ din = [reg |-> "data", byte |-> "READ"] /\ pc # "idle"
        /\ answer = [req |-> msg, rep |-> Data \o remaining]

Answered ==
  /\ mode \in {"idle", "error"} /\ ~ ibf /\ pc # "idle"
  /\ answer = [req |-> msg, rep |-> Data] /\ answer # NoAnswer
  /\ polled \in {"none", "Idle", "Error"}
  /\ pc = "checkObf" => Idle

Lost ==
  /\ mode \in {"idle", "error"} /\ answer = NoAnswer
  /\ ibf => din.reg = "data"
  /\ mode = "idle" \/ polled = "Idle" \/ (pc = "checkObf" /\ Idle) => ~ obf
  /\ pc = "checkObf" /\ Idle => polled = "none"
  /\ op = "send" => disturbed

ReceiveInv == Written => LastByte \/ Executing \/ Answering \/ Answered \/ Lost

-------------------------------------------------------------------------------
(***************************************************************************)
(* Sequences.                                                              *)
(***************************************************************************)

\* An index into a message gives a byte.
LEMMA ByteOf ==
  ASSUME NEW m \in Requests, NEW k \in 1..Len(m)
  PROVE  m[k] \in Bytes
BY MessageAssumption

\* Moving the first element of t to the end of s leaves what they spell.
LEMMA MoveByte ==
  ASSUME NEW s \in Seq(Bytes), NEW t \in Seq(Bytes), t # <<>>
  PROVE  /\ Append(s, Head(t)) \o Tail(t) = s \o t
         /\ Head(t) \in Bytes /\ Tail(t) \in Seq(Bytes)
OBVIOUS

\* The empty sequence spells nothing.
LEMMA ConcatEmpty ==
  ASSUME NEW s \in Seq(Bytes)
  PROVE  s \o <<>> = s /\ <<>> \o s = s
OBVIOUS

\* Writing the next byte of the message leaves what the two sides spell.
LEMMA RestMoves ==
  ASSUME NEW m \in Seq(Bytes), NEW k \in Nat, k < Len(m), NEW s \in Seq(Bytes)
  PROVE  Append(s, m[k + 1]) \o SubSeq(m, k + 2, Len(m)) = s \o SubSeq(m, k + 1, Len(m))
<1> DEFINE t == SubSeq(m, k + 1, Len(m))
<1>1. t \in Seq(Bytes) /\ Len(t) = Len(m) - k /\ \A i \in 1..Len(t) : t[i] = m[k + i]
  OBVIOUS
<1>2. t # <<>> /\ Head(t) = m[k + 1]
  BY <1>1, SMTT(30)
<1>3. SubSeq(m, k + 2, Len(m)) = Tail(t)
  <2> HIDE DEF t
  <2>1. Tail(t) \in Seq(Bytes) /\ Len(Tail(t)) = Len(m) - k - 1
    BY <1>1, <1>2
  <2>2. \A i \in 1..Len(Tail(t)) : Tail(t)[i] = m[k + 1 + i]
    BY <1>1, <1>2, <2>1, SMTT(30)
  <2>3. /\ SubSeq(m, k + 2, Len(m)) \in Seq(Bytes)
        /\ Len(SubSeq(m, k + 2, Len(m))) = Len(m) - k - 1
        /\ \A i \in 1..(Len(m) - k - 1) : SubSeq(m, k + 2, Len(m))[i] = m[k + 1 + i]
    OBVIOUS
  <2> QED BY <2>1, <2>2, <2>3, SeqEqual
<1> HIDE DEF t
<1>4. Append(s, Head(t)) \o Tail(t) = s \o t
  BY <1>1, <1>2, MoveByte
<1> QED BY <1>2, <1>3, <1>4 DEF t

\* All of a message is left to write at first, nothing at the end.
LEMMA RestEnds ==
  ASSUME NEW m \in Seq(Bytes)
  PROVE  SubSeq(m, 1, Len(m)) = m /\ SubSeq(m, Len(m) + 1, Len(m)) = <<>>
OBVIOUS

\* A byte more.
LEMMA AppendType ==
  ASSUME NEW s \in Seq(Bytes), NEW b \in Bytes
  PROVE  Append(s, b) \in Seq(Bytes) /\ Len(Append(s, b)) = Len(s) + 1
OBVIOUS
-------------------------------------------------------------------------------
(***************************************************************************)
(* The types, in three parts, but for what the BMC has collected.          *)
(***************************************************************************)
HostType ==
  /\ pc \in PollLoops \cup {"idle"}
  /\ polled \in KcsStates \cup {"none"}
  /\ op \in {"send", "receive"}
  /\ outcome \in {"none", "ok", "error"}
  /\ msg \in Requests
  /\ sent \in 0..Len(msg)
  /\ Data \in Seq(Bytes) /\ Len(Data) <= BufferSize
  /\ cont \in {"first", "end", "byte", "read"}
  /\ caller \in {"start", "check", "port"}

FlagType ==
  /\ Idle \in BOOLEAN /\ staleIbf \in BOOLEAN /\ late \in BOOLEAN
  /\ ibf \in BOOLEAN /\ obf \in BOOLEAN /\ disturbed \in BOOLEAN

BmcType ==
  /\ state \in KcsStates
  /\ din \in [reg : {"cmd", "data"}, byte : Bytes \cup ControlCodes]
  /\ dout \in Bytes
  /\ mode \in {"idle", "write", "writeEnd", "exec", "read", "abort1", "abort2", "error"}
  /\ remaining \in Seq(Bytes)

\* All the parts together.
IInv ==
  /\ HostType /\ FlagType /\ BmcType
  /\ BmcInv /\ WholeInv
  /\ PollInv /\ HostInv /\ AbortInv /\ SendInv /\ ReceiveInv

\* The type invariant by its parts.
LEMMA TypeParts == TypeOK <=> HostType /\ FlagType /\ BmcType /\ collected \in Seq(Bytes)
BY DEF TypeOK, HostType, FlagType, BmcType

\* MessageAssumption, in the form the proofs use it.
LEMMA Constants == Zero \in Bytes /\ BufferSize \in Nat
<1>1. Zero \in Bytes
  BY DEF Bytes
<1> QED BY <1>1, MessageAssumption

\* The callers of KcsCheckStatus write and read bytes.
LEMMA ContinueType ==
  ASSUME HostType, dout \in Bytes,
         din \in [reg : {"cmd", "data"}, byte : Bytes \cup ControlCodes],
         cont # "read" => sent < Len(msg), NEW i, Continue(i), UNCHANGED <<op, msg>>,
         polled' \in KcsStates \cup {"none"}
  PROVE  HostType' /\ din' \in [reg : {"cmd", "data"}, byte : Bytes \cup ControlCodes]
<1>1. CASE ContinueFirst /\ UNCHANGED caller
  BY <1>1 DEF HostType, ContinueFirst, NextCheck, CallCheck, NoWrite, PollLoops
<1>2. CASE ContinueEnd /\ UNCHANGED caller
  BY <1>2 DEF HostType, ContinueEnd, CallCheck, WritePort, PollLoops, ControlCodes
<1>3. CASE cont = "byte" /\ ContinueByte /\ UNCHANGED caller
  <2>1. msg[sent + 1] \in Bytes /\ sent + 1 \in 0..Len(msg)
    BY <1>3, ByteOf, MessageAssumption DEF HostType
  <2>2. din' \in [reg : {"cmd", "data"}, byte : Bytes \cup ControlCodes]
    BY <1>3, <2>1 DEF ContinueByte, WritePort
  <2> QED BY <1>3, <2>1, <2>2 DEF HostType, ContinueByte, NextCheck, CallCheck, Return, PollLoops
<1>4. CASE ContinueReadDone /\ UNCHANGED caller
  BY <1>4 DEF HostType, ContinueReadDone, Return, NoWrite
<1>5. CASE ContinueReadByte
  <2>1. CASE Len(Data) >= BufferSize
    BY <1>5, <2>1 DEF HostType, ContinueReadByte, CallErrorExit, NoWrite, PollLoops
  <2>2. CASE ~ (Len(Data) >= BufferSize)
    <3>1. Data' = Append(Data, dout)
      BY <1>5, <2>2 DEF ContinueReadByte
    <3>2. Data' \in Seq(Bytes) /\ Len(Data') <= BufferSize
      BY <2>2, <3>1, AppendType, Constants DEF HostType
    <3> QED
      BY <1>5, <2>2, <3>2 DEF HostType, ContinueReadByte, CallCheck, WritePort, PollLoops,
         ControlCodes
  <2> QED BY <2>1, <2>2
<1> QED BY <1>1, <1>2, <1>3, <1>4, <1>5 DEF Continue

\* The types of the host's variables.
LEMMA HostTypeStep ==
  ASSUME HostType, BmcType, HostInv, [Next]_vars
  PROVE  HostType'
<1>1. ASSUME NEW m \in Requests, SendDataToBmcPort(m) PROVE HostType'
  BY MessageAssumption, AppendType, <1>1 DEF SendDataToBmcPort, host, bmc, HostType,
       PollLoops, KcsStates
<1>2. CASE ReceiveBmcDataFromPort
  BY MessageAssumption, AppendType, <1>2 DEF ReceiveBmcDataFromPort, CallCheck, host, bmc,
       HostType, PollLoops, KcsStates
<1>3. CASE Poll
  BY <1>3 DEF Poll, BmcType, HostType, bmc, PollLoops, KcsStates
<1>4. CASE StartReady
  BY MessageAssumption, AppendType, <1>4 DEF StartReady, PollEnded, WriteStart, WritePort,
       CallCheck, host, bmc, HostType, PollLoops, KcsStates
<1>5. CASE StartGivesUp
  BY MessageAssumption, AppendType, <1>5 DEF StartGivesUp, Polling, CallErrorExit, host,
       bmc, HostType, PollLoops, KcsStates
<1>6. CASE StartReadsFF
  BY MessageAssumption, AppendType, <1>6 DEF StartReadsFF, Polling, CallErrorExit, host,
       bmc, HostType, PollLoops, KcsStates
<1>7. CASE CheckIbfReady
  <2>1. CASE Continue(FALSE)
    BY <1>7, <2>1, ContinueType DEF CheckIbfReady, PollEnded, Expected, frame, BmcType, HostInv,
       HostType
  <2>2. CASE ~ Continue(FALSE)
    BY <1>7, <2>2 DEF CheckIbfReady, PollEnded, CallErrorExit, frame, HostType, PollLoops
  <2> QED BY <2>1, <2>2
<1>8. CASE CheckObfReady
  BY <1>8, ContinueType DEF CheckObfReady, PollEnded, frame, BmcType, HostInv, HostType
<1>9. CASE CheckGivesUp
  BY MessageAssumption, AppendType, <1>9 DEF CheckGivesUp, Polling, CallErrorExit, host,
       bmc, HostType, PollLoops, KcsStates
<1>10. CASE AbortIbfReady
  BY MessageAssumption, AppendType, <1>10 DEF AbortIbfReady, PollEnded, WritePort,
       hostInAbort, host, bmc, HostType, PollLoops, KcsStates
<1>11. CASE AbortCmdReady
  BY MessageAssumption, AppendType, <1>11 DEF AbortCmdReady, PollEnded, ReadPort,
       WritePort, hostInAbort, host, bmc, HostType, PollLoops, KcsStates
<1>12. CASE AbortZeroReady
  BY MessageAssumption, AppendType, <1>12 DEF AbortZeroReady, PollEnded, hostInAbort,
       AbortFails, Return, CallErrorExit, host, bmc, HostType, PollLoops, KcsStates
<1>13. CASE AbortObfReady
  BY MessageAssumption, AppendType, <1>13 DEF AbortObfReady, PollEnded, ReadPort,
       WritePort, hostInAbort, host, bmc, HostType, PollLoops, KcsStates
<1>14. CASE AbortReadReady
  BY MessageAssumption, AppendType, <1>14 DEF AbortReadReady, PollEnded, hostInAbort,
       AbortFails, Return, CallErrorExit, host, bmc, HostType, PollLoops, KcsStates
<1>15. CASE AbortDoneReady
  <2>1. CASE Continue(FALSE)
    BY <1>15, <2>1, ContinueType DEF AbortDoneReady, PollEnded, frame, BmcType, HostInv, HostType
  <2>2. CASE ~ Continue(FALSE)
    BY <1>15, <2>2 DEF AbortDoneReady, PollEnded, AbortSucceeds, WriteStart, CallCheck, Return,
       frame, HostType, PollLoops
  <2> QED BY <2>1, <2>2
<1>16. CASE AbortGivesUp
  BY MessageAssumption, AppendType, <1>16 DEF AbortGivesUp, Polling, AbortFails, Return,
       CallErrorExit, host, bmc, HostType, PollLoops, KcsStates
<1>17. CASE BmcCommand
  BY MessageAssumption, AppendType, <1>17 DEF BmcCommand, PutByte, host, bmc, HostType,
       PollLoops, KcsStates
<1>18. CASE BmcData
  BY MessageAssumption, AppendType, <1>18 DEF BmcData, PutByte, host, bmc, HostType,
       PollLoops, KcsStates
<1>19. CASE BmcExecute
  BY MessageAssumption, AppendType, <1>19 DEF BmcExecute, PutByte, host, bmc, HostType,
       PollLoops, KcsStates
<1>20. CASE BmcErrs
  BY MessageAssumption, AppendType, <1>20 DEF BmcErrs, host, bmc, HostType, PollLoops,
       KcsStates
<1>21. CASE BmcResets
  BY MessageAssumption, AppendType, <1>21 DEF BmcResets, DummySeen, host, bmc, HostType,
       PollLoops, KcsStates
<1>22. CASE UNCHANGED vars
  BY MessageAssumption, AppendType, <1>22 DEF vars, host, bmc, HostType, PollLoops,
       KcsStates
<1> QED BY <1>1, <1>2, <1>3, <1>4, <1>5, <1>6, <1>7, <1>8, <1>9, <1>10, <1>11, <1>12,
     <1>13, <1>14, <1>15, <1>16, <1>17, <1>18, <1>19, <1>20, <1>21, <1>22 DEF Next, Host

\* The flags of the interface and of the histories stay Booleans.
LEMMA FlagStep ==
  ASSUME FlagType, [Next]_vars
  PROVE  FlagType'
<1>1. ASSUME NEW m \in Requests, SendDataToBmcPort(m) PROVE FlagType'
  BY <1>1 DEF SendDataToBmcPort, host, bmc, FlagType
<1>2. CASE ReceiveBmcDataFromPort
  BY <1>2 DEF ReceiveBmcDataFromPort, CallCheck, host, bmc, FlagType
<1>3. CASE Poll
  BY <1>3 DEF Poll, Awaited, host, bmc, FlagType
<1>4. CASE StartReady
  BY <1>4 DEF StartReady, PollEnded, WriteStart, WritePort, CallCheck, host, bmc, FlagType
<1>5. CASE StartGivesUp
  BY <1>5 DEF StartGivesUp, Polling, CallErrorExit, host, bmc, FlagType
<1>6. CASE StartReadsFF
  BY <1>6 DEF StartReadsFF, Polling, CallErrorExit, host, bmc, FlagType
<1>7. CASE CheckIbfReady
  BY <1>7 DEF CheckIbfReady, PollEnded, Expected, ReadPort, CallErrorExit, NoWrite, frame,
       Continue, ContinueFirst, ContinueEnd, ContinueByte, ContinueReadDone,
       ContinueReadByte, NextCheck, CallCheck, Return, WritePort, host, bmc, FlagType
<1>8. CASE CheckObfReady
  BY <1>8 DEF CheckObfReady, PollEnded, CallErrorExit, NoWrite, frame, Continue,
       ContinueFirst, ContinueEnd, ContinueByte, ContinueReadDone, ContinueReadByte,
       NextCheck, CallCheck, Return, WritePort, host, bmc, FlagType
<1>9. CASE CheckGivesUp
  BY <1>9 DEF CheckGivesUp, Polling, CallErrorExit, host, bmc, FlagType
<1>10. CASE AbortIbfReady
  BY <1>10 DEF AbortIbfReady, PollEnded, WritePort, hostInAbort, host, bmc, FlagType
<1>11. CASE AbortCmdReady
  BY <1>11 DEF AbortCmdReady, PollEnded, ReadPort, WritePort, hostInAbort, host, bmc,
       FlagType
<1>12. CASE AbortZeroReady
  BY <1>12 DEF AbortZeroReady, PollEnded, hostInAbort, AbortFails, Return, CallErrorExit,
       host, bmc, FlagType
<1>13. CASE AbortObfReady
  BY <1>13 DEF AbortObfReady, PollEnded, ReadPort, WritePort, hostInAbort, host, bmc,
       FlagType
<1>14. CASE AbortReadReady
  BY <1>14 DEF AbortReadReady, PollEnded, hostInAbort, AbortFails, Return, CallErrorExit,
       host, bmc, FlagType
<1>15. CASE AbortDoneReady
  BY <1>15 DEF AbortDoneReady, PollEnded, ReadPort, AbortSucceeds, WriteStart,
       CallErrorExit, NoWrite, frame, Continue, ContinueFirst, ContinueEnd, ContinueByte,
       ContinueReadDone, ContinueReadByte, NextCheck, CallCheck, Return, WritePort, host,
       bmc, FlagType
<1>16. CASE AbortGivesUp
  BY <1>16 DEF AbortGivesUp, Polling, AbortFails, Return, CallErrorExit, host, bmc,
       FlagType
<1>17. CASE BmcCommand
  BY <1>17 DEF BmcCommand, PutByte, host, bmc, FlagType
<1>18. CASE BmcData
  BY <1>18 DEF BmcData, PutByte, host, bmc, FlagType
<1>19. CASE BmcExecute
  BY <1>19 DEF BmcExecute, PutByte, host, bmc, FlagType
<1>20. CASE BmcErrs
  BY <1>20 DEF BmcErrs, host, bmc, FlagType
<1>21. CASE BmcResets
  BY <1>21 DEF BmcResets, DummySeen, host, bmc, FlagType
<1>22. CASE UNCHANGED vars
  BY <1>22 DEF vars, host, bmc, FlagType
<1> QED BY <1>1, <1>2, <1>3, <1>4, <1>5, <1>6, <1>7, <1>8, <1>9, <1>10, <1>11, <1>12,
     <1>13, <1>14, <1>15, <1>16, <1>17, <1>18, <1>19, <1>20, <1>21, <1>22 DEF Next, Host

\* The types of the BMC's variables.
LEMMA BmcTypeStep ==
  ASSUME HostType, BmcType, HostInv, [Next]_vars
  PROVE  BmcType'
<1>1. ASSUME NEW m \in Requests, SendDataToBmcPort(m) PROVE BmcType'
  BY Constants, ByteOf, AppendType, <1>1 DEF SendDataToBmcPort, host, bmc, BmcType,
       ControlCodes, KcsStates
<1>2. CASE ReceiveBmcDataFromPort
  BY Constants, ByteOf, AppendType, <1>2 DEF ReceiveBmcDataFromPort, CallCheck, host, bmc,
       BmcType, ControlCodes, KcsStates
<1>3. CASE Poll
  BY Constants, ByteOf, AppendType, <1>3 DEF Poll, Awaited, host, bmc, BmcType,
       ControlCodes, KcsStates
<1>4. CASE StartReady
  BY Constants, ByteOf, AppendType, <1>4 DEF StartReady, PollEnded, WriteStart, WritePort,
       CallCheck, host, bmc, BmcType, ControlCodes, KcsStates
<1>5. CASE StartGivesUp
  BY Constants, ByteOf, AppendType, <1>5 DEF StartGivesUp, Polling, CallErrorExit, host,
       bmc, BmcType, ControlCodes, KcsStates
<1>6. CASE StartReadsFF
  BY Constants, ByteOf, AppendType, <1>6 DEF StartReadsFF, Polling, CallErrorExit, host,
       bmc, BmcType, ControlCodes, KcsStates
<1>7. CASE CheckIbfReady
  <2>1. CASE Continue(FALSE)
    BY <1>7, <2>1, ContinueType DEF CheckIbfReady, PollEnded, Expected, frame, BmcType, HostInv,
       HostType
  <2>2. CASE ~ Continue(FALSE)
    BY <1>7, <2>2 DEF CheckIbfReady, NoWrite, frame, BmcType
  <2> QED BY <2>1, <2>2
<1>8. CASE CheckObfReady
  BY <1>8, ContinueType DEF CheckObfReady, PollEnded, frame, BmcType, HostInv, HostType
<1>9. CASE CheckGivesUp
  BY Constants, ByteOf, AppendType, <1>9 DEF CheckGivesUp, Polling, CallErrorExit, host,
       bmc, BmcType, ControlCodes, KcsStates
<1>10. CASE AbortIbfReady
  BY Constants, ByteOf, AppendType, <1>10 DEF AbortIbfReady, PollEnded, WritePort,
       hostInAbort, host, bmc, BmcType, ControlCodes, KcsStates
<1>11. CASE AbortCmdReady
  BY Constants, ByteOf, AppendType, <1>11 DEF AbortCmdReady, PollEnded, ReadPort,
       WritePort, hostInAbort, host, bmc, BmcType, ControlCodes, KcsStates
<1>12. CASE AbortZeroReady
  BY Constants, ByteOf, AppendType, <1>12 DEF AbortZeroReady, PollEnded, hostInAbort,
       AbortFails, Return, CallErrorExit, host, bmc, BmcType, ControlCodes, KcsStates
<1>13. CASE AbortObfReady
  BY Constants, ByteOf, AppendType, <1>13 DEF AbortObfReady, PollEnded, ReadPort,
       WritePort, hostInAbort, host, bmc, BmcType, ControlCodes, KcsStates
<1>14. CASE AbortReadReady
  BY Constants, ByteOf, AppendType, <1>14 DEF AbortReadReady, PollEnded, hostInAbort,
       AbortFails, Return, CallErrorExit, host, bmc, BmcType, ControlCodes, KcsStates
<1>15. CASE AbortDoneReady
  <2>1. CASE Continue(FALSE)
    BY <1>15, <2>1, ContinueType DEF AbortDoneReady, PollEnded, frame, BmcType, HostInv, HostType
  <2>2. CASE ~ Continue(FALSE)
    <3>1. din' \in [reg : {"cmd", "data"}, byte : Bytes \cup ControlCodes]
      <4>1. CASE WritePort("cmd", "WRITE_START")
        BY <4>1 DEF WritePort, ControlCodes
      <4>2. CASE NoWrite
        BY <4>2 DEF NoWrite, BmcType
      <4> QED BY <1>15, <2>2, <4>1, <4>2 DEF AbortDoneReady, AbortSucceeds, WriteStart
    <3> QED BY <1>15, <3>1 DEF AbortDoneReady, frame, BmcType
  <2> QED BY <2>1, <2>2
<1>16. CASE AbortGivesUp
  BY Constants, ByteOf, AppendType, <1>16 DEF AbortGivesUp, Polling, AbortFails, Return,
       CallErrorExit, host, bmc, BmcType, ControlCodes, KcsStates
<1>17. CASE BmcCommand
  <2>1. <<>> \in Seq(Bytes)
    OBVIOUS
  <2> QED BY <2>1, Constants, <1>17 DEF BmcCommand, PutByte, BmcType, KcsStates
<1>18. CASE BmcData
  <2>1. <<>> \in Seq(Bytes)
    OBVIOUS
  <2>2. remaining # <<>> => Head(remaining) \in Bytes /\ Tail(remaining) \in Seq(Bytes)
    BY MoveByte, <2>1 DEF BmcType
  <2> QED BY <2>1, <2>2, Constants, <1>18 DEF BmcData, PutByte, BmcType, KcsStates
<1>19. CASE BmcExecute
  <2>1. PICK r \in Replies : dout' = Head(r) /\ remaining' = Tail(r)
    BY <1>19 DEF BmcExecute, PutByte
  <2>2. r \in Seq(Bytes) /\ r # <<>>
    BY MessageAssumption
  <2>3. dout' \in Bytes /\ remaining' \in Seq(Bytes)
    BY <2>1, <2>2, MoveByte
  <2> QED BY <1>19, <2>3 DEF BmcExecute, BmcType
<1>20. CASE BmcErrs
  BY Constants, ByteOf, AppendType, <1>20 DEF BmcErrs, host, bmc, BmcType, ControlCodes,
       KcsStates
<1>21. CASE BmcResets
  BY Constants, ByteOf, AppendType, <1>21 DEF BmcResets, DummySeen, host, bmc, BmcType,
       ControlCodes, KcsStates
<1>22. CASE UNCHANGED vars
  BY Constants, ByteOf, AppendType, <1>22 DEF vars, host, bmc, BmcType, ControlCodes,
       KcsStates
<1> QED BY <1>1, <1>2, <1>3, <1>4, <1>5, <1>6, <1>7, <1>8, <1>9, <1>10, <1>11, <1>12,
     <1>13, <1>14, <1>15, <1>16, <1>17, <1>18, <1>19, <1>20, <1>21, <1>22 DEF Next, Host

-------------------------------------------------------------------------------
(***************************************************************************)
(* Each part of IInv is kept by every step.                                *)
(***************************************************************************)

\* A message has two bytes at least.
LEMMA MsgLen == ASSUME HostType PROVE msg \in Seq(Bytes) /\ Len(msg) \in Nat /\ Len(msg) >= 2
BY MessageAssumption DEF HostType

\* Where the host is once KcsCheckStatus has succeeded.
LEMMA ContinueHost ==
  ASSUME HostType, HostInv, pc # "idle", pc # "start", pc \in AbortLoops => caller # "start",
         NEW i, Continue(i), UNCHANGED <<op, msg>>
  PROVE  HostInv'
<1>1. CASE cont = "first" /\ ContinueFirst /\ UNCHANGED caller
  BY <1>1, MsgLen DEF HostType, HostInv, ContinueFirst, NextCheck, CallCheck, AbortLoops
<1>2. CASE cont = "end" /\ ContinueEnd /\ UNCHANGED caller
  BY <1>2, MsgLen DEF HostType, HostInv, ContinueEnd, CallCheck, AbortLoops
<1>3. CASE cont = "byte" /\ ContinueByte /\ UNCHANGED caller
  BY <1>3, MsgLen DEF HostType, HostInv, ContinueByte, NextCheck, CallCheck, Return, AbortLoops
<1>4. CASE cont = "read" /\ ContinueReadDone /\ UNCHANGED caller
  BY <1>4 DEF HostType, HostInv, ContinueReadDone, Return
<1>5. CASE cont = "read" /\ ContinueReadByte
  BY <1>5 DEF HostType, HostInv, ContinueReadByte, CallCheck, CallErrorExit, AbortLoops
<1> QED BY <1>1, <1>2, <1>3, <1>4, <1>5 DEF Continue

\* Every step keeps HostInv: the host's place in its call agrees with how much
\* it has written or read.
LEMMA HostStep ==
  ASSUME HostType, HostInv, [Next]_vars
  PROVE  HostInv'
<1>1. ASSUME NEW m \in Requests, SendDataToBmcPort(m) PROVE HostInv'
  <2>1. Len(m) \in Nat /\ Len(m) >= 2
    BY MessageAssumption
  <2> QED BY <1>1, <2>1 DEF SendDataToBmcPort, HostInv, AbortLoops
<1>2. CASE ReceiveBmcDataFromPort
  BY MsgLen, <1>2 DEF ReceiveBmcDataFromPort, CallCheck, host, bmc, HostType, HostInv,
       AbortLoops, PollLoops
<1>3. CASE Poll
  BY MsgLen, <1>3 DEF Poll, Awaited, host, bmc, HostType, HostInv, AbortLoops, PollLoops
<1>4. CASE StartReady
  BY MsgLen, <1>4 DEF StartReady, PollEnded, WriteStart, WritePort, CallCheck, host, bmc,
       HostType, HostInv, AbortLoops, PollLoops
<1>5. CASE StartGivesUp
  BY MsgLen, <1>5 DEF StartGivesUp, Polling, CallErrorExit, host, bmc, HostType, HostInv,
       AbortLoops, PollLoops
<1>6. CASE StartReadsFF
  BY MsgLen, <1>6 DEF StartReadsFF, Polling, CallErrorExit, host, bmc, HostType, HostInv,
       AbortLoops, PollLoops
<1>7. CASE CheckIbfReady
  <2>1. CASE Continue(FALSE)
    BY <1>7, <2>1, ContinueHost DEF CheckIbfReady, PollEnded, frame, AbortLoops
  <2>2. CASE ~ Continue(FALSE)
    BY <1>7, <2>2 DEF CheckIbfReady, PollEnded, Expected, CallErrorExit, frame, HostType, HostInv,
       AbortLoops
  <2> QED BY <2>1, <2>2
<1>8. CASE CheckObfReady
  BY MsgLen, <1>8 DEF CheckObfReady, PollEnded, CallErrorExit, NoWrite, frame, Continue,
       ContinueFirst, ContinueEnd, ContinueByte, ContinueReadDone, ContinueReadByte,
       NextCheck, CallCheck, Return, WritePort, host, bmc, HostType, HostInv, AbortLoops,
       PollLoops
<1>9. CASE CheckGivesUp
  BY MsgLen, <1>9 DEF CheckGivesUp, Polling, CallErrorExit, host, bmc, HostType, HostInv,
       AbortLoops, PollLoops
<1>10. CASE AbortIbfReady
  BY MsgLen, <1>10 DEF AbortIbfReady, PollEnded, WritePort, hostInAbort, host, bmc,
       HostType, HostInv, AbortLoops, PollLoops
<1>11. CASE AbortCmdReady
  BY MsgLen, <1>11 DEF AbortCmdReady, PollEnded, ReadPort, WritePort, hostInAbort, host,
       bmc, HostType, HostInv, AbortLoops, PollLoops
<1>12. CASE AbortZeroReady
  BY MsgLen, <1>12 DEF AbortZeroReady, PollEnded, hostInAbort, AbortFails, Return,
       CallErrorExit, host, bmc, HostType, HostInv, AbortLoops, PollLoops
<1>13. CASE AbortObfReady
  BY MsgLen, <1>13 DEF AbortObfReady, PollEnded, ReadPort, WritePort, hostInAbort, host,
       bmc, HostType, HostInv, AbortLoops, PollLoops
<1>14. CASE AbortReadReady
  BY MsgLen, <1>14 DEF AbortReadReady, PollEnded, hostInAbort, AbortFails, Return,
       CallErrorExit, host, bmc, HostType, HostInv, AbortLoops, PollLoops
<1>15. CASE AbortDoneReady
  <2>1. CASE caller = "check" /\ Continue(FALSE)
    BY <1>15, <2>1, ContinueHost DEF AbortDoneReady, PollEnded, frame
  <2>2. CASE ~ (caller = "check" /\ Continue(FALSE))
    BY <1>15, <2>2 DEF AbortDoneReady, PollEnded, AbortSucceeds, WriteStart, CallCheck, Return,
       frame, HostType, HostInv, AbortLoops
  <2> QED BY <2>1, <2>2
<1>16. CASE AbortGivesUp
  BY MsgLen, <1>16 DEF AbortGivesUp, Polling, AbortFails, Return, CallErrorExit, host, bmc,
       HostType, HostInv, AbortLoops, PollLoops
<1>17. CASE BmcCommand
  BY MsgLen, <1>17 DEF BmcCommand, PutByte, host, bmc, HostType, HostInv, AbortLoops,
       PollLoops
<1>18. CASE BmcData
  BY MsgLen, <1>18 DEF BmcData, PutByte, host, bmc, HostType, HostInv, AbortLoops,
       PollLoops
<1>19. CASE BmcExecute
  BY MsgLen, <1>19 DEF BmcExecute, PutByte, host, bmc, HostType, HostInv, AbortLoops,
       PollLoops
<1>20. CASE BmcErrs
  BY MsgLen, <1>20 DEF BmcErrs, host, bmc, HostType, HostInv, AbortLoops, PollLoops
<1>21. CASE BmcResets
  BY MsgLen, <1>21 DEF BmcResets, DummySeen, host, bmc, HostType, HostInv, AbortLoops,
       PollLoops
<1>22. CASE UNCHANGED vars
  BY MsgLen, <1>22 DEF vars, host, bmc, HostType, HostInv, AbortLoops, PollLoops
<1> QED BY <1>1, <1>2, <1>3, <1>4, <1>5, <1>6, <1>7, <1>8, <1>9, <1>10, <1>11, <1>12,
     <1>13, <1>14, <1>15, <1>16, <1>17, <1>18, <1>19, <1>20, <1>21, <1>22 DEF Next, Host

\* Every step keeps PollInv: what a poll found still holds when it is acted on,
\* for only the host sets IBF and only the BMC clears it.
LEMMA PollStep ==
  ASSUME HostType, FlagType, BmcType, HostInv, BmcInv, PollInv, AbortInv, [Next]_vars
  PROVE  PollInv'
<1>1. ASSUME NEW m \in Requests, SendDataToBmcPort(m) PROVE PollInv'
  BY <1>1 DEF SendDataToBmcPort, host, bmc, HostType, FlagType, BmcType, HostInv, PollInv,
       AbortInv, AbortLoops, PollLoops, BmcInv, StateOf, KcsStates
<1>2. CASE ReceiveBmcDataFromPort
  BY <1>2 DEF ReceiveBmcDataFromPort, CallCheck, host, bmc, HostType, FlagType, BmcType,
       HostInv, PollInv, AbortInv, AbortLoops, PollLoops, BmcInv, StateOf, KcsStates
<1>3. CASE Poll
  BY <1>3 DEF Poll, Awaited, host, bmc, HostType, FlagType, BmcType, HostInv, PollInv,
       AbortInv, AbortLoops, PollLoops, BmcInv, StateOf, KcsStates
<1>4. CASE StartReady
  BY <1>4 DEF StartReady, PollEnded, WriteStart, WritePort, CallCheck, host, bmc, HostType,
       FlagType, BmcType, HostInv, PollInv, AbortInv, AbortLoops, PollLoops, BmcInv,
       StateOf, KcsStates
<1>5. CASE StartGivesUp
  BY <1>5 DEF StartGivesUp, Polling, CallErrorExit, host, bmc, HostType, FlagType, BmcType,
       HostInv, PollInv, AbortInv, AbortLoops, PollLoops, BmcInv, StateOf, KcsStates
<1>6. CASE StartReadsFF
  BY <1>6 DEF StartReadsFF, Polling, CallErrorExit, host, bmc, HostType, FlagType, BmcType,
       HostInv, PollInv, AbortInv, AbortLoops, PollLoops, BmcInv, StateOf, KcsStates
<1>7. CASE CheckIbfReady
  BY <1>7 DEF CheckIbfReady, PollEnded, Expected, ReadPort, CallErrorExit, NoWrite, frame,
       Continue, ContinueFirst, ContinueEnd, ContinueByte, ContinueReadDone,
       ContinueReadByte, NextCheck, CallCheck, Return, WritePort, host, bmc, HostType,
       FlagType, BmcType, HostInv, PollInv, AbortInv, AbortLoops, PollLoops, BmcInv,
       StateOf, KcsStates
<1>8. CASE CheckObfReady
  BY <1>8 DEF CheckObfReady, PollEnded, CallErrorExit, NoWrite, frame, Continue,
       ContinueFirst, ContinueEnd, ContinueByte, ContinueReadDone, ContinueReadByte,
       NextCheck, CallCheck, Return, WritePort, host, bmc, HostType, FlagType, BmcType,
       HostInv, PollInv, AbortInv, AbortLoops, PollLoops, BmcInv, StateOf, KcsStates
<1>9. CASE CheckGivesUp
  BY <1>9 DEF CheckGivesUp, Polling, CallErrorExit, host, bmc, HostType, FlagType, BmcType,
       HostInv, PollInv, AbortInv, AbortLoops, PollLoops, BmcInv, StateOf, KcsStates
<1>10. CASE AbortIbfReady
  BY <1>10 DEF AbortIbfReady, PollEnded, WritePort, hostInAbort, host, bmc, HostType,
       FlagType, BmcType, HostInv, PollInv, AbortInv, AbortLoops, PollLoops, BmcInv,
       StateOf, KcsStates
<1>11. CASE AbortCmdReady
  BY <1>11 DEF AbortCmdReady, PollEnded, ReadPort, WritePort, hostInAbort, host, bmc,
       HostType, FlagType, BmcType, HostInv, PollInv, AbortInv, AbortLoops, PollLoops,
       BmcInv, StateOf, KcsStates
<1>12. CASE AbortZeroReady
  BY <1>12 DEF AbortZeroReady, PollEnded, hostInAbort, AbortFails, Return, CallErrorExit,
       host, bmc, HostType, FlagType, BmcType, HostInv, PollInv, AbortInv, AbortLoops,
       PollLoops, BmcInv, StateOf, KcsStates
<1>13. CASE AbortObfReady
  BY <1>13 DEF AbortObfReady, PollEnded, ReadPort, WritePort, hostInAbort, host, bmc,
       HostType, FlagType, BmcType, HostInv, PollInv, AbortInv, AbortLoops, PollLoops,
       BmcInv, StateOf, KcsStates
<1>14. CASE AbortReadReady
  BY <1>14 DEF AbortReadReady, PollEnded, hostInAbort, AbortFails, Return, CallErrorExit,
       host, bmc, HostType, FlagType, BmcType, HostInv, PollInv, AbortInv, AbortLoops,
       PollLoops, BmcInv, StateOf, KcsStates
<1>15. CASE AbortDoneReady
  BY <1>15 DEF AbortDoneReady, PollEnded, ReadPort, AbortSucceeds, WriteStart,
       CallErrorExit, NoWrite, frame, Continue, ContinueFirst, ContinueEnd, ContinueByte,
       ContinueReadDone, ContinueReadByte, NextCheck, CallCheck, Return, WritePort, host,
       bmc, HostType, FlagType, BmcType, HostInv, PollInv, AbortInv, AbortLoops, PollLoops,
       BmcInv, StateOf, KcsStates
<1>16. CASE AbortGivesUp
  BY <1>16 DEF AbortGivesUp, Polling, AbortFails, Return, CallErrorExit, host, bmc,
       HostType, FlagType, BmcType, HostInv, PollInv, AbortInv, AbortLoops, PollLoops,
       BmcInv, StateOf, KcsStates
<1>17. CASE BmcCommand
  BY <1>17 DEF BmcCommand, PutByte, host, bmc, HostType, FlagType, BmcType, HostInv,
       PollInv, AbortInv, AbortLoops, PollLoops, BmcInv, StateOf, KcsStates
<1>18. CASE BmcData
  BY <1>18 DEF BmcData, PutByte, host, bmc, HostType, FlagType, BmcType, HostInv, PollInv,
       AbortInv, AbortLoops, PollLoops, BmcInv, StateOf, KcsStates
<1>19. CASE BmcExecute
  BY <1>19 DEF BmcExecute, PutByte, host, bmc, HostType, FlagType, BmcType, HostInv,
       PollInv, AbortInv, AbortLoops, PollLoops, BmcInv, StateOf, KcsStates
<1>20. CASE BmcErrs
  BY <1>20 DEF BmcErrs, host, bmc, HostType, FlagType, BmcType, HostInv, PollInv, AbortInv,
       AbortLoops, PollLoops, BmcInv, StateOf, KcsStates
<1>21. CASE BmcResets
  BY <1>21 DEF BmcResets, DummySeen, host, bmc, HostType, FlagType, BmcType, HostInv,
       PollInv, AbortInv, AbortLoops, PollLoops, BmcInv, StateOf, KcsStates
<1>22. CASE UNCHANGED vars
  BY <1>22 DEF vars, host, bmc, HostType, FlagType, BmcType, HostInv, PollInv, AbortInv,
       AbortLoops, PollLoops, BmcInv, StateOf, KcsStates
<1> QED BY <1>1, <1>2, <1>3, <1>4, <1>5, <1>6, <1>7, <1>8, <1>9, <1>10, <1>11, <1>12,
     <1>13, <1>14, <1>15, <1>16, <1>17, <1>18, <1>19, <1>20, <1>21, <1>22 DEF Next, Host

\* The BMC was found in a state that is not the expected one: the exchange is
\* lost, and a message under way was lost to an error or a restart.
LEMMA Unexpected ==
  ASSUME HostType, FlagType, BmcType, HostInv, BmcInv, PollInv, SendInv, ReceiveInv,
         pc = "checkIbf", polled # "none", polled # Expected,
         ~ (polled = "Idle" /\ Expected = "Read")
  PROVE  ~ ibf /\ mode \in {"idle", "error"} /\ (op = "send" => disturbed)
<1>1. CASE op = "send"
  BY <1>1 DEF HostType, BmcType, KcsStates, HostInv, PollInv, SendInv, InMessage, Beginning,
     Collecting, Refusing, Expected
<1>2. CASE op = "receive"
  BY <1>2 DEF HostType, BmcType, KcsStates, HostInv, PollInv, ReceiveInv, Written, LastByte,
     Executing, Answering, Answered, Lost, Expected
<1> QED BY <1>1, <1>2 DEF HostType

\* The next byte of the message completes what the BMC has of it.
LEMMA ByteWritten ==
  ASSUME HostType, collected \in Seq(Bytes), collected \o Rest(sent) = msg, sent < Len(msg)
  PROVE  /\ Append(collected, msg[sent + 1]) \o Rest(sent + 1) = msg
         /\ sent + 1 = Len(msg) => Append(collected, msg[sent + 1]) = msg
         /\ msg[sent + 1] \in Bytes
<1>1. msg \in Seq(Bytes) /\ sent \in Nat /\ collected \in Seq(Bytes) /\ Len(msg) \in Nat
  BY MsgLen DEF HostType
<1>2. Append(collected, msg[sent + 1]) \o Rest(sent + 1) = msg
  <2>1. sent + 1 + 1 = sent + 2
    BY <1>1
  <2>2. Append(collected, msg[sent + 1]) \o SubSeq(msg, sent + 2, Len(msg))
          = collected \o Rest(sent)
    BY <1>1, RestMoves DEF Rest
  <2> QED BY <2>1, <2>2 DEF Rest
<1>3. msg[sent + 1] \in Bytes
  BY <1>1, ByteOf DEF HostType
<1>4. ASSUME sent + 1 = Len(msg) PROVE Append(collected, msg[sent + 1]) = msg
  <2>1. Rest(sent + 1) = <<>>
    BY <1>1, <1>4, RestEnds DEF Rest
  <2>2. Append(collected, msg[sent + 1]) \in Seq(Bytes)
    BY <1>1, <1>3, AppendType
  <2> QED BY <1>2, <2>1, <2>2, ConcatEmpty
<1> QED BY <1>2, <1>3, <1>4

\* Every step keeps AbortInv: where the error exit has brought the BMC.
LEMMA AbortStep ==
  ASSUME HostType, FlagType, BmcType, HostInv, BmcInv, PollInv, AbortInv, SendInv, ReceiveInv,
         [Next]_vars
  PROVE  AbortInv'
<1>1. ASSUME NEW m \in Requests, SendDataToBmcPort(m) PROVE AbortInv'
  BY <1>1 DEF SendDataToBmcPort, host, bmc, HostType, FlagType, BmcType, HostInv, PollInv,
       AbortInv, AbortLoops, PollLoops, BmcInv, StateOf, KcsStates, Pending, Cmd
<1>2. CASE ReceiveBmcDataFromPort
  BY <1>2 DEF ReceiveBmcDataFromPort, CallCheck, host, bmc, HostType, FlagType, BmcType,
       HostInv, PollInv, AbortInv, AbortLoops, PollLoops, BmcInv, StateOf, KcsStates,
       Pending, Cmd
<1>3. CASE Poll
  BY <1>3 DEF Poll, Awaited, host, bmc, HostType, FlagType, BmcType, HostInv, PollInv,
       AbortInv, AbortLoops, PollLoops, BmcInv, StateOf, KcsStates, Pending, Cmd
<1>4. CASE StartReady
  BY <1>4 DEF StartReady, PollEnded, WriteStart, WritePort, CallCheck, host, bmc, HostType,
       FlagType, BmcType, HostInv, PollInv, AbortInv, AbortLoops, PollLoops, BmcInv,
       StateOf, KcsStates, Pending, Cmd
<1>5. CASE StartGivesUp
  BY <1>5 DEF StartGivesUp, Polling, CallErrorExit, host, bmc, HostType, FlagType, BmcType,
       HostInv, PollInv, AbortInv, AbortLoops, PollLoops, BmcInv, StateOf, KcsStates,
       Pending, Cmd
<1>6. CASE StartReadsFF
  BY <1>6 DEF StartReadsFF, Polling, CallErrorExit, host, bmc, HostType, FlagType, BmcType,
       HostInv, PollInv, AbortInv, AbortLoops, PollLoops, BmcInv, StateOf, KcsStates,
       Pending, Cmd
<1>7. CASE CheckIbfReady
  <2>1. CASE Continue(FALSE)
    BY <1>7, <2>1 DEF CheckIbfReady, PollEnded, Expected, Continue, ContinueFirst, ContinueEnd,
       ContinueByte, ContinueReadDone, ContinueReadByte, NextCheck, CallCheck, CallErrorExit,
       Return, AbortInv, AbortLoops, HostInv, HostType
  <2>2. CASE pc' = "checkObf"
    BY <2>2 DEF AbortInv, AbortLoops
  <2>3. CASE polled # Expected /\ ~ (polled = "Idle" /\ Expected = "Read")
          /\ CallErrorExit("check") /\ NoWrite
    BY <1>7, <2>3, Unexpected DEF CheckIbfReady, PollEnded, frame, CallErrorExit, NoWrite,
       AbortInv, AbortLoops
  <2> QED BY <1>7, <2>1, <2>2, <2>3 DEF CheckIbfReady
<1>8. CASE CheckObfReady
  BY <1>8 DEF CheckObfReady, PollEnded, CallErrorExit, NoWrite, frame, Continue,
       ContinueFirst, ContinueEnd, ContinueByte, ContinueReadDone, ContinueReadByte,
       NextCheck, CallCheck, Return, WritePort, host, bmc, HostType, FlagType, BmcType,
       HostInv, PollInv, AbortInv, AbortLoops, PollLoops, BmcInv, StateOf, KcsStates,
       Pending, Cmd
<1>9. CASE CheckGivesUp
  BY <1>9 DEF CheckGivesUp, Polling, CallErrorExit, host, bmc, HostType, FlagType, BmcType,
       HostInv, PollInv, AbortInv, AbortLoops, PollLoops, BmcInv, StateOf, KcsStates,
       Pending, Cmd
<1>10. CASE AbortIbfReady
  BY <1>10 DEF AbortIbfReady, PollEnded, WritePort, hostInAbort, host, bmc, HostType,
       FlagType, BmcType, HostInv, PollInv, AbortInv, AbortLoops, PollLoops, BmcInv,
       StateOf, KcsStates, Pending, Cmd
<1>11. CASE AbortCmdReady
  BY <1>11 DEF AbortCmdReady, PollEnded, ReadPort, WritePort, hostInAbort, host, bmc,
       HostType, FlagType, BmcType, HostInv, PollInv, AbortInv, AbortLoops, PollLoops,
       BmcInv, StateOf, KcsStates, Pending, Cmd
<1>12. CASE AbortZeroReady
  BY <1>12 DEF AbortZeroReady, PollEnded, hostInAbort, AbortFails, Return, CallErrorExit,
       host, bmc, HostType, FlagType, BmcType, HostInv, PollInv, AbortInv, AbortLoops,
       PollLoops, BmcInv, StateOf, KcsStates, Pending, Cmd
<1>13. CASE AbortObfReady
  BY <1>13 DEF AbortObfReady, PollEnded, ReadPort, WritePort, hostInAbort, host, bmc,
       HostType, FlagType, BmcType, HostInv, PollInv, AbortInv, AbortLoops, PollLoops,
       BmcInv, StateOf, KcsStates, Pending, Cmd
<1>14. CASE AbortReadReady
  BY <1>14 DEF AbortReadReady, PollEnded, hostInAbort, AbortFails, Return, CallErrorExit,
       host, bmc, HostType, FlagType, BmcType, HostInv, PollInv, AbortInv, AbortLoops,
       PollLoops, BmcInv, StateOf, KcsStates, Pending, Cmd
<1>15. CASE AbortDoneReady
  BY <1>15 DEF AbortDoneReady, PollEnded, ReadPort, AbortSucceeds, WriteStart,
       CallErrorExit, NoWrite, frame, Continue, ContinueFirst, ContinueEnd, ContinueByte,
       ContinueReadDone, ContinueReadByte, NextCheck, CallCheck, Return, WritePort, host,
       bmc, HostType, FlagType, BmcType, HostInv, PollInv, AbortInv, AbortLoops, PollLoops,
       BmcInv, StateOf, KcsStates, Pending, Cmd
<1>16. CASE AbortGivesUp
  BY <1>16 DEF AbortGivesUp, Polling, AbortFails, Return, CallErrorExit, host, bmc,
       HostType, FlagType, BmcType, HostInv, PollInv, AbortInv, AbortLoops, PollLoops,
       BmcInv, StateOf, KcsStates, Pending, Cmd
<1>17. CASE BmcCommand
  BY <1>17 DEF BmcCommand, PutByte, host, bmc, HostType, FlagType, BmcType, HostInv,
       PollInv, AbortInv, AbortLoops, PollLoops, BmcInv, StateOf, KcsStates, Pending, Cmd
<1>18. CASE BmcData
  BY <1>18 DEF BmcData, PutByte, host, bmc, HostType, FlagType, BmcType, HostInv, PollInv,
       AbortInv, AbortLoops, PollLoops, BmcInv, StateOf, KcsStates, Pending, Cmd
<1>19. CASE BmcExecute
  BY <1>19 DEF BmcExecute, PutByte, host, bmc, HostType, FlagType, BmcType, HostInv,
       PollInv, AbortInv, AbortLoops, PollLoops, BmcInv, StateOf, KcsStates, Pending, Cmd
<1>20. CASE BmcErrs
  BY <1>20 DEF BmcErrs, host, bmc, HostType, FlagType, BmcType, HostInv, PollInv, AbortInv,
       AbortLoops, PollLoops, BmcInv, StateOf, KcsStates, Pending, Cmd
<1>21. CASE BmcResets
  BY <1>21 DEF BmcResets, DummySeen, host, bmc, HostType, FlagType, BmcType, HostInv,
       PollInv, AbortInv, AbortLoops, PollLoops, BmcInv, StateOf, KcsStates, Pending, Cmd
<1>22. CASE UNCHANGED vars
  BY <1>22 DEF vars, host, bmc, HostType, FlagType, BmcType, HostInv, PollInv, AbortInv,
       AbortLoops, PollLoops, BmcInv, StateOf, KcsStates, Pending, Cmd
<1> QED BY <1>1, <1>2, <1>3, <1>4, <1>5, <1>6, <1>7, <1>8, <1>9, <1>10, <1>11, <1>12,
     <1>13, <1>14, <1>15, <1>16, <1>17, <1>18, <1>19, <1>20, <1>21, <1>22 DEF Next, Host

\* The host leaves the BMC's variables alone, but for the answer it has read.
LEMMA HostAnswer ==
  ASSUME Host
  PROVE  UNCHANGED <<state, mode, collected, disturbed>> /\ answer' \in {answer, NoAnswer}
<1>1. CASE CheckIbfReady \/ CheckObfReady \/ AbortDoneReady
  BY <1>1 DEF CheckIbfReady, CheckObfReady, AbortDoneReady, AbortSucceeds, frame, Continue,
     ContinueFirst, ContinueEnd, ContinueByte, ContinueReadDone, ContinueReadByte
<1>2. CASE Poll \/ StartReady \/ StartGivesUp \/ StartReadsFF \/ CheckGivesUp
  BY <1>2 DEF Poll, StartReady, StartGivesUp, StartReadsFF, CheckGivesUp, bmc
<1>3. CASE \/ AbortIbfReady \/ AbortCmdReady \/ AbortZeroReady \/ AbortObfReady \/ AbortReadReady
           \/ AbortGivesUp
  BY <1>3 DEF AbortIbfReady, AbortCmdReady, AbortZeroReady, AbortObfReady, AbortReadReady,
     AbortGivesUp, AbortFails, bmc
<1> QED BY <1>1, <1>2, <1>3 DEF Host

\* Every step keeps BmcInv: the host writes neither the state nor the mode.
LEMMA BmcStep ==
  ASSUME BmcType, BmcInv, [Next]_vars
  PROVE  BmcInv'
<1>1. CASE (\E m \in Requests : SendDataToBmcPort(m)) \/ ReceiveBmcDataFromPort \/ UNCHANGED vars
  BY <1>1 DEF SendDataToBmcPort, ReceiveBmcDataFromPort, vars, bmc, BmcInv
<1>2. CASE Host
  <2>1. UNCHANGED <<state, mode>> /\ answer' \in {answer, NoAnswer}
    BY <1>2, HostAnswer
  <2> QED BY <2>1 DEF BmcInv
<1>3. CASE BmcCommand
  BY <1>3 DEF BmcCommand, BmcInv, StateOf
<1>4. CASE BmcData
  BY <1>4 DEF BmcData, BmcInv, StateOf
<1>5. CASE BmcExecute
  BY <1>5 DEF BmcExecute, BmcInv, StateOf
<1>6. CASE BmcErrs
  BY <1>6 DEF BmcErrs, BmcInv, StateOf
<1>7. CASE BmcResets
  BY <1>7 DEF BmcResets, BmcInv, StateOf
<1> QED BY <1>1, <1>2, <1>3, <1>4, <1>5, <1>6, <1>7 DEF Next

\* Every step keeps WholeInv: what the BMC executes is a whole request.
LEMMA WholeStep ==
  ASSUME HostType, FlagType, BmcType, HostInv, BmcInv, WholeInv, PollInv, AbortInv, SendInv,
         [Next]_vars
  PROVE  WholeInv'
<1>1. ASSUME NEW m \in Requests, SendDataToBmcPort(m) PROVE WholeInv'
  BY <1>1 DEF SendDataToBmcPort, host, bmc, HostType, FlagType, BmcType, HostInv, PollInv,
       AbortInv, AbortLoops, PollLoops, BmcInv, WholeInv, KcsStates, Pending, Cmd
<1>2. CASE ReceiveBmcDataFromPort
  BY <1>2 DEF ReceiveBmcDataFromPort, CallCheck, host, bmc, HostType, FlagType, BmcType,
       HostInv, PollInv, AbortInv, AbortLoops, PollLoops, BmcInv, WholeInv, KcsStates,
       Pending, Cmd
<1>3. CASE Poll
  BY <1>3 DEF Poll, Awaited, host, bmc, HostType, FlagType, BmcType, HostInv, PollInv,
       AbortInv, AbortLoops, PollLoops, BmcInv, WholeInv, KcsStates, Pending, Cmd
<1>4. CASE StartReady
  BY <1>4 DEF StartReady, PollEnded, WriteStart, WritePort, CallCheck, host, bmc, HostType,
       FlagType, BmcType, HostInv, PollInv, AbortInv, AbortLoops, PollLoops, BmcInv,
       WholeInv, KcsStates, Pending, Cmd
<1>5. CASE StartGivesUp
  BY <1>5 DEF StartGivesUp, Polling, CallErrorExit, host, bmc, HostType, FlagType, BmcType,
       HostInv, PollInv, AbortInv, AbortLoops, PollLoops, BmcInv, WholeInv, KcsStates,
       Pending, Cmd
<1>6. CASE StartReadsFF
  BY <1>6 DEF StartReadsFF, Polling, CallErrorExit, host, bmc, HostType, FlagType, BmcType,
       HostInv, PollInv, AbortInv, AbortLoops, PollLoops, BmcInv, WholeInv, KcsStates,
       Pending, Cmd
<1>7. CASE CheckIbfReady
  <2>1. CASE ~ ibf'
    BY <1>7, <2>1 DEF CheckIbfReady, frame, WholeInv, HostInv, HostType, Expected, PollEnded,
       CallErrorExit, NoWrite, Continue, ContinueFirst, ContinueEnd, ContinueByte,
       ContinueReadDone, ContinueReadByte, PollInv
  <2>2. CASE cont = "end" /\ ContinueEnd
    BY <1>7, <2>2 DEF CheckIbfReady, frame, ContinueEnd, WritePort, WholeInv
  <2>3. CASE cont = "byte" /\ ContinueByte /\ polled = "Write"
    <3>1. op = "send"
      BY <1>7, <2>3 DEF CheckIbfReady, PollEnded, HostInv, HostType
    <3>2. mode \in {"write", "writeEnd"} => collected \o Rest(sent) = msg
            /\ (mode = "writeEnd" => sent + 1 = Len(msg))
      BY <1>7, <2>3, <3>1, MsgLen DEF CheckIbfReady, PollEnded, PollInv, SendInv, InMessage,
         Beginning, Collecting, Refusing, HostType
    <3>3. sent < Len(msg) /\ msg \in Requests
      BY <1>7, <3>1 DEF CheckIbfReady, PollEnded, HostInv, HostType
    <3>4. din'.byte = msg[sent + 1] /\ UNCHANGED <<state, mode, collected, answer>>
      BY <1>7, <2>3 DEF CheckIbfReady, frame, ContinueByte, WritePort
    <3> QED BY <3>2, <3>3, <3>4, ByteWritten DEF WholeInv
  <2> QED BY <1>7, <2>1, <2>2, <2>3 DEF CheckIbfReady, NoWrite, PollEnded, PollInv, Continue,
         ContinueFirst, Expected
<1>8. CASE CheckObfReady
  BY <1>8 DEF CheckObfReady, PollEnded, CallErrorExit, NoWrite, frame, Continue,
       ContinueFirst, ContinueEnd, ContinueByte, ContinueReadDone, ContinueReadByte,
       NextCheck, CallCheck, Return, WritePort, host, bmc, HostType, FlagType, BmcType,
       HostInv, PollInv, AbortInv, AbortLoops, PollLoops, BmcInv, WholeInv, KcsStates,
       Pending, Cmd
<1>9. CASE CheckGivesUp
  BY <1>9 DEF CheckGivesUp, Polling, CallErrorExit, host, bmc, HostType, FlagType, BmcType,
       HostInv, PollInv, AbortInv, AbortLoops, PollLoops, BmcInv, WholeInv, KcsStates,
       Pending, Cmd
<1>10. CASE AbortIbfReady
  BY <1>10 DEF AbortIbfReady, PollEnded, WritePort, hostInAbort, host, bmc, HostType,
       FlagType, BmcType, HostInv, PollInv, AbortInv, AbortLoops, PollLoops, BmcInv,
       WholeInv, KcsStates, Pending, Cmd
<1>11. CASE AbortCmdReady
  BY <1>11 DEF AbortCmdReady, PollEnded, ReadPort, WritePort, hostInAbort, host, bmc,
       HostType, FlagType, BmcType, HostInv, PollInv, AbortInv, AbortLoops, PollLoops,
       BmcInv, WholeInv, KcsStates, Pending, Cmd
<1>12. CASE AbortZeroReady
  BY <1>12 DEF AbortZeroReady, PollEnded, hostInAbort, AbortFails, Return, CallErrorExit,
       host, bmc, HostType, FlagType, BmcType, HostInv, PollInv, AbortInv, AbortLoops,
       PollLoops, BmcInv, WholeInv, KcsStates, Pending, Cmd
<1>13. CASE AbortObfReady
  BY <1>13 DEF AbortObfReady, PollEnded, ReadPort, WritePort, hostInAbort, host, bmc,
       HostType, FlagType, BmcType, HostInv, PollInv, AbortInv, AbortLoops, PollLoops,
       BmcInv, WholeInv, KcsStates, Pending, Cmd
<1>14. CASE AbortReadReady
  BY <1>14 DEF AbortReadReady, PollEnded, hostInAbort, AbortFails, Return, CallErrorExit,
       host, bmc, HostType, FlagType, BmcType, HostInv, PollInv, AbortInv, AbortLoops,
       PollLoops, BmcInv, WholeInv, KcsStates, Pending, Cmd
<1>15. CASE AbortDoneReady
  BY <1>15 DEF AbortDoneReady, PollEnded, ReadPort, AbortSucceeds, WriteStart,
       CallErrorExit, NoWrite, frame, Continue, ContinueFirst, ContinueEnd, ContinueByte,
       ContinueReadDone, ContinueReadByte, NextCheck, CallCheck, Return, WritePort, host,
       bmc, HostType, FlagType, BmcType, HostInv, PollInv, AbortInv, AbortLoops, PollLoops,
       BmcInv, WholeInv, KcsStates, Pending, Cmd
<1>16. CASE AbortGivesUp
  BY <1>16 DEF AbortGivesUp, Polling, AbortFails, Return, CallErrorExit, host, bmc,
       HostType, FlagType, BmcType, HostInv, PollInv, AbortInv, AbortLoops, PollLoops,
       BmcInv, WholeInv, KcsStates, Pending, Cmd
<1>17. CASE BmcCommand
  <2>1. <<>> \in Seq(Bytes)
    OBVIOUS
  <2> QED BY <1>17, <2>1 DEF BmcCommand, WholeInv
<1>18. CASE BmcData
  <2>1. mode \in {"write", "writeEnd"} => Append(collected, din.byte) \in Seq(Bytes)
    BY <1>18, AppendType DEF BmcData, WholeInv
  <2> QED BY <1>18, <2>1 DEF BmcData, WholeInv
<1>19. CASE BmcExecute
  BY <1>19 DEF BmcExecute, PutByte, host, bmc, HostType, FlagType, BmcType, HostInv,
       PollInv, AbortInv, AbortLoops, PollLoops, BmcInv, WholeInv, KcsStates, Pending, Cmd
<1>20. CASE BmcErrs
  BY <1>20 DEF BmcErrs, host, bmc, HostType, FlagType, BmcType, HostInv, PollInv, AbortInv,
       AbortLoops, PollLoops, BmcInv, WholeInv, KcsStates, Pending, Cmd
<1>21. CASE BmcResets
  BY <1>21 DEF BmcResets, DummySeen, host, bmc, HostType, FlagType, BmcType, HostInv,
       PollInv, AbortInv, AbortLoops, PollLoops, BmcInv, WholeInv, KcsStates, Pending, Cmd
<1>22. CASE UNCHANGED vars
  BY <1>22 DEF vars, host, bmc, HostType, FlagType, BmcType, HostInv, PollInv, AbortInv,
       AbortLoops, PollLoops, BmcInv, WholeInv, KcsStates, Pending, Cmd
<1> QED BY <1>1, <1>2, <1>3, <1>4, <1>5, <1>6, <1>7, <1>8, <1>9, <1>10, <1>11, <1>12,
     <1>13, <1>14, <1>15, <1>16, <1>17, <1>18, <1>19, <1>20, <1>21, <1>22 DEF Next, Host

\* Every step keeps SendInv: what the BMC has collected and what the host has
\* still to write make up the message.
LEMMA SendStep ==
  ASSUME HostType, FlagType, BmcType, HostInv, BmcInv, PollInv, AbortInv, SendInv, ReceiveInv,
         [Next]_vars
  PROVE  SendInv'
<1>1. ASSUME NEW m \in Requests, SendDataToBmcPort(m) PROVE SendInv'
  BY <1>1 DEF SendDataToBmcPort, host, bmc, HostType, BmcType, HostInv, PollInv, AbortInv,
       SendInv, InMessage, Beginning, Collecting, Refusing, AbortLoops, BmcInv, Pending,
       Cmd, Rest
<1>2. CASE ReceiveBmcDataFromPort
  BY <1>2 DEF ReceiveBmcDataFromPort, CallCheck, host, bmc, HostType, BmcType, HostInv,
       PollInv, AbortInv, SendInv, InMessage, Beginning, Collecting, Refusing, AbortLoops,
       BmcInv, Pending, Cmd, Rest
<1>3. CASE Poll
  BY <1>3 DEF Poll, Awaited, host, bmc, HostType, BmcType, HostInv, PollInv, AbortInv,
       SendInv, InMessage, Beginning, Collecting, Refusing, AbortLoops, BmcInv, Pending,
       Cmd, Rest
<1>4. CASE StartReady
  BY <1>4 DEF StartReady, PollEnded, WriteStart, WritePort, CallCheck, host, bmc, HostType,
       BmcType, HostInv, PollInv, AbortInv, SendInv, InMessage, Beginning, Collecting,
       Refusing, AbortLoops, BmcInv, Pending, Cmd, Rest
<1>5. CASE StartGivesUp
  BY <1>5 DEF StartGivesUp, Polling, CallErrorExit, host, bmc, HostType, BmcType, HostInv,
       PollInv, AbortInv, SendInv, InMessage, Beginning, Collecting, Refusing, AbortLoops,
       BmcInv, Pending, Cmd, Rest
<1>6. CASE StartReadsFF
  BY <1>6 DEF StartReadsFF, Polling, CallErrorExit, host, bmc, HostType, BmcType, HostInv,
       PollInv, AbortInv, SendInv, InMessage, Beginning, Collecting, Refusing, AbortLoops,
       BmcInv, Pending, Cmd, Rest
<1>7. CASE CheckIbfReady
  <2> SUFFICES ASSUME op = "send" PROVE SendInv'
    BY <1>7 DEF CheckIbfReady, frame, SendInv, InMessage
  <2>1. CASE polled # Expected
    <3>1. CallErrorExit("check") /\ disturbed'
      BY <1>7, <2>1, Unexpected DEF CheckIbfReady, PollEnded, Expected, HostInv, frame
    <3> QED BY <3>1 DEF CallErrorExit, SendInv, InMessage
  <2>2. CASE polled = "Write" /\ Continue(FALSE)
    <3>1. /\ pc = "checkIbf" /\ cont \in {"first", "end", "byte"} /\ sent \in Nat
               /\ sent < Len(msg)
          /\ ~ ibf /\ UNCHANGED <<op, msg, mode, collected, disturbed>> /\ polled' = "none"
      BY <1>7 DEF CheckIbfReady, PollEnded, PollInv, HostInv, HostType, frame
    <3>2. Collecting \/ Refusing
      BY <2>2, <3>1 DEF SendInv, InMessage, Beginning
    <3>3. CASE cont = "first" /\ ContinueFirst
      BY <3>1, <3>2, <3>3, MsgLen DEF ContinueFirst, NextCheck, CallCheck, NoWrite, HostInv,
         SendInv, InMessage, Collecting, Refusing, Rest, AbortLoops
    <3>4. CASE cont = "end" /\ ContinueEnd
      BY <3>1, <3>2, <3>4, MsgLen DEF ContinueEnd, WritePort, CallCheck, HostInv, SendInv,
         InMessage, Collecting, Refusing, Rest, AbortLoops, Pending, Cmd
    <3>5. CASE cont = "byte" /\ ContinueByte
      <4>1. CASE sent + 1 = Len(msg)
        BY <3>5, <4>1 DEF ContinueByte, Return, SendInv, InMessage, AbortLoops
      <4>2. CASE sent + 1 # Len(msg)
        <5>1. CASE Collecting
          <6>1. /\ mode = "write" /\ collected \o Rest(sent) = msg /\ answer = NoAnswer
                /\ collected \in Seq(Bytes)
            BY <3>1, <3>5, <4>2, <5>1, MsgLen DEF Collecting
          <6>2. /\ Append(collected, msg[sent + 1]) \o Rest(sent + 1) = msg
                /\ msg[sent + 1] \in Bytes
            BY <3>1, <6>1, ByteWritten
          <6>3. /\ din' = [reg |-> "data", byte |-> msg[sent + 1]] /\ ibf' /\ sent' = sent + 1
                /\ pc' = "checkIbf" /\ answer' = answer
                /\ cont' = IF sent + 1 = Len(msg) - 1 THEN "end" ELSE "byte"
            BY <3>5, <4>2 DEF ContinueByte, WritePort, NextCheck, CallCheck
          <6>4. Collecting'
            BY <3>1, <6>1, <6>2, <6>3 DEF Collecting, Rest
          <6> QED BY <6>3, <6>4 DEF SendInv, InMessage, AbortLoops
        <5>2. CASE Refusing
          BY <3>1, <3>5, <4>2, <5>2 DEF ContinueByte, WritePort, NextCheck, CallCheck, SendInv,
             InMessage, Refusing, AbortLoops
        <5> QED BY <3>2, <5>1, <5>2
      <4> QED BY <4>1, <4>2
    <3> QED BY <2>2, <3>1, <3>3, <3>4, <3>5 DEF Continue
  <2> QED BY <1>7, <2>1, <2>2 DEF CheckIbfReady, PollEnded, Expected, HostInv
<1>8. CASE CheckObfReady
  BY <1>8 DEF CheckObfReady, PollEnded, CallErrorExit, NoWrite, frame, Continue,
       ContinueFirst, ContinueEnd, ContinueByte, ContinueReadDone, ContinueReadByte,
       NextCheck, CallCheck, Return, WritePort, host, bmc, HostType, BmcType, HostInv,
       PollInv, AbortInv, SendInv, InMessage, Beginning, Collecting, Refusing, AbortLoops,
       BmcInv, Pending, Cmd, Rest
<1>9. CASE CheckGivesUp
  BY <1>9 DEF CheckGivesUp, Polling, CallErrorExit, host, bmc, HostType, BmcType, HostInv,
       PollInv, AbortInv, SendInv, InMessage, Beginning, Collecting, Refusing, AbortLoops,
       BmcInv, Pending, Cmd, Rest
<1>10. CASE AbortIbfReady
  BY <1>10 DEF AbortIbfReady, PollEnded, WritePort, hostInAbort, host, bmc, HostType,
       BmcType, HostInv, PollInv, AbortInv, SendInv, InMessage, Beginning, Collecting,
       Refusing, AbortLoops, BmcInv, Pending, Cmd, Rest
<1>11. CASE AbortCmdReady
  BY <1>11 DEF AbortCmdReady, PollEnded, ReadPort, WritePort, hostInAbort, host, bmc,
       HostType, BmcType, HostInv, PollInv, AbortInv, SendInv, InMessage, Beginning,
       Collecting, Refusing, AbortLoops, BmcInv, Pending, Cmd, Rest
<1>12. CASE AbortZeroReady
  BY <1>12 DEF AbortZeroReady, PollEnded, hostInAbort, AbortFails, Return, CallErrorExit,
       host, bmc, HostType, BmcType, HostInv, PollInv, AbortInv, SendInv, InMessage,
       Beginning, Collecting, Refusing, AbortLoops, BmcInv, Pending, Cmd, Rest
<1>13. CASE AbortObfReady
  BY <1>13 DEF AbortObfReady, PollEnded, ReadPort, WritePort, hostInAbort, host, bmc,
       HostType, BmcType, HostInv, PollInv, AbortInv, SendInv, InMessage, Beginning,
       Collecting, Refusing, AbortLoops, BmcInv, Pending, Cmd, Rest
<1>14. CASE AbortReadReady
  BY <1>14 DEF AbortReadReady, PollEnded, hostInAbort, AbortFails, Return, CallErrorExit,
       host, bmc, HostType, BmcType, HostInv, PollInv, AbortInv, SendInv, InMessage,
       Beginning, Collecting, Refusing, AbortLoops, BmcInv, Pending, Cmd, Rest
<1>15. CASE AbortDoneReady
  BY <1>15 DEF AbortDoneReady, PollEnded, ReadPort, AbortSucceeds, WriteStart,
       CallErrorExit, NoWrite, frame, Continue, ContinueFirst, ContinueEnd, ContinueByte,
       ContinueReadDone, ContinueReadByte, NextCheck, CallCheck, Return, WritePort, host,
       bmc, HostType, BmcType, HostInv, PollInv, AbortInv, SendInv, InMessage, Beginning,
       Collecting, Refusing, AbortLoops, BmcInv, Pending, Cmd, Rest
<1>16. CASE AbortGivesUp
  BY <1>16 DEF AbortGivesUp, Polling, AbortFails, Return, CallErrorExit, host, bmc,
       HostType, BmcType, HostInv, PollInv, AbortInv, SendInv, InMessage, Beginning,
       Collecting, Refusing, AbortLoops, BmcInv, Pending, Cmd, Rest
<1>17. CASE BmcCommand
  <2> SUFFICES ASSUME InMessage PROVE (Beginning \/ Collecting \/ Refusing)'
    BY <1>17 DEF BmcCommand, host, SendInv, InMessage
  <2>1. CASE Beginning
    <3>1. mode' = "write" /\ collected' = <<>> /\ ~ ibf' /\ answer' = NoAnswer
            /\ UNCHANGED <<cont, sent, msg>>
      BY <1>17, <2>1 DEF BmcCommand, host, Beginning, Pending, Cmd
    <3>2. sent = 0 /\ cont = "first"
      BY <2>1 DEF Beginning, InMessage, HostInv
    <3>3. Rest(0) = msg /\ <<>> \o msg = msg
      BY RestEnds, MsgLen, ConcatEmpty DEF Rest
    <3>4. Rest(sent)' = Rest(0)
      BY <3>1, <3>2 DEF Rest
    <3>5. Collecting'
      BY <3>1, <3>2, <3>3, <3>4 DEF Collecting
    <3> QED BY <3>5
  <2>2. CASE Collecting
    BY <1>17, <2>2 DEF BmcCommand, host, Collecting, Pending, Cmd, Rest
  <2>3. CASE Refusing
    BY <1>17, <2>3 DEF BmcCommand, host, Refusing, Cmd
  <2> QED BY <2>1, <2>2, <2>3 DEF SendInv
<1>18. CASE BmcData
  <2> SUFFICES ASSUME InMessage PROVE (Beginning \/ Collecting \/ Refusing)'
    BY <1>18 DEF BmcData, host, SendInv, InMessage
  <2>1. Rest(sent)' = Rest(sent) /\ UNCHANGED <<cont, sent, msg, disturbed>>
    BY <1>18 DEF BmcData, host, Rest
  <2>2. CASE Collecting
    <3>1. /\ mode = "write" /\ Append(collected, din.byte) \o Rest(sent) = msg
          /\ ~ (cont = "byte" /\ sent = Len(msg) - 1)
      BY <1>18, <2>2 DEF BmcData, Collecting, Pending, Cmd
    <3>2. mode' = "write" /\ collected' = Append(collected, din.byte) /\ ~ ibf'
            /\ answer' = answer
      BY <1>18, <3>1 DEF BmcData
    <3> QED BY <2>1, <2>2, <3>1, <3>2 DEF Collecting
  <2>3. CASE Refusing
    BY <1>18, <2>1, <2>3 DEF BmcData, Refusing
  <2>4. ~ Beginning
    BY <1>18 DEF BmcData, Beginning, Pending, Cmd
  <2> QED BY <2>2, <2>3, <2>4 DEF SendInv
<1>19. CASE BmcExecute
  BY <1>19 DEF BmcExecute, PutByte, host, bmc, HostType, BmcType, HostInv, PollInv,
       AbortInv, SendInv, InMessage, Beginning, Collecting, Refusing, AbortLoops, BmcInv,
       Pending, Cmd, Rest
<1>20. CASE BmcErrs
  BY <1>20 DEF BmcErrs, host, bmc, HostType, BmcType, HostInv, PollInv, AbortInv, SendInv,
       InMessage, Beginning, Collecting, Refusing, AbortLoops, BmcInv, Pending, Cmd, Rest
<1>21. CASE BmcResets
  BY <1>21 DEF BmcResets, DummySeen, host, bmc, HostType, BmcType, HostInv, PollInv,
       AbortInv, SendInv, InMessage, Beginning, Collecting, Refusing, AbortLoops, BmcInv,
       Pending, Cmd, Rest
<1>22. CASE UNCHANGED vars
  BY <1>22 DEF vars, host, bmc, HostType, BmcType, HostInv, PollInv, AbortInv, SendInv,
       InMessage, Beginning, Collecting, Refusing, AbortLoops, BmcInv, Pending, Cmd, Rest
<1> QED BY <1>1, <1>2, <1>3, <1>4, <1>5, <1>6, <1>7, <1>8, <1>9, <1>10, <1>11, <1>12,
     <1>13, <1>14, <1>15, <1>16, <1>17, <1>18, <1>19, <1>20, <1>21, <1>22 DEF Next, Host

\* Every step keeps ReceiveInv: after the last byte the BMC has the message,
\* executes it or answers it, and what the host has read and what the BMC has
\* left make up the answer; or the exchange was lost to an error or a restart.
LEMMA ReceiveStep ==
  ASSUME HostType, FlagType, BmcType, HostInv, BmcInv, PollInv, AbortInv, SendInv, ReceiveInv,
         [Next]_vars
  PROVE  ReceiveInv'
<1>1. ASSUME NEW m \in Requests, SendDataToBmcPort(m) PROVE ReceiveInv'
  BY <1>1 DEF SendDataToBmcPort, host, bmc, HostType, BmcType, HostInv, PollInv, AbortInv,
       ReceiveInv, Written, LastByte, Executing, Answering, Answered, Lost, AbortLoops,
       BmcInv
<1>2. CASE ReceiveBmcDataFromPort
  BY <1>2 DEF ReceiveBmcDataFromPort, CallCheck, host, bmc, HostType, BmcType, HostInv,
       PollInv, AbortInv, ReceiveInv, Written, LastByte, Executing, Answering, Answered,
       Lost, AbortLoops, BmcInv
<1>3. CASE Poll
  BY <1>3 DEF Poll, Awaited, bmc, ReceiveInv, Written, LastByte, Executing, Answering, Answered,
     Lost, BmcInv, StateOf, KcsStates, HostInv
<1>4. CASE StartReady
  BY <1>4 DEF StartReady, PollEnded, WriteStart, WritePort, CallCheck, host, bmc, HostType,
       BmcType, HostInv, PollInv, AbortInv, ReceiveInv, Written, LastByte, Executing,
       Answering, Answered, Lost, AbortLoops, BmcInv
<1>5. CASE StartGivesUp
  BY <1>5 DEF StartGivesUp, Polling, CallErrorExit, host, bmc, HostType, BmcType, HostInv,
       PollInv, AbortInv, ReceiveInv, Written, LastByte, Executing, Answering, Answered,
       Lost, AbortLoops, BmcInv
<1>6. CASE StartReadsFF
  BY <1>6 DEF StartReadsFF, Polling, CallErrorExit, host, bmc, HostType, BmcType, HostInv,
       PollInv, AbortInv, ReceiveInv, Written, LastByte, Executing, Answering, Answered,
       Lost, AbortLoops, BmcInv
<1>7. CASE CheckIbfReady
  <2>1. CASE op = "send"
    <3> SUFFICES ASSUME pc' = "idle" PROVE (LastByte \/ Lost)'
      BY <1>7, <2>1 DEF CheckIbfReady, frame, ReceiveInv, Written
    <3>1. /\ pc = "checkIbf" /\ cont = "byte" /\ ContinueByte /\ polled = "Write"
               /\ sent + 1 = Len(msg)
          /\ ~ ibf /\ ~ obf' /\ UNCHANGED <<op, msg, mode, collected, disturbed>>
               /\ polled' = "none"
      BY <1>7, <2>1 DEF CheckIbfReady, PollEnded, PollInv, Expected, HostInv, HostType, frame,
         ReadPort, CallErrorExit, Continue, ContinueFirst, ContinueEnd, ContinueByte, NextCheck,
         CallCheck
    <3>2. /\ din' = [reg |-> "data", byte |-> msg[sent + 1]] /\ ibf' /\ answer' = answer
          /\ Data' = <<>>
      BY <2>1, <3>1 DEF ContinueByte, WritePort, HostInv
    <3>3. CASE Collecting
      <4>1. mode = "writeEnd" /\ collected \o Rest(sent) = msg /\ collected \in Seq(Bytes)
        BY <3>1, <3>3, MsgLen DEF Collecting, Pending, HostType
      <4>2. Append(collected, msg[sent + 1]) = msg
        BY <3>1, <4>1, MsgLen, ByteWritten DEF HostType
      <4> QED BY <3>1, <3>2, <4>1, <4>2 DEF LastByte
    <3>4. CASE Refusing
      BY <3>1, <3>2, <3>4 DEF Refusing, Lost
    <3> QED BY <2>1, <3>1, <3>3, <3>4 DEF SendInv, InMessage, Beginning
  <2>2. CASE op = "receive"
    BY <1>7, <2>2 DEF CheckIbfReady, PollEnded, Expected, CallErrorExit, NoWrite, frame,
       HostInv, PollInv, ReceiveInv, Written, LastByte, Executing, Answering, Answered, Lost,
       FlagType
  <2> QED BY <2>1, <2>2 DEF HostType
<1>8. CASE CheckObfReady
  <2> SUFFICES ASSUME Written' PROVE (Answering \/ Lost)'
    BY DEF ReceiveInv
  <2>1. /\ pc = "checkObf" /\ polled # "none" /\ polled' = "none" /\ op = "receive"
             /\ cont = "read"
        /\ ~ ibf /\ UNCHANGED <<op, msg, mode, collected, remaining, dout, disturbed>>
    BY <1>8 DEF CheckObfReady, PollEnded, PollInv, HostInv, HostType, frame
  <2>2. ~ Idle /\ ~ (Len(Data) >= BufferSize) /\ ContinueReadByte /\ ~ obf'
    BY <1>8, <2>1 DEF CheckObfReady, Continue, ContinueReadDone, ContinueReadByte,
       CallErrorExit, Return, Written, AbortLoops
  <2>3. /\ Data' = Append(Data, dout) /\ ibf' /\ din' = [reg |-> "data", byte |-> "READ"]
        /\ pc' = "checkIbf" /\ answer' = answer
    BY <2>2 DEF ContinueReadByte, WritePort, CallCheck
  <2> QED BY <2>1, <2>2, <2>3 DEF ReceiveInv, Written, LastByte, Executing, Answering, Answered,
         Lost
<1>9. CASE CheckGivesUp
  BY <1>9 DEF CheckGivesUp, Polling, CallErrorExit, host, bmc, HostType, BmcType, HostInv,
       PollInv, AbortInv, ReceiveInv, Written, LastByte, Executing, Answering, Answered,
       Lost, AbortLoops, BmcInv
<1>10. CASE AbortIbfReady
  BY <1>10 DEF AbortIbfReady, PollEnded, WritePort, hostInAbort, host, bmc, HostType,
       BmcType, HostInv, PollInv, AbortInv, ReceiveInv, Written, LastByte, Executing,
       Answering, Answered, Lost, AbortLoops, BmcInv
<1>11. CASE AbortCmdReady
  BY <1>11 DEF AbortCmdReady, PollEnded, ReadPort, WritePort, hostInAbort, host, bmc,
       HostType, BmcType, HostInv, PollInv, AbortInv, ReceiveInv, Written, LastByte,
       Executing, Answering, Answered, Lost, AbortLoops, BmcInv
<1>12. CASE AbortZeroReady
  BY <1>12 DEF AbortZeroReady, PollEnded, hostInAbort, AbortFails, Return, CallErrorExit,
       host, bmc, HostType, BmcType, HostInv, PollInv, AbortInv, ReceiveInv, Written,
       LastByte, Executing, Answering, Answered, Lost, AbortLoops, BmcInv
<1>13. CASE AbortObfReady
  BY <1>13 DEF AbortObfReady, PollEnded, ReadPort, WritePort, hostInAbort, host, bmc,
       HostType, BmcType, HostInv, PollInv, AbortInv, ReceiveInv, Written, LastByte,
       Executing, Answering, Answered, Lost, AbortLoops, BmcInv
<1>14. CASE AbortReadReady
  BY <1>14 DEF AbortReadReady, PollEnded, hostInAbort, AbortFails, Return, CallErrorExit,
       host, bmc, HostType, BmcType, HostInv, PollInv, AbortInv, ReceiveInv, Written,
       LastByte, Executing, Answering, Answered, Lost, AbortLoops, BmcInv
<1>15. CASE AbortDoneReady
  <2> SUFFICES ASSUME Written' PROVE Lost'
    BY DEF ReceiveInv
  <2>1. /\ pc = "abortDone" /\ polled' = "none" /\ mode \in {"idle", "error"} /\ answer = NoAnswer
        /\ ~ obf' /\ UNCHANGED <<op, msg, mode, disturbed>>
    BY <1>15 DEF AbortDoneReady, PollEnded, ReadPort, AbortInv, AbortLoops, frame
  <2>2. caller = "check" /\ Continue(FALSE)
    BY <1>15, <2>1 DEF AbortDoneReady, AbortSucceeds, WriteStart, CallCheck, Return, Written,
       HostInv
  <2>3. answer' = answer /\ (ibf' => din'.reg = "data") /\ (op = "send" => disturbed)
    BY <2>1, <2>2 DEF Continue, ContinueFirst, ContinueEnd, ContinueByte, ContinueReadByte,
       WritePort, NoWrite, NextCheck, CallCheck, CallErrorExit, Written, SendInv, AbortLoops,
       PollInv, HostInv, HostType
  <2> QED BY <2>1, <2>2, <2>3 DEF Lost, Continue, ContinueFirst, ContinueEnd, ContinueByte,
             ContinueReadByte, NextCheck, CallCheck, CallErrorExit, Return
<1>16. CASE AbortGivesUp
  BY <1>16 DEF AbortGivesUp, Polling, AbortFails, Return, CallErrorExit, host, bmc,
       HostType, BmcType, HostInv, PollInv, AbortInv, ReceiveInv, Written, LastByte,
       Executing, Answering, Answered, Lost, AbortLoops, BmcInv
<1>17. CASE BmcCommand
  BY <1>17 DEF BmcCommand, PutByte, host, bmc, HostType, BmcType, HostInv, PollInv,
       AbortInv, ReceiveInv, Written, LastByte, Executing, Answering, Answered, Lost,
       AbortLoops, BmcInv
<1>18. CASE BmcData
  <2> SUFFICES ASSUME Written PROVE (Executing \/ Answering \/ Answered \/ Lost)'
    BY <1>18 DEF BmcData, host, ReceiveInv, Written
  <2>1. ibf /\ ~ ibf' /\ polled = "none" /\ pc # "checkObf" /\ UNCHANGED host
    BY <1>18 DEF BmcData, PollInv
  <2>2. CASE LastByte
    BY <1>18, <2>1, <2>2 DEF BmcData, host, LastByte, Executing
  <2>3. CASE Answering
    <3>1. /\ mode = "read" /\ collected = msg /\ answer # NoAnswer /\ pc # "idle"
               /\ din.byte = "READ"
          /\ answer = [req |-> msg, rep |-> Data \o remaining] /\ Data \in Seq(Bytes)
               /\ remaining \in Seq(Bytes)
      BY <2>1, <2>3 DEF Answering, HostType, BmcType
    <3>2. CASE remaining # <<>>
      <4>1. /\ mode' = mode /\ collected' = collected /\ answer' = answer
            /\ dout' = Head(remaining) /\ obf' /\ remaining' = Tail(remaining)
        BY <1>18, <3>1, <3>2 DEF BmcData, PutByte
      <4>2. Append(Data, Head(remaining)) \o Tail(remaining) = Data \o remaining
        BY <3>1, <3>2, MoveByte
      <4> QED BY <2>1, <3>1, <4>1, <4>2 DEF Answering, host
    <3>3. CASE remaining = <<>>
      <4>1. mode' = "idle" /\ answer' = answer
        BY <1>18, <3>1, <3>3 DEF BmcData
      <4>2. answer = [req |-> msg, rep |-> Data]
        BY <3>1, <3>3, ConcatEmpty
      <4> QED BY <2>1, <3>1, <4>1, <4>2 DEF Answered, host
    <3> QED BY <3>2, <3>3
  <2>4. CASE Lost
    BY <1>18, <2>1, <2>4 DEF BmcData, host, Lost
  <2> QED BY <2>1, <2>2, <2>3, <2>4 DEF ReceiveInv, Executing, Answered
<1>19. CASE BmcExecute
  <2> SUFFICES ASSUME Written PROVE Answering'
    BY <1>19 DEF BmcExecute, host, ReceiveInv, Written
  <2>1. Executing
    BY <1>19 DEF BmcExecute, ReceiveInv, LastByte, Answering, Answered, Lost
  <2>2. PICK r \in Replies : /\ answer' = [req |-> collected, rep |-> r]
                           /\ dout' = Head(r) /\ obf'
                           /\ remaining' = Tail(r)
    BY <1>19 DEF BmcExecute, PutByte
  <2>3. r \in Seq(Bytes) /\ r # <<>> /\ <<>> \in Seq(Bytes)
    BY MessageAssumption
  <2>4. Append(<<>>, Head(r)) \o Tail(r) = r
    BY <2>3, MoveByte, ConcatEmpty
  <2>5. answer' # NoAnswer
    BY <2>1, <2>2, MessageAssumption DEF Executing, HostType
  <2> QED BY <1>19, <2>1, <2>2, <2>4, <2>5 DEF BmcExecute, host, Executing, Answering
<1>20. CASE BmcErrs
  BY <1>20 DEF BmcErrs, host, bmc, HostType, BmcType, HostInv, PollInv, AbortInv,
       ReceiveInv, Written, LastByte, Executing, Answering, Answered, Lost, AbortLoops,
       BmcInv
<1>21. CASE BmcResets
  BY <1>21 DEF BmcResets, DummySeen, host, bmc, HostType, BmcType, HostInv, PollInv,
       AbortInv, ReceiveInv, Written, LastByte, Executing, Answering, Answered, Lost,
       AbortLoops, BmcInv
<1>22. CASE UNCHANGED vars
  BY <1>22 DEF vars, host, bmc, HostType, BmcType, HostInv, PollInv, AbortInv, ReceiveInv,
       Written, LastByte, Executing, Answering, Answered, Lost, AbortLoops, BmcInv
<1> QED BY <1>1, <1>2, <1>3, <1>4, <1>5, <1>6, <1>7, <1>8, <1>9, <1>10, <1>11, <1>12,
     <1>13, <1>14, <1>15, <1>16, <1>17, <1>18, <1>19, <1>20, <1>21, <1>22 DEF Next, Host

-------------------------------------------------------------------------------
(***************************************************************************)
(* Invariance.                                                             *)
(***************************************************************************)

\* Both sides at rest satisfy every part of the invariant.
LEMMA InitInv == Init => IInv
<1> SUFFICES ASSUME Init PROVE IInv
  OBVIOUS
<1>1. <<>> \in Seq(Bytes) /\ Len(<<>>) = 0
  OBVIOUS
<1>2. HostType
  BY <1>1, MessageAssumption DEF Init, HostType
<1>3. FlagType /\ BmcType
  BY <1>1, Constants DEF Init, FlagType, BmcType, KcsStates
<1>4. BmcInv /\ WholeInv /\ PollInv /\ HostInv /\ AbortInv
  BY <1>1 DEF Init, BmcInv, StateOf, WholeInv, PollInv, HostInv, AbortInv, AbortLoops
<1>5. SendInv /\ ReceiveInv
  BY DEF Init, SendInv, InMessage, AbortLoops, ReceiveInv, Written
<1> QED BY <1>2, <1>3, <1>4, <1>5 DEF IInv

\* Every step keeps every part.
LEMMA StepInv == IInv /\ [Next]_vars => IInv'
<1> SUFFICES ASSUME IInv, [Next]_vars PROVE IInv'
  OBVIOUS
<1>1. HostType' /\ FlagType' /\ BmcType'
  BY HostTypeStep, FlagStep, BmcTypeStep DEF IInv
<1>2. BmcInv' /\ WholeInv' /\ PollInv' /\ HostInv'
  BY BmcStep, WholeStep, PollStep, HostStep DEF IInv
<1>3. AbortInv' /\ SendInv' /\ ReceiveInv'
  BY AbortStep, SendStep, ReceiveStep DEF IInv
<1> QED BY <1>1, <1>2, <1>3 DEF IInv

\* The inductive invariant holds.
LEMMA Invariance == Spec => []IInv
BY InitInv, StepInv, PTL DEF Spec

\* TypeOK: the host never stores more than its buffer holds and never indexes a
\* message beyond its end, whatever state the BMC is found in.
THEOREM TypeCorrect == Spec => []TypeOK
<1>1. IInv => TypeOK
  BY TypeParts DEF IInv, WholeInv
<1> QED BY <1>1, Invariance, PTL

\* SendDelivers: EFI_SUCCESS from SendDataToBmcPort means that the message
\* arrived whole if the BMC neither erred nor restarted since the call, after
\* any history of calls given up half way.
THEOREM SendCorrect == Spec => []SendDelivers
<1>1. IInv => SendDelivers
  BY DEF IInv, SendDelivers, Delivered, ReceiveInv, Written, LastByte, Executing, Answering,
     Answered, Lost
<1> QED BY <1>1, Invariance, PTL

\* A step that leaves IBF set writes nothing: the host's poll has not ended.
LEMMA NoWriteOver ==
  ASSUME PollInv, Next, ibf, ibf'
  PROVE  din' = din
<1>1. polled = "none" /\ pc \notin {"checkObf", "abortObf", "abortDone"}
  BY DEF PollInv
<1>2. CASE \E m \in Requests : SendDataToBmcPort(m)
  BY <1>2 DEF SendDataToBmcPort
<1>3. CASE ReceiveBmcDataFromPort
  BY <1>3 DEF ReceiveBmcDataFromPort
<1>4. CASE Host
  BY <1>1, <1>4 DEF Host, Poll, StartReady, StartGivesUp, StartReadsFF, CheckIbfReady,
     CheckObfReady, CheckGivesUp, AbortIbfReady, AbortCmdReady, AbortZeroReady, AbortObfReady,
     AbortReadReady, AbortDoneReady, AbortGivesUp, AbortFails, PollEnded
<1>5. CASE BmcCommand \/ BmcData \/ BmcExecute \/ BmcErrs \/ BmcResets
  BY <1>5 DEF BmcCommand, BmcData, BmcExecute, BmcErrs, BmcResets
<1> QED BY <1>2, <1>3, <1>4, <1>5 DEF Next

\* NoOverrun: each of the host's writes follows a poll that found IBF clear, or
\* one that found OBF set while the host alone can set IBF.
THEOREM NeverOverruns == Spec => NoOverrun
<1>1. IInv /\ [Next]_vars => [ibf /\ ibf' => din' = din]_vars
  BY NoWriteOver DEF IInv
<1> QED BY <1>1, Invariance, PTL DEF Spec, NoOverrun
-------------------------------------------------------------------------------
(***************************************************************************)
(* Refinement: what the steps are to BmcChannel.                           *)
(***************************************************************************)
ChannelStep == [Channel!Next]_(Channel!vars)

\* Steps that leave the request under execution, the answer and what the host
\* took alone.
LEMMA StutterStep ==
  ASSUME mode' = "exec" <=> mode = "exec", mode = "exec" => collected' = collected,
         answer' = answer, taken' = taken
  PROVE  ChannelStep
BY DEF ChannelStep, Channel!vars

\* The BMC begins to execute a request: the channel delivers it.
LEMMA DeliverStep ==
  ASSUME mode # "exec", answer = NoAnswer, mode' = "exec", collected' \in Requests,
         answer' = NoAnswer, taken' = taken
  PROVE  ChannelStep
<1>1. Channel!Deliver(collected')
  BY DEF Channel!Deliver
<1> QED BY <1>1 DEF ChannelStep, Channel!Next

\* It is done: the channel answers.
LEMMA AnswerStep ==
  ASSUME mode = "exec", answer = NoAnswer, mode' # "exec", NEW r \in Replies,
         answer' = [req |-> collected, rep |-> r], answer' # NoAnswer, taken' = taken
  PROVE  ChannelStep
<1>1. Channel!Answer
  BY DEF Channel!Answer
<1> QED BY <1>1 DEF ChannelStep, Channel!Next, Channel!Bmc

\* It stops executing without an answer: the channel loses the request.
LEMMA LoseRequestStep ==
  ASSUME mode = "exec", mode' # "exec", answer' = answer, taken' = taken
  PROVE  ChannelStep
<1>1. Channel!LoseRequest
  BY DEF Channel!LoseRequest
<1> QED BY <1>1 DEF ChannelStep, Channel!Next, Channel!Bmc

\* It drops an answer: the channel loses it.
LEMMA LoseAnswerStep ==
  ASSUME mode # "exec", mode' # "exec", answer # NoAnswer, answer' = NoAnswer, taken' = taken
  PROVE  ChannelStep
<1>1. Channel!LoseAnswer
  BY DEF Channel!LoseAnswer
<1> QED BY <1>1 DEF ChannelStep, Channel!Next, Channel!Bmc

\* The host has the last byte of an answer: the channel hands it over.
LEMMA TakeStep ==
  ASSUME mode # "exec", mode' # "exec", answer # NoAnswer, answer' = NoAnswer, taken' = answer
  PROVE  ChannelStep
<1>1. Channel!Take
  BY DEF Channel!Take
<1> QED BY <1>1 DEF ChannelStep, Channel!Next

\* The host takes an answer when it reads the dummy byte, and does nothing else
\* to the channel.
LEMMA HostChannel == ASSUME IInv, Host PROVE ChannelStep
<1>1. CASE CheckObfReady
  <2>1. /\ pc = "checkObf" /\ polled # "none" /\ cont = "read" /\ op = "receive"
        /\ UNCHANGED <<mode, collected>>
    BY <1>1 DEF CheckObfReady, PollEnded, IInv, HostType, HostInv, frame
  <2>2. CASE Idle
    <3>1. taken' = [req |-> msg, rep |-> Data] /\ answer' = NoAnswer
      BY <1>1, <2>1, <2>2 DEF CheckObfReady, Continue, ContinueReadDone
    <3>2. mode \in {"idle", "error"} /\ answer = [req |-> msg, rep |-> Data] /\ answer # NoAnswer
      BY <2>1, <2>2 DEF IInv, PollInv, ReceiveInv, Written, LastByte, Executing, Answering,
         Answered, Lost
    <3> QED BY <2>1, <3>1, <3>2, TakeStep
  <2>3. CASE ~ Idle
    <3>1. taken' = taken /\ answer' = answer
      BY <1>1, <2>1, <2>3 DEF CheckObfReady, Continue, ContinueReadByte
    <3> QED BY <2>1, <3>1, StutterStep
  <2> QED BY <2>2, <2>3
<1>2. CASE CheckIbfReady \/ AbortDoneReady
  <2>1. UNCHANGED <<mode, collected, answer, taken>>
    BY <1>2 DEF CheckIbfReady, AbortDoneReady, AbortSucceeds, frame, Continue, ContinueFirst,
       ContinueEnd, ContinueByte, ContinueReadByte
  <2> QED BY <2>1, StutterStep
<1>3. CASE Poll \/ StartReady \/ StartGivesUp \/ StartReadsFF \/ CheckGivesUp
  <2>1. UNCHANGED <<mode, collected, answer, taken>>
    BY <1>3 DEF Poll, StartReady, StartGivesUp, StartReadsFF, CheckGivesUp, bmc
  <2> QED BY <2>1, StutterStep
<1>4. CASE \/ AbortIbfReady \/ AbortCmdReady \/ AbortZeroReady \/ AbortObfReady \/ AbortReadReady
           \/ AbortGivesUp
  <2>1. UNCHANGED <<mode, collected, answer, taken>>
    BY <1>4 DEF AbortIbfReady, AbortCmdReady, AbortZeroReady, AbortObfReady, AbortReadReady,
       AbortGivesUp, AbortFails, hostInAbort, bmc
  <2> QED BY <2>1, StutterStep
<1> QED BY <1>1, <1>2, <1>3, <1>4 DEF Host

\* A command of the host cancels what the BMC executes, or its answer.
LEMMA CommandChannel == ASSUME IInv, BmcCommand PROVE ChannelStep
<1>1. mode' # "exec" /\ answer' = NoAnswer /\ taken' = taken
  BY DEF BmcCommand, host
<1>2. CASE mode = "exec"
  BY <1>1, <1>2, LoseRequestStep DEF IInv, BmcInv
<1>3. CASE mode # "exec" /\ answer # NoAnswer
  BY <1>1, <1>3, LoseAnswerStep
<1>4. CASE mode # "exec" /\ answer = NoAnswer
  BY <1>1, <1>4, StutterStep
<1> QED BY <1>2, <1>3, <1>4

\* The last byte completes a request of the host's; one out of sequence cancels
\* the exchange.
LEMMA DataChannel == ASSUME IInv, BmcData PROVE ChannelStep
<1>1. taken' = taken
  BY DEF BmcData, host
<1>2. CASE mode = "writeEnd"
  <2>1. mode' = "exec" /\ collected' = Append(collected, din.byte) /\ answer' = answer
    BY <1>2 DEF BmcData
  <2>2. collected' \in Requests /\ answer = NoAnswer
    BY <1>2, <2>1 DEF BmcData, IInv, BmcInv, WholeInv
  <2> QED BY <1>1, <1>2, <2>1, <2>2, DeliverStep
<1>3. CASE mode # "writeEnd" /\ mode' = "error"
  <2>1. answer' = NoAnswer
    BY <1>3 DEF BmcData
  <2>2. CASE mode = "exec"
    BY <1>1, <1>3, <2>1, <2>2, LoseRequestStep DEF IInv, BmcInv
  <2>3. CASE mode # "exec" /\ answer # NoAnswer
    BY <1>1, <1>3, <2>1, <2>3, LoseAnswerStep
  <2>4. CASE mode # "exec" /\ answer = NoAnswer
    BY <1>1, <1>3, <2>1, <2>4, StutterStep
  <2> QED BY <2>2, <2>3, <2>4
<1>4. CASE mode # "writeEnd" /\ mode' # "error"
  <2>1. mode # "exec" /\ mode' # "exec" /\ answer' = answer
    BY <1>4 DEF BmcData
  <2> QED BY <1>1, <2>1, StutterStep
<1> QED BY <1>2, <1>3, <1>4

\* The BMC answers the request it executed.
LEMMA ExecuteChannel == ASSUME IInv, BmcExecute PROVE ChannelStep
<1>1. mode = "exec" /\ mode' # "exec" /\ taken' = taken
  BY DEF BmcExecute, host
<1>2. PICK r \in Replies : answer' = [req |-> collected, rep |-> r]
  BY DEF BmcExecute
<1>3. answer = NoAnswer /\ collected \in Requests
  BY <1>1 DEF IInv, BmcInv, WholeInv
<1>4. answer' # NoAnswer
  BY <1>2, <1>3, MessageAssumption
<1> QED BY <1>1, <1>2, <1>3, <1>4, AnswerStep

\* An error or a restart of the BMC loses what it held, or nothing.
LEMMA FailureChannel == ASSUME IInv, BmcErrs \/ BmcResets PROVE ChannelStep
<1>1. mode' # "exec" /\ taken' = taken /\ answer' \in {answer, NoAnswer}
  BY DEF BmcErrs, BmcResets, host
<1>2. CASE mode = "exec"
  BY <1>1, <1>2, LoseRequestStep DEF IInv, BmcInv
<1>3. CASE mode # "exec" /\ answer' # answer
  BY <1>1, <1>3, LoseAnswerStep
<1>4. CASE mode # "exec" /\ answer' = answer
  BY <1>1, <1>4, StutterStep
<1> QED BY <1>2, <1>3, <1>4

\* ImplementsChannel: through any interleaving of polls, aborts, refusals and
\* restarts the BMC executes only whole requests of the host's, and what
\* ReceiveBmcDataFromPort returns is the whole of the answer the BMC gave to the
\* message it was sent last: the transport is the channel the generic layer
\* relies on.
THEOREM KcsImplementsChannel == Spec => ImplementsChannel
<1>1. Init => Channel!Init
  BY DEF Init, Channel!Init
<1>2. IInv /\ [Next]_vars => [Channel!Next]_(Channel!vars)
  <2> SUFFICES ASSUME IInv, [Next]_vars PROVE ChannelStep
    BY DEF ChannelStep
  <2>1. CASE \E m \in Requests : SendDataToBmcPort(m)
    <3>1. UNCHANGED <<mode, collected, answer, taken>>
      BY <2>1 DEF SendDataToBmcPort, bmc
    <3> QED BY <3>1, StutterStep
  <2>2. CASE ReceiveBmcDataFromPort
    <3>1. UNCHANGED <<mode, collected, answer, taken>>
      BY <2>2 DEF ReceiveBmcDataFromPort, bmc
    <3> QED BY <3>1, StutterStep
  <2>3. CASE UNCHANGED vars
    <3>1. UNCHANGED <<mode, collected, answer, taken>>
      BY <2>3 DEF vars, host, bmc
    <3> QED BY <3>1, StutterStep
  <2> QED
    BY <2>1, <2>2, <2>3, HostChannel, CommandChannel, DataChannel, ExecuteChannel, FailureChannel
    DEF Next
<1> QED BY <1>1, <1>2, Invariance, PTL DEF Spec, ImplementsChannel, Channel!Spec
-------------------------------------------------------------------------------
(***************************************************************************)
(* Progress: how many steps the host still takes before it returns, at     *)
(* most, if it polls and fails as often as it can.                         *)
(***************************************************************************)

\* Poll loops up to the end of this check or of this error exit.
LoopsLeft ==
  CASE pc \in {"start", "checkIbf"} -> 8
    [] pc = "checkObf" -> 7
    [] pc = "abortIbf" -> 6
    [] pc = "abortCmd" -> 5
    [] pc = "abortZero" -> 4
    [] pc = "abortObf" -> 3
    [] pc = "abortRead" -> 2
    [] pc = "abortDone" -> 1
    [] pc = "idle" -> 0

\* Two steps for each loop.
PollsLeft == IF polled = "none" THEN 2 * LoopsLeft ELSE 2 * LoopsLeft - 1

\* Checks that follow this one: one for each byte and two for the two commands,
\* or one for each byte there is room for.
ChecksLeft ==
  CASE cont = "first" -> Len(msg) + 2
    [] cont = "byte" -> IF sent = Len(msg) - 1 THEN 1 ELSE Len(msg) - sent + 1
    [] cont = "end" -> 2
    [] cont = "read" -> BufferSize - Len(Data)

\* Waits of SendDataToBmc for the BMC.
WaitsLeft ==
  IF pc = "start" THEN IF late THEN 1 ELSE IF staleIbf THEN 2 ELSE 3
  ELSE IF pc \in AbortLoops /\ caller = "start"
       THEN IF ~ staleIbf THEN 1 ELSE IF late THEN 2 ELSE 3
  ELSE 0

StepsLeft ==
  IF pc = "idle" THEN 0
  ELSE IF pc \in AbortLoops /\ caller = "port" THEN PollsLeft
  ELSE 17 * (1 + WaitsLeft + ChecksLeft) + PollsLeft

\* SendDataToBmc waits with its TimeOut run out only after a successful error
\* exit, which leaves IBF clear.
LateInv == pc = "start" /\ late => ~ ibf

\* The first of two bytes or more is not the last.
LEMMA FirstNotLast == ASSUME NEW n \in Nat, n >= 2 PROVE (0 = n - 1) = FALSE
OBVIOUS

\* Eight loops take sixteen steps.
LEMMA TwoForEach == ASSUME NEW n \in 1..8 PROVE 2 * n \in 1..16 /\ 2 * n - 1 \in 1..16
OBVIOUS

\* A check less is worth the sixteen steps of the next.
LEMMA OneCheckLess ==
  ASSUME NEW a \in Int, NEW b \in Int, a < b
  PROVE  17 * (1 + 0 + a) + 2 * 8 \in Int /\ 17 * (1 + 0 + a) + 2 * 8 < 17 * (1 + b)
OBVIOUS

\* After a check that succeeded one check less is left.
LEMMA ContinueProgress ==
  ASSUME HostType, HostInv, pc # "idle", pc # "start", pc \in AbortLoops => caller = "check",
         NEW i, Continue(i), UNCHANGED <<op, msg>>, polled' = "none"
  PROVE  StepsLeft' \in Int /\ StepsLeft' < 17 * (1 + ChecksLeft)
<1>1. /\ Len(msg) \in Nat /\ Len(msg) >= 2 /\ BufferSize \in Nat /\ sent \in Nat
      /\ Len(Data) \in Nat /\ Len(Data) <= BufferSize
  BY MsgLen, Constants DEF HostType
<1>2. ASSUME pc' = "checkIbf", ChecksLeft' \in Int, ChecksLeft \in Int, ChecksLeft' < ChecksLeft
      PROVE  StepsLeft' \in Int /\ StepsLeft' < 17 * (1 + ChecksLeft)
  <2>1. StepsLeft' = 17 * (1 + 0 + ChecksLeft') + 2 * 8
    BY <1>2 DEF StepsLeft, WaitsLeft, PollsLeft, LoopsLeft, AbortLoops
  <2> QED BY <1>2, <2>1, OneCheckLess
<1>3. CASE cont = "first" /\ ContinueFirst
  <2>1. op = "send" /\ sent = 0
    BY <1>3 DEF HostInv, HostType
  <2>2. sent' = 0 /\ msg' = msg
    BY <1>3, <2>1 DEF ContinueFirst
  <2>3. (0 = Len(msg) - 1) = FALSE
    BY <1>1, FirstNotLast
  <2>4. cont' = "byte" /\ pc' = "checkIbf"
    BY <1>3, <2>3 DEF ContinueFirst, NextCheck, CallCheck
  <2>5. ChecksLeft = Len(msg) + 2
    BY <1>3 DEF ChecksLeft
  <2>6. ChecksLeft' = Len(msg) - 0 + 1
    BY <2>2, <2>3, <2>4 DEF ChecksLeft
  <2> QED BY <1>1, <1>2, <2>4, <2>5, <2>6
<1>4. CASE cont = "end" /\ ContinueEnd
  <2>1. sent' = Len(msg) - 1 /\ cont' = "byte" /\ pc' = "checkIbf" /\ msg' = msg
    BY <1>1, <1>4 DEF ContinueEnd, CallCheck, HostInv, HostType
  <2>2. ChecksLeft = 2 /\ ChecksLeft' = 1
    BY <1>4, <2>1 DEF ChecksLeft
  <2> QED BY <1>2, <2>1, <2>2
<1>5. CASE cont = "byte" /\ ContinueByte
  <2>1. sent < Len(msg)
    BY <1>5 DEF HostInv, HostType
  <2>2. CASE sent + 1 = Len(msg)
    BY <1>1, <1>5, <2>1, <2>2 DEF ContinueByte, Return, StepsLeft, ChecksLeft
  <2>3. CASE sent + 1 # Len(msg)
    <3>1. /\ sent' = sent + 1 /\ pc' = "checkIbf" /\ msg' = msg
          /\ cont' = IF sent + 1 = Len(msg) - 1 THEN "end" ELSE "byte"
      BY <1>5, <2>3 DEF ContinueByte, NextCheck, CallCheck
    <3>2. ChecksLeft = Len(msg) - sent + 1
      BY <1>1, <1>5, <2>3 DEF ChecksLeft
    <3>3. ChecksLeft' = IF sent + 1 = Len(msg) - 1 THEN 2 ELSE Len(msg) - (sent + 1) + 1
      BY <1>1, <3>1 DEF ChecksLeft
    <3> QED BY <1>1, <1>2, <2>1, <2>3, <3>1, <3>2, <3>3
  <2> QED BY <2>2, <2>3
<1>6. CASE cont = "read" /\ ContinueReadDone
  BY <1>1, <1>6 DEF ContinueReadDone, Return, StepsLeft, ChecksLeft
<1>7. CASE cont = "read" /\ ContinueReadByte
  <2>1. CASE Len(Data) >= BufferSize
    BY <1>1, <1>7, <2>1 DEF ContinueReadByte, CallErrorExit, StepsLeft, ChecksLeft, PollsLeft,
       LoopsLeft, AbortLoops
  <2>2. CASE ~ (Len(Data) >= BufferSize)
    <3>1. Data' = Append(Data, dout) /\ pc' = "checkIbf" /\ cont' = "read"
      BY <1>7, <2>2 DEF ContinueReadByte, CallCheck
    <3>2. Len(Data') = Len(Data) + 1
      BY <3>1, <1>1 DEF HostType
    <3>3. ChecksLeft = BufferSize - Len(Data) /\ ChecksLeft' = BufferSize - (Len(Data) + 1)
      BY <1>7, <3>1, <3>2 DEF ChecksLeft
    <3> QED BY <1>1, <1>2, <3>1, <3>3
  <2> QED BY <2>1, <2>2
<1> QED BY <1>3, <1>4, <1>5, <1>6, <1>7 DEF Continue

\* The bound is a number, and the checks left are.
LEMMA StepsLeftType ==
  ASSUME HostType, HostInv
  PROVE  /\ pc # "idle" => ChecksLeft \in Nat /\ PollsLeft \in 1..16
         /\ WaitsLeft \in 0..3
         /\ StepsLeft \in Nat
<1>1. /\ Len(msg) \in Nat /\ Len(msg) >= 2 /\ BufferSize \in Nat /\ sent \in Nat
      /\ Len(Data) \in Nat /\ Len(Data) <= BufferSize /\ sent <= Len(msg)
  BY MsgLen, Constants DEF HostType
<1>2. WaitsLeft \in 0..3
  BY DEF WaitsLeft
<1>3. ASSUME pc # "idle" PROVE ChecksLeft \in Nat /\ PollsLeft \in 1..16
  <2>1. ChecksLeft \in Nat
    BY <1>1 DEF ChecksLeft, HostType
  <2>2. LoopsLeft \in 1..8
    BY <1>3 DEF LoopsLeft, HostType, PollLoops
  <2> QED BY <2>1, <2>2 DEF PollsLeft
<1>4. StepsLeft \in Nat
  BY <1>2, <1>3 DEF StepsLeft
<1> QED BY <1>2, <1>3, <1>4

\* The same in the next state.
LEMMA StepsLeftTypeNext ==
  ASSUME HostType', HostInv'
  PROVE  StepsLeft' \in Nat
<1>1. /\ Len(msg)' \in Nat /\ Len(msg)' >= 2 /\ BufferSize \in Nat /\ sent' \in Nat
      /\ Len(Data)' \in Nat /\ Len(Data)' <= BufferSize /\ sent' <= Len(msg)'
  BY MessageAssumption, Constants DEF HostType
<1>2. WaitsLeft' \in 0..3
  BY DEF WaitsLeft
<1>3. ASSUME pc' # "idle" PROVE ChecksLeft' \in Nat /\ PollsLeft' \in 1..16
  <2>1. ChecksLeft' \in Nat
    BY <1>1 DEF ChecksLeft, HostType
  <2>2. LoopsLeft' \in 1..8
    BY <1>3 DEF LoopsLeft, HostType, PollLoops
  <2>3. PollsLeft' \in {2 * LoopsLeft', 2 * LoopsLeft' - 1}
    BY DEF PollsLeft
  <2> QED BY <2>1, <2>2, <2>3, TwoForEach
<1>4. StepsLeft' \in Nat
  BY <1>2, <1>3 DEF StepsLeft
<1> QED BY <1>4

\* Every step keeps LateInv.
LEMMA LateStep == ASSUME IInv, LateInv, [Next]_vars PROVE LateInv'
<1>1. CASE (\E m \in Requests : SendDataToBmcPort(m)) \/ ReceiveBmcDataFromPort \/ UNCHANGED vars
  BY <1>1 DEF SendDataToBmcPort, ReceiveBmcDataFromPort, CallCheck, vars, host, LateInv
<1>2. CASE Host
  <2> SUFFICES ASSUME pc' = "start" PROVE ~ ibf' \/ ~ late'
    BY DEF LateInv
  <2>1. CASE Poll
    BY <2>1 DEF Poll, LateInv
  <2>2. CASE AbortDoneReady
    <3>1. ~ ibf
      BY <2>2 DEF AbortDoneReady, PollEnded, IInv, PollInv
    <3>2. caller = "start" /\ NoWrite
      BY <2>2 DEF AbortDoneReady, AbortSucceeds, WriteStart, CallCheck, Return, Continue,
         ContinueFirst, ContinueEnd, ContinueByte, ContinueReadDone, ContinueReadByte,
         NextCheck, CallErrorExit
    <3> QED BY <3>1, <3>2 DEF NoWrite
  <2>3. ~ (StartReady \/ StartGivesUp \/ StartReadsFF \/ CheckGivesUp \/ CheckIbfReady)
    BY DEF StartReady, StartGivesUp, StartReadsFF, CheckGivesUp, CheckIbfReady, WriteStart,
       CallCheck, CallErrorExit, Return, Continue, ContinueFirst, ContinueEnd, ContinueByte,
       ContinueReadDone, ContinueReadByte, NextCheck
  <2>4. ~ (CheckObfReady \/ AbortIbfReady \/ AbortCmdReady \/ AbortZeroReady)
    BY DEF CheckObfReady, AbortIbfReady, AbortCmdReady, AbortZeroReady, AbortFails, CallCheck,
       CallErrorExit, Return, Continue, ContinueFirst, ContinueEnd, ContinueByte,
       ContinueReadDone, ContinueReadByte, NextCheck
  <2>5. ~ (AbortObfReady \/ AbortReadReady \/ AbortGivesUp)
    BY DEF AbortObfReady, AbortReadReady, AbortGivesUp, AbortFails, CallErrorExit, Return
  <2> QED BY <1>2, <2>1, <2>2, <2>3, <2>4, <2>5 DEF Host
<1>3. CASE BmcCommand \/ BmcData \/ BmcExecute \/ BmcErrs \/ BmcResets
  BY <1>3 DEF BmcCommand, BmcData, BmcExecute, BmcErrs, BmcResets, host, LateInv
<1> QED BY <1>1, <1>2, <1>3 DEF Next

\* Every step of the host brings the end of its call nearer.
LEMMA HostProgress == ASSUME IInv, LateInv, Host PROVE StepsLeft' < StepsLeft
<1> USE DEF IInv
<1>1. CASE Poll
  <2>1. UNCHANGED <<pc, cont, caller, late, staleIbf, msg, sent, Data>> /\ pc # "idle"
    BY <1>1 DEF Poll
  <2>2. polled = "none" /\ polled' # "none"
    BY <1>1 DEF Poll, BmcType, KcsStates
  <2>3. LoopsLeft' = LoopsLeft /\ WaitsLeft' = WaitsLeft /\ ChecksLeft' = ChecksLeft
    BY <2>1 DEF LoopsLeft, WaitsLeft, ChecksLeft
  <2>4. LoopsLeft \in 1..8
    BY <2>1 DEF LoopsLeft, HostType, PollLoops
  <2>5. PollsLeft' \in Nat /\ PollsLeft \in Nat /\ PollsLeft' < PollsLeft
    BY <2>2, <2>3, <2>4 DEF PollsLeft
  <2> QED BY <2>1, <2>3, <2>5, StepsLeftType DEF StepsLeft
<1>2. CASE StartReady
  <2>1. /\ pc = "start" /\ pc' = "checkIbf" /\ cont = "first" /\ cont' = "first" /\ msg' = msg
        /\ polled # "none" /\ polled' = "none"
    BY <1>2 DEF StartReady, PollEnded, WriteStart, CallCheck, HostInv, HostType
  <2>2. ChecksLeft' = ChecksLeft /\ WaitsLeft \in 1..3 /\ WaitsLeft' = 0
    BY <2>1 DEF ChecksLeft, WaitsLeft, AbortLoops
  <2>3. PollsLeft = 15 /\ PollsLeft' = 16
    BY <2>1 DEF PollsLeft, LoopsLeft
  <2> QED BY <2>1, <2>2, <2>3, StepsLeftType DEF StepsLeft, AbortLoops
<1>3. CASE StartGivesUp \/ StartReadsFF
  <2>1. /\ pc = "start" /\ pc' = "abortIbf" /\ cont = "first" /\ cont' = "first" /\ msg' = msg
        /\ polled = "none" /\ polled' = "none" /\ caller' = "start"
    BY <1>3 DEF StartGivesUp, StartReadsFF, Polling, CallErrorExit, HostInv, HostType
  <2>2. ChecksLeft' = ChecksLeft /\ WaitsLeft \in 1..3 /\ WaitsLeft' \in 1..3
    BY <2>1 DEF ChecksLeft, WaitsLeft, AbortLoops
  <2>3. WaitsLeft' <= WaitsLeft
    BY <1>3, <2>1 DEF StartGivesUp, StartReadsFF, WaitsLeft, AbortLoops, LateInv, FlagType
  <2>4. PollsLeft = 16 /\ PollsLeft' = 12
    BY <2>1 DEF PollsLeft, LoopsLeft
  <2> QED BY <2>1, <2>2, <2>3, <2>4, StepsLeftType DEF StepsLeft, AbortLoops
<1>4. CASE CheckIbfReady
  <2>1. pc = "checkIbf" /\ polled # "none" /\ polled' = "none" /\ UNCHANGED <<op, msg>>
    BY <1>4 DEF CheckIbfReady, PollEnded, frame
  <2>2. StepsLeft = 17 * (1 + 0 + ChecksLeft) + 15 /\ ChecksLeft \in Nat
    BY <2>1, StepsLeftType DEF StepsLeft, WaitsLeft, PollsLeft, LoopsLeft, AbortLoops
  <2>3. CASE Continue(FALSE)
    <3>1. StepsLeft' \in Int /\ StepsLeft' < 17 * (1 + ChecksLeft)
      BY <2>1, <2>3, ContinueProgress DEF AbortLoops
    <3> QED BY <2>2, <3>1
  <2>4. CASE /\ pc' = "checkObf" \/ (pc' = "abortIbf" /\ caller' = "check")
             /\ UNCHANGED <<cont, sent, Data>>
    <3>1. ChecksLeft' = ChecksLeft
      BY <2>1, <2>4 DEF ChecksLeft
    <3>2. PollsLeft' \in {14, 12} /\ WaitsLeft' = 0
      BY <2>1, <2>4 DEF PollsLeft, LoopsLeft, WaitsLeft, AbortLoops
    <3> QED BY <2>2, <2>4, <3>1, <3>2 DEF StepsLeft, AbortLoops
  <2> QED BY <1>4, <2>3, <2>4 DEF CheckIbfReady, CallErrorExit
<1>5. CASE CheckObfReady
  <2>1. pc = "checkObf" /\ polled # "none" /\ polled' = "none" /\ UNCHANGED <<op, msg>>
    BY <1>5 DEF CheckObfReady, PollEnded, frame
  <2>2. StepsLeft = 17 * (1 + 0 + ChecksLeft) + 13 /\ ChecksLeft \in Nat
    BY <2>1, StepsLeftType DEF StepsLeft, WaitsLeft, PollsLeft, LoopsLeft, AbortLoops
  <2>3. StepsLeft' \in Int /\ StepsLeft' < 17 * (1 + ChecksLeft)
    BY <1>5, <2>1, ContinueProgress DEF CheckObfReady, AbortLoops
  <2> QED BY <2>2, <2>3
<1>6. CASE CheckGivesUp
  <2>1. pc \in {"checkIbf", "checkObf"} /\ pc' = "abortIbf" /\ caller' = "port" /\ polled' = "none"
    BY <1>6 DEF CheckGivesUp, Polling, CallErrorExit
  <2>2. StepsLeft' = 12
    BY <2>1 DEF StepsLeft, PollsLeft, LoopsLeft, AbortLoops
  <2>3. StepsLeft >= 17
    BY <2>1, StepsLeftType DEF StepsLeft, AbortLoops
  <2> QED BY <2>2, <2>3, StepsLeftType
<1>7. ASSUME pc \in AbortLoops, polled \in KcsStates \cup {"none"}, polled' = "none", AbortFails
      PROVE  StepsLeft' < StepsLeft
  <2>1. CASE caller = "port"
    BY <1>7, <2>1, StepsLeftType DEF AbortFails, Return, StepsLeft, AbortLoops
  <2>2. CASE caller # "port"
    <3>1. StepsLeft' = 12
      BY <1>7, <2>2 DEF AbortFails, CallErrorExit, StepsLeft, PollsLeft, LoopsLeft, AbortLoops
    <3>2. StepsLeft >= 17
      BY <1>7, <2>2, StepsLeftType DEF StepsLeft, AbortLoops
    <3> QED BY <3>1, <3>2, StepsLeftType
  <2> QED BY <2>1, <2>2
<1>8. ASSUME NEW p \in AbortLoops, NEW q \in AbortLoops, PollEnded(p), pc' = q,
             <<p, q>> \in {<<"abortIbf", "abortCmd">>, <<"abortCmd", "abortZero">>,
                           <<"abortZero", "abortObf">>, <<"abortObf", "abortRead">>,
                           <<"abortRead", "abortDone">>},
             UNCHANGED hostInAbort
      PROVE  StepsLeft' < StepsLeft
  <2>1. /\ pc = p /\ polled # "none" /\ polled' = "none"
        /\ UNCHANGED <<cont, caller, late, staleIbf, msg, sent, Data>>
    BY <1>8 DEF PollEnded, hostInAbort
  <2>2. PollsLeft' = PollsLeft - 1 /\ PollsLeft \in Nat
    BY <1>8, <2>1 DEF PollsLeft, LoopsLeft
  <2>3. WaitsLeft' = WaitsLeft /\ ChecksLeft' = ChecksLeft
    BY <1>8, <2>1 DEF WaitsLeft, ChecksLeft, AbortLoops
  <2>4. p # "idle" /\ q # "idle"
    BY DEF AbortLoops
  <2> QED BY <1>8, <2>1, <2>2, <2>3, <2>4, StepsLeftType DEF StepsLeft
<1>9. CASE \/ AbortIbfReady \/ AbortCmdReady \/ AbortZeroReady \/ AbortObfReady \/ AbortReadReady
           \/ AbortGivesUp
  BY <1>7, <1>8, <1>9 DEF AbortIbfReady, AbortCmdReady, AbortZeroReady, AbortObfReady,
     AbortReadReady, AbortGivesUp, PollEnded, Polling, AbortLoops, HostType
<1>10. CASE AbortDoneReady
  <2>1. pc = "abortDone" /\ polled # "none" /\ polled' = "none" /\ UNCHANGED <<op, msg, late, staleIbf>>
    BY <1>10 DEF AbortDoneReady, PollEnded, frame
  <2>2. PollsLeft = 1
    BY <2>1 DEF PollsLeft, LoopsLeft
  <2>3. CASE caller = "start"
    <3>1. op = "send" /\ cont = "first"
      BY <2>1, <2>3 DEF HostInv, HostType, AbortLoops
    <3>2. cont' = "first" /\ pc' = IF staleIbf THEN "start" ELSE "checkIbf"
      BY <1>10, <2>3, <3>1 DEF AbortDoneReady, AbortSucceeds, WriteStart, CallCheck
    <3>3. ChecksLeft' = ChecksLeft /\ PollsLeft' = 16
      BY <2>1, <3>1, <3>2 DEF ChecksLeft, PollsLeft, LoopsLeft
    <3>4. WaitsLeft' + 1 = WaitsLeft /\ WaitsLeft' \in Nat
      BY <2>1, <2>3, <3>2 DEF WaitsLeft, AbortLoops
    <3> QED BY <2>1, <2>2, <2>3, <3>2, <3>3, <3>4, StepsLeftType DEF StepsLeft, AbortLoops
  <2>4. CASE caller = "check"
    <3>1. Continue(FALSE)
      BY <1>10, <2>4 DEF AbortDoneReady, AbortSucceeds
    <3>2. StepsLeft' \in Int /\ StepsLeft' < 17 * (1 + ChecksLeft)
      BY <2>1, <2>4, <3>1, ContinueProgress DEF AbortLoops
    <3>3. StepsLeft = 17 * (1 + 0 + ChecksLeft) + 1 /\ ChecksLeft \in Nat
      BY <2>1, <2>2, <2>4, StepsLeftType DEF StepsLeft, WaitsLeft, AbortLoops
    <3> QED BY <3>2, <3>3
  <2>5. CASE caller = "port"
    <3>1. StepsLeft' = 0
      BY <1>10, <2>5 DEF AbortDoneReady, AbortSucceeds, Return, StepsLeft
    <3>2. StepsLeft = 1
      BY <2>1, <2>2, <2>5 DEF StepsLeft, AbortLoops
    <3> QED BY <3>1, <3>2
  <2> QED BY <2>3, <2>4, <2>5 DEF HostType
<1> QED BY <1>1, <1>2, <1>3, <1>4, <1>5, <1>6, <1>9, <1>10 DEF Host

\* The steps of a call are bounded, whatever the BMC does and however often it
\* errs or restarts: a step of the host takes one off the bound, the BMC cannot
\* raise it, and a call begins with 17 steps for each byte of the message, or of
\* the buffer, and 118 at most besides.
THEOREM CallBounded ==
  Spec => [][/\ Host => StepsLeft' < StepsLeft
             /\ StepsLeft \in Nat /\ (StepsLeft = 0 <=> pc = "idle")
             /\ StepsLeft' > StepsLeft =>
                  pc = "idle" /\ StepsLeft' <= 17 * (Len(msg') + BufferSize) + 118]_vars
<1> DEFINE LInv == IInv /\ LateInv
<1>1. Init => LInv
  BY InitInv DEF Init, LateInv
<1>2. LInv /\ [Next]_vars => LInv'
  BY StepInv, LateStep
<1>3. LInv /\ [Next]_vars =>
        [/\ Host => StepsLeft' < StepsLeft
         /\ StepsLeft \in Nat /\ (StepsLeft = 0 <=> pc = "idle")
         /\ StepsLeft' > StepsLeft =>
              pc = "idle" /\ StepsLeft' <= 17 * (Len(msg') + BufferSize) + 118]_vars
  <2> SUFFICES ASSUME IInv, LateInv, Next
               PROVE  /\ Host => StepsLeft' < StepsLeft
                      /\ StepsLeft \in Nat /\ (StepsLeft = 0 <=> pc = "idle")
                      /\ StepsLeft' > StepsLeft =>
                           pc = "idle" /\ StepsLeft' <= 17 * (Len(msg') + BufferSize) + 118
    OBVIOUS
  <2>1. StepsLeft \in Nat /\ (StepsLeft = 0 <=> pc = "idle") /\ StepsLeft' \in Nat
    <3>1. StepsLeft \in Nat /\ StepsLeft' \in Nat
      BY StepsLeftType, StepsLeftTypeNext, StepInv DEF IInv
    <3> QED BY <3>1, StepsLeftType DEF StepsLeft, IInv
  <2>2. CASE Host
    BY <2>1, <2>2, HostProgress
  <2>3. CASE BmcCommand \/ BmcData \/ BmcExecute \/ BmcErrs \/ BmcResets
    <3>1. UNCHANGED host
      BY <2>3 DEF BmcCommand, BmcData, BmcExecute, BmcErrs, BmcResets
    <3>2. StepsLeft' = StepsLeft
      BY <3>1 DEF host, StepsLeft, WaitsLeft, ChecksLeft, PollsLeft, LoopsLeft
    <3>3. ~ Host \/ StepsLeft' < StepsLeft
      BY HostProgress
    <3> QED BY <2>1, <3>2, <3>3
  <2>4. CASE \E m \in Requests : SendDataToBmcPort(m)
    <3>1. PICK m \in Requests : SendDataToBmcPort(m)
      BY <2>4
    <3>2. Len(m) \in Nat /\ BufferSize \in Nat
      BY MessageAssumption
    <3>3. /\ pc = "idle" /\ pc' = "start" /\ msg' = m /\ cont' = "first" /\ polled' = "none"
          /\ late' = FALSE /\ staleIbf' = FALSE
      BY <3>1 DEF SendDataToBmcPort, IInv, PollInv
    <3>4. ChecksLeft' = Len(m) + 2 /\ WaitsLeft' = 3 /\ PollsLeft' = 16
      BY <3>3 DEF ChecksLeft, WaitsLeft, PollsLeft, LoopsLeft
    <3>5. StepsLeft' = 17 * (1 + 3 + (Len(m) + 2)) + 16
      BY <3>3, <3>4 DEF StepsLeft, AbortLoops
    <3>6. ~ Host \/ StepsLeft' < StepsLeft
      BY HostProgress
    <3> QED BY <2>1, <3>2, <3>3, <3>5, <3>6
  <2>5. CASE ReceiveBmcDataFromPort
    <3>1. BufferSize \in Nat /\ Len(msg) \in Nat /\ Len(<<>>) = 0
      BY MsgLen, Constants DEF IInv
    <3>2. /\ pc = "idle" /\ pc' = "checkIbf" /\ msg' = msg /\ cont' = "read" /\ polled' = "none"
          /\ Data' = <<>>
      BY <2>5 DEF ReceiveBmcDataFromPort, CallCheck, IInv, PollInv
    <3>3. ChecksLeft' = BufferSize - 0 /\ WaitsLeft' = 0 /\ PollsLeft' = 16
      BY <3>1, <3>2 DEF ChecksLeft, WaitsLeft, PollsLeft, LoopsLeft, AbortLoops
    <3>4. StepsLeft' = 17 * (1 + 0 + (BufferSize - 0)) + 16
      BY <3>2, <3>3 DEF StepsLeft, AbortLoops
    <3>5. ~ Host \/ StepsLeft' < StepsLeft
      BY HostProgress
    <3> QED BY <2>1, <3>1, <3>2, <3>4, <3>5
  <2> QED BY <2>2, <2>3, <2>4, <2>5 DEF Next
<1> QED BY <1>1, <1>2, <1>3, PTL DEF Spec
-------------------------------------------------------------------------------
(***************************************************************************)
(* KcsSmi.  Whatever handlers that gave up have left behind, the executing *)
(* driver is in some place of its calls, the BMC's state follows its mode, *)
(* and a request is answered with one of its answers.                      *)
(***************************************************************************)
AnswerInv ==
  answer # NoAnswer =>
    /\ mode # "error"
    /\ answer.req \in Requests => answer.rep \in AnswersTo[answer.req]

Typed == HostType /\ FlagType /\ BmcType /\ BmcInv /\ HostInv /\ AnswerInv

\* HostType, FlagType and HostInv of the driver that an SMI interrupted.
ContextType(c) ==
  /\ c.pc \in PollLoops \cup {"idle"}
  /\ c.polled \in KcsStates \cup {"none"}
  /\ c.op \in {"send", "receive"}
  /\ c.outcome \in {"none", "ok", "error"}
  /\ c.msg \in Requests
  /\ c.sent \in 0..Len(c.msg)
  /\ c.Data \in Seq(Bytes) /\ Len(c.Data) <= BufferSize
  /\ c.cont \in {"first", "end", "byte", "read"}
  /\ c.caller \in {"start", "check", "port"}
  /\ c.Idle \in BOOLEAN /\ c.staleIbf \in BOOLEAN /\ c.late \in BOOLEAN

ContextInv(c) ==
  /\ c.pc # "idle" <=> c.outcome = "none"
  /\ c.op = "send" => c.cont # "read" /\ c.Data = <<>> /\ c.pc # "checkObf"
  /\ c.op = "receive" /\ c.pc # "idle" => c.cont = "read" /\ c.pc # "start" /\ c.caller # "start"
  /\ c.op = "send" /\ c.pc # "idle" =>
       /\ c.sent < Len(c.msg)
       /\ c.cont = "first" => c.sent = 0
       /\ c.cont = "end" => c.sent = Len(c.msg) - 1
       /\ c.pc = "start" \/ (c.pc \in AbortLoops /\ c.caller = "start") => c.cont = "first"

\* It has read the whole of its answer if it has seen the dummy byte.
Kept(c) ==
  /\ c.pc = "idle" => c.polled = "none"
  /\ c.pc = "checkObf" /\ c.Idle /\ c.polled # "none" => c.Data \in AnswersTo[c.msg]

SavedInv ==
  InSmi => /\ ContextType(saved[1]) /\ ContextInv(saved[1])
           /\ ~ broken => Kept(saved[1])

\* A handler's command has completed: nothing of it is left in the interface.
Completed ==
  InSmi /\ pc = "idle" /\ op = "receive" /\ outcome = "ok" =>
    mode = "idle" /\ ~ ibf /\ ~ obf /\ answer = NoAnswer

\* DXE has seen the dummy byte of its own answer before the SMI, and will
\* return that answer although the BMC no longer knows of it.
Beyond ==
  /\ ~ InSmi
  /\ pc = "checkObf" /\ Idle /\ polled # "none" /\ op = "receive" /\ cont = "read"
  /\ mode = "idle" /\ ~ ibf /\ answer = NoAnswer
  /\ Data \in AnswersTo[msg]

\* What KcsTransport's invariant says of the executing driver.
RunInv == PollInv /\ AbortInv /\ SendInv /\ (ReceiveInv \/ Beyond)

\* A handler starts afresh, so that RunInv holds in SMM in any case.
SmiInv ==
  /\ Typed /\ SavedInv /\ Completed
  /\ broken \in BOOLEAN
  /\ InSmi \/ ~ broken => RunInv
  /\ ~ broken => WholeInv

\* A step of the executing driver or of the BMC, which does not fail.
Working ==
  /\ \/ ~ InSmi /\ \E m \in Requests : SendDataToBmcPort(m)
     \/ ReceiveBmcDataFromPort
     \/ Host
     \/ BmcCommand \/ BmcData
     \/ BmcExecute /\ (collected \in Requests => answer'.rep \in AnswersTo[collected])
     \/ UNCHANGED vars
  /\ UNCHANGED smi

\* Any other step enters or leaves SMM.
LEMMA SmiSteps ==
  ASSUME [SmiNext]_smiVars
  PROVE  Working \/ (\E m \in SmmRequests : EnterSmi(m)) \/ LeaveSmi
<1>1. CASE UNCHANGED smiVars
  BY <1>1 DEF Working, smiVars
<1>2. CASE \E m \in DxeRequests : DxeSend(m)
  BY <1>2, SmiAssumption DEF DxeSend, Working
<1>3. CASE PortReceive \/ PortSteps
  BY <1>3 DEF PortReceive, PortSteps, Working
<1>4. CASE Bmc
  BY <1>4 DEF Bmc, Working
<1> QED BY <1>1, <1>2, <1>3, <1>4 DEF SmiNext

\* KcsTransport takes the working steps.
LEMMA WorkingNext == ASSUME Working PROVE [Next]_vars
BY DEF Working, Next

\* The BMC answers a request with one of its answers, and gives up an answer
\* when it refuses something.
LEMMA WorkingAnswer ==
  ASSUME BmcInv, AnswerInv, Working
  PROVE  AnswerInv'
<1>1. CASE \/ \E m \in Requests : SendDataToBmcPort(m)
           \/ ReceiveBmcDataFromPort \/ UNCHANGED vars
  <2>1. UNCHANGED <<mode, answer>>
    BY <1>1 DEF SendDataToBmcPort, ReceiveBmcDataFromPort, vars, bmc
  <2> QED BY <2>1 DEF AnswerInv
<1>2. CASE Host
  <2>1. mode' = mode /\ answer' \in {answer, NoAnswer}
    BY <1>2, HostAnswer
  <2> QED BY <2>1 DEF AnswerInv
<1>3. CASE BmcCommand
  BY <1>3 DEF BmcCommand, AnswerInv
<1>4. CASE BmcData
  BY <1>4 DEF BmcData, AnswerInv
<1>5. CASE BmcExecute /\ (collected \in Requests => answer'.rep \in AnswersTo[collected])
  <2>1. mode' = "read" /\ answer'.req = collected
    BY <1>5 DEF BmcExecute
  <2> QED BY <1>5, <2>1 DEF AnswerInv
<1> QED BY <1>1, <1>2, <1>3, <1>4, <1>5 DEF Working

\* The driver stays in some place of its calls, the BMC in some mode.
LEMMA WorkingTyped == ASSUME Typed, Working PROVE Typed'
<1>1. [Next]_vars
  BY WorkingNext
<1>2. HostType' /\ FlagType' /\ BmcType'
  BY <1>1, HostTypeStep, FlagStep, BmcTypeStep DEF Typed
<1>3. BmcInv' /\ HostInv' /\ AnswerInv'
  BY <1>1, BmcStep, HostStep, WorkingAnswer DEF Typed
<1> QED BY <1>2, <1>3 DEF Typed

\* From Beyond the driver can only return its answer.
LEMMA BeyondStep ==
  ASSUME Beyond, Working
  PROVE  UNCHANGED vars \/ (CheckObfReady /\ ContinueReadDone)
<1>1. CASE Host
  <2>1. CheckObfReady
    BY <1>1 DEF Beyond, Host, Poll, StartReady, StartGivesUp, StartReadsFF, CheckIbfReady,
       CheckGivesUp, AbortIbfReady, AbortCmdReady, AbortZeroReady, AbortObfReady,
       AbortReadReady, AbortDoneReady, AbortGivesUp, PollEnded, Polling
  <2> QED BY <2>1 DEF Beyond, CheckObfReady, Continue
<1> QED BY <1>1 DEF Beyond, Working, SendDataToBmcPort, ReceiveBmcDataFromPort, BmcCommand,
     BmcData, BmcExecute

\* Every working step keeps RunInv.
LEMMA RunStep == ASSUME Typed, RunInv, Working PROVE RunInv'
<1>1. [Next]_vars
  BY WorkingNext
<1>2. CASE ReceiveInv
  BY <1>1, <1>2, PollStep, AbortStep, SendStep, ReceiveStep DEF Typed, RunInv
<1>3. CASE Beyond /\ CheckObfReady /\ ContinueReadDone
  <2>1. pc' = "idle" /\ polled' = "none" /\ op' = "receive"
    BY <1>3 DEF Beyond, CheckObfReady, PollEnded, ContinueReadDone, Return, frame
  <2>2. PollInv' /\ AbortInv'
    BY <2>1 DEF PollInv, AbortInv, AbortLoops
  <2>3. SendInv' /\ ReceiveInv'
    BY <2>1 DEF SendInv, InMessage, ReceiveInv, Written, AbortLoops
  <2> QED BY <2>2, <2>3 DEF RunInv
<1>4. CASE Beyond /\ UNCHANGED vars
  <2>1. PollInv' /\ AbortInv'
    BY <1>4 DEF RunInv, vars, host, bmc, PollInv, AbortInv, Pending
  <2>2. SendInv'
    BY <1>4 DEF Beyond, vars, host, bmc, SendInv, InMessage, AbortLoops
  <2>3. Beyond'
    BY <1>4 DEF Working, smi, Beyond, InSmi, vars, host, bmc
  <2> QED BY <2>1, <2>2, <2>3 DEF RunInv
<1> QED BY <1>2, <1>3, <1>4, BeyondStep DEF RunInv

\* Only the dummy byte makes ReceiveBmcDataFromPort return EFI_SUCCESS.
LEMMA ReadDone ==
  ASSUME HostType, HostInv, Host, op = "receive", pc' = "idle", outcome' = "ok"
  PROVE  /\ pc = "checkObf" /\ Idle /\ polled # "none"
         /\ taken' = [req |-> msg, rep |-> Data]
         /\ answer' = NoAnswer /\ ~ obf' /\ UNCHANGED <<ibf, mode>>
<1>1. pc # "idle" /\ outcome = "none" /\ cont = "read"
  BY DEF Host, Poll, StartReady, StartGivesUp, StartReadsFF, CheckIbfReady, CheckObfReady,
     CheckGivesUp, AbortIbfReady, AbortCmdReady, AbortZeroReady, AbortObfReady, AbortReadReady,
     AbortDoneReady, AbortGivesUp, PollEnded, Polling, HostInv
<1>2. CheckObfReady
  <2>1. ~ (Poll \/ StartReady \/ StartGivesUp \/ StartReadsFF \/ CheckGivesUp)
    BY <1>1 DEF Poll, StartReady, StartGivesUp, StartReadsFF, CheckGivesUp, WriteStart,
       CallCheck, CallErrorExit
  <2>2. ~ (AbortIbfReady \/ AbortCmdReady \/ AbortZeroReady)
    BY <1>1 DEF AbortIbfReady, AbortCmdReady, AbortZeroReady, AbortFails, Return, CallErrorExit
  <2>3. ~ (AbortObfReady \/ AbortReadReady \/ AbortGivesUp)
    BY <1>1 DEF AbortObfReady, AbortReadReady, AbortGivesUp, AbortFails, Return, CallErrorExit
  <2>4. ~ CheckIbfReady
    BY <1>1 DEF CheckIbfReady, Expected, CallErrorExit
  <2>5. ~ AbortDoneReady
    BY <1>1 DEF AbortDoneReady, AbortSucceeds, WriteStart, CallCheck, Return, Continue,
       ContinueReadByte, CallErrorExit
  <2> QED BY <2>1, <2>2, <2>3, <2>4, <2>5 DEF Host
<1>3. Idle /\ ContinueReadDone
  BY <1>1, <1>2 DEF CheckObfReady, Continue, ContinueReadByte, CallErrorExit, CallCheck
<1> QED BY <1>2, <1>3 DEF CheckObfReady, PollEnded, ContinueReadDone, NoWrite, frame

\* The driver has seen the dummy byte: what it has is an answer to its request.
LEMMA DummyByte ==
  ASSUME Typed, RunInv, pc = "checkObf", Idle, polled # "none"
  PROVE  Data \in AnswersTo[msg] /\ ~ ibf /\ mode = "idle"
<1>1. op = "receive" /\ ~ ibf /\ mode \in {"idle", "error"}
  BY DEF Typed, HostType, HostInv, RunInv, PollInv
<1>2. CASE Beyond
  BY <1>2 DEF Beyond
<1>3. CASE ReceiveInv
  <2>1. answer = [req |-> msg, rep |-> Data] /\ answer # NoAnswer
    BY <1>1, <1>3 DEF ReceiveInv, Written, LastByte, Executing, Answering, Answered, Lost
  <2> QED BY <1>1, <2>1 DEF Typed, AnswerInv, HostType
<1> QED BY <1>2, <1>3 DEF RunInv

\* A handler that has received its response leaves the interface idle until it
\* returns, for the BMC has nothing to do.
LEMMA CompletedStep ==
  ASSUME Typed, InSmi => RunInv, Completed, Working
  PROVE  Completed'
<1> SUFFICES ASSUME InSmi, pc' = "idle", op' = "receive", outcome' = "ok"
             PROVE  (mode = "idle" /\ ~ ibf /\ ~ obf /\ answer = NoAnswer)'
  BY DEF Completed, Working, smi, InSmi
<1>1. CASE ReceiveBmcDataFromPort
  BY <1>1 DEF ReceiveBmcDataFromPort, CallCheck
<1>2. CASE Host
  <2>1. op = "receive"
    BY <1>2 DEF Host, Poll, StartReady, StartGivesUp, StartReadsFF, CheckIbfReady, CheckObfReady,
       CheckGivesUp, AbortIbfReady, AbortCmdReady, AbortZeroReady, AbortObfReady, AbortReadReady,
       AbortDoneReady, AbortGivesUp, AbortFails, hostInAbort, frame
  <2> QED BY <1>2, <2>1, ReadDone, DummyByte DEF Typed
<1>3. CASE BmcCommand \/ BmcData \/ BmcExecute
  <2>1. UNCHANGED host
    BY <1>3 DEF BmcCommand, BmcData, BmcExecute
  <2>2. mode = "idle" /\ ~ ibf
    BY <2>1 DEF host, Completed
  <2> QED BY <1>3, <2>2 DEF BmcCommand, BmcData, BmcExecute
<1>4. CASE UNCHANGED vars
  BY <1>4 DEF Completed, vars, host, bmc
<1> QED BY <1>1, <1>2, <1>3, <1>4 DEF Working

\* Working steps keep the invariant: a handler does not care what an earlier
\* one has left behind.
LEMMA WorkingInv == ASSUME SmiInv, Working PROVE SmiInv'
<1>1. UNCHANGED <<saved, broken>> /\ (InSmi' <=> InSmi) /\ [Next]_vars
  BY WorkingNext DEF Working, smi, InSmi
<1>2. Typed' /\ Completed'
  BY WorkingTyped, CompletedStep DEF SmiInv
<1>3. SavedInv'
  BY <1>1 DEF SmiInv, SavedInv
<1>4. InSmi' \/ ~ broken' => RunInv'
  BY <1>1, RunStep DEF SmiInv
<1>5. ~ broken' => WholeInv'
  BY <1>1, WholeStep DEF SmiInv, Typed, RunInv
<1> QED BY <1>1, <1>2, <1>3, <1>4, <1>5 DEF SmiInv

\* The SMI handler's locals are new, and DXE's are kept.
LEMMA EnterInv == ASSUME SmiInv, NEW m \in SmmRequests, EnterSmi(m) PROVE SmiInv'
<1>1. /\ m \in Requests /\ Len(m) \in Nat /\ Len(m) >= 2
      /\ <<>> \in Seq(Bytes) /\ Len(<<>>) = 0 /\ BufferSize \in Nat
  BY SmiAssumption, MessageAssumption
<1>2. /\ pc' = "start" /\ polled' = "none" /\ op' = "send" /\ outcome' = "none"
      /\ msg' = m /\ sent' = 0 /\ late' = FALSE /\ disturbed' = FALSE
      /\ Data' = <<>> /\ cont' = "first" /\ caller' = "port"
      /\ Idle' = FALSE /\ staleIbf' = FALSE
      /\ UNCHANGED <<state, dout, mode, collected, remaining, answer, ibf, obf, din, broken>>
      /\ ~ InSmi /\ saved' = <<Context>>
  BY DEF EnterSmi, bmc
<1>3. HostType' /\ FlagType'
  <2>1. HostType'
    BY <1>1, <1>2 DEF HostType, PollLoops
  <2> QED BY <1>2, <2>1 DEF SmiInv, Typed, FlagType
<1>4. BmcType' /\ BmcInv' /\ AnswerInv'
  BY <1>2 DEF SmiInv, Typed, BmcType, BmcInv, AnswerInv
<1>5. HostInv'
  BY <1>1, <1>2 DEF HostInv, AbortLoops
<1>6. SavedInv'
  <2>1. saved'[1] = Context
    BY <1>2
  <2>2. ContextType(Context)
    BY DEF SmiInv, Typed, HostType, FlagType, Context, ContextType
  <2>3. ContextInv(Context)
    BY DEF SmiInv, Typed, HostInv, Context, ContextInv
  <2>4. ~ broken => Kept(Context)
    BY DummyByte DEF SmiInv, RunInv, PollInv, Context, Kept
  <2> QED BY <1>2, <2>1, <2>2, <2>3, <2>4 DEF SavedInv
<1>7. RunInv'
  <2>1. PollInv' /\ AbortInv'
    BY <1>2 DEF PollInv, AbortInv, AbortLoops
  <2>2. SendInv' /\ ReceiveInv'
    BY <1>2 DEF SendInv, InMessage, AbortLoops, ReceiveInv, Written
  <2> QED BY <2>1, <2>2 DEF RunInv
<1>8. Completed' /\ (~ broken' => WholeInv') /\ broken' \in BOOLEAN
  BY <1>2 DEF Completed, SmiInv, WholeInv
<1> QED BY <1>3, <1>4, <1>5, <1>6, <1>7, <1>8 DEF SmiInv, Typed

\* To DXE a handler whose command completed is what a restart of the BMC is: it
\* finds the interface idle and what it had under way lost, unless it has seen
\* the end of its answer.
LEMMA LeaveInv == ASSUME SmiInv, LeaveSmi PROVE SmiInv'
<1> DEFINE c == saved[1]
<1>1. /\ InSmi /\ pc = "idle" /\ (op = "receive" \/ outcome = "error")
      /\ pc' = c.pc /\ polled' = c.polled /\ op' = c.op /\ outcome' = c.outcome
      /\ msg' = c.msg /\ sent' = c.sent /\ Data' = c.Data
      /\ cont' = c.cont /\ caller' = c.caller
      /\ Idle' = c.Idle /\ staleIbf' = c.staleIbf /\ late' = c.late
      /\ disturbed' = TRUE
      /\ UNCHANGED <<state, dout, mode, collected, remaining, answer, ibf, obf, din>>
      /\ saved' = <<>> /\ ~ InSmi'
      /\ broken' = (broken \/ outcome = "error")
  BY DEF LeaveSmi, Resume, bmc, InSmi
<1>2. ContextType(c) /\ ContextInv(c) /\ (~ broken => Kept(c))
  BY <1>1 DEF SmiInv, SavedInv
<1> HIDE DEF c
<1>3. HostType' /\ FlagType'
  <2>1. HostType'
    BY <1>1, <1>2 DEF HostType, ContextType
  <2> QED BY <1>1, <1>2, <2>1 DEF SmiInv, Typed, FlagType, ContextType
<1>4. BmcType' /\ BmcInv' /\ AnswerInv'
  BY <1>1 DEF SmiInv, Typed, BmcType, BmcInv, AnswerInv
<1>5. HostInv'
  BY <1>1, <1>2 DEF HostInv, ContextInv
<1>6. SavedInv' /\ Completed' /\ broken' \in BOOLEAN /\ (~ broken' => WholeInv')
  BY <1>1 DEF SavedInv, Completed, SmiInv, WholeInv
<1>7. ASSUME ~ broken' PROVE RunInv'
  <2>1. outcome = "ok" /\ ~ broken
    BY <1>1, <1>7 DEF SmiInv, Typed, HostType, HostInv
  <2>2. (mode = "idle" /\ ~ ibf /\ ~ obf /\ answer = NoAnswer)'
    BY <1>1, <2>1 DEF SmiInv, Completed
  <2>3. PollInv'
    BY <1>1, <1>2, <2>1, <2>2, <1>3 DEF PollInv, Kept, HostType, KcsStates
  <2>4. AbortInv'
    BY <2>2 DEF AbortInv
  <2>5. SendInv'
    BY <1>1, <2>2 DEF SendInv, InMessage, Refusing
  <2>6. ReceiveInv' \/ Beyond'
    <3>1. CASE c.pc = "checkObf" /\ c.Idle /\ c.polled # "none"
      BY <1>1, <1>2, <2>1, <2>2, <3>1 DEF Beyond, Kept, ContextType, ContextInv
    <3>2. CASE ~ (c.pc = "checkObf" /\ c.Idle /\ c.polled # "none")
      BY <1>1, <2>2, <3>2 DEF ReceiveInv, Lost
    <3> QED BY <3>1, <3>2
  <2> QED BY <2>3, <2>4, <2>5, <2>6 DEF RunInv
<1> QED BY <1>1, <1>3, <1>4, <1>5, <1>6, <1>7 DEF SmiInv, Typed

\* The invariant holds, through any number of SMIs.
LEMMA SmiInvariance == SmiSpec => []SmiInv
<1>1. SmiInit => SmiInv
  <2> SUFFICES ASSUME SmiInit PROVE SmiInv
    OBVIOUS
  <2>1. IInv /\ answer = NoAnswer
    BY InitInv DEF SmiInit, Init
  <2>2. Typed /\ RunInv /\ WholeInv
    BY <2>1 DEF IInv, Typed, AnswerInv, RunInv
  <2> QED BY <2>2 DEF SmiInit, SmiInv, SavedInv, Completed, InSmi
<1>2. SmiInv /\ [SmiNext]_smiVars => SmiInv'
  BY SmiSteps, WorkingInv, EnterInv, LeaveInv
<1> QED BY <1>1, <1>2, PTL DEF SmiSpec

\* WholeRequests: wherever SMIs hit the DXE driver's transfers, the BMC executes
\* whole requests of one of the two drivers, as long as the handlers' commands
\* complete.
THEOREM SmiWholeRequests == SmiSpec => []WholeRequests
<1>1. SmiInv => WholeRequests
  BY DEF SmiInv, WholeInv, WholeRequests
<1> QED BY <1>1, SmiInvariance, PTL

\* OwnAnswers: EFI_SUCCESS from ReceiveBmcDataFromPort comes with a whole answer
\* to the request of the driver that called it; a handler's even after handlers
\* that gave up and a DXE driver that went on on top of what they left.
THEOREM SmiOwnAnswers == SmiSpec => OwnAnswers
<1> DEFINE Returned ==
      /\ pc # "idle" /\ pc' = "idle" /\ op = "receive" /\ outcome' = "ok"
      /\ broken => InSmi
<1>1. SmiInv /\ [SmiNext]_smiVars => [Returned => taken'.rep \in AnswersTo[taken'.req]]_smiVars
  <2> SUFFICES ASSUME SmiInv, [SmiNext]_smiVars, Returned
               PROVE  taken'.rep \in AnswersTo[taken'.req]
    OBVIOUS
  <2>1. Working
    BY SmiSteps DEF EnterSmi, LeaveSmi
  <2>2. Typed /\ RunInv
    BY DEF SmiInv
  <2>3. outcome = "none"
    BY <2>2 DEF Typed, HostInv
  <2>4. Host
    BY <2>1, <2>3 DEF Working, SendDataToBmcPort, ReceiveBmcDataFromPort, BmcCommand, BmcData,
       BmcExecute, host, vars
  <2>5. /\ pc = "checkObf" /\ Idle /\ polled # "none"
        /\ taken' = [req |-> msg, rep |-> Data]
    BY <2>2, <2>4, ReadDone DEF Typed
  <2> QED BY <2>2, <2>5, DummyByte
<1> QED BY <1>1, SmiInvariance, PTL DEF SmiSpec, OwnAnswers

\* NoOverrunBySmi: neither driver overwrites a byte the BMC has not read, though
\* DXE may act after an SMI on a poll it made before.
THEOREM SmiNeverOverruns == SmiSpec => NoOverrunBySmi
<1>1. SmiInv /\ [SmiNext]_smiVars => [ibf /\ ibf' /\ ~ broken => din' = din]_smiVars
  <2> SUFFICES ASSUME SmiInv, [SmiNext]_smiVars, ibf, ibf', ~ broken PROVE din' = din
    OBVIOUS
  <2>1. CASE Working
    <3>1. CASE UNCHANGED vars
      BY <3>1 DEF vars
    <3>2. CASE Next
      BY <3>2, NoWriteOver DEF SmiInv, RunInv
    <3> QED BY <2>1, <3>1, <3>2, WorkingNext
  <2>2. CASE (\E m \in SmmRequests : EnterSmi(m)) \/ LeaveSmi
    BY <2>2 DEF EnterSmi, LeaveSmi
  <2> QED BY <2>1, <2>2, SmiSteps
<1> QED BY <1>1, SmiInvariance, PTL DEF SmiSpec, NoOverrunBySmi
===============================================================================
