----------------------------- MODULE KcsTransport -----------------------------
(***************************************************************************)
(* Library/IpmiTransportLibKcs/KcsBmc.c: the host side of the Keyboard     *)
(* Controller Style interface, poll by poll, against a BMC that is slow,   *)
(* reports errors or resets at any point.                                  *)
(*                                                                         *)
(* A host step is the read of the status register that ends a poll loop,   *)
(* the port reads and writes that follow it up to the next poll, or a poll *)
(* loop giving up (its TimeOut reached, or the register reading 0xFF: a    *)
(* device that is absent or restarting).  pc names the poll loop, polled   *)
(* the State bits of the byte that ended it; cont says what follows a      *)
(* successful KcsCheckStatus and caller who called KcsErrorExit.           *)
(* KCS_ABORT_RETRY_COUNT is 1, so the retry loops of KcsErrorExit and of   *)
(* the two port functions run once.                                        *)
(***************************************************************************)
EXTENDS Naturals, Sequences

CONSTANTS
  Requests,     \* byte sequences the host sends, two bytes at least
  Replies,      \* byte sequences the BMC answers, one byte at least
  BufferSize,   \* *DataSize of ReceiveBmcDataFromPort
  Zero,         \* the byte 0, also the dummy byte
  NoAnswer

Bytes == {Zero} \cup UNION {{m[k] : k \in DOMAIN m} : m \in Requests \cup Replies}

ASSUME MessageAssumption ==
  /\ \A m \in Requests : m \in Seq(Bytes) /\ Len(m) >= 2
  /\ \A r \in Replies : r \in Seq(Bytes) /\ Len(r) >= 1
  /\ BufferSize \in Nat
  /\ \A m \in Requests, r \in Replies : NoAnswer # [req |-> m, rep |-> r]

VARIABLES
  pc,        \* the poll loop the host is in, or "idle"
  polled,    \* KcsStatus.Status.State once the loop has ended, else "none"
  op,        \* "send" or "receive": the port function called last
  outcome,   \* what it returned: "none" while it runs
  msg,       \* the message of the last SendDataToBmcPort
  sent,      \* number of its bytes written (the loop index i)
  Data,      \* bytes ReceiveBmcData stored
  cont,      \* where KcsCheckStatus returns to: "first", "end", "byte" or "read"
  caller,    \* who called KcsErrorExit: "start", "check" or "port"
  Idle,      \* KcsCheckStatus' out parameter
  staleIbf,  \* the IBF bit SendDataToBmc read before it gave up waiting
  late,      \* SendDataToBmc's TimeOut has run out
  ibf, obf, state,  \* the status register
  din,       \* what the host wrote last: [reg, byte]
  dout,      \* what the host reads from the data port
  mode,      \* the BMC's phase
  collected, \* message bytes the BMC has
  remaining, \* answer bytes it has not yet put in the data port
  answer,    \* its answer [req, rep] while the host can still read it
  taken,     \* history: what the host received last
  disturbed  \* history: the BMC erred or reset since SendDataToBmcPort was called

host == <<pc, polled, op, outcome, msg, sent, Data, cont, caller, Idle, staleIbf, late, taken>>
bmc == <<state, dout, mode, collected, remaining, answer>>
vars == <<host, bmc, ibf, obf, din, disturbed>>

KcsStates == {"Idle", "Read", "Write", "Error"}

PollLoops == {"start", "checkIbf", "checkObf", "abortIbf", "abortCmd", "abortZero",
              "abortObf", "abortRead", "abortDone"}

ControlCodes == {"WRITE_START", "WRITE_END", "ABORT", "READ"}

TypeOK ==
  /\ pc \in PollLoops \cup {"idle"}
  /\ polled \in KcsStates \cup {"none"}
  /\ op \in {"send", "receive"}
  /\ outcome \in {"none", "ok", "error"}
  /\ msg \in Requests
  /\ sent \in 0..Len(msg)
  /\ Data \in Seq(Bytes) /\ Len(Data) <= BufferSize
  /\ cont \in {"first", "end", "byte", "read"}
  /\ caller \in {"start", "check", "port"}
  /\ {Idle, staleIbf, late, ibf, obf, disturbed} \subseteq BOOLEAN
  /\ state \in KcsStates
  /\ din \in [reg : {"cmd", "data"}, byte : Bytes \cup ControlCodes]
  /\ dout \in Bytes
  /\ mode \in {"idle", "write", "writeEnd", "exec", "read", "abort1", "abort2", "error"}
  /\ collected \in Seq(Bytes) /\ remaining \in Seq(Bytes)

Init ==
  /\ pc = "idle" /\ polled = "none" /\ op = "receive" /\ outcome = "ok"
  /\ msg \in Requests /\ sent = 0 /\ Data = <<>>
  /\ cont = "first" /\ caller = "port"
  /\ Idle = FALSE /\ staleIbf = FALSE /\ late = FALSE
  /\ ibf = FALSE /\ obf \in BOOLEAN /\ state = "Idle"
  /\ din = [reg |-> "data", byte |-> Zero] /\ dout = Zero
  /\ mode = "idle" /\ collected = <<>> /\ remaining = <<>>
  /\ answer = NoAnswer /\ taken = NoAnswer
  /\ disturbed = FALSE
-------------------------------------------------------------------------------
(***************************************************************************)
(* The register file as the host sees it.                                  *)
(***************************************************************************)
WritePort(reg, byte) ==
  /\ din' = [reg |-> reg, byte |-> byte]
  /\ ibf' = TRUE

NoWrite == UNCHANGED <<din, ibf>>

\* Reading the data port clears OBF.
ReadPort == obf' = FALSE

Return(status) ==
  /\ pc' = "idle"
  /\ outcome' = status

\* Enter KcsCheckStatus (or poll again inside it) with continuation c.
CallCheck(c) == pc' = "checkIbf" /\ cont' = c

CallErrorExit(c) == pc' = "abortIbf" /\ caller' = c

\* What KcsCheckStatus is asked to find.
Expected == IF cont = "read" THEN "Read" ELSE "Write"

\* The check before byte i+1: the last one is announced with WRITE_END.
NextCheckNeverEnds(i) == CallCheck("byte")

NextCheck(i) == CallCheck(IF i = Len(msg) - 1 THEN "end" ELSE "byte")

\* The caller of KcsCheckStatus goes on after EFI_SUCCESS with the Idle flag
\* idle: SendDataToBmc lines 345-363, ReceiveBmcData lines 407-424.
ContinueFirst ==
  /\ NextCheck(0)
  /\ NoWrite
  /\ UNCHANGED <<outcome, sent, Data, taken, answer>>

ContinueEnd ==
  /\ WritePort("cmd", "WRITE_END")
  /\ CallCheck("byte")
  /\ UNCHANGED <<outcome, sent, Data, taken, answer>>

ContinueByte ==
  /\ WritePort("data", msg[sent + 1])
  /\ sent' = sent + 1
  /\ IF sent + 1 = Len(msg)
     THEN Return("ok") /\ UNCHANGED cont
     ELSE NextCheck(sent + 1) /\ UNCHANGED outcome
  /\ UNCHANGED <<Data, taken, answer>>

\* ReceiveBmcData with the dummy byte read: the message is complete.
ContinueReadDone ==
  /\ Return("ok")
  /\ taken' = [req |-> msg, rep |-> Data]
  /\ answer' = NoAnswer
  /\ NoWrite
  /\ UNCHANGED <<cont, sent, Data>>

ContinueReadByteUnbounded ==
  /\ Data' = Append(Data, dout)
  /\ WritePort("data", "READ")
  /\ CallCheck("read")
  /\ UNCHANGED <<outcome, caller, sent, taken, answer>>

ContinueReadByte ==
  /\ IF Len(Data) >= BufferSize
     THEN /\ CallErrorExit("port")
          /\ NoWrite
          /\ UNCHANGED <<cont, Data>>
     ELSE /\ Data' = Append(Data, dout)
          /\ WritePort("data", "READ")
          /\ CallCheck("read")
          /\ UNCHANGED caller
  /\ UNCHANGED <<outcome, sent, taken, answer>>

Continue(idle) ==
  \/ cont = "first" /\ ContinueFirst /\ UNCHANGED caller
  \/ cont = "end" /\ ContinueEnd /\ UNCHANGED caller
  \/ cont = "byte" /\ ContinueByte /\ UNCHANGED caller
  \/ cont = "read" /\ idle /\ ContinueReadDone /\ UNCHANGED caller
  \/ cont = "read" /\ ~ idle /\ ContinueReadByte

\* Variables no continuation touches.
frame == <<op, msg, staleIbf, late, state, dout, mode, collected, remaining, disturbed>>
-------------------------------------------------------------------------------
(***************************************************************************)
(* The port functions, whose locals start afresh, and SendDataToBmc's wait *)
(* for the BMC.                                                            *)
(***************************************************************************)
SendDataToBmcPort(m) ==
  /\ pc = "idle"
  /\ pc' = "start" /\ op' = "send" /\ outcome' = "none"
  /\ msg' = m /\ sent' = 0 /\ late' = FALSE
  /\ disturbed' = FALSE
  /\ Data' = <<>> /\ cont' = "first" /\ caller' = "port"
  /\ Idle' = FALSE /\ staleIbf' = FALSE
  /\ UNCHANGED <<polled, taken, bmc, ibf, obf, din>>

\* The generic layer asks for the response once the command was sent.
ReceiveBmcDataFromPort ==
  /\ pc = "idle" /\ op = "send" /\ outcome = "ok"
  /\ op' = "receive" /\ outcome' = "none" /\ Data' = <<>>
  /\ CallCheck("read")
  /\ caller' = "port" /\ Idle' = FALSE /\ staleIbf' = FALSE /\ late' = FALSE
  /\ UNCHANGED <<polled, msg, sent, taken, bmc, ibf, obf, din, disturbed>>

\* What the poll loop waits for.
Awaited == IF pc \in {"checkObf", "abortObf", "abortDone"} THEN obf ELSE ~ ibf

\* The poll that ends the loop.  Between it and the port accesses it allows
\* the BMC may change its mind.
Poll ==
  /\ pc # "idle" /\ polled = "none"
  /\ Awaited
  /\ pc = "start" => ~ late
  /\ polled' = state
  /\ UNCHANGED <<pc, op, outcome, msg, sent, Data, cont, caller, Idle, staleIbf, late, taken,
                 bmc, ibf, obf, din, disturbed>>

\* The loop p has ended with the status byte in polled.
PollEnded(p) == pc = p /\ polled # "none" /\ polled' = "none"

\* The loop p gives up.
Polling(p) == pc = p /\ polled = "none" /\ UNCHANGED polled

WriteStartOnce ==
  /\ IF state = "Write" THEN NoWrite ELSE WritePort("cmd", "WRITE_START")
  /\ CallCheck("first")

WriteStart ==
  /\ WritePort("cmd", "WRITE_START")
  /\ CallCheck("first")

StartReady ==
  /\ PollEnded("start")
  /\ WriteStart
  /\ UNCHANGED <<op, outcome, msg, sent, Data, caller, Idle, staleIbf, late, taken, bmc, obf,
                 disturbed>>

\* TimeOut is never reset: once it ran out every poll calls KcsErrorExit.
StartGivesUp ==
  /\ Polling("start")
  /\ late' = TRUE
  /\ staleIbf' = ibf
  /\ CallErrorExit("start")
  /\ UNCHANGED <<op, outcome, msg, sent, Data, cont, Idle, taken, bmc, ibf, obf, din, disturbed>>

\* The register reads 0xFF, so IBF with it, and TimeOut goes on (bound: once in
\* a call; a device that is absent fails the polls of KcsErrorExit as well).
StartReadsFF ==
  /\ Polling("start") /\ ~ late /\ ~ staleIbf
  /\ staleIbf' = TRUE
  /\ CallErrorExit("start")
  /\ UNCHANGED <<op, outcome, msg, sent, Data, cont, Idle, late, taken, bmc, ibf, obf, din,
                 disturbed>>
-------------------------------------------------------------------------------
(***************************************************************************)
(* KcsCheckStatus.                                                         *)
(***************************************************************************)
CheckIbfReady ==
  /\ PollEnded("checkIbf")
  /\ IF Expected = "Write" THEN ReadPort ELSE UNCHANGED obf
  /\ Idle' = (polled = "Idle" /\ Expected = "Read")
  /\ UNCHANGED frame
  /\ \/ /\ polled = "Write" /\ Expected = "Write"
        /\ Continue(FALSE)
     \/ /\ Expected = "Read" /\ polled \in {"Read", "Idle"}
        /\ pc' = "checkObf"
        /\ NoWrite
        /\ UNCHANGED <<outcome, cont, caller, sent, Data, taken, answer>>
     \/ /\ polled # Expected /\ ~ (polled = "Idle" /\ Expected = "Read")
        /\ CallErrorExit("check")
        /\ NoWrite
        /\ UNCHANGED <<outcome, cont, sent, Data, taken, answer>>

\* With the Idle flag set the byte in the port is the dummy byte; otherwise
\* ReceiveBmcData reads it.  Either way OBF is cleared unless the buffer is full.
CheckObfReadyUnpolled ==
  /\ pc = "checkObf"
  /\ polled' = "none"
  /\ Continue(Idle)
  /\ obf' = (obf /\ ~ Idle /\ Len(Data) >= BufferSize)
  /\ UNCHANGED <<frame, Idle>>

CheckObfReady ==
  /\ PollEnded("checkObf")
  /\ Continue(Idle)
  /\ obf' = (obf /\ ~ Idle /\ Len(Data) >= BufferSize)
  /\ UNCHANGED <<frame, Idle>>

CheckGivesUp ==
  /\ \E p \in {"checkIbf", "checkObf"} : Polling(p)
  /\ CallErrorExit("port")
  /\ Idle' = IF pc = "checkIbf" THEN FALSE ELSE Idle
  /\ UNCHANGED <<op, outcome, msg, sent, Data, cont, staleIbf, late, taken, bmc, ibf, obf, din,
                 disturbed>>
-------------------------------------------------------------------------------
(***************************************************************************)
(* KcsErrorExit.                                                           *)
(***************************************************************************)
hostInAbort == <<op, outcome, msg, sent, Data, cont, caller, Idle, staleIbf, late, taken>>

AbortIbfReadyUnchecked ==
  /\ pc = "abortIbf"
  /\ polled' = "none"
  /\ WritePort("cmd", "ABORT")
  /\ pc' = "abortCmd"
  /\ UNCHANGED <<hostInAbort, bmc, obf, disturbed>>

AbortIbfReady ==
  /\ PollEnded("abortIbf")
  /\ WritePort("cmd", "ABORT")
  /\ pc' = "abortCmd"
  /\ UNCHANGED <<hostInAbort, bmc, obf, disturbed>>

AbortCmdReady ==
  /\ PollEnded("abortCmd")
  /\ ReadPort
  /\ WritePort("data", Zero)
  /\ pc' = "abortZero"
  /\ UNCHANGED <<hostInAbort, bmc, disturbed>>

\* KcsErrorExit returns EFI_DEVICE_ERROR: SendDataToBmc and ReceiveBmcData
\* pass it on, and the port function tries KcsErrorExit once more.
AbortFailsAgain ==
  /\ CallErrorExit("port")
  /\ UNCHANGED <<outcome, op, msg, sent, Data, cont, Idle, staleIbf, late, taken, bmc, ibf, obf,
                 din, disturbed>>

AbortFails ==
  /\ IF caller = "port"
     THEN Return("error") /\ UNCHANGED caller
     ELSE CallErrorExit("port") /\ UNCHANGED outcome
  /\ UNCHANGED <<op, msg, sent, Data, cont, Idle, staleIbf, late, taken, bmc, ibf, obf, din,
                 disturbed>>

AbortZeroReady ==
  /\ PollEnded("abortZero")
  /\ \/ /\ polled = "Read"
        /\ pc' = "abortObf"
        /\ UNCHANGED <<hostInAbort, bmc, ibf, obf, din, disturbed>>
     \/ polled # "Read" /\ AbortFails

AbortObfReady ==
  /\ PollEnded("abortObf")
  /\ ReadPort
  /\ WritePort("data", "READ")
  /\ pc' = "abortRead"
  /\ UNCHANGED <<hostInAbort, bmc, disturbed>>

AbortReadReady ==
  /\ PollEnded("abortRead")
  /\ \/ /\ polled = "Idle"
        /\ pc' = "abortDone"
        /\ UNCHANGED <<hostInAbort, bmc, ibf, obf, din, disturbed>>
     \/ polled # "Idle" /\ AbortFails

\* EFI_SUCCESS.  SendDataToBmc polls again if it had last seen IBF set and
\* starts the message otherwise; KcsCheckStatus hands the success on, so its
\* caller goes on as if the expected state had been found (line 259); a port
\* function has used up its attempts.
AbortSucceeds ==
  \/ /\ caller = "start" /\ staleIbf
     /\ pc' = "start"
     /\ NoWrite
     /\ UNCHANGED <<outcome, cont, caller, sent, Data, taken, answer>>
  \/ /\ caller = "start" /\ ~ staleIbf
     /\ WriteStart
     /\ UNCHANGED <<outcome, caller, sent, Data, taken, answer>>
  \/ caller = "check" /\ Continue(FALSE)
  \/ /\ caller = "port"
     /\ Return("error")
     /\ NoWrite
     /\ UNCHANGED <<cont, caller, sent, Data, taken, answer>>

AbortDoneReady ==
  /\ PollEnded("abortDone")
  /\ ReadPort
  /\ AbortSucceeds
  /\ UNCHANGED <<frame, Idle>>

AbortGivesUp ==
  /\ \E p \in {"abortIbf", "abortCmd", "abortZero", "abortObf", "abortRead", "abortDone"} :
       Polling(p)
  /\ AbortFails

Host ==
  \/ Poll
  \/ StartReady \/ StartGivesUp \/ StartReadsFF
  \/ CheckIbfReady \/ CheckObfReady \/ CheckGivesUp
  \/ AbortIbfReady \/ AbortCmdReady \/ AbortZeroReady \/ AbortObfReady \/ AbortReadReady
  \/ AbortDoneReady \/ AbortGivesUp
-------------------------------------------------------------------------------
(***************************************************************************)
(* The BMC side of the interface, which is not part of this repository: it *)
(* consumes what the host writes, answers complete messages, refuses what  *)
(* is out of sequence with the Error state.                                *)
(***************************************************************************)
PutByte(b) == dout' = b /\ obf' = TRUE

BmcCommand ==
  /\ ibf /\ din.reg = "cmd"
  /\ ibf' = FALSE
  /\ \/ /\ din.byte = "WRITE_START"
        /\ mode' = "write" /\ state' = "Write" /\ collected' = <<>>
        /\ UNCHANGED <<dout, obf>>
     \/ /\ din.byte = "WRITE_END" /\ mode = "write"
        /\ mode' = "writeEnd" /\ state' = "Write"
        /\ UNCHANGED <<dout, obf, collected>>
     \/ /\ din.byte = "WRITE_END" /\ mode # "write"
        /\ mode' = "error" /\ state' = "Error"
        /\ PutByte(Zero)
        /\ UNCHANGED collected
     \/ /\ din.byte = "ABORT"
        /\ mode' = "abort1" /\ state' = "Write"
        /\ UNCHANGED <<dout, obf, collected>>
  /\ remaining' = <<>> /\ answer' = NoAnswer
  /\ UNCHANGED <<host, din, disturbed>>

BmcData ==
  /\ ibf /\ din.reg = "data"
  /\ ibf' = FALSE
  /\ \/ /\ mode = "write"
        /\ collected' = Append(collected, din.byte)
        /\ UNCHANGED <<mode, state, dout, obf, remaining, answer>>
     \/ /\ mode = "writeEnd"
        /\ collected' = Append(collected, din.byte)
        /\ mode' = "exec" /\ state' = "Read"
        /\ UNCHANGED <<dout, obf, remaining, answer>>
     \/ /\ mode = "read" /\ din.byte = "READ" /\ remaining # <<>>
        /\ PutByte(Head(remaining))
        /\ remaining' = Tail(remaining)
        /\ UNCHANGED <<mode, state, collected, answer>>
     \/ /\ mode = "read" /\ din.byte = "READ" /\ remaining = <<>>
        /\ PutByte(Zero)
        /\ mode' = "idle" /\ state' = "Idle"
        /\ UNCHANGED <<collected, remaining, answer>>
     \/ /\ mode = "abort1"
        /\ PutByte(Zero)
        /\ mode' = "abort2" /\ state' = "Read"
        /\ UNCHANGED <<collected, remaining, answer>>
     \/ /\ mode = "abort2"
        /\ PutByte(Zero)
        /\ mode' = "idle" /\ state' = "Idle"
        /\ UNCHANGED <<collected, remaining, answer>>
     \/ /\ \/ mode \in {"idle", "exec", "error"}
           \/ mode = "read" /\ din.byte # "READ"
        /\ PutByte(Zero)
        /\ mode' = "error" /\ state' = "Error"
        /\ remaining' = <<>> /\ answer' = NoAnswer
        /\ UNCHANGED collected
  /\ UNCHANGED <<host, din, disturbed>>

BmcExecute ==
  /\ mode = "exec"
  /\ \E r \in Replies :
       /\ answer' = [req |-> collected, rep |-> r]
       /\ PutByte(Head(r))
       /\ remaining' = Tail(r)
  /\ mode' = "read"
  /\ UNCHANGED <<host, state, collected, ibf, din, disturbed>>

\* The BMC gives up the exchange of its own accord, or restarts.  An answer
\* whose dummy byte it has already put out is beyond recall, after a restart
\* only if the host has seen it.
DummySeen == pc = "checkObf" /\ Idle /\ polled # "none"

BmcErrs ==
  /\ mode # "error"
  /\ mode' = "error" /\ state' = "Error"
  /\ remaining' = <<>>
  /\ answer' = IF mode = "idle" THEN answer ELSE NoAnswer
  /\ disturbed' = TRUE
  /\ UNCHANGED <<host, dout, collected, ibf, obf, din>>

BmcResets ==
  /\ mode' = "idle" /\ state' = "Idle"
  /\ ibf' = FALSE /\ obf' = FALSE
  /\ collected' = <<>> /\ remaining' = <<>>
  /\ answer' = IF DummySeen THEN answer ELSE NoAnswer
  /\ disturbed' = TRUE
  /\ UNCHANGED <<host, dout, din>>

Next ==
  \/ \E m \in Requests : SendDataToBmcPort(m)
  \/ ReceiveBmcDataFromPort
  \/ Host
  \/ BmcCommand \/ BmcData \/ BmcExecute \/ BmcErrs \/ BmcResets

Spec == Init /\ [][Next]_vars

FairSpec == Spec /\ WF_vars(Host)
-------------------------------------------------------------------------------
(***************************************************************************)
(* Properties.                                                             *)
(***************************************************************************)

\* A transport for GenericIpmi: the BMC holds whole messages of the host only,
\* and what ReceiveBmcDataFromPort returns is the BMC's whole answer to the
\* message sent last, whatever was aborted, refused or late before.
Channel == INSTANCE BmcChannel WITH
  inbox <- IF mode = "exec" THEN <<collected>> ELSE <<>>,
  outbox <- IF answer = NoAnswer THEN <<>> ELSE <<answer>>,
  MaxInFlight <- 1

ImplementsChannel == Channel!Spec

\* The host never overwrites a byte the BMC has not read: every write waits
\* for IBF to clear, on the abort paths too.
NoOverrun == [][ibf /\ ibf' => din' = din]_vars

\* The last message is with the BMC, or its last byte is in the input register.
Delivered ==
  \/ collected = msg /\ mode # "write"
  \/ ibf /\ mode = "writeEnd" /\ Append(collected, din.byte) = msg

\* EFI_SUCCESS from SendDataToBmcPort means the message arrived whole, even
\* after earlier calls that were given up half way, if the BMC did not err or
\* restart meanwhile.
SendDelivers ==
  pc = "idle" /\ op = "send" /\ outcome = "ok" /\ ~ disturbed => Delivered

\* Every call returns, whatever the BMC does.
CallReturns == pc # "idle" ~> pc = "idle"

\* What lines 310 and 498 say EFI_SUCCESS means: "Send out the data successfully",
\* of a call in which KcsCheckStatus met an unexpected state and has aborted the
\* transfer: the host knows that the BMC did not take the message.
SuccessIsDelivery ==
  [][pc # "idle" /\ pc' = "idle" /\ op = "send" /\ outcome' = "ok" /\ caller' = "check"
       => Delivered']_vars
===============================================================================
