------------------------------ MODULE GenericIpmi ------------------------------
(***************************************************************************)
(* GenericIpmi/Common/GenericIpmi.c: one IPMI instance (the state of       *)
(* IPMI_BMC_INSTANCE_DATA that outlives a command is BmcStatus and         *)
(* SoftErrorCount) executing IpmiSendCommandInternal and IpmiBmcStatus     *)
(* over a transport that may fail, lose, or answer late.                   *)
(*                                                                         *)
(* One action per transport call: Send is lines 164-203 of a loop pass,    *)
(* Receive lines 209-336.  Between the two the BMC works on its own.       *)
(***************************************************************************)
EXTENDS Integers, Sequences

CONSTANTS
  Commands,       \* (NetFunction, Command) pairs, abstracted to names
  DataSizes,      \* sizes of a whole response, header included
  BufferSizes,    \* *ResponseDataSize values the callers pass
  NoBuffer,       \* ResponseData = ResponseDataSize = NULL
  NoAnswer,       \* TempData before the first response
  MaxRetries,     \* PcdIpmiCommandMaxReties
  MaxSoftCount,   \* MAX_SOFT_COUNT
  CountMax,       \* largest UINT8: of SoftErrorCount and of a narrowed size
  MaxInFlight,    \* bound: messages between host and BMC
  MaxErrors       \* bound: soft errors in one behaviour

ASSUME SizeAssumption ==
  /\ DataSizes \subseteq Nat
  /\ BufferSizes \subseteq Nat
  /\ NoBuffer \notin Nat

ASSUME RetryAssumption == MaxRetries \in Nat \ {0}

ASSUME CountAssumption ==
  /\ MaxSoftCount \in Nat \ {0}
  /\ CountMax \in Nat
  /\ MaxSoftCount <= CountMax
  /\ MaxErrors \in Nat

ASSUME ChannelAssumption ==
  /\ MaxInFlight \in Nat
  /\ NoAnswer \notin [req : Commands, rep : [cc : STRING, size : Nat]]

HeaderSize == 3   \* IPMI_RESPONSE_HEADER_SIZE

\* Completion codes by what the code tells apart: "soft" is in COMPLETION_CODES,
\* "privilege" is the member IPMI_COMP_CODE_INSUFFICIENT_PRIVILEGE of that list,
\* "other" is a failure that is not in it.
CompletionCodes == {"normal", "soft", "privilege", "other"}

SoftErrors == {"soft", "privilege"}

Statuses == {"OK", "SOFTFAIL", "HARDFAIL", "UPDATE_IN_PROGRESS", "NOTREADY"}

\* A response with a failing completion code is just the header.
Replies ==
  {r \in [cc : CompletionCodes, size : DataSizes \cup {HeaderSize}] :
     r.cc # "normal" => r.size = HeaderSize}

Calls == [cmd : Commands, size : BufferSizes \cup {NoBuffer}]

\* IpmiSendCommand narrows its sizes to UINT8.  *ResponseDataSize is a UINT32
\* whose low byte is read, and later stored, through a UINT8 pointer.
Narrowed(c) ==
  [c EXCEPT !.size = IF c.size = NoBuffer THEN NoBuffer ELSE c.size % (CountMax + 1)]

VARIABLES
  BmcStatus,       \* IpmiInstance->BmcStatus
  SoftErrorCount,  \* IpmiInstance->SoftErrorCount
  pc,              \* where the command in progress is
  call,            \* its arguments (kept until the next one)
  RetryCnt,        \* its loop counter
  result,          \* what it returned: EFI status and *ResponseDataSize
  reported,        \* what IpmiBmcStatus returned since the last command
  inbox, outbox, taken,
  errors,          \* history: soft errors so far, not truncated
  updateErrors,    \* history: those of them counted in force update mode
  unrecovered      \* history: a transport failure since the last success

Channel == INSTANCE BmcChannel WITH Requests <- Commands

instance == <<BmcStatus, SoftErrorCount, errors, updateErrors>>
channel == <<inbox, outbox, taken>>
vars == <<BmcStatus, SoftErrorCount, pc, call, RetryCnt, result, reported,
          inbox, outbox, taken, errors, updateErrors, unrecovered>>

EfiStatuses ==
  {"NONE", "SUCCESS", "INVALID_PARAMETER", "DEVICE_ERROR", "UNSUPPORTED",
   "SECURITY_VIOLATION", "BUFFER_TOO_SMALL"}

Result(status, size) == [status |-> status, size |-> size]

TypeOK ==
  /\ BmcStatus \in Statuses
  /\ SoftErrorCount \in 0..CountMax
  /\ pc \in {"idle", "send", "receive"}
  /\ call \in [cmd : Commands, size : 0..CountMax \cup {NoBuffer}]
  /\ RetryCnt \in 0..MaxRetries
  /\ result \in [status : EfiStatuses, size : Nat]
  /\ reported \in Statuses \cup {"NONE"}
  /\ Channel!TypeOK
  /\ errors \in Nat
  /\ updateErrors \in 0..errors
  /\ unrecovered \in BOOLEAN
-------------------------------------------------------------------------------
(***************************************************************************)
(* The instance as its driver publishes it: any status, since the SMM and  *)
(* standalone MM drivers install the protocol whatever initialization      *)
(* found, and the DXE driver takes the status from the PEI HOB.  The       *)
(* commands of IpmiInitializeBmc have counted their soft errors in it.     *)
(***************************************************************************)
Init ==
  /\ BmcStatus \in Statuses
  /\ SoftErrorCount \in 0..CountMax
  /\ pc = "idle"
  /\ call \in {Narrowed(c) : c \in Calls}
  /\ RetryCnt = 0
  /\ result = Result("NONE", 0)
  /\ reported = "NONE"
  /\ Channel!Init
  /\ errors = SoftErrorCount
  /\ updateErrors \in 0..SoftErrorCount
  /\ unrecovered = FALSE

\* The UINT8 increment of SoftErrorCount.
CountUntruncated(n) == n + 1

CountSoftError(n) == IF n = CountMax THEN 0 ELSE n + 1

Return(status, size) ==
  /\ pc' = "idle"
  /\ result' = Result(status, size)

\* SendDataToBmcPort or ReceiveBmcDataFromPort returned an error.
TransportFailureUnmarked ==
  /\ SoftErrorCount' = CountSoftError(SoftErrorCount)
  /\ errors' = errors + 1
  /\ unrecovered' = TRUE
  /\ Return("DEVICE_ERROR", 0)
  /\ UNCHANGED <<BmcStatus, updateErrors>>

TransportFailure ==
  /\ BmcStatus' = "SOFTFAIL"
  /\ SoftErrorCount' = CountSoftError(SoftErrorCount)
  /\ errors' = errors + 1
  /\ unrecovered' = TRUE
  /\ Return("DEVICE_ERROR", 0)
  /\ UNCHANGED updateErrors

\* A completion code in COMPLETION_CODES is a soft error; any other leaves the
\* instance alone.  Force update mode keeps its status and is counted too.
UpdateErrorStatus(cc) ==
  IF cc \in SoftErrors
  THEN /\ BmcStatus' = IF BmcStatus # "UPDATE_IN_PROGRESS" THEN "SOFTFAIL" ELSE BmcStatus
       /\ SoftErrorCount' = CountSoftError(SoftErrorCount)
       /\ errors' = errors + 1
       /\ updateErrors' = IF BmcStatus # "UPDATE_IN_PROGRESS" THEN updateErrors
                                                              ELSE updateErrors + 1
  ELSE UNCHANGED instance
-------------------------------------------------------------------------------
(***************************************************************************)
(* IpmiSendCommandInternal.                                                *)
(***************************************************************************)

\* Entry with arguments it refuses: command data expected but NULL, or only
\* one of ResponseData and ResponseDataSize given.
RejectCall ==
  /\ pc = "idle"
  /\ Return("INVALID_PARAMETER", 0)
  /\ reported' = "NONE"
  /\ UNCHANGED <<instance, call, RetryCnt, channel, unrecovered>>

\* IpmiSendCommand, then the checks that let the command through.
BeginCall(c) ==
  /\ pc = "idle"
  /\ errors < MaxErrors
  /\ pc' = "send"
  /\ call' = Narrowed(c)
  /\ RetryCnt' = MaxRetries
  /\ result' = Result("NONE", 0)
  /\ reported' = "NONE"
  /\ UNCHANGED <<instance, channel, unrecovered>>

\* One loop pass up to SendDataToBmcPort.  Whatever the transport reports, the
\* message may have reached the BMC or not.
Send ==
  /\ pc = "send"
  /\ RetryCnt > 0
  /\ RetryCnt' = RetryCnt - 1
  /\ Channel!Deliver(call.cmd) \/ UNCHANGED channel
  /\ \/ /\ pc' = "receive"
        /\ UNCHANGED <<instance, result, unrecovered>>
     \/ TransportFailure
  /\ UNCHANGED <<call, reported>>

\* The response carries fewer bytes than the header.
ShortResponse(r) ==
  /\ r.rep.size < HeaderSize
  /\ Return("DEVICE_ERROR", 0)
  /\ UNCHANGED <<instance, RetryCnt, unrecovered>>

FailureStatus(cc) ==
  CASE BmcStatus = "UPDATE_IN_PROGRESS" -> "UNSUPPORTED"
    [] BmcStatus # "UPDATE_IN_PROGRESS" /\ cc = "privilege" -> "SECURITY_VIOLATION"
    [] OTHER -> "DEVICE_ERROR"

\* The BMC completed the command with an error.
FailedResponse(r) ==
  /\ r.rep.size >= HeaderSize
  /\ r.rep.cc # "normal"
  /\ UpdateErrorStatus(r.rep.cc)
  /\ Return(FailureStatus(r.rep.cc), 0)
  /\ UNCHANGED <<RetryCnt, unrecovered>>

Completed(r) == r.rep.size >= HeaderSize /\ r.rep.cc = "normal"

\* Line 289: the completion code that is added to the data is not counted.
TooSmall(r, size) == size # NoBuffer /\ r.rep.size - HeaderSize > size

Matches(r) == r.req = call.cmd

RequiredSizeDataOnly(r) == r.rep.size - HeaderSize

RequiredSize(r) == r.rep.size - HeaderSize + 1

\* A response that does not fit and answers another command: send again
\* while attempts are left.
MismatchedResponse(r) ==
  /\ Completed(r) /\ TooSmall(r, call.size) /\ ~ Matches(r)
  /\ \/ /\ RetryCnt = 0
        /\ Return("DEVICE_ERROR", 0)
     \/ /\ RetryCnt # 0
        /\ pc' = "send"
        /\ UNCHANGED result
  /\ UNCHANGED <<instance, RetryCnt, unrecovered>>

OversizeResponse(r) ==
  /\ Completed(r) /\ TooSmall(r, call.size) /\ Matches(r)
  /\ Return("BUFFER_TOO_SMALL", RequiredSize(r))
  /\ UNCHANGED <<instance, RetryCnt, unrecovered>>

\* Bytes stored through ResponseData: the data, shifted up by one, and the
\* completion code in front of it.
Written(r) == r.rep.size - HeaderSize + 1

DeliverResponse(r) ==
  /\ Completed(r) /\ ~ TooSmall(r, call.size)
  /\ BmcStatus' = "OK"
  /\ unrecovered' = FALSE
  /\ Return("SUCCESS", IF call.size = NoBuffer THEN 0 ELSE Written(r))
  /\ UNCHANGED <<SoftErrorCount, errors, updateErrors, RetryCnt>>

HandleResponse(r) ==
  \/ ShortResponse(r)
  \/ FailedResponse(r)
  \/ MismatchedResponse(r)
  \/ OversizeResponse(r)
  \/ DeliverResponse(r)

Receive ==
  /\ pc = "receive"
  /\ Channel!Take
  /\ HandleResponse(Head(outbox))
  /\ UNCHANGED <<call, reported>>

\* No complete response in time.
ReceiveFailsAgain ==
  /\ pc = "receive"
  /\ pc' = "send" /\ RetryCnt' = MaxRetries
  /\ UNCHANGED <<instance, call, result, reported, channel, unrecovered>>

ReceiveFails ==
  /\ pc = "receive"
  /\ TransportFailure
  /\ UNCHANGED <<call, reported, RetryCnt, channel>>
-------------------------------------------------------------------------------
\* IpmiBmcStatus: enough soft errors make the soft failure a hard one.
Escalate(threshold) ==
  /\ pc = "idle"
  /\ BmcStatus' = IF BmcStatus = "SOFTFAIL" /\ SoftErrorCount >= threshold
                  THEN "HARDFAIL" ELSE BmcStatus
  /\ reported' = BmcStatus'
  /\ UNCHANGED <<SoftErrorCount, errors, updateErrors, pc, call, RetryCnt, result,
                 channel, unrecovered>>

EscalateEarly == Escalate(MaxSoftCount - 1)
EscalateLate  == Escalate(MaxSoftCount + 1)

IpmiBmcStatus == Escalate(MaxSoftCount)

Bmc ==
  /\ Channel!Bmc
  /\ UNCHANGED <<instance, pc, call, RetryCnt, result, reported, unrecovered>>

\* Steps of the command in progress: the processor executes them.
Host == Send \/ Receive \/ ReceiveFails

Next ==
  \/ RejectCall
  \/ \E c \in Calls : BeginCall(c)
  \/ Host
  \/ IpmiBmcStatus
  \/ Bmc

Spec == Init /\ [][Next]_vars

FairSpec == Spec /\ WF_vars(Host)
-------------------------------------------------------------------------------
(***************************************************************************)
(* Properties.                                                             *)
(***************************************************************************)

\* The retry loop is never left by running out of attempts: that would copy
\* whatever TempData holds to the caller and report success (lines 164, 313).
LoopNeverFallsThrough == pc = "send" => RetryCnt > 0

\* A caller told EFI_BUFFER_TOO_SMALL does well to try again: the response was
\* to its own command, not a late answer to another one, whichever attempt it
\* arrived in (line 293), and with the size handed back the same response is
\* accepted and fits (lines 289 and 306 agree).
RequiredSizeSuffices ==
  result.status = "BUFFER_TOO_SMALL" =>
    /\ taken.req = call.cmd
    /\ result.size > call.size
    /\ ~ TooSmall(taken, result.size)
    /\ Written(taken) <= result.size

\* After a transport failure the instance does not claim to be healthy until a
\* command succeeds, whatever completion codes and status queries come between.
NoOkAfterFailure == unrecovered => BmcStatus # "OK"

\* A hard failure is declared only after MaxSoftCount real errors (line 361).
HardFailEarned ==
  [][BmcStatus # "HARDFAIL" /\ BmcStatus' = "HARDFAIL" => errors >= MaxSoftCount]_vars

\* Until the 8-bit counter wraps, a status query never plays down MaxSoftCount
\* or more errors as a soft failure (line 361).  Only errors outside force update
\* mode are asked for: those in it should not be counted (lines 22-23).
EscalatesBeforeWrap ==
  reported = "SOFTFAIL" => errors - updateErrors < MaxSoftCount \/ errors > CountMax

\* An error completion code does not end force update mode (line 44): only a
\* transport failure or a successful command does.
UpdateModeKept ==
  [][BmcStatus = "UPDATE_IN_PROGRESS" /\ BmcStatus' # "UPDATE_IN_PROGRESS"
       => unrecovered' \/ result'.status = "SUCCESS"]_vars

\* Every command returns, however late or wrong the BMC's answers are.
CallReturns == pc # "idle" ~> pc = "idle"

\* What line 291 says: "Verify the response data matched with the cmd sent."
\* The code does so only for a response that does not fit.
ResponseIsOwn == result.status = "SUCCESS" => taken.req = call.cmd
===============================================================================
