---------------------------- MODULE IpmiInitialize ----------------------------
(***************************************************************************)
(* GenericIpmi/Common/IpmiInitialize.c as the PEI, DXE and MM drivers of   *)
(* one boot use it: each driver creates an instance, initializes the BMC   *)
(* unless the PEI driver left a HOB with its verdict, and publishes its    *)
(* interface (PPI or protocol) or not.                                     *)
(*                                                                         *)
(* One action per IPMI command; meanwhile the BMC may finish booting.      *)
(***************************************************************************)
EXTENDS Naturals, FiniteSets

CONSTANTS
  ReadyDelay,         \* PcdIpmiBmcReadyDelayTimer
  BmcTimeout,         \* PcdBmcTimeoutSeconds
  CountRange,         \* values of the UINT32 Retries
  SelfTestSettings,   \* values of PcdIpmiCheckSelfTestResults, set per driver
  DeviceIdSize,       \* response sizes as the caller gets them, with the
  ContextSize,        \*   completion code
  SelfTestSize,
  TempSize,           \* sizeof (TempData)
  SelfTestParams,     \* error bits the self test may return: sets of flags
  NoHob, NoResult

ASSUME RetryAssumption ==
  /\ CountRange \in Nat /\ CountRange > 1
  /\ ReadyDelay \in 0..(CountRange - 1)
  /\ BmcTimeout \in Nat
  /\ SelfTestSettings \subseteq BOOLEAN

ASSUME SizeAssumption ==
  /\ TempSize \in Nat
  /\ {DeviceIdSize, ContextSize, SelfTestSize} \subseteq 1..TempSize

Statuses == {"OK", "SOFTFAIL", "HARDFAIL", "UPDATE_IN_PROGRESS", "NOTREADY"}

ASSUME HobAssumption == NoHob \notin Statuses

Drivers == {"pei", "dxe", "mm"}

SelfTestResults == {"NO_ERROR", "NOT_IMPLEMENTED", "ERROR", "FATAL_HW_ERROR", "OTHER"}

SelfTests == [Result : SelfTestResults, Param : SelfTestParams]

VARIABLES
  pc,          \* what the running driver executes; "idle" between drivers
  driver,      \* the driver that runs, or ran last
  ran,         \* drivers dispatched in this boot
  BmcStatus,   \* of the running driver's instance
  Retries, DataSize, Status,  \* locals of GetDeviceId and GetSelfTest
  StatusCodeValue, \* error codes collected for the error manager
  hob,         \* gIpmiBmcHobGuid: the status PEI found, or NoHob
  published,   \* [Drivers -> status when the interface was installed, or NoHob]
  bmc,         \* the BMC itself: "booting", "ready" or "update"
  readyAnswers,\* history: Get Device ID responses saying ready in this init
  selfTest     \* history: the self test result this init acted on

boot == <<driver, ran, hob, published>>
vars == <<pc, boot, BmcStatus, Retries, DataSize, Status, StatusCodeValue, bmc,
          readyAnswers, selfTest>>

InitSteps == {"platform", "deviceId", "context", "wait", "selfTest"}

TypeOK ==
  /\ pc \in InitSteps \cup {"idle", "publish"}
  /\ driver \in Drivers /\ ran \subseteq Drivers
  /\ BmcStatus \in Statuses
  /\ Retries \in 0..(CountRange - 1) /\ DataSize \in Nat
  /\ Status \in {"SUCCESS", "ERROR"}
  /\ StatusCodeValue \subseteq {"COMM_ERROR", "SDR_EMPTY", "HARD_FAIL", "SOFT_FAIL"}
  /\ hob \in Statuses \cup {NoHob}
  /\ published \in [Drivers -> Statuses \cup {NoHob}]
  /\ bmc \in {"booting", "ready", "update"}
  /\ readyAnswers \in Nat
  /\ selfTest \in SelfTests \cup {NoResult}

Init ==
  /\ pc = "idle" /\ driver = "pei" /\ ran = {}
  /\ BmcStatus = "NOTREADY"
  /\ Retries = 0 /\ DataSize = 0 /\ Status = "SUCCESS"
  /\ StatusCodeValue = {}
  /\ hob = NoHob
  /\ published = [d \in Drivers |-> NoHob]
  /\ bmc \in {"booting", "ready", "update"}
  /\ readyAnswers = 0
  /\ selfTest = NoResult
-------------------------------------------------------------------------------
(***************************************************************************)
(* IpmiSendCommand by its outcomes: what GenericIpmi shows of one call.    *)
(* An error leaves BmcStatus alone or makes it a soft failure; a response  *)
(* of the given size is delivered, or refused with the size it needs.      *)
(***************************************************************************)
CommandErrors ==
  {[ok |-> FALSE, status |-> b, size |-> DataSize] : b \in {"SOFTFAIL", BmcStatus}}

ResponseSizeKept(size) ==
  IF size - 1 > DataSize
  THEN [ok |-> FALSE, status |-> BmcStatus, size |-> DataSize]
  ELSE [ok |-> TRUE, status |-> "OK", size |-> size]

Response(size) ==
  IF size - 1 > DataSize
  THEN [ok |-> FALSE, status |-> BmcStatus, size |-> size]
  ELSE [ok |-> TRUE, status |-> "OK", size |-> size]

EfiStatus(o) == IF o.ok THEN "SUCCESS" ELSE "ERROR"

\* The BMC's answer to Get Device ID says that it is ready.
SaysReady == bmc = "ready"

CountReady == readyAnswers' = IF SaysReady THEN readyAnswers + 1 ELSE readyAnswers
-------------------------------------------------------------------------------
(***************************************************************************)
(* IpmiInitializeBmc.                                                      *)
(***************************************************************************)

InitReturns(status) ==
  /\ pc' = "publish"
  /\ Status' = status

SelfTestRetries == IF ReadyDelay < BmcTimeout THEN 1 ELSE ReadyDelay

\* GetDeviceId returned status with BmcStatus = found: the self test follows
\* only if it is asked for and the BMC is neither updating nor dead.
AfterDeviceId(status, found) ==
  /\ BmcStatus' = found
  /\ \/ /\ TRUE \in SelfTestSettings
        /\ found \notin {"UPDATE_IN_PROGRESS", "HARDFAIL"}
        /\ pc' = "selfTest"
        /\ Retries' = SelfTestRetries
        /\ DataSize' = TempSize
        /\ Status' = status
     \/ /\ FALSE \in SelfTestSettings \/ found \in {"UPDATE_IN_PROGRESS", "HARDFAIL"}
        /\ InitReturns(status)
        /\ UNCHANGED <<Retries, DataSize>>

PlatformIpmiInitialize ==
  /\ pc = "platform"
  /\ \/ /\ pc' = "deviceId"
        /\ Retries' = ReadyDelay
        /\ DataSize' = TempSize
        /\ UNCHANGED Status
     \/ /\ InitReturns("ERROR")
        /\ UNCHANGED <<Retries, DataSize>>
  /\ UNCHANGED <<boot, BmcStatus, StatusCodeValue, bmc, readyAnswers, selfTest>>

\* GetDeviceId, first loop: until the BMC answers at all.
DeviceIdFailsForever ==
  /\ pc = "deviceId"
  /\ \E o \in CommandErrors : BmcStatus' = o.status
  /\ Retries' = Retries - 1
  /\ UNCHANGED <<pc, DataSize, Status, boot, StatusCodeValue, bmc, readyAnswers, selfTest>>

DeviceIdFails ==
  /\ pc = "deviceId"
  /\ \E o \in CommandErrors :
       \/ /\ Retries = 0
          /\ AfterDeviceId("ERROR", "HARDFAIL")
       \/ /\ Retries > 0
          /\ Retries' = Retries - 1
          /\ BmcStatus' = o.status
          /\ UNCHANGED <<pc, DataSize, Status>>
  /\ UNCHANGED <<boot, StatusCodeValue, bmc, readyAnswers, selfTest>>

DeviceIdAnswered ==
  /\ pc = "deviceId"
  /\ CountReady
  /\ \/ /\ SaysReady
        /\ AfterDeviceId("SUCCESS", "OK")
     \/ /\ ~ SaysReady
        /\ pc' = "context"
        /\ BmcStatus' = "OK"
        /\ DataSize' = DeviceIdSize
        /\ UNCHANGED <<Retries, Status>>
  /\ UNCHANGED <<boot, StatusCodeValue, bmc, selfTest>>

\* Get BMC Execution Context: forced update, or a BMC that is still booting.
ExecutionContext ==
  /\ pc = "context"
  /\ \E o \in CommandErrors \cup {Response(ContextSize)} :
       \/ /\ o.ok /\ bmc = "update"
          /\ AfterDeviceId("SUCCESS", "UPDATE_IN_PROGRESS")
       \/ /\ ~ (o.ok /\ bmc = "update")
          /\ pc' = "wait"
          /\ Retries' = ReadyDelay
          /\ BmcStatus' = o.status
          /\ DataSize' = o.size
          /\ Status' = EfiStatus(o)
  /\ UNCHANGED <<boot, StatusCodeValue, bmc, readyAnswers, selfTest>>

\* GetDeviceId, second loop: until the BMC says it is ready.  DataSize is what
\* the command before left in it.
KeepWaiting(o) ==
  /\ Retries' = Retries - 1
  /\ BmcStatus' = o.status
  /\ DataSize' = o.size
  /\ Status' = EfiStatus(o)
  /\ UNCHANGED pc

WaitFails ==
  /\ pc = "wait" /\ Retries > 0
  /\ \E o \in CommandErrors : KeepWaiting(o)
  /\ UNCHANGED <<boot, StatusCodeValue, bmc, readyAnswers, selfTest>>

WaitAnswered ==
  /\ pc = "wait" /\ Retries > 0
  /\ CountReady
  /\ LET o == Response(DeviceIdSize)
     IN  \/ /\ o.ok /\ SaysReady
            /\ AfterDeviceId("SUCCESS", "OK")
         \/ ~ (o.ok /\ SaysReady) /\ KeepWaiting(o)
  /\ UNCHANGED <<boot, StatusCodeValue, bmc, selfTest>>

WaitExhausted ==
  /\ pc = "wait" /\ Retries = 0
  /\ AfterDeviceId(Status, "HARDFAIL")
  /\ UNCHANGED <<boot, StatusCodeValue, bmc, readyAnswers, selfTest>>
-------------------------------------------------------------------------------
(***************************************************************************)
(* GetSelfTest.                                                            *)
(***************************************************************************)
HardFlags == {"FRU_CORRUPT", "FW_BOOTBLOCK_CORRUPT", "FW_CORRUPT"}

\* TempData[1], in which the code looks for the flags.  TempData[0] is the
\* completion code, so this is the result byte: 57h for ERROR, which as flags
\* reads as the ones below.
TempData1(t) == HardFlags \cup {"IPMB_SIGNAL_LINES", "SDR_NOT_ACCESSIBLE"}

Verdict(t) ==
  CASE t.Result \in {"NO_ERROR", "NOT_IMPLEMENTED"} -> "OK"
    [] t.Result = "ERROR" -> IF TempData1(t) \cap HardFlags # {} THEN "HARDFAIL" ELSE "SOFTFAIL"
    [] t.Result = "FATAL_HW_ERROR" -> "HARDFAIL"

VerdictCodes(t) ==
  {c \in {"SDR_EMPTY", "HARD_FAIL", "SOFT_FAIL"} :
     \/ c = "SDR_EMPTY" /\ t.Result = "ERROR" /\ "SDR_EMPTY" \in TempData1(t)
     \/ c = "HARD_FAIL" /\ Verdict(t) = "HARDFAIL"
     \/ c = "SOFT_FAIL" /\ Verdict(t) = "SOFTFAIL"}

\* An answer with one of the four results of the specification.  A count of 0
\* stands for no answer (line 110): if both PCDs are 0 the count starts there, and
\* the answer to the first command is taken for none.
SelfTestAnswered ==
  /\ pc = "selfTest"
  /\ \E t \in SelfTests :
       /\ t.Result # "OTHER"
       /\ BmcStatus' = IF Retries = 0 THEN "HARDFAIL" ELSE Verdict(t)
       /\ StatusCodeValue' = IF Retries = 0 THEN {"COMM_ERROR"} ELSE VerdictCodes(t)
       /\ selfTest' = IF Retries = 0 THEN selfTest ELSE t
  /\ DataSize' = SelfTestSize
  /\ InitReturns("SUCCESS")
  /\ UNCHANGED <<boot, Retries, bmc, readyAnswers>>

\* An error, or a result still unknown: try again, or give the BMC up.  With
\* both PCDs 0 the count starts at 0 and wraps.
SelfTestFailsUncounted ==
  /\ pc = "selfTest"
  /\ \E o \in CommandErrors \cup {Response(SelfTestSize)} :
       /\ DataSize' = o.size
       /\ \/ /\ Retries = 1
             /\ BmcStatus' = "HARDFAIL"
             /\ StatusCodeValue' = {"COMM_ERROR"}
             /\ InitReturns(EfiStatus(o))
             /\ UNCHANGED Retries
          \/ /\ Retries > 1
             /\ BmcStatus' = o.status
             /\ UNCHANGED <<pc, Status, StatusCodeValue, Retries>>
  /\ UNCHANGED <<boot, bmc, readyAnswers, selfTest>>

SelfTestFails ==
  /\ pc = "selfTest"
  /\ \E o \in CommandErrors \cup {Response(SelfTestSize)} :
       /\ Retries' = (Retries + CountRange - 1) % CountRange
       /\ DataSize' = o.size
       /\ \/ /\ Retries = 1
             /\ BmcStatus' = "HARDFAIL"
             /\ StatusCodeValue' = {"COMM_ERROR"}
             /\ InitReturns(EfiStatus(o))
          \/ /\ Retries # 1
             /\ BmcStatus' = o.status
             /\ UNCHANGED <<pc, Status, StatusCodeValue>>
  /\ UNCHANGED <<boot, bmc, readyAnswers, selfTest>>
-------------------------------------------------------------------------------
(***************************************************************************)
(* The drivers.                                                            *)
(***************************************************************************)

\* PEI runs before the others, if the platform has it; DXE and MM drivers are
\* dispatched in any order.
CanRun(d) == pc = "idle" /\ d \notin ran /\ (d = "pei" => ran = {})

Dispatch(d) ==
  /\ CanRun(d)
  /\ driver' = d
  /\ ran' = ran \cup {d}
  /\ Retries' = 0 /\ DataSize' = 0 /\ Status' = "SUCCESS"
  /\ StatusCodeValue' = {} /\ readyAnswers' = 0 /\ selfTest' = NoResult
  /\ UNCHANGED <<hob, published, bmc>>

\* No memory for the instance, or InitializeIpmiTransportHardware failed.
SetupFails(d) ==
  /\ Dispatch(d)
  /\ BmcStatus' = "NOTREADY"
  /\ UNCHANGED pc

StartInitIgnoringHob(d) ==
  /\ Dispatch(d)
  /\ BmcStatus' = "NOTREADY"
  /\ pc' = "platform"

\* PEI always initializes the BMC; the others when PEI left no HOB.
StartInit(d) ==
  /\ Dispatch(d)
  /\ d = "pei" \/ hob = NoHob
  /\ BmcStatus' = "NOTREADY"
  /\ pc' = "platform"

TakeHob(d) ==
  /\ d # "pei" /\ hob # NoHob
  /\ Dispatch(d)
  /\ BmcStatus' = hob
  /\ pc' = "publish"

inits == <<BmcStatus, Retries, DataSize, Status, StatusCodeValue, bmc, readyAnswers, selfTest>>

Install ==
  /\ pc' = "idle"
  /\ published' = [published EXCEPT ![driver] = BmcStatus]
  /\ UNCHANGED <<driver, ran, inits>>

DoNotInstall ==
  /\ pc' = "idle"
  /\ UNCHANGED <<driver, ran, published, inits>>

Dead == BmcStatus \in {"HARDFAIL", "UPDATE_IN_PROGRESS"}

\* PEI records its verdict whatever it is, then installs the PPI.  The HOB, or
\* the PPI, may find no room.
PublishPei ==
  /\ pc = "publish" /\ driver = "pei"
  /\ \/ hob' = BmcStatus /\ ~ Dead /\ Install
     \/ hob' \in {BmcStatus, NoHob} /\ DoNotInstall

\* DXE gives up on an error of its own initialization and installs nothing for
\* a BMC that is dead or updating.
PublishDxe ==
  /\ pc = "publish" /\ driver = "dxe"
  /\ IF Status = "SUCCESS" /\ ~ Dead THEN Install ELSE DoNotInstall
  /\ UNCHANGED hob

\* SMM and standalone MM install their protocol whatever the status is.
PublishMm ==
  /\ pc = "publish" /\ driver = "mm"
  /\ IF Status = "SUCCESS" THEN Install ELSE DoNotInstall
  /\ UNCHANGED hob

\* External: the BMC comes up, or enters forced update.
BmcBoots ==
  /\ bmc = "booting"
  /\ bmc' \in {"ready", "update"}
  /\ UNCHANGED <<pc, boot, BmcStatus, Retries, DataSize, Status, StatusCodeValue, readyAnswers,
                 selfTest>>

Host ==
  \/ PlatformIpmiInitialize
  \/ DeviceIdFails \/ DeviceIdAnswered
  \/ ExecutionContext
  \/ WaitFails \/ WaitAnswered \/ WaitExhausted
  \/ SelfTestAnswered \/ SelfTestFails
  \/ PublishPei \/ PublishDxe \/ PublishMm

Next ==
  \/ \E d \in Drivers : SetupFails(d) \/ StartInit(d) \/ TakeHob(d)
  \/ Host
  \/ BmcBoots

Spec == Init /\ [][Next]_vars

FairSpec == Spec /\ WF_vars(Host)
-------------------------------------------------------------------------------
(***************************************************************************)
(* Properties.                                                             *)
(***************************************************************************)

\* GetDeviceId gives up a BMC that says it is ready at most once without being
\* heard: the first answer after Get BMC Execution Context may find DataSize
\* too small, and the failed call makes room for the next (lines 276-323).
ReadyNotMissed ==
  BmcStatus = "HARDFAIL" /\ StatusCodeValue = {} => readyAnswers <= 1

\* The drivers of one boot agree about the BMC through the HOB.  After PEI built
\* it none of them initializes the BMC again; a BMC in forced update is sent
\* nothing more by the init that found it, and neither PEI nor DXE offers an
\* interface to it later; and a DXE or MM driver publishes an instance that
\* never reached the BMC only on the word of the HOB.
HobSparesBmc ==
  /\ hob # NoHob => pc \notin InitSteps
  /\ BmcStatus = "UPDATE_IN_PROGRESS" => pc \notin InitSteps
  /\ hob = "UPDATE_IN_PROGRESS" => published["pei"] = NoHob /\ published["dxe"] = NoHob
  /\ \A d \in {"dxe", "mm"} : published[d] = "NOTREADY" => hob = "NOTREADY"

\* Initialization ends, whatever the BMC does not answer.
InitTerminates == pc # "idle" ~> pc = "idle"

\* What lines 145-147 say of a self test with errors: "Three of the possible
\* errors result in BMC hard failure; [...] All other errors are BMC soft
\* failures."
SelfTestSeverity ==
  pc = "publish" /\ selfTest # NoResult =>
    (selfTest.Result = "ERROR" /\ selfTest.Param \cap HardFlags = {} => BmcStatus = "SOFTFAIL")
===============================================================================
