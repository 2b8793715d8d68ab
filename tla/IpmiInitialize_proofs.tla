------------------------- MODULE IpmiInitialize_proofs -------------------------
(***************************************************************************)
(* Theorems about IpmiInitialize, for every number of retries, every size  *)
(* of the responses and the buffer, and every order of the drivers.        *)
(***************************************************************************)
EXTENDS IpmiInitialize, TLAPS

\* Within one initialization.  An answer that said ready was not heard only if
\* DataSize was too small, and made it large enough for the next.  The self
\* test begins only for a BMC that was heard of and is neither dead nor updating.
LoopInv ==
  /\ pc \in {"platform", "deviceId", "context"} => readyAnswers = 0
  /\ pc = "wait" => \/ readyAnswers = 0
                    \/ readyAnswers = 1 /\ DeviceIdSize - 1 <= DataSize
  /\ pc = "selfTest" => BmcStatus \in {"OK", "SOFTFAIL"}

\* Between the drivers.  PEI runs first or not at all; a driver publishes once,
\* and later ones have the HOB's word or, without a HOB, the BMC's own.
DriverInv ==
  /\ ran = {} => hob = NoHob
  /\ \A d \in Drivers : published[d] # NoHob => d \in ran
  /\ pc # "idle" => driver \in ran /\ published[driver] = NoHob
  /\ pc # "idle" /\ driver = "pei" => ran = {"pei"}
  /\ pc = "publish" /\ driver # "pei" =>
       IF hob = NoHob THEN Status = "SUCCESS" => BmcStatus # "NOTREADY"
       ELSE BmcStatus = hob

IInv == TypeOK /\ LoopInv /\ DriverInv /\ ReadyNotMissed /\ HobSparesBmc
-------------------------------------------------------------------------------
\* One command: the status it leaves, and the size.
LEMMA OutcomeOf ==
  ASSUME NEW size, NEW o \in CommandErrors \cup {Response(size)}
  PROVE  /\ o.status \in {"SOFTFAIL", "OK", BmcStatus}
         /\ o.size \in {DataSize, size}
         /\ EfiStatus(o) \in {"SUCCESS", "ERROR"}
<1>1. CASE o \in CommandErrors
  BY <1>1 DEF CommandErrors, EfiStatus
<1>2. CASE o = Response(size) /\ size - 1 > DataSize
  BY <1>2 DEF Response, EfiStatus
<1>3. CASE o = Response(size) /\ ~ (size - 1 > DataSize)
  BY <1>3 DEF Response, EfiStatus
<1> QED
  BY <1>1, <1>2, <1>3

\* What an error of a command leaves behind.
LEMMA ErrorOutcome ==
  ASSUME NEW o \in CommandErrors
  PROVE  /\ o.status \in {"SOFTFAIL", BmcStatus}
         /\ o.size = DataSize
         /\ EfiStatus(o) = "ERROR"
BY DEF CommandErrors, EfiStatus

\* Get Device ID in the waiting loop: refused, it says how much room it needs.
LEMMA DeviceIdOutcome ==
  ASSUME DataSize \in Nat, NEW o, o = Response(DeviceIdSize)
  PROVE  /\ o.size = DeviceIdSize
         /\ o.status \in {"OK", BmcStatus}
         /\ EfiStatus(o) \in {"SUCCESS", "ERROR"}
         /\ DeviceIdSize - 1 <= DataSize => o.ok
<1> USE SizeAssumption
<1>1. CASE DeviceIdSize - 1 > DataSize
  BY <1>1 DEF Response, EfiStatus
<1>2. CASE ~ (DeviceIdSize - 1 > DataSize)
  BY <1>2 DEF Response, EfiStatus
<1> QED
  BY <1>1, <1>2

\* The verdict on a self test, and that a dead BMC is reported.
LEMMA VerdictOf ==
  ASSUME NEW t \in SelfTests, t.Result # "OTHER"
  PROVE  /\ Verdict(t) \in {"OK", "SOFTFAIL", "HARDFAIL"}
         /\ VerdictCodes(t) \subseteq {"SDR_EMPTY", "HARD_FAIL", "SOFT_FAIL"}
         /\ Verdict(t) = "HARDFAIL" => VerdictCodes(t) # {}
<1>1. t.Result \in SelfTestResults
  BY DEF SelfTests
<1>2. Verdict(t) \in {"OK", "SOFTFAIL", "HARDFAIL"}
  BY <1>1 DEF Verdict, SelfTestResults
<1>3. VerdictCodes(t) \subseteq {"SDR_EMPTY", "HARD_FAIL", "SOFT_FAIL"}
  BY DEF VerdictCodes
<1>4. Verdict(t) = "HARDFAIL" => "HARD_FAIL" \in VerdictCodes(t)
  BY DEF VerdictCodes
<1> QED
  BY <1>2, <1>3, <1>4

\* The counts stay in their width; 0 wraps to the largest.
LEMMA CountDown ==
  ASSUME NEW r \in 0..(CountRange - 1)
  PROVE  /\ r > 0 => r - 1 \in 0..(CountRange - 1)
         /\ (r + CountRange - 1) % CountRange \in 0..(CountRange - 1)
         /\ SelfTestRetries \in 0..(CountRange - 1)
<1>1. CountRange \in Nat /\ CountRange > 1
  BY RetryAssumption
<1>2. \A a \in Nat, n \in Nat \ {0} : a % n \in 0..(n - 1)
  OBVIOUS
<1>3. r + CountRange - 1 \in Nat
  BY <1>1
<1>4. (r + CountRange - 1) % CountRange \in 0..(CountRange - 1)
  BY <1>1, <1>2, <1>3
<1>5. SelfTestRetries \in 0..(CountRange - 1)
  BY <1>1, RetryAssumption DEF SelfTestRetries
<1> QED
  BY <1>1, <1>4, <1>5

\* GetDeviceId is over: the self test follows, or the end.
LEMMA DeviceIdOver ==
  ASSUME TypeOK, NEW status, NEW found, AfterDeviceId(status, found)
  PROVE  /\ BmcStatus' = found /\ Status' = status
         /\ pc' \in {"selfTest", "publish"}
         /\ pc' = "selfTest" => found \notin {"UPDATE_IN_PROGRESS", "HARDFAIL"}
         /\ Retries' \in 0..(CountRange - 1) /\ DataSize' \in Nat
<1>1. TempSize \in Nat /\ SelfTestRetries \in 0..(CountRange - 1)
  BY SizeAssumption, CountDown DEF TypeOK
<1> QED
  BY <1>1 DEF AfterDeviceId, InitReturns, TypeOK

\* The invariant holds before the first driver runs.
LEMMA InitHolds == Init => IInv
<1> SUFFICES ASSUME Init PROVE IInv
  OBVIOUS
<1>1. TypeOK
  BY RetryAssumption DEF Init, TypeOK, Drivers, Statuses
<1>2. LoopInv /\ DriverInv /\ ReadyNotMissed
  BY DEF Init, LoopInv, DriverInv, ReadyNotMissed
<1>3. HobSparesBmc
  BY HobAssumption DEF Init, HobSparesBmc, InitSteps, Drivers, Statuses
<1> QED
  BY <1>1, <1>2, <1>3 DEF IInv

\* Every step keeps the types.
LEMMA TypeStep == TypeOK /\ [Next]_vars => TypeOK'
<1> SUFFICES ASSUME TypeOK, [Next]_vars PROVE TypeOK'
  OBVIOUS
<1> USE DEF TypeOK, InitSteps, Statuses, Drivers
<1>0. /\ 0 \in 0..(CountRange - 1) /\ ReadyDelay \in 0..(CountRange - 1)
      /\ {TempSize, DeviceIdSize, ContextSize, SelfTestSize} \subseteq Nat
  BY RetryAssumption, SizeAssumption
<1>1. CASE UNCHANGED vars
  BY <1>1 DEF vars, boot
<1>2. CASE \E d \in Drivers : SetupFails(d) \/ StartInit(d) \/ TakeHob(d)
  <2> PICK d \in Drivers : SetupFails(d) \/ StartInit(d) \/ TakeHob(d)
    BY <1>2
  <2>1. /\ driver' = d /\ ran' = ran \cup {d}
        /\ Retries' = 0 /\ DataSize' = 0 /\ Status' = "SUCCESS"
        /\ StatusCodeValue' = {} /\ readyAnswers' = 0 /\ selfTest' = NoResult
        /\ UNCHANGED <<hob, published, bmc>>
    BY DEF SetupFails, StartInit, TakeHob, Dispatch
  <2>2. /\ pc' \in {pc, "platform", "publish"}
        /\ BmcStatus' = "NOTREADY" \/ (BmcStatus' = hob /\ hob # NoHob)
    BY DEF SetupFails, StartInit, TakeHob
  <2> QED
    BY <1>0, <2>1, <2>2
<1>3. CASE PlatformIpmiInitialize
  BY <1>0, <1>3, CountDown DEF PlatformIpmiInitialize, InitReturns, boot
<1>4. CASE DeviceIdFails
  BY <1>0, <1>4, DeviceIdOver, ErrorOutcome, CountDown DEF DeviceIdFails, boot
<1>5. CASE DeviceIdAnswered
  BY <1>0, <1>5, DeviceIdOver, CountDown DEF DeviceIdAnswered, CountReady, boot
<1>6. CASE ExecutionContext
  <2>1. ASSUME NEW o \in CommandErrors \cup {Response(ContextSize)}
        PROVE  o.status \in Statuses /\ o.size \in Nat /\ EfiStatus(o) \in {"SUCCESS", "ERROR"}
    BY <1>0, OutcomeOf
  <2>2. CASE AfterDeviceId("SUCCESS", "UPDATE_IN_PROGRESS")
    BY <1>6, <2>2, DeviceIdOver DEF ExecutionContext, boot
  <2>3. CASE ~ AfterDeviceId("SUCCESS", "UPDATE_IN_PROGRESS")
    BY <1>0, <1>6, <2>1, <2>3 DEF ExecutionContext, boot
  <2> QED
    BY <2>2, <2>3
<1>7. CASE WaitFails
  BY <1>0, <1>7, ErrorOutcome, CountDown DEF WaitFails, KeepWaiting, boot
<1>8. CASE WaitAnswered
  BY <1>0, <1>8, DeviceIdOver, DeviceIdOutcome, CountDown DEF WaitAnswered, CountReady,
     KeepWaiting, boot
<1>9. CASE WaitExhausted
  BY <1>0, <1>9, DeviceIdOver, CountDown DEF WaitExhausted, boot
<1>10. CASE SelfTestAnswered
  BY <1>0, <1>10, VerdictOf DEF SelfTestAnswered, InitReturns, boot
<1>11. CASE SelfTestFails
  <2>1. ASSUME NEW o \in CommandErrors \cup {Response(SelfTestSize)}
        PROVE  o.status \in Statuses /\ o.size \in Nat /\ EfiStatus(o) \in {"SUCCESS", "ERROR"}
    BY <1>0, OutcomeOf
  <2>2. (Retries + CountRange - 1) % CountRange \in 0..(CountRange - 1)
    BY CountDown
  <2> QED
    BY <1>11, <2>1, <2>2 DEF SelfTestFails, InitReturns, boot
<1>12. CASE PublishPei
  <2>1. hob' \in Statuses \cup {NoHob} /\ pc' = "idle" /\ UNCHANGED <<driver, ran, inits>>
    BY <1>12 DEF PublishPei, Install, DoNotInstall
  <2>2. published' \in [Drivers -> Statuses \cup {NoHob}]
    BY <1>12 DEF PublishPei, Install, DoNotInstall
  <2> QED
    BY <2>1, <2>2 DEF inits
<1>13. CASE PublishDxe
  BY <1>0, <1>13 DEF PublishDxe, Install, DoNotInstall, inits, Dead
<1>14. CASE PublishMm
  BY <1>0, <1>14 DEF PublishMm, Install, DoNotInstall, inits
<1>15. CASE BmcBoots
  BY <1>0, <1>15 DEF BmcBoots, boot
<1> QED
  BY <1>1, <1>2, <1>3, <1>4, <1>5, <1>6, <1>7, <1>8, <1>9, <1>10, <1>11, <1>12, <1>13,
         <1>14, <1>15 DEF Next, Host

\* Every step keeps what the wait loop has heard.
LEMMA LoopStep == IInv /\ [Next]_vars => (LoopInv /\ ReadyNotMissed)'
<1> SUFFICES ASSUME IInv, [Next]_vars PROVE (LoopInv /\ ReadyNotMissed)'
  OBVIOUS
<1> USE SizeAssumption DEF IInv, TypeOK, LoopInv, ReadyNotMissed, Statuses, InitSteps
<1>1. CASE UNCHANGED vars
  BY <1>1 DEF vars, boot
<1>2. CASE \E d \in Drivers : SetupFails(d) \/ StartInit(d) \/ TakeHob(d)
  BY <1>2 DEF SetupFails, StartInit, TakeHob, Dispatch, CanRun
<1>3. CASE PlatformIpmiInitialize
  BY <1>3 DEF PlatformIpmiInitialize, InitReturns, boot
<1>4. CASE DeviceIdFails
  BY <1>4, DeviceIdOver, ErrorOutcome DEF DeviceIdFails, boot
<1>5. CASE DeviceIdAnswered
  BY <1>5, DeviceIdOver DEF DeviceIdAnswered, CountReady, boot
<1>6. CASE ExecutionContext
  BY <1>6, DeviceIdOver, OutcomeOf DEF ExecutionContext, boot
<1>7. CASE WaitFails
  BY <1>7, ErrorOutcome DEF WaitFails, KeepWaiting, boot
<1>8. CASE WaitAnswered
  BY <1>8, DeviceIdOver, DeviceIdOutcome DEF WaitAnswered, CountReady, KeepWaiting, boot
<1>9. CASE WaitExhausted
  BY <1>9, DeviceIdOver DEF WaitExhausted, boot
<1>10. CASE SelfTestAnswered
  BY <1>10, VerdictOf DEF SelfTestAnswered, InitReturns, boot
<1>11. CASE SelfTestFails
  BY <1>11, OutcomeOf DEF SelfTestFails, InitReturns, boot
<1>12. CASE PublishPei
  BY <1>12 DEF PublishPei, Install, DoNotInstall, inits, Dead
<1>13. CASE PublishDxe
  BY <1>13 DEF PublishDxe, Install, DoNotInstall, inits, Dead
<1>14. CASE PublishMm
  BY <1>14 DEF PublishMm, Install, DoNotInstall, inits
<1>15. CASE BmcBoots
  BY <1>15 DEF BmcBoots, boot
<1> QED
  BY <1>1, <1>2, <1>3, <1>4, <1>5, <1>6, <1>7, <1>8, <1>9, <1>10, <1>11, <1>12, <1>13,
         <1>14, <1>15 DEF Next, Host

\* Every step keeps what the drivers know of the BMC from the HOB.
LEMMA DriverStep == IInv /\ [Next]_vars => (DriverInv /\ HobSparesBmc)'
<1> SUFFICES ASSUME IInv, [Next]_vars PROVE (DriverInv /\ HobSparesBmc)'
  OBVIOUS
<1> USE HobAssumption DEF IInv, TypeOK, LoopInv, DriverInv, HobSparesBmc, InitSteps,
            Drivers, Statuses
<1>1. CASE UNCHANGED vars
  BY <1>1 DEF vars, boot
<1>2. CASE \E d \in Drivers : SetupFails(d) \/ StartInit(d) \/ TakeHob(d)
  BY <1>2 DEF SetupFails, StartInit, TakeHob, Dispatch, CanRun
<1>3. CASE PlatformIpmiInitialize
  BY <1>3 DEF PlatformIpmiInitialize, InitReturns, boot
<1>4. CASE DeviceIdFails
  BY <1>4, DeviceIdOver, ErrorOutcome DEF DeviceIdFails, boot
<1>5. CASE DeviceIdAnswered
  BY <1>5, DeviceIdOver DEF DeviceIdAnswered, CountReady, boot
<1>6. CASE ExecutionContext
  BY <1>6, DeviceIdOver, OutcomeOf DEF ExecutionContext, boot
<1>7. CASE WaitFails
  BY <1>7, ErrorOutcome DEF WaitFails, KeepWaiting, boot
<1>8. CASE WaitAnswered
  BY <1>8, DeviceIdOver, DeviceIdOutcome DEF WaitAnswered, CountReady, KeepWaiting, boot
<1>9. CASE WaitExhausted
  BY <1>9, DeviceIdOver DEF WaitExhausted, boot
<1>10. CASE SelfTestAnswered
  BY <1>10, VerdictOf DEF SelfTestAnswered, InitReturns, boot
<1>11. CASE SelfTestFails
  BY <1>11, OutcomeOf DEF SelfTestFails, InitReturns, boot
<1>12. CASE PublishPei
  BY <1>12 DEF PublishPei, Install, DoNotInstall, inits, Dead
<1>13. CASE PublishDxe
  <2>1. /\ pc = "publish" /\ pc' = "idle" /\ driver = "dxe"
        /\ UNCHANGED <<driver, ran, hob, BmcStatus>>
    BY <1>13 DEF PublishDxe, Install, DoNotInstall, inits
  <2>2. "dxe" \in ran
    BY <2>1 DEF DriverInv
  <2>3. \/ published' = published
        \/ /\ Status = "SUCCESS" /\ ~ Dead
           /\ published' = [published EXCEPT !["dxe"] = BmcStatus]
    BY <1>13, <2>1 DEF PublishDxe, Install, DoNotInstall
  <2>4. BmcStatus = "NOTREADY" /\ Status = "SUCCESS" => hob = "NOTREADY"
    BY <2>1 DEF DriverInv
  <2> QED
    BY <2>1, <2>2, <2>3, <2>4, HobAssumption DEF Dead
<1>14. CASE PublishMm
  <2>1. /\ pc = "publish" /\ pc' = "idle" /\ driver = "mm"
        /\ UNCHANGED <<driver, ran, hob, BmcStatus>>
    BY <1>14 DEF PublishMm, Install, DoNotInstall, inits
  <2>2. "mm" \in ran
    BY <2>1 DEF DriverInv
  <2>3. \/ published' = published
        \/ /\ Status = "SUCCESS"
           /\ published' = [published EXCEPT !["mm"] = BmcStatus]
    BY <1>14, <2>1 DEF PublishMm, Install, DoNotInstall
  <2>4. BmcStatus = "NOTREADY" /\ Status = "SUCCESS" => hob = "NOTREADY"
    BY <2>1 DEF DriverInv
  <2> QED
    BY <2>1, <2>2, <2>3, <2>4
<1>15. CASE BmcBoots
  BY <1>15 DEF BmcBoots, boot
<1> QED
  BY <1>1, <1>2, <1>3, <1>4, <1>5, <1>6, <1>7, <1>8, <1>9, <1>10, <1>11, <1>12, <1>13,
         <1>14, <1>15 DEF Next, Host

\* The inductive invariant holds.
LEMMA Invariance == Spec => []IInv
<1>1. IInv /\ [Next]_vars => IInv'
  BY TypeStep, LoopStep, DriverStep DEF IInv
<1> QED
  BY <1>1, InitHolds, PTL DEF Spec

\* Types; the retry counts stay in their width.
THEOREM TypeCorrect == Spec => []TypeOK
<1>1. IInv => TypeOK
  BY DEF IInv
<1> QED
  BY <1>1, Invariance, PTL

\* For every size of the responses and any number of retries, GetDeviceId gives
\* up a BMC that said it is ready at most once without being heard.
THEOREM ReadyHeard == Spec => []ReadyNotMissed
<1>1. IInv => ReadyNotMissed
  BY DEF IInv
<1> QED
  BY <1>1, Invariance, PTL

\* The drivers of one boot agree about the BMC through the HOB, in whichever
\* order they run and whichever of them fail.
THEOREM HobTrusted == Spec => []HobSparesBmc
<1>1. IInv => HobSparesBmc
  BY DEF IInv
<1> QED
  BY <1>1, Invariance, PTL
-------------------------------------------------------------------------------
(***************************************************************************)
(* Progress.  That initialization ends needs fairness and stays with TLC;  *)
(* that it takes a bounded number of steps does not.                       *)
(***************************************************************************)
\* Self tests from a count of retries on: 0 wraps, and is the longest.
SelfTestsFrom(r) == IF r = 0 THEN CountRange ELSE r

\* The longest way from here to the driver's end: two loops over Get Device ID,
\* Get BMC Execution Context between them, and the self tests.
StepsLeft ==
  CASE pc = "idle"     -> 0
    [] pc = "publish"  -> 1
    [] pc = "selfTest" -> 1 + SelfTestsFrom(Retries)
    [] pc = "wait"     -> 2 + SelfTestsFrom(SelfTestRetries) + Retries
    [] pc = "context"  -> 3 + SelfTestsFrom(SelfTestRetries) + ReadyDelay
    [] pc = "deviceId" -> 4 + SelfTestsFrom(SelfTestRetries) + ReadyDelay + Retries
    [] pc = "platform" -> 5 + SelfTestsFrom(SelfTestRetries) + 2 * ReadyDelay

\* What a step does to the steps left.
Bounded ==
  /\ Host => StepsLeft' < StepsLeft
  /\ StepsLeft \in Nat /\ (StepsLeft = 0 <=> pc = "idle")
  /\ StepsLeft' > StepsLeft =>
       /\ pc = "idle" /\ ran' # ran
       /\ StepsLeft' <= 5 + SelfTestsFrom(SelfTestRetries) + 2 * ReadyDelay

\* Numbers of self tests; a failed one takes one off, the last one apart.
LEMMA SelfTestCount ==
  /\ CountRange \in Nat /\ CountRange > 1 /\ ReadyDelay \in Nat
  /\ SelfTestsFrom(SelfTestRetries) \in Nat /\ SelfTestsFrom(SelfTestRetries) > 0
  /\ \A r \in 0..(CountRange - 1) :
       /\ SelfTestsFrom(r) \in Nat /\ SelfTestsFrom(r) > 0
       /\ r # 1 => SelfTestsFrom((r + CountRange - 1) % CountRange) = SelfTestsFrom(r) - 1
<1>1. CountRange \in Nat /\ CountRange > 1 /\ ReadyDelay \in Nat
  BY RetryAssumption
<1>2. SelfTestRetries \in 0..(CountRange - 1)
  BY <1>1, CountDown
<1>3. SelfTestsFrom(SelfTestRetries) \in Nat /\ SelfTestsFrom(SelfTestRetries) > 0
  BY <1>1, <1>2 DEF SelfTestsFrom
<1>4. ASSUME NEW r \in 0..(CountRange - 1)
      PROVE  /\ SelfTestsFrom(r) \in Nat /\ SelfTestsFrom(r) > 0
             /\ r # 1 => SelfTestsFrom((r + CountRange - 1) % CountRange) = SelfTestsFrom(r) - 1
  <2>1. SelfTestsFrom(r) \in Nat /\ SelfTestsFrom(r) > 0
    BY <1>1 DEF SelfTestsFrom
  <2>2. CASE r = 0
    <3>1. (r + CountRange - 1) % CountRange = CountRange - 1
      BY <1>1, <2>2
    <3> QED BY <1>1, <2>1, <2>2, <3>1 DEF SelfTestsFrom
  <2>3. CASE r > 1
    <3>1. r + CountRange - 1 = CountRange + (r - 1) /\ r - 1 \in 0..(CountRange - 1)
      BY <1>1, <2>3
    <3>2. (CountRange + (r - 1)) % CountRange = r - 1
      BY <1>1, <2>3
    <3> QED BY <1>1, <2>1, <2>3, <3>1, <3>2 DEF SelfTestsFrom
  <2> QED BY <1>1, <2>1, <2>2, <2>3
<1> QED BY <1>1, <1>3, <1>4

\* The steps left are a number, 0 between drivers.
LEMMA StepsLeftType ==
  ASSUME TypeOK
  PROVE  StepsLeft \in Nat /\ (StepsLeft = 0 <=> pc = "idle")
<1>1. /\ pc \in InitSteps \cup {"idle", "publish"} /\ Retries \in Nat
      /\ SelfTestsFrom(Retries) \in Nat
  BY SelfTestCount DEF TypeOK
<1> QED BY <1>1, SelfTestCount DEF StepsLeft, InitSteps

\* The same in the next state.
LEMMA StepsLeftTypeNext ==
  ASSUME TypeOK'
  PROVE  StepsLeft' \in Nat
<1>1. /\ pc' \in InitSteps \cup {"idle", "publish"} /\ Retries' \in Nat
      /\ SelfTestsFrom(Retries') \in Nat
  BY SelfTestCount DEF TypeOK
<1> QED BY <1>1, SelfTestCount DEF StepsLeft, InitSteps

\* The end of GetDeviceId leaves the self tests at most.
LEMMA AfterSteps ==
  ASSUME NEW status, NEW found, AfterDeviceId(status, found)
  PROVE  /\ StepsLeft' <= 1 + SelfTestsFrom(SelfTestRetries)
         /\ StepsLeft' \in Nat
<1>1. CASE pc' = "selfTest" /\ Retries' = SelfTestRetries
  BY <1>1, SelfTestCount DEF StepsLeft
<1>2. CASE pc' = "publish"
  BY <1>2, SelfTestCount DEF StepsLeft
<1> QED BY <1>1, <1>2 DEF AfterDeviceId, InitReturns

\* Every command takes a step off.
LEMMA HostProgress ==
  ASSUME TypeOK, Host
  PROVE  StepsLeft' < StepsLeft
<1>1. Retries \in Nat /\ Retries \in 0..(CountRange - 1)
  BY SelfTestCount DEF TypeOK
<1>0. ASSUME NEW status, NEW found, AfterDeviceId(status, found),
             pc \in {"deviceId", "context", "wait"}
      PROVE  StepsLeft' < StepsLeft
  <2>1. StepsLeft' <= 1 + SelfTestsFrom(SelfTestRetries) /\ StepsLeft' \in Nat
    BY <1>0, AfterSteps
  <2>2. StepsLeft >= 2 + SelfTestsFrom(SelfTestRetries)
    BY <1>0, <1>1, SelfTestCount DEF StepsLeft
  <2> QED BY <2>1, <2>2, SelfTestCount, StepsLeftType
<1>2. CASE PlatformIpmiInitialize
  <2>1. /\ pc = "platform"
        /\ pc' = "publish" \/ (pc' = "deviceId" /\ Retries' = ReadyDelay)
    BY <1>2 DEF PlatformIpmiInitialize, InitReturns
  <2>2. StepsLeft = 5 + SelfTestsFrom(SelfTestRetries) + 2 * ReadyDelay
    BY <2>1 DEF StepsLeft
  <2>3. \/ StepsLeft' = 1
        \/ StepsLeft' = 4 + SelfTestsFrom(SelfTestRetries) + ReadyDelay + ReadyDelay
    BY <2>1 DEF StepsLeft
  <2> QED BY <2>2, <2>3, SelfTestCount
<1>3. CASE DeviceIdFails
  <2>1. CASE AfterDeviceId("ERROR", "HARDFAIL")
    <3>1. pc = "deviceId"
      BY <1>3 DEF DeviceIdFails
    <3> QED BY <1>0, <2>1, <3>1
  <2>2. CASE pc = "deviceId" /\ pc' = pc /\ Retries > 0 /\ Retries' = Retries - 1
    BY <1>1, <2>2, SelfTestCount DEF StepsLeft
  <2> QED BY <1>3, <2>1, <2>2 DEF DeviceIdFails
<1>4. CASE DeviceIdAnswered
  <2>1. pc = "deviceId"
    BY <1>4 DEF DeviceIdAnswered
  <2>2. CASE AfterDeviceId("SUCCESS", "OK")
    BY <1>0, <2>1, <2>2
  <2>3. CASE pc' = "context"
    BY <1>1, <2>1, <2>3, SelfTestCount DEF StepsLeft
  <2> QED BY <1>4, <2>2, <2>3 DEF DeviceIdAnswered
<1>5. CASE ExecutionContext
  <2>1. pc = "context"
    BY <1>5 DEF ExecutionContext
  <2>2. CASE AfterDeviceId("SUCCESS", "UPDATE_IN_PROGRESS")
    BY <1>0, <2>1, <2>2
  <2>3. CASE pc' = "wait" /\ Retries' = ReadyDelay
    BY <2>1, <2>3, SelfTestCount DEF StepsLeft
  <2> QED BY <1>5, <2>2, <2>3 DEF ExecutionContext
<1>6. CASE WaitFails \/ WaitAnswered \/ WaitExhausted
  <2>1. pc = "wait"
    BY <1>6 DEF WaitFails, WaitAnswered, WaitExhausted
  <2>2. ASSUME NEW status, NEW found, AfterDeviceId(status, found)
        PROVE  StepsLeft' < StepsLeft
    BY <1>0, <2>1, <2>2
  <2>3. CASE pc' = pc /\ Retries > 0 /\ Retries' = Retries - 1
    BY <1>1, <2>1, <2>3, SelfTestCount DEF StepsLeft
  <2> QED BY <1>6, <2>2, <2>3 DEF WaitFails, WaitAnswered, WaitExhausted, KeepWaiting
<1>7. CASE SelfTestAnswered
  <2>1. pc = "selfTest" /\ pc' = "publish"
    BY <1>7 DEF SelfTestAnswered, InitReturns
  <2> QED BY <1>1, <2>1, SelfTestCount DEF StepsLeft
<1>8. CASE SelfTestFails
  <2>1. pc = "selfTest"
    BY <1>8 DEF SelfTestFails
  <2>2. CASE pc' = "publish"
    BY <1>1, <2>1, <2>2, SelfTestCount DEF StepsLeft
  <2>3. CASE pc' = pc /\ Retries # 1 /\ Retries' = (Retries + CountRange - 1) % CountRange
    <3>1. SelfTestsFrom(Retries') = SelfTestsFrom(Retries) - 1 /\ SelfTestsFrom(Retries) \in Nat
      BY <1>1, <2>3, SelfTestCount
    <3>2. StepsLeft' = 1 + SelfTestsFrom(Retries') /\ StepsLeft = 1 + SelfTestsFrom(Retries)
      BY <2>1, <2>3 DEF StepsLeft
    <3> QED BY <3>1, <3>2
  <2> QED BY <1>8, <2>2, <2>3 DEF SelfTestFails, InitReturns
<1>9. CASE PublishPei \/ PublishDxe \/ PublishMm
  <2>1. pc = "publish" /\ pc' = "idle"
    BY <1>9 DEF PublishPei, PublishDxe, PublishMm, Install, DoNotInstall
  <2> QED BY <2>1 DEF StepsLeft
<1> QED BY <1>2, <1>3, <1>4, <1>5, <1>6, <1>7, <1>8, <1>9 DEF Host

\* The commands of an initialization are bounded, whatever the BMC answers and
\* whenever it comes up: two loops of ReadyDelay retries, and the self tests.
\* They are few unless both PCDs are 0, for then Retries wraps (line 105) and the
\* self test alone may be sent CountRange times.
THEOREM InitBounded == Spec => [][Bounded]_vars
<1>1. IInv /\ [Next]_vars => [Bounded]_vars
  <2> SUFFICES ASSUME IInv, Next PROVE Bounded
    OBVIOUS
  <2>1. TypeOK /\ StepsLeft \in Nat /\ (StepsLeft = 0 <=> pc = "idle")
    BY StepsLeftType DEF IInv
  <2>2. Host => StepsLeft' < StepsLeft
    BY <2>1, HostProgress
  <2>3. ASSUME StepsLeft' > StepsLeft
        PROVE  /\ pc = "idle" /\ ran' # ran
               /\ StepsLeft' <= 5 + SelfTestsFrom(SelfTestRetries) + 2 * ReadyDelay
    <3>1. CASE Host
      <4>1. StepsLeft' \in Nat
        BY <2>1, TypeStep, StepsLeftTypeNext DEF IInv
      <4> QED BY <2>1, <2>2, <2>3, <3>1, <4>1
    <3>2. CASE BmcBoots
      <4>1. StepsLeft' = StepsLeft
        BY <3>2 DEF BmcBoots, StepsLeft
      <4> QED BY <2>1, <2>3, <4>1
    <3>3. CASE \E d \in Drivers : SetupFails(d) \/ StartInit(d) \/ TakeHob(d)
      <4>1. /\ pc = "idle" /\ ran' # ran
            /\ pc' \in {"idle", "platform", "publish"}
        BY <3>3 DEF SetupFails, StartInit, TakeHob, Dispatch, CanRun
      <4>2. StepsLeft' <= 5 + SelfTestsFrom(SelfTestRetries) + 2 * ReadyDelay
        BY <4>1, SelfTestCount DEF StepsLeft
      <4> QED BY <4>1, <4>2
    <3> QED BY <3>1, <3>2, <3>3 DEF Next
  <2> QED BY <2>1, <2>2, <2>3 DEF Bounded
<1> QED BY <1>1, Invariance, PTL DEF Spec
===============================================================================
