-------------------------- MODULE GenericIpmi_proofs --------------------------
(***************************************************************************)
(* Proofs about GenericIpmi for every set of commands and sizes and every  *)
(* value of MaxRetries, MaxSoftCount and CountMax.                         *)
(***************************************************************************)
EXTENDS GenericIpmi, TLAPS

(***************************************************************************)
(* The inductive invariant.  None of the properties is inductive alone:    *)
(* escalation needs the 8-bit counter tied to the errors that happened,    *)
(* and what EFI_BUFFER_TOO_SMALL returned must be tied to the response     *)
(* that caused it.                                                         *)
(***************************************************************************)
CounterInv ==
  /\ SoftErrorCount <= errors
  /\ errors <= CountMax => SoftErrorCount = errors

ResultInv ==
  result.status = "BUFFER_TOO_SMALL" =>
    /\ taken \in Channel!Answers
    /\ call.size # NoBuffer
    /\ TooSmall(taken, call.size)
    /\ taken.req = call.cmd
    /\ result.size = RequiredSize(taken)

\* While a command runs, no earlier status report or result is visible: its
\* errors and its response come after them.
BusyInv == pc # "idle" => reported = "NONE" /\ result.status = "NONE"

IInv ==
  /\ TypeOK
  /\ LoopNeverFallsThrough
  /\ CounterInv
  /\ EscalatesBeforeWrap
  /\ NoOkAfterFailure
  /\ BusyInv
  /\ ResultInv
-------------------------------------------------------------------------------
\* What IpmiSendCommandInternal gets of a caller's arguments.
LEMMA NarrowedType ==
  ASSUME NEW c \in Calls
  PROVE  Narrowed(c) \in [cmd : Commands, size : 0..CountMax \cup {NoBuffer}]
  <1>1. c.cmd \in Commands /\ (c.size = NoBuffer \/ c.size \in Nat)
    BY SizeAssumption DEF Calls
  <1>2. CountMax + 1 \in Nat /\ CountMax + 1 > 0
    BY CountAssumption
  <1>3. c.size \in Nat => c.size % (CountMax + 1) \in 0..CountMax
    BY <1>2, CountAssumption
  <1>4. Narrowed(c) = [cmd |-> c.cmd, size |-> IF c.size = NoBuffer THEN NoBuffer
                                                ELSE c.size % (CountMax + 1)]
    BY DEF Narrowed, Calls
  <1>. QED
    BY <1>1, <1>3, <1>4

\* Sizes and completion codes of a response.
LEMMA ReplyType ==
  ASSUME NEW r \in Channel!Answers
  PROVE  /\ r.req \in Commands
         /\ r.rep \in Replies
         /\ r.rep.size \in Nat
         /\ r.rep.cc \in CompletionCodes
  <1>1. r.req \in Commands /\ r.rep \in Replies
    BY DEF Channel!Answers
  <1>2. r.rep \in [cc : CompletionCodes, size : DataSizes \cup {HeaderSize}]
    BY <1>1 DEF Replies
  <1>3. r.rep.cc \in CompletionCodes /\ r.rep.size \in DataSizes \cup {HeaderSize}
    BY <1>2
  <1>4. HeaderSize \in Nat
    BY DEF HeaderSize
  <1>5. DataSizes \subseteq Nat
    BY SizeAssumption
  <1>6. r.rep.size \in Nat
    BY <1>3, <1>4, <1>5
  <1>. QED
    BY <1>1, <1>3, <1>6

\* The truncated increment stays in range and never overtakes the true count.
LEMMA CountStep ==
  ASSUME NEW n \in 0..CountMax, NEW e \in Nat, n <= e, e <= CountMax => n = e
  PROVE  /\ CountSoftError(n) \in 0..CountMax
         /\ CountSoftError(n) <= e + 1
         /\ e + 1 <= CountMax => CountSoftError(n) = e + 1
  BY CountAssumption DEF CountSoftError

\* The invariant holds at first.
LEMMA InitIInv == Init => IInv
  <1> SUFFICES ASSUME Init PROVE IInv
    OBVIOUS
  <1>1. Channel!TypeOK
    BY DEF Init, Channel!Init, Channel!TypeOK
  <1>2. /\ SoftErrorCount \in 0..CountMax
        /\ RetryCnt \in 0..MaxRetries
        /\ errors \in Nat
        /\ updateErrors \in 0..errors
        /\ CounterInv
    BY RetryAssumption, CountAssumption DEF Init, CounterInv
  <1>3. result \in [status : EfiStatuses, size : Nat]
    BY DEF Init, Result, EfiStatuses
  <1>4. TypeOK
    <2>1. call \in [cmd : Commands, size : 0..CountMax \cup {NoBuffer}]
      BY NarrowedType DEF Init
    <2>. QED
      BY <1>1, <1>2, <1>3, <2>1 DEF Init, TypeOK
  <1>5. LoopNeverFallsThrough /\ EscalatesBeforeWrap /\ NoOkAfterFailure /\ BusyInv
    BY DEF Init, LoopNeverFallsThrough, EscalatesBeforeWrap, NoOkAfterFailure, BusyInv
  <1>6. ResultInv
    BY DEF Init, Result, ResultInv
  <1>. QED
    BY <1>2, <1>4, <1>5, <1>6 DEF IInv

\* Taking an answer yields a well-formed one and keeps the channel typed.
LEMMA TakeType ==
  ASSUME Channel!TypeOK, Channel!Take
  PROVE  /\ Head(outbox) \in Channel!Answers
         /\ taken' = Head(outbox)
         /\ Channel!TypeOK'
  BY DEF Channel!TypeOK, Channel!Take

\* A request that reaches the BMC is one of the commands.
LEMMA DeliverType ==
  ASSUME Channel!TypeOK, NEW m \in Commands, Channel!Deliver(m)
  PROVE  Channel!TypeOK' /\ taken' = taken
  BY DEF Channel!TypeOK, Channel!Deliver

\* What the BMC does with its queues keeps their types.
LEMMA BmcType ==
  ASSUME Channel!TypeOK, Channel!Bmc
  PROVE  Channel!TypeOK' /\ taken' = taken
  <1>1. CASE Channel!Answer
    <2>1. PICK rep \in Replies :
            outbox' = Append(outbox, [req |-> Head(inbox), rep |-> rep])
      BY <1>1 DEF Channel!Answer
    <2>2. Head(inbox) \in Commands
      BY <1>1 DEF Channel!Answer, Channel!TypeOK
    <2>3. [req |-> Head(inbox), rep |-> rep] \in Channel!Answers
      BY <2>1, <2>2 DEF Channel!Answers
    <2>4. outbox' \in Seq(Channel!Answers)
      BY <2>1, <2>3 DEF Channel!TypeOK
    <2>. QED
      BY <1>1, <2>4 DEF Channel!Answer, Channel!TypeOK
  <1>2. CASE Channel!LoseRequest
    BY <1>2 DEF Channel!LoseRequest, Channel!TypeOK
  <1>3. CASE Channel!LoseAnswer
    BY <1>3 DEF Channel!LoseAnswer, Channel!TypeOK
  <1>. QED
    BY <1>1, <1>2, <1>3 DEF Channel!Bmc

-------------------------------------------------------------------------------
\* What a return leaves behind.
LEMMA ReturnType ==
  ASSUME NEW st \in EfiStatuses, NEW n \in Nat, Return(st, n)
  PROVE  /\ pc' = "idle"
         /\ result' \in [status : EfiStatuses, size : Nat]
         /\ result'.status = st
         /\ result'.size = n
  BY DEF Return, Result

\* A transport failure, in Send or in Receive, preserves the invariant.
LEMMA TransportFailureStep ==
  ASSUME IInv, TransportFailure, Channel!TypeOK', taken' = taken,
         pc # "idle", call' = call, reported' = reported, RetryCnt' \in 0..MaxRetries
  PROVE  IInv'
  <1>1. /\ pc' = "idle"
        /\ result' \in [status : EfiStatuses, size : Nat]
        /\ result'.status = "DEVICE_ERROR"
    <2>1. Return("DEVICE_ERROR", 0)
      BY DEF TransportFailure
    <2>2. "DEVICE_ERROR" \in EfiStatuses
      BY DEF EfiStatuses
    <2>. QED
      BY <2>1, <2>2, ReturnType
  <1>2. /\ SoftErrorCount' \in 0..CountMax
        /\ errors' \in Nat
        /\ updateErrors' \in 0..errors'
        /\ CounterInv'
    <2>1. /\ SoftErrorCount' = CountSoftError(SoftErrorCount)
          /\ errors' = errors + 1
          /\ updateErrors' = updateErrors
      BY DEF TransportFailure
    <2>2. /\ SoftErrorCount \in 0..CountMax
          /\ errors \in Nat
          /\ updateErrors \in 0..errors
          /\ SoftErrorCount <= errors
          /\ errors <= CountMax => SoftErrorCount = errors
      BY DEF IInv, TypeOK, CounterInv
    <2>. QED
      BY <2>1, <2>2, CountStep DEF CounterInv
  <1>3. BmcStatus' = "SOFTFAIL" /\ unrecovered' = TRUE
    BY DEF TransportFailure
  <1>4. reported' = "NONE"
    BY DEF IInv, BusyInv
  <1>5. TypeOK'
    BY <1>1, <1>2, <1>3 DEF IInv, TypeOK, Statuses
  <1>6. LoopNeverFallsThrough' /\ EscalatesBeforeWrap' /\ NoOkAfterFailure' /\ BusyInv'
    BY <1>1, <1>3, <1>4
    DEF LoopNeverFallsThrough, EscalatesBeforeWrap, NoOkAfterFailure, BusyInv
  <1>7. ResultInv'
    BY <1>1 DEF ResultInv
  <1>. QED
    BY <1>2, <1>5, <1>6, <1>7 DEF IInv

\* A call that is refused for its parameters leaves the instance as it was.
LEMMA RejectCallStep == IInv /\ RejectCall => IInv'
  <1> SUFFICES ASSUME IInv, RejectCall PROVE IInv'
    OBVIOUS
  <1>1. /\ pc' = "idle"
        /\ result' \in [status : EfiStatuses, size : Nat]
        /\ result'.status = "INVALID_PARAMETER"
    <2>1. Return("INVALID_PARAMETER", 0)
      BY DEF RejectCall
    <2>2. "INVALID_PARAMETER" \in EfiStatuses
      BY DEF EfiStatuses
    <2>. QED
      BY <2>1, <2>2, ReturnType
  <1>2. TypeOK'
    BY <1>1 DEF RejectCall, IInv, TypeOK, Channel!TypeOK, instance, channel
  <1>3. LoopNeverFallsThrough' /\ EscalatesBeforeWrap' /\ NoOkAfterFailure' /\ BusyInv'
    BY <1>1 DEF RejectCall, instance, IInv, LoopNeverFallsThrough, EscalatesBeforeWrap,
                NoOkAfterFailure, BusyInv
  <1>4. CounterInv' /\ ResultInv'
    BY <1>1 DEF RejectCall, instance, IInv, CounterInv, ResultInv
  <1>. QED
    BY <1>2, <1>3, <1>4 DEF IInv

\* A call starts with no result and all its attempts.
LEMMA BeginCallStep ==
  ASSUME IInv, NEW c \in Calls, BeginCall(c)
  PROVE  IInv'
  <1>1. result' \in [status : EfiStatuses, size : Nat] /\ result'.status = "NONE"
    BY DEF BeginCall, Result, EfiStatuses
  <1>2. TypeOK'
    BY <1>1, RetryAssumption, NarrowedType
    DEF BeginCall, IInv, TypeOK, Channel!TypeOK, instance, channel
  <1>3. LoopNeverFallsThrough'
    BY RetryAssumption DEF BeginCall, LoopNeverFallsThrough
  <1>4. EscalatesBeforeWrap' /\ NoOkAfterFailure' /\ BusyInv'
    BY <1>1 DEF BeginCall, instance, IInv, EscalatesBeforeWrap, NoOkAfterFailure, BusyInv
  <1>5. CounterInv' /\ ResultInv'
    BY <1>1 DEF BeginCall, instance, IInv, CounterInv, ResultInv
  <1>. QED
    BY <1>2, <1>3, <1>4, <1>5 DEF IInv

\* An attempt's request reaches the BMC, or is counted as an error.
LEMMA SendStep == IInv /\ Send => IInv'
  <1> SUFFICES ASSUME IInv, Send PROVE IInv'
    OBVIOUS
  <1>1. Channel!TypeOK' /\ taken' = taken
    <2>1. Channel!TypeOK /\ call.cmd \in Commands
      BY DEF IInv, TypeOK
    <2>2. CASE Channel!Deliver(call.cmd)
      BY <2>1, <2>2, DeliverType
    <2>3. CASE UNCHANGED channel
      BY <2>1, <2>3 DEF channel, Channel!TypeOK
    <2>. QED
      BY <2>2, <2>3 DEF Send
  <1>2. RetryCnt' \in 0..MaxRetries
    BY RetryAssumption DEF Send, IInv, TypeOK
  <1>3. CASE TransportFailure
    BY <1>1, <1>2, <1>3, TransportFailureStep DEF Send
  <1>4. CASE pc' = "receive" /\ UNCHANGED <<instance, result, unrecovered>>
    <2>1. TypeOK'
      BY <1>1, <1>2, <1>4 DEF Send, instance, IInv, TypeOK
    <2>2. LoopNeverFallsThrough' /\ EscalatesBeforeWrap' /\ NoOkAfterFailure' /\ BusyInv'
      BY <1>4 DEF Send, instance, IInv, LoopNeverFallsThrough, EscalatesBeforeWrap,
                  NoOkAfterFailure, BusyInv
    <2>3. CounterInv'
      BY <1>4 DEF instance, IInv, CounterInv
    <2>4. ResultInv'
      BY <1>1, <1>4 DEF Send, IInv, ResultInv, TooSmall, RequiredSize
    <2>. QED
      BY <2>1, <2>2, <2>3, <2>4 DEF IInv
  <1>. QED
    BY <1>3, <1>4 DEF Send

\* A response was taken and the command ends or is sent again.  Every way of
\* handling it except DeliverResponse leaves BmcStatus a legal non-OK value or
\* as it was.
LEMMA ReceiveStep == IInv /\ Receive => IInv'
  <1> SUFFICES ASSUME IInv, Receive PROVE IInv'
    OBVIOUS
  <1> DEFINE r == Head(outbox)
  <1>1. /\ Channel!TypeOK'
        /\ taken' = r
        /\ r \in Channel!Answers
    BY TakeType DEF IInv, TypeOK, Receive
  <1>2. r.rep.size \in Nat /\ r.rep.cc \in CompletionCodes
    BY <1>1, ReplyType
  <1>3. /\ pc = "receive" /\ reported = "NONE"
        /\ call' = call /\ reported' = reported
        /\ HandleResponse(r)
    BY DEF Receive, IInv, BusyInv
  <1> HIDE DEF r
  <1>4. CASE ShortResponse(r)
    <2>1. Return("DEVICE_ERROR", 0) /\ "DEVICE_ERROR" \in EfiStatuses
      BY <1>4 DEF ShortResponse, EfiStatuses
    <2>2. /\ pc' = "idle" /\ result' \in [status : EfiStatuses, size : Nat]
          /\ result'.status = "DEVICE_ERROR"
      BY <2>1, ReturnType
    <2>3. UNCHANGED <<BmcStatus, SoftErrorCount, errors, updateErrors, RetryCnt, unrecovered>>
      BY <1>4 DEF ShortResponse, instance
    <2>. QED
      BY <1>1, <1>3, <2>2, <2>3
      DEF IInv, TypeOK, LoopNeverFallsThrough, CounterInv, EscalatesBeforeWrap,
          NoOkAfterFailure, BusyInv, ResultInv
  <1>5. CASE FailedResponse(r)
    <2>1. FailureStatus(r.rep.cc) \in EfiStatuses \ {"BUFFER_TOO_SMALL"}
      BY DEF FailureStatus, EfiStatuses
    <2>2. Return(FailureStatus(r.rep.cc), 0)
      BY <1>5 DEF FailedResponse
    <2>3. /\ pc' = "idle" /\ result' \in [status : EfiStatuses, size : Nat]
          /\ result'.status # "BUFFER_TOO_SMALL"
      BY <2>1, <2>2, ReturnType
    <2>4. UNCHANGED <<RetryCnt, unrecovered>>
      BY <1>5 DEF FailedResponse
    <2>5. /\ SoftErrorCount' \in 0..CountMax /\ errors' \in Nat
          /\ updateErrors' \in 0..errors'
          /\ CounterInv'
          /\ BmcStatus' \in {BmcStatus, "SOFTFAIL"}
      <3>1. UpdateErrorStatus(r.rep.cc)
        BY <1>5 DEF FailedResponse
      <3>2. /\ SoftErrorCount \in 0..CountMax /\ errors \in Nat
            /\ updateErrors \in 0..errors
            /\ SoftErrorCount <= errors
            /\ errors <= CountMax => SoftErrorCount = errors
        BY DEF IInv, TypeOK, CounterInv
      <3>3. CASE r.rep.cc \in SoftErrors
        <4>1. /\ SoftErrorCount' = CountSoftError(SoftErrorCount)
              /\ errors' = errors + 1
              /\ updateErrors' \in {updateErrors, updateErrors + 1}
              /\ BmcStatus' \in {BmcStatus, "SOFTFAIL"}
          BY <3>1, <3>3 DEF UpdateErrorStatus
        <4>. QED
          BY <3>2, <4>1, CountStep DEF CounterInv
      <3>4. CASE r.rep.cc \notin SoftErrors
        BY <3>1, <3>2, <3>4 DEF UpdateErrorStatus, instance, CounterInv
      <3>. QED
        BY <3>3, <3>4
    <2>6. TypeOK'
      BY <1>1, <1>3, <2>3, <2>4, <2>5 DEF IInv, TypeOK, Statuses
    <2>. QED
      BY <1>3, <2>3, <2>4, <2>5, <2>6
      DEF IInv, LoopNeverFallsThrough, EscalatesBeforeWrap, NoOkAfterFailure, BusyInv,
          ResultInv
  <1>6. CASE MismatchedResponse(r)
    <2>1. UNCHANGED <<BmcStatus, SoftErrorCount, errors, updateErrors, RetryCnt, unrecovered>>
      BY <1>6 DEF MismatchedResponse, instance
    <2>2. CASE RetryCnt = 0 /\ Return("DEVICE_ERROR", 0)
      <3>1. /\ pc' = "idle" /\ result' \in [status : EfiStatuses, size : Nat]
            /\ result'.status = "DEVICE_ERROR"
        BY <2>2, ReturnType DEF EfiStatuses
      <3>. QED
        BY <1>1, <1>3, <2>1, <3>1
        DEF IInv, TypeOK, LoopNeverFallsThrough, CounterInv, EscalatesBeforeWrap,
            NoOkAfterFailure, BusyInv, ResultInv
    <2>3. CASE RetryCnt # 0 /\ pc' = "send" /\ UNCHANGED result
      <3>1. result.status = "NONE"
        BY <1>3 DEF IInv, BusyInv
      <3>2. LoopNeverFallsThrough'
        BY <2>1, <2>3, RetryAssumption DEF IInv, TypeOK, LoopNeverFallsThrough
      <3>3. TypeOK'
        BY <1>1, <1>3, <2>1, <2>3 DEF IInv, TypeOK
      <3>. QED
        BY <1>3, <2>1, <2>3, <3>1, <3>2, <3>3
        DEF IInv, CounterInv, EscalatesBeforeWrap, NoOkAfterFailure, BusyInv, ResultInv
    <2>. QED
      BY <1>6, <2>2, <2>3 DEF MismatchedResponse
  <1>7. CASE OversizeResponse(r)
    <2>1. /\ TooSmall(r, call.size) /\ r.req = call.cmd
          /\ Return("BUFFER_TOO_SMALL", RequiredSize(r))
          /\ UNCHANGED <<BmcStatus, SoftErrorCount, errors, updateErrors, RetryCnt, unrecovered>>
      BY <1>7 DEF OversizeResponse, Matches, instance
    <2>2. r.rep.size >= HeaderSize
      BY <1>7 DEF OversizeResponse, Completed
    <2>3. RequiredSize(r) \in Nat
      BY <1>2, <2>2 DEF RequiredSize, HeaderSize
    <2>4. /\ pc' = "idle" /\ result' \in [status : EfiStatuses, size : Nat]
          /\ result'.size = RequiredSize(r)
      BY <2>1, <2>3, ReturnType DEF EfiStatuses
    <2>5. TypeOK'
      BY <1>1, <1>3, <2>1, <2>4 DEF IInv, TypeOK
    <2>6. ResultInv'
      BY <1>1, <1>3, <2>1, <2>4 DEF ResultInv, TooSmall, RequiredSize
    <2>. QED
      BY <1>3, <2>1, <2>4, <2>5, <2>6
      DEF IInv, LoopNeverFallsThrough, CounterInv, EscalatesBeforeWrap, NoOkAfterFailure,
          BusyInv
  <1>8. CASE DeliverResponse(r)
    <2>1. /\ BmcStatus' = "OK" /\ unrecovered' = FALSE
          /\ UNCHANGED <<SoftErrorCount, errors, updateErrors, RetryCnt>>
      BY <1>8 DEF DeliverResponse
    <2> DEFINE n == IF call.size = NoBuffer THEN 0 ELSE Written(r)
    <2>2. Return("SUCCESS", n)
      BY <1>8 DEF DeliverResponse
    <2>3. n \in Nat
      BY <1>2, <1>8 DEF DeliverResponse, Completed, Written, HeaderSize
    <2> HIDE DEF n
    <2>4. /\ pc' = "idle" /\ result' \in [status : EfiStatuses, size : Nat]
          /\ result'.status = "SUCCESS"
      BY <2>2, <2>3, ReturnType DEF EfiStatuses
    <2>5. TypeOK'
      BY <1>1, <1>3, <2>1, <2>4 DEF IInv, TypeOK, Statuses
    <2>. QED
      BY <1>3, <2>1, <2>4, <2>5
      DEF IInv, LoopNeverFallsThrough, CounterInv, EscalatesBeforeWrap, NoOkAfterFailure,
          BusyInv, ResultInv
  <1>. QED
    BY <1>3, <1>4, <1>5, <1>6, <1>7, <1>8 DEF HandleResponse

\* A failed receive is counted and leads to another attempt or to the end.
LEMMA ReceiveFailsStep == IInv /\ ReceiveFails => IInv'
  <1> SUFFICES ASSUME IInv, ReceiveFails PROVE IInv'
    OBVIOUS
  <1>1. Channel!TypeOK' /\ taken' = taken
    BY DEF ReceiveFails, channel, IInv, TypeOK, Channel!TypeOK
  <1>2. RetryCnt' \in 0..MaxRetries
    BY DEF ReceiveFails, IInv, TypeOK
  <1>. QED
    BY <1>1, <1>2, TransportFailureStep DEF ReceiveFails

\* A status report turns many soft errors into a hard failure.
LEMMA IpmiBmcStatusStep == IInv /\ IpmiBmcStatus => IInv'
  <1> SUFFICES ASSUME IInv, IpmiBmcStatus PROVE IInv'
    OBVIOUS
  <1>1. /\ pc = "idle"
        /\ UNCHANGED <<SoftErrorCount, errors, updateErrors, pc, call, RetryCnt, result,
                        inbox, outbox, taken, unrecovered>>
        /\ reported' = BmcStatus'
    BY DEF IpmiBmcStatus, Escalate, channel
  <1>2. BmcStatus' = IF BmcStatus = "SOFTFAIL" /\ SoftErrorCount >= MaxSoftCount
                     THEN "HARDFAIL" ELSE BmcStatus
    BY DEF IpmiBmcStatus, Escalate
  <1>3. TypeOK'
    BY <1>1, <1>2 DEF IInv, TypeOK, Statuses, Channel!TypeOK
  <1>4. EscalatesBeforeWrap'
    <2>1. SUFFICES ASSUME BmcStatus' = "SOFTFAIL", errors <= CountMax
                   PROVE  errors < MaxSoftCount
      \* Force update mode included, so its errors may be left out.
      BY <1>1, CountAssumption DEF EscalatesBeforeWrap, IInv, TypeOK
    <2>2. SoftErrorCount = errors
      BY <2>1 DEF IInv, CounterInv
    <2>3. ~ (SoftErrorCount >= MaxSoftCount)
      BY <1>2, <2>1
    <2>. QED
      BY <2>2, <2>3, CountAssumption DEF IInv, TypeOK
  <1>5. NoOkAfterFailure' /\ LoopNeverFallsThrough' /\ CounterInv' /\ BusyInv'
    BY <1>1, <1>2 DEF IInv, NoOkAfterFailure, LoopNeverFallsThrough, CounterInv, BusyInv
  <1>6. ResultInv'
    BY <1>1 DEF IInv, ResultInv, TooSmall, RequiredSize
  <1>. QED
    BY <1>3, <1>4, <1>5, <1>6 DEF IInv

\* The BMC touches nothing of the driver's.
LEMMA BmcStep == IInv /\ Bmc => IInv'
  <1> SUFFICES ASSUME IInv, Bmc PROVE IInv'
    OBVIOUS
  <1>1. Channel!TypeOK' /\ taken' = taken
    BY BmcType DEF Bmc, IInv, TypeOK
  <1>2. UNCHANGED <<BmcStatus, SoftErrorCount, pc, call, RetryCnt, result, reported,
                    errors, updateErrors, unrecovered>>
    BY DEF Bmc, instance
  <1>3. TypeOK'
    BY <1>1, <1>2 DEF IInv, TypeOK
  <1>4. LoopNeverFallsThrough' /\ CounterInv' /\ EscalatesBeforeWrap' /\ NoOkAfterFailure'
        /\ BusyInv'
    BY <1>2 DEF IInv, LoopNeverFallsThrough, CounterInv, EscalatesBeforeWrap,
                NoOkAfterFailure, BusyInv
  <1>5. ResultInv'
    BY <1>1, <1>2 DEF IInv, ResultInv, TooSmall, RequiredSize
  <1>. QED
    BY <1>3, <1>4, <1>5 DEF IInv

\* Stuttering.
LEMMA StutterStep == IInv /\ UNCHANGED vars => IInv'
  <1> SUFFICES ASSUME IInv, UNCHANGED vars PROVE IInv'
    OBVIOUS
  <1>1. TypeOK'
    BY DEF vars, IInv, TypeOK, Channel!TypeOK
  <1>2. LoopNeverFallsThrough' /\ CounterInv' /\ EscalatesBeforeWrap' /\ NoOkAfterFailure'
        /\ BusyInv'
    BY DEF vars, IInv, LoopNeverFallsThrough, CounterInv, EscalatesBeforeWrap,
           NoOkAfterFailure, BusyInv
  <1>3. ResultInv'
    BY DEF vars, IInv, ResultInv, TooSmall, RequiredSize
  <1>. QED
    BY <1>1, <1>2, <1>3 DEF IInv

\* Every step keeps the invariant.
LEMMA NextIInv == IInv /\ [Next]_vars => IInv'
  <1> SUFFICES ASSUME IInv, [Next]_vars PROVE IInv'
    OBVIOUS
  <1>1. ASSUME NEW c \in Calls, BeginCall(c) PROVE IInv'
    BY <1>1, BeginCallStep
  <1>. QED
    BY <1>1, RejectCallStep, SendStep, ReceiveStep, ReceiveFailsStep, IpmiBmcStatusStep,
       BmcStep, StutterStep
    DEF Next, Host
-------------------------------------------------------------------------------
\* The inductive invariant holds in every reachable state.
THEOREM Invariance == Spec => []IInv
  BY InitIInv, NextIInv, PTL DEF Spec

\* The instance, its counters and the channel keep their types: in particular
\* SoftErrorCount stays an 8-bit value and RetryCnt never goes below zero.
THEOREM TypeCorrect == Spec => []TypeOK
  <1>1. IInv => TypeOK
    BY DEF IInv
  <1>. QED
    BY <1>1, Invariance, PTL

\* The retry loop of IpmiSendCommandInternal is only left through a return or
\* the break, for every value of PcdIpmiCommandMaxReties but 0.
THEOREM LoopSafety == Spec => []LoopNeverFallsThrough
  <1>1. IInv => LoopNeverFallsThrough
    BY DEF IInv
  <1>. QED
    BY <1>1, Invariance, PTL

\* A failed instance is not reported healthy before a command succeeds.
THEOREM FailureRemembered == Spec => []NoOkAfterFailure
  <1>1. IInv => NoOkAfterFailure
    BY DEF IInv
  <1>. QED
    BY <1>1, Invariance, PTL

\* IpmiBmcStatus escalates in time as long as the counter has not wrapped.
THEOREM EscalationSafety == Spec => []EscalatesBeforeWrap
  <1>1. IInv => EscalatesBeforeWrap
    BY DEF IInv
  <1>. QED
    BY <1>1, Invariance, PTL

\* EFI_BUFFER_TOO_SMALL is about a response to the caller's own command, and the
\* size returned with it is enough for that response.
THEOREM RequiredSizeCorrect == Spec => []RequiredSizeSuffices
  <1>1. IInv => RequiredSizeSuffices
    <2> SUFFICES ASSUME IInv, result.status = "BUFFER_TOO_SMALL"
                 PROVE  /\ taken.req = call.cmd
                        /\ result.size > call.size
                        /\ ~ TooSmall(taken, result.size)
                        /\ Written(taken) <= result.size
      BY DEF RequiredSizeSuffices
    <2>1. /\ taken.rep.size \in Nat
          /\ call.size \in Nat
          /\ result.size = taken.rep.size - HeaderSize + 1
          /\ taken.rep.size - HeaderSize > call.size
      <3>1. taken \in Channel!Answers /\ call.size # NoBuffer
        BY DEF IInv, ResultInv
      <3>2. call.size \in Nat
        BY <3>1, CountAssumption DEF IInv, TypeOK
      <3>3. /\ result.size = taken.rep.size - HeaderSize + 1
            /\ taken.rep.size - HeaderSize > call.size
        BY DEF IInv, ResultInv, RequiredSize, TooSmall
      <3>. QED
        BY <3>1, <3>2, <3>3, ReplyType
    <2>2. taken.req = call.cmd
      BY DEF IInv, ResultInv
    <2>. QED
      BY <2>1, <2>2 DEF TooSmall, Written, HeaderSize
  <1>. QED
    BY <1>1, Invariance, PTL

\* A hard failure stands for at least MaxSoftCount errors that happened.
THEOREM HardFailCorrect == Spec => HardFailEarned
  <1>1. IInv /\ [Next]_vars =>
          [BmcStatus # "HARDFAIL" /\ BmcStatus' = "HARDFAIL" => errors >= MaxSoftCount]_vars
    <2> SUFFICES ASSUME IInv, Next, BmcStatus # "HARDFAIL", BmcStatus' = "HARDFAIL"
                 PROVE  errors >= MaxSoftCount
      OBVIOUS
    <2>1. CASE IpmiBmcStatus
      <3>1. SoftErrorCount >= MaxSoftCount
        BY <2>1 DEF IpmiBmcStatus, Escalate
      <3>. QED
        BY <3>1, CountAssumption DEF IInv, TypeOK, CounterInv
    <2>2. CASE Receive
      BY <2>2 DEF Receive, HandleResponse, ShortResponse, FailedResponse, MismatchedResponse,
                  OversizeResponse, DeliverResponse, UpdateErrorStatus, instance
    <2>3. CASE Send \/ ReceiveFails
      BY <2>3 DEF Send, ReceiveFails, TransportFailure, instance
    <2>4. CASE RejectCall \/ Bmc \/ \E c \in Calls : BeginCall(c)
      BY <2>4 DEF RejectCall, BeginCall, Bmc, instance
    <2>. QED
      BY <2>1, <2>2, <2>3, <2>4 DEF Next, Host
  <1>. QED
    BY <1>1, Invariance, PTL DEF Spec, HardFailEarned

\* Force update mode ends only through a transport failure or a success.
THEOREM UpdateModeCorrect == Spec => UpdateModeKept
  <1>1. [Next]_vars =>
          [BmcStatus = "UPDATE_IN_PROGRESS" /\ BmcStatus' # "UPDATE_IN_PROGRESS"
             => unrecovered' \/ result'.status = "SUCCESS"]_vars
    <2> SUFFICES ASSUME Next, BmcStatus = "UPDATE_IN_PROGRESS",
                        BmcStatus' # "UPDATE_IN_PROGRESS"
                 PROVE  unrecovered' \/ result'.status = "SUCCESS"
      OBVIOUS
    <2>1. CASE IpmiBmcStatus
      BY <2>1 DEF IpmiBmcStatus, Escalate
    <2>2. CASE Receive
      <3>1. CASE DeliverResponse(Head(outbox))
        BY <3>1 DEF DeliverResponse, Return, Result
      <3>2. CASE \/ ShortResponse(Head(outbox)) \/ FailedResponse(Head(outbox))
                 \/ MismatchedResponse(Head(outbox)) \/ OversizeResponse(Head(outbox))
        BY <3>2 DEF ShortResponse, FailedResponse, MismatchedResponse, OversizeResponse,
                    UpdateErrorStatus, instance
      <3>. QED
        BY <2>2, <3>1, <3>2 DEF Receive, HandleResponse
    <2>3. CASE Send \/ ReceiveFails
      BY <2>3 DEF Send, ReceiveFails, TransportFailure, instance
    <2>4. CASE RejectCall \/ Bmc \/ \E c \in Calls : BeginCall(c)
      BY <2>4 DEF RejectCall, BeginCall, Bmc, instance
    <2>. QED
      BY <2>1, <2>2, <2>3, <2>4 DEF Next, Host
  <1>. QED
    BY <1>1, PTL DEF Spec, UpdateModeKept
-------------------------------------------------------------------------------
(***************************************************************************)
(* Progress.  That a command returns needs fairness and stays with TLC;    *)
(* that it takes a bounded number of steps does not.                       *)
(***************************************************************************)
\* A send and a receive for every attempt that is left.
StepsLeft ==
  CASE pc = "idle"    -> 0
    [] pc = "send"    -> 2 * RetryCnt
    [] pc = "receive" -> 2 * RetryCnt + 1

\* What a step does to the steps left.
Bounded ==
  /\ Host => StepsLeft' < StepsLeft
  /\ StepsLeft \in Nat /\ (StepsLeft = 0 <=> pc = "idle")
  /\ StepsLeft' > StepsLeft => pc = "idle" /\ StepsLeft' = 2 * MaxRetries

\* The steps left are a number, 0 between commands.
LEMMA StepsLeftType ==
  ASSUME IInv
  PROVE  StepsLeft \in Nat /\ (StepsLeft = 0 <=> pc = "idle")
  <1>1. /\ pc \in {"idle", "send", "receive"} /\ RetryCnt \in Nat
        /\ pc = "send" => RetryCnt > 0
    BY RetryAssumption DEF IInv, TypeOK, LoopNeverFallsThrough
  <1>. QED
    BY <1>1 DEF StepsLeft

\* A response ends the command, or sends it again without giving an attempt back.
LEMMA ReceiveProgress ==
  ASSUME Receive
  PROVE  /\ pc = "receive" /\ pc' \in {"idle", "send"}
         /\ RetryCnt' = RetryCnt
  <1>1. ASSUME NEW r, HandleResponse(r)
        PROVE  pc' \in {"idle", "send"} /\ RetryCnt' = RetryCnt
    BY <1>1 DEF HandleResponse, ShortResponse, FailedResponse, MismatchedResponse,
                OversizeResponse, DeliverResponse, Return
  <1>. QED
    BY <1>1 DEF Receive

\* The steps of a command are bounded by two for every attempt, whatever the
\* transport and the BMC do: late and wrong answers, which send the command
\* again, never give an attempt back (lines 164, 293-298).
THEOREM CommandBounded == Spec => [][Bounded]_vars
  <1>1. IInv /\ [Next]_vars => [Bounded]_vars
    <2> SUFFICES ASSUME IInv, Next PROVE Bounded
      OBVIOUS
    <2>1. /\ RetryCnt \in Nat /\ MaxRetries \in Nat
          /\ pc \in {"idle", "send", "receive"}
          /\ pc = "send" => RetryCnt > 0
      BY RetryAssumption DEF IInv, TypeOK, LoopNeverFallsThrough
    <2>2. StepsLeft \in Nat /\ (StepsLeft = 0 <=> pc = "idle")
      BY StepsLeftType
    <2>3. CASE Send
      <3>1. pc = "send" /\ pc' \in {"idle", "receive"} /\ RetryCnt' = RetryCnt - 1
        BY <2>3 DEF Send, TransportFailure, Return
      <3>2. StepsLeft' < StepsLeft /\ StepsLeft' \in Nat
        BY <2>1, <3>1 DEF StepsLeft
      <3>. QED
        BY <2>2, <3>2 DEF Bounded
    <2>4. CASE Receive \/ ReceiveFails
      <3>1. pc = "receive" /\ pc' \in {"idle", "send"} /\ RetryCnt' = RetryCnt
        BY <2>4, ReceiveProgress DEF ReceiveFails, TransportFailure, Return
      <3>2. StepsLeft' < StepsLeft /\ StepsLeft' \in Nat
        BY <2>1, <3>1 DEF StepsLeft
      <3>. QED
        BY <2>2, <3>2 DEF Bounded
    <2>5. CASE \E c \in Calls : BeginCall(c)
      <3>1. pc = "idle" /\ pc' = "send" /\ RetryCnt' = MaxRetries
        BY <2>5 DEF BeginCall
      <3>2. StepsLeft' = 2 * MaxRetries
        BY <3>1 DEF StepsLeft
      <3>. QED
        BY <2>2, <3>1, <3>2 DEF Bounded, Host, Send, Receive, ReceiveFails
    <2>6. CASE RejectCall \/ IpmiBmcStatus
      <3>1. pc = "idle" /\ pc' = "idle"
        BY <2>6 DEF RejectCall, Return, IpmiBmcStatus, Escalate
      <3>2. StepsLeft' = 0
        BY <3>1 DEF StepsLeft
      <3>. QED
        BY <2>2, <3>1, <3>2 DEF Bounded, Host, Send, Receive, ReceiveFails
    <2>7. CASE Bmc
      <3>1. pc' = pc /\ RetryCnt' = RetryCnt
        BY <2>7 DEF Bmc
      <3>2. StepsLeft' = StepsLeft
        BY <3>1 DEF StepsLeft
      <3>3. ~ Send
        BY <2>1, <3>1 DEF Send
      <3>4. CASE Receive \/ ReceiveFails
        BY <2>4, <3>4
      <3>5. CASE ~ Host
        BY <2>2, <3>2, <3>5 DEF Bounded
      <3>. QED
        BY <3>3, <3>4, <3>5 DEF Host
    <2>. QED
      BY <2>3, <2>4, <2>5, <2>6, <2>7 DEF Next, Host
  <1>. QED
    BY <1>1, Invariance, PTL DEF Spec
===============================================================================
