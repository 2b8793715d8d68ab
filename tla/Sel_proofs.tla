------------------------------ MODULE Sel_proofs ------------------------------
(***************************************************************************)
(* Proofs about Sel, for any set of clients and records, any log size and  *)
(* any number of cut responses, on both kinds of BMC.                      *)
(***************************************************************************)
EXTENDS Sel, TLAPS

(***************************************************************************)
(* The inductive invariant.  AckedKept needs that nothing is acknowledged  *)
(* while a clear may still empty the log; ClearedOld that a client which   *)
(* asks for the progress of its clear has no old record left unless the    *)
(* BMC is still erasing.                                                   *)
(***************************************************************************)
QuietInv == ~ Quiet => acked = {}

WaitInv == \A c \in Clients : pc[c] = "getEraseStatus" => old[c] = 0 \/ erasing

IInv == TypeOK /\ AckedKept /\ QuietInv /\ WaitInv

\* Appending keeps every element where it is.
LEMMA AppendKeeps ==
  ASSUME NEW S, NEW s \in Seq(S), NEW e \in S
  PROVE  /\ Append(s, e) \in Seq(S)
         /\ Len(Append(s, e)) = Len(s) + 1
         /\ \A i \in 1..Len(s) : Append(s, e)[i] = s[i]
         /\ Append(s, e)[Len(s) + 1] = e
OBVIOUS

\* The log is empty and nobody was told an ID.
LEMMA InitHolds == Init => IInv
<1> SUFFICES ASSUME Init PROVE IInv
  OBVIOUS
<1>1. TypeOK
  <2>1. << >> \in Seq(Records) /\ Len(<< >>) = 0
    OBVIOUS
  <2>2. 0 \in 0..(SEL_COUNT - 1) /\ 0 \in 0..SEL_COUNT /\ 0 \in 0..MaxTruncated
    BY CountAssumption
  <2>3. Len(mSel) <= SEL_COUNT
    BY <2>1, CountAssumption DEF Init
  <2>4. "SUCCESS" \in Statuses /\ "idle" \in Clearing \cup {"idle", "walk"}
    BY DEF Statuses
  <2> QED
    BY <2>1, <2>2, <2>3, <2>4 DEF Init, TypeOK
<1>2. AckedKept /\ QuietInv /\ WaitInv
  BY DEF Init, AckedKept, QuietInv, WaitInv
<1> QED
  BY <1>1, <1>2 DEF IInv

\* A call that returns leaves its locals well-typed.
LEMMA ReturnType ==
  ASSUME TypeOK, NEW c \in Clients, NEW s \in Statuses, Return(c, s)
  PROVE  /\ pc' \in [Clients -> Clearing \cup {"idle", "walk"}]
         /\ AwaitClear' \in [Clients -> BOOLEAN] /\ odd' \in [Clients -> BOOLEAN]
         /\ RecordId' \in [Clients -> 0..(SEL_COUNT - 1)]
         /\ status' \in Statuses
<1>1. 0 \in 0..(SEL_COUNT - 1)
  BY CountAssumption
<1> QED
  BY <1>1 DEF TypeOK, Return

\* Adding a record: a new ID is the length of the log, which no earlier
\* acknowledgement has.
LEMMA AddHolds ==
  ASSUME IInv, NEW c \in Clients, NEW r \in Records, IpmiAddSelEntry(c, r)
  PROVE  IInv'
<1> DEFINE ack == [client |-> c, id |-> Len(mSel), record |-> r]
<1>0. /\ mSel \in Seq(Records) /\ Len(mSel) \in Nat /\ Len(mSel) <= SEL_COUNT
      /\ SEL_COUNT \in Nat
  BY CountAssumption DEF IInv, TypeOK
<1>1. /\ Append(mSel, r) \in Seq(Records)
      /\ Len(Append(mSel, r)) = Len(mSel) + 1
      /\ \A i \in 1..Len(mSel) : Append(mSel, r)[i] = mSel[i]
      /\ Append(mSel, r)[Len(mSel) + 1] = r
  BY <1>0, AppendKeeps
<1>2. UNCHANGED <<device, erasing, truncated, pc, AwaitClear, odd, RecordId, old>>
  BY DEF IpmiAddSelEntry, locals
<1>3. status' \in Statuses
  BY DEF IpmiAddSelEntry, Statuses
<1>4. \/ mSel' = mSel
      \/ mSel' = Append(mSel, r) /\ Len(mSel) < SEL_COUNT
  BY DEF IpmiAddSelEntry, MockIpmiSelAddEntry, mNextRecordId
<1>5. \/ acked' = acked
      \/ /\ acked' = acked \cup {ack} /\ Quiet
         /\ mSel' = Append(mSel, r) /\ Len(mSel) < SEL_COUNT
  BY DEF IpmiAddSelEntry, MockIpmiSelAddEntry, AddedRecordId, mNextRecordId
<1>6. Len(mSel) < SEL_COUNT => ack \in Acks
  BY <1>0 DEF Acks
<1>7. mSel' \in Seq(Records) /\ Len(mSel') <= SEL_COUNT
  BY <1>0, <1>1, <1>4
<1>8. acked' \subseteq Acks
  BY <1>5, <1>6 DEF IInv, TypeOK
<1>9. TypeOK'
  BY <1>2, <1>3, <1>7, <1>8 DEF IInv, TypeOK
<1>10. \A a \in acked : /\ a.id \in Nat /\ a.id < Len(mSel) /\ mSel[a.id + 1] = a.record
                        /\ a.id + 1 \in 1..Len(mSel)
  BY <1>0 DEF IInv, AckedKept, TypeOK, Acks, mNextRecordId
<1>11. \A a \in acked : a.id < Len(mSel') /\ mSel'[a.id + 1] = a.record
  BY <1>0, <1>1, <1>4, <1>10
<1>12. ack.id = Len(mSel) /\ ack.record = r
  OBVIOUS
<1>13. acked' # acked => ack.id < Len(mSel') /\ mSel'[ack.id + 1] = ack.record
  BY <1>0, <1>1, <1>5, <1>12
<1>14. \A a \in acked' : a.id < Len(mSel') /\ mSel'[a.id + 1] = a.record
  BY <1>5, <1>11, <1>13
<1>15. \A a \in acked : a.id # ack.id
  BY <1>0, <1>10, <1>12
<1>16. \A a, b \in acked' : a.id = b.id => a = b
  BY <1>5, <1>15 DEF IInv, AckedKept
<1>17. AckedKept'
  BY <1>14, <1>16 DEF AckedKept, mNextRecordId
<1>18. QuietInv' /\ WaitInv'
  BY <1>2, <1>5 DEF IInv, QuietInv, WaitInv, Quiet
<1> QED
  BY <1>9, <1>17, <1>18 DEF IInv

\* What a step that may empty the log leaves of the history.
LEMMA OldLeftType ==
  ASSUME TypeOK
  PROVE  /\ OldLeft \in [Clients -> 0..SEL_COUNT]
         /\ mSel' = <<>> => \A c \in Clients : OldLeft[c] = 0
         /\ mSel' # <<>> => OldLeft = old
<1>1. 0 \in 0..SEL_COUNT
  BY CountAssumption
<1> QED
  BY <1>1 DEF OldLeft, TypeOK

\* A Clear SEL request either leaves the log alone or empties it; it ends an
\* erasure only with an empty log, and after the first one the log is empty or
\* being erased.
LEMMA BmcClearEffect ==
  ASSUME TypeOK, NEW e \in Clearing, NEW p, BmcClear(e, p)
  PROVE  /\ mSel' = mSel \/ mSel' = <<>>
         /\ erasing' \in BOOLEAN
         /\ erasing => erasing' \/ mSel' = <<>>
         /\ e = "initializeErase" => erasing' \/ mSel' = <<>>
         /\ e = "getEraseStatus" /\ p = "completed" => ~ erasing \/ mSel' = <<>>
         /\ p = "completed" => ~ erasing' \/ device = "mock"
BY DEF BmcClear, MockIpmiSelClear, SlowSelClear, bmc, TypeOK, Clearing

\* The log as a step of a clear leaves it has its type.
LEMMA LogType ==
  ASSUME TypeOK, mSel' = mSel \/ mSel' = <<>>
  PROVE  mSel' \in Seq(Records) /\ Len(mSel') <= SEL_COUNT
<1>1. << >> \in Seq(Records) /\ Len(<< >>) = 0 /\ 0 <= SEL_COUNT
  BY CountAssumption
<1> QED
  BY <1>1 DEF TypeOK

\* A pass of SelClear's loop.
LEMMA ClearHolds ==
  ASSUME IInv, NEW c \in Clients, ClearCommand(c)
  PROVE  IInv'
<1> USE DEF IInv
<1>1. /\ pc[c] \in Clearing /\ UNCHANGED <<device, acked>> /\ acked = {}
  BY DEF ClearCommand, QuietInv, Quiet
<1>2. /\ mSel' = mSel \/ mSel' = <<>>
      /\ erasing' \in BOOLEAN
      /\ erasing => erasing' \/ mSel' = <<>>
  BY <1>1, BmcClearEffect DEF ClearCommand, bmc, TypeOK
<1>3. truncated' \in 0..MaxTruncated
  BY CountAssumption DEF ClearCommand, Truncate, TypeOK
<1>4. /\ pc' \in [Clients -> Clearing \cup {"idle", "walk"}]
      /\ AwaitClear' \in [Clients -> BOOLEAN] /\ odd' \in [Clients -> BOOLEAN]
      /\ RecordId' \in [Clients -> 0..(SEL_COUNT - 1)]
      /\ status' \in Statuses
  <2>1. {"SUCCESS", "ERROR"} \subseteq Statuses
    BY DEF Statuses
  <2>2. CASE Return(c, "SUCCESS") \/ Return(c, "ERROR")
    BY <2>1, <2>2, ReturnType
  <2>3. CASE /\ pc' = [pc EXCEPT ![c] = "getEraseStatus"] /\ odd' = [odd EXCEPT ![c] = ~ @]
             /\ UNCHANGED <<status, AwaitClear, RecordId>>
    BY <2>3 DEF TypeOK, Clearing
  <2> QED
    BY <2>2, <2>3 DEF ClearCommand, ClearAnswered, NextErase
<1>5. old' \in [Clients -> 0..SEL_COUNT]
  <2>1. 0 \in 0..SEL_COUNT
    BY CountAssumption
  <2> QED
    BY <2>1, OldLeftType DEF ClearCommand
<1>6. TypeOK'
  BY <1>1, <1>2, <1>3, <1>4, <1>5, LogType DEF TypeOK
<1>7. AckedKept' /\ QuietInv'
  BY <1>1 DEF AckedKept, QuietInv
<1>8. WaitInv'
  <2> SUFFICES ASSUME NEW d \in Clients, pc'[d] = "getEraseStatus"
               PROVE  old'[d] = 0 \/ erasing'
    BY DEF WaitInv
  <2>1. CASE d # c
    <3>1. pc'[d] = pc[d]
      BY <2>1 DEF ClearCommand, ClearAnswered, Return, TypeOK
    <3>2. old[d] = 0 \/ erasing
      BY <3>1 DEF WaitInv
    <3>3. mSel' = <<>> => old'[d] = 0
      BY <2>1, OldLeftType DEF ClearCommand
    <3>4. mSel' # <<>> => old'[d] = old[d]
      BY <2>1, OldLeftType DEF ClearCommand
    <3> QED
      BY <1>2, <3>2, <3>3, <3>4
  <2>2. CASE d = c
    <3>1. ~ Return(c, "SUCCESS") /\ ~ Return(c, "ERROR")
      BY <2>2 DEF Return, TypeOK
    <3>2. PICK p \in {"inProgress", "completed"} : BmcClear(pc[c], p)
      BY <3>1 DEF ClearCommand
    <3>3. old' = OldLeft
      BY <3>1 DEF ClearCommand
    <3>4. \/ erasing' \/ mSel' = <<>>
          \/ pc[c] = "getEraseStatus" /\ ~ erasing
      BY <1>1, <3>2, BmcClearEffect DEF Clearing, TypeOK
    <3>5. mSel' = <<>> => old'[d] = 0
      BY <3>3, OldLeftType
    <3>6. pc[c] = "getEraseStatus" /\ ~ erasing => old'[d] = 0
      BY <2>2, <3>3, <3>5, OldLeftType DEF WaitInv
    <3> QED
      BY <3>4, <3>5, <3>6
  <2> QED
    BY <2>1, <2>2
<1> QED
  BY <1>6, <1>7, <1>8

\* The BMC finishes an erasure.
LEMMA EraseHolds == IInv /\ Erase => IInv'
<1> SUFFICES ASSUME IInv, Erase PROVE IInv'
  OBVIOUS
<1>1. /\ mSel' = <<>> /\ erasing' = FALSE /\ acked' = {} /\ acked = {} /\ old' = OldLeft
      /\ UNCHANGED <<device, truncated, pc, AwaitClear, odd, RecordId, status>>
  BY DEF Erase, IInv, QuietInv, Quiet, locals
<1>2. TypeOK'
  BY <1>1, LogType, OldLeftType DEF IInv, TypeOK
<1>3. AckedKept' /\ QuietInv'
  BY <1>1 DEF AckedKept, QuietInv
<1>4. WaitInv'
  BY <1>1, OldLeftType DEF IInv, WaitInv
<1> QED
  BY <1>2, <1>3, <1>4 DEF IInv

\* A step of a walk reads the log only; the ID it asks for next was in the log.
LEMMA GetHolds ==
  ASSUME IInv, NEW c \in Clients, SelGetEntry(c)
  PROVE  IInv'
<1> USE DEF IInv
<1>1. UNCHANGED <<device, mSel, erasing, acked, old>>
  BY DEF SelGetEntry, bmc
<1>2. truncated' \in 0..MaxTruncated
  BY CountAssumption DEF SelGetEntry, Truncate, TypeOK
<1>3. TypeOK'
  <2>1. {"SUCCESS", "ERROR", "NOT_FOUND"} \subseteq Statuses
    BY DEF Statuses
  <2>2. CASE \E s \in {"SUCCESS", "ERROR", "NOT_FOUND"} : Return(c, s)
    BY <1>1, <1>2, <2>1, <2>2, ReturnType DEF TypeOK
  <2>3. ASSUME NEW id \in 0..(SEL_COUNT - 1), GoOn(c, id) PROVE TypeOK'
    BY <1>1, <1>2, <2>3 DEF TypeOK, GoOn
  <2>4. 0 \in 0..(SEL_COUNT - 1)
    BY CountAssumption
  <2>5. RecordId[c] < mNextRecordId /\ ~ IsLast(RecordId[c])
          => NextSelRecordId(RecordId[c]) \in 0..(SEL_COUNT - 1)
    BY CountAssumption DEF TypeOK, NextSelRecordId, IsLast, mNextRecordId
  <2> QED
    BY <2>2, <2>3, <2>4, <2>5 DEF SelGetEntry
<1>4. \A d \in Clients : /\ pc'[d] \in Clearing <=> pc[d] \in Clearing
                         /\ pc'[d] = "getEraseStatus" => pc[d] = "getEraseStatus"
  BY DEF SelGetEntry, Return, GoOn, TypeOK, Clearing
<1>5. AckedKept' /\ QuietInv' /\ WaitInv'
  BY <1>1, <1>4 DEF AckedKept, mNextRecordId, QuietInv, Quiet, WaitInv
<1> QED
  BY <1>3, <1>5

\* A call begins, or is refused for its arguments.
LEMMA BeginHolds ==
  ASSUME IInv, NEW c \in Clients,
         AddRefused(c) \/ Walk(c) \/ \E await \in BOOLEAN : SelClear(c, await)
  PROVE  IInv'
<1> USE DEF IInv
<1>1. CASE AddRefused(c)
  BY <1>1 DEF AddRefused, bmc, locals, TypeOK, AckedKept, mNextRecordId, Statuses, QuietInv,
              Quiet, WaitInv
<1>2. CASE Walk(c)
  <2>1. TypeOK'
    BY <1>2 DEF Walk, bmc, locals, TypeOK
  <2>2. \A d \in Clients : /\ pc'[d] \in Clearing <=> pc[d] \in Clearing
                           /\ pc'[d] = "getEraseStatus" => pc[d] = "getEraseStatus"
    BY <1>2 DEF Walk, TypeOK, Clearing
  <2>3. UNCHANGED <<mSel, erasing, acked, old>>
    BY <1>2 DEF Walk, bmc
  <2>4. AckedKept' /\ QuietInv' /\ WaitInv'
    BY <2>2, <2>3 DEF AckedKept, mNextRecordId, QuietInv, Quiet, WaitInv
  <2> QED
    BY <2>1, <2>4
<1>3. ASSUME NEW await \in BOOLEAN, SelClear(c, await) PROVE IInv'
  <2>1. Len(mSel) \in 0..SEL_COUNT /\ 0 \in 0..SEL_COUNT
    BY CountAssumption DEF TypeOK
  <2>2. TypeOK'
    BY <1>3, <2>1 DEF SelClear, TypeOK, mNextRecordId, bmc, Clearing
  <2>3. AckedKept' /\ QuietInv'
    BY <1>3 DEF SelClear, AckedKept, QuietInv
  <2>4. WaitInv'
    BY <1>3 DEF SelClear, WaitInv, TypeOK, bmc
  <2> QED
    BY <2>2, <2>3, <2>4
<1> QED
  BY <1>1, <1>2, <1>3

\* Every step keeps the invariant.
LEMMA NextHolds == IInv /\ [Next]_vars => IInv'
<1> SUFFICES ASSUME IInv, [Next]_vars PROVE IInv'
  OBVIOUS
<1>1. CASE UNCHANGED vars
  BY <1>1 DEF vars, bmc, locals, IInv, TypeOK, AckedKept, mNextRecordId, QuietInv, Quiet,
              WaitInv
<1>2. CASE Erase
  BY <1>2, EraseHolds
<1>3. ASSUME NEW c \in Clients, Call(c) PROVE IInv'
  BY <1>3, BeginHolds, AddHolds DEF Call
<1>4. ASSUME NEW c \in Clients, Continue(c) PROVE IInv'
  BY <1>4, ClearHolds, GetHolds DEF Continue
<1> QED
  BY <1>1, <1>2, <1>3, <1>4 DEF Next

\* The inductive invariant holds in every reachable state.
LEMMA Invariance == Spec => []IInv
BY InitHolds, NextHolds, PTL DEF Spec

\* The log, the clients' locals and the history stay in their types; the log
\* never holds more than SEL_COUNT records.
THEOREM TypeCorrect == Spec => []TypeOK
<1>1. IInv => TypeOK
  BY DEF IInv
<1> QED
  BY <1>1, Invariance, PTL

\* For any number of clients, any records and any log size: a RecordId that was
\* returned with EFI_SUCCESS while no clear was under way names the caller's own
\* record until the next SelClear, and no two acknowledgements share one.
THEOREM RecordsKept == Spec => []AckedKept
<1>1. IInv => AckedKept
  BY DEF IInv
<1> QED
  BY <1>1, Invariance, PTL

\* EFI_SUCCESS from SelClear(TRUE) means that no record is left from before the
\* call, on a BMC that erases the log in the background as on the mock, however
\* many polls it takes and whatever other clients do between them.
THEOREM ClearEmpties == Spec => ClearedOld
<1> DEFINE Cleared == \A c \in Clients :
             pc[c] \in Clearing /\ AwaitClear[c] /\ pc'[c] = "idle" /\ status' = "SUCCESS"
               => old'[c] = 0
<1>1. IInv /\ [Next]_vars => [Cleared]_vars
  <2> SUFFICES ASSUME IInv, Next, NEW c \in Clients, pc[c] \in Clearing, AwaitClear[c],
                      pc'[c] = "idle", status' = "SUCCESS"
               PROVE  old'[c] = 0
    BY DEF vars
  <2> USE DEF IInv
  <2>1. ClearCommand(c)
    <3>1. ~ Erase
      BY DEF Erase, Clearing
    <3>2. PICK d \in Clients : Call(d) \/ Continue(d)
      BY <3>1 DEF Next
    <3>3. d = c
      BY <3>2 DEF Call, AddRefused, IpmiAddSelEntry, SelClear, Walk, Continue, ClearCommand,
                  ClearAnswered, SelGetEntry, GoOn, Return, TypeOK, Clearing
    <3> QED
      BY <3>2, <3>3 DEF Call, AddRefused, IpmiAddSelEntry, SelClear, Walk, Continue,
                        SelGetEntry, Clearing
  <2>2. ~ Return(c, "ERROR") /\ pc'[c] # "getEraseStatus"
    BY DEF Return
  \* The response was a whole one and said that the erasure is complete.
  <2>3. BmcClear(pc[c], "completed") /\ old' = OldLeft
    BY <2>1, <2>2 DEF ClearCommand, ClearAnswered, ClearEnds, NextErase, TypeOK
  <2>4. \/ mSel' = <<>>
        \/ pc[c] = "getEraseStatus" /\ ~ erasing
    BY <2>3 DEF BmcClear, MockIpmiSelClear, SlowSelClear, Clearing
  <2>5. mSel' = <<>> => old'[c] = 0
    BY <2>3, OldLeftType
  <2>6. pc[c] = "getEraseStatus" /\ ~ erasing => old'[c] = 0
    BY <2>3, <2>5, OldLeftType DEF WaitInv
  <2> QED
    BY <2>4, <2>5, <2>6
<1> QED
  BY <1>1, Invariance, PTL DEF Spec, ClearedOld
-------------------------------------------------------------------------------
(***************************************************************************)
(* Progress.  That a walk or a clear ends needs fairness and stays with    *)
(* TLC; what the commands of each depend on does not.                      *)
(***************************************************************************)
\* Commands the walk of client c may still send: one for every record from where
\* it is, and a whole log more for every response that may still be cut.
WalkLeft(c) == SEL_COUNT * (MaxTruncated - truncated) + SEL_COUNT - RecordId[c]

\* What a step does to the commands a client has left.
Bounded ==
  \A c \in Clients :
    /\ pc[c] = "walk" => WalkLeft(c) \in Nat \ {0}
    /\ pc[c] = "walk" /\ pc'[c] = "walk" => WalkLeft(c)' <= WalkLeft(c)
    /\ SelGetEntry(c) /\ pc'[c] = "walk" => WalkLeft(c)' < WalkLeft(c)
    /\ pc[c] = "getEraseStatus" /\ ClearCommand(c) /\ pc'[c] # "idle" =>
         (device = "slow" /\ erasing) \/ truncated' > truncated

\* What is left of a budget.
LEMMA RestIsNat ==
  ASSUME NEW n \in Nat
  PROVE  \A t \in 0..n : n - t \in Nat /\ t \in Nat
OBVIOUS

\* The measure of a walk: it is positive, and goes down with a greater ID, and
\* with any ID if a response is cut.
LEMMA WalkMeasure ==
  ASSUME NEW n \in Nat \ {0}, NEW k \in Nat, NEW i \in 0..(n - 1), NEW j \in 0..(n - 1)
  PROVE  /\ n * k + n - i \in Nat \ {0}
         /\ j > i => n * k + n - j < n * k + n - i
         /\ k > 0 => n * (k - 1) + n - j < n * k + n - i
<1>1. n * k \in Nat
  OBVIOUS
<1>2. k > 0 => n * (k - 1) = n * k - n
  OBVIOUS
<1> QED
  BY <1>1, <1>2

\* A walk sends at most one command for every record the log can hold, and as many
\* again after each response that is cut, whatever the other clients add, clear
\* and read meanwhile.  A clear that has begun polls on only if the BMC is still
\* erasing or its response was cut: the code sets no other limit (line 360).
THEOREM CommandsBounded == Spec => [][Bounded]_vars
<1>1. IInv /\ IInv' /\ [Next]_vars => [Bounded]_vars
  <2> SUFFICES ASSUME IInv, IInv', Next, NEW c \in Clients
               PROVE  /\ pc[c] = "walk" => WalkLeft(c) \in Nat \ {0}
                      /\ pc[c] = "walk" /\ pc'[c] = "walk" => WalkLeft(c)' <= WalkLeft(c)
                      /\ SelGetEntry(c) /\ pc'[c] = "walk" => WalkLeft(c)' < WalkLeft(c)
                      /\ pc[c] = "getEraseStatus" /\ ClearCommand(c) /\ pc'[c] # "idle" =>
                           (device = "slow" /\ erasing) \/ truncated' > truncated
    BY DEF Bounded
  <2> DEFINE k == MaxTruncated - truncated
  <2>1. /\ SEL_COUNT \in Nat \ {0} /\ k \in Nat /\ k' \in Nat
        /\ truncated \in Nat /\ truncated' \in Nat /\ MaxTruncated \in Nat
        /\ RecordId[c] \in 0..(SEL_COUNT - 1) /\ RecordId'[c] \in 0..(SEL_COUNT - 1)
    <3>1. truncated \in 0..MaxTruncated /\ RecordId[c] \in 0..(SEL_COUNT - 1)
      BY DEF IInv, TypeOK
    <3>2. truncated' \in 0..MaxTruncated /\ RecordId'[c] \in 0..(SEL_COUNT - 1)
      BY DEF IInv, TypeOK
    <3>3. k \in Nat /\ truncated \in Nat
      BY <3>1, CountAssumption
    <3>4. MaxTruncated - truncated' \in Nat /\ truncated' \in Nat
      BY <3>2, CountAssumption, RestIsNat
    <3>5. k' = MaxTruncated - truncated'
      OBVIOUS
    <3> HIDE DEF k
    <3> QED
      BY <3>1, <3>2, <3>3, <3>4, <3>5, CountAssumption
  <2>2. /\ WalkLeft(c) = SEL_COUNT * k + SEL_COUNT - RecordId[c]
        /\ WalkLeft(c)' = SEL_COUNT * k' + SEL_COUNT - RecordId'[c]
    BY DEF WalkLeft
  <2>3. truncated' = truncated => k' = k
    OBVIOUS
  <2>4. truncated' = truncated + 1 => k' = k - 1 /\ k > 0
    BY <2>1
  <2> HIDE DEF k
  <2>5. WalkLeft(c) \in Nat \ {0}
    BY <2>1, <2>2, WalkMeasure
  <2>6. truncated' = truncated /\ RecordId'[c] > RecordId[c] => WalkLeft(c)' < WalkLeft(c)
    BY <2>1, <2>2, <2>3, WalkMeasure
  <2>7. truncated' = truncated + 1 => WalkLeft(c)' < WalkLeft(c)
    BY <2>1, <2>2, <2>4, WalkMeasure
  <2>8. truncated' = truncated /\ RecordId'[c] = RecordId[c] => WalkLeft(c)' = WalkLeft(c)
    BY <2>2, <2>3
  <2>9. WalkLeft(c) \in Int /\ WalkLeft(c)' \in Int
    BY <2>1, <2>2
  <2>10. ASSUME SelGetEntry(c), pc'[c] = "walk" PROVE WalkLeft(c)' < WalkLeft(c)
    <3>1. ~ \E s : Return(c, s)
      BY <2>10 DEF Return, IInv, TypeOK
    <3>2. \/ truncated' = truncated /\ RecordId'[c] = RecordId[c] + 1
          \/ truncated' = truncated + 1
      BY <2>10, <3>1 DEF SelGetEntry, GoOn, Truncate, NextSelRecordId, IInv, TypeOK
    <3> QED
      BY <2>1, <2>6, <2>7, <3>2
  <2>11. ASSUME pc[c] = "walk", pc'[c] = "walk" PROVE WalkLeft(c)' <= WalkLeft(c)
    <3>1. CASE SelGetEntry(c)
      BY <2>9, <2>10, <2>11, <3>1
    <3>2. CASE ~ SelGetEntry(c)
      <4>1. truncated' = truncated \/ truncated' = truncated + 1
        BY DEF Next, Erase, Call, AddRefused, IpmiAddSelEntry, SelClear, Walk, Continue,
               ClearCommand, SelGetEntry, Truncate
      <4>2. RecordId'[c] = RecordId[c]
        <5>1. CASE Erase
          BY <5>1 DEF Erase, locals
        <5>2. ASSUME NEW d \in Clients, Call(d) PROVE RecordId'[c] = RecordId[c]
          BY <5>2 DEF Call, AddRefused, IpmiAddSelEntry, SelClear, Walk, locals
        <5>3. ASSUME NEW d \in Clients, d # c, Continue(d) PROVE RecordId'[c] = RecordId[c]
          BY <5>3 DEF Continue, ClearCommand, ClearAnswered, SelGetEntry, GoOn,
                      Return, IInv, TypeOK
        <5>4. ~ ClearCommand(c)
          BY <2>11 DEF ClearCommand, Clearing
        <5> QED
          BY <3>2, <5>1, <5>2, <5>3, <5>4 DEF Next, Continue
      <4> QED
        BY <2>7, <2>8, <2>9, <4>1, <4>2
    <3> QED
      BY <3>1, <3>2
  <2>12. ASSUME pc[c] = "getEraseStatus", ClearCommand(c), pc'[c] # "idle"
         PROVE  (device = "slow" /\ erasing) \/ truncated' > truncated
    <3>1. ~ \E s : Return(c, s)
      BY <2>12 DEF Return, IInv, TypeOK
    <3>2. PICK p \in {"inProgress", "completed"} :
            /\ BmcClear(pc[c], p)
            /\ ClearAnswered(c, p) \/ Truncate
      BY <2>12, <3>1 DEF ClearCommand
    <3>3. CASE Truncate
      BY <2>1, <3>3 DEF Truncate
    <3>4. CASE ClearAnswered(c, p)
      <4>1. p = "inProgress"
        BY <3>1, <3>2, <3>4 DEF ClearAnswered, ClearEnds
      <4> QED
        BY <2>12, <3>2, <4>1 DEF BmcClear, MockIpmiSelClear, SlowSelClear, IInv, TypeOK
    <3> QED
      BY <3>2, <3>3, <3>4
  <2> QED
    BY <2>5, <2>10, <2>11, <2>12
<1> QED
  BY <1>1, Invariance, PTL DEF Spec
===============================================================================
