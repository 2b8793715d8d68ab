---------------------------------- MODULE Sel ----------------------------------
(***************************************************************************)
(* The system event log: Library/IpmiSelLib and IpmiSel/IpmiSel.c, used by *)
(* several clients (drivers of one phase, and SMM beside them).  The BMC   *)
(* is the repository's own, Library/MockIpmi/MockSel.c, which clears the   *)
(* log at once, or one that erases it in the background.                   *)
(*                                                                         *)
(* One action per IPMI command.  A command may fail before it reached the  *)
(* BMC, or after: the response is lost.  A response may also be cut to its *)
(* completion code and be passed on as a success all the same: only        *)
(* IpmiAddSelEntry looks at the size.  Nothing limits how often the log is *)
(* filled and cleared.                                                     *)
(***************************************************************************)
EXTENDS Integers, Sequences

CONSTANTS
  Clients,     \* callers of the library
  Records,     \* record contents
  SEL_COUNT,   \* records the log holds
  MaxTruncated \* bound: responses cut to their completion code

ASSUME CountAssumption == SEL_COUNT \in Nat \ {0} /\ MaxTruncated \in Nat

Statuses == {"SUCCESS", "INVALID_PARAMETER", "OUT_OF_RESOURCES", "NOT_FOUND", "ERROR"}

VARIABLES
  device,      \* which BMC this is: "mock" or "slow"
  mSel,        \* the log: the first mNextRecordId elements of the array
  erasing,     \* the slow BMC has begun to erase the log and not finished
  truncated,   \* responses cut so far
  pc,          \* per client: "idle", or the command it sends next
  AwaitClear,  \* per client: the argument of its SelClear
  odd,         \* per client: its SelClear has made an odd number of passes
  RecordId,    \* per client: the record its walk through the log asks for next
  status,      \* what the call that returned last returned
  acked,       \* history: records added with EFI_SUCCESS since a clear was under way
  old          \* history: per client, records left from before its awaited SelClear

locals == <<AwaitClear, odd, RecordId>>
bmc == <<mSel, erasing>>
vars == <<device, bmc, truncated, pc, locals, status, acked, old>>

Clearing == {"initializeErase", "getEraseStatus"}

Acks == [client : Clients, id : 0..(SEL_COUNT - 1), record : Records]

TypeOK ==
  /\ device \in {"mock", "slow"}
  /\ mSel \in Seq(Records) /\ Len(mSel) <= SEL_COUNT
  /\ erasing \in BOOLEAN /\ truncated \in 0..MaxTruncated
  /\ pc \in [Clients -> Clearing \cup {"idle", "walk"}]
  /\ AwaitClear \in [Clients -> BOOLEAN] /\ odd \in [Clients -> BOOLEAN]
  /\ RecordId \in [Clients -> 0..(SEL_COUNT - 1)]
  /\ status \in Statuses
  /\ acked \subseteq Acks
  /\ old \in [Clients -> 0..SEL_COUNT]

Init ==
  /\ device \in {"mock", "slow"}
  /\ mSel = <<>> /\ erasing = FALSE /\ truncated = 0
  /\ pc = [c \in Clients |-> "idle"]
  /\ AwaitClear = [c \in Clients |-> FALSE]
  /\ odd = [c \in Clients |-> FALSE]
  /\ RecordId = [c \in Clients |-> 0]
  /\ status = "SUCCESS"
  /\ acked = {}
  /\ old = [c \in Clients |-> 0]

mNextRecordId == Len(mSel)

\* A call of several commands returns; its locals are gone.
Return(c, s) ==
  /\ pc' = [pc EXCEPT ![c] = "idle"]
  /\ AwaitClear' = [AwaitClear EXCEPT ![c] = FALSE]
  /\ odd' = [odd EXCEPT ![c] = FALSE]
  /\ RecordId' = [RecordId EXCEPT ![c] = 0]
  /\ status' = s

\* A response arrives with its completion code only.
Truncate ==
  /\ truncated < MaxTruncated
  /\ truncated' = truncated + 1

\* No clear of any client is under way, and the BMC is not erasing.
Quiet == ~ erasing /\ \A d \in Clients : pc[d] \notin Clearing

\* The records left from before each client's SelClear.
OldLeft == IF mSel' = <<>> THEN [c \in Clients |-> 0] ELSE old
-------------------------------------------------------------------------------
(***************************************************************************)
(* The BMC.                                                                *)
(***************************************************************************)
MockIpmiSelAddEntryUnlimited(r) == mSel' = Append(mSel, r)

MockIpmiSelAddEntry(r) ==
  mSel' = IF mNextRecordId < SEL_COUNT THEN Append(mSel, r) ELSE mSel

AddedRecordIdNext == mNextRecordId + 1

\* The ID in the response to Add SEL Entry.
AddedRecordId == mNextRecordId

\* Both Clear SEL requests, to start and to ask for its progress, empty the
\* mock's log.
MockIpmiSelClear(erase, progress) ==
  /\ mSel' = <<>>
  /\ progress = IF erase = "getEraseStatus" THEN "completed" ELSE "inProgress"
  /\ UNCHANGED erasing

\* The other BMC takes its time, or none; records added meanwhile are lost.
SlowSelClear(erase, progress) ==
  \/ /\ erase = "initializeErase" /\ progress = "inProgress"
     /\ erasing' = TRUE
     /\ UNCHANGED mSel
  \/ /\ erase = "initializeErase" /\ progress = "completed"
     /\ mSel' = <<>> /\ erasing' = FALSE
  \/ /\ erase = "getEraseStatus"
     /\ progress = IF erasing THEN "inProgress" ELSE "completed"
     /\ UNCHANGED bmc

BmcClear(erase, progress) ==
  IF device = "mock" THEN MockIpmiSelClear(erase, progress) ELSE SlowSelClear(erase, progress)

Erase ==
  /\ erasing
  /\ mSel' = <<>> /\ erasing' = FALSE
  /\ old' = OldLeft
  /\ UNCHANGED <<device, truncated, pc, locals, status, acked>>

\* The successor of a record, unless it is the last.
NextSelRecordId(id) == id + 1

IsLast(id) == id + 1 >= mNextRecordId
-------------------------------------------------------------------------------
(***************************************************************************)
(* IpmiSelLib.                                                             *)
(***************************************************************************)
\* SelAddOemEntryEx or SelAddOemEntryNoTimestamp with a record type out of its
\* range, or without data.
AddRefused(c) ==
  /\ pc[c] = "idle"
  /\ status' = "INVALID_PARAMETER"
  /\ UNCHANGED <<device, bmc, truncated, pc, locals, acked, old>>

\* IpmiAddSelEntry, for SelAddSystemEntry and the OEM records.  A full log is
\* OUT_OF_SPACE, which IpmiCompCodeToEfiStatus turns into its EFI status; a
\* response that is lost or cut is an error.
IpmiAddSelEntry(c, r) ==
  /\ pc[c] = "idle"
  /\ \/ /\ MockIpmiSelAddEntry(r)
        /\ IF mNextRecordId < SEL_COUNT
           THEN /\ status' = "SUCCESS"
                /\ acked' = IF Quiet
                             THEN acked \cup {[client |-> c, id |-> AddedRecordId, record |-> r]}
                             ELSE acked
           ELSE /\ status' = "OUT_OF_RESOURCES"
                /\ UNCHANGED acked
     \/ /\ MockIpmiSelAddEntry(r) \/ UNCHANGED mSel
        /\ status' = "ERROR"
        /\ UNCHANGED acked
  /\ UNCHANGED <<device, erasing, truncated, pc, locals, old>>

\* SelClear begins.
SelClear(c, await) ==
  /\ pc[c] = "idle"
  /\ pc' = [pc EXCEPT ![c] = "initializeErase"]
  /\ AwaitClear' = [AwaitClear EXCEPT ![c] = await]
  /\ old' = [old EXCEPT ![c] = IF await THEN mNextRecordId ELSE 0]
  /\ acked' = {}
  /\ UNCHANGED <<device, bmc, truncated, odd, RecordId, status>>

ClearEndsAtOnce(c, progress) == TRUE

\* Lines 397-401: an erasure that has begun is enough without AwaitClear.
ClearEnds(c, progress) == ~ AwaitClear[c] \/ progress = "completed"

NextEraseSame(c) == pc[c]

\* The request of the next pass (line 407).
NextErase(c) == "getEraseStatus"

\* What SelClear does with a successful response.  Another pass is a step of the
\* client even if it finds everything as the last one did.
ClearAnswered(c, progress) ==
  \/ /\ ClearEnds(c, progress)
     /\ Return(c, "SUCCESS")
  \/ /\ ~ ClearEnds(c, progress)
     /\ pc' = [pc EXCEPT ![c] = NextErase(c)]
     /\ odd' = [odd EXCEPT ![c] = ~ @]
     /\ UNCHANGED <<status, AwaitClear, RecordId>>

\* One pass of SelClear's loop.  A response without ErasureProgress reads as one
\* in progress, which is 0 as the buffer is.
ClearCommand(c) ==
  /\ pc[c] \in Clearing
  /\ \/ /\ \E progress \in {"inProgress", "completed"} :
             /\ BmcClear(pc[c], progress)
             /\ \/ ClearAnswered(c, progress) /\ UNCHANGED truncated
                \/ ClearAnswered(c, "inProgress") /\ Truncate
        /\ old' = OldLeft
     \/ /\ \/ \E progress \in {"inProgress", "completed"} : BmcClear(pc[c], progress)
           \/ UNCHANGED bmc
        /\ old' = [OldLeft EXCEPT ![c] = 0]
        /\ Return(c, "ERROR")
        /\ UNCHANGED truncated
  /\ UNCHANGED <<device, acked>>

\* A client reads the log through IPMI_SEL_PROTOCOL: from record 0 on, each time
\* the NextRecordId it got, until that is 0xFFFF or the call fails.
Walk(c) ==
  /\ pc[c] = "idle"
  /\ pc' = [pc EXCEPT ![c] = "walk"]
  /\ UNCHANGED <<device, bmc, truncated, locals, status, acked, old>>

\* The walk goes on with the record ID that came back.
GoOn(c, id) ==
  /\ RecordId' = [RecordId EXCEPT ![c] = id]
  /\ UNCHANGED <<pc, AwaitClear, odd, status>>

\* SelGetEntry.  A record that is not there, or no longer, is NOT_PRESENT.  A
\* response cut to its completion code is a success, with a NextRecordId of 0.
SelGetEntry(c) ==
  /\ pc[c] = "walk"
  /\ \/ /\ RecordId[c] >= mNextRecordId
        /\ Return(c, "NOT_FOUND")
        /\ UNCHANGED truncated
     \/ /\ RecordId[c] < mNextRecordId /\ IsLast(RecordId[c])
        /\ Return(c, "SUCCESS")
        /\ UNCHANGED truncated
     \/ /\ RecordId[c] < mNextRecordId /\ ~ IsLast(RecordId[c])
        /\ GoOn(c, NextSelRecordId(RecordId[c]))
        /\ UNCHANGED truncated
     \/ /\ RecordId[c] < mNextRecordId
        /\ GoOn(c, 0)
        /\ Truncate
     \/ /\ Return(c, "ERROR")
        /\ UNCHANGED truncated
  /\ UNCHANGED <<device, bmc, acked, old>>

Call(c) ==
  \/ AddRefused(c)
  \/ \E r \in Records : IpmiAddSelEntry(c, r)
  \/ \E await \in BOOLEAN : SelClear(c, await)
  \/ Walk(c)

Continue(c) == ClearCommand(c) \/ SelGetEntry(c)

Next == Erase \/ \E c \in Clients : Call(c) \/ Continue(c)

Spec == Init /\ [][Next]_vars

FairSpec == Spec /\ \A c \in Clients : WF_vars(Continue(c))
-------------------------------------------------------------------------------
(***************************************************************************)
(* Properties.                                                             *)
(***************************************************************************)

\* A RecordId returned with EFI_SUCCESS while no clear was under way names the
\* caller's record and nobody else's until some client calls SelClear, whatever
\* others add and however many responses are lost: an erasure that a client did
\* not wait for, or whose response was lost, does not reach the records added
\* once it is over.  A record added during a clear has no such claim.
AckedKept ==
  /\ \A a \in acked : a.id < mNextRecordId /\ mSel[a.id + 1] = a.record
  /\ \A a, b \in acked : a.id = b.id => a = b

\* EFI_SUCCESS from SelClear(TRUE) means that the clear is complete: no record is
\* left from before the call, also if the BMC erases the log in the background,
\* responses are cut, and others add, clear or wait at the same time.
ClearedOld ==
  [][\A c \in Clients :
       pc[c] \in Clearing /\ AwaitClear[c] /\ pc'[c] = "idle" /\ status' = "SUCCESS"
         => old'[c] = 0]_vars

\* Every call returns.  A walk ends even if others fill and clear the log for ever,
\* once responses are no longer cut: each cut one sends it back to the start.
\* SelClear has no limit of its own (line 360).  It ends if the BMC is, from some
\* time on, not erasing: others who start one erasure after another keep it
\* waiting, however soon each is over.
CallReturns ==
  /\ \A c \in Clients : pc[c] = "walk" ~> pc[c] # "walk"
  /\ <>[](~ erasing) => \A c \in Clients : pc[c] \in Clearing ~> pc[c] = "idle"
===============================================================================
