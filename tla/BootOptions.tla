------------------------------ MODULE BootOptions ------------------------------
(***************************************************************************)
(* IPMI boot options across boots: IpmiCmosClear/IpmiCmosClear.c in DXE,   *)
(* then Library/IpmiBootOptionLib's IpmiGetBootDevice in BDS, against the  *)
(* boot flags in the BMC, which an administrator writes at any time        *)
(* through another interface.  The BMC is the repository's own,            *)
(* Library/MockIpmi/MockChassis.c, plus the set in progress parameter.     *)
(*                                                                         *)
(* One action per IPMI command.  A Set that fails may or may not have      *)
(* reached the BMC, and the machine may be reset between any two commands. *)
(* Flags with valid = FALSE stand also for a parameter 5 marked invalid.   *)
(***************************************************************************)
EXTENDS Naturals

CONSTANTS
  Devices,       \* boot devices an administrator asks for
  BootNone,
  MaxRequests,   \* bound: requests of the administrator
  MaxFailures,   \* bound: IPMI commands that fail
  MaxResets      \* bound: resets and reboots nobody but the administrator wants

ASSUME BoundAssumption ==
  /\ MaxRequests \in Nat /\ MaxFailures \in Nat /\ MaxResets \in Nat
  /\ BootNone \notin Devices

Flags == [valid : BOOLEAN, persistent : BOOLEAN, CmosClear : BOOLEAN,
          device : Devices \cup {BootNone}]

ZeroFlags == [valid |-> FALSE, persistent |-> FALSE, CmosClear |-> FALSE, device |-> BootNone]

VARIABLES
  pc,             \* where the boot is: the next command, or "os"
  FlagsData,      \* the routine's copy of the flags
  Selector,       \* the override BDS was given
  flags,          \* the BMC's boot flags
  setInProgress,  \* the BMC's parameter 0
  cmosRequests, oneShotRequests, requests,  \* history: what the administrator asked
  cmosClears, oneShotBoots,   \* history: what the firmware did about it
  setFailures, failures, resets,
  raced           \* history: the administrator wrote since FlagsData was read

asked == <<cmosRequests, oneShotRequests, requests>>
done == <<cmosClears, oneShotBoots>>
mishaps == <<setFailures, failures, resets>>
vars == <<pc, FlagsData, Selector, flags, setInProgress, asked, done, mishaps, raced>>

TypeOK ==
  /\ pc \in {"cmosCheck", "cmosGet", "cmosSet", "clearCmos",
             "deviceCheck", "deviceGet", "deviceSet", "deviceAck", "boot", "os"}
  /\ FlagsData \in Flags /\ flags \in Flags
  /\ Selector \in Devices \cup {BootNone}
  /\ setInProgress \in BOOLEAN /\ raced \in BOOLEAN
  /\ {cmosRequests, oneShotRequests} \subseteq 0..requests
  /\ requests \in 0..MaxRequests
  /\ setFailures \in 0..failures /\ failures \in 0..MaxFailures
  /\ resets \in 0..MaxResets
  /\ cmosClears \in Nat /\ oneShotBoots \in Nat

Init ==
  /\ pc = "cmosCheck"
  /\ FlagsData = ZeroFlags /\ Selector = BootNone
  /\ flags = ZeroFlags /\ setInProgress = FALSE
  /\ cmosRequests = 0 /\ oneShotRequests = 0 /\ requests = 0
  /\ cmosClears = 0 /\ oneShotBoots = 0
  /\ setFailures = 0 /\ failures = 0 /\ resets = 0
  /\ raced = FALSE
-------------------------------------------------------------------------------
(***************************************************************************)
(* Commands.                                                               *)
(***************************************************************************)
CommandFails == failures < MaxFailures /\ failures' = failures + 1

\* IpmiCheckSetInProgress and the callers' early returns.
CheckSetInProgress(here, next, leave) ==
  /\ pc = here
  /\ \/ ~ setInProgress /\ pc' = next /\ UNCHANGED failures
     \/ setInProgress /\ pc' = leave /\ UNCHANGED failures
     \/ CommandFails /\ pc' = leave
  /\ UNCHANGED <<FlagsData, Selector, flags, setInProgress, asked, done, setFailures, resets, raced>>

\* Get System Boot Options of parameter 5.
BmcBootFlags == flags

\* Set System Boot Options of parameter 5 overwrites all of it.
BmcSetBootFlags(data) == flags' = data

\* IpmiGetBootFlags delivers zeroes unless the flags are valid.
GotFlags == IF BmcBootFlags.valid THEN BmcBootFlags ELSE ZeroFlags

\* IpmiSetBootFlags; both callers ignore its status.
SetBootFlagsTruncated(data) ==
  /\ flags' = [valid |-> data.valid, persistent |-> data.persistent]
  /\ UNCHANGED <<setFailures, failures>>

SetBootFlags(data) ==
  \/ /\ BmcSetBootFlags(data)
     /\ UNCHANGED <<setFailures, failures>>
  \/ /\ CommandFails
     /\ setFailures' = setFailures + 1
     /\ BmcSetBootFlags(data) \/ UNCHANGED flags
-------------------------------------------------------------------------------
(***************************************************************************)
(* IpmiCmosEntryPoint and IpmiGetCmosClearOption.                          *)
(***************************************************************************)
CmosCheckWaits == CheckSetInProgress("cmosCheck", "cmosGet", "cmosCheck")

CmosCheck == CheckSetInProgress("cmosCheck", "cmosGet", "deviceCheck")

CmosGet ==
  /\ pc = "cmosGet"
  /\ \/ /\ FlagsData' = GotFlags
        /\ pc' = IF GotFlags.CmosClear THEN "cmosSet" ELSE "deviceCheck"
        /\ raced' = FALSE
        /\ UNCHANGED failures
     \/ /\ CommandFails
        /\ pc' = "deviceCheck"
        /\ UNCHANGED <<FlagsData, raced>>
  /\ UNCHANGED <<Selector, flags, setInProgress, asked, done, setFailures, resets>>

FlagsWithoutCmosKept == FlagsData

FlagsAllCleared == ZeroFlags

\* What the CMOS module writes back.
FlagsWithoutCmos == [FlagsData EXCEPT !.CmosClear = FALSE]

CmosSet ==
  /\ pc = "cmosSet"
  /\ SetBootFlags(FlagsWithoutCmos)
  /\ pc' = "clearCmos"
  /\ UNCHANGED <<FlagsData, Selector, setInProgress, asked, done, resets, raced>>

\* PlatformClearCmos (external): it fails, succeeds, or asks for a cold reset.
ClearCmos ==
  /\ pc = "clearCmos"
  /\ \/ /\ pc' = "deviceCheck"
        /\ cmosClears' \in {cmosClears, cmosClears + 1}
     \/ /\ pc' = "cmosCheck"
        /\ cmosClears' = cmosClears + 1
  /\ FlagsData' = ZeroFlags
  /\ UNCHANGED <<Selector, flags, setInProgress, asked, oneShotBoots, mishaps, raced>>
-------------------------------------------------------------------------------
(***************************************************************************)
(* IpmiGetBootDevice, and the boot with what it returned.                  *)
(***************************************************************************)
DeviceCheck == CheckSetInProgress("deviceCheck", "deviceGet", "boot")

DeviceGetPersistent ==
  /\ pc = "deviceGet"
  /\ \/ /\ FlagsData' = GotFlags
        /\ Selector' = GotFlags.device
        /\ pc' = IF GotFlags.valid /\ GotFlags.persistent THEN "deviceSet" ELSE "deviceAck"
        /\ raced' = FALSE
        /\ UNCHANGED failures
     \/ /\ CommandFails
        /\ Selector' = BootNone
        /\ pc' = "boot"
        /\ UNCHANGED <<FlagsData, raced>>
  /\ UNCHANGED <<flags, setInProgress, asked, done, setFailures, resets>>

DeviceGet ==
  /\ pc = "deviceGet"
  /\ \/ /\ FlagsData' = GotFlags
        /\ Selector' = GotFlags.device
        /\ pc' = IF GotFlags.valid /\ ~ GotFlags.persistent THEN "deviceSet" ELSE "deviceAck"
        /\ raced' = FALSE
        /\ UNCHANGED failures
     \/ /\ CommandFails
        /\ Selector' = BootNone
        /\ pc' = "boot"
        /\ UNCHANGED <<FlagsData, raced>>
  /\ UNCHANGED <<flags, setInProgress, asked, done, setFailures, resets>>

DeviceSet ==
  /\ pc = "deviceSet"
  /\ SetBootFlags(ZeroFlags)
  /\ pc' = "deviceAck"
  /\ UNCHANGED <<FlagsData, Selector, setInProgress, asked, done, resets, raced>>

\* IpmiAcknowledgeBootOption: its result does not matter.
DeviceAck ==
  /\ pc = "deviceAck"
  /\ pc' = "boot"
  /\ UNCHANGED failures \/ CommandFails
  /\ UNCHANGED <<FlagsData, Selector, flags, setInProgress, asked, done, setFailures, resets, raced>>

\* BDS starts the selected device, or its own choice.
Boot ==
  /\ pc = "boot"
  /\ pc' = "os"
  /\ oneShotBoots' = IF Selector # BootNone /\ ~ FlagsData.persistent
                     THEN oneShotBoots + 1 ELSE oneShotBoots
  /\ UNCHANGED <<FlagsData, Selector, flags, setInProgress, asked, cmosClears, mishaps, raced>>
-------------------------------------------------------------------------------
(***************************************************************************)
(* The world: resets and the administrator, whose tool brackets its write  *)
(* with set in progress.                                                   *)
(***************************************************************************)
Reset ==
  /\ resets < MaxResets
  /\ resets' = resets + 1
  /\ pc' = "cmosCheck"
  /\ FlagsData' = ZeroFlags /\ Selector' = BootNone
  /\ UNCHANGED <<flags, setInProgress, asked, done, setFailures, failures, raced>>

AdminBegins ==
  /\ ~ setInProgress /\ requests < MaxRequests
  /\ setInProgress' = TRUE
  /\ UNCHANGED <<pc, FlagsData, Selector, flags, asked, done, mishaps, raced>>

AdminWrites ==
  /\ setInProgress /\ requests < MaxRequests
  /\ \E f \in {g \in Flags : g.valid} :
       /\ flags' = f
       /\ cmosRequests' = cmosRequests + (IF f.CmosClear THEN 1 ELSE 0)
       /\ oneShotRequests' = oneShotRequests + (IF f.persistent THEN 0 ELSE 1)
  /\ requests' = requests + 1
  /\ raced' = TRUE
  /\ setInProgress' = FALSE
  /\ UNCHANGED <<pc, FlagsData, Selector, done, mishaps>>

Host == \/ CmosCheck \/ CmosGet \/ CmosSet \/ ClearCmos
        \/ DeviceCheck \/ DeviceGet \/ DeviceSet \/ DeviceAck \/ Boot

Next == Host \/ Reset \/ AdminBegins \/ AdminWrites

Spec == Init /\ [][Next]_vars

FairSpec == Spec /\ WF_vars(Host)
-------------------------------------------------------------------------------
(***************************************************************************)
(* Properties.                                                             *)
(***************************************************************************)

\* CMOS is cleared once per request, whatever resets come between, plus once
\* for every lost Set: a clear that asks for a reboot does not loop.
CmosClearsBounded == cmosClears <= cmosRequests + setFailures

\* A boot device that was asked for once is booted once, plus once for every
\* lost Set, also when CMOS clearing writes the same flags back.
OneShotBootsBounded == oneShotBoots <= oneShotRequests + setFailures

\* Unless the administrator wrote meanwhile, the firmware keeps the rest of a
\* request: clearing the CMOS flag leaves the boot device, and reading the boot
\* device leaves a persistent one.
RequestKept ==
  [][Host /\ ~ raced /\ (pc = "cmosSet" \/ flags.persistent) =>
       [flags' EXCEPT !.CmosClear = FALSE] = [flags EXCEPT !.CmosClear = FALSE]]_vars

\* Every boot gets to the operating system: a CMOS clear that asks for a
\* reboot does so once per request.
BootEnds == pc # "os" ~> pc = "os"
===============================================================================
