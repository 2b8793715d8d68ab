------------------------------- MODULE Watchdog -------------------------------
(***************************************************************************)
(* The IPMI watchdog timer over one boot: IpmiWatchdog/Pei/WatchdogPei.c,  *)
(* IpmiWatchdog/Dxe/WatchdogDxe.c with its ReadyToBoot and                 *)
(* ExitBootServices callbacks, and Library/IpmiWatchdogLib, against the    *)
(* BMC's timer and a policy the platform may change meanwhile.             *)
(*                                                                         *)
(* One action per IPMI command.  A command that fails may or may not have  *)
(* taken effect: the response can be lost on the way back.                 *)
(***************************************************************************)
EXTENDS Naturals

CONSTANTS
  Seconds,      \* timeouts a policy may ask for
  CountRange,   \* values of the UINT16 InitialCountdownValue: 65536
  MaxSignals,   \* bound: ReadyToBoot signals in one boot
  MaxUpdates    \* bound: policy changes in one boot

ASSUME CountdownAssumption ==
  /\ Seconds \subseteq Nat
  /\ CountRange \in Nat \ {0}
  /\ MaxSignals \in Nat /\ MaxUpdates \in Nat

Policies == [Frb2Enabled : BOOLEAN, Frb2TimeoutSeconds : Seconds,
             OsWatchdogEnabled : BOOLEAN, OsTimeoutSeconds : Seconds]

VARIABLES
  phase,     \* "pei", "dxe" (driver not yet dispatched), "bds" or "os"
  pc,        \* the command under way, "idle" between the modules' calls
  caller,    \* which of the four routines is running or ran last
  use, countdown,   \* the timer being enabled or disabled
  policy,    \* what the policy service holds
  updates,   \* changes of it so far
  mWatchdogPolicy,  \* the DXE driver's copy
  readyToBoot, exitBootServices,  \* the two events: "none", "open" or "closed"
  signals,   \* ReadyToBoot signals so far
  timer,     \* the BMC's timer: use, initial countdown, running
  expired,   \* history: the timer ran out since it was last set
  failed,    \* history: a command, GetPolicy or CreateEvent has failed in this boot
  osTimer    \* history: how far EnableOsWatchdogTimer knows it got

request == <<caller, use, countdown>>
platform == <<policy, updates, mWatchdogPolicy>>
events == <<readyToBoot, exitBootServices, signals>>
bmc == <<timer, expired>>
history == <<failed, osTimer>>
vars == <<phase, pc, request, platform, events, bmc, history>>

Uses == {"none", "FRB2", "OS_LOADER"}

Timers == [use : Uses, countdown : 0..(CountRange - 1), running : BOOLEAN]

Callers == {"pei", "entry", "readyToBoot", "exitBootServices"}

Commands == {"entryGet", "entryGetAgain", "enableGet", "enableSet", "enableReset",
             "disableGet", "disableSet"}

TypeOK ==
  /\ phase \in {"pei", "dxe", "bds", "os"}
  /\ pc \in Commands \cup {"idle"}
  /\ caller \in Callers /\ use \in Uses /\ countdown \in 0..(CountRange - 1)
  /\ policy \in Policies /\ mWatchdogPolicy \in Policies
  /\ updates \in 0..MaxUpdates /\ signals \in 0..MaxSignals
  /\ {readyToBoot, exitBootServices} \subseteq {"none", "open", "closed"}
  /\ timer \in Timers
  /\ {expired, failed} \subseteq BOOLEAN
  /\ osTimer \in {"none", "set", "started"}

\* The timer may run already: the BMC starts one at power on, or the OS left
\* its own running across a warm reset.
Init ==
  /\ phase = "pei" /\ pc = "idle" /\ caller = "pei" /\ use = "none" /\ countdown = 0
  /\ policy \in Policies /\ updates = 0 /\ mWatchdogPolicy = policy
  /\ readyToBoot = "none" /\ exitBootServices = "none" /\ signals = 0
  /\ timer \in {t \in Timers : t.countdown = 0}
  /\ expired = FALSE /\ failed = FALSE /\ osTimer = "none"
-------------------------------------------------------------------------------
(***************************************************************************)
(* What each routine does once its library call is over, whatever the call *)
(* returned: only DisableFrb2WatchdogTimer looks at the result.            *)
(***************************************************************************)
EventAfterDisableClosed(status) == "closed"

EventAfterDisable(status) == IF status = "SUCCESS" THEN "closed" ELSE readyToBoot

Finish(status) ==
  \/ /\ caller = "pei"
     /\ pc' = "idle" /\ phase' = "dxe"
     /\ UNCHANGED events
  \/ /\ caller = "entry"
     /\ pc' = "entryGetAgain"
     /\ UNCHANGED <<phase, events>>
  \/ /\ caller = "readyToBoot"
     /\ pc' = "idle"
     /\ readyToBoot' = EventAfterDisable(status)
     /\ UNCHANGED <<phase, exitBootServices, signals>>
  \/ /\ caller = "exitBootServices"
     /\ pc' = "idle" /\ phase' = "os"
     /\ exitBootServices' = "closed"
     /\ UNCHANGED <<readyToBoot, signals>>

\* The UINT16 product of IpmiWatchdogLib.c line 74.
ToCountdownUntruncated(s) == s * 10

ToCountdown(s) == (s * 10) % CountRange

\* A call that ends at once: nothing to enable, or a timeout of 0 refused.
NoCall(c, ph, next) ==
  /\ caller' = c /\ phase' = ph /\ pc' = next
  /\ UNCHANGED <<use, countdown>>

CallEnable(c, u, s) ==
  /\ caller' = c /\ use' = u /\ countdown' = ToCountdown(s)
  /\ pc' = "enableGet"
  /\ UNCHANGED phase

CallDisable(c, u) ==
  /\ caller' = c /\ use' = u /\ countdown' = 0
  /\ pc' = "disableGet"
  /\ UNCHANGED phase
-------------------------------------------------------------------------------
(***************************************************************************)
(* The BMC's side of Set and Reset Watchdog Timer (external): setting the  *)
(* timer stops it, resetting it starts it.                                 *)
(***************************************************************************)
BmcSet ==
  /\ timer' = [use |-> use, countdown |-> countdown, running |-> FALSE]
  /\ expired' = FALSE

BmcReset ==
  /\ timer' = [timer EXCEPT !.running = TRUE]
  /\ expired' = FALSE

TimerExpires ==
  /\ timer.running
  /\ timer' = [timer EXCEPT !.running = FALSE]
  /\ expired' = TRUE
  /\ UNCHANGED <<phase, pc, request, platform, events, history>>
-------------------------------------------------------------------------------
(***************************************************************************)
(* IpmiEnableWatchdogTimer and IpmiDisableWatchdogTimer.                   *)
(***************************************************************************)
Fail(effect) ==
  /\ effect \/ UNCHANGED bmc
  /\ failed' = TRUE
  /\ Finish("ERROR")
  /\ UNCHANGED <<request, platform>>

Proceed(effect, next) ==
  /\ effect
  /\ pc' = next
  /\ UNCHANGED <<phase, request, platform, events, failed>>

Succeed(effect) ==
  /\ effect
  /\ Finish("SUCCESS")
  /\ UNCHANGED <<request, platform, failed>>

IpmiGetWatchdogTimer == UNCHANGED bmc

IpmiSetWatchdogTimer == BmcSet

IpmiResetWatchdogTimer == BmcReset

\* History: a step of the ExitBootServices callback was answered with success.
Reached(step) == osTimer' = IF caller = "exitBootServices" THEN step ELSE osTimer

EnableGet ==
  /\ pc = "enableGet"
  /\ Fail(IpmiGetWatchdogTimer) \/ Proceed(IpmiGetWatchdogTimer, "enableSet")
  /\ UNCHANGED osTimer

EnableSet ==
  /\ pc = "enableSet"
  /\ \/ Fail(IpmiSetWatchdogTimer) /\ UNCHANGED osTimer
     \/ Proceed(IpmiSetWatchdogTimer, "enableReset") /\ Reached("set")

EnableReset ==
  /\ pc = "enableReset"
  /\ \/ Fail(IpmiResetWatchdogTimer) /\ UNCHANGED osTimer
     \/ Succeed(IpmiResetWatchdogTimer) /\ Reached("started")

DisableGet ==
  /\ pc = "disableGet"
  /\ \/ Fail(IpmiGetWatchdogTimer)
     \/ ~ timer.running /\ Succeed(IpmiGetWatchdogTimer)
     \/ timer.running /\ Proceed(IpmiGetWatchdogTimer, "disableSet")
  /\ UNCHANGED osTimer

DisableSet ==
  /\ pc = "disableSet"
  /\ Fail(IpmiSetWatchdogTimer) \/ Succeed(IpmiSetWatchdogTimer)
  /\ UNCHANGED osTimer

Library == EnableGet \/ EnableSet \/ EnableReset \/ DisableGet \/ DisableSet
-------------------------------------------------------------------------------
(***************************************************************************)
(* The modules.                                                            *)
(***************************************************************************)

\* InitializeWatchdogPei, if the platform has it.
InitializeWatchdogPei ==
  /\ phase = "pei" /\ pc = "idle"
  /\ IF policy.Frb2Enabled /\ policy.Frb2TimeoutSeconds # 0
     THEN CallEnable("pei", "FRB2", policy.Frb2TimeoutSeconds)
     ELSE NoCall("pei", "dxe", "idle")
  /\ UNCHANGED <<platform, events, bmc, history>>

\* No PEI module, or GetPolicy failed in it.
PeiSkipped ==
  /\ phase = "pei" /\ pc = "idle"
  /\ NoCall("pei", "dxe", "idle")
  /\ failed' \in {failed, TRUE}
  /\ UNCHANGED <<platform, events, bmc, osTimer>>

\* The DXE entry point: copy the policy, then look at the timer.
IpmiWatchdogDxeEntryPoint ==
  /\ phase = "dxe" /\ pc = "idle"
  /\ mWatchdogPolicy' = policy
  /\ NoCall("entry", "dxe", "entryGet")
  /\ UNCHANGED <<policy, updates, events, bmc, history>>

\* GetPolicy, a Get Watchdog Timer or CreateEvent failed: the driver leaves,
\* with whatever it had set up until then.
EntryFails ==
  /\ phase = "dxe" /\ pc \in {"idle", "entryGet", "entryGetAgain"}
  /\ NoCall("entry", "bds", "idle")
  /\ failed' = TRUE
  /\ readyToBoot' \in {"none", IF pc = "entryGetAgain" THEN "open" ELSE "none"}
  /\ UNCHANGED <<platform, exitBootServices, signals, bmc, osTimer>>

\* Without a running timer, enable FRB2 here.
EntryGet ==
  /\ pc = "entryGet"
  /\ IF /\ mWatchdogPolicy.Frb2Enabled
        /\ ~ timer.running
        /\ mWatchdogPolicy.Frb2TimeoutSeconds # 0
     THEN CallEnable("entry", "FRB2", mWatchdogPolicy.Frb2TimeoutSeconds)
     ELSE NoCall("entry", "dxe", "entryGetAgain")
  /\ UNCHANGED <<platform, events, bmc, history>>

\* The second Get, and the two events.
EntryGetAgainOsOnly ==
  /\ pc = "entryGetAgain"
  /\ NoCall("entry", "bds", "idle")
  /\ exitBootServices' = "open"
  /\ UNCHANGED <<platform, readyToBoot, signals, bmc, history>>

EntryGetAgain ==
  /\ pc = "entryGetAgain"
  /\ NoCall("entry", "bds", "idle")
  /\ readyToBoot' = "open" /\ exitBootServices' = "open"
  /\ UNCHANGED <<platform, signals, bmc, history>>

\* BDS signals ReadyToBoot before every boot option it tries.
ReadyToBoot ==
  /\ phase = "bds" /\ pc = "idle"
  /\ signals < MaxSignals
  /\ signals' = signals + 1
  /\ IF readyToBoot = "open"
     THEN CallDisable("readyToBoot", "FRB2")
     ELSE NoCall("readyToBoot", "bds", "idle")
  /\ UNCHANGED <<platform, readyToBoot, exitBootServices, bmc, history>>

\* The boot option exits boot services: EnableOsWatchdogTimer.
ExitBootServices ==
  /\ phase = "bds" /\ pc = "idle"
  /\ signals > 0
  /\ IF /\ exitBootServices = "open"
        /\ mWatchdogPolicy.OsWatchdogEnabled /\ mWatchdogPolicy.OsTimeoutSeconds # 0
     THEN /\ CallEnable("exitBootServices", "OS_LOADER", mWatchdogPolicy.OsTimeoutSeconds)
          /\ UNCHANGED exitBootServices
     ELSE /\ NoCall("exitBootServices", "os", "idle")
          /\ exitBootServices' = IF exitBootServices = "open" THEN "closed" ELSE exitBootServices
  /\ UNCHANGED <<platform, readyToBoot, signals, bmc, history>>

\* A platform component changes the policy while boot services run.
SetPolicy ==
  /\ phase # "os" /\ caller # "exitBootServices"
  /\ updates < MaxUpdates
  /\ updates' = updates + 1
  /\ policy' \in Policies
  /\ UNCHANGED <<phase, pc, request, mWatchdogPolicy, events, bmc, history>>

Modules ==
  \/ InitializeWatchdogPei \/ PeiSkipped
  \/ IpmiWatchdogDxeEntryPoint \/ EntryFails \/ EntryGet \/ EntryGetAgain
  \/ Library

Next ==
  \/ Modules
  \/ ReadyToBoot \/ ExitBootServices
  \/ SetPolicy
  \/ TimerExpires

Spec == Init /\ [][Next]_vars
-------------------------------------------------------------------------------
(***************************************************************************)
(* Properties.                                                             *)
(***************************************************************************)
Frb2Running == timer.running /\ timer.use = "FRB2"

\* Once the ReadyToBoot callback has closed its event no FRB2 timer runs, even
\* if a response was lost after the BMC had obeyed: closing it earlier would
\* leave a timer nobody stops (WatchdogDxe.c lines 51-55).
ClosedMeansStopped == readyToBoot = "closed" => ~ Frb2Running

\* Under which timer the OS starts, whatever failed and however often ReadyToBoot
\* came.  FRB2 is still running only after a failure, if no ReadyToBoot callback
\* and no Set of the ExitBootServices callback was answered with success.  Once
\* that Set was, the timer is the OS loader's even if the Reset failed; once the
\* Reset was too, it runs or has run out.  If the policy has not changed since the
\* driver copied it, its time is the one asked for, and without a failure it is
\* started just when it is asked for.  Nothing is said of the
\* time of a timeout over 6553 s, which wraps in IpmiWatchdogLib.c line 74.
OsTimerStarted ==
  LET s == policy.OsTimeoutSeconds
      asked == policy.OsWatchdogEnabled /\ s # 0
  IN  phase = "os" =>
        /\ Frb2Running => failed /\ readyToBoot # "closed" /\ osTimer = "none"
        /\ osTimer # "none" => timer.use = "OS_LOADER"
        /\ osTimer = "started" => timer.running \/ expired
        /\ policy = mWatchdogPolicy =>
             /\ osTimer # "none" /\ 10 * s < CountRange => timer.countdown = 10 * s
             /\ ~ failed => (osTimer = "started" <=> asked)
===============================================================================
