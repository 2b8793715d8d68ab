---------------------------- MODULE Watchdog_proofs ----------------------------
(***************************************************************************)
(* Theorems about Watchdog, for every set of timeouts, every width of the  *)
(* countdown, and any number of signals and policy changes.                *)
(***************************************************************************)
EXTENDS Watchdog, TLAPS

Enabling == pc \in {"enableGet", "enableSet", "enableReset"}
Disabling == pc \in {"disableGet", "disableSet"}

\* What the ExitBootServices callback looks at.
OsTimerWanted == mWatchdogPolicy.OsWatchdogEnabled /\ mWatchdogPolicy.OsTimeoutSeconds # 0

\* Which routine runs when, and with what: FRB2 is enabled only before BDS, the
\* OS timer only by the ExitBootServices callback.  A timer about to be started
\* is the one that was just set.
RoutineInv ==
  /\ Enabling => \/ caller = "pei" /\ phase = "pei" /\ use = "FRB2"
                 \/ caller = "entry" /\ phase = "dxe" /\ use = "FRB2"
                 \/ /\ caller = "exitBootServices" /\ phase = "bds" /\ use = "OS_LOADER"
                    /\ signals > 0
                    /\ countdown = ToCountdown(mWatchdogPolicy.OsTimeoutSeconds)
                    /\ OsTimerWanted
  /\ Disabling => caller = "readyToBoot" /\ phase = "bds" /\ use = "FRB2"
  /\ pc \in {"entryGet", "entryGetAgain"} => caller = "entry" /\ phase = "dxe"
  /\ pc = "enableReset" => timer.use = use /\ timer.countdown = countdown

\* The events exist from the end of the entry point on; without a failure the
\* first ReadyToBoot signal closes its event, and the other waits.
EventInv ==
  /\ phase \in {"pei", "dxe"} => readyToBoot = "none" /\ signals = 0
  /\ phase = "os" => pc = "idle" /\ signals > 0
  /\ ~ failed /\ phase \in {"bds", "os"} => readyToBoot \in {"open", "closed"}
  /\ ~ failed /\ phase = "bds" => exitBootServices = "open"
  /\ ~ failed /\ signals > 0 /\ ~ Disabling => readyToBoot = "closed"

\* What the ExitBootServices callback knows to have done is still so, in terms of
\* the driver's copy of the policy.
OsInv ==
  /\ phase # "os" => osTimer = IF pc = "enableReset" /\ caller = "exitBootServices"
                               THEN "set" ELSE "none"
  /\ osTimer # "none" => /\ timer.use = "OS_LOADER"
                         /\ timer.countdown = ToCountdown(mWatchdogPolicy.OsTimeoutSeconds)
  /\ osTimer = "started" => timer.running \/ expired
  /\ phase = "os" /\ ~ failed => (osTimer = "started" <=> OsTimerWanted)

IInv == TypeOK /\ RoutineInv /\ EventInv /\ ClosedMeansStopped /\ OsInv
-------------------------------------------------------------------------------
\* A timeout is cut to the countdown's width, and one that fits is kept.
LEMMA CountdownFits ==
  ASSUME NEW s \in Seconds
  PROVE  /\ ToCountdown(s) \in 0..(CountRange - 1)
         /\ 10 * s < CountRange => ToCountdown(s) = 10 * s
<1>1. s \in Nat /\ CountRange \in Nat \ {0}
  BY CountdownAssumption
<1>2. /\ \A a \in Nat, n \in Nat \ {0} : a % n \in 0..(n - 1)
      /\ \A a \in Nat, n \in Nat \ {0} : a < n => a % n = a
  OBVIOUS
<1>3. s * 10 \in Nat /\ s * 10 = 10 * s
  BY <1>1
<1> QED
  BY <1>1, <1>2, <1>3 DEF ToCountdown

\* A policy's timeouts are numbers of seconds.
LEMMA PolicySeconds ==
  ASSUME NEW p \in Policies
  PROVE  p.Frb2TimeoutSeconds \in Seconds /\ p.OsTimeoutSeconds \in Seconds
BY DEF Policies

\* The invariant holds before the first driver runs.
LEMMA InitHolds == Init => IInv
<1> SUFFICES ASSUME Init PROVE IInv
  OBVIOUS
<1>1. 0 \in 0..(CountRange - 1) /\ 0 \in 0..MaxUpdates /\ 0 \in 0..MaxSignals
  BY CountdownAssumption
<1>2. TypeOK
  BY <1>1 DEF Init, TypeOK, Callers, Uses, Commands
<1>3. RoutineInv /\ EventInv /\ ClosedMeansStopped /\ OsInv
  BY DEF Init, RoutineInv, EventInv, ClosedMeansStopped, OsInv, Enabling, Disabling
<1> QED
  BY <1>2, <1>3 DEF IInv

\* What Set Watchdog Timer leaves in the BMC is a timer that does not run.
LEMMA BmcSetTimer ==
  ASSUME TypeOK, BmcSet
  PROVE  timer' \in Timers /\ ~ timer'.running /\ expired' = FALSE
BY DEF TypeOK, BmcSet, Timers

\* Types, action by action.
LEMMA TypeStep == TypeOK /\ [Next]_vars => TypeOK'
<1> SUFFICES ASSUME TypeOK, [Next]_vars PROVE TypeOK'
  OBVIOUS
<1> USE DEF TypeOK, Commands, Callers, Uses
<1>1. CASE UNCHANGED vars
  BY <1>1 DEF vars, request, platform, events, bmc, history
<1>2. CASE EnableGet
  BY <1>2 DEF EnableGet, IpmiGetWatchdogTimer, Fail, Proceed, Finish, EventAfterDisable,
         request, platform, events, bmc, history
<1>3. CASE EnableSet
  <2>1. timer' \in Timers /\ expired' \in BOOLEAN
    BY <1>3, BmcSetTimer DEF EnableSet, Reached, IpmiSetWatchdogTimer, Fail, Proceed, bmc
  <2> QED
    BY <1>3, <2>1 DEF EnableSet, Reached, IpmiSetWatchdogTimer, Fail, Proceed, Finish,
           EventAfterDisable, request, platform, events, bmc, history
<1>4. CASE EnableReset
  BY <1>4 DEF EnableReset, Reached, IpmiResetWatchdogTimer, BmcReset, Fail, Succeed, Finish,
         EventAfterDisable, request, platform, events, bmc, history, Timers
<1>5. CASE DisableGet
  BY <1>5 DEF DisableGet, IpmiGetWatchdogTimer, Fail, Proceed, Succeed, Finish,
         EventAfterDisable, request, platform, events, bmc, history
<1>6. CASE DisableSet
  <2>1. timer' \in Timers /\ expired' \in BOOLEAN
    BY <1>6, BmcSetTimer DEF DisableSet, IpmiSetWatchdogTimer, Fail, Succeed, bmc
  <2> QED
    BY <1>6, <2>1 DEF DisableSet, IpmiSetWatchdogTimer, Fail, Succeed, Finish,
           EventAfterDisable, request, platform, events, bmc, history
<1>7. CASE InitializeWatchdogPei
  BY <1>7, CountdownFits, PolicySeconds DEF InitializeWatchdogPei, CallEnable, NoCall,
         platform, events, bmc, history
<1>8. CASE PeiSkipped
  BY <1>8 DEF PeiSkipped, NoCall, platform, events, bmc, history
<1>9. CASE IpmiWatchdogDxeEntryPoint
  BY <1>9 DEF IpmiWatchdogDxeEntryPoint, NoCall, events, bmc, history
<1>10. CASE EntryFails
  BY <1>10 DEF EntryFails, NoCall, platform, bmc, history
<1>11. CASE EntryGet
  BY <1>11, CountdownFits, PolicySeconds DEF EntryGet, CallEnable, NoCall, platform,
         events, bmc, history
<1>12. CASE EntryGetAgain
  BY <1>12 DEF EntryGetAgain, NoCall, platform, bmc, history
<1>13. CASE ReadyToBoot
  BY <1>13, CountdownAssumption DEF ReadyToBoot, CallDisable, NoCall, platform, bmc, history
<1>14. CASE ExitBootServices
  BY <1>14, CountdownFits, PolicySeconds DEF ExitBootServices, CallEnable, NoCall,
         platform, bmc, history
<1>15. CASE SetPolicy
  BY <1>15, CountdownAssumption DEF SetPolicy, request, events, bmc, history
<1>16. CASE TimerExpires
  BY <1>16 DEF TimerExpires, request, platform, events, history, Timers
<1> QED
  BY <1>1, <1>2, <1>3, <1>4, <1>5, <1>6, <1>7, <1>8, <1>9, <1>10, <1>11, <1>12, <1>13,
         <1>14, <1>15, <1>16 DEF Next, Modules, Library

Safe == RoutineInv /\ EventInv /\ ClosedMeansStopped /\ OsInv

\* The timer starts: it is the one set in the step before, and unless that was
\* FRB2, before BDS, it is the one the driver's policy asks for.
LEMMA ResetHolds ==
  ASSUME IInv, EnableReset
  PROVE  Safe'
<1> USE DEF IInv, RoutineInv, EventInv
<1>1. /\ Enabling /\ pc' # "enableReset" /\ ~ Enabling' /\ ~ Disabling'
      /\ UNCHANGED <<caller, use, countdown, mWatchdogPolicy, signals>>
  BY DEF EnableReset, Fail, Succeed, Finish, events, request, platform, Enabling, Disabling
<1>2. /\ timer'.use = use /\ timer'.countdown = countdown
      /\ \/ failed' /\ osTimer' = osTimer
         \/ /\ timer'.running /\ failed' = failed
            /\ osTimer' = IF caller = "exitBootServices" THEN "started" ELSE osTimer
  BY DEF TypeOK, EnableReset, Reached, IpmiResetWatchdogTimer, BmcReset, Fail, Succeed, bmc, Timers
<1>3. \/ /\ phase' = "dxe" /\ caller = "pei" /\ use = "FRB2" /\ pc' = "idle"
         /\ readyToBoot' = "none" /\ UNCHANGED events
      \/ /\ phase' = "dxe" /\ caller = "entry" /\ use = "FRB2" /\ pc' = "entryGetAgain"
         /\ readyToBoot' = "none" /\ UNCHANGED events
      \/ /\ phase' = "os" /\ caller = "exitBootServices" /\ use = "OS_LOADER" /\ signals > 0
         /\ OsTimerWanted
         /\ countdown = ToCountdown(mWatchdogPolicy.OsTimeoutSeconds)
         /\ pc' = "idle" /\ phase = "bds" /\ readyToBoot' = readyToBoot
  BY <1>1 DEF EnableReset, Fail, Succeed, Finish, Enabling, events
<1>4. RoutineInv'
  BY <1>1, <1>2, <1>3
<1>5. EventInv'
  BY <1>1, <1>2, <1>3 DEF events, Enabling, Disabling
<1>6. ClosedMeansStopped'
  BY <1>2, <1>3 DEF ClosedMeansStopped, Frb2Running, events, TypeOK, Enabling
<1>7. OsInv'
  BY <1>1, <1>2, <1>3 DEF OsInv, OsTimerWanted, TypeOK, EnableReset
<1> QED
  BY <1>4, <1>5, <1>6, <1>7 DEF Safe

\* Safety, action by action.
LEMMA SafeStep == IInv /\ [Next]_vars => Safe'
<1> SUFFICES ASSUME IInv, [Next]_vars PROVE Safe'
  OBVIOUS
<1> USE DEF IInv, TypeOK, Safe, RoutineInv, EventInv, ClosedMeansStopped, OsInv,
            OsTimerWanted, Frb2Running, Enabling, Disabling
<1>1. CASE UNCHANGED vars
  BY <1>1 DEF vars, request, platform, events, bmc, history
<1>2. CASE EnableGet
  BY <1>2 DEF EnableGet, IpmiGetWatchdogTimer, Fail, Proceed, Finish, EventAfterDisable,
         request, platform, events, bmc, history
<1>3. CASE EnableSet
  BY <1>3 DEF EnableSet, Reached, IpmiSetWatchdogTimer, BmcSet, Fail, Proceed, Finish,
         EventAfterDisable, request, platform, events, bmc, history
<1>4. CASE EnableReset
  BY <1>4, ResetHolds
<1>5. CASE DisableGet
  BY <1>5 DEF DisableGet, IpmiGetWatchdogTimer, Fail, Proceed, Succeed, Finish,
         EventAfterDisable, request, platform, events, bmc, history
<1>6. CASE DisableSet
  BY <1>6 DEF DisableSet, IpmiSetWatchdogTimer, BmcSet, Fail, Succeed, Finish,
         EventAfterDisable, request, platform, events, bmc, history
<1>7. CASE InitializeWatchdogPei
  BY <1>7 DEF InitializeWatchdogPei, CallEnable, NoCall, platform, events, bmc, history
<1>8. CASE PeiSkipped
  BY <1>8 DEF PeiSkipped, NoCall, platform, events, bmc, history
<1>9. CASE IpmiWatchdogDxeEntryPoint
  BY <1>9 DEF IpmiWatchdogDxeEntryPoint, NoCall, events, bmc, history
<1>10. CASE EntryFails
  BY <1>10 DEF EntryFails, NoCall, platform, bmc, history
<1>11. CASE EntryGet
  BY <1>11 DEF EntryGet, CallEnable, NoCall, platform, events, bmc, history
<1>12. CASE EntryGetAgain
  BY <1>12 DEF EntryGetAgain, NoCall, platform, bmc, history
<1>13. CASE ReadyToBoot
  BY <1>13, CountdownAssumption DEF ReadyToBoot, CallDisable, NoCall, platform, bmc, history
<1>14. CASE ExitBootServices
  BY <1>14, CountdownFits, PolicySeconds DEF ExitBootServices, CallEnable, NoCall,
         platform, bmc, history
<1>15. CASE SetPolicy
  BY <1>15 DEF SetPolicy, request, events, bmc, history
<1>16. CASE TimerExpires
  BY <1>16 DEF TimerExpires, request, platform, events, history, Timers
<1> QED
  BY <1>1, <1>2, <1>3, <1>4, <1>5, <1>6, <1>7, <1>8, <1>9, <1>10, <1>11, <1>12, <1>13,
         <1>14, <1>15, <1>16 DEF Next, Modules, Library

\* The inductive invariant holds.
LEMMA Invariance == Spec => []IInv
<1>1. IInv /\ [Next]_vars => IInv'
  BY TypeStep, SafeStep DEF IInv, Safe
<1> QED
  BY <1>1, InitHolds, PTL DEF Spec

\* Types; in particular the countdown never exceeds its width, whatever the
\* policy asks for.
THEOREM TypeCorrect == Spec => []TypeOK
<1>1. IInv => TypeOK
  BY DEF IInv
<1> QED
  BY <1>1, Invariance, PTL

\* The ReadyToBoot event is closed only when no FRB2 timer runs, and none is
\* started afterwards, for any number of signals, failures and lost responses.
THEOREM Frb2Stopped == Spec => []ClosedMeansStopped
<1>1. IInv => ClosedMeansStopped
  BY DEF IInv
<1> QED
  BY <1>1, Invariance, PTL

\* The operating system starts under the timer its policy asks for, if that has not
\* changed since it was copied, and under FRB2 only if a command failed and neither
\* callback got through: for every policy, every width of the countdown, and any
\* signals and failures.
THEOREM OsTimerCorrect == Spec => []OsTimerStarted
<1>1. IInv => OsTimerStarted
  <2> SUFFICES ASSUME IInv, phase = "os" PROVE OsTimerStarted
    BY DEF OsTimerStarted
  <2> USE DEF IInv, TypeOK
  <2>1. Frb2Running => failed /\ readyToBoot # "closed" /\ osTimer = "none"
    BY DEF EventInv, ClosedMeansStopped, OsInv, Frb2Running, Disabling
  <2>2. policy = mWatchdogPolicy /\ osTimer # "none" /\ 10 * policy.OsTimeoutSeconds < CountRange
          => timer.countdown = 10 * policy.OsTimeoutSeconds
    BY CountdownFits, PolicySeconds DEF OsInv
  <2> QED
    BY <2>1, <2>2 DEF OsTimerStarted, OsInv, OsTimerWanted
<1> QED
  BY <1>1, Invariance, PTL
===============================================================================
