-------------------------- MODULE PlatformBoot_proofs --------------------------
(***************************************************************************)
(* Theorems about PlatformBoot, for every build, every order of dispatch   *)
(* its dependency expressions allow, and every number of boots, failures   *)
(* and changes by the administrator.                                       *)
(***************************************************************************)
EXTENDS PlatformBoot, SequenceTheorems, WellFoundedInduction, TLAPS

\* What the power restore policy depends on.
policyVars == <<policy, CurrentPowerRestorePolicy, configured, changed, bmcPolicy, chosen>>

Restorer == "IpmiPowerRestorePolicy"

\* The platform's policy is fixed once it is published, and the driver that
\* uses it runs once per boot: what it found in the BMC is still there unless
\* the administrator acted, and until it has run nothing but the administrator
\* has changed the BMC's policy.
DispatchInv ==
  /\ "PlatformPolicy" \in installed => "PlatformPolicy" \notin pending
  /\ driver = Restorer \/ configured # "none"
       => Restorer \notin pending /\ "PlatformPolicy" \notin pending
ReadInv ==
  /\ driver = Restorer => configured = "none"
  /\ driver = Restorer /\ ~ changed /\ CurrentPowerRestorePolicy # Unknown
       => CurrentPowerRestorePolicy = bmcPolicy
ChosenInv == configured = "none" => bmcPolicy = chosen

PolicyInv == PolicySettled /\ DispatchInv /\ ReadInv /\ ChosenInv

\* A step that ends, begins or continues other drivers keeps the invariant.
OtherStep ==
  /\ UNCHANGED policyVars
  /\ pending' \subseteq pending
  /\ installed' \subseteq installed \cup (pending \ pending') \cup (Drivers \ {"PlatformPolicy"})
  /\ driver' = Restorer => driver = Restorer

\* The first boot starts in it.
LEMMA PolicyInit == Init => PolicyInv
  BY DEF Init, PolicyInv, PolicySettled, DispatchInv, ReadInv, ChosenInv, Restorer

\* So does every later one, whose memory is empty.
LEMMA PolicyForgotten ==
  ASSUME ForgetMemory, UNCHANGED bmcPolicy
  PROVE  PolicyInv'
  BY DEF ForgetMemory, PolicyInv, PolicySettled, DispatchInv, ReadInv, ChosenInv, Restorer

\* A step of that kind changes nothing the invariant speaks of.
LEMMA OtherStepKeeps ==
  ASSUME PolicyInv, OtherStep
  PROVE  PolicyInv'
  BY DEF OtherStep, policyVars, PolicyInv, PolicySettled, DispatchInv, ReadInv, ChosenInv

\* Entry points that are over in one step, apart from the policy's own.
LEMMA WholeIsOther ==
  ASSUME NEW d \in Drivers \ {"PlatformPolicy"}, Whole(d), UNCHANGED policyVars,
         installed' \subseteq installed \cup {d}
  PROVE  OtherStep
  BY DEF Whole, Enter, OtherStep

\* Entry points that take several steps: the first.
LEMMA PartIsOther ==
  ASSUME NEW d \in Drivers \ {Restorer}, Part(d), UNCHANGED policyVars
  PROVE  OtherStep
  BY DEF Part, Enter, OtherStep

\* Their later steps.
LEMMA GoesIsOther ==
  ASSUME NEW d \in Drivers \ {Restorer}, NEW on \in BOOLEAN, Goes(d, on), UNCHANGED policyVars
  PROVE  OtherStep
  BY DEF Goes, OtherStep, Drivers, Restorer

\* The platform's policy is published, by the default module or the platform's own.
LEMMA PublishKeeps ==
  ASSUME PolicyInv, Whole("PlatformPolicy"), Installs("PlatformPolicy", TRUE),
         UNCHANGED <<CurrentPowerRestorePolicy, configured, changed, bmcPolicy, chosen>>
  PROVE  PolicyInv'
<1>1. /\ driver = "none" /\ driver' = "none"
      /\ "PlatformPolicy" \in pending /\ pending' = pending \ {"PlatformPolicy"}
  BY DEF Whole, Enter, Dispatchable
<1>2. configured = "none" /\ bmcPolicy = chosen
  BY <1>1 DEF PolicyInv, DispatchInv, ChosenInv
<1>3. PolicySettled'
  BY <1>2 DEF PolicySettled
<1>4. DispatchInv' /\ ReadInv' /\ ChosenInv'
  BY <1>1, <1>2 DEF DispatchInv, ReadInv, ChosenInv, Restorer
<1> QED
  BY <1>3, <1>4 DEF PolicyInv

\* The driver reads the BMC's policy before anything but the administrator has
\* changed it in this boot.
LEMMA ReadKeeps ==
  ASSUME PolicyInv, ReadRestorePolicy
  PROVE  PolicyInv'
<1>1. /\ Restorer \in pending /\ pending' = pending \ {Restorer}
      /\ "PlatformPolicy" \in installed
      /\ driver' = Restorer
      /\ UNCHANGED <<policy, configured, bmcPolicy, chosen, installed>>
      /\ ~ changed'
      /\ CurrentPowerRestorePolicy' \in {bmcPolicy, Unknown}
  BY DEF ReadRestorePolicy, Part, Enter, Dispatchable, Depex, bmc, Restorer, Drivers, Peims
<1>2. configured = "none" /\ bmcPolicy = chosen
  BY <1>1 DEF PolicyInv, DispatchInv, ChosenInv
<1>3. PolicySettled' /\ ReadInv' /\ ChosenInv'
  BY <1>1, <1>2 DEF PolicySettled, ReadInv, ChosenInv
<1>4. DispatchInv'
  BY <1>1 DEF DispatchInv, PolicyInv, Restorer
<1> QED
  BY <1>3, <1>4 DEF PolicyInv

\* Set succeeds only with the command executed; if it fails, the BMC has its
\* old policy or the platform's.
LEMMA SetKeeps ==
  ASSUME PolicyInv, SetRestorePolicy
  PROVE  PolicyInv'
<1>1. /\ driver = Restorer /\ driver' = "none"
      /\ configured' \in {"success", "error"}
      /\ UNCHANGED <<pending, installed, policy, CurrentPowerRestorePolicy, changed, chosen>>
  BY DEF SetRestorePolicy, Goes, bmc, IpmiSetPowerRestorePolicy, Restorer
<1>2. /\ bmcPolicy' \in {bmcPolicy, policy}
      /\ configured' = "success" => (Consistent /\ UNCHANGED bmcPolicy) \/ bmcPolicy' = policy
  BY DEF SetRestorePolicy, IpmiSetPowerRestorePolicy, bmc
<1>3. configured = "none" /\ bmcPolicy = chosen
  BY <1>1 DEF PolicyInv, ReadInv, ChosenInv
<1>4. PolicySettled'
  <2>1. ASSUME configured' = "success", policy # NoChange, ~ changed
        PROVE  bmcPolicy' = policy
    <3>1. CASE Consistent /\ UNCHANGED bmcPolicy
      <4>1. CurrentPowerRestorePolicy = policy /\ CurrentPowerRestorePolicy # Unknown
        BY <2>1, <3>1 DEF Consistent, NoChange, Unknown
      <4> QED
        BY <1>1, <2>1, <3>1, <4>1 DEF PolicyInv, ReadInv
    <3> QED
      BY <1>2, <2>1, <3>1
  <2> QED
    BY <1>1, <1>2, <1>3, <2>1 DEF PolicySettled
<1>5. DispatchInv' /\ ReadInv' /\ ChosenInv'
  BY <1>1 DEF PolicyInv, DispatchInv, ReadInv, ChosenInv, Restorer
<1> QED
  BY <1>4, <1>5 DEF PolicyInv

\* The administrator's change is recorded with it.
LEMMA AdministratorKeeps ==
  ASSUME PolicyInv, NEW p \in PolicyValues, Administrator(p)
  PROVE  PolicyInv'
  BY DEF Administrator, dispatch, PolicyInv, PolicySettled, DispatchInv, ReadInv, ChosenInv

\* Every step keeps the policy's invariant.
LEMMA PolicyStep == PolicyInv /\ [Next]_vars => PolicyInv'
<1> SUFFICES ASSUME PolicyInv, [Next]_vars PROVE PolicyInv'
  OBVIOUS
<1> USE OtherStepKeeps DEF policyVars, restore, bmc
<1>1. CASE UNCHANGED vars
  BY <1>1 DEF vars, dispatch, OtherStep
<1>2. CASE PeimIpmiInterfaceInit
  BY <1>2, WholeIsOther DEF PeimIpmiInterfaceInit, Installs, Drivers, Peims
<1>3. CASE DxeGenericIpmiEntry
  BY <1>3, WholeIsOther DEF DxeGenericIpmiEntry, Installs, Drivers, DxeDrivers
<1>4. CASE InitializeSmmGenericIpmi
  BY <1>4, WholeIsOther DEF InitializeSmmGenericIpmi, Installs, Drivers, DxeDrivers
<1>5. CASE \E d \in {"AcpiTable", "Smbios", "SxDispatch"} : PlatformDriver(d)
  BY <1>5, WholeIsOther DEF PlatformDriver, Installs, Drivers, DxeDrivers
<1>6. CASE PlatformPowerRestorePolicyDefaultEntry \/ PlatformPolicyEntry
  BY <1>6, PublishKeeps DEF PlatformPowerRestorePolicyDefaultEntry, PlatformPolicyEntry
<1>7. CASE ReadRestorePolicy
  BY <1>7, ReadKeeps
<1>8. CASE SetRestorePolicy
  BY <1>8, SetKeeps
<1>9. CASE SolStatusEntryPoint
  BY <1>9, PartIsOther DEF SolStatusEntryPoint, Drivers, DxeDrivers, Restorer
<1>10. CASE GetSOLStatus \/ SolStatusReturns
  BY <1>10, GoesIsOther DEF GetSOLStatus, SolStatusReturns, Drivers, DxeDrivers, Restorer
<1>11. CASE InitializeFru
  BY <1>11, WholeIsOther DEF InitializeFru, Drivers, DxeDrivers
<1>12. CASE SpmiTableEntryPoint
  BY <1>12, WholeIsOther DEF SpmiTableEntryPoint, Drivers, DxeDrivers
<1>13. CASE BmcAcpiEntryPoint
  BY <1>13, PartIsOther DEF BmcAcpiEntryPoint, Drivers, DxeDrivers, Restorer
<1>14. CASE InstallSection \/ BmcAcpiReturns
  BY <1>14, GoesIsOther DEF InstallSection, BmcAcpiReturns, Drivers, DxeDrivers, Restorer
<1>15. CASE IpmiSmbiosEntry
  BY <1>15, WholeIsOther DEF IpmiSmbiosEntry, Drivers, DxeDrivers
<1>16. CASE InitializeBmcAcpiPowerStateSmm
  BY <1>16, WholeIsOther DEF InitializeBmcAcpiPowerStateSmm, Drivers, DxeDrivers
<1>17. CASE NextPhase \/ ReadyToBoot
  BY <1>17 DEF NextPhase, ReadyToBoot, OtherStep
<1>18. CASE ExitBootServices
  BY <1>18 DEF ExitBootServices, BmcAcpiPowerStateExitBootServicesCallback,
               SetBmcAcpiPowerState, NotHandled, OtherStep
<1>19. CASE EnterS5
  BY <1>19 DEF EnterS5, BmcAcpiPowerStateS5EntryCallBack, SetBmcAcpiPowerState, NotHandled,
               OtherStep
<1>20. CASE StartBoot \/ PowerLoss
  BY <1>20, PolicyForgotten DEF StartBoot, PowerLoss
<1>21. CASE \E p \in PolicyValues : Administrator(p)
  BY <1>21, AdministratorKeeps
<1> QED
  BY <1>1, <1>2, <1>3, <1>4, <1>5, <1>6, <1>7, <1>8, <1>9, <1>10, <1>11, <1>12, <1>13, <1>14,
     <1>15, <1>16, <1>17, <1>18, <1>19, <1>20, <1>21 DEF Next, Firmware

\* Success of IpmiPowerRestorePolicyEntry means that the BMC has the platform's
\* policy until an administrator changes it, and NoChange keeps the
\* administrator's, for every build, order and history of failures.
THEOREM PolicyCorrect == Spec => []PolicySettled
<1>1. Init => PolicyInv
  BY PolicyInit
<1>2. PolicyInv /\ [Next]_vars => PolicyInv'
  BY PolicyStep
<1>3. PolicyInv => PolicySettled
  BY DEF PolicyInv
<1> QED
  BY <1>1, <1>2, <1>3, PTL DEF Spec
-------------------------------------------------------------------------------
(***************************************************************************)
(* The ACPI power state.                                                   *)
(***************************************************************************)
Reporter == "BmcAcpiPowerState"
Interfaces == {"GenericIpmiDxe", "GenericIpmiSmm", "SxDispatch"}
Complete == {Reporter} \cup Interfaces \subseteq build
Both == {"S5", "ExitBootServices"}

\* In a boot without a failure, whichever of the drivers have run have
\* installed their interface and registered their handlers, in any order, and
\* the boot manager is reached only when all have run.
InstalledInv == \A d \in Interfaces : d \notin pending => d \in installed
HandlersInv == Reporter \notin pending => handlers = Both
AllRunInv == phase \in {"bds", "rtb", "os"} => ({Reporter} \cup Interfaces) \cap pending = {}

PowerInv ==
  Complete /\ clean => InstalledInv /\ HandlersInv /\ AllRunInv

\* A driver's step, or one of the boot manager: what it takes from pending it
\* installs and registers, unless something fails.
DriverStep ==
  /\ build' = build /\ bmcAcpi' = bmcAcpi
  /\ phase' = phase \/ (phase' = "rtb" /\ phase \in {"bds", "rtb"})
  /\ clean' => clean
  /\ pending' \subseteq pending /\ installed \subseteq installed'
  /\ clean' => \A d \in Interfaces : d \in pending => d \in pending' \/ d \in installed'
  /\ \/ handlers' = handlers /\ (Reporter \in pending => Reporter \in pending')
     \/ clean' => handlers' = Both

\* Nothing has run at first.
LEMMA PowerInit == Init => PowerInv /\ PowerStateReported
  BY DEF Init, PowerInv, PowerStateReported, Complete, InstalledInv, HandlersInv, AllRunInv,
         Interfaces, Reporter

\* A driver's step keeps what the drivers that have run have left.
LEMMA DriverStepKeeps ==
  ASSUME PowerInv, PowerStateReported, DriverStep
  PROVE  PowerInv' /\ PowerStateReported'
<1>1. PowerStateReported'
  BY DEF DriverStep, PowerStateReported
<1>2. ASSUME Complete', clean' PROVE InstalledInv' /\ HandlersInv' /\ AllRunInv'
  <2>1. Complete /\ clean
    BY <1>2 DEF DriverStep, Complete
  <2>2. InstalledInv'
    BY <1>2, <2>1 DEF DriverStep, PowerInv, InstalledInv
  <2>3. HandlersInv'
    BY <1>2, <2>1 DEF DriverStep, PowerInv, HandlersInv
  <2>4. AllRunInv'
    BY <2>1 DEF DriverStep, PowerInv, AllRunInv
  <2> QED
    BY <2>2, <2>3, <2>4
<1> QED
  BY <1>1, <1>2 DEF PowerInv

\* The entry points that neither install one of the interfaces nor register.
LEMMA OtherDriver ==
  ASSUME NEW d \in Drivers \ ({Reporter} \cup Interfaces), Enter(d),
         UNCHANGED <<build, bmcAcpi, handlers>>, clean' => clean, installed \subseteq installed'
  PROVE  DriverStep
<1>1. /\ build' = build /\ bmcAcpi' = bmcAcpi /\ handlers' = handlers /\ phase' = phase
      /\ pending' \subseteq pending /\ (Reporter \in pending => Reporter \in pending')
      /\ \A i \in Interfaces : i \in pending => i \in pending'
  BY DEF Enter, Interfaces, Reporter
<1> QED
  BY <1>1, Zenon DEF DriverStep

\* The later steps of an entry point dispatch nothing.
LEMMA OtherGoes ==
  ASSUME NEW d, NEW on \in BOOLEAN, Goes(d, on),
         UNCHANGED <<build, bmcAcpi, handlers>>, clean' => clean
  PROVE  DriverStep
<1>1. /\ build' = build /\ bmcAcpi' = bmcAcpi /\ handlers' = handlers /\ phase' = phase
      /\ pending' = pending /\ installed' = installed
  BY DEF Goes
<1> QED
  BY <1>1, Zenon DEF DriverStep

\* The drivers that install one of the interfaces.
LEMMA InterfaceDriver ==
  ASSUME NEW d \in Interfaces, Enter(d), NEW ok \in BOOLEAN, Installs(d, ok),
         clean' => clean /\ ok, UNCHANGED <<build, bmcAcpi, handlers>>
  PROVE  DriverStep
<1>1. /\ build' = build /\ bmcAcpi' = bmcAcpi /\ handlers' = handlers /\ phase' = phase
      /\ pending' \subseteq pending /\ (Reporter \in pending => Reporter \in pending')
      /\ installed \subseteq installed'
      /\ ok => \A i \in Interfaces : i \in pending => i \in pending' \/ i \in installed'
  BY DEF Enter, Installs, Interfaces, Reporter
<1> QED
  BY <1>1, Zenon DEF DriverStep

\* No command clears the history of failures.
LEMMA CommandClean ==
  ASSUME NEW d, NEW ok \in BOOLEAN, IpmiSubmitCommand(d, ok)
  PROVE  clean' => clean
  BY DEF IpmiSubmitCommand

\* DXE ends when nothing can be dispatched: the interfaces come one after the
\* other, and the reporter with them.
LEMMA NextPhaseKeeps ==
  ASSUME PowerInv, PowerStateReported, NextPhase
  PROVE  PowerInv' /\ PowerStateReported'
<1> USE DEF Interfaces, Reporter
<1>1. PowerStateReported'
  BY DEF NextPhase, PowerStateReported
<1>2. UNCHANGED <<build, clean, pending, installed, handlers>> /\ phase' \in {"dxe", "bds"}
  BY DEF NextPhase, platform
<1>3. ASSUME Complete, clean, phase' = "bds"
      PROVE  ({Reporter} \cup Interfaces) \cap pending = {}
  <2>1. phase = "dxe" /\ Dispatchable = {}
    BY <1>3 DEF NextPhase
  <2>2. \A d \in {Reporter} \cup Interfaces : d \in pending => ~ (Depex[d] \subseteq installed)
    BY <2>1 DEF Dispatchable, PhaseOf, Peims
  <2>3. /\ Depex["GenericIpmiDxe"] = {} /\ Depex["SxDispatch"] = {}
        /\ Depex["GenericIpmiSmm"] = {"GenericIpmiDxe"}
        /\ Depex[Reporter] = {"SxDispatch", "GenericIpmiDxe"}
    BY DEF Depex, Drivers, DxeDrivers, Peims
  <2>4. InstalledInv
    BY <1>3 DEF PowerInv
  <2>5. {"GenericIpmiDxe", "SxDispatch"} \cap pending = {}
    BY <2>2, <2>3
  <2>6. {"GenericIpmiDxe", "SxDispatch"} \subseteq installed
    BY <2>4, <2>5 DEF InstalledInv
  <2> QED
    BY <2>2, <2>3, <2>5, <2>6
<1>4. PowerInv'
  BY <1>2, <1>3 DEF PowerInv, Complete, InstalledInv, HandlersInv, AllRunInv
<1> QED
  BY <1>1, <1>4

\* The reporter's command, when all drivers have run without a failure: the
\* transport is there, whichever driver came first.
LEMMA StateSet ==
  ASSUME PowerInv, Complete, clean, phase \in {"bds", "rtb", "os"}, clean',
         NEW state, SetBmcAcpiPowerState(state)
  PROVE  bmcAcpi' = state
<1>1. "GenericIpmiSmm" \in installed
  BY DEF PowerInv, AllRunInv, InstalledInv, Interfaces
<1>2. Found(Reporter)
  BY <1>1 DEF Found, TransportOf, Reporter, Peims
<1> QED
  BY <1>2 DEF SetBmcAcpiPowerState, IpmiSubmitCommand, Reporter

\* ExitBootServices tells the BMC S0.
LEMMA ExitKeeps ==
  ASSUME PowerInv, PowerStateReported, ExitBootServices
  PROVE  PowerInv' /\ PowerStateReported'
<1>1. /\ UNCHANGED <<build, pending, installed, handlers>>
      /\ clean' => clean
      /\ phase = "rtb" /\ phase' = "os"
  BY CommandClean DEF ExitBootServices, platform, BmcAcpiPowerStateExitBootServicesCallback,
                      SetBmcAcpiPowerState, NotHandled
<1>2. PowerInv'
  BY <1>1 DEF PowerInv, Complete, InstalledInv, HandlersInv, AllRunInv
<1>3. ASSUME Complete, clean' PROVE bmcAcpi' = "S0"
  <2>1. handlers = Both
    BY <1>1, <1>3 DEF PowerInv, AllRunInv, HandlersInv
  <2>2. SetBmcAcpiPowerState("S0")
    BY <2>1 DEF ExitBootServices, BmcAcpiPowerStateExitBootServicesCallback, Both
  <2> QED
    BY <1>1, <1>3, <2>2, StateSet
<1> QED
  BY <1>1, <1>2, <1>3 DEF PowerStateReported, Complete, Reporter, Interfaces

\* An orderly shutdown tells it S5.
LEMMA S5Keeps ==
  ASSUME PowerInv, PowerStateReported, EnterS5
  PROVE  PowerInv' /\ PowerStateReported'
<1>1. /\ UNCHANGED <<build, pending, installed, handlers>>
      /\ clean' => clean
      /\ phase \in {"rtb", "os"} /\ phase' = "s5"
  BY CommandClean DEF EnterS5, platform, BmcAcpiPowerStateS5EntryCallBack,
                      SetBmcAcpiPowerState, NotHandled
<1>2. PowerInv'
  BY <1>1 DEF PowerInv, Complete, InstalledInv, HandlersInv, AllRunInv
<1>3. ASSUME Complete, clean' PROVE bmcAcpi' = "S5"
  <2>1. handlers = Both
    BY <1>1, <1>3 DEF PowerInv, AllRunInv, HandlersInv
  <2>2. SetBmcAcpiPowerState("S5")
    BY <2>1 DEF EnterS5, BmcAcpiPowerStateS5EntryCallBack, Both
  <2> QED
    BY <1>1, <1>3, <2>2, StateSet
<1> QED
  BY <1>1, <1>2, <1>3 DEF PowerStateReported, Complete, Reporter, Interfaces

\* Both handlers are registered, or something failed.
LEMMA RegisterKeeps ==
  ASSUME InitializeBmcAcpiPowerStateSmm
  PROVE  DriverStep
<1>1. /\ build' = build /\ bmcAcpi' = bmcAcpi /\ phase' = phase /\ installed' = installed
      /\ pending' = pending \ {Reporter}
  BY DEF InitializeBmcAcpiPowerStateSmm, Whole, Enter, platform, bmc, Reporter
<1>2. clean' => clean /\ handlers' = Both
  BY DEF InitializeBmcAcpiPowerStateSmm, Service, Both
<1>3. /\ pending' \subseteq pending /\ installed \subseteq installed'
      /\ \A d \in Interfaces : d \in pending => d \in pending'
  BY <1>1 DEF Interfaces, Reporter
<1> QED
  BY <1>1, <1>2, <1>3, Zenon DEF DriverStep

\* Memory is lost: nothing has run, and the phase is the first or none.
LEMMA PowerForgotten ==
  ASSUME ForgetMemory, phase' \in {"off", "pei"}
  PROVE  PowerInv' /\ PowerStateReported'
  BY DEF ForgetMemory, platform, PowerInv, PowerStateReported, Complete, InstalledInv,
         HandlersInv, AllRunInv, Interfaces, Reporter

\* Every step keeps the invariant of the power state.
LEMMA PowerStep ==
  PowerInv /\ PowerStateReported /\ [Next]_vars => PowerInv' /\ PowerStateReported'
<1> SUFFICES ASSUME PowerInv, PowerStateReported, [Next]_vars
             PROVE  PowerInv' /\ PowerStateReported'
  OBVIOUS
<1> USE DriverStepKeeps
<1>1. CASE UNCHANGED vars
  BY <1>1 DEF vars, platform, dispatch, bmc, PowerInv, PowerStateReported, Complete,
              InstalledInv, HandlersInv, AllRunInv
<1>2. CASE PeimIpmiInterfaceInit
  BY <1>2, OtherDriver DEF PeimIpmiInterfaceInit, Whole, Installs, Service, platform, bmc,
                           Drivers, Peims, Interfaces, Reporter
<1>3. CASE DxeGenericIpmiEntry
  BY <1>3, InterfaceDriver DEF DxeGenericIpmiEntry, Whole, Service, platform, bmc, Interfaces
<1>4. CASE InitializeSmmGenericIpmi
  BY <1>4, InterfaceDriver DEF InitializeSmmGenericIpmi, Whole, Service, platform, bmc,
                               Interfaces
<1>5. CASE \E d \in {"AcpiTable", "Smbios", "SxDispatch"} : PlatformDriver(d)
  <2> PICK d \in {"AcpiTable", "Smbios", "SxDispatch"} : PlatformDriver(d)
    BY <1>5
  <2>1. CASE d = "SxDispatch"
    BY <2>1, InterfaceDriver DEF PlatformDriver, Whole, platform, bmc, Interfaces
  <2>2. CASE d # "SxDispatch"
    BY <2>2, OtherDriver DEF PlatformDriver, Whole, Installs, platform, bmc, Drivers,
                             DxeDrivers, Interfaces, Reporter
  <2> QED
    BY <2>1, <2>2
<1>6. CASE PlatformPowerRestorePolicyDefaultEntry \/ PlatformPolicyEntry
  BY <1>6, OtherDriver DEF PlatformPowerRestorePolicyDefaultEntry, PlatformPolicyEntry, Whole,
                           Installs, platform, bmc, Drivers, Peims, Interfaces, Reporter
<1>7. CASE ReadRestorePolicy
  BY <1>7, OtherDriver, CommandClean DEF ReadRestorePolicy, Part, IpmiGetChassisStatus,
                           platform, bmc, Drivers, Peims, Interfaces, Reporter
<1>8. CASE SetRestorePolicy
  <2>1. /\ Goes("IpmiPowerRestorePolicy", FALSE)
        /\ build' = build /\ bmcAcpi' = bmcAcpi /\ handlers' = handlers
    BY <1>8 DEF SetRestorePolicy, IpmiSetPowerRestorePolicy, platform, bmc
  <2>2. clean' => clean
    BY <1>8, CommandClean DEF SetRestorePolicy, Service, IpmiSetPowerRestorePolicy
  <2>3. DriverStep
    BY <2>1, <2>2, OtherGoes, Zenon
  <2> QED
    BY <2>3
<1>9. CASE SolStatusEntryPoint \/ BmcAcpiEntryPoint
  BY <1>9, OtherDriver DEF SolStatusEntryPoint, BmcAcpiEntryPoint, Part, platform, bmc,
                           Drivers, DxeDrivers, Interfaces, Reporter
<1>10. CASE GetSOLStatus
  BY <1>10, OtherGoes, CommandClean DEF GetSOLStatus, IpmiGetSolConfigurationParameters,
                                        platform, bmc
<1>11. CASE SolStatusReturns \/ BmcAcpiReturns
  <2>1. /\ Goes("SolStatus", FALSE) \/ Goes("BmcAcpi", FALSE)
        /\ build' = build /\ bmcAcpi' = bmcAcpi /\ handlers' = handlers
        /\ clean' = clean
    BY <1>11 DEF SolStatusReturns, BmcAcpiReturns, platform, bmc
  <2>2. clean' => clean
    BY <2>1, Zenon
  <2>3. DriverStep
    BY <2>1, <2>2, OtherGoes, Zenon
  <2> QED
    BY <2>3
<1>12. CASE InitializeFru
  BY <1>12, OtherDriver, CommandClean DEF InitializeFru, Whole, IpmiGetDeviceId,
                           IpmiGetFruInventoryAreaInfo, platform, bmc, Drivers, DxeDrivers,
                           Interfaces, Reporter
<1>13. CASE SpmiTableEntryPoint
  BY <1>13, OtherDriver DEF SpmiTableEntryPoint, UpdateAcpiSpmiTables, Whole, Service, platform,
                            bmc, Drivers, DxeDrivers, Interfaces, Reporter
<1>14. CASE InstallSection
  BY <1>14, OtherGoes DEF InstallSection, Service, platform, bmc
<1>15. CASE IpmiSmbiosEntry
  BY <1>15, OtherDriver DEF IpmiSmbiosEntry, Whole, Service, platform, bmc, Drivers,
                            DxeDrivers, Interfaces, Reporter
<1>16. CASE InitializeBmcAcpiPowerStateSmm
  BY <1>16, RegisterKeeps
<1>17. CASE NextPhase
  BY <1>17, NextPhaseKeeps
<1>18. CASE ReadyToBoot
  <2>1. /\ build' = build /\ bmcAcpi' = bmcAcpi /\ handlers' = handlers
        /\ pending' = pending /\ installed' = installed
        /\ phase' = "rtb" /\ phase \in {"bds", "rtb"}
    BY <1>18 DEF ReadyToBoot, platform, bmc
  <2>2. clean' => clean
    BY <1>18, CommandClean DEF ReadyToBoot, IpmiSmbiosCreateOnReadyToBoot,
                               CreateIpmiSmbiosType38, IpmiGetDeviceId
  <2> QED
    BY <2>1, <2>2, Zenon DEF DriverStep
<1>19. CASE ExitBootServices
  BY <1>19, ExitKeeps
<1>20. CASE EnterS5
  BY <1>20, S5Keeps
<1>21. CASE StartBoot \/ PowerLoss
  BY <1>21, PowerForgotten DEF StartBoot, PowerLoss
<1>22. CASE \E p \in PolicyValues : Administrator(p)
  BY <1>22 DEF Administrator, platform, dispatch, PowerInv, PowerStateReported, Complete,
               InstalledInv, HandlersInv, AllRunInv
<1> QED
  BY <1>1, <1>2, <1>3, <1>4, <1>5, <1>6, <1>7, <1>8, <1>9, <1>10, <1>11, <1>12, <1>13, <1>14,
     <1>15, <1>16, <1>17, <1>18, <1>19, <1>20, <1>21, <1>22 DEF Next, Firmware

\* In a boot without a failure the BMC is told the ACPI state, in the operating
\* system and at an orderly shutdown, for every build with the four drivers
\* and every order in which they are dispatched.
THEOREM PowerStateCorrect == Spec => []PowerStateReported
<1>1. Init => PowerInv /\ PowerStateReported
  BY PowerInit
<1>2. (PowerInv /\ PowerStateReported) /\ [Next]_vars => (PowerInv /\ PowerStateReported)'
  BY PowerStep
<1> QED
  BY <1>1, <1>2, PTL DEF Spec
-------------------------------------------------------------------------------
(***************************************************************************)
(* Which step changes what.                                                *)
(***************************************************************************)

\* A driver's library finds its transport.
Locates(d) == located' \in {located, located \cup {d}}

\* A driver that is not in the middle of its entry point begins it, and may
\* install its interface; or the one that is goes on or returns; or neither.
Dispatches ==
  \/ /\ \E d \in Dispatchable :
          /\ pending' = pending \ {d} /\ driver' \in {driver, d}
          /\ installed' \in {installed, installed \cup {d}}
     /\ driver = "none" /\ phase' = phase
  \/ UNCHANGED <<pending, installed>> /\ driver' \in {driver, "none"}

Effects ==
  /\ UNCHANGED platform
  /\ Dispatches
  /\ UNCHANGED phase \/ NextPhase \/ ReadyToBoot \/ ExitBootServices \/ EnterS5
  /\ hob' \in {hob, "none", "alive", "dead"}
  /\ UNCHANGED sol \/ SolStatusEntryPoint \/ GetSOLStatus
  /\ UNCHANGED acpi \/ BmcAcpiEntryPoint \/ InstallSection
  /\ UNCHANGED spmi \/ SpmiTableEntryPoint
  /\ UNCHANGED <<type38, readyToBootEvent>> \/ IpmiSmbiosEntry \/ ReadyToBoot
  /\ UNCHANGED handlers \/ InitializeBmcAcpiPowerStateSmm
  /\ \/ UNCHANGED located
     \/ driver # "none" /\ Locates(driver)
     \/ \E d \in pending : Locates(d)
     \/ readyToBootEvent = "open" /\ Locates("IpmiSmbios")
     \/ handlers # {} /\ Locates("BmcAcpiPowerState")
  /\ bmcAcpi' \in {bmcAcpi, "S0", "S5"}

\* A boot begins, or power is lost.
Forgets ==
  ForgetMemory /\ UNCHANGED <<bmcPolicy, bmcAcpi>> /\ phase' \in {"off", "pei"}

\* An entry point's first or only step takes its driver from those pending.
LEMMA EnterEffect ==
  ASSUME NEW d, Enter(d), driver' \in {driver, d},
         installed' \in {installed, installed \cup {d}}
  PROVE  d \in pending /\ Dispatches /\ UNCHANGED phase
  BY DEF Enter, Dispatchable, Dispatches

\* A later step of it ends the entry point or does not.
LEMMA GoesEffect ==
  ASSUME NEW d, NEW on \in BOOLEAN, Goes(d, on)
  PROVE  Dispatches /\ UNCHANGED phase
  BY DEF Goes, Dispatches

\* A command only ever adds the driver that sends it.
LEMMA CommandLocates ==
  ASSUME NEW d, NEW ok \in BOOLEAN, IpmiSubmitCommand(d, ok)
  PROVE  Locates(d)
  BY DEF IpmiSubmitCommand, LocatePpi, LocateProtocol, Locates

\* Every step loses the firmware's memory or has one of the effects above.
LEMMA StepEffects == [Next]_vars => Effects \/ Forgets
<1> SUFFICES ASSUME [Next]_vars PROVE Effects \/ Forgets
  OBVIOUS
<1> USE DEF tables, bmc, acpi, sol
<1>1. CASE UNCHANGED vars
  BY <1>1 DEF vars, dispatch, Effects, Dispatches
<1>2. CASE PeimIpmiInterfaceInit
  <2>1. Dispatches /\ UNCHANGED phase
    BY <1>2, EnterEffect DEF PeimIpmiInterfaceInit, Whole, Installs
  <2> QED
    BY <1>2, <2>1 DEF PeimIpmiInterfaceInit, Effects
<1>3. CASE DxeGenericIpmiEntry
  <2>1. Dispatches /\ UNCHANGED phase
    BY <1>3, EnterEffect DEF DxeGenericIpmiEntry, Whole, Installs
  <2> QED
    BY <1>3, <2>1 DEF DxeGenericIpmiEntry, Effects
<1>4. CASE InitializeSmmGenericIpmi
  <2>1. Dispatches /\ UNCHANGED phase
    BY <1>4, EnterEffect DEF InitializeSmmGenericIpmi, Whole, Installs
  <2> QED
    BY <1>4, <2>1 DEF InitializeSmmGenericIpmi, Effects
<1>5. CASE \E d \in {"AcpiTable", "Smbios", "SxDispatch"} : PlatformDriver(d)
  <2>1. Dispatches /\ UNCHANGED phase
    BY <1>5, EnterEffect DEF PlatformDriver, Whole, Installs
  <2> QED
    BY <1>5, <2>1 DEF PlatformDriver, Effects
<1>6. CASE PlatformPowerRestorePolicyDefaultEntry \/ PlatformPolicyEntry
  <2>1. Dispatches /\ UNCHANGED phase
    BY <1>6, EnterEffect DEF PlatformPowerRestorePolicyDefaultEntry, PlatformPolicyEntry,
                             Whole, Installs
  <2> QED
    BY <1>6, <2>1 DEF PlatformPowerRestorePolicyDefaultEntry, PlatformPolicyEntry, Effects
<1>7. CASE ReadRestorePolicy
  <2>1. Dispatches /\ UNCHANGED phase
    BY <1>7, EnterEffect DEF ReadRestorePolicy, Part
  <2>2. \E d \in pending : Locates(d)
    BY <1>7, EnterEffect, CommandLocates DEF ReadRestorePolicy, Part, IpmiGetChassisStatus
  <2>3. UNCHANGED hob
    BY <1>7 DEF ReadRestorePolicy, Part
  <2> QED
    BY <1>7, <2>1, <2>2, <2>3 DEF ReadRestorePolicy, Effects
<1>8. CASE SetRestorePolicy
  <2>1. Dispatches /\ UNCHANGED phase /\ driver = Restorer /\ UNCHANGED hob
    BY <1>8, GoesEffect DEF SetRestorePolicy, Goes, Restorer
  <2>2. UNCHANGED located \/ Locates(Restorer)
    BY <1>8, CommandLocates DEF SetRestorePolicy, IpmiSetPowerRestorePolicy, Restorer
  <2>3. UNCHANGED bmcAcpi
    BY <1>8 DEF SetRestorePolicy, IpmiSetPowerRestorePolicy
  <2> QED
    BY <1>8, <2>1, <2>2, <2>3 DEF SetRestorePolicy, Effects, Restorer
<1>9. CASE SolStatusEntryPoint
  <2>1. Dispatches /\ UNCHANGED phase /\ UNCHANGED hob
    BY <1>9, EnterEffect DEF SolStatusEntryPoint, Part
  <2>2. UNCHANGED <<platform, located, acpi, tables, handlers, bmc>>
    BY <1>9 DEF SolStatusEntryPoint
  <2> QED
    BY <1>9, <2>1, <2>2 DEF Effects
<1>10. CASE GetSOLStatus
  <2>1. Dispatches /\ UNCHANGED phase /\ driver = "SolStatus" /\ UNCHANGED hob
    BY <1>10, GoesEffect DEF GetSOLStatus, Goes
  <2>2. Locates("SolStatus")
    BY <1>10, CommandLocates DEF GetSOLStatus, IpmiGetSolConfigurationParameters
  <2>3. UNCHANGED <<platform, acpi, tables, handlers, bmc>>
    BY <1>10 DEF GetSOLStatus
  <2> QED
    BY <1>10, <2>1, <2>2, <2>3 DEF Effects
<1>11. CASE SolStatusReturns \/ BmcAcpiReturns
  <2>1. Dispatches /\ UNCHANGED phase /\ UNCHANGED hob
    BY <1>11, GoesEffect DEF SolStatusReturns, BmcAcpiReturns, Goes
  <2> QED
    BY <1>11, <2>1 DEF SolStatusReturns, BmcAcpiReturns, Effects
<1>12. CASE InitializeFru
  <2>1. Dispatches /\ UNCHANGED phase
    BY <1>12, EnterEffect DEF InitializeFru, Whole
  <2>2. \E d \in pending : Locates(d)
    BY <1>12, EnterEffect, CommandLocates DEF InitializeFru, Whole, IpmiGetDeviceId,
                                              IpmiGetFruInventoryAreaInfo
  <2> QED
    BY <1>12, <2>1, <2>2 DEF InitializeFru, Effects
<1>13. CASE SpmiTableEntryPoint
  <2>1. Dispatches /\ UNCHANGED phase
    BY <1>13, EnterEffect DEF SpmiTableEntryPoint, Whole
  <2>2. UNCHANGED <<platform, located, hob, sol, acpi, type38, readyToBootEvent, handlers, bmc>>
    BY <1>13 DEF SpmiTableEntryPoint, UpdateAcpiSpmiTables
  <2> QED
    BY <1>13, <2>1, <2>2 DEF Effects
<1>14. CASE BmcAcpiEntryPoint
  <2>1. Dispatches /\ UNCHANGED phase /\ UNCHANGED hob
    BY <1>14, EnterEffect DEF BmcAcpiEntryPoint, Part
  <2>2. UNCHANGED <<platform, located, sol, tables, handlers, bmc>>
    BY <1>14 DEF BmcAcpiEntryPoint
  <2> QED
    BY <1>14, <2>1, <2>2 DEF Effects
<1>15. CASE InstallSection
  <2>1. Dispatches /\ UNCHANGED phase /\ UNCHANGED hob
    BY <1>15, GoesEffect DEF InstallSection, Goes
  <2>2. UNCHANGED <<platform, located, sol, tables, handlers, bmc>>
    BY <1>15 DEF InstallSection
  <2> QED
    BY <1>15, <2>1, <2>2 DEF Effects
<1>16. CASE IpmiSmbiosEntry
  <2>1. Dispatches /\ UNCHANGED phase
    BY <1>16, EnterEffect DEF IpmiSmbiosEntry, Whole
  <2>2. UNCHANGED <<platform, located, hob, sol, acpi, spmi, handlers, bmc>>
    BY <1>16 DEF IpmiSmbiosEntry
  <2> QED
    BY <1>16, <2>1, <2>2 DEF Effects
<1>17. CASE InitializeBmcAcpiPowerStateSmm
  <2>1. Dispatches /\ UNCHANGED phase
    BY <1>17, EnterEffect DEF InitializeBmcAcpiPowerStateSmm, Whole
  <2>2. UNCHANGED <<platform, located, hob, sol, acpi, tables, bmc>>
    BY <1>17 DEF InitializeBmcAcpiPowerStateSmm
  <2> QED
    BY <1>17, <2>1, <2>2 DEF Effects
<1>18. CASE NextPhase
  BY <1>18 DEF NextPhase, Effects, Dispatches
<1>19. CASE ReadyToBoot
  <2>1. Dispatches
    BY <1>19 DEF ReadyToBoot, Dispatches
  <2>2. UNCHANGED located \/ (readyToBootEvent = "open" /\ Locates("IpmiSmbios"))
    BY <1>19, CommandLocates DEF ReadyToBoot, IpmiSmbiosCreateOnReadyToBoot,
                                 CreateIpmiSmbiosType38, IpmiGetDeviceId
  <2>3. UNCHANGED <<platform, hob, sol, acpi, spmi, handlers, bmc>>
    BY <1>19 DEF ReadyToBoot
  <2> QED
    BY <1>19, <2>1, <2>2, <2>3 DEF Effects
<1>20. CASE ExitBootServices \/ EnterS5
  <2>1. Dispatches
    BY <1>20 DEF ExitBootServices, EnterS5, Dispatches
  <2>2. UNCHANGED located \/ (handlers # {} /\ Locates("BmcAcpiPowerState"))
    BY <1>20, CommandLocates
       DEF ExitBootServices, EnterS5, BmcAcpiPowerStateExitBootServicesCallback,
           BmcAcpiPowerStateS5EntryCallBack, SetBmcAcpiPowerState, NotHandled
  <2>3. bmcAcpi' \in {bmcAcpi, "S0", "S5"}
    BY <1>20
       DEF ExitBootServices, EnterS5, BmcAcpiPowerStateExitBootServicesCallback,
           BmcAcpiPowerStateS5EntryCallBack, SetBmcAcpiPowerState, NotHandled
  <2>4. UNCHANGED <<platform, hob, sol, acpi, tables, handlers>>
    BY <1>20 DEF ExitBootServices, EnterS5
  <2> QED
    BY <1>20, <2>1, <2>2, <2>3, <2>4 DEF Effects
<1>21. CASE StartBoot \/ PowerLoss
  BY <1>21 DEF StartBoot, PowerLoss, Forgets
<1>22. CASE \E p \in PolicyValues : Administrator(p)
  BY <1>22 DEF Administrator, dispatch, Effects, Dispatches
<1> QED
  BY <1>1, <1>2, <1>3, <1>4, <1>5, <1>6, <1>7, <1>8, <1>9, <1>10, <1>11, <1>12, <1>13, <1>14,
     <1>15, <1>16, <1>17, <1>18, <1>19, <1>20, <1>21, <1>22 DEF Next, Firmware
-------------------------------------------------------------------------------
(***************************************************************************)
(* Types.                                                                  *)
(***************************************************************************)
\* PlatformAssumption, in the form the proofs use it.
LEMMA Constants ==
  /\ MaxSolChannels \in Nat /\ MaxSolChannels <= 254 /\ SolRetries \in Nat /\ SolRetries >= 1
  /\ \A v \in Versions : v \in Nat /\ v <= 255
  /\ \A fv \in FvLayouts : fv \in Seq(Nat)
  BY PlatformAssumption

\* A nonempty set of naturals has a least element, and Min finds it.
LEMMA LeastElement ==
  ASSUME NEW S \in SUBSET Nat, S # {}
  PROVE  Min(S) \in S /\ \A y \in S : Min(S) <= y
<1> DEFINE R == OpToRel(<, Nat)
<1>1. IsWellFoundedOn(R, Nat)
  BY NatLessThanWellFounded
<1>2. \A i, j \in Nat : i < j => <<i, j>> \in R
  BY DEF OpToRel
<1> HIDE DEF R
<1>3. \E x \in S : \A y \in S : ~ (<<y, x>> \in R)
  BY <1>1, WFMin
<1>4. PICK x \in S : \A y \in S : ~ (<<y, x>> \in R)
  BY <1>3
<1>5. \A y \in S : ~ (y < x)
  BY <1>2, <1>4
<1>6. \A y \in S : x <= y
  BY <1>5
<1> QED
  BY <1>6 DEF Min

\* LocateSupportProtocol finds the first volume with a storage file, or none.
LEMMA FirstVolume ==
  ASSUME volumes \in Seq(Nat)
  PROVE  /\ LocateSupportProtocol \in 0..Len(volumes)
         /\ LocateSupportProtocol = 0 => StoredTables(0)
         /\ LocateSupportProtocol # 0 => StoredTables(volumes[LocateSupportProtocol])
<1> DEFINE found == {i \in DOMAIN volumes : volumes[i] > 0}
<1>1. DOMAIN volumes = 1..Len(volumes) /\ Len(volumes) \in Nat
      /\ \A i \in 1..Len(volumes) : volumes[i] \in Nat
  BY LenProperties, ElementOfSeq
<1>2. CASE found = {}
  <2>1. LocateSupportProtocol = 0
    BY <1>2 DEF LocateSupportProtocol
  <2> QED
    BY <1>1, <1>2, <2>1 DEF StoredTables
<1>3. CASE found # {}
  <2>1. LocateSupportProtocol = Min(found)
    BY <1>3 DEF LocateSupportProtocol
  <2>2. found \in SUBSET Nat
    BY <1>1
  <2>3. Min(found) \in found /\ \A y \in found : Min(found) <= y
    BY <1>3, <2>2, LeastElement
  <2> DEFINE m == Min(found)
  <2>4. m \in 1..Len(volumes) /\ volumes[m] > 0 /\ \A y \in found : m <= y
    BY <1>1, <2>3
  <2> HIDE DEF m
  <2>5. \A j \in 1..(m - 1) : volumes[j] = 0
    BY <1>1, <2>4
  <2>6. StoredTables(volumes[m])
    BY <1>1, <2>4, <2>5 DEF StoredTables
  <2> QED
    BY <1>1, <2>1, <2>4, <2>6 DEF m
<1> QED
  BY <1>2, <1>3

DispatchType ==
  /\ phase \in {"off", "s5", "pei", "dxe", "bds", "rtb", "os"}
  /\ pending \subseteq build /\ driver \in build \cup {"none"}
  /\ installed \subseteq build \ pending
  /\ hob \in {"none", "alive", "dead"}
PlatformType == build \in Builds /\ version \in Versions /\ volumes \in FvLayouts
PolicyType ==
  /\ policy \in Policies /\ CurrentPowerRestorePolicy \in PolicyValues \cup {Unknown}
  /\ bmcPolicy \in PolicyValues /\ chosen \in PolicyValues
  /\ configured \in {"none", "success", "error"} /\ changed \in BOOLEAN
SolType == Channel \in 0..(MaxSolChannels + 1) /\ RetryCount \in 0..(SolRetries - 1)
AcpiType == FwVol \in 0..Len(volumes) /\ Instance \in Nat /\ ssdt \in 0..Instance
TableType ==
  /\ spmi \in 0..4095 /\ type38 \in Seq(0..255)
  /\ readyToBootEvent \in {"none", "open", "closed"}
BmcType == bmcAcpi \in {"unknown", "S0", "S5"}
HandlersType == handlers \subseteq {"S5", "ExitBootServices"}
CleanType == clean \in BOOLEAN

\* The type invariant by the parts of the state.
LEMMA TypeParts ==
  TypeOK <=> /\ PlatformType /\ DispatchType /\ PolicyType /\ SolType /\ AcpiType /\ TableType
             /\ BmcType /\ HandlersType /\ located \subseteq build /\ CleanType
  BY DEF TypeOK, PlatformType, DispatchType, PolicyType, SolType, AcpiType, TableType, BmcType,
         HandlersType, CleanType

\* The same in the next state.
LEMMA TypePartsNext ==
  ASSUME PlatformType', DispatchType', PolicyType', SolType', AcpiType', TableType', BmcType',
         HandlersType', located' \subseteq build', CleanType'
  PROVE  TypeOK'
  BY DEF TypeOK, PlatformType, DispatchType, PolicyType, SolType, AcpiType, TableType, BmcType,
         HandlersType, CleanType

\* A driver that has an event, a handler or tables to its name is one of the
\* build and has begun its entry point: it is dispatched once per boot.
OnceInv ==
  /\ readyToBootEvent # "none" => "IpmiSmbios" \in build \ pending
  /\ handlers # {} => "BmcAcpiPowerState" \in build \ pending
  /\ "BmcAcpi" \in pending => ssdt = 0 /\ driver # "BmcAcpi"

TypeInv == TypeOK /\ OnceInv

\* The first boot starts in it.
LEMMA TypeInit == Init => TypeInv
<1> SUFFICES ASSUME Init PROVE TypeInv
  OBVIOUS
<1>1. PlatformType /\ DispatchType /\ PolicyType /\ HandlersType /\ CleanType /\ BmcType
      /\ located \subseteq build
  BY DEF Init, PlatformType, DispatchType, PolicyType, HandlersType, CleanType, BmcType, Policies
<1>2. volumes \in Seq(Nat)
  BY Constants DEF Init
<1>3. SolType /\ AcpiType /\ TableType
  BY <1>2, Constants, EmptySeq DEF Init, SolType, AcpiType, TableType
<1>4. OnceInv
  BY DEF Init, OnceInv
<1> QED
  BY <1>1, <1>3, <1>4, TypeParts DEF TypeInv

\* Memory is lost: everything starts over.
LEMMA TypeForgotten ==
  ASSUME TypeInv, Forgets, clean' \in BOOLEAN
  PROVE  TypeInv'
<1> USE DEF platform, ForgetMemory, Forgets
<1>1. /\ PlatformType /\ DispatchType /\ PolicyType /\ BmcType
  BY TypeParts DEF TypeInv
<1>2. (PlatformType /\ DispatchType /\ PolicyType /\ HandlersType /\ CleanType /\ BmcType
      /\ located \subseteq build)'
  BY <1>1 DEF PlatformType, DispatchType, PolicyType, HandlersType, CleanType, BmcType, Policies
<1>3. volumes' \in Seq(Nat)
  BY <1>1, Constants DEF PlatformType
<1>4. (SolType /\ AcpiType /\ TableType)'
  BY <1>3, Constants, EmptySeq DEF SolType, AcpiType, TableType
<1>5. OnceInv'
  BY DEF OnceInv
<1> QED
  BY <1>2, <1>4, <1>5, TypePartsNext DEF TypeInv

\* The dispatcher's state, and the drivers that have found their transport.
LEMMA DispatchTypeStep ==
  ASSUME TypeInv, Effects
  PROVE  PlatformType' /\ DispatchType' /\ located' \subseteq build' /\ BmcType'
<1>1. PlatformType /\ DispatchType /\ located \subseteq build /\ BmcType /\ OnceInv
  BY TypeParts DEF TypeInv
<1>2. UNCHANGED <<build, version, volumes>> /\ Dispatches
      /\ hob' \in {hob, "none", "alive", "dead"} /\ bmcAcpi' \in {bmcAcpi, "S0", "S5"}
  BY DEF Effects, platform
<1>3. PlatformType' /\ BmcType'
  BY <1>1, <1>2 DEF PlatformType, BmcType
<1>4. DispatchType'
  <2>1. phase' \in {phase, "dxe", "bds", "rtb", "os", "s5"}
    BY DEF Effects, NextPhase, ReadyToBoot, ExitBootServices, EnterS5
  <2> QED
    BY <1>1, <1>2, <2>1 DEF DispatchType, Dispatches, Dispatchable
<1>5. located' \subseteq build
  <2>1. \/ UNCHANGED located
        \/ \E d \in build : Locates(d)
    BY <1>1 DEF Effects, DispatchType, OnceInv
  <2> QED
    BY <1>1, <2>1 DEF Locates
<1> QED
  BY <1>2, <1>3, <1>4, <1>5

\* The SOL driver's counters: Channel stays below 256, so that it does not
\* wrap, and the last attempt is followed by the next channel.
LEMMA SolTypeStep ==
  ASSUME TypeInv, Effects
  PROVE  SolType'
<1>1. SolType
  BY TypeParts DEF TypeInv
<1>2. CASE UNCHANGED sol
  BY <1>1, <1>2 DEF sol, SolType
<1>3. CASE SolStatusEntryPoint
  BY <1>3, Constants DEF SolStatusEntryPoint, SolType
<1>4. CASE GetSOLStatus
  <2>1. Channel <= MaxSolChannels
        /\ \/ Retry(RetryCount) /\ RetryCount' = RetryCount + 1 /\ Channel' = Channel
           \/ RetryCount' = 0 /\ Channel' = NextChannel(Channel)
    BY <1>4 DEF GetSOLStatus
  <2>2. NextChannel(Channel) = Channel + 1
    BY <1>1, <2>1, Constants DEF SolType, NextChannel
  <2> QED
    BY <1>1, <2>1, <2>2, Constants DEF SolType, Retry
<1> QED
  BY <1>2, <1>3, <1>4 DEF Effects

\* BmcAcpi's loop: an instance is a table of the file, and not every instance
\* is accepted.
LEMMA AcpiTypeStep ==
  ASSUME TypeInv, Effects
  PROVE  AcpiType'
<1>1. AcpiType /\ volumes \in Seq(Nat) /\ volumes' = volumes /\ OnceInv
  BY TypeParts, Constants DEF TypeInv, PlatformType, Effects, platform
<1>2. CASE UNCHANGED acpi
  BY <1>1, <1>2 DEF acpi, AcpiType
<1>3. CASE BmcAcpiEntryPoint
  <2>1. FwVol' = LocateSupportProtocol /\ Instance' = 0 /\ ssdt' = ssdt /\ "BmcAcpi" \in pending
    BY <1>3 DEF BmcAcpiEntryPoint, Part, Enter, Dispatchable
  <2>2. ssdt = 0
    BY <1>1, <2>1 DEF OnceInv
  <2> QED
    BY <1>1, <2>1, <2>2, FirstVolume DEF AcpiType
<1>4. CASE InstallSection
  BY <1>1, <1>4 DEF InstallSection, AcpiType
<1> QED
  BY <1>2, <1>3, <1>4 DEF Effects

\* The revisions fit their fields: 16 bits in the SPMI table, 8 in type 38.
LEMMA RevisionRange ==
  ASSUME NEW v \in Nat, v <= 255
  PROVE  SpmiRevision(v) \in 0..4095 /\ Type38Revision(v) \in 0..255
         /\ SpmiRevision(v) = 16 * Type38Revision(v)
<1>1. v \div 16 \in 0..15 /\ v % 16 \in 0..15
  OBVIOUS
<1> DEFINE h == v \div 16
           l == v % 16
<1>2. SpmiRevision(v) = h * 16 + l * 256 /\ Type38Revision(v) = h + l * 16
  BY DEF SpmiRevision, Type38Revision
<1>3. h \in 0..15 /\ l \in 0..15
  BY <1>1
<1> HIDE DEF h, l
<1> QED
  BY <1>2, <1>3

\* The tables' revisions and IpmiSmbios' event.
LEMMA TableTypeStep ==
  ASSUME TypeInv, Effects
  PROVE  TableType'
<1>1. /\ spmi \in 0..4095 /\ type38 \in Seq(0..255) /\ version \in Versions
      /\ readyToBootEvent \in {"none", "open", "closed"}
  BY TypeParts DEF TypeInv, PlatformType, TableType
<1>2. SpmiRevision(version) \in 0..4095 /\ Type38Revision(version) \in 0..255
  <2>1. version \in Nat /\ version <= 255
    BY <1>1, Constants
  <2> QED
    BY <2>1, RevisionRange, SMTT(30)
<1>3. spmi' \in 0..4095
  <2>1. spmi' = spmi \/ spmi' = SpmiRevision(version)
    BY DEF Effects, SpmiTableEntryPoint
  <2>2. CASE spmi' = spmi
    BY <1>1, <2>2
  <2>3. CASE spmi' = SpmiRevision(version)
    BY <1>2, <2>3
  <2> QED
    BY <2>1, <2>2, <2>3
<1>4. type38' \in Seq(0..255) /\ readyToBootEvent' \in {"none", "open", "closed"}
  <2>1. \/ UNCHANGED <<type38, readyToBootEvent>>
        \/ type38' = type38 /\ readyToBootEvent' \in {"open", "none"}
        \/ /\ type38' \in {type38, Append(type38, Type38Revision(version))}
           /\ readyToBootEvent' \in {readyToBootEvent, "closed"}
    BY DEF Effects, IpmiSmbiosEntry, ReadyToBoot, IpmiSmbiosCreateOnReadyToBoot,
           CreateIpmiSmbiosType38
  <2>2. Append(type38, Type38Revision(version)) \in Seq(0..255)
    BY <1>1, <1>2, AppendProperties
  <2>3. type38' = type38 \/ type38' = Append(type38, Type38Revision(version))
    BY <2>1
  <2>4. type38' \in Seq(0..255)
    <3>1. CASE type38' = type38
      BY <1>1, <3>1
    <3>2. CASE type38' = Append(type38, Type38Revision(version))
      BY <2>2, <3>2
    <3> QED
      BY <2>3, <3>1, <3>2
  <2> QED
    BY <1>1, <2>1, <2>4
<1> QED
  BY <1>3, <1>4 DEF TableType

\* BmcAcpiPowerState registers no other handler.
LEMMA HandlersTypeStep ==
  ASSUME TypeInv, Effects
  PROVE  HandlersType'
  BY TypeParts DEF TypeInv, Effects, HandlersType, InitializeBmcAcpiPowerStateSmm

\* A driver is not dispatched twice in a boot.
LEMMA OnceStep ==
  ASSUME TypeInv, Effects
  PROVE  OnceInv'
<1>1. /\ OnceInv /\ DispatchType /\ build' = build /\ pending' \subseteq pending
      /\ driver' = "none" \/ driver' = driver \/ driver' \notin pending'
  BY TypeParts DEF TypeInv, Effects, Dispatches, Dispatchable, platform, DispatchType
<1>2. readyToBootEvent' # "none" => "IpmiSmbios" \in build' \ pending'
  <2>1. CASE UNCHANGED <<type38, readyToBootEvent>>
    BY <1>1, <2>1 DEF OnceInv
  <2>2. CASE IpmiSmbiosEntry
    BY <1>1, <2>2 DEF IpmiSmbiosEntry, Whole, Enter, Dispatchable, DispatchType
  <2>3. CASE ReadyToBoot
    BY <1>1, <2>3 DEF ReadyToBoot, OnceInv
  <2> QED
    BY <2>1, <2>2, <2>3 DEF Effects
<1>3. handlers' # {} => "BmcAcpiPowerState" \in build' \ pending'
  <2>1. CASE UNCHANGED handlers
    BY <1>1, <2>1 DEF OnceInv
  <2>2. CASE InitializeBmcAcpiPowerStateSmm
    BY <1>1, <2>2 DEF InitializeBmcAcpiPowerStateSmm, Whole, Enter, Dispatchable, DispatchType
  <2> QED
    BY <2>1, <2>2 DEF Effects
<1>4. "BmcAcpi" \in pending' => ssdt' = 0 /\ driver' # "BmcAcpi"
  <2>1. CASE UNCHANGED acpi
    BY <1>1, <2>1 DEF OnceInv, acpi
  <2>2. CASE BmcAcpiEntryPoint
    BY <2>2 DEF BmcAcpiEntryPoint, Part, Enter
  <2>3. CASE InstallSection
    BY <1>1, <2>3 DEF InstallSection, Goes, OnceInv
  <2> QED
    BY <2>1, <2>2, <2>3 DEF Effects
<1> QED
  BY <1>2, <1>3, <1>4 DEF OnceInv

\* What a step does to the history of failures: it stays as it is, or records
\* that a service or a command failed, or is cleared for a new boot.
LEMMA CleanStep ==
  ASSUME [Next]_vars
  PROVE  \/ UNCHANGED clean
         \/ \E ok \in BOOLEAN : Service(ok)
         \/ \E d \in Drivers, ok \in BOOLEAN : IpmiSubmitCommand(d, ok)
         \/ StartBoot
<1> USE DEF Drivers
<1>1. CASE PeimIpmiInterfaceInit \/ DxeGenericIpmiEntry \/ InitializeSmmGenericIpmi
  BY <1>1 DEF PeimIpmiInterfaceInit, DxeGenericIpmiEntry, InitializeSmmGenericIpmi
<1>2. CASE \/ \E d \in {"AcpiTable", "Smbios", "SxDispatch"} : PlatformDriver(d)
           \/ PlatformPowerRestorePolicyDefaultEntry \/ PlatformPolicyEntry
  BY <1>2 DEF PlatformDriver, PlatformPowerRestorePolicyDefaultEntry, PlatformPolicyEntry
<1>3. CASE ReadRestorePolicy
  BY <1>3 DEF ReadRestorePolicy, IpmiGetChassisStatus, Peims
<1>4. CASE SetRestorePolicy
  BY <1>4 DEF SetRestorePolicy, IpmiSetPowerRestorePolicy, Peims
<1>5. CASE SolStatusEntryPoint \/ SolStatusReturns \/ BmcAcpiEntryPoint \/ BmcAcpiReturns
  BY <1>5 DEF SolStatusEntryPoint, SolStatusReturns, BmcAcpiEntryPoint, BmcAcpiReturns
<1>6. CASE GetSOLStatus \/ InitializeFru
  BY <1>6 DEF GetSOLStatus, IpmiGetSolConfigurationParameters, InitializeFru,
              IpmiGetDeviceId, IpmiGetFruInventoryAreaInfo, DxeDrivers
<1>7. CASE SpmiTableEntryPoint \/ InstallSection \/ IpmiSmbiosEntry
  BY <1>7 DEF SpmiTableEntryPoint, UpdateAcpiSpmiTables, InstallSection, IpmiSmbiosEntry
<1>8. CASE InitializeBmcAcpiPowerStateSmm
  <2>1. Service(handlers' = {"S5", "ExitBootServices"})
    BY <1>8 DEF InitializeBmcAcpiPowerStateSmm
  <2>2. (handlers' = {"S5", "ExitBootServices"}) \in BOOLEAN
    OBVIOUS
  <2> QED
    BY <2>1, <2>2
<1>9. CASE ReadyToBoot
  BY <1>9 DEF ReadyToBoot, IpmiSmbiosCreateOnReadyToBoot, CreateIpmiSmbiosType38,
              IpmiGetDeviceId, DxeDrivers
<1>10. CASE ExitBootServices \/ EnterS5
  BY <1>10
     DEF ExitBootServices, EnterS5, BmcAcpiPowerStateExitBootServicesCallback,
         BmcAcpiPowerStateS5EntryCallBack, SetBmcAcpiPowerState, NotHandled, DxeDrivers
<1>11. CASE NextPhase \/ PowerLoss \/ \E p \in PolicyValues : Administrator(p)
  BY <1>11 DEF NextPhase, PowerLoss, Administrator
<1>12. CASE UNCHANGED vars
  BY <1>12 DEF vars
<1> QED
  BY <1>1, <1>2, <1>3, <1>4, <1>5, <1>6, <1>7, <1>8, <1>9, <1>10, <1>11, <1>12
     DEF Next, Firmware

\* It stays a Boolean, and a failure is not forgotten within a boot.
LEMMA CleanTypeStep ==
  ASSUME TypeInv, [Next]_vars
  PROVE  CleanType' /\ (clean' => clean \/ StartBoot)
<1> USE DEF CleanType
<1>1. clean \in BOOLEAN
  BY TypeParts DEF TypeInv
<1>2. CASE UNCHANGED clean
  BY <1>1, <1>2
<1>3. CASE \E ok \in BOOLEAN : Service(ok)
  BY <1>3 DEF Service
<1>4. CASE \E d \in Drivers, ok \in BOOLEAN : IpmiSubmitCommand(d, ok)
  BY <1>4 DEF IpmiSubmitCommand
<1>5. CASE StartBoot
  BY <1>5 DEF StartBoot
<1> QED
  BY <1>2, <1>3, <1>4, <1>5, CleanStep

\* The power restore policy's variables change in five steps only.
LEMMA PolicyTypeStep ==
  ASSUME TypeInv, [Next]_vars
  PROVE  PolicyType'
<1> USE DEF restore, bmc
<1>1. PolicyType
  BY TypeParts DEF TypeInv
<1>2. CASE UNCHANGED policyVars
  BY <1>1, <1>2 DEF policyVars, PolicyType
<1>3. CASE StartBoot \/ PowerLoss
  BY <1>1, <1>3 DEF StartBoot, PowerLoss, ForgetMemory, PolicyType, Policies
<1>4. CASE PlatformPowerRestorePolicyDefaultEntry \/ PlatformPolicyEntry
  BY <1>1, <1>4 DEF PlatformPowerRestorePolicyDefaultEntry, PlatformPolicyEntry, PolicyType,
                    Policies
<1>5. CASE ReadRestorePolicy
  BY <1>1, <1>5 DEF ReadRestorePolicy, PolicyType
<1>6. CASE SetRestorePolicy
  <2>1. /\ UNCHANGED <<policy, CurrentPowerRestorePolicy, changed, chosen>>
        /\ configured' \in {"success", "error"}
        /\ bmcPolicy' = bmcPolicy \/ (bmcPolicy' = policy /\ policy # NoChange)
    BY <1>6 DEF SetRestorePolicy, IpmiSetPowerRestorePolicy, Consistent
  <2> QED
    BY <1>1, <2>1 DEF PolicyType, Policies
<1>7. CASE \E p \in PolicyValues : Administrator(p)
  BY <1>1, <1>7 DEF Administrator, PolicyType
<1>8. CASE ExitBootServices \/ EnterS5
  BY <1>2, <1>8
     DEF ExitBootServices, EnterS5, BmcAcpiPowerStateExitBootServicesCallback, policyVars,
         BmcAcpiPowerStateS5EntryCallBack, SetBmcAcpiPowerState, NotHandled
<1>9. CASE \/ PeimIpmiInterfaceInit \/ DxeGenericIpmiEntry \/ InitializeSmmGenericIpmi
           \/ \E d \in {"AcpiTable", "Smbios", "SxDispatch"} : PlatformDriver(d)
           \/ SolStatusEntryPoint \/ GetSOLStatus \/ SolStatusReturns \/ InitializeFru
  BY <1>2, <1>9
     DEF PeimIpmiInterfaceInit, DxeGenericIpmiEntry, InitializeSmmGenericIpmi, PlatformDriver,
         SolStatusEntryPoint, GetSOLStatus, SolStatusReturns, InitializeFru, policyVars
<1>10. CASE \/ SpmiTableEntryPoint \/ BmcAcpiEntryPoint \/ InstallSection \/ BmcAcpiReturns
            \/ IpmiSmbiosEntry \/ InitializeBmcAcpiPowerStateSmm \/ NextPhase \/ ReadyToBoot
  BY <1>2, <1>10
     DEF SpmiTableEntryPoint, BmcAcpiEntryPoint, InstallSection, BmcAcpiReturns,
         IpmiSmbiosEntry, InitializeBmcAcpiPowerStateSmm, NextPhase, ReadyToBoot, policyVars
<1>11. CASE UNCHANGED vars
  BY <1>2, <1>11 DEF vars, policyVars
<1> QED
  BY <1>3, <1>4, <1>5, <1>6, <1>7, <1>8, <1>9, <1>10, <1>11 DEF Next, Firmware

\* All of it together.
LEMMA TypeStep == TypeInv /\ [Next]_vars => TypeInv'
<1> SUFFICES ASSUME TypeInv, [Next]_vars PROVE TypeInv'
  OBVIOUS
<1>1. CleanType'
  BY CleanTypeStep
<1>2. CASE Effects
  BY <1>1, <1>2, DispatchTypeStep, SolTypeStep, AcpiTypeStep, TableTypeStep, HandlersTypeStep,
     OnceStep, PolicyTypeStep, TypePartsNext DEF TypeInv
<1>3. CASE ~ Effects
  BY <1>1, <1>3, StepEffects, TypeForgotten DEF CleanType, Forgets
<1> QED
  BY <1>2, <1>3

\* The state of every boot stays within its types: no counter of SolStatus or
\* BmcAcpi leaves its range, the two revisions fit their fields, no driver is
\* dispatched that the build does not have, and only a driver of the build is
\* ever recorded as having located its transport.
THEOREM TypeCorrect == Spec => []TypeOK
<1>1. Init => TypeInv
  BY TypeInit
<1>2. TypeInv /\ [Next]_vars => TypeInv'
  BY TypeStep
<1>3. TypeInv => TypeOK
  BY DEF TypeInv
<1> QED
  BY <1>1, <1>2, <1>3, PTL DEF Spec
-------------------------------------------------------------------------------
(***************************************************************************)
(* The tables.                                                             *)
(***************************************************************************)
Providers == {"GenericIpmiDxe", "AcpiTable", "Smbios"}
Publishers == {"SpmiTable", "IpmiSmbios", "BmcAcpi"}
Provided == Providers \subseteq build

\* Entry points run only in the phases of the dispatcher.
IdleInv == phase \in {"pei", "dxe"} \/ driver = "none"

\* The ReadyToBoot handler runs once, when the event is first signalled.
EventInv ==
  /\ Len(type38) <= 1
  /\ readyToBootEvent # "closed" => type38 = <<>>
  /\ phase \in {"off", "pei", "dxe", "bds"} => readyToBootEvent # "closed"
  /\ phase \in {"rtb", "os"} => readyToBootEvent # "open"

\* As long as nothing fails: whichever of the drivers have run have left what
\* they are for, the boot manager is reached only when all have run, and the
\* first signal has made the record.
ProvidersInv == \A d \in Providers : d \in pending \/ d \in installed
RunInv == phase \in {"bds", "rtb", "os"} => (Providers \cup Publishers) \cap pending = {}
SpmiInv == "SpmiTable" \in build \ pending => spmi = SpmiRevision(version)
OpenInv == "IpmiSmbios" \in build \ pending => readyToBootEvent # "none"
RecordInv ==
  phase \in {"rtb", "os"} /\ "IpmiSmbios" \in build => type38 = <<Type38Revision(version)>>

\* BmcAcpi's loop has installed the sections before Instance, and all of the
\* first storage file's when it is over.
Sections == IF FwVol = 0 THEN 0 ELSE volumes[FwVol]
SsdtInv ==
  "BmcAcpi" \in build \ pending =>
    /\ FwVol = LocateSupportProtocol
    /\ driver = "BmcAcpi" => ssdt = Instance /\ Instance <= Sections
    /\ driver # "BmcAcpi" => ssdt = Sections

TablesInv ==
  /\ TypeInv /\ IdleInv /\ EventInv
  /\ clean /\ Provided => /\ ProvidersInv /\ RunInv /\ SpmiInv /\ OpenInv /\ RecordInv
                          /\ SsdtInv

\* Nothing has run when a boot begins.
LEMMA TablesInit == Init => TablesInv
<1> SUFFICES ASSUME Init PROVE TablesInv
  OBVIOUS
<1>1. TypeInv
  BY TypeInit
<1>2. IdleInv /\ EventInv
  BY DEF Init, IdleInv, EventInv
<1>3. ProvidersInv \/ ~ Provided
  BY DEF Init, ProvidersInv, Provided
<1>4. RunInv /\ SpmiInv /\ OpenInv /\ RecordInv /\ SsdtInv
  BY DEF Init, RunInv, SpmiInv, OpenInv, RecordInv, SsdtInv
<1> QED
  BY <1>1, <1>2, <1>3, <1>4 DEF TablesInv

\* The same after power was lost.
LEMMA TablesForgotten ==
  ASSUME Forgets, TypeInv'
  PROVE  TablesInv'
<1> USE DEF Forgets, ForgetMemory, platform
<1>1. IdleInv' /\ EventInv'
  BY DEF IdleInv, EventInv
<1>2. ProvidersInv' \/ ~ Provided'
  BY DEF ProvidersInv, Provided
<1>3. RunInv' /\ SpmiInv' /\ OpenInv' /\ RecordInv' /\ SsdtInv'
  BY DEF RunInv, SpmiInv, OpenInv, RecordInv, SsdtInv
<1> QED
  BY <1>1, <1>2, <1>3 DEF TablesInv

\* A driver that leaves the pending ones has begun its own entry point; one
\* that provides an interface has installed it, or failed.
Takes ==
  /\ "SpmiTable" \in pending \ pending' => SpmiTableEntryPoint
  /\ "IpmiSmbios" \in pending \ pending' => IpmiSmbiosEntry
  /\ "BmcAcpi" \in pending \ pending' => BmcAcpiEntryPoint
  /\ clean' => \A d \in Providers : d \in pending \ pending' => d \in installed'

\* The entry points of other drivers.
LEMMA OthersTake ==
  ASSUME NEW d \in Drivers \ (Providers \cup Publishers), Enter(d)
  PROVE  Takes
<1>1. \A e \in Providers \cup Publishers : e \notin pending \ pending'
  BY DEF Enter
<1> QED
  BY <1>1 DEF Takes, Publishers

\* Steps that dispatch nothing.
LEMMA NobodyTakes ==
  ASSUME UNCHANGED pending
  PROVE  Takes
  BY DEF Takes

\* The entry points that install an interface the tables need.
LEMMA ProviderTakes ==
  ASSUME NEW d \in Providers, Enter(d), NEW ok \in BOOLEAN, Installs(d, ok), clean' => ok
  PROVE  Takes
<1>1. pending \ pending' \subseteq {d} /\ d \notin Publishers
  BY DEF Enter, Providers, Publishers
<1>2. clean' => d \in installed'
  BY DEF Installs
<1> QED
  BY <1>1, <1>2 DEF Takes, Publishers

\* The entry points that publish the tables.
LEMMA PublisherTakes ==
  ASSUME SpmiTableEntryPoint \/ IpmiSmbiosEntry \/ BmcAcpiEntryPoint
  PROVE  Takes
<1>1. CASE SpmiTableEntryPoint
  <2>1. pending \ pending' \subseteq {"SpmiTable"}
    BY <1>1 DEF SpmiTableEntryPoint, Whole, Enter
  <2> QED
    BY <1>1, <2>1 DEF Takes, Providers
<1>2. CASE IpmiSmbiosEntry
  <2>1. pending \ pending' \subseteq {"IpmiSmbios"}
    BY <1>2 DEF IpmiSmbiosEntry, Whole, Enter
  <2> QED
    BY <1>2, <2>1 DEF Takes, Providers
<1>3. CASE BmcAcpiEntryPoint
  <2>1. pending \ pending' \subseteq {"BmcAcpi"}
    BY <1>3 DEF BmcAcpiEntryPoint, Part, Enter
  <2> QED
    BY <1>3, <2>1 DEF Takes, Providers
<1> QED
  BY <1>1, <1>2, <1>3

\* Every step is one of these, or loses the memory.
LEMMA StepTakes == [Next]_vars => Takes \/ Forgets
<1> SUFFICES ASSUME [Next]_vars PROVE Takes \/ Forgets
  OBVIOUS
<1> USE DEF Drivers, Peims, DxeDrivers, Providers, Publishers
<1>1. CASE DxeGenericIpmiEntry
  BY <1>1, ProviderTakes DEF DxeGenericIpmiEntry, Whole, Service
<1>2. CASE \E d \in {"AcpiTable", "Smbios", "SxDispatch"} : PlatformDriver(d)
  <2> PICK d \in {"AcpiTable", "Smbios", "SxDispatch"} : PlatformDriver(d)
    BY <1>2
  <2>1. CASE d = "SxDispatch"
    BY <2>1, OthersTake DEF PlatformDriver, Whole
  <2>2. CASE d # "SxDispatch"
    BY <2>2, ProviderTakes DEF PlatformDriver, Whole
  <2> QED
    BY <2>1, <2>2
<1>3. CASE SpmiTableEntryPoint \/ IpmiSmbiosEntry \/ BmcAcpiEntryPoint
  BY <1>3, PublisherTakes
<1>4. CASE PeimIpmiInterfaceInit \/ InitializeSmmGenericIpmi
  BY <1>4, OthersTake DEF PeimIpmiInterfaceInit, InitializeSmmGenericIpmi, Whole
<1>5. CASE PlatformPowerRestorePolicyDefaultEntry \/ PlatformPolicyEntry
  BY <1>5, OthersTake DEF PlatformPowerRestorePolicyDefaultEntry, PlatformPolicyEntry, Whole
<1>6. CASE ReadRestorePolicy \/ SolStatusEntryPoint
  BY <1>6, OthersTake DEF ReadRestorePolicy, SolStatusEntryPoint, Part
<1>7. CASE InitializeFru \/ InitializeBmcAcpiPowerStateSmm
  BY <1>7, OthersTake DEF InitializeFru, InitializeBmcAcpiPowerStateSmm, Whole
<1>8. CASE \/ SetRestorePolicy \/ GetSOLStatus \/ SolStatusReturns
           \/ InstallSection \/ BmcAcpiReturns
  BY <1>8, NobodyTakes DEF SetRestorePolicy, GetSOLStatus, SolStatusReturns, InstallSection,
                           BmcAcpiReturns, Goes
<1>9. CASE NextPhase \/ ReadyToBoot \/ ExitBootServices \/ EnterS5
  BY <1>9, NobodyTakes DEF NextPhase, ReadyToBoot, ExitBootServices, EnterS5
<1>10. CASE StartBoot \/ PowerLoss
  BY <1>10 DEF StartBoot, PowerLoss, Forgets
<1>11. CASE UNCHANGED vars \/ \E p \in PolicyValues : Administrator(p)
  BY <1>11, NobodyTakes DEF vars, Administrator, dispatch
<1> QED
  BY <1>1, <1>2, <1>3, <1>4, <1>5, <1>6, <1>7, <1>8, <1>9, <1>10, <1>11 DEF Next, Firmware

\* The loop ends by itself or because a table is not accepted.
LEMMA StepLeaves ==
  ASSUME [Next]_vars, driver = "BmcAcpi", driver' # driver
  PROVE  BmcAcpiReturns \/ InstallSection \/ Forgets
<1> USE DEF Whole, Part, Enter, Goes
<1>1. CASE \/ PeimIpmiInterfaceInit \/ DxeGenericIpmiEntry \/ InitializeSmmGenericIpmi
           \/ \E d \in {"AcpiTable", "Smbios", "SxDispatch"} : PlatformDriver(d)
           \/ PlatformPowerRestorePolicyDefaultEntry \/ PlatformPolicyEntry
  BY <1>1 DEF PeimIpmiInterfaceInit, DxeGenericIpmiEntry, InitializeSmmGenericIpmi,
              PlatformDriver, PlatformPowerRestorePolicyDefaultEntry, PlatformPolicyEntry
<1>2. CASE ReadRestorePolicy \/ SetRestorePolicy \/ SolStatusEntryPoint \/ GetSOLStatus
           \/ SolStatusReturns \/ InitializeFru
  BY <1>2 DEF ReadRestorePolicy, SetRestorePolicy, SolStatusEntryPoint, GetSOLStatus,
              SolStatusReturns, InitializeFru
<1>3. CASE SpmiTableEntryPoint \/ BmcAcpiEntryPoint \/ IpmiSmbiosEntry
           \/ InitializeBmcAcpiPowerStateSmm
  BY <1>3 DEF SpmiTableEntryPoint, BmcAcpiEntryPoint, IpmiSmbiosEntry,
              InitializeBmcAcpiPowerStateSmm
<1>4. CASE NextPhase \/ ReadyToBoot \/ ExitBootServices \/ EnterS5
  BY <1>4 DEF NextPhase, ReadyToBoot, ExitBootServices, EnterS5
<1>5. CASE StartBoot \/ PowerLoss
  BY <1>5 DEF StartBoot, PowerLoss, Forgets
<1>6. CASE UNCHANGED vars \/ \E p \in PolicyValues : Administrator(p)
  BY <1>6 DEF vars, Administrator, dispatch
<1> QED
  BY <1>1, <1>2, <1>3, <1>4, <1>5, <1>6 DEF Next, Firmware

\* No driver runs outside the dispatcher's phases.
LEMMA IdleStep ==
  ASSUME TablesInv, Effects
  PROVE  IdleInv'
<1>1. IdleInv
  BY DEF TablesInv
<1>2. CASE UNCHANGED phase
  <2>1. \A d \in Dispatchable : phase \in {"pei", "dxe"}
    BY DEF Dispatchable, PhaseOf
  <2> QED
    BY <1>1, <1>2, <2>1 DEF Effects, Dispatches, IdleInv
<1>3. CASE NextPhase
  BY <1>3 DEF NextPhase, IdleInv
<1>4. CASE ReadyToBoot \/ ExitBootServices \/ EnterS5
  BY <1>1, <1>4 DEF ReadyToBoot, ExitBootServices, EnterS5, IdleInv
<1> QED
  BY <1>2, <1>3, <1>4 DEF Effects

\* The handler makes one record at most and closes its event.
LEMMA EventStep ==
  ASSUME TablesInv, Effects
  PROVE  EventInv'
<1>1. /\ EventInv /\ OnceInv
      /\ phase \in {"off", "s5", "pei", "dxe", "bds", "rtb", "os"}
  BY TypeParts DEF TablesInv, TypeInv, DispatchType
<1>2. CASE ReadyToBoot
  <2>1. CASE readyToBootEvent = "open"
    <3>1. readyToBootEvent' = "closed" /\ phase' = "rtb" /\ type38 = <<>>
      BY <1>1, <1>2, <2>1 DEF ReadyToBoot, IpmiSmbiosCreateOnReadyToBoot, EventInv
    <3>2. type38' = type38 \/ type38' = Append(type38, Type38Revision(version))
      BY <1>2, <2>1 DEF ReadyToBoot, IpmiSmbiosCreateOnReadyToBoot, CreateIpmiSmbiosType38
    <3>3. type38' = <<>> \/ type38' = <<Type38Revision(version)>>
      BY <3>1, <3>2
    <3>4. Len(type38') <= 1
      BY <3>3
    <3> QED
      BY <3>1, <3>4 DEF EventInv
  <2>2. CASE readyToBootEvent # "open"
    BY <1>1, <1>2, <2>2 DEF ReadyToBoot, EventInv
  <2> QED
    BY <2>1, <2>2
<1>3. CASE IpmiSmbiosEntry
  <2>1. /\ "IpmiSmbios" \in pending /\ phase = "dxe" /\ phase' = phase
        /\ readyToBootEvent' \in {"open", "none"} /\ type38' = type38
    BY <1>3 DEF IpmiSmbiosEntry, Whole, Enter, Dispatchable, PhaseOf, Peims
  <2>2. readyToBootEvent = "none"
    BY <1>1, <2>1 DEF OnceInv
  <2> QED
    BY <1>1, <2>1, <2>2 DEF EventInv
<1>4. CASE UNCHANGED <<type38, readyToBootEvent>>
  <2>1. CASE UNCHANGED phase
    BY <1>1, <1>4, <2>1 DEF EventInv
  <2>2. CASE NextPhase
    BY <1>1, <1>4, <2>2 DEF NextPhase, EventInv
  <2>3. CASE ExitBootServices \/ EnterS5
    BY <1>1, <1>4, <2>3 DEF ExitBootServices, EnterS5, EventInv
  <2> QED
    BY <1>2, <2>1, <2>2, <2>3 DEF Effects
<1> QED
  BY <1>2, <1>3, <1>4 DEF Effects

\* DXE ends when nothing can be dispatched: the interfaces are there, so that
\* every driver that needs one has run.
LEMMA AllHaveRun ==
  ASSUME ProvidersInv, Dispatchable = {}, phase = "dxe"
  PROVE  (Providers \cup Publishers) \cap pending = {}
<1> USE DEF Providers, Publishers
<1>1. \A d \in Providers \cup Publishers : d \in pending => ~ (Depex[d] \subseteq installed)
  BY DEF Dispatchable, PhaseOf, Peims
<1>2. /\ Depex["GenericIpmiDxe"] = {} /\ Depex["AcpiTable"] = {} /\ Depex["Smbios"] = {}
      /\ Depex["IpmiSmbios"] = {} /\ Depex["BmcAcpi"] = {"AcpiTable"}
      /\ Depex["SpmiTable"] = {"AcpiTable", "GenericIpmiDxe"}
  BY DEF Depex, Drivers, DxeDrivers, Peims
<1>3. Providers \cap pending = {}
  BY <1>1, <1>2
<1>4. Providers \subseteq installed
  BY <1>3 DEF ProvidersInv
<1> QED
  BY <1>1, <1>2, <1>3, <1>4

\* The rest of the invariant, in a boot in which nothing has failed.
CleanStepHypotheses ==
  /\ TablesInv /\ Effects /\ Takes
  /\ clean /\ clean' /\ Provided
  /\ ProvidersInv /\ RunInv /\ SpmiInv /\ OpenInv /\ RecordInv /\ SsdtInv

\* Nothing is ever uninstalled.
LEMMA ProvidersStep ==
  ASSUME CleanStepHypotheses
  PROVE  ProvidersInv'
<1>1. installed \subseteq installed'
  BY DEF CleanStepHypotheses, Effects, Dispatches
<1> QED
  BY <1>1 DEF CleanStepHypotheses, ProvidersInv, Takes

\* The boot manager is reached only from DXE's end.
LEMMA RunStep ==
  ASSUME CleanStepHypotheses
  PROVE  RunInv'
<1>1. pending' \subseteq pending
  BY DEF CleanStepHypotheses, Effects, Dispatches
<1>2. CASE NextPhase
  <2>1. UNCHANGED pending /\ (phase' = "bds" => phase = "dxe" /\ Dispatchable = {})
        /\ phase' \in {"dxe", "bds"}
    BY <1>2 DEF NextPhase
  <2> QED
    BY <2>1, AllHaveRun DEF RunInv, CleanStepHypotheses
<1>3. CASE UNCHANGED phase
  BY <1>1, <1>3 DEF RunInv, CleanStepHypotheses
<1>4. CASE ReadyToBoot \/ ExitBootServices \/ EnterS5
  <2>1. phase' = "s5" \/ phase \in {"bds", "rtb"}
    BY <1>4 DEF ReadyToBoot, ExitBootServices, EnterS5
  <2> QED
    BY <1>1, <2>1 DEF RunInv, CleanStepHypotheses
<1> QED
  BY <1>2, <1>3, <1>4 DEF CleanStepHypotheses, Effects

\* SpmiTable publishes its table, or something failed.
LEMMA SpmiStep ==
  ASSUME CleanStepHypotheses
  PROVE  SpmiInv'
<1>1. UNCHANGED <<build, version>> /\ pending' \subseteq pending
  BY DEF CleanStepHypotheses, Effects, Dispatches, platform
<1>2. CASE SpmiTableEntryPoint
  <2>1. clean' = TRUE
    BY TypeParts DEF CleanStepHypotheses, TablesInv, TypeInv, CleanType
  <2>2. spmi' = SpmiRevision(version)
    BY <1>2, <2>1 DEF SpmiTableEntryPoint, UpdateAcpiSpmiTables, Service, CleanStepHypotheses
  <2> QED
    BY <1>1, <2>2 DEF SpmiInv
<1>3. CASE ~ SpmiTableEntryPoint
  <2>1. spmi' = spmi /\ "SpmiTable" \notin pending \ pending'
    BY <1>3 DEF CleanStepHypotheses, Effects, Takes
  <2> QED
    BY <1>1, <2>1 DEF SpmiInv, CleanStepHypotheses
<1> QED
  BY <1>2, <1>3

\* IpmiSmbios creates its event, or something failed; the event stays.
LEMMA OpenStep ==
  ASSUME CleanStepHypotheses
  PROVE  OpenInv'
<1>1. UNCHANGED <<build, version>> /\ pending' \subseteq pending
  BY DEF CleanStepHypotheses, Effects, Dispatches, platform
<1>2. CASE IpmiSmbiosEntry
  BY <1>2 DEF IpmiSmbiosEntry, Service, CleanStepHypotheses, OpenInv
<1>3. CASE ~ IpmiSmbiosEntry
  <2>1. "IpmiSmbios" \notin pending \ pending'
    BY <1>3 DEF CleanStepHypotheses, Takes
  <2>2. readyToBootEvent # "none" => readyToBootEvent' # "none"
    BY <1>3 DEF CleanStepHypotheses, Effects, ReadyToBoot, IpmiSmbiosCreateOnReadyToBoot
  <2> QED
    BY <1>1, <2>1, <2>2 DEF OpenInv, CleanStepHypotheses
<1> QED
  BY <1>2, <1>3

\* The first signal finds the event open and the handler finds what it needs:
\* SMBIOS is there, and so is the transport, unless the command fails.
LEMMA RecordStep ==
  ASSUME CleanStepHypotheses
  PROVE  RecordInv'
<1> SUFFICES ASSUME phase' \in {"rtb", "os"}, "IpmiSmbios" \in build'
             PROVE  type38' = <<Type38Revision(version)>> /\ version' = version
  BY DEF RecordInv
<1>1. UNCHANGED <<build, version>>
  BY DEF CleanStepHypotheses, Effects, platform
<1>2. CASE UNCHANGED <<type38, readyToBootEvent>> /\ phase \in {"rtb", "os"}
  BY <1>1, <1>2 DEF CleanStepHypotheses, RecordInv
<1>3. CASE ReadyToBoot
  <2>1. phase \in {"bds", "rtb"}
    BY <1>3 DEF ReadyToBoot
  <2>2. CASE readyToBootEvent # "open"
    <3>1. readyToBootEvent \in {"none", "open", "closed"}
      BY TypeParts DEF CleanStepHypotheses, TablesInv, TypeInv, TableType
    <3>2. phase = "bds" => readyToBootEvent \notin {"none", "closed"}
      BY <1>1 DEF CleanStepHypotheses, OpenInv, RunInv, Publishers, TablesInv, EventInv
    <3>3. phase = "rtb"
      BY <2>1, <2>2, <3>1, <3>2
    <3> QED
      BY <1>1, <1>2, <1>3, <2>2, <3>3 DEF ReadyToBoot
  <2>3. CASE readyToBootEvent = "open"
    <3>1. type38 = <<>>
      BY <2>3 DEF CleanStepHypotheses, TablesInv, EventInv
    <3>2. Providers \subseteq installed
      BY <2>1 DEF CleanStepHypotheses, ProvidersInv, RunInv
    <3>3. Found("IpmiSmbios")
      BY <3>2 DEF Found, TransportOf, Peims, Providers
    <3>4. PICK ok \in BOOLEAN :
            /\ IpmiGetDeviceId("IpmiSmbios", ok)
            /\ type38' = IF ok THEN Append(type38, Type38Revision(version)) ELSE type38
      BY <1>3, <2>3, <3>2 DEF ReadyToBoot, IpmiSmbiosCreateOnReadyToBoot,
                              CreateIpmiSmbiosType38, Providers
    <3>5. ok
      BY <3>3, <3>4 DEF IpmiGetDeviceId, IpmiSubmitCommand, CleanStepHypotheses
    <3> QED
      BY <1>1, <3>1, <3>4, <3>5
  <2> QED
    BY <2>2, <2>3
<1>4. CASE IpmiSmbiosEntry
  <2>1. phase' = "dxe"
    BY <1>4 DEF IpmiSmbiosEntry, Whole, Enter, Dispatchable, PhaseOf, Peims
  <2> QED
    BY <2>1
<1>5. CASE UNCHANGED <<type38, readyToBootEvent>> /\ phase \notin {"rtb", "os"}
  BY <1>3, <1>5 DEF CleanStepHypotheses, Effects, NextPhase, ExitBootServices, EnterS5
<1> QED
  BY <1>2, <1>3, <1>4, <1>5 DEF CleanStepHypotheses, Effects

\* BmcAcpi installs section after section of the file it found, to the last.
LEMMA SsdtStep ==
  ASSUME CleanStepHypotheses, [Next]_vars, ~ Forgets
  PROVE  SsdtInv'
<1>1. /\ UNCHANGED <<build, volumes>> /\ pending' \subseteq pending
      /\ volumes \in Seq(Nat) /\ AcpiType /\ OnceInv
      /\ clean = TRUE /\ clean' = TRUE
  BY TypeParts, CleanTypeStep, Constants
     DEF CleanStepHypotheses, Effects, Dispatches, platform, TablesInv, TypeInv, PlatformType,
         CleanType
<1>2. LocateSupportProtocol' = LocateSupportProtocol
  BY <1>1 DEF LocateSupportProtocol
<1>3. Sections \in Nat
  BY <1>1, ElementOfSeq DEF Sections, AcpiType
<1>4. CASE BmcAcpiEntryPoint
  <2>1. /\ FwVol' = LocateSupportProtocol /\ Instance' = 0 /\ ssdt' = ssdt
        /\ driver' = "BmcAcpi" /\ "BmcAcpi" \in pending
    BY <1>4 DEF BmcAcpiEntryPoint, Part, Enter, Dispatchable
  <2>2. ssdt' = 0
    BY <1>1, <2>1 DEF OnceInv
  <2>3. Sections' \in Nat
    BY <1>1, <2>1, FirstVolume, ElementOfSeq DEF Sections
  <2> QED
    BY <1>2, <2>1, <2>2, <2>3 DEF SsdtInv
<1>5. CASE InstallSection
  <2>1. /\ driver = "BmcAcpi" /\ HasSection /\ UNCHANGED FwVol /\ Instance' = Instance + 1
        /\ pending' = pending
    BY <1>5 DEF InstallSection, Goes
  <2>2. driver' = "BmcAcpi" /\ ssdt' = ssdt + 1
    BY <1>1, <1>5 DEF InstallSection, Goes, Service
  <2>3. Instance < Sections /\ Sections' = Sections
    BY <1>1, <2>1 DEF HasSection, Sections
  <2>4. Instance + 1 <= Sections
    BY <1>1, <1>3, <2>3 DEF AcpiType
  <2> QED
    BY <1>1, <1>2, <2>1, <2>2, <2>3, <2>4 DEF SsdtInv, CleanStepHypotheses
<1>6. CASE UNCHANGED acpi /\ driver = "BmcAcpi" /\ driver' # driver
  <2>1. BmcAcpiReturns
    BY <1>1, <1>6, StepLeaves DEF acpi, InstallSection, AcpiType
  <2>2. ~ HasSection /\ pending' = pending
    BY <2>1 DEF BmcAcpiReturns, Goes
  <2>3. Sections' = Sections /\ UNCHANGED <<FwVol, Instance, ssdt>>
    BY <1>1, <1>6 DEF Sections, acpi
  <2>4. ~ (Instance < Sections)
    BY <1>1, <2>2 DEF HasSection, Sections, AcpiType
  <2>5. Instance <= Sections => Instance = Sections
    BY <1>1, <1>3, <2>4 DEF AcpiType
  <2> QED
    BY <1>1, <1>2, <1>6, <2>2, <2>3, <2>5 DEF SsdtInv, CleanStepHypotheses
<1>7. CASE UNCHANGED acpi /\ ~ (driver = "BmcAcpi" /\ driver' # driver) /\ ~ BmcAcpiEntryPoint
  <2>1. Sections' = Sections /\ UNCHANGED <<FwVol, Instance, ssdt>>
    BY <1>1, <1>7 DEF Sections, acpi
  <2>2. "BmcAcpi" \notin pending \ pending'
    BY <1>7 DEF CleanStepHypotheses, Takes
  <2>3. driver' = "BmcAcpi" <=> driver = "BmcAcpi"
    BY <1>7, <2>2 DEF CleanStepHypotheses, Effects, Dispatches, Dispatchable
  <2> QED
    BY <1>1, <1>2, <2>1, <2>2, <2>3 DEF SsdtInv, CleanStepHypotheses
<1> QED
  BY <1>4, <1>5, <1>6, <1>7 DEF CleanStepHypotheses, Effects

\* Every step keeps the invariant.
LEMMA TablesStep == TablesInv /\ [Next]_vars => TablesInv'
<1> SUFFICES ASSUME TablesInv, [Next]_vars PROVE TablesInv'
  OBVIOUS
<1>1. TypeInv'
  BY TypeStep DEF TablesInv
<1>2. CASE Forgets
  BY <1>1, <1>2, TablesForgotten
<1>3. CASE ~ Forgets
  <2>1. Effects /\ Takes
    BY <1>3, StepEffects, StepTakes
  <2>2. IdleInv' /\ EventInv'
    BY <2>1, IdleStep, EventStep
  <2>3. ASSUME clean', Provided'
        PROVE  ProvidersInv' /\ RunInv' /\ SpmiInv' /\ OpenInv' /\ RecordInv' /\ SsdtInv'
    <3>1. ~ StartBoot
      BY <1>3 DEF StartBoot, Forgets
    <3>2. clean /\ Provided
      BY <2>1, <2>3, <3>1, CleanTypeStep DEF TablesInv, Effects, platform, Provided
    <3>3. CleanStepHypotheses
      BY <2>1, <2>3, <3>2 DEF TablesInv, CleanStepHypotheses
    <3> QED
      BY <1>3, <3>3, ProvidersStep, RunStep, SpmiStep, OpenStep, RecordStep, SsdtStep
  <2> QED
    BY <1>1, <2>2, <2>3 DEF TablesInv
<1> QED
  BY <1>2, <1>3

\* What the invariant says of the tables when a boot option starts.
LEMMA TablesThere == TablesInv => TablesPublished
<1> SUFFICES ASSUME TablesInv PROVE TablesPublished
  OBVIOUS
<1>1. Len(type38) <= 1
  BY DEF TablesInv, EventInv
<1>2. ASSUME phase \in {"rtb", "os"}, clean, Provided
      PROVE  /\ "SpmiTable" \in build /\ "IpmiSmbios" \in build
                => type38 # <<>> /\ spmi = 16 * type38[1]
             /\ "BmcAcpi" \in build => StoredTables(ssdt)
  <2>1. /\ Publishers \cap pending = {} /\ SpmiInv /\ RecordInv /\ SsdtInv /\ IdleInv
    BY <1>2 DEF TablesInv, RunInv
  <2>2. version \in Nat /\ version <= 255 /\ volumes \in Seq(Nat)
    BY TypeParts, Constants DEF TablesInv, TypeInv, PlatformType
  <2>3. ASSUME "SpmiTable" \in build, "IpmiSmbios" \in build
        PROVE  type38 # <<>> /\ spmi = 16 * type38[1]
    <3>1. spmi = SpmiRevision(version) /\ type38 = <<Type38Revision(version)>>
      BY <1>2, <2>1, <2>3 DEF SpmiInv, RecordInv, Publishers
    <3>2. type38 # <<>> /\ type38[1] = Type38Revision(version)
      BY <3>1
    <3>3. SpmiRevision(version) = 16 * Type38Revision(version)
      BY <2>2, RevisionRange
    <3> QED
      BY <3>1, <3>2, <3>3
  <2>4. ASSUME "BmcAcpi" \in build PROVE StoredTables(ssdt)
    <3>1. FwVol = LocateSupportProtocol /\ ssdt = Sections
      BY <1>2, <2>1, <2>4 DEF SsdtInv, IdleInv, Publishers
    <3> QED
      BY <2>2, <3>1, FirstVolume DEF Sections
  <2> QED
    BY <2>3, <2>4
<1> QED
  BY <1>1, <1>2 DEF TablesPublished, Provided, Providers

\* There is one type 38 record at most however often ReadyToBoot is signalled;
\* and in a boot without a failure every table of the build is there when a
\* boot option starts, the SSDTs of the first storage file to the last, with
\* revisions that name the BMC's version, for every build, firmware layout,
\* version and order of dispatch.
THEOREM TablesCorrect == Spec => []TablesPublished
<1>1. Init => TablesInv
  BY TablesInit
<1>2. TablesInv /\ [Next]_vars => TablesInv'
  BY TablesStep
<1>3. TablesInv => TablesPublished
  BY TablesThere
<1> QED
  BY <1>1, <1>2, <1>3, PTL DEF Spec
-------------------------------------------------------------------------------
(***************************************************************************)
(* Progress.  That the drivers come to an end needs fairness and stays     *)
(* with TLC; that they cannot go on for ever does not.                     *)
(***************************************************************************)
\* Commands of SolStatus for the channel it is at and those after it.
SolLeft == (MaxSolChannels + 1 - Channel) * SolRetries + (SolRetries - RetryCount)

\* What the loop of the driver that runs has left.
LoopLeft ==
  IF driver = "SolStatus" THEN SolLeft
  ELSE IF HasSection THEN volumes[FwVol] - Instance ELSE 0

\* A step of the firmware moves to the next phase, takes one of the drivers from
\* those to be dispatched, or brings a driver under way to its end or nearer to
\* it; nothing else gives it more to do until power is lost.
GetsOn ==
  /\ LoopLeft \in Nat
  /\ Firmware =>
       \/ <<phase, phase'>> \in {<<"pei", "dxe">>, <<"dxe", "bds">>}
       \/ phase' = phase /\ \E d \in Drivers : d \in pending /\ pending' = pending \ {d}
       \/ /\ UNCHANGED <<phase, pending>> /\ driver # "none"
          /\ driver' = "none" \/ (driver' = driver /\ LoopLeft' < LoopLeft)
  /\ phase \in {"pei", "dxe"} =>
       Firmware \/ phase' = "off" \/ UNCHANGED <<phase, pending, driver, LoopLeft>>

\* A driver that enters is taken from those to be dispatched.
LEMMA EntersOnce ==
  ASSUME NEW d \in Drivers, Enter(d)
  PROVE  phase' = phase /\ \E e \in Drivers : e \in pending /\ pending' = pending \ {e}
BY DEF Enter, Dispatchable

\* The loops have a number of rounds left.
LEMMA LoopLeftType ==
  ASSUME TypeOK
  PROVE  LoopLeft \in Nat
<1>1. /\ Channel \in 0..(MaxSolChannels + 1) /\ RetryCount \in 0..(SolRetries - 1)
      /\ MaxSolChannels \in Nat /\ SolRetries \in Nat
  BY Constants DEF TypeOK
<1>2. SolLeft \in Nat
  <2>1. MaxSolChannels + 1 - Channel \in Nat /\ SolRetries - RetryCount \in Nat
    BY <1>1
  <2>2. \A a, b \in Nat : a * b \in Nat
    OBVIOUS
  <2> QED
    BY <1>1, <2>1, <2>2 DEF SolLeft
<1>3. HasSection => volumes[FwVol] - Instance \in Nat
  <2>1. volumes \in Seq(Nat) /\ FwVol \in 0..Len(volumes) /\ Instance \in Nat
    BY Constants DEF TypeOK
  <2>2. FwVol # 0 => volumes[FwVol] \in Nat
    BY <2>1
  <2> QED
    BY <2>1, <2>2 DEF HasSection
<1> QED
  BY <1>2, <1>3 DEF LoopLeft

\* An attempt of GetSOLStatus is one of the SolRetries of its channel.
LEMMA SolGetsOn ==
  ASSUME TypeOK, GetSOLStatus
  PROVE  LoopLeft' < LoopLeft
<1>1. /\ Channel \in Nat /\ RetryCount \in Nat /\ RetryCount < SolRetries
      /\ MaxSolChannels \in Nat /\ MaxSolChannels <= 254 /\ SolRetries \in Nat
      /\ Channel <= MaxSolChannels
  BY Constants DEF TypeOK, GetSOLStatus
<1>2. driver = "SolStatus" /\ driver' = "SolStatus"
  BY DEF GetSOLStatus, Goes
<1>3. LoopLeft = SolLeft /\ LoopLeft' = SolLeft'
  BY <1>2 DEF LoopLeft
<1> DEFINE c == MaxSolChannels + 1 - Channel
<1>4. c \in Nat
  BY <1>1
<1>5. CASE RetryCount' = RetryCount + 1 /\ Channel' = Channel
  <2>1. c * SolRetries \in Nat
    BY <1>1, <1>4
  <2>2. SolLeft = c * SolRetries + (SolRetries - RetryCount)
        /\ SolLeft' = c * SolRetries + (SolRetries - (RetryCount + 1))
    BY <1>5 DEF SolLeft
  <2> HIDE DEF c
  <2> QED
    BY <1>1, <1>3, <2>1, <2>2
<1>6. CASE RetryCount' = 0 /\ Channel' = NextChannel(Channel)
  <2>1. Channel' = Channel + 1
    BY <1>1, <1>6 DEF NextChannel
  <2>2. MaxSolChannels + 1 - Channel' = c - 1
    BY <1>1, <2>1
  <2>3. /\ SolLeft = c * SolRetries + (SolRetries - RetryCount)
        /\ SolLeft' = (c - 1) * SolRetries + (SolRetries - 0)
    BY <1>6, <2>2 DEF SolLeft
  <2> HIDE DEF c
  <2>4. (c - 1) * SolRetries = c * SolRetries - SolRetries /\ c * SolRetries \in Nat
    BY <1>1, <1>4
  <2> QED
    BY <1>1, <1>3, <2>3, <2>4
<1> QED
  BY <1>5, <1>6 DEF GetSOLStatus

\* A table that is installed is one less in the storage file.
LEMMA SectionGetsOn ==
  ASSUME TypeOK, InstallSection, driver' = driver
  PROVE  LoopLeft' < LoopLeft
<1>1. /\ driver = "BmcAcpi" /\ HasSection /\ Instance' = Instance + 1
      /\ FwVol' = FwVol /\ volumes' = volumes
  BY DEF InstallSection, Goes, platform
<1>2. FwVol # 0 /\ Instance \in Nat /\ volumes[FwVol] \in Nat /\ Instance < volumes[FwVol]
  <2>1. volumes \in Seq(Nat) /\ FwVol \in 0..Len(volumes) /\ Instance \in Nat
    BY Constants DEF TypeOK
  <2> QED
    BY <1>1, <2>1 DEF HasSection
<1>3. LoopLeft = volumes[FwVol] - Instance
  BY <1>1 DEF LoopLeft
<1>4. LoopLeft' \in {volumes[FwVol] - (Instance + 1), 0}
  BY <1>1 DEF LoopLeft
<1> QED
  BY <1>2, <1>3, <1>4

\* A step of the firmware, whichever it is.
LEMMA FirmwareGetsOn ==
  ASSUME TypeOK, Firmware
  PROVE  \/ <<phase, phase'>> \in {<<"pei", "dxe">>, <<"dxe", "bds">>}
         \/ phase' = phase /\ \E d \in Drivers : d \in pending /\ pending' = pending \ {d}
         \/ /\ UNCHANGED <<phase, pending>> /\ driver # "none"
            /\ driver' = "none" \/ (driver' = driver /\ LoopLeft' < LoopLeft)
<1>1. ASSUME NEW d \in {"GenericIpmiPei", "PlatformPolicy", "IpmiPowerRestorePolicy",
                        "GenericIpmiDxe", "GenericIpmiSmm", "AcpiTable", "Smbios", "SxDispatch",
                        "SpmiTable", "BmcAcpi", "IpmiSmbios", "SolStatus", "IpmiFru",
                        "BmcAcpiPowerState"},
             Enter(d)
      PROVE  phase' = phase /\ \E e \in Drivers : e \in pending /\ pending' = pending \ {e}
  BY <1>1, EntersOnce DEF Drivers, Peims, DxeDrivers
<1>2. CASE \/ PeimIpmiInterfaceInit \/ DxeGenericIpmiEntry \/ InitializeSmmGenericIpmi
           \/ \E d \in {"AcpiTable", "Smbios", "SxDispatch"} : PlatformDriver(d)
           \/ PlatformPowerRestorePolicyDefaultEntry \/ PlatformPolicyEntry
           \/ InitializeFru \/ SpmiTableEntryPoint \/ IpmiSmbiosEntry
           \/ InitializeBmcAcpiPowerStateSmm
  BY <1>1, <1>2
     DEF PeimIpmiInterfaceInit, DxeGenericIpmiEntry, InitializeSmmGenericIpmi, PlatformDriver,
         PlatformPowerRestorePolicyDefaultEntry, PlatformPolicyEntry, InitializeFru,
         SpmiTableEntryPoint, IpmiSmbiosEntry, InitializeBmcAcpiPowerStateSmm, Whole
<1>3. CASE ReadRestorePolicy \/ SolStatusEntryPoint \/ BmcAcpiEntryPoint
  BY <1>1, <1>3 DEF ReadRestorePolicy, SolStatusEntryPoint, BmcAcpiEntryPoint, Part
<1>4. CASE SetRestorePolicy \/ SolStatusReturns \/ BmcAcpiReturns
  BY <1>4 DEF SetRestorePolicy, SolStatusReturns, BmcAcpiReturns, Goes
<1>5. CASE GetSOLStatus
  BY <1>5, SolGetsOn DEF GetSOLStatus, Goes
<1>6. CASE InstallSection
  BY <1>6, SectionGetsOn DEF InstallSection, Goes
<1>7. CASE NextPhase
  BY <1>7 DEF NextPhase
<1> QED
  BY <1>2, <1>3, <1>4, <1>5, <1>6, <1>7 DEF Firmware

\* No boot is kept by its drivers: each is dispatched once, whatever their order,
\* and the loops over SOL channels, over retries and over the tables of the
\* storage file have a last round, whatever the BMC answers.
THEOREM DriversBounded == Spec => [][GetsOn]_vars
<1>1. TypeInv /\ [Next]_vars => [GetsOn]_vars
  <2> SUFFICES ASSUME TypeInv, Next PROVE GetsOn
    OBVIOUS
  <2>1. TypeOK /\ LoopLeft \in Nat
    BY LoopLeftType DEF TypeInv
  <2>2. ASSUME phase \in {"pei", "dxe"}
        PROVE  Firmware \/ phase' = "off" \/ UNCHANGED <<phase, pending, driver, LoopLeft>>
    <3>1. CASE \E p \in PolicyValues : Administrator(p)
      BY <3>1 DEF Administrator, LoopLeft, SolLeft, HasSection, dispatch, sol, acpi, platform
    <3>2. CASE PowerLoss
      BY <3>2 DEF PowerLoss
    <3> QED
      BY <2>2, <3>1, <3>2 DEF Next, StartBoot, ReadyToBoot, ExitBootServices, EnterS5
  <2> QED
    BY <2>1, <2>2, FirmwareGetsOn DEF GetsOn
<1>2. Init => TypeInv
  BY TypeInit
<1>3. TypeInv /\ [Next]_vars => TypeInv'
  BY TypeStep
<1> QED
  BY <1>1, <1>2, <1>3, PTL DEF Spec
===============================================================================
