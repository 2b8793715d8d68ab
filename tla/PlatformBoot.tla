----------------------------- MODULE PlatformBoot -----------------------------
(***************************************************************************)
(* The drivers that use the IPMI stack, over one boot after another:       *)
(* IpmiPowerRestorePolicy and PlatformPowerRestorePolicyDefault in PEI,    *)
(* SolStatus, IpmiFru, SpmiTable, BmcAcpi and IpmiSmbios in DXE, and       *)
(* BmcAcpiPowerState in SMM, each with its own copy of the base library    *)
(* (IpmiBaseLibPei, IpmiBaseLibDxe, IpmiBaseLibSmm).                       *)
(*                                                                         *)
(* The dispatcher runs the drivers of a build one at a time, in any order  *)
(* their dependency expressions allow.  What GenericIpmi finds out about   *)
(* the BMC is IpmiInitialize's subject; here its drivers install their     *)
(* interfaces or do not.  A command to the BMC fails before or after it is *)
(* executed, power is lost at any moment, and an administrator changes the *)
(* BMC's settings behind the firmware's back.                              *)
(***************************************************************************)
EXTENDS Naturals, Sequences, FiniteSetsExt

CONSTANTS
  Builds,          \* sets of drivers a platform may include
  PolicyValues,    \* power restore policies of the IPMI specification
  Versions,        \* SpecificationVersion bytes a BMC may report
  FvLayouts,       \* firmware volumes: tables in the storage file of each, 0 for no file
  MaxSolChannels,  \* PcdMaxSOLChannels
  SolRetries       \* SOL_CMD_RETRY_COUNT: 10

\* The UINT8 Channel of SolStatusEntryPoint never exceeds 255: with
\* PcdMaxSOLChannels = 255 its loop would not end.
ASSUME PlatformAssumption ==
  /\ PolicyValues \subseteq 0..2
  /\ Versions \subseteq 0..255
  /\ MaxSolChannels \in 0..254
  /\ SolRetries \in 1..255
  /\ \A fv \in FvLayouts : fv \in Seq(Nat)

NoChange == 3      \* PowerRestorePolicyNoChange
Unknown == 3       \* POWER_RESTORE_POLICY_UNKNOWN
Policies == PolicyValues \cup {NoChange}

Peims == {"GenericIpmiPei", "PlatformPolicy", "IpmiPowerRestorePolicy"}
DxeDrivers == {"GenericIpmiDxe", "GenericIpmiSmm", "AcpiTable", "Smbios", "SxDispatch",
               "SpmiTable", "BmcAcpi", "IpmiSmbios", "SolStatus", "IpmiFru",
               "BmcAcpiPowerState"}
Drivers == Peims \cup DxeDrivers

\* [Depex] of the drivers' INF files, each interface by the driver that
\* installs it.
Depex ==
  [d \in Drivers |->
     {i \in Drivers : <<d, i>> \in
        {<<"IpmiPowerRestorePolicy", "GenericIpmiPei">>,
         <<"IpmiPowerRestorePolicy", "PlatformPolicy">>,
         <<"GenericIpmiSmm", "GenericIpmiDxe">>,
         <<"SpmiTable", "AcpiTable">>, <<"SpmiTable", "GenericIpmiDxe">>,
         <<"BmcAcpi", "AcpiTable">>,
         <<"BmcAcpiPowerState", "SxDispatch">>, <<"BmcAcpiPowerState", "GenericIpmiDxe">>}}]

VARIABLES
  build, version, volumes,  \* the platform: its drivers, BMC and firmware volumes
  phase,      \* "off", "s5" (off by way of the S5 handlers), "pei", "dxe", "bds", "rtb" or "os"
  pending,    \* drivers not yet dispatched
  driver,     \* the driver in the middle of its entry point, or "none"
  installed,  \* interfaces installed so far, by the driver that installs them
  hob,        \* the BMC HOB PEI leaves: "none", "alive" or "dead"
  located,    \* the base libraries with mIpmiTransport set
  policy,     \* the platform's power restore policy, NoChange if none is published
  CurrentPowerRestorePolicy,
  Channel, RetryCount,    \* SolStatus
  FwVol, Instance,        \* BmcAcpi
  spmi,              \* revision in the published SPMI table, 0 before
  type38,            \* revisions in the SMBIOS type 38 records added
  ssdt,              \* SSDTs installed
  readyToBootEvent,  \* IpmiSmbios: "none", "open" or "closed"
  handlers,          \* BmcAcpiPowerState: "S5" and "ExitBootServices" once registered
  bmcPolicy, bmcAcpi,  \* the BMC: its power restore policy, the ACPI state it was told
  configured,        \* history: what IpmiPowerRestorePolicy returned, "none" before
  chosen,            \* history: bmcPolicy as the administrator left it, or at power on
  changed,           \* history: the administrator acted after the policy was read
  clean              \* history: in this boot no command, service or driver failed

platform == <<build, version, volumes>>
dispatch == <<phase, pending, driver, installed, hob>>
restore == <<policy, CurrentPowerRestorePolicy, configured, changed>>
sol == <<Channel, RetryCount>>
acpi == <<FwVol, Instance, ssdt>>
tables == <<spmi, type38, readyToBootEvent>>
bmc == <<bmcPolicy, bmcAcpi, chosen>>
vars == <<platform, dispatch, located, restore, sol, acpi, tables, handlers, bmc, clean>>

TypeOK ==
  /\ build \in Builds /\ version \in Versions /\ volumes \in FvLayouts
  /\ phase \in {"off", "s5", "pei", "dxe", "bds", "rtb", "os"}
  /\ pending \subseteq build /\ driver \in build \cup {"none"}
  /\ installed \subseteq build \ pending
  /\ hob \in {"none", "alive", "dead"}
  /\ located \subseteq build
  /\ policy \in Policies /\ CurrentPowerRestorePolicy \in PolicyValues \cup {Unknown}
  /\ Channel \in 0..(MaxSolChannels + 1) /\ RetryCount \in 0..(SolRetries - 1)
  /\ FwVol \in 0..Len(volumes) /\ Instance \in Nat /\ ssdt \in 0..Instance
  /\ spmi \in 0..4095 /\ type38 \in Seq(0..255)
  /\ readyToBootEvent \in {"none", "open", "closed"}
  /\ handlers \subseteq {"S5", "ExitBootServices"}
  /\ bmcPolicy \in PolicyValues /\ chosen \in PolicyValues
  /\ bmcAcpi \in {"unknown", "S0", "S5"}
  /\ configured \in {"none", "success", "error"}
  /\ changed \in BOOLEAN /\ clean \in BOOLEAN

Init ==
  /\ build \in Builds /\ version \in Versions /\ volumes \in FvLayouts
  /\ phase = "off" /\ pending = build /\ driver = "none" /\ installed = {} /\ hob = "none"
  /\ located = {}
  /\ policy = NoChange /\ CurrentPowerRestorePolicy = Unknown
  /\ configured = "none" /\ changed = FALSE
  /\ Channel = 0 /\ RetryCount = 0
  /\ FwVol = 0 /\ Instance = 0 /\ ssdt = 0
  /\ spmi = 0 /\ type38 = <<>> /\ readyToBootEvent = "none"
  /\ handlers = {}
  /\ bmcPolicy \in PolicyValues /\ chosen = bmcPolicy /\ bmcAcpi = "unknown"
  /\ clean = TRUE

\* The firmware's memory is lost.
ForgetMemory ==
  /\ pending' = build /\ driver' = "none" /\ installed' = {} /\ hob' = "none"
  /\ located' = {}
  /\ policy' = NoChange /\ CurrentPowerRestorePolicy' = Unknown
  /\ configured' = "none" /\ changed' = FALSE
  /\ Channel' = 0 /\ RetryCount' = 0
  /\ FwVol' = 0 /\ Instance' = 0 /\ ssdt' = 0
  /\ spmi' = 0 /\ type38' = <<>> /\ readyToBootEvent' = "none"
  /\ handlers' = {}
  /\ chosen' = bmcPolicy
  /\ UNCHANGED platform
-------------------------------------------------------------------------------
(***************************************************************************)
(* Commands.  IpmiSubmitCommand looks the transport up when it is first    *)
(* needed; PEI modules, which may run from flash, look it up every time.   *)
(* ok: the transport was found and the command completed.                  *)
(***************************************************************************)
TransportOf(d) ==
  IF d \in Peims THEN "GenericIpmiPei"
  ELSE IF d = "BmcAcpiPowerState" THEN "GenericIpmiSmm" ELSE "GenericIpmiDxe"

Found(d) == d \in located \/ TransportOf(d) \in installed

LocatePpi(d) == UNCHANGED located

LocateProtocol(d) == located' = IF Found(d) THEN located \cup {d} ELSE located

\* A driver that runs before its transport is there is told so; that is no fault.
IpmiSubmitCommand(d, ok) ==
  /\ ok => Found(d)
  /\ IF d \in Peims THEN LocatePpi(d) ELSE LocateProtocol(d)
  /\ clean' = (clean /\ (ok \/ ~ Found(d)))

\* A service of the platform fails or not.
Service(ok) == clean' = (clean /\ ok)

IpmiGetChassisStatus(d, ok) == IpmiSubmitCommand(d, ok)

\* A command that fails may have been executed all the same.
IpmiSetPowerRestorePolicy(d, ok, p) ==
  /\ IpmiSubmitCommand(d, ok)
  /\ bmcPolicy' \in (IF Found(d) THEN {p} ELSE {}) \cup (IF ok THEN {} ELSE {bmcPolicy})
  /\ UNCHANGED <<bmcAcpi, chosen>>

IpmiGetSolConfigurationParameters(d, ok) == IpmiSubmitCommand(d, ok)

IpmiGetDeviceId(d, ok) == IpmiSubmitCommand(d, ok)

IpmiGetFruInventoryAreaInfo(d, ok) == IpmiSubmitCommand(d, ok)
-------------------------------------------------------------------------------
(***************************************************************************)
(* The dispatcher.                                                         *)
(***************************************************************************)
PhaseOf(d) == IF d \in Peims THEN "pei" ELSE "dxe"

Dispatchable == {d \in pending : PhaseOf(d) = phase /\ Depex[d] \subseteq installed}

StartBoot ==
  /\ phase \in {"off", "s5"}
  /\ phase' = "pei" /\ clean' = TRUE
  /\ ForgetMemory
  /\ UNCHANGED <<bmcPolicy, bmcAcpi>>

\* The entry point of d begins; Whole(d): it also ends in this step.
Enter(d) ==
  /\ driver = "none" /\ d \in Dispatchable
  /\ pending' = pending \ {d}
  /\ UNCHANGED phase

Whole(d) == Enter(d) /\ UNCHANGED driver

Part(d) == Enter(d) /\ driver' = d /\ UNCHANGED <<installed, hob>>

Goes(d, on) ==
  /\ driver = d
  /\ driver' = IF on THEN d ELSE "none"
  /\ UNCHANGED <<phase, pending, installed, hob>>

Installs(d, ok) == installed' = IF ok THEN installed \cup {d} ELSE installed

\* Nothing is left that could be dispatched: PEI hands over to DXE, DXE to BDS.
NextPhase ==
  /\ driver = "none" /\ Dispatchable = {}
  /\ \/ phase = "pei" /\ phase' = "dxe"
     \/ phase = "dxe" /\ phase' = "bds"
  /\ UNCHANGED <<platform, pending, driver, installed, hob, located, restore, sol, acpi,
                 tables, handlers, bmc, clean>>

\* The PEIM publishes the HOB unless there is no memory for it, and the PPI if
\* the BMC is neither in update mode nor in hard failure.
PeimIpmiInterfaceInit ==
  /\ Whole("GenericIpmiPei")
  /\ \E status \in {"none", "alive", "dead"}, ok \in BOOLEAN :
       /\ hob' = status
       /\ ok => status = "alive"
       /\ Installs("GenericIpmiPei", ok) /\ Service(ok)
  /\ UNCHANGED <<platform, located, restore, sol, acpi, tables, handlers, bmc>>

\* DXE takes the HOB's word for the BMC's state.
DxeGenericIpmiEntry ==
  /\ Whole("GenericIpmiDxe")
  /\ \E ok \in BOOLEAN :
       /\ ok => hob # "dead"
       /\ Installs("GenericIpmiDxe", ok) /\ Service(ok)
  /\ UNCHANGED <<platform, hob, located, restore, sol, acpi, tables, handlers, bmc>>

\* SMM installs its protocol whatever the BMC's state, unless memory is short
\* or, without a HOB, IpmiInitializeBmc fails.
InitializeSmmGenericIpmi ==
  /\ Whole("GenericIpmiSmm")
  /\ \E ok \in BOOLEAN : Installs("GenericIpmiSmm", ok) /\ Service(ok)
  /\ UNCHANGED <<platform, hob, located, restore, sol, acpi, tables, handlers, bmc>>

\* The platform's drivers for ACPI tables, SMBIOS and sleep states.
PlatformDriver(d) ==
  /\ Whole(d)
  /\ Installs(d, TRUE)
  /\ UNCHANGED <<platform, hob, located, restore, sol, acpi, tables, handlers, bmc, clean>>
-------------------------------------------------------------------------------
(***************************************************************************)
(* Power restore policy.                                                   *)
(***************************************************************************)
PlatformPowerRestorePolicyDefaultEntry ==
  /\ Whole("PlatformPolicy")
  /\ Installs("PlatformPolicy", TRUE)
  /\ policy' = NoChange
  /\ UNCHANGED <<platform, hob, located, CurrentPowerRestorePolicy, configured, changed,
                 sol, acpi, tables, handlers, bmc, clean>>

\* A platform's own module in place of the default one.
PlatformPolicyEntry ==
  /\ Whole("PlatformPolicy")
  /\ Installs("PlatformPolicy", TRUE)
  /\ policy' \in PolicyValues
  /\ UNCHANGED <<platform, hob, located, CurrentPowerRestorePolicy, configured, changed,
                 sol, acpi, tables, handlers, bmc, clean>>

\* IpmiPowerRestorePolicyEntry up to the BMC's answer.
ReadRestorePolicy ==
  /\ Part("IpmiPowerRestorePolicy")
  /\ \E ok \in BOOLEAN :
       /\ IpmiGetChassisStatus("IpmiPowerRestorePolicy", ok)
       /\ CurrentPowerRestorePolicy' = IF ok THEN bmcPolicy ELSE Unknown
  /\ changed' = FALSE
  /\ UNCHANGED <<platform, policy, configured, sol, acpi, tables, handlers, bmc>>

ConsistentIfUnknown ==
  CurrentPowerRestorePolicy \in {policy, Unknown} \/ policy = NoChange

\* Nothing to set: the BMC has the policy, or is to be left alone.
Consistent == policy \in {CurrentPowerRestorePolicy, NoChange}

\* The rest of it: GetPolicy, the comparison and the command.
SetRestorePolicy ==
  /\ Goes("IpmiPowerRestorePolicy", FALSE)
  /\ \/ /\ configured' = "error"   \* GetPolicy failed
        /\ Service(FALSE)
        /\ UNCHANGED <<located, bmc>>
     \/ /\ Consistent
        /\ configured' = "success"
        /\ UNCHANGED <<located, bmc, clean>>
     \/ /\ ~ Consistent
        /\ \E ok \in BOOLEAN :
             /\ IpmiSetPowerRestorePolicy("IpmiPowerRestorePolicy", ok, policy)
             /\ configured' = IF ok THEN "success" ELSE "error"
  /\ UNCHANGED <<platform, policy, CurrentPowerRestorePolicy, changed, sol, acpi, tables,
                 handlers>>

\* Behind the firmware's back, over the LAN.
Administrator(p) ==
  /\ bmcPolicy' = p /\ chosen' = p
  /\ changed' = TRUE
  /\ UNCHANGED <<platform, dispatch, located, policy, CurrentPowerRestorePolicy, configured,
                 sol, acpi, tables, handlers, bmcAcpi, clean>>
-------------------------------------------------------------------------------
(***************************************************************************)
(* Serial over LAN and FRU.                                                *)
(***************************************************************************)
SolStatusEntryPoint ==
  /\ Part("SolStatus")
  /\ Channel' = 1 /\ RetryCount' = 0
  /\ UNCHANGED <<platform, located, restore, acpi, tables, handlers, bmc, clean>>

RetryWhileFailing(r) == r < SolRetries

\* Another attempt is left after attempt number r (from 0) failed.
Retry(r) == r + 1 < SolRetries

NextChannelNarrow(c) == (c + 1) % (MaxSolChannels + 1)

NextChannel(c) == (c + 1) % 256

\* One attempt of GetSOLStatus; after the last one, the next channel.
GetSOLStatus ==
  /\ Channel <= MaxSolChannels
  /\ Goes("SolStatus", TRUE)
  /\ \E ok \in BOOLEAN :
       /\ IpmiGetSolConfigurationParameters("SolStatus", ok)
       /\ IF ~ ok /\ Retry(RetryCount)
            THEN RetryCount' = RetryCount + 1 /\ UNCHANGED Channel
            ELSE RetryCount' = 0 /\ Channel' = NextChannel(Channel)
  /\ UNCHANGED <<platform, restore, acpi, tables, handlers, bmc>>

SolStatusReturns ==
  /\ Channel > MaxSolChannels
  /\ Goes("SolStatus", FALSE)
  /\ UNCHANGED <<platform, located, restore, sol, acpi, tables, handlers, bmc, clean>>

\* Two commands that read and keep nothing, the second if the first succeeds
\* and names a FRU inventory.
InitializeFru ==
  /\ Whole("IpmiFru")
  /\ \E ok \in BOOLEAN :
       \/ IpmiGetDeviceId("IpmiFru", ok)
       \/ Found("IpmiFru") /\ IpmiGetFruInventoryAreaInfo("IpmiFru", ok)
  /\ UNCHANGED <<platform, installed, hob, restore, sol, acpi, tables, handlers, bmc>>
-------------------------------------------------------------------------------
(***************************************************************************)
(* Tables for the operating system.  SpecificationVersion is BCD with the  *)
(* major revision in the low digit: 51h for IPMI 1.5.  SPMI wants 0150h,   *)
(* SMBIOS type 38 wants 15h.                                               *)
(***************************************************************************)
SpmiRevision(v) == (v \div 16) * 16 + (v % 16) * 256

Type38Revision(v) == (v \div 16) + (v % 16) * 16

\* Locate the transport, Get Device ID; the table is filled in only if both succeed.
UpdateAcpiSpmiTables(ok) ==
  /\ ok => "GenericIpmiDxe" \in installed
  /\ Service(ok) /\ UNCHANGED located

\* Memory, the command or InstallAcpiTable may fail.
SpmiTableEntryPoint ==
  /\ Whole("SpmiTable")
  /\ \E ok \in BOOLEAN :
       /\ UpdateAcpiSpmiTables(ok)
       /\ spmi' = IF ok THEN SpmiRevision(version) ELSE spmi
  /\ UNCHANGED <<platform, installed, hob, restore, sol, acpi, type38, readyToBootEvent,
                 handlers, bmc>>

\* The first volume with the driver's storage file, 0 if there is none.
LocateSupportProtocol ==
  LET found == {i \in DOMAIN volumes : volumes[i] > 0}
  IN  IF found = {} THEN 0 ELSE Min(found)

BmcAcpiEntryPoint ==
  /\ Part("BmcAcpi")
  /\ FwVol' = LocateSupportProtocol /\ Instance' = 0
  /\ UNCHANGED <<platform, located, restore, sol, ssdt, tables, handlers, bmc, clean>>

\* ReadSection finds a section number Instance in the file.
HasSection == FwVol # 0 /\ Instance < volumes[FwVol]

\* One round of the loop.  UpdateDeviceSsdtTable never fails.  A table that is
\* not accepted ends the loop, as a missing section does; EFI_SUCCESS is
\* returned in either case.
InstallSection ==
  /\ HasSection
  /\ \E ok \in BOOLEAN :
       /\ Goes("BmcAcpi", ok) /\ Service(ok)
       /\ ssdt' = IF ok THEN ssdt + 1 ELSE ssdt
  /\ Instance' = Instance + 1
  /\ UNCHANGED <<platform, located, restore, sol, FwVol, tables, handlers, bmc>>

BmcAcpiReturns ==
  /\ ~ HasSection
  /\ Goes("BmcAcpi", FALSE)
  /\ UNCHANGED <<platform, located, restore, sol, acpi, tables, handlers, bmc, clean>>

IpmiSmbiosEntry ==
  /\ Whole("IpmiSmbios")
  /\ \E ok \in BOOLEAN :
       /\ Service(ok)
       /\ readyToBootEvent' = IF ok THEN "open" ELSE "none"
  /\ UNCHANGED <<platform, installed, hob, located, restore, sol, acpi, spmi, type38,
                 handlers, bmc>>

\* Without SMBIOS, without the BMC's answer or if Add fails: no record.
CreateIpmiSmbiosType38 ==
  \/ /\ "Smbios" \notin installed
     /\ UNCHANGED <<located, type38, clean>>
  \/ /\ "Smbios" \in installed
     /\ \E ok \in BOOLEAN :
          /\ IpmiGetDeviceId("IpmiSmbios", ok)
          /\ type38' = IF ok THEN Append(type38, Type38Revision(version)) ELSE type38

IpmiSmbiosKeepEvent ==
  /\ UNCHANGED readyToBootEvent
  /\ CreateIpmiSmbiosType38

IpmiSmbiosCreateOnReadyToBoot ==
  /\ readyToBootEvent' = "closed"
  /\ CreateIpmiSmbiosType38

\* BDS signals the event for each boot option it tries.
ReadyToBoot ==
  /\ phase \in {"bds", "rtb"} /\ phase' = "rtb"
  /\ \/ /\ readyToBootEvent = "open"
        /\ IpmiSmbiosCreateOnReadyToBoot
     \/ /\ readyToBootEvent # "open"
        /\ UNCHANGED <<located, type38, readyToBootEvent, clean>>
  /\ UNCHANGED <<platform, pending, driver, installed, hob, restore, sol, acpi, spmi,
                 handlers, bmc>>
-------------------------------------------------------------------------------
(***************************************************************************)
(* ACPI power state, from SMM.                                             *)
(***************************************************************************)

InitializeIfTransport ==
  /\ Whole("BmcAcpiPowerState")
  /\ handlers' = IF "GenericIpmiSmm" \in installed THEN {"S5", "ExitBootServices"} ELSE {}
  /\ UNCHANGED <<platform, installed, hob, located, restore, sol, acpi, tables, bmc, clean>>

\* Either registration may fail; the first failure is only logged.
InitializeBmcAcpiPowerStateSmm ==
  /\ Whole("BmcAcpiPowerState")
  /\ handlers' \in SUBSET {"S5", "ExitBootServices"}
  /\ Service(handlers' = {"S5", "ExitBootServices"})
  /\ UNCHANGED <<platform, installed, hob, located, restore, sol, acpi, tables, bmc>>

SetBmcAcpiPowerState(state) ==
  /\ \E ok \in BOOLEAN :
       /\ IpmiSubmitCommand("BmcAcpiPowerState", ok)
       /\ bmcAcpi' \in (IF Found("BmcAcpiPowerState") THEN {state} ELSE {})
                         \cup (IF ok THEN {} ELSE {bmcAcpi})
  /\ UNCHANGED <<bmcPolicy, chosen>>

NotHandled == UNCHANGED <<located, bmc, clean>>

BmcAcpiPowerStateExitBootServicesCallback ==
  IF "ExitBootServices" \in handlers THEN SetBmcAcpiPowerState("S0") ELSE NotHandled

BmcAcpiPowerStateS5EntryCallBack ==
  IF "S5" \in handlers THEN SetBmcAcpiPowerState("S5") ELSE NotHandled

ExitBootServices ==
  /\ phase = "rtb" /\ phase' = "os"
  /\ BmcAcpiPowerStateExitBootServicesCallback
  /\ UNCHANGED <<platform, pending, driver, installed, hob, restore, sol, acpi, tables,
                 handlers>>

\* Shutdown, by the operating system or from a boot option.
EnterS5 ==
  /\ phase \in {"rtb", "os"} /\ phase' = "s5"
  /\ BmcAcpiPowerStateS5EntryCallBack
  /\ UNCHANGED <<platform, pending, driver, installed, hob, restore, sol, acpi, tables,
                 handlers>>

\* Power fails or the system is reset: no handler runs.
PowerLoss ==
  /\ phase # "off" /\ phase' = "off"
  /\ ForgetMemory
  /\ UNCHANGED <<bmcPolicy, bmcAcpi, clean>>
-------------------------------------------------------------------------------
Firmware ==
  \/ PeimIpmiInterfaceInit \/ DxeGenericIpmiEntry \/ InitializeSmmGenericIpmi
  \/ \E d \in {"AcpiTable", "Smbios", "SxDispatch"} : PlatformDriver(d)
  \/ PlatformPowerRestorePolicyDefaultEntry \/ PlatformPolicyEntry
  \/ ReadRestorePolicy \/ SetRestorePolicy
  \/ SolStatusEntryPoint \/ GetSOLStatus \/ SolStatusReturns
  \/ InitializeFru
  \/ SpmiTableEntryPoint
  \/ BmcAcpiEntryPoint \/ InstallSection \/ BmcAcpiReturns
  \/ IpmiSmbiosEntry
  \/ InitializeBmcAcpiPowerStateSmm
  \/ NextPhase

Next ==
  \/ Firmware
  \/ StartBoot \/ ReadyToBoot \/ ExitBootServices \/ EnterS5 \/ PowerLoss
  \/ \E p \in PolicyValues : Administrator(p)

\* The processor runs on; what users and the operating system do is up to them.
Spec == Init /\ [][Next]_vars /\ WF_vars(Firmware)
-------------------------------------------------------------------------------
(***************************************************************************)
(* Properties.                                                             *)
(***************************************************************************)

\* EFI_SUCCESS of IpmiPowerRestorePolicyEntry means what its header says: the
\* BMC has the platform's policy, whether or not it could be read before and
\* however many commands of this boot or an earlier one were half done, until
\* an administrator changes it; and NoChange keeps the administrator's choice.
PolicySettled ==
  /\ configured = "success" /\ policy # NoChange /\ ~ changed => bmcPolicy = policy
  /\ bmcPolicy # chosen => policy = bmcPolicy

\* With nothing failing the BMC knows the ACPI state in the operating system
\* and after an orderly shutdown, in whichever order the two SMM drivers were
\* dispatched (the depex of BmcAcpiPowerState names the DXE protocol while its
\* library wants the SMM one), and whatever state the last boot left behind.
PowerStateReported ==
  {"BmcAcpiPowerState", "GenericIpmiSmm", "GenericIpmiDxe", "SxDispatch"} \subseteq build
    /\ clean
  => /\ phase = "os" => bmcAcpi = "S0"
     /\ phase = "s5" => bmcAcpi = "S5"

\* The driver's storage file, the one in the first volume that has any, holds n
\* tables.
StoredTables(n) ==
  \/ n = 0 /\ \A i \in DOMAIN volumes : volumes[i] = 0
  \/ \E i \in DOMAIN volumes :
       n > 0 /\ volumes[i] = n /\ \A j \in 1..(i - 1) : volumes[j] = 0

\* However often ReadyToBoot is signalled there is at most one type 38 record.
\* With nothing failing, each table of the build is there when a boot option
\* starts, every SSDT of the storage file included, and the two revisions name
\* the same version.
TablesPublished ==
  /\ Len(type38) <= 1
  /\ phase \in {"rtb", "os"} /\ clean /\ {"GenericIpmiDxe", "AcpiTable", "Smbios"} \subseteq build
     => /\ "SpmiTable" \in build /\ "IpmiSmbios" \in build
           => type38 # <<>> /\ spmi = 16 * type38[1]
        /\ "BmcAcpi" \in build => StoredTables(ssdt)

\* Every boot gets past the drivers: no order of dispatch, no failing or missing
\* BMC and no number of SOL channels keeps one of them in its loop.
BootEnds == phase \in {"pei", "dxe"} ~> phase \in {"bds", "off"}
===============================================================================
