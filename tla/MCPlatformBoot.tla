---------------------------- MODULE MCPlatformBoot ----------------------------
(* Three platforms: one for the PEI modules, one with the table drivers and  *)
(* the SMM driver, one in which the SMM driver shares the BMC with those     *)
(* that talk to it at length.  Each has the drivers its others depend on.    *)
EXTENDS PlatformBoot

MCBuilds ==
  {Peims \cup {"GenericIpmiDxe", "IpmiFru"},
   {"GenericIpmiDxe", "GenericIpmiSmm", "AcpiTable", "Smbios", "SxDispatch", "SpmiTable",
    "BmcAcpi", "IpmiSmbios", "BmcAcpiPowerState"},
   {"GenericIpmiPei", "GenericIpmiDxe", "GenericIpmiSmm", "SxDispatch",
    "BmcAcpiPowerState", "SolStatus", "IpmiFru"}}
MCPolicyValues == {0, 2}
MCVersions == {81}
MCFvLayouts == {<<0, 2>>, <<1, 2>>}
===============================================================================
