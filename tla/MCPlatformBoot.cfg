SPECIFICATION Spec
CONSTANTS
  Builds <- MCBuilds
  PolicyValues <- MCPolicyValues
  Versions <- MCVersions
  FvLayouts <- MCFvLayouts
  MaxSolChannels = 2
  SolRetries = 3
INVARIANTS
  TypeOK
  PolicySettled
  PowerStateReported
  TablesPublished
PROPERTIES
  BootEnds
