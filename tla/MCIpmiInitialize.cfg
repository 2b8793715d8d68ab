SPECIFICATION FairSpec
CONSTANTS
  ReadyDelay = 3
  BmcTimeout = 2
  CountRange = 8
  SelfTestSettings = {TRUE, FALSE}
  DeviceIdSize = 4
  ContextSize = 2
  SelfTestSize = 3
  TempSize = 5
  SelfTestParams <- MCSelfTestParams
  NoHob = NoHob
  NoResult = NoResult
CHECK_DEADLOCK FALSE
INVARIANTS
  TypeOK
  ReadyNotMissed
  HobSparesBmc
PROPERTIES
  InitTerminates
