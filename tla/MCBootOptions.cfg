SPECIFICATION FairSpec
CONSTANTS
  Devices = {disk}
  BootNone = BootNone
  MaxRequests = 2
  MaxFailures = 1
  MaxResets = 2
CHECK_DEADLOCK FALSE
INVARIANTS
  TypeOK
  CmosClearsBounded
  OneShotBootsBounded
PROPERTIES
  RequestKept
  BootEnds
