SPECIFICATION FairSpec
CONSTANTS
  Clients = {dxe, smm}
  Records = {r1, r2}
  SEL_COUNT = 3
  MaxTruncated = 1
INVARIANTS
  TypeOK
  AckedKept
PROPERTIES
  ClearedOld
  CallReturns
