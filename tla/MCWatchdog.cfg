SPECIFICATION Spec
CONSTANTS
  Seconds <- MCSeconds
  CountRange = 128
  MaxSignals = 2
  MaxUpdates = 1
CHECK_DEADLOCK FALSE
INVARIANTS
  TypeOK
  ClosedMeansStopped
  OsTimerStarted
