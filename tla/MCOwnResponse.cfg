SPECIFICATION FairSpec
CONSTANTS
  Commands = {getId, setTimer}
  DataSizes <- MCDataSizes
  BufferSizes <- MCBufferSizes
  NoBuffer = NoBuffer
  NoAnswer = NoAnswer
  MaxRetries = 2
  MaxSoftCount = 2
  CountMax = 3
  MaxInFlight = 2
  MaxErrors = 4
INVARIANTS
  ResponseIsOwn
