SPECIFICATION FairSpec
CONSTANTS
  Requests <- MCRequests
  Replies <- MCReplies
  WriteMax = 2
  ReadMax = 4
  BufferSize = 9
  ByteRange = 11
  LastBlock = 4
  MaxInFlight = 1
  NoAnswer = NoAnswer
INVARIANTS
  TypeOK
PROPERTIES
  ImplementsChannel
  SendDelivers
  FaultsRefused
  CallReturns
