SPECIFICATION FairSpec
CONSTANTS
  Requests <- MCRequests
  Replies <- MCReplies
  BufferSize = 2
  Zero = "0"
  NoAnswer = NoAnswer
INVARIANTS
  TypeOK
  SendDelivers
PROPERTIES
  ImplementsChannel
  NoOverrun
  CallReturns
