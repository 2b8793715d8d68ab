SPECIFICATION SmiSpec
CONSTANTS
  Requests <- MCRequests
  Replies <- MCReplies
  DxeRequests <- MCDxeRequests
  SmmRequests <- MCSmmRequests
  AnswersTo <- MCAnswersTo
  MaxSmis = 2
  BufferSize = 2
  Zero = "0"
  NoAnswer = NoAnswer
INVARIANTS
  WholeRequests
PROPERTIES
  OwnAnswers
  NoOverrunBySmi
