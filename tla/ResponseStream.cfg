SPECIFICATION ReplyFairSpec
CONSTANTS
  this = this
  that = that
  NoAnswer = NoAnswer
  Pieces <- MCPieces
  MaxText = 3
  MaxTools = 2
  MaxPings = 1
  Limit = 9
  HighWater = 3
INVARIANTS StreamIsWellFormed
PROPERTIES EndIsTold ImplementsAnswerStream AbandonedRepliesEnd
CHECK_DEADLOCK FALSE
