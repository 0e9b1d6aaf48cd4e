SPECIFICATION ReplySpec
CONSTANTS
  MaxContent = 1
  KeepAliveAnswers = 2
CHECK_DEADLOCK FALSE
INVARIANT ClosedAsAnnounced
