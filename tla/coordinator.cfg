SPECIFICATION CFairSpec
CHECK_DEADLOCK FALSE
CONSTANTS
  MaxBatches = 2
  MaxItems = 2
  MaxEvents = 2
  MaxExamples = 1
  WarmEvents = 0
  MaxRetry = 0
  MayAlarm = TRUE
  MayFail = TRUE
  MayBreak = TRUE
  MayStop = TRUE
INVARIANTS
  OneWriter
  EventOwner
  ReplyIsLast
PROPERTIES
  Replied
  EventSent
