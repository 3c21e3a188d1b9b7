SPECIFICATION CSpec
CHECK_DEADLOCK FALSE
CONSTANTS
  MaxBatches = 2
  MaxItems = 2
  MaxEvents = 2
  MaxExamples = 1
  WarmEvents = 1
  MaxRetry = 1
  MayAlarm = TRUE
  MayFail = TRUE
  MayBreak = TRUE
  MayStop = TRUE
INVARIANT
  OwnIds
