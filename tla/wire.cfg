SPECIFICATION WFairSpec
CHECK_DEADLOCK FALSE
CONSTANTS
  Work <- TwoBatches
  Buffer = 20
  Events = 1
  MayBreak = TRUE
INVARIANTS
  WholeBatches
  RightReplies
PROPERTIES
  Served
  Leaves
