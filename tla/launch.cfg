SPECIFICATION LFairSpec
CHECK_DEADLOCK FALSE
CONSTANTS
  Workers <- Classes
  Programs <- Eleven
  Sources <- Eight
  MayFail = TRUE
  MaySignal = TRUE
INVARIANTS
  SuccessIsReal
  RoutesResolve
  LevelsAgree
  TypedFirst
PROPERTIES
  Terminates
