SPECIFICATION SFairSpec
CHECK_DEADLOCK FALSE
CONSTANTS
  Last = 2
  Num <- TwoStages
  MaxDeaths = 3
  SetsEnv = {2}
  MayCrash = TRUE
INVARIANTS
  Tracked
  OwnEnvironment
PROPERTIES
  Recovers
  Stops
