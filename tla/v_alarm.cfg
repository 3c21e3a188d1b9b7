SPECIFICATION AlarmSpec
CONSTANTS
  Keys = {k1, k2}
  Values = {v1}
  MaxSize = 1
  Nodes = {n1, n2, n3}
  None = None
INVARIANTS
  WrapFindsVictim
