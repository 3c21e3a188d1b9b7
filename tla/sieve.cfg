SPECIFICATION FairSpec
CONSTANTS
  Keys = {k1, k2, k3, k4}
  Values = {v1}
  MaxSize = 3
  Nodes = {n1, n2, n3, n4}
  None = None
INVARIANTS
  Consistent
PROPERTIES
  Terminates
  Refines
