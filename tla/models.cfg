SPECIFICATION ModelsSpec
CONSTANTS
  m1 = m1
  m2 = m2
  m3 = m3
  m4 = m4
  None = None
  Keys = {m1, m2, m3, m4}
  Values = {model}
  MaxSize = 2
  Nodes = {n1, n2, n3, n4, n5}
  Available = {m1, m2, m3}
  MaxBatch = 3
  MaxStrikes = 1
SYMMETRY AnyModel
INVARIANTS
  LoadOnce
  ServedWhileLoaded
  NoStrayModel
