SPECIFICATION ESpec
CHECK_DEADLOCK FALSE
CONSTANTS
  None = None
  Tasks = {t1, t2, t3}
  First = {p1, p2}
  Second = {q1}
  Workers <- Classes
  BatchSize = 2
  MaxDeaths = 1
INVARIANTS
  OwnObject
  NothingLeft
  Blame
SYMMETRY Symmetry
