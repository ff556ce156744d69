SPECIFICATION Spec
CONSTANTS
  Keys = {k1, k2}
  Values = {v1}
  Nil = Nil
  Clients = {c1, c2}
  Steps = {0}
  OptSync = FALSE
  SegmentSize = 2
  Faults <- Failures
  MaxLog = 4
  MaxOpens = 2
SYMMETRY Symmetry
PROPERTIES FrozenView AckedOutOfHarm
CHECK_DEADLOCK FALSE
