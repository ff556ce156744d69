SPECIFICATION Spec
CONSTANTS
  Keys = {k1, k2}
  Values = {v1, v2}
  Nil = Nil
  Merges = {m1}
  SegmentSize = 2
  Faults = {"swap"}
  MaxSegs = 4
  MaxWrites = 4
  MaxOpens = 2
INVARIANTS NothingLost
SYMMETRY Symmetry
CHECK_DEADLOCK FALSE
