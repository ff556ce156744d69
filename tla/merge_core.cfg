SPECIFICATION Spec
CONSTANTS
  Keys = {k1, k2, k3}
  Values = {v1, v2}
  Nil = Nil
  Merges = {m1, m2}
  SegmentSize = 2
  Faults = {"process"}
  MaxSegs = 4
  MaxWrites = 4
  MaxOpens = 3
SYMMETRY Symmetry
INVARIANTS TypeOK NothingLost FinishedMeansMerged MergeFits MergedOnce
CHECK_DEADLOCK FALSE
