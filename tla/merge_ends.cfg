SPECIFICATION FairSpec
CONSTANTS
  Keys = {k1, k2}
  Values = {v1}
  Nil = Nil
  Merges = {m1, m2}
  SegmentSize = 2
  Faults = {"process", "remerge", "swap", "close", "overlap"}
  MaxSegs = 3
  MaxWrites = 2
  MaxOpens = 2
PROPERTIES MergeEnds
CHECK_DEADLOCK FALSE
