SPECIFICATION Spec
CONSTANTS
  Keys = {k1, k2}
  Values = {v1, v2}
  Nil = Nil
  Clients = {c1, c2}
  Steps = {0}
  OptSync = FALSE
  SegmentSize = 3
  Faults <- Crashes
  MaxLog = 4
  MaxOpens = 3
SYMMETRY Symmetry
INVARIANTS TypeOK IInv ReadsLatestCommit SyncedCommitsSurvive
PROPERTIES RefinesKVStore
CHECK_DEADLOCK FALSE
