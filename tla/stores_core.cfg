SPECIFICATION Spec
CONSTANTS
  Modes = {"edge", "multi"}
  Names = {a}
  Tags = {t1, null, list}
  Odd = {null, list}
  Lists = {list}
  Workers = {w1, w2}
  OneAdmin = TRUE
  Faults = {"storage", "crash", "dimension"}
  MapShards = 2
  TopK = 1
  MaxIds = 2
  MaxAdmin = 3
  MaxChanges = 3
  MaxStarts = 2
  NoBucket = NoBucket
  NoObject = NoObject
  Unreadable = Unreadable
SYMMETRY Interchangeable
CONSTRAINT Bounded
INVARIANTS TypeOK Served AckedFound FlushedSurvive CallsGoOn AnswerIsTop AnswerIsWhole
CHECK_DEADLOCK FALSE
