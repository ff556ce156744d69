SPECIFICATION Spec
CONSTANTS
  Modes = {"edge"}
  Names = {a}
  Tags = {t1}
  Odd = {}
  Lists = {}
  Workers = {w1, w2}
  OneAdmin = TRUE
  Faults = {}
  MapShards = 1
  TopK = 1
  MaxIds = 2
  MaxAdmin = 1
  MaxChanges = 3
  MaxStarts = 1
  NoBucket = NoBucket
  NoObject = NoObject
  Unreadable = Unreadable
INVARIANT AnswerIsNearest
CHECK_DEADLOCK FALSE
