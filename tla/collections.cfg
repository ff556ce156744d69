SPECIFICATION Spec
CONSTANTS
  a = a  ab = ab  b = b
  Names = {a}
  Keys = {k1, k2}
  Tags = {t1, t2}
  Matching <- Overlapping
  Workers = {w1, w2}
  OneAdmin = TRUE
  Faults = {"put", "file", "crash"}
  MaxDocs = 2
  MaxAdmin = 4
  MaxChanges = 3
  MaxStarts = 2
  NoFile = NoFile
  Torn = Torn
SYMMETRY Interchangeable
CONSTRAINT Bounded
INVARIANTS TypeOK Served Agree AckedFound ReleasedSurvive
CHECK_DEADLOCK FALSE
