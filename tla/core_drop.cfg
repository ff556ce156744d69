SPECIFICATION FairSpec
CONSTANTS
  a = a  ab = ab  b = b
  Names = {ab, b}
  Keys = {k1}
  Tags = {t1}
  Matching <- Overlapping
  Workers = {w1, w2}
  OneAdmin = TRUE
  Faults = {}
  MaxDocs = 1
  MaxAdmin = 3
  MaxChanges = 1
  MaxStarts = 1
  NoFile = NoFile
  Torn = Torn
PROPERTY DropEnds
CHECK_DEADLOCK FALSE
