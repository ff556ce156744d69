SPECIFICATION Spec

CONSTANTS
  Workers = {w1, w2}
  Points = {0, 1, 4, 6}
  M = 2
  MMax = 2
  MMax0 = 2
  MaxNodes = 4
  MaxRemoved = 2
  MaxLevel = 1
  MaxOverlaps = 1

INVARIANT TypeOK
INVARIANT EdgesFit
INVARIANT DegreeBounded
INVARIANT ExactWhenSmall
INVARIANT ExactWhileGrowing

PROPERTY ReloadKeepsAnswers

SYMMETRY Symmetry

CHECK_DEADLOCK FALSE
