SPECIFICATION MCSpec
CONSTANTS
  Preparers = {p1}
  Loaders = {l1}
  Inspectors = {i1}
  MaxWrites = 3
  MaxForeign = 1
  MaxQueue = 1
  Message = m1
  Steer = m2
  ToolCalls = {c1, c2}
SYMMETRY CallSymmetry
INVARIANTS PreparationIsSound AnswersAreFresh RecoveryIsHonest InputIsAccounted
CHECK_DEADLOCK FALSE
