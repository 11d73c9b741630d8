SPECIFICATION FairSpec
CONSTANTS
  Threshold = 4
  Retain = 2
  Retries = 1
  MaxOverflow = 1
  Callers = FALSE
  MaxTurns = 1
  MaxAnswers = 2
  MaxCalls = 1
  MaxOthers = 1
  MaxFails = 1
  MaxLives = 1
PROPERTIES
  ActivityEnds
CHECK_DEADLOCK FALSE
