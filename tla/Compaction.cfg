SPECIFICATION MCSpec
CONSTANTS
  Threshold = 4
  Retain = 2
  Retries = 1
  MaxOverflow = 1
  Callers = TRUE
  MaxTurns = 2
  MaxAnswers = 2
  MaxCalls = 2
  MaxOthers = 2
  MaxFails = 1
  MaxLives = 2
INVARIANTS SelectionsAreSound CompactionsAreSound
PROPERTIES ReplacementsAreSound
CHECK_DEADLOCK FALSE
