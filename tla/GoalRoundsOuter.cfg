SPECIFICATION Spec
CONSTANTS
  MaxChanges = 2
  MaxPrompts = 1
  MaxCancels = 0
  MaxRounds = 2
  Runs = {1, 2, 3}
  OuterAwaits = TRUE
INVARIANT GoalFolds
CHECK_DEADLOCK FALSE
