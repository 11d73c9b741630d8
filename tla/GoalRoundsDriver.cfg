SPECIFICATION Spec
CONSTANTS
  MaxChanges = 2
  MaxPrompts = 2
  MaxCancels = 1
  MaxRounds = 2
  Runs = {1, 2, 3}
  OuterAwaits = FALSE
INVARIANT OneDriver
CHECK_DEADLOCK FALSE
