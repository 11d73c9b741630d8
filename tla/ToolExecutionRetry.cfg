SPECIFICATION Spec
CONSTANTS
  Calls = {c1}
  MaxAttempts = 2
  MaxAsks = 2
  MaxSwitches = 0
INVARIANTS
  CodeIsHonest
CHECK_DEADLOCK FALSE
