SPECIFICATION Spec
CONSTANTS
  Calls = {c1}
  MaxAttempts = 2
  MaxAsks = 2
  MaxSwitches = 0
INVARIANTS
  StoredBeforeEffect
CHECK_DEADLOCK FALSE
