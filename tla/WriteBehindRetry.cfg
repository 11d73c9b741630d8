SPECIFICATION Spec
CONSTANTS
  Callers = {c1}
  Teardown = teardown
  MaxEvents = 2
PROPERTY TeardownRetries
CHECK_DEADLOCK FALSE
