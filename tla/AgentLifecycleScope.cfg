SPECIFICATION Spec
CONSTANTS
  Attempts = {a1, a2}
  Ids = {i1}
  Callers = {plugin}
  Kinds = {"create", "setup", "resume", "configured"}
  Loop = Loop
  None = None
  MaxReloads = 0
INVARIANT ScopeAfterDrain
CHECK_DEADLOCK FALSE
