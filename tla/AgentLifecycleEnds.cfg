SPECIFICATION FairSpec
CONSTANTS
  Attempts = {a1, a2}
  Ids = {i1}
  Callers = {plugin}
  Kinds = {"create", "resume"}
  Loop = Loop
  None = None
  MaxReloads = 0
PROPERTIES AbortedSettles UnloadEnds
CHECK_DEADLOCK FALSE
