SPECIFICATION MCSpec
CONSTANTS
  Sessions = {s1, s2}
  Observers = 2
  MaxEvents = 3
  MaxDepth = 4
  Attempts = {a1, a2}
  Ids = {i1}
  Callers = {plugin}
  Loop = Loop
  None = None
  MaxReloads = 1
SYMMETRY Symmetry
INVARIANTS AudienceIsServed OneDriver NothingIsLeft
CHECK_DEADLOCK FALSE
