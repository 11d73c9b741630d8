SPECIFICATION MCSpec
CONSTANTS
  Callers = {c1}
  Teardown = teardown
  MaxEvents = 3
  Sessions = {s1, s2}
  Repair = Repair
  NoOne = NoOne
  MaxOwned = 2
  MaxReloads = 1
  MaxFails = 1
INVARIANTS NothingLost QueueIsMoving OwnerContinuesLog OwnershipIsSound
PROPERTIES ImplementsDurableLog EverythingSettles
CHECK_DEADLOCK FALSE
