SPECIFICATION FairSpec
CONSTANTS
  Sessions = {s1, s2}
  Repair = Repair
  NoOne = NoOne
  MaxEvents = 2
  MaxReloads = 1
  MaxFails = 1
PROPERTIES FailedIsSilent RetirementEnds
CHECK_DEADLOCK FALSE
