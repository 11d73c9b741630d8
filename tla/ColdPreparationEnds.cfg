CONSTANTS
  Preparers = {p1}
  Loaders = {l1}
  Inspectors = {}
  MaxWrites = 1
  MaxForeign = 0
  MaxQueue = 1
SPECIFICATION FairSpec
PROPERTIES
  CallsEnd
