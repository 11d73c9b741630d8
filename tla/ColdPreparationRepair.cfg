CONSTANTS
  Preparers = {p1}
  Loaders = {}
  Inspectors = {}
  MaxWrites = 2
  MaxForeign = 0
  MaxQueue = 1
SPECIFICATION Spec
PROPERTIES
  AppendContinuesLog
