SPECIFICATION Spec
CONSTANTS
  Messages = {m1, m2}
  Causes = {"user", "disposed"}
  MaxSteps = 1
  MaxDepth = 1
INVARIANTS DisposalNeverLatches
