SPECIFICATION MCSpec
CONSTANTS
  Jobs = {j1, j2}
  Owners = {o1}
  Waiters = {w1}
  MaxActive = 1
  Unowned = Unowned
  Service = Service
  NoJob = NoJob
  Policies <- FourPolicies
  MaxRequests = 3
  MaxReloads = 1
INVARIANTS CompletionsAreSound RetriesAreSound
PROPERTIES NothingComesLate EverythingEnds
CHECK_DEADLOCK FALSE
