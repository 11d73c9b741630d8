SPECIFICATION MCSpec
CONSTANTS
  NumCalls = 4
  MaxParallel = 2
  call1 = c1
  call2 = c2
INVARIANTS ExclusiveAlone PoolBounded ApprovalIsSound EffectsAreHonest
PROPERTIES NoStartAfterAbort ImplementsToolBatch OutcomeIsKept CallsEnd
CHECK_DEADLOCK FALSE
