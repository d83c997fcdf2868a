SPECIFICATION FairSpec
CONSTANTS
  Lanes = {l1, l2}
  MaxFailedPasses = 2
  MaxDeferredPasses = 3
  FailureBound = 6
INVARIANTS
  OnePassAtATime
  IdlePassesBounded
  ShutLatchExplained
PROPERTIES
  RevivedLaneRetried
CHECK_DEADLOCK FALSE
