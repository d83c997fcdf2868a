SPECIFICATION FairSpec
CONSTANTS
  None = None
  Drops = {d1}
  Lanes = {l1}
  LaneOf <- OneLane
  Kind <- AllFiles
  MaxAnnounceAttempts = 1
  MaxEditRetries = 1
  MaxFailedPasses = 2
  MaxDeferredPasses = 2
  GatewayRestarts = 1
  BrokerRestarts = 1
  WriteFaults = 1
  Cancels = 1
  LaneLapses = 1
  UnknownProbes = 1
  MaxFaults = 1
INVARIANTS
  TypeOK
  VerdictTrue
  DeadLinkFlagged
  ClaimedMeansSpent
  WaitingIsWatched
PROPERTIES
  CleanPassLeavesNothing
  WaitingResolved
CHECK_DEADLOCK FALSE
