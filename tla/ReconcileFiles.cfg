SPECIFICATION Spec
CONSTANTS
  None = None
  Drops = {d1}
  Lanes = {l1}
  LaneOf <- OneLane
  Kind <- AllFiles
  MaxAnnounceAttempts = 1
  MaxEditRetries = 1
  MaxFailedPasses = 2
  MaxDeferredPasses = 2
  GatewayRestarts = 1
  BrokerRestarts = 0
  WriteFaults = 0
  Cancels = 0
  LaneLapses = 1
  UnknownProbes = 1
  MaxFaults = 1
INVARIANTS
  FilesRecorded
CHECK_DEADLOCK FALSE
