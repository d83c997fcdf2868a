SPECIFICATION FairSpec
CONSTANTS
  Claims = {c1}
  Drops = {d1}
  SlotLimit = 1
  RootExists = FALSE
  PassRuns = TRUE
  SlowTransfers = TRUE
  MaxFaults = 2
  None = None
  DropOf <- OneDrop
INVARIANTS
  StagingSpared
PROPERTIES
  CallsEnd
  EntriesEnd
CHECK_DEADLOCK FALSE
