SPECIFICATION Spec
CONSTANTS
  Claims = {c1}
  Drops = {d1}
  SlotLimit = 2
  RootExists = TRUE
  PassRuns = FALSE
  SlowTransfers = FALSE
  MaxFaults = 1
  None = None
  DropOf <- OneDrop
SYMMETRY ClaimSymmetry
INVARIANTS
  BytesSafe
CHECK_DEADLOCK FALSE
