SPECIFICATION Spec
CONSTANTS
  Claims = {c1, c2}
  Drops = {d1}
  SlotLimit = 2
  RootExists = TRUE
  PassRuns = FALSE
  SlowTransfers = FALSE
  MaxFaults = 2
  None = None
  DropOf <- OneDrop
SYMMETRY ClaimSymmetry
INVARIANTS
  PublishedIsCommitted
  VerdictHonest
  BytesSafeUnlessCutHolding
  SlotsReturn
  PathsStay
CHECK_DEADLOCK FALSE
