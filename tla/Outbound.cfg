SPECIFICATION FairSpec
CONSTANTS
  None = None
  Drops = {d1}
  Pages = {p1, p2}
  Damaged = {p2}
  MaxCodeAttempts = 3
  MaxFaults = 3
INVARIANTS
  OneBrowser
  HolderServed
  AckedWasRead
PROPERTIES
  PayloadsEnd
  ImplementsOneShot
CHECK_DEADLOCK FALSE
