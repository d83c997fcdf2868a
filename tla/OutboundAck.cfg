SPECIFICATION Spec
CONSTANTS
  None = None
  Drops = {d1}
  Pages = {p1}
  Damaged = {}
  MaxCodeAttempts = 3
  MaxFaults = 1
INVARIANTS
  AckKeepsSecret
CHECK_DEADLOCK FALSE
