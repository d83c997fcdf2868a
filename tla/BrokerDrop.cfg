SPECIFICATION Spec
CONSTANTS
  d1 = d1  d2 = d2
  f1 = f1  f2 = f2  t1 = t1  x1 = x1  m1 = m1
  r1 = r1  r2 = r2  r3 = r3
  c1 = c1  c2 = c2  w1 = w1
  None = None
  Drops = {d1}
  Requests = {r1, r2}
  Claimants = {c1, c2}
  Waits = {w1}
  Envelopes = {f1, t1, m1, x1}
  FramesPerFile = 2
  Hid <- MCHid
  Lane <- MCLane
  Grade <- MCGrade
  Frames <- MCFrames
  FileReservationBytes = 2
  MaxLiveFileBytes = 3
  MaxAeadFailures = 2
  MaxTransferAttempts = 2
SYMMETRY Callers
INVARIANTS
  TypeOK
  ReservationOwned
  FailuresSpendDrop
  DeliveredWhole
  NoForgottenWait
PROPERTIES
  PayloadKept
  ImplementsOneShot
CHECK_DEADLOCK FALSE
