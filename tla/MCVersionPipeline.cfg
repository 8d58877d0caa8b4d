SPECIFICATION Spec
CONSTANTS
  r1 = r1  r2 = r2
  Requests = {r1, r2}
  Keep = 1
  MaxAttempts = 2
  MaxVersions = 3
  MaxEdits = 2
  MaxArrivals = 5
  None = None
INVARIANTS TypeOK LiveIsSealed NumbersGapless
PROPERTIES PendingChangesKept PublishEffective ImplementsLog
CHECK_DEADLOCK FALSE
SYMMETRY RequestSymmetry
