SPECIFICATION Spec
CONSTANTS
  r1 = r1  r2 = r2
  Requests = {r1, r2}
  Keep = 50
  MaxAttempts = 2
  MaxVersions = 2
  MaxEdits = 1
  MaxArrivals = 3
  None = None
PROPERTIES LiveNeverPruned
CHECK_DEADLOCK FALSE
SYMMETRY RequestSymmetry
