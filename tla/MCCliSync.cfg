SPECIFICATION Spec
CONSTANTS
  k1 = k1  k2 = k2  a = a  b = b  sync = sync  watcher = watcher
  Keys = {k1, k2}
  Texts = {a, b}
  Plain = {sync}
  Watcher = watcher
  ChunkSize = 1
  MaxEdits = 2
  MaxStrays = 1
  MaxBeside = 1
  None = None
SYMMETRY Symmetry
INVARIANTS TypeOK DoneIsExact ClaimsAreTold SavesAreCovered
PROPERTIES ProgressKept
CHECK_DEADLOCK FALSE
