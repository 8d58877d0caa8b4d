SPECIFICATION Spec
CONSTANTS
  k1 = k1  k2 = k2  a = a  b = b  f1 = f1  f2 = f2
  Keys = {k1, k2}
  Flags = {k2}
  Texts = {a, b}
  FlagText = a
  Calls = {f1, f2}
  Hiding = {f2}
  BatchSize = 2
  MaxRetries = 1
  MaxReports = 3
  None = None
INVARIANTS TypeOK LatestKept ServerHasLatest NothingStranded
PROPERTIES EveryFlushEnds
CHECK_DEADLOCK FALSE
