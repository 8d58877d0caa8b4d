SPECIFICATION Spec
CONSTANTS
  n1 = n1  n2 = n2  n3 = n3  hello = hello  spaced = spaced  hi = hi  r1 = r1  r2 = r2
  Names = {n1, n2}
  normalizeText <- Words
  Texts = {hello, spaced, hi}
  Requests = {r1, r2}
  MaxRows = 3
  MaxSaves = 1
  MaxRequests = 3
  None = None  MayCrash = TRUE  MaxBeside = 2
SYMMETRY Symmetry
INVARIANTS TypeOK SyncTakesEffect MergedNamesResolve
PROPERTIES HumanTextsKept
CHECK_DEADLOCK FALSE
