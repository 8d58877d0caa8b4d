SPECIFICATION Spec
CONSTANTS
  n1 = n1  n2 = n2  n3 = n3  hello = hello  spaced = spaced  hi = hi  r1 = r1  r2 = r2
  Names = {n1, n2, n3}
  normalizeText <- Words
  Texts = {hello}
  Requests = {r1, r2}
  MaxRows = 4
  MaxSaves = 0
  MaxRequests = 3
  None = None  MayCrash = FALSE  MaxBeside = 1
SYMMETRY Symmetry
PROPERTIES OldKeysMarked
CHECK_DEADLOCK FALSE
