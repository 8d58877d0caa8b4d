SPECIFICATION Spec
CONSTANTS
  n1 = n1  n2 = n2  n3 = n3  n4 = n4  r1 = r1  r2 = r2
  Names = {n1, n2, n3, n4}
  Requests = {r1, r2}
  Included = 1
  Block = 2
  MaxArrivals = 3
INVARIANTS TypeOK BilledIsInvoiced BilledIsOwed
PROPERTIES NeverRefunded LoneSyncMetered
CHECK_DEADLOCK FALSE
SYMMETRY Symmetry
