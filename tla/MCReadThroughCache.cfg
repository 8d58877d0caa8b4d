SPECIFICATION Spec
CONSTANTS
  k1 = k1  k2 = k2  p1 = p1  c1 = c1  c2 = c2  c3 = c3  w1 = w1
  Keys = {k1, k2}
  Projects = {p1}
  ProjectOf <- ViewsOf
  Callers = {c1, c2, c3}
  Writers = {w1}
  MaxEntries = 1
  MaxWrites = 2
  None = None
INVARIANTS TypeOK WithinLimit MissesAreFresh HitsAreFresh
PROPERTIES EveryCallAnswered
CHECK_DEADLOCK FALSE
