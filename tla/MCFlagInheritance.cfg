SPECIFICATION Spec
CONSTANTS
  production = production  staging = staging  preview = preview  theirs = theirs
  off = off  on = on  r1 = r1  r2 = r2
  Environments = {production, staging, preview, theirs}
  Production = production
  Foreign = {theirs}
  Values = {off, on}
  Off = off
  Requests = {r1, r2}
  MaxEnvironments = 2
  Operations = {"create", "setParent", "delete", "createFlag", "deleteFlag", "setConfig", "setRules", "promote", "inherit"}
  MaxRequests = 3
  MaxDepth = 6
  None = None
SYMMETRY Symmetry
INVARIANTS TypeOK AcyclicUnlessRaced WithinLimit ConfiguredEverywhere CascadeReachesAll
CHECK_DEADLOCK FALSE
