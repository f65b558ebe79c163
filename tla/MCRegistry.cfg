CONSTANTS
  Routers = {p1, p2}
  Runs = {s1, s2}
  MaxLive = 1
  MaxCrashes = 1
SPECIFICATION FairSpec
INVARIANTS
  WritersUndisturbed
  BoundedUnlessStolen
  RunsFindable
PROPERTIES
  RegisterEnds
CHECK_DEADLOCK FALSE
