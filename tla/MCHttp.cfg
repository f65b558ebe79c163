CONSTANTS
  r1 = r1
  r2 = r2
  Exchanges = {r1, r2}
  Asks <- MCAsks
  Calls = {0, 1}
  MaxRecords = 1
  MaxEvents = 3
SPECIFICATION Spec
INVARIANTS
  CompletedSurvives
  OnlyWholeCalls
  WireOrder
  UsageAccounted
CHECK_DEADLOCK FALSE
