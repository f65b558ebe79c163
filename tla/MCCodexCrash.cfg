CONSTANTS
  Requests = {r1}
  Openers = {r1}
  Nobody = nobody
  ToolSets <- MCToolSets
  WireTools = {"a", "b"}
  QueueLimit = 3
  MaxTracked = 2
  MaxPending = 1
  MaxItems = 1
  MaxCalls = 1
  MaxUsage = 1
  MaxFaults = 1
SPECIFICATION FairSpec
PROPERTIES
  CrashedTurnsEnd
CHECK_DEADLOCK FALSE
