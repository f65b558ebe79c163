CONSTANTS
  Requests = {r1, r2}
  Openers = {r1}
  Nobody = nobody
  ToolSets <- MCToolSets
  WireTools = {"a", "b"}
  QueueLimit = 3
  MaxTracked = 2
  MaxPending = 2
  MaxItems = 2
  MaxCalls = 2
  MaxUsage = 1
  MaxFaults = 2
SPECIFICATION FairSpec
INVARIANTS
  AnsweredOnce
  TextFaithful
  BlockedPumpsListen
  OneParkedPerThread
  CancelLeavesNothing
PROPERTIES
  PlainTurnsEnd
CHECK_DEADLOCK FALSE
