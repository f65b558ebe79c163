CONSTANTS
  Requests = {r1, r2, r3}
  Openers = {r1, r2}
  Nobody = nobody
  ToolSets <- MCToolSets
  WireTools = {"a"}
  QueueLimit = 3
  MaxTracked = 1
  MaxPending = 1
  MaxItems = 1
  MaxCalls = 1
  MaxUsage = 0
  MaxFaults = 0
SPECIFICATION Spec
SYMMETRY OpenerSymmetry
INVARIANTS
  TextFaithful
  PlainReplyComplete
  DeclarationHolds
CHECK_DEADLOCK FALSE
