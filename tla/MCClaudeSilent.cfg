CONSTANTS
  Requests = {r1, r2}
  Sessions = {r1}
  Nobody = nobody
  MaxCalls = 2
  MaxFrames = 16
  QueueSize = 1
  MaxLive = 1
  MaxPending = 1
  MaxItems = 2
  MaxUnread = 2
  MaxFaults = 2
SPECIFICATION Spec
INVARIANTS
  FailuresTold
CHECK_DEADLOCK FALSE
