CONSTANTS
  Requests = {r1, r2, r3}
  Sessions = {r1}
  Nobody = nobody
  MaxCalls = 2
  MaxFrames = 16
  QueueSize = 1
  MaxLive = 1
  MaxPending = 1
  MaxEvents = 2
  MaxItems = 2
  MaxFaults = 1
SPECIFICATION FairSpec
INVARIANTS
  OnlyParkedExpire
CHECK_DEADLOCK FALSE
