CONSTANTS
  Requests = {r1, r2, r3}
  Sessions = {r1}
  Nobody = nobody
  MaxCalls = 2
  MaxFrames = 16
  QueueSize = 1
  MaxLive = 1
  MaxPending = 1
  MaxItems = 2
  MaxUnread = 2
  MaxFaults = 2
SPECIFICATION FairSpec
INVARIANTS
  RepliesFaithful
  UndrivenIsGuarded
  ResultsDelivered
PROPERTIES
  HungUpEnds
CHECK_DEADLOCK FALSE
