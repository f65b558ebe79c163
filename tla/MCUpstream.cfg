CONSTANTS
  Catalogs <- MCCatalogs
  Histories <- MCHistories
  Declared = {"read", "write"}
  Names = {"read", "write", "undeclared"}
  Ids = {"a", "b"}
  Indexes = {0, 1}
  MaxFrames = 4
SPECIFICATION Spec
INVARIANTS
  OneTerminal
  CallsKeepFaith
  HoldsNothing
PROPERTIES
  SendsAllowed
  RunEnds
CHECK_DEADLOCK FALSE
