CONSTANTS
  Keys <- MCKeys
  Profiles = {"CHAT", "AGENT"}
  AnyProfile = "any"
  Signals = {s1}
  NoSignal = none
  Waiters = {w1}
  MaxPending = 2
  MaxCalls = 3
SPECIFICATION FairSpec
INVARIANTS
  IndexConsistent
  DeadlinesMatchCalls
  SettledOnce
  AnswersTruthful
PROPERTIES
  ImplementsLedger
  EveryCallSettles
