CONSTANTS
  a = a
  b = b
  t1 = t1
  t2 = t2
  Names = {a, b}
  EmptyName = empty
  Stray = stray
  NoId = noid
  Tokens = {t1, t2}
  NoToken = notoken
  ServerTokens <- MCTokens
  Registered = {a}
  Grants <- MCGrants
  Requests <- MCRequests
  Models <- MCModels
SPECIFICATION Spec
INVARIANTS
  SurfacesAgree
  GrantsHold
  ConstraintsReachProvider
  PublishedIsEnforced
CHECK_DEADLOCK FALSE
