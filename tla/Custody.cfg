SPECIFICATION Spec
CONSTANTS
  u1 = u1
  u2 = u2
  o1 = o1
  o2 = o2
  p1 = p1
  User = {u1, u2}
  Admin = {u2}
  Member = {u1}
  Organization = {o1, o2}
  Default = o1
  Project = {p1}
  Offered = {2, 3}
  MaxRequests = 2
  MaxMoves = 2
CHECK_DEADLOCK FALSE
INVARIANTS ProjectKeepsOwner NoProjectLeftBehind HistoryTellsTheWay NobodyWalksOff ListingsAgree
PROPERTY OrganizationKeepsOwner
