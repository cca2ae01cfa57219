SPECIFICATION MCSpec
CONSTANTS
  a = a
  b = b
  c = c
  d = d
  Threads <- MCThreads
  Roots = {a, b}
  Openable = {a, c}
  PageSize = 1
  MaxDepth = 4
  MaxRounds = 2
  MaxOpens = 2
  MaxUntold = 2
  kid = kid
  SessionIds = {a, b}
  Children = {kid}
  Owner <- MCOwner
  s1 = s1
  x = x
  y = y
  z = z
  Calls = {x, y, z}
  Streams = {s1}
  Requests <- MCRequests
  AllowHost = FALSE
  MaxObjects = 3
INVARIANTS OwnerIsAncestor  EventsRouted ClosedSilent
PROPERTIES ForwardedOwned
CHECK_DEADLOCK FALSE
