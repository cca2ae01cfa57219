SPECIFICATION MCSpec
CONSTANTS
  a = a
  b = b
  c = c
  d = d
  Threads <- MCThreads
  Roots = {a, d}
  Openable = {a, c}
  PageSize = 1
  MaxDepth = 4
  MaxRounds = 2
  MaxOpens = 2
  MaxUntold = 0
  kid = kid
  SessionIds = {a, b}
  Children = {kid}
  Owner <- MCOwner
  s1 = s1
  x = x
  y = y
  z = z
  Calls = {}
  Streams = {s1}
  Requests <- MCRequests
  AllowHost = FALSE
  MaxObjects = 3
INVARIANT ClosedWholly
CHECK_DEADLOCK FALSE
