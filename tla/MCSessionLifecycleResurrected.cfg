SPECIFICATION Spec
CONSTANTS
  Nobody = Nobody
  Unmade = {n, m}
  Ids = {s, n, m}
  Stored = {s}
  Opened = {s}
  Requests = {p}
  Kinds = {"prompt"}
  MaxSessions = 2
  MaxTurns = 2
INVARIANTS NoneResurrected
CHECK_DEADLOCK FALSE
