SPECIFICATION Spec
CONSTANTS
  Nobody = Nobody
  Unmade = {n, m}
  Ids = {s, n, m}
  Stored = {s}
  Opened = {}
  Requests = {p, q}
  Kinds = {"resume"}
  MaxSessions = 2
  MaxTurns = 1
INVARIANTS ResumeDetached
CHECK_DEADLOCK FALSE
