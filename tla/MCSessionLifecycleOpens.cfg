SPECIFICATION Spec
CONSTANTS
  Nobody = Nobody
  Unmade = {n, m}
  Ids = {s, n, m}
  Stored = {s}
  Opened = {s}
  Requests = {p, q}
  Kinds = {"resume", "close"}
  MaxSessions = 2
  MaxTurns = 1
PROPERTIES ResumeOpens
CHECK_DEADLOCK FALSE
