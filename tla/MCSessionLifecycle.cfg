SPECIFICATION Spec
CONSTANTS
  Nobody = Nobody
  Unmade = {n, m}
  Ids = {s, n, m}
  Stored = {s}
  Opened = {s}
  Requests = {p, q, w}
  Kinds = {"new", "resume", "fork", "review", "close", "archive", "delete", "prompt", "cancel"}
  MaxSessions = 2
  MaxTurns = 1
SYMMETRY LifecycleSymmetry
INVARIANTS SessionLimit
PROPERTIES TornDown ResumeSparesForeground CancelReaches
CHECK_DEADLOCK FALSE
