SPECIFICATION FairSpec
CONSTANTS
  root = root
  ask = ask
  more = more
  free = free
  Host = Host
  Sessions = {root}
  Callbacks = {ask, free}
  Of <- AskedOf
  HostMethods = TRUE
  PendingLimit = 1
  Resolvable = {ask}
  Requests = {p}
  MaxTurns = 1
INVARIANTS AnsweredOnce NoneAfterSweep NoneBusyWithoutTurn
PROPERTIES GoesOnWithoutClient
CHECK_DEADLOCK FALSE
