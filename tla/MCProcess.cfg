SPECIFICATION MCSpec
CONSTANTS
  server = server
  one = one
  two = two
  message = message
  provider = provider
  Listeners = {server}
  Inits = {one, two}
  On <- MCOn
  Ids = {provider}
  Messages = {message}
  To <- MCTo
  MaxConnections = 2
  MaxSessions = 2
  p = p
  q = q
  r = r
  v1 = v1
  v2 = v2
  Launchers = {p, q, r}
  Versions = {v1, v2}
  VersionOf <- MCVersionOf
  Files = {"codex-app-server", "rg"}
  Required = {"codex-app-server"}
  MaxStarts = 1
INVARIANTS DisconnectedOnce ClosedForGood
PROPERTIES
  GivenUpIsWithdrawn ConnectedIsKnown PermitsReturn RequestsEnd
  FailsForCause StoreSpec LaunchEnds
CHECK_DEADLOCK FALSE
