SPECIFICATION MCSpec
CONSTANTS
  parent = parent
  child = child
  x = x
  f = f
  Threads = {parent, child, x}
  Opened = {parent}
  Created = {x}
  Fences = {f}
  Root <- MCRoot
  Target <- MCTarget
  EarlyLimit = 1
  DeliveryLimit = 2
  RegistrationCapacity = 1
  MaxEvents = 2
  s = s
  made = made
  p = p
  q = q
  Missing = Missing
  Kinds = {"new", "resume", "fork", "review", "close", "archive", "delete", "prompt", "cancel"}
  MaxSessions = 2
  MaxTurns = 1
INVARIANTS ExactlyOnce OwnThreadInOrder FenceObservesOwn
PROPERTIES EventsGoOn RequestsAnswered
CHECK_DEADLOCK FALSE
