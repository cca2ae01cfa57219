SPECIFICATION Spec
CONSTANTS
  a = a
  child = child
  x = x
  f = f
  Threads = {a, child, x}
  Opened = {a}
  Created = {x}
  Fences = {f}
  Root <- MCRoot
  Target <- MCTarget
  EarlyLimit = 1
  DeliveryLimit = 2
  RegistrationCapacity = 1
  MaxEvents = 2
CHECK_DEADLOCK FALSE
INVARIANTS CallbacksAttached
