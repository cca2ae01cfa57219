SPECIFICATION MCSpec
CONSTANTS
  root = root
  child = child
  i1 = i1
  i2 = i2
  c1 = c1
  Threads <- ReplayThreads
  Items = {i1, i2, c1}
  ThreadOf <- ItemThread
  PageSize = 1
  MaxReplay = 2
  MaxCalls = 2
  MaxPrinted = 4
  Fields = {model, mode}
  Covered = {model}
  Values = {v1, v2}
  MaxSettings = 3
  MaxReported = 3
INVARIANTS TypeOK ViewSettles CacheSettles WaitHasCause
PROPERTIES NeverBackward CompleteIsWhole EffectiveWhenAnswered
CHECK_DEADLOCK FALSE
