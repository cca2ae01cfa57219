SPECIFICATION FairSpec
CONSTANTS
  Calls = {init, a}
  Posts = {inited}
  Initialize = init
  Initialized = inited
  OutboundCapacity = 1
  EventCapacity = 2
  MaxInFlight = 1
  MaxFrames = 2
PROPERTIES EndsForAll KeepsPromise
INVARIANTS NoStrandedCall AnswersCorrelated PositionsFollowOutput NoSilentLoss
CHECK_DEADLOCK FALSE
