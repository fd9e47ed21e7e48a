SPECIFICATION FlowSpec
CONSTANTS
  MaxEvents = 3
  Cap = 2
  Limit = 2
  Critical = {2}
  Handlers = {h1, h2}
  NoHandler = NoHandler
  Policies = {p1, p2}
  Rules = {r1}
  Streams = {s1}
  NoStream = NoStream
  NoPolicy = NoPolicy
  TypedLabels = 1
  Observers = {o1, o2}
  MaxQueueDepth = 5
INVARIANTS NoSilentLoss
INVARIANTS ActedOnStored
INVARIANTS TapAccounts
INVARIANTS StoppedIsDrained
INVARIANTS FindingsKeepHeadroom
PROPERTIES BufferDrains
PROPERTIES PolicyArrives
PROPERTIES StopEnds
