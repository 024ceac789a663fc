SPECIFICATION FairSpec
CONSTANTS
  Replies = {r1}
  InboxCap = 1
  RecvCap = 1
  MaxAdmin = 1
  MaxGen = 2
  MaxFrames = 2
  MaxSends = 0
  WireCap = 1
CHECK_DEADLOCK FALSE
INVARIANTS
  StatsWellFormed
  StopEndsBegun
PROPERTIES
  WorkersEndAfterStop
  DispatcherReturns
