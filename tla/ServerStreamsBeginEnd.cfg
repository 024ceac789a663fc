SPECIFICATION Spec
CONSTANTS
  Replies = {r1}
  InboxCap = 1
  RecvCap = 1
  MaxAdmin = 0
  MaxGen = 1
  MaxFrames = 3
  MaxSends = 1
  WireCap = 1
CHECK_DEADLOCK FALSE
INVARIANT BeginGetsEnd
