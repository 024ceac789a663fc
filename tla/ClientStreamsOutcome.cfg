SPECIFICATION Spec
CONSTANTS
  Replies = {r1}
  Heartbeat = TRUE
  MsgCap = 2
  RecvCap = 1
  MaxCalls = 2
  CtxErrors = {}
  MaxPings = 0
  MaxData = 2
  WireCap = 1
CHECK_DEADLOCK FALSE
INVARIANT NobodyCancelled
