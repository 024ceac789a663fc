SPECIFICATION Spec
CONSTANTS
  Replies = {r1}
  Heartbeat = TRUE
  MsgCap = 2
  RecvCap = 1
  MaxCalls = 1
  CtxErrors = {}
  MaxPings = 1
  MaxData = 3
  WireCap = 1
CHECK_DEADLOCK FALSE
INVARIANTS
  TypeOK
  ReceivesPrefix
  EOFMeansComplete
