SPECIFICATION Spec
CONSTANTS
  Replies = {r1}
  InboxCap = 1
  RecvCap = 1
  MaxAdmin = 0
  MaxGen = 2
  MaxFrames = 4
  MaxSends = 2
  WireCap = 1
CHECK_DEADLOCK FALSE
INVARIANTS
  TypeOK
  ResponseProtocol
  HandlerSeesPrefix
  LiveHandlerReachable
