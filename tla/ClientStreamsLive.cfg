SPECIFICATION FairSpec
CONSTANTS
  Replies = {r1}
  Heartbeat = TRUE
  MsgCap = 1
  RecvCap = 1
  MaxCalls = 1
  CtxErrors = {"DeadlineExceeded"}
  MaxPings = 0
  MaxData = 2
  WireCap = 1
CHECK_DEADLOCK FALSE
INVARIANTS
  ChannelsClosedOnce
  EndBeforeTeardown
  OutcomeHasCause
  EntryRemoved
PROPERTIES
  ContextEndsStream
