SPECIFICATION FairSpec
CHECK_DEADLOCK FALSE
CONSTANTS
  Variants = {"sidecar", "proxyLong"}
  MaxMsgs = 2
  MsgCap = 1
INVARIANTS TypeOK HalfCloseComplete AppOutcomeTrue
PROPERTY RelayEnds
