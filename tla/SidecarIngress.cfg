SPECIFICATION FairSpec
CHECK_DEADLOCK FALSE
CONSTANTS
  Leases = {g1}
  Replies = {r1}
  NoLease = NoLease
  FrameCap = 1
  MaxFrames = 1
  MaxUp = 1
  WireCap = 1
INVARIANTS TypeOK UpstreamSeesPrefix ReplyProtocol TeardownReaches EndedOrTorndown
PROPERTY DoneMeansGone
