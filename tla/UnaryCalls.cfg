SPECIFICATION FairSpec
CONSTANTS
  Calls = {c1, c2}
  KnownSets = {{c1}}
  Replicas = {r1, r2}
  Streaming = {r1}
  Late = {r2}
  Services = {echo}
  NoService = NoService
  Frame = Frame
  CtxErrors = {"DeadlineExceeded"}
  Target <- MCTarget
  Nid <- MCNid
CHECK_DEADLOCK FALSE
INVARIANT TypeOK
PROPERTIES ImplementsContract RequestIsHandled
