SPECIFICATION FairSpec
CHECK_DEADLOCK FALSE
CONSTANTS
  Names = {"a", "b", "c", "d", "lost"}
  NoFile = "-"
  Known = {"a", "b", "c", "d"}
  Deps <- MCDeps
  Symbols = {"A", "D"}
  Defines <- MCDefines
  Services = {"s1", "s2"}
  FileOf <- MCFileOf
  Streams = {"x", "y"}
  MaxRequests = 2
INVARIANTS TypeOK IndexComplete ClientClosed NoResend
PROPERTY RequestsAnswered
