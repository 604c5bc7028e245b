SPECIFICATION DiscoverFairSpec
CONSTANTS
  Addr = {a, b, c}
  Guesses = {a, b}
  Nonce = n
  Deadline = 2
INVARIANTS
  DiscoverTypeOK
  VerdictIsTheServers
  SourcedIsNotProbed
PROPERTIES
  RunEnds
CHECK_DEADLOCK FALSE
