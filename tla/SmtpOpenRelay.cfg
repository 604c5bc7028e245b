SPECIFICATION Spec
CONSTANTS
  MaxHosts = 1
  Profiles <- SoundProfile
  ConnectTimeout = 2
  ReadTimeout = 2
  Budget = 8
INVARIANTS
  OpenRelayMeansRelay
CHECK_DEADLOCK FALSE
