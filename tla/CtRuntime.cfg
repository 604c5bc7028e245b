SPECIFICATION FairSpec
CONSTANTS
  Variants = {"v", "w"}
  Others = {"o"}
  Certs <- MCCerts
  Cap = 2
  Pause = 2
  Reconnect = TRUE
  MaxTransit = 1
  MaxOwed = 1
PROPERTY WatchEnds
