SPECIFICATION FairSpec
CONSTANTS
  Variants = {"v", "w"}
  Others = {"o"}
  Certs <- MCCerts
  Cap = 5
  Pause = 2
  Reconnect = TRUE
  MaxTransit = 3
  MaxOwed = 3
INVARIANTS
  TypeOK
  EveryMatchIsReported
PROPERTIES
  AttemptsArePaced
  EndLeadsToAttempt
  EndsWithoutStream
CHECK_DEADLOCK FALSE
