SPECIFICATION FairSpec
CONSTANTS
  MaxHosts = 2
  Profiles <- FewProfiles
  ConnectTimeout = 2
  ReadTimeout = 2
  Budget = 8
INVARIANTS
  TypeOK
  InSync
  RelayVerdictIsTheServers
  StarttlsVerdictIsTheServers
  OneReportPerHost
PROPERTIES
  EveryHostReported
CHECK_DEADLOCK FALSE
