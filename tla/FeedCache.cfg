SPECIFICATION FairSpec
CONSTANTS
  Procs = {r1, r2}
  MaxTime = 3
  Ttl = 1
  MaxRecords = 1
  Polls = 2
INVARIANTS
  TypeOK
PROPERTIES
  CacheSpec
  AnswersAreRecent
  BudgetIsSpared
  EveryQueryEnds
CHECK_DEADLOCK FALSE
