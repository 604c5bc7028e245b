SPECIFICATION Spec
CONSTANTS
  MaxHops = 3
  MaxTime = 2
  Bodies <- MCBodies
CHECK_DEADLOCK FALSE
INVARIANTS
  ClocksAreJudged
  ChainIsJudged
  BodyIsJudged
