SPECIFICATION FairSpec
CONSTANTS
  Procs = {p1, p2}
  MaxVersion = 1
INVARIANTS
  TypeOK
  ExeIsWhole
  OnlySignedOnWindows
PROPERTIES
  SwapIsJustified
  EveryRunEnds
CHECK_DEADLOCK FALSE
