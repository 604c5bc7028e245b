SPECIFICATION Spec
CONSTANTS
  Procs = {p1, p2}
  MaxVersion = 2
SYMMETRY Pids
PROPERTIES
  NeverDowngrades
CHECK_DEADLOCK FALSE
