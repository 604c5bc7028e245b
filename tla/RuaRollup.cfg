SPECIFICATION Spec
CONSTANTS
  Reports <- MCReports
  Files = {f1, f2, f3}
  Contents <- MCContents
  Domain = "d"
CHECK_DEADLOCK FALSE
INVARIANTS
  MessagesAreConserved
  RollupIsOfTheDirectory
