CONSTANTS
  Runs = {r1, r2}
  Systems = {"linux", "windows", "other"}
  Crowded = {"other"}
  LandlockABIs = {0, 3, 4}
SPECIFICATION FairSpec
INVARIANTS
  Confined
  KillsReachTheTree
PROPERTIES
  RunsReturn
\* Each Run is called once; that none of them stops inside is RunsReturn.
CHECK_DEADLOCK FALSE
