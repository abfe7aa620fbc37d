SPECIFICATION FairSpec
CONSTANTS
  Processes = {p1, p2}
  Experiments = {e}
  MaxCrashes = 2
INVARIANTS
  OpenIsComplete
  RefusalsAreRaces
PROPERTIES
  ForeignFilesUntouched
  EveryProcessOpens
CHECK_DEADLOCK FALSE
