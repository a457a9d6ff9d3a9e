SPECIFICATION Spec
CONSTANTS
  Retain = 2
  MaxBackups = 4
  MaxTime = 6
  Versions = {v1, v2}
  NoVersion = NoVersion
  MaxFailures = 2
SYMMETRY Symmetry
INVARIANTS TypeOK NewestAreKept EnoughAreRetained
PROPERTIES NothingOverwrittenIsLost FailedPullIsUndone
CHECK_DEADLOCK FALSE
