SPECIFICATION Spec
CONSTANTS
  Retain = 2
  MaxBackups = 4
  MaxTime = 6
  Versions = {v1, v2}
  NoVersion = NoVersion
  MaxFailures = 0
PROPERTY QueuedIsRestored
CHECK_DEADLOCK FALSE
