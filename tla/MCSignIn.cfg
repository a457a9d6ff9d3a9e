SPECIFICATION FairSpec
CONSTANTS
  MaxAttempts = 3
INVARIANTS TypeOK CancelInTimeStoresNothing CodesGoToTheTask
PROPERTY CancelEnds
CHECK_DEADLOCK FALSE
