SPECIFICATION Spec
CONSTANTS
  NibbleMax = 3
  MaxSize = 60
  MaxId = 3
  Nothing = Nothing
  Entries = 4
  Progress <- MCProgress
  Cut = 8
  Attempts = 2
  MaxWrites = 2
  MaxReplaces = 1
INVARIANT PowerLossSafe
PROPERTIES ReadIsWhole ActiveSaveIsFound
CHECK_DEADLOCK FALSE
