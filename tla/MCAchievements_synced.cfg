SPECIFICATION Spec
CONSTANTS
  Ids = {1, 2, 3}
  Groups = {{1,2}}
  Slots = {1, 2}
  VerifyAttempts = 2
  MaxFaults = 1
INVARIANT SynchronizedIsTrue
CHECK_DEADLOCK FALSE
