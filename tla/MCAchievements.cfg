SPECIFICATION FairSpec
CONSTANTS
  Ids = {1, 2, 3}
  Groups = {{1, 2}, {3}}
  Slots = {1, 2}
  VerifyAttempts = 2
  MaxFaults = 1
INVARIANTS TypeOK UnlockedIsTrue
PROPERTIES NeverCleared EventuallyUnlocked
CHECK_DEADLOCK FALSE
