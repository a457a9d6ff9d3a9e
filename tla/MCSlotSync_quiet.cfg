SPECIFICATION FairSpec
CONSTANTS
  Slots = {1}
  MaxVersion = 3
  MaxFaults = 1
  MaxLaunches = 1
  Hashless = FALSE
  Racing = {"steam"}
INVARIANT ConflictIsReal
PROPERTIES PhoneProgressNotPulledOver SteamProgressNotPushedOver EventuallySettled
CHECK_DEADLOCK FALSE
