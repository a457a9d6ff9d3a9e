SPECIFICATION Spec
CONSTANTS
  Slots = {1}
  MaxVersion = 3
  MaxFaults = 0
  MaxLaunches = 1
  Hashless = TRUE
  Racing = {"game", "pc"}
INVARIANTS TypeOK BaseSeenOnBothSides
PROPERTIES AutomaticNeverUploads ReplacedIsBackedUp NoRedundantUpload HashedPullIsPinned
CHECK_DEADLOCK FALSE
