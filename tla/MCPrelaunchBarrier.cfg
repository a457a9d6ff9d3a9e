SPECIFICATION FairSpec
CONSTANTS
  MaxSlots = 2
  MaxOperations = 2
  Captured = TRUE
INVARIANTS TypeOK BarrierSealed CompletionIsTrue
PROPERTIES PreflightReturns LaneReleased
