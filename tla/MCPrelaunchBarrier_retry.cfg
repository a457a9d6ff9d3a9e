SPECIFICATION Spec
CONSTANTS
  MaxSlots = 2
  MaxOperations = 2
  Captured = TRUE
INVARIANT RetryHasSnapshot
