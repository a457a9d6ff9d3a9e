SPECIFICATION FairSpec
CONSTANTS
  Contents = {c1, c2}
  Blocks = {1, 2}
  MaxTransfers = 2
  MaxPc = 1
  None = None
INVARIANT TypeOK
PROPERTIES KeepsContract BatchIsSettled CloseEndsTransfer
CHECK_DEADLOCK FALSE
