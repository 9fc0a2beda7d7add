SPECIFICATION Spec
CONSTANTS
  NTracks = 2
  PerTable = 1
  Lens = {2, 3}
  Base = 1
  L2Len = 3
  FreeBlk = 2
  FreeMin = 4
  ManyFree = 2
  FreePend = 2
  MaxSize = 14
  MaxFreePend = 4
  MaxWrites = 4
INVARIANTS TypeOK Tiles Accounts HardenedChain
PROPERTY Recoverable
CHECK_DEADLOCK FALSE
