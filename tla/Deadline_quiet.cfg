SPECIFICATION FairSpec
CONSTANTS
  Timeout = 5
  Frames = 3
  MaxBatch = 2
  MaxOther = 4
  Endless = FALSE
  Horizon = 12
INVARIANTS IInv Punctual
PROPERTIES Returns
