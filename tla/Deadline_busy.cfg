SPECIFICATION FairSpec
CONSTANTS
  Timeout = 5
  Frames = 1
  MaxBatch = 2
  MaxOther = 0
  Endless = TRUE
  Horizon = 12
PROPERTIES Returns
