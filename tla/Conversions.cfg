SPECIFICATION AllSpec
CONSTANTS
  Wrap = 8
  RolloverWrap = 16
  MaxGap = 7
  MaxTime = 127
  Args = {0, 1, 2, 254, 255}
  Dids = {0, 255, 256, 61840, 65535}
  Data <- MCData
  Addresses = {0, 1, 255, 256, 65537}
  Sizes = {0, 1, 256, 4660}
  Widths = {0, 1, 2, 3, 4, 8, 9, 15}
  CanFrames <- MCFrames
  SplitIds = FALSE
  Keys <- MCKeys
  LowerCase = {171, 255, 259}
  Spoiled = {3, 172}
  CipherKey <- Sys
  Stream <- SysStream
  Seeds <- MCSeeds
  Texts <- MCTexts
INVARIANTS AllTypes Exact Understood VinWhole ReadsBack CutLosesOnly KeyRight CipherRight
