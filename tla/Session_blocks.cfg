SPECIFICATION Spec
CONSTANTS
  Padding = 0
  ReqSize <- LongLong
  RspSize <- ShortLong
  FcBlockSize = 0
  EcuFlows <- Blocks
  HwIsoTp = {FALSE}
  MaxForeign = 0
  MaxLost = 0
  MaxHeld = 2
  MaxEarly = 0
INVARIANTS AnsweredInBlocks
