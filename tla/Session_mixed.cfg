SPECIFICATION Spec
CONSTANTS
  Padding = 0
  ReqSize <- ShortShort
  RspSize <- LongLong
  FcBlockSize = 0
  EcuFlows <- Plain
  HwIsoTp = {FALSE}
  MaxForeign = 0
  MaxLost = 0
  MaxHeld = 0
  MaxEarly = 1
INVARIANTS IntactPdu
