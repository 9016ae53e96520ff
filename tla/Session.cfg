SPECIFICATION FairSpec
CONSTANTS
  Padding = 0
  ReqSize <- SomeRequests
  RspSize <- SomeResponses
  FcBlockSize = 0
  EcuFlows <- AnyFlow
  HwIsoTp = {TRUE, FALSE}
  MaxForeign = 1
  MaxLost = 1
  MaxHeld = 1
  MaxEarly = 1
INVARIANTS TypeOK Answered
PROPERTIES AnsweredInOrder Completes
