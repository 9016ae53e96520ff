SPECIFICATION FairSpec
CONSTANTS
  Padding = 0
  ReqSize <- SomeRequests
  RspSize <- SomeResponses
  FcBlockSize = 0
  EcuFlows <- Flows
  MaxHeld = 1
  MaxEarly = 1
  Rejects = {}
  MaxOps = 30
  MaxFrames = 6
  MaxFailures = 2
INVARIANTS TypeOK Answered TraceExact TraceComplete
PROPERTIES AnsweredInOrder Completes
