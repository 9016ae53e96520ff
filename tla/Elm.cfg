SPECIFICATION FairSpec
CONSTANTS
  Ids <- MCIds
  UserCommands = {"ATI"}
  Ops <- OpNames
  MaxOps = 4
  MaxFrames = 2
  HeadersOn = TRUE
  AdaptiveTiming = TRUE
  AutoFormat = FALSE
  Rejects = {"ATE0", "ATS1", "ATCAF0", "ATSH", "ATCF"}
  MaxFailures = 1
INVARIANTS TypeOK HeaderRight InStep AllReceived InOrder
PROPERTIES OpenConfigures Completes
