SPECIFICATION Spec
CONSTANTS
  Ids <- MCIds
  UserCommands = {}
  Ops <- WriteRead
  MaxOps = 1
  MaxFrames = 1
  HeadersOn = TRUE
  AdaptiveTiming = TRUE
  AutoFormat = FALSE
  Rejects = {"ATCAF0"}
  MaxFailures = 1
INVARIANTS OpenMeansConfigured
