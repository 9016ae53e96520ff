SPECIFICATION FairSpec
CONSTANTS
  Calls <- Mixed
  MaxCalls = 3
  MaxResponsePending = 1
  AddrSpace = 16
  LenSpace = 8
  EcuPending = 2
  EcuRefuses = TRUE
  MaxFaults = 1
  MaxEarly = 1
INVARIANTS TypeOK InStep RegionRight UnlockGrantedInTime
PROPERTIES AnsweredInOrder Completes
