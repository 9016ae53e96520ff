SPECIFICATION Spec
CONSTANTS
  Calls <- Unlocks
  MaxCalls = 2
  MaxResponsePending = 1
  AddrSpace = 16
  LenSpace = 8
  EcuPending = 0
  EcuRefuses = FALSE
  MaxFaults = 0
  MaxEarly = 1
INVARIANTS UnlockGranted
