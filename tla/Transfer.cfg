SPECIFICATION FairSpec
CONSTANTS
  Padding = 0
  Lengths = {0, 1, 7, 8, 14, 125, 270, 4096}
  Pdus <- MCPdus
  MaxLost = 17
  MaxDup = 1
  MaxEarly = 1
INVARIANTS IInv ExactDelivery HoleNeedsWholeCycle NothingFails
PROPERTIES TransferSpec BothReturn
