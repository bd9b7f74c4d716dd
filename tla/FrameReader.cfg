SPECIFICATION FairSpec
CONSTANTS
  Hdr = 2
  Body <- MCBody
  Transports = {"TCP", "UDP"}
  Elsewhere <- MCOneBody
INVARIANT WholeInOrder
PROPERTY ReaderReturns
CHECK_DEADLOCK FALSE
