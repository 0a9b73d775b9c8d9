CONSTANTS
  MaxThreads = 2
  Patient = FALSE
SPECIFICATION FairSpec
INVARIANTS TypeOK HandshakesBounded ConnectedToExpected
PROPERTIES HandshakesCease
CHECK_DEADLOCK FALSE
