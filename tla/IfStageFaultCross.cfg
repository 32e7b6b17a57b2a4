SPECIFICATION Spec
CONSTANTS
  NWords = 3
  Setups <- FaultyCompressed
  MaxRedirects = 0
  None = None
INVARIANTS
  FaultIsPrecise
