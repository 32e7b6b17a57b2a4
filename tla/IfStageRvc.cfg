SPECIFICATION Spec
CONSTANTS
  NWords = 3
  Setups <- Compressed
  MaxRedirects = 0
  None = None
INVARIANTS
  InProgramOrder
