SPECIFICATION Spec
CONSTANTS
  NWords = 3
  Setups <- FaultyNorvc
  MaxRedirects = 0
  None = None
INVARIANTS
  FaultIsTaken
