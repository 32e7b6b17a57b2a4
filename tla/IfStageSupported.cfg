SPECIFICATION FairSpec
CONSTANTS
  NWords = 4
  Setups <- Supported
  MaxRedirects = 2
  None = None
INVARIANTS
  InProgramOrder
  WholeInstruction
  FaultIsWarranted
PROPERTIES
  FetchGoesOn
