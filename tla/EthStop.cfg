SPECIFICATION Spec
CONSTANTS
  TxN = 3
  RxN = 4
  Budget = 1
  Loads <- AnyLoads
  WriteFails = {FALSE}
INVARIANTS
  DmaEndsFirst
