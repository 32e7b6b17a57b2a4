SPECIFICATION Spec
CONSTANTS
  NSets = 1
  NWays = 2
  Tag = {t1, t2, t3}
  Word = {w1}
  Value <- BitValue
  CoreOp = {"LOAD", "STORE", "LR", "SC"}
  AmoOp = {}
  Alu <- AddAlu
  DmaValue = {}
  None = None
INVARIANTS
  ReservedLineIsCached
SYMMETRY TagSymmetry
