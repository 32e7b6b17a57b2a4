SPECIFICATION Spec
CONSTANTS
  NSets = 1
  NWays = 2
  Tag = {t1, t2, t3}
  Word = {w1}
  Value <- BitValue
  CoreOp = {"LOAD", "STORE", "LR", "SC"}
  AmoOp = {"ADD"}
  Alu <- AddAlu
  DmaValue = {1}
  None = None
INVARIANTS
  NoDuplicateLine
PROPERTIES
  ImplementsContract
SYMMETRY TagSymmetry
