SPECIFICATION FairSpec
CONSTANTS
  NSets = 1
  NWays = 2
  Tag = {t1, t2, t3}
  Word = {w1}
  Value <- BitValue
  CoreOp = {"LOAD", "STORE", "SC"}
  AmoOp = {}
  Alu <- AddAlu
  DmaValue = {}
  None = None
INVARIANTS
  CleanMatchesMemory
  FenceCleansAll
PROPERTIES
  OperationsEnd
