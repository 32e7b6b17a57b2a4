SPECIFICATION Spec
CONSTANTS
  Pte <- TwoPagePte
  StoredPte <- TwoPages
  Levels = 1
  FetchReqs = {}
  MemOps <- AmoOps
  MayFail = {FALSE}
  None = None
INVARIANTS
  WriteIsAllowed
