SPECIFICATION Spec
CONSTANTS
  Pte <- OnePagePte
  StoredPte <- OnePage
  Levels = 1
  FetchReqs = {}
  MemOps <- FenceOps
  MayFail = {TRUE, FALSE}
  None = None
INVARIANTS
  FailureIsReported
