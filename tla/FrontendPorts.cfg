SPECIFICATION FairSpec
CONSTANTS
  Pte <- TwoPagePte
  StoredPte <- TwoPages
  Levels = 2
  FetchReqs <- Fetches
  MemOps <- CoreOps
  MayFail = {TRUE, FALSE}
  None = None
INVARIANTS
  NoLostRequest
  AnswerReachesItsOwner
  TlbIsRecent
  WriteIsAllowed
PROPERTIES
  FetchAnswered
  OperationEnds
