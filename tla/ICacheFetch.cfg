SPECIFICATION FairSpec
CONSTANTS
  NSets = 1
  NWays = 2
  Tag = {t1, t2, t3}
  Content = {0, 1}
  None = None
INVARIANTS
  HitReadsTheMatch
  FetchIsRecent
PROPERTIES
  FetchAnswered
  FenceMeetsIdle
