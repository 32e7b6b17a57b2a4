SPECIFICATION TxSpec
CONSTANTS
  TxFrames = 3
  TxBytes = 2
  PipeDepth = 2
  FifoDepth = 3
  RxFrames = 1
  MaxLen = 1
  Capacity = 1
  Beat = 1
  Overruns = FALSE
INVARIANTS
  TypeOK
  CompletedIsSent
