SPECIFICATION RxSpec
CONSTANTS
  TxFrames = 1
  TxBytes = 1
  PipeDepth = 1
  FifoDepth = 1
  RxFrames = 4
  MaxLen = 4
  Capacity = 3
  Beat = 2
  Overruns = FALSE
INVARIANTS
  WholeFrame
