CONSTANTS
  Sources = {1, 2, 3}
  MaxPriority = 2
  Prio <- MCPrio
  MaxWrites = 1
  None = None
  Base = 3
  Line = {1, 2}
  Value = {0, 1}
  Beats = 2
  Form = {TRUE, FALSE}
  \* Two frames of three bytes do not fit into the FIFO of four.
  TxFrames = 3
  TxBytes = 3
  PipeDepth = 2
  FifoDepth = 4
  RxFrames = 3
  MaxLen = 3
  Capacity = 2
  BeatLen = 1
  Overruns = FALSE
SPECIFICATION DevicesSpec
INVARIANTS
  ServedByItsClaimer
  ClaimMeansRaised
  TimerCalls
  TransfersAreWhole
PROPERTIES
  RaiseServed
  ImplementsLinePort
  RequestAnswered
