SPECIFICATION FairSpec
CONSTANTS
  TxN = 3
  RxN = 4
  Budget = 1
  Loads <- AnyLoads
  WriteFails = {FALSE}
INVARIANTS
  RingsLive
  SlotFree
  NoStaleFrame
PROPERTIES
  FramesInOrder
  RxTaken
  QueueWoken
