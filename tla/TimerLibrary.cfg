SPECIFICATION FairSpec
CONSTANTS
  Ports = {"library"}
  Intervals = {2, 3}
  MaxCount = 4
PROPERTIES
  IntervalElapsed
