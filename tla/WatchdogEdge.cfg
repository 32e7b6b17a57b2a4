SPECIFICATION FairSpec
CONSTANTS
  Ports = {"library", "freertos", "zephyr"}
  Times = {1, 5}
  Pres = {0, 1}
  PerMs = 2
  Width = 8
  Long = 7
PROPERTIES
  ResetIsDue
CHECK_DEADLOCK FALSE
