SPECIFICATION FairSpec
CONSTANTS
  Ports = {"library", "freertos", "zephyr"}
  Times = {2, 3}
  Pres = {0, 1}
  PerMs = 2
  Width = 8
  Long = 7
PROPERTIES
  FedInWindow
CHECK_DEADLOCK FALSE
