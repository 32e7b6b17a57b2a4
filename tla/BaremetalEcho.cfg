SPECIFICATION FairSpec
CONSTANTS
  Apps = {"irq_timer_uart"}
  Ticks = 4
PROPERTIES
  Echo
CHECK_DEADLOCK FALSE
