SPECIFICATION FairSpec
CONSTANTS
  Apps = {"irq_wfi", "descriptor_irq_wfi"}
  Ticks = 4
PROPERTIES
  DmaWakes
CHECK_DEADLOCK FALSE
