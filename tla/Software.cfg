CONSTANTS
  UartPorts = {"async", "polled", "zephyr"}
  TxDepth = 2
  RxDepth = 2
  BufSize = 3
  TxMark = 1
  RxMark = 1
  Bytes = 5
  Arrivals = 4
  SpiPorts = {"freertos", "zephyr"}
  SpiLen = 2
  Calls = 4
  Timeouts = 2
  TimerPorts = {"library", "freertos", "zephyr"}
  Intervals = {0, 2, 3}
  MaxCount = 4
  WatchdogPorts = {"library", "freertos", "zephyr"}
  Times = {2, 3}
  Pres = {0, 1}
  PerMs = 2
  Width = 8
  Longest = 7
  BareApps = {"system_sram", "uart_tx", "descriptor_chain", "irq_wfi", "descriptor_irq_wfi",
              "timer_clint", "wfi_tickless", "irq_timer_uart", "client"}
  Ticks = 4
  RtosApps = {"freertos", "umode", "zephyr", "low_power"}
SPECIFICATION Spec
INVARIANTS
  DoneMeansSent
  RightAnswer
  VerdictIsTrue
PROPERTIES
  UartInOrder
  UartServed
  CallbackComes
  ExpiryIsDue
  VerdictComes
CHECK_DEADLOCK FALSE
