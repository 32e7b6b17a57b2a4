-------------------------------- MODULE Uart --------------------------------
(* The UART (rtl/soc/peripherals/uart/uart_apb.sv) under the software that  *)
(* drives it: the interrupt-driven library (sw/lib/uart.c, of which         *)
(* sw/rtos/freertos/drivers/uart.c is a copy), its polled routines, and     *)
(* Zephyr's driver with the console on top of it.  One of them is chosen at *)
(* the start.  One hart; the handler preempts what is not masked, and the   *)
(* line moves between any two register accesses.                            *)
EXTENDS Naturals, Sequences

CONSTANTS
  TxDepth, RxDepth,  \* the FIFOs (32 and 64)
  BufSize,           \* software rings (128; Zephyr's ring buffer 256)
  TxMark, RxMark,    \* interrupt watermarks (8 and 1)
  Ports,             \* the software, a subset of {"async", "polled", "zephyr"}
  Bytes, Arrivals    \* bounds: bytes sent and received

VARIABLES
  port,
  txFifo, shift,     \* transmit FIFO, and the byte on its way out (0: none)
  rxFifo, overrun,
  en,                \* CTRL: the interrupts enabled, of "rx", "tx", "err"
  tx, rx,            \* software rings: [buf, head, tail]
  rxDropped,
  console, hooked,   \* Zephyr's ring buffer; printk goes to the console
  task, irqAt, cause,  \* where the foreground and the handler stand
  svc,               \* where a call of uart_tx_service stands
  asked, sent,       \* history: bytes accepted for output, and sent
  arrived, lost, taken, got   \* bytes received, lost to a full FIFO, returned, the last

line == <<txFifo, shift, rxFifo, overrun>>
rings == <<tx, rx, rxDropped, console>>
cpu == <<task, irqAt, cause, svc, hooked>>
input == <<arrived, lost>>
output == <<taken, got>>
vars == <<port, line, en, rings, cpu, asked, sent, input, output>>

Ring == [buf |-> [i \in 0 .. BufSize - 1 |-> 0], head |-> 0, tail |-> 0]

Init ==
  /\ port \in Ports /\ txFifo = <<>> /\ shift = 0 /\ rxFifo = <<>> /\ overrun = FALSE
  /\ en = {} /\ tx = Ring /\ rx = Ring /\ rxDropped = 0 /\ console = <<>> /\ hooked = FALSE
  /\ task = "start" /\ irqAt = "no" /\ cause = {} /\ svc = "no"
  /\ asked = 0 /\ sent = 0 /\ arrived = 0 /\ lost = 0 /\ taken = 0 /\ got = 0

-----------------------------------------------------------------------------
(* The device.  A byte lasts longer than the polled routine needs to see    *)
(* TX_BUSY after its store.                                                 *)
TxReady == Len(txFifo) < TxDepth
TxBusy == shift # 0 \/ txFifo # <<>>
WriteTx(b) == IF ~TxBusy THEN shift' = b /\ UNCHANGED txFifo
              ELSE txFifo' = (IF TxReady THEN Append(txFifo, b) ELSE txFifo) /\ UNCHANGED shift
ShiftOut ==
  /\ shift # 0 /\ task # "busy" /\ sent' = shift
  /\ shift' = IF txFifo = <<>> THEN 0 ELSE Head(txFifo)
  /\ txFifo' = IF txFifo = <<>> THEN <<>> ELSE Tail(txFifo)
  /\ UNCHANGED <<port, rxFifo, overrun, en, rings, cpu, asked, input, output>>
ByteArrives ==
  /\ arrived < Arrivals /\ arrived' = arrived + 1
  /\ IF Len(rxFifo) < RxDepth
     THEN rxFifo' = Append(rxFifo, arrived + 1) /\ UNCHANGED <<overrun, lost>>
     ELSE overrun' = TRUE /\ lost' = lost + 1 /\ UNCHANGED rxFifo
  /\ UNCHANGED <<port, txFifo, shift, en, rings, cpu, asked, sent, output>>
Status == (IF Len(rxFifo) >= RxMark THEN {"rx"} ELSE {})      \* IRQ_STATUS
          \cup (IF Len(txFifo) <= TxMark THEN {"tx"} ELSE {})
          \cup (IF overrun THEN {"err"} ELSE {})
Line == en \cap Status # {}

-----------------------------------------------------------------------------
(* The library.  Its rings are shared with the handler and touched with     *)
(* interrupts masked; the device is not masked.                             *)
NextSlot(i) == (i + 1) % BufSize                  \* uart_ring_next
FullNever(r) == FALSE   \* mutant
Full(r) == NextSlot(r.head) = r.tail
Put(r, b) == [r EXCEPT !.buf[r.head] = b, !.head = NextSlot(@)]
Masked == task = "masked" \/ irqAt # "no"         \* uart_irq_save

AsyncInitNoRx ==   \* mutant: leaves RX_IRQ_EN clear
  /\ port = "async" /\ task = "start" /\ task' = "idle"
  /\ tx' = Ring /\ rx' = Ring /\ rxDropped' = 0
  /\ overrun' = FALSE /\ en' = {"err"}
  /\ UNCHANGED <<port, txFifo, shift, rxFifo, console, irqAt, cause, svc, hooked, asked, sent,
                 input, output>>
AsyncInit ==   \* eriscv_mcu_uart_async_init; it clears a stale overrun
  /\ port = "async" /\ task = "start" /\ task' = "idle"
  /\ tx' = Ring /\ rx' = Ring /\ rxDropped' = 0
  /\ overrun' = FALSE /\ en' = {"rx", "err"}
  /\ UNCHANGED <<port, txFifo, shift, rxFifo, console, irqAt, cause, svc, hooked, asked, sent,
                 input, output>>

\* eriscv_mcu_uart_async_write and _putc: fill the ring as far as it goes, and
\* start the device.
PutAll(r, b, n) == LET Place(i) == (i + BufSize - r.head) % BufSize
                   IN  [r EXCEPT !.head = (@ + n) % BufSize,
                                 !.buf = [i \in DOMAIN @ |-> IF Place(i) < n THEN b + Place(i)
                                                             ELSE @[i]]]
Count(r) == (r.head + BufSize - r.tail) % BufSize
FreeAll(r) == BufSize - Count(r)   \* mutant: fills the last slot too
Free(r) == BufSize - 1 - Count(r)
AsyncWrite ==
  /\ port = "async" /\ task = "idle" /\ irqAt = "no"
  /\ \E n \in 1 .. Bytes - asked :
       LET put == IF n < Free(tx) THEN n ELSE Free(tx)
       IN  tx' = PutAll(tx, asked + 1, put) /\ asked' = asked + put
  /\ task' = "masked" /\ svc' = "loop"
  /\ UNCHANGED <<port, line, en, rx, rxDropped, console, irqAt, cause, hooked, sent, input, output>>
AsyncGetc ==
  /\ port = "async" /\ task = "idle" /\ irqAt = "no" /\ rx.tail # rx.head
  /\ rx' = [rx EXCEPT !.tail = NextSlot(@)]
  /\ got' = rx.buf[rx.tail] /\ taken' = taken + 1
  /\ UNCHANGED <<port, line, en, tx, rxDropped, console, cpu, asked, sent, input>>

\* uart_tx_service, for the foreground and for the handler.
TxIrqForDevice == IF ~TxReady THEN en \cup {"tx"} ELSE en \ {"tx"}  \* mutant: asks the device
TxIrqFor == IF tx.tail # tx.head THEN en \cup {"tx"} ELSE en \ {"tx"}
Returned == IF irqAt = "no" THEN task' = "idle" /\ UNCHANGED irqAt
            ELSE irqAt' = "err" /\ UNCHANGED task
TxService ==
  \/ /\ svc = "loop" /\ tx.tail # tx.head /\ TxReady
     /\ WriteTx(tx.buf[tx.tail]) /\ tx' = [tx EXCEPT !.tail = NextSlot(@)]
     /\ UNCHANGED <<en, task, irqAt, svc>>
  \/ /\ svc = "loop" /\ ~(tx.tail # tx.head /\ TxReady) /\ svc' = "ctrl"
     /\ UNCHANGED <<txFifo, shift, en, tx, task, irqAt>>
  \/ /\ svc = "ctrl" /\ svc' = "no" /\ Returned
     /\ en' = TxIrqFor
     /\ UNCHANGED <<txFifo, shift, tx>>
TxServiceStep == TxService /\ UNCHANGED <<port, rxFifo, overrun, rx, rxDropped, console, cause,
                                          hooked, asked, sent, input, output>>

\* eriscv_mcu_uart_irq_handler: one reading of IRQ_STATUS, then the receiver
\* (uart_rx_service), the transmitter and the overrun flag.
IrqEnter ==
  /\ port = "async" /\ Line /\ ~Masked
  /\ irqAt' = "rx" /\ cause' = Status
  /\ UNCHANGED <<port, line, en, rings, task, svc, hooked, asked, sent, input, output>>
RxService ==
  /\ port = "async" /\ irqAt = "rx"
  /\ IF "rx" \in cause /\ rxFifo # <<>>
     THEN /\ rxFifo' = Tail(rxFifo)
          /\ rx' = IF Full(rx) THEN rx ELSE Put(rx, Head(rxFifo))
          /\ rxDropped' = IF Full(rx) THEN rxDropped + 1 ELSE rxDropped
          /\ UNCHANGED <<irqAt, svc>>
     ELSE /\ irqAt' = IF "tx" \in cause THEN "tx" ELSE "err"
          /\ svc' = IF "tx" \in cause THEN "loop" ELSE "no"
          /\ UNCHANGED <<rxFifo, rx, rxDropped>>
  /\ UNCHANGED <<port, txFifo, shift, overrun, en, tx, console, task, cause, hooked, asked, sent,
                 input, output>>
IrqEnd ==
  /\ port = "async" /\ irqAt = "err" /\ irqAt' = "no" /\ cause' = {}
  /\ overrun' = (overrun /\ "err" \notin cause)
  /\ UNCHANGED <<port, txFifo, shift, rxFifo, en, rings, task, svc, hooked, asked, sent, input,
                 output>>

-----------------------------------------------------------------------------
(* Polled output: wait for room, store, wait until the device is seen busy. *)
PolledOut ==
  \/ /\ task = "idle" /\ asked < Bytes /\ task' = "ready"
     /\ UNCHANGED <<txFifo, shift, asked>>
  \/ /\ task = "ready" /\ TxReady /\ task' = "write" /\ UNCHANGED <<txFifo, shift, asked>>
  \/ /\ task = "write" /\ task' = "busy" /\ WriteTx(asked + 1) /\ asked' = asked + 1
  \/ /\ task = "busy" /\ TxBusy /\ task' = "idle" /\ UNCHANGED <<txFifo, shift, asked>>
PolledIn ==
  /\ task = "idle" /\ rxFifo # <<>>
  /\ got' = Head(rxFifo) /\ taken' = taken + 1 /\ rxFifo' = Tail(rxFifo)
  /\ UNCHANGED <<port, txFifo, shift, overrun, en, rings, cpu, asked, sent, input>>
polledRest == <<port, rxFifo, overrun, en, rings, irqAt, cause, svc, hooked, sent, input, output>>

UartInit == port = "polled" /\ task = "start" /\ task' = "idle"
            /\ UNCHANGED <<polledRest, txFifo, shift, asked>>
Putc == port = "polled" /\ PolledOut /\ UNCHANGED polledRest
Getc == port = "polled" /\ PolledIn

-----------------------------------------------------------------------------
(* Zephyr: output is polled until the console has installed its hook.       *)
ZephyrInit == port = "zephyr" /\ task = "start" /\ task' = "idle"
              /\ UNCHANGED <<polledRest, txFifo, shift, asked>>
PollOut == port = "zephyr" /\ ~hooked /\ PolledOut /\ UNCHANGED polledRest
PollIn == port = "zephyr" /\ irqAt = "no" /\ PolledIn
ConsoleInit ==
  /\ port = "zephyr" /\ task = "idle" /\ ~hooked /\ hooked' = TRUE
  /\ UNCHANGED <<port, line, en, rings, task, irqAt, cause, svc, asked, sent, input, output>>

\* uart_console_out, with interrupts locked: a newline is two bytes, each of
\* them dropped when the ring buffer is full; then the interrupt is enabled.
IrqTxEnable == en' = en \cup {"tx"}
IrqTxDisable == en' = en \ {"tx"}
Room == BufSize - Len(console)
ConsoleOut ==
  /\ port = "zephyr" /\ hooked /\ task = "idle" /\ irqAt = "no"
  /\ \E n \in {1, 2} :
       LET put == IF n <= Room THEN n ELSE Room
       IN  /\ asked + n <= Bytes /\ asked' = asked + put
           /\ console' = console \o [k \in 1 .. put |-> asked + k]
  /\ IrqTxEnable
  /\ UNCHANGED <<port, line, tx, rx, rxDropped, cpu, sent, input, output>>

\* eriscv_uart_isr calls uart_console_irq_callback; uart_console_tx_drain moves
\* a byte per turn and disables the interrupt when it finds none.
IrqIsPending == Line
IrqTxReady == "tx" \in en /\ TxReady
Isr ==
  /\ port = "zephyr" /\ irqAt = "no" /\ IrqIsPending
  /\ IF hooked THEN irqAt' = (IF IrqTxReady THEN "drain" ELSE "err") /\ UNCHANGED en
     ELSE en' = {} /\ UNCHANGED irqAt
  /\ UNCHANGED <<port, line, rings, task, cause, svc, hooked, asked, sent, input, output>>
FifoFill(b) == IF TxReady THEN WriteTx(b) ELSE UNCHANGED <<txFifo, shift>>
TxDrain ==
  /\ port = "zephyr" /\ irqAt = "drain"
  /\ IF ~IrqTxReady THEN irqAt' = "err" /\ UNCHANGED <<txFifo, shift, console, en>>
     ELSE IF console = <<>> THEN irqAt' = "err" /\ IrqTxDisable /\ UNCHANGED <<txFifo, shift, console>>
     ELSE console' = Tail(console) /\ FifoFill(Head(console)) /\ UNCHANGED <<irqAt, en>>
  /\ UNCHANGED <<port, rxFifo, overrun, tx, rx, rxDropped, task, cause, svc, hooked, asked, sent,
                 input, output>>
ErrCheck ==
  /\ port = "zephyr" /\ irqAt = "err" /\ irqAt' = "no" /\ overrun' = FALSE
  /\ UNCHANGED <<port, txFifo, shift, rxFifo, en, rings, task, cause, svc, hooked, asked, sent,
                 input, output>>

\* eriscv_mcu_uart_async_tx_pending and eriscv_uart_console_tx_busy.
PendingRings == tx.tail # tx.head \/ console # <<>>   \* mutant: forgets the device
Pending == tx.tail # tx.head \/ console # <<>> \/ TxBusy

Foreground == AsyncInit \/ AsyncWrite \/ AsyncGetc \/ UartInit \/ Putc \/ Getc
              \/ ZephyrInit \/ PollOut \/ PollIn \/ ConsoleInit \/ ConsoleOut
Handler == IrqEnter \/ RxService \/ IrqEnd \/ Isr \/ TxDrain \/ ErrCheck
Next == ShiftOut \/ ByteArrives \/ Foreground \/ TxServiceStep \/ Handler
Spec == Init /\ [][Next]_vars

\* The line shifts, and the hart runs handlers and calls to their end.
InCall == task \in {"start", "ready", "write", "busy"} /\ Foreground
FairSpec == Spec /\ WF_vars(ShiftOut) /\ WF_vars(InCall) /\ WF_vars(TxServiceStep \/ Handler)

-----------------------------------------------------------------------------
(* Bytes go out in the order in which they were accepted, none is lost      *)
(* between ring, FIFO and shifter and none goes out twice.                  *)
TxInOrder == [][sent' # sent => sent' = sent + 1]_vars

\* What is returned comes in the order of arrival, and every byte skipped on
\* the way is one that the FIFO lost or rx_dropped counts.
RxInOrder == [][taken' # taken => got' > got /\ got' <= taken' + lost + rxDropped]_vars

\* tx_pending and uart_console_tx_busy: when they say no, every accepted byte
\* has left.
DoneMeansSent == ~Pending => sent = asked

\* No wake-up is lost between the ring and the interrupt enable: every accepted
\* byte goes out although only a watermark interrupt moves the ring on.
EverySent == (sent < asked) ~> (sent = asked)

\* What arrives does not stay in the FIFO of the interrupt-driven library.
RxServed == (port = "async" /\ rxFifo # <<>>) ~> (rxFifo = <<>>)
=============================================================================
