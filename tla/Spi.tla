--------------------------------- MODULE Spi --------------------------------
(* The SPI master (rtl/soc/peripherals/spi/spi_apb.sv) under the FreeRTOS   *)
(* driver (sw/rtos/freertos/drivers/spi.c) or the Zephyr driver             *)
(* (.../zephyr/.../drivers/spi.c), one of which is chosen at the start.  A  *)
(* task transfers by polling, with a time-out, or starts an asynchronous    *)
(* transfer that the interrupt handler carries on; its callback may start   *)
(* the next.  A byte is the transfer it belongs to and its place in it.     *)
EXTENDS Naturals, Sequences

CONSTANTS
  Ports,      \* the drivers, a subset of {"freertos", "zephyr"}
  MaxLen,     \* bytes of a transfer
  Calls,      \* bound: transfers
  Timeouts    \* bound: polled transfers that give up

VARIABLES
  port,
  busy, done, irqEn,  \* STATUS and CTRL.IRQ
  ss,                 \* is a slave selected?
  cur, rxData,        \* the byte on the wire, and the last one received
  latch,              \* the PLIC has seen the line high
  active,             \* spi_async_active, data->active
  job,                \* the asynchronous transfer: [id, len, i, rx, clean]
  poll,               \* the polled one
  at,                 \* where task and handler stand
  calls, gaveUp, last \* transfers begun, given up, and the last that succeeded

device == <<busy, done, irqEn, ss, cur, rxData>>
count == <<calls, gaveUp, last>>
vars == <<port, device, latch, active, job, poll, at, count>>

\* A new transfer; clean: it finds the device at rest and no call under way.
Transfer(n) == [id |-> calls + 1, len |-> n, i |-> 1, rx |-> <<>>, clean |-> ~busy /\ at.task = "idle"]
NoTransfer == [id |-> 0, len |-> 0, i |-> 1, rx |-> <<>>, clean |-> TRUE]
Noise == <<0, 0>>
ByteOf(x) == <<x.id, x.i>>
Received(x) == [x EXCEPT !.rx = Append(@, rxData), !.i = @ + 1]

Init ==
  /\ port \in Ports /\ busy = FALSE /\ done = FALSE /\ irqEn = FALSE /\ ss = FALSE
  /\ cur = Noise /\ rxData = Noise /\ latch = FALSE /\ active = FALSE
  /\ job = NoTransfer /\ poll = NoTransfer /\ at = [task |-> "idle", irq |-> "no"]
  /\ calls = 0 /\ gaveUp = 0 /\ last = NoTransfer

-----------------------------------------------------------------------------
(* The device: a store to TXDATA is ignored while it is busy, a store to    *)
(* CTRL clears DONE on request, a byte whose slave is deselected is noise.  *)
WriteTx(b) == IF busy THEN UNCHANGED <<busy, done, cur>>
              ELSE busy' = TRUE /\ done' = FALSE /\ cur' = b
WriteCtrl(irq, clear) == irqEn' = irq /\ done' = (done /\ ~clear)
SelectSlave == ss' = TRUE
Deselect == ss' = FALSE /\ cur' = IF busy THEN Noise ELSE cur
Exchange ==
  /\ busy /\ busy' = FALSE /\ done' = TRUE /\ rxData' = cur
  /\ UNCHANGED <<port, irqEn, ss, cur, latch, active, job, poll, at, count>>
Raise ==   \* plic.sv latches the level of a source that is not in service
  /\ done /\ irqEn /\ ~latch /\ at.irq = "no" /\ latch' = TRUE
  /\ UNCHANGED <<port, device, active, job, poll, at, count>>

Runs(c) == c = "irq" \/ at.irq = "no"
Goto(c, step) == at' = [at EXCEPT ![c] = step]
Succeeded(x) == last' = x

-----------------------------------------------------------------------------
(* Polled transfers; only FreeRTOS clears DONE behind each byte.            *)
PollStart ==
  /\ at.task = "idle" /\ at.irq = "no" /\ ~active /\ calls < Calls
  /\ \E n \in 1 .. MaxLen : poll' = Transfer(n)
  /\ calls' = calls + 1 /\ SelectSlave /\ Goto("task", "send")
  /\ UNCHANGED <<busy, cur, rxData, latch, active, job, gaveUp, last>>
PollSend ==
  /\ at.task = "send" /\ Runs("task") /\ WriteTx(ByteOf(poll)) /\ Goto("task", "wait")
  /\ UNCHANGED <<port, irqEn, ss, rxData, latch, active, job, poll, count>>
PollTimeout ==   \* the slave is let go, the byte stays on its way
  /\ at.task = "wait" /\ Runs("task") /\ busy /\ gaveUp < Timeouts
  /\ gaveUp' = gaveUp + 1 /\ Deselect /\ Goto("task", "idle")
  /\ UNCHANGED <<port, busy, done, irqEn, rxData, latch, active, job, poll, calls, last>>
PollRead ==
  /\ at.task = "wait" /\ Runs("task") /\ ~busy
  /\ poll' = Received(poll)
  /\ IF poll.i = poll.len THEN Deselect /\ Succeeded(poll') /\ Goto("task", "idle")
     ELSE UNCHANGED <<ss, cur, last>> /\ Goto("task", "send")
  /\ UNCHANGED <<busy, rxData, latch, active, job, calls, gaveUp>>
TransferBuf ==
  /\ port = "freertos" /\ UNCHANGED port
  /\ \/ PollStart /\ UNCHANGED <<done, irqEn>>
     \/ PollRead /\ WriteCtrl(FALSE, TRUE)
Transceive ==
  /\ port = "zephyr" /\ UNCHANGED port
  /\ \/ PollStart /\ WriteCtrl(FALSE, FALSE)
     \/ PollRead /\ UNCHANGED <<done, irqEn>>

-----------------------------------------------------------------------------
(* Asynchronous transfers, begun by the task or, in a callback, by the      *)
(* handler.  Zephyr's are begun with interrupts locked and keep the DONE of *)
(* an earlier transfer; the store to TXDATA clears it.                      *)
AsyncStart(c) ==
  /\ at[c] = (IF c = "task" THEN "idle" ELSE "callback") /\ Runs(c) /\ ~active /\ calls < Calls
  /\ \E n \in 1 .. MaxLen : job' = Transfer(n)
  /\ calls' = calls + 1 /\ active' = TRUE /\ SelectSlave /\ Goto(c, "ctrl")
  /\ UNCHANGED <<port, busy, done, irqEn, cur, rxData, latch, poll, gaveUp, last>>
AsyncCtrlKeeps(c) ==   \* mutant: leaves the interrupt enable as it finds it
  /\ at[c] = "ctrl" /\ Runs(c) /\ Goto(c, "first") /\ WriteCtrl(irqEn, port = "freertos")
  /\ UNCHANGED <<port, busy, ss, cur, rxData, latch, active, job, poll, count>>
AsyncCtrl(c) ==
  /\ at[c] = "ctrl" /\ Runs(c) /\ Goto(c, "first") /\ WriteCtrl(TRUE, port = "freertos")
  /\ UNCHANGED <<port, busy, ss, cur, rxData, latch, active, job, poll, count>>
AsyncSend(c) ==
  /\ at[c] = "first" /\ Runs(c) /\ Goto(c, IF c = "task" THEN "idle" ELSE "no")
  /\ WriteTx(<<job.id, 1>>)
  /\ UNCHANGED <<port, irqEn, ss, rxData, latch, active, job, poll, count>>
Start(c) == AsyncStart(c) \/ AsyncCtrl(c) \/ AsyncSend(c)

\* The handler is entered for what the PLIC has latched, which may be gone.
Locked == port = "zephyr" /\ at.task \in {"ctrl", "first"}
Enter ==
  /\ latch /\ at.irq = "no" /\ ~Locked /\ latch' = FALSE /\ Goto("irq", "status")
  /\ UNCHANGED <<port, device, active, job, poll, count>>

\* What both handlers do with a byte: take it, clear DONE, and send the next,
\* or end the transfer, let the slave go and call back.
TakeByte ==
  /\ job' = Received(job)
  /\ IF job.i < job.len
     THEN Goto("irq", "next") /\ UNCHANGED <<ss, cur, active, last>>
     ELSE /\ active' = FALSE /\ Deselect /\ Succeeded(job') /\ Goto("irq", "callback")
  /\ UNCHANGED <<port, busy, rxData, latch, poll, calls, gaveUp>>
Ignore == Goto("irq", "no") /\ UNCHANGED <<port, busy, ss, cur, rxData, latch, active, job, poll, count>>
IrqHandler ==   \* freertos_spi_irq_handler
  /\ port = "freertos" /\ at.irq = "status"
  /\ \/ ~done /\ Ignore /\ UNCHANGED <<done, irqEn>>
     \/ done /\ ~active /\ Ignore /\ WriteCtrl(FALSE, TRUE)
     \/ done /\ active /\ TakeByte /\ WriteCtrl(job.i < job.len, TRUE)
IsrOnLatch ==   \* mutant: does not look at DONE
  /\ port = "zephyr" /\ at.irq = "status"
  /\ \/ ~active /\ Ignore /\ UNCHANGED <<done, irqEn>>
     \/ active /\ TakeByte /\ WriteCtrl(TRUE, TRUE)
Isr ==          \* eriscv_spi_isr
  /\ port = "zephyr" /\ at.irq = "status"
  /\ \/ (~done \/ ~active) /\ Ignore /\ UNCHANGED <<done, irqEn>>
     \/ done /\ active /\ TakeByte /\ WriteCtrl(TRUE, TRUE)
NextByte ==
  /\ at.irq = "next" /\ Goto("irq", "no") /\ WriteTx(ByteOf(job))
  /\ UNCHANGED <<port, irqEn, ss, rxData, latch, active, job, poll, count>>
CallbackEnds ==
  /\ at.irq = "callback" /\ Goto("irq", "no")
  /\ UNCHANGED <<port, device, latch, active, job, poll, count>>

Task == PollSend \/ PollTimeout \/ TransferBuf \/ Transceive \/ Start("task")
Handler == Enter \/ IrqHandler \/ Isr \/ NextByte \/ CallbackEnds \/ Start("irq")
Next == Exchange \/ Raise \/ Task \/ Handler
Spec == Init /\ [][Next]_vars

\* The device shifts, the PLIC and the hart go on with what they have begun.
FairSpec == /\ Spec /\ WF_vars(Exchange) /\ WF_vars(Raise) /\ WF_vars(Handler)
            /\ WF_vars(at.task # "idle" /\ Task)

-----------------------------------------------------------------------------
(* A transfer that began on a device at rest and succeeded has received, in *)
(* order, what was exchanged for its own bytes under its own select,        *)
(* whatever has been given up before and however calls follow each other.   *)
RightAnswer == last.clean => last.rx = [k \in 1 .. last.len |-> <<last.id, k>>]

\* Every asynchronous transfer ends with its callback.
AsyncEnds == active ~> ~active

=============================================================================
