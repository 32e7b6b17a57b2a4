------------------------------ MODULE Baremetal -----------------------------
(* The library's DMA driver (sw/lib/dma.c) and trap dispatch (sw/lib/trap.c) *)
(* under the example programs that use them, one of which is chosen at the   *)
(* start: DMA copies that poll, that sleep in WFI until the interrupt, and   *)
(* descriptor chains; timers that wake the hart; a client that makes any     *)
(* call of the DMA interface.  The DMA engine is known from this software.   *)
EXTENDS Naturals

CONSTANTS
  Apps,      \* a subset of PollApps, SleepApps, TimerApps and {"client"}
  Ticks      \* bound: tick counts are taken modulo Ticks

PollApps == {"system_sram", "uart_tx", "descriptor_chain"}
SleepApps == {"irq_wfi", "descriptor_irq_wfi"}
TimerApps == {"timer_clint", "wfi_tickless", "irq_timer_uart"}
Segments(a) == IF a \in {"descriptor_chain", "client"} THEN 2 ELSE 1   \* descriptors of its transfer

VARIABLES
  app, pc, ret,   \* the program, where it stands, what the last call returned
  dma,            \* STATUS and CTRL: [busy, done, error, irqEn]
  job,            \* the transfer: [left, moved, error], segments to go and moved
  hook,           \* dma_completion_status: "none", "done" or "error"
  irqAt, seen,    \* where the handler stands, and the STATUS it has read
  asleep,         \* WFI holds the fetch
  mie,            \* the interrupts enabled, of "MTI" and "MEI"
  mtip, tick, last, shown,  \* the CLINT's interrupt, g_tick, its copy, the last shown
  rx,             \* the UART holds a byte
  result,         \* "none", "pass" or "fail"
  late            \* history: "gave up", a wait; "slept" behind the interrupt; "cleared" by
                  \* the client; "overrun", a transfer started over another
clint == <<mtip, tick>>
prog == <<pc, ret, last, shown, result>>
irq == <<irqAt, seen, hook>>
vars == <<app, prog, dma, job, irq, asleep, mie, clint, rx, late>>

Init ==
  /\ app \in Apps /\ pc = "main" /\ ret = "none" /\ result = "none"
  /\ dma = [busy |-> FALSE, done |-> FALSE, error |-> FALSE, irqEn |-> FALSE]
  /\ job = [left |-> 0, moved |-> 0, error |-> FALSE] /\ hook = "none"
  /\ irqAt = "no" /\ seen = "none" /\ asleep = FALSE /\ mie = {}
  /\ mtip = FALSE /\ tick = 0 /\ last = 0 /\ shown = 0 /\ rx = FALSE
  /\ late = {}

-----------------------------------------------------------------------------
(* The devices: a segment is moved, with its descriptor written back, or     *)
(* ends the transfer with an error; mtime reaches mtimecmp, which is set     *)
(* before MTI is enabled and by the handler (Clint has the stores); a byte   *)
(* is pushed into the RX FIFO, of which rx says that it is not empty (Uart   *)
(* has the bytes).                                                           *)
MoveSegment ==
  /\ dma.busy
  /\ \/ /\ job.left > 1 /\ job' = [job EXCEPT !.left = @ - 1, !.moved = @ + 1] /\ UNCHANGED dma
     \/ /\ job.left = 1 /\ job' = [job EXCEPT !.left = 0, !.moved = @ + 1]
        /\ dma' = [dma EXCEPT !.busy = FALSE, !.done = TRUE]
     \/ job' = [job EXCEPT !.error = TRUE] /\ dma' = [dma EXCEPT !.busy = FALSE, !.error = TRUE]
  /\ UNCHANGED <<app, prog, irq, asleep, mie, clint, rx, late>>
Looked == IF app = "wfi_tickless" THEN shown ELSE last
\* An interval (100000 cycles and more) is longer than the handler, and a bound:
\* fewer than Ticks of them end between two looks at the count.
TimerFires ==
  /\ ~mtip /\ "MTI" \in mie /\ irqAt = "no" /\ mtip' = TRUE
  /\ (tick + 1) % Ticks # Looked /\ (asleep \/ (tick + 2) % Ticks # Looked)
  /\ UNCHANGED <<app, prog, dma, job, irq, asleep, mie, tick, rx, late>>
ByteArrives ==
  /\ app = "irq_timer_uart" /\ ~rx /\ rx' = TRUE
  /\ UNCHANGED <<app, prog, dma, job, irq, asleep, mie, clint, late>>

UartIrqEn == FALSE   \* eriscv_mcu_uart_init enables TX and RX, no interrupt
DmaLine == dma.irqEn /\ (dma.done \/ dma.error)
Pending == mie \cap ((IF mtip THEN {"MTI"} ELSE {})
                     \cup (IF DmaLine \/ (UartIrqEn /\ rx) THEN {"MEI"} ELSE {}))

-----------------------------------------------------------------------------
(* The driver.  Each call is a sequence of register accesses.                *)
Runs == irqAt = "no" /\ ~asleep
Goto(from, to) == Runs /\ pc = from /\ pc' = to
Driver == UNCHANGED <<app, irq, asleep, mie, clint, rx, last, shown, result>>
ClearStatus == dma' = [dma EXCEPT !.done = FALSE, !.error = FALSE]

\* dma_start, dma_uart_tx_start and dma_start_descriptor.
StartCheck ==
  /\ Driver /\ UNCHANGED <<dma, job, late>>
  /\ \/ Goto("start", "busy?") /\ UNCHANGED ret
     \/ app = "client" /\ Goto("start", "returned") /\ ret' = "EINVAL"
StartBusyUnchecked ==   \* mutant: starts over a transfer under way
  /\ Driver /\ UNCHANGED <<dma, job, late>> /\ Goto("busy?", "clear") /\ UNCHANGED ret
StartBusy ==
  /\ Driver /\ UNCHANGED <<dma, job, late>>
  /\ \/ dma.busy /\ Goto("busy?", "returned") /\ ret' = "EBUSY"
     \/ ~dma.busy /\ Goto("busy?", "clear") /\ UNCHANGED ret
StartClear == Driver /\ Goto("clear", "go") /\ ClearStatus /\ UNCHANGED <<job, ret, late>>
StartGo ==
  /\ Driver /\ Goto("go", "returned") /\ ret' = "OK"
  /\ dma' = [dma EXCEPT !.busy = TRUE, !.irqEn = app \in SleepApps]
  /\ job' = [left |-> Segments(app), moved |-> 0, error |-> FALSE]
  /\ late' = IF dma.busy THEN {"overrun"} ELSE {}

\* dma_wait: the polls may run out.
Wait ==
  /\ Driver /\ UNCHANGED <<dma, job>>
  /\ \/ /\ ~dma.busy /\ Goto("wait", "waited") /\ UNCHANGED late
        /\ ret' = IF dma.error THEN "EIO" ELSE "OK"
     \/ dma.busy /\ Goto("wait", "waited") /\ ret' = "ETIMEOUT" /\ late' = late \cup {"gave up"}

\* What the client does between calls.
Client ==
  /\ app = "client" /\ Driver /\ UNCHANGED <<job, ret>>
  /\ \/ /\ \/ Goto("main", "start") \/ Goto("main", "wait")
           \/ Goto("waited", "main") \/ Goto("returned", "main")
        /\ UNCHANGED <<dma, late>>
     \/ Goto("main", "main") /\ ClearStatus /\ late' = late \cup {"cleared"}

-----------------------------------------------------------------------------
(* The programs.                                                             *)
Rest == UNCHANGED <<app, dma, job, irq, clint, rx>>
DmaMain ==   \* buffers and descriptors are written, interrupts enabled
  /\ app \in PollApps \cup SleepApps /\ Goto("main", "start") /\ Rest
  /\ mie' = IF app \in SleepApps THEN {"MEI"} ELSE {}
  /\ UNCHANGED <<ret, last, shown, result, asleep, late>>
DmaStarted ==
  /\ app \in PollApps \cup SleepApps /\ Rest
  /\ Goto("returned", IF app \in PollApps THEN "wait" ELSE "test")
  /\ UNCHANGED <<ret, last, shown, result, asleep, mie, late>>

\* The sleep loop: test the flag, then WFI.  WFI does not sleep while an
\* enabled interrupt is pending.
Test ==
  /\ Rest /\ UNCHANGED <<ret, last, shown, result, asleep, mie, late>>
  /\ \/ app \in SleepApps /\ Goto("test", IF hook = "none" THEN "wfi" ELSE "waited")
     \/ app \in TimerApps /\ Goto("test", IF tick = last THEN "wfi" ELSE "show")
Wfi ==
  /\ Rest /\ asleep' = (Pending = {}) /\ UNCHANGED <<ret, last, shown, result, mie>>
  /\ Goto("wfi", IF app = "wfi_tickless" THEN "show" ELSE "test")
  /\ late' = IF asleep' /\ hook # "none" THEN late \cup {"slept"} ELSE late

\* The verdict: the status that was returned or left by the hook, then the
\* data, and for descriptors what the engine wrote back.
Complete == job.moved = Segments(app)
JudgeByStatus ==   \* mutant: does not compare the data
  /\ Rest /\ Goto("waited", "end") /\ UNCHANGED <<ret, last, shown, asleep, mie, late>>
  /\ app # "client" /\ result' = IF app \in SleepApps \/ ret = "OK" THEN "pass" ELSE "fail"
Judge ==
  /\ Rest /\ Goto("waited", "end") /\ UNCHANGED <<ret, last, shown, asleep, mie, late>>
  /\ app # "client"
  /\ result' = IF /\ app \in SleepApps => hook = "done"
                  /\ app \in PollApps => ret = "OK"
                  /\ app # "uart_tx" => Complete
               THEN "pass" ELSE "fail"

\* The timer programs: arm, remember the count, sleep until it changes, show it.
TimerMain ==
  /\ app \in TimerApps /\ Goto("main", IF app = "wfi_tickless" THEN "wfi" ELSE "remember")
  /\ mie' = IF app = "irq_timer_uart" THEN {"MTI", "MEI"} ELSE {"MTI"}
  /\ Rest /\ UNCHANGED <<ret, last, shown, result, asleep, late>>
Remember ==
  /\ Goto("remember", "test") /\ last' = tick
  /\ Rest /\ UNCHANGED <<ret, shown, result, asleep, mie, late>>
Show ==
  /\ Goto("show", IF app = "wfi_tickless" THEN "wfi" ELSE "remember") /\ shown' = tick
  /\ Rest /\ UNCHANGED <<ret, last, result, asleep, mie, late>>

-----------------------------------------------------------------------------
(* The trap handler: the timer's handler sets the next mtimecmp and counts;  *)
(* the external one claims, and dma_irq_handler reads STATUS, clears it and  *)
(* calls the hook.  irq_timer_uart has a handler of its own.                 *)
TrapEnter ==
  /\ irqAt = "no" /\ Pending # {} /\ asleep' = FALSE
  /\ irqAt' = IF "MEI" \in Pending THEN "claim" ELSE "rearm"
  /\ UNCHANGED <<app, prog, dma, job, hook, seen, mie, clint, rx, late>>
Handler == UNCHANGED <<app, prog, job, asleep, mie, late>>
TimerIrqStuck ==   \* mutant: does not move mtimecmp on
  /\ Handler /\ UNCHANGED <<dma, hook, seen, rx>>
  /\ \/ irqAt = "rearm" /\ irqAt' = "count" /\ UNCHANGED clint
     \/ irqAt = "count" /\ irqAt' = "no" /\ tick' = (tick + 1) % Ticks /\ UNCHANGED mtip
TimerIrq ==
  /\ Handler /\ UNCHANGED <<dma, hook, seen, rx>>
  /\ \/ irqAt = "rearm" /\ irqAt' = "count" /\ mtip' = FALSE /\ UNCHANGED tick
     \/ irqAt = "count" /\ irqAt' = "no" /\ tick' = (tick + 1) % Ticks /\ UNCHANGED mtip
ExternalIrq ==
  /\ Handler /\ UNCHANGED clint
  /\ \/ /\ irqAt = "claim" /\ irqAt' = (IF DmaLine THEN "status" ELSE "no")
        /\ rx' = (rx /\ (DmaLine \/ ~UartIrqEn)) /\ UNCHANGED <<dma, hook, seen>>
     \/ /\ irqAt = "status" /\ irqAt' = "clear" /\ UNCHANGED <<dma, hook, rx>>
        /\ seen' = IF dma.error THEN "error" ELSE IF dma.done THEN "done" ELSE "none"
     \/ irqAt = "clear" /\ irqAt' = "hook" /\ ClearStatus /\ UNCHANGED <<hook, seen, rx>>
     \/ irqAt = "hook" /\ irqAt' = "no" /\ hook' = seen /\ UNCHANGED <<dma, seen, rx>>

Main == \/ StartCheck \/ StartBusy \/ StartClear \/ StartGo \/ Wait
        \/ DmaMain \/ DmaStarted \/ Test \/ Wfi \/ Judge \/ TimerMain \/ Remember \/ Show
Trap == TrapEnter \/ TimerIrq \/ ExternalIrq
Next == MoveSegment \/ TimerFires \/ ByteArrives \/ Client \/ Main \/ Trap
Spec == Init /\ [][Next]_vars

\* The devices and the hart go on.
FairSpec == Spec /\ WF_vars(MoveSegment) /\ WF_vars(TimerFires) /\ WF_vars(Main) /\ WF_vars(Trap)

-----------------------------------------------------------------------------
(* A program passes when its data has been moved, whole, and fails only      *)
(* when the engine has reported an error or the polls have run out; to any   *)
(* client of the driver OK means the same, and a transfer under way is left  *)
(* alone.                                                                    *)
VerdictIsTrue ==
  /\ result = "pass" => Complete /\ ~job.error
  /\ result = "fail" => job.error \/ "gave up" \in late
  /\ pc = "waited" /\ app \notin SleepApps /\ ret = "OK" /\ "cleared" \notin late
     => ~job.error /\ (job.moved = 0 \/ Complete)
  /\ "overrun" \notin late

\* Every program comes to its verdict, and the timer programs show the count
\* again and again, unless the hart goes to sleep behind the only interrupt.
VerdictComes ==
  /\ app \in PollApps \cup SleepApps => <>(result # "none" \/ "slept" \in late)
  /\ app \in TimerApps => []<>(pc = "show")

\* What irq_timer_uart says: a received byte is echoed.
Echo == rx ~> ~rx

\* "DMA source-5 PLIC interrupt wakes WFI".
DmaWakes == app \in SleepApps => <>(result # "none")
=============================================================================
