-------------------------------- MODULE Timer -------------------------------
(* The APB timer (rtl/soc/peripherals/timer/timer_apb.sv) under the three   *)
(* pieces of software that start it: the library's inline functions         *)
(* (sw/include/eriscv_mcu.h, polled as examples/timer_apb_poll does), the   *)
(* FreeRTOS driver with the handler of its demo, and Zephyr's counter       *)
(* driver.  Every step is a clock edge; a store takes effect on one.        *)
EXTENDS Naturals

CONSTANTS
  Ports,      \* a subset of {"library", "freertos", "zephyr"}
  Intervals,  \* the compare values asked for
  MaxCount    \* bound: the 32-bit counter stays at it instead of wrapping

VARIABLES
  port,
  reg,      \* [en, irq (CTRL), count, compare, expired (STATUS)]
  at, irqAt,  \* where the foreground and the handler stand
  want,     \* the interval being started
  elapsed,  \* history: edges since COUNT was cleared,
  clean,    \* was STATUS clear then?
  reports   \* and how often the end of an interval was reported (modulo 2)
vars == <<port, reg, at, irqAt, want, elapsed, clean, reports>>

Init ==
  /\ port \in Ports
  /\ reg = [en |-> FALSE, irq |-> FALSE, count |-> 0, compare |-> 0, expired |-> FALSE]
  /\ at = "init" /\ irqAt = "no" /\ want = [compare |-> 0, irq |-> FALSE]
  /\ elapsed = 0 /\ clean = TRUE /\ reports = 0

AtMost(n) == IF n < MaxCount THEN n ELSE MaxCount
Clocked ==
  [reg EXCEPT !.count = IF reg.en THEN AtMost(@ + 1) ELSE @,
              !.expired = @ \/ (reg.en /\ reg.compare # 0 /\ reg.count >= reg.compare)]
Line == reg.expired /\ reg.irq
Passes == elapsed' = AtMost(elapsed + 1)
Edge == reg' = Clocked /\ Passes /\ UNCHANGED clean

\* Stores.  One to STATUS wins over an expiry on the same edge.
StoreCompare(n) == reg' = [Clocked EXCEPT !.compare = n] /\ Passes /\ UNCHANGED clean
StoreCount0 == reg' = [Clocked EXCEPT !.count = 0] /\ elapsed' = 0 /\ clean' = ~Clocked.expired
StoreCtrl(en, irq) == reg' = [Clocked EXCEPT !.en = en, !.irq = irq] /\ Passes /\ UNCHANGED clean
StoreStatus == reg' = [Clocked EXCEPT !.expired = FALSE] /\ Passes /\ UNCHANGED clean
Report == reports' = 1 - reports

Clock == Edge /\ UNCHANGED <<port, at, irqAt, want, reports>>

\* The foreground, between handlers.
From(step, to) == at = step /\ irqAt = "no" /\ at' = to

\* eriscv_timer_init; the other ports start from reset.
ZephyrInit ==
  /\ port = "zephyr" /\ UNCHANGED <<port, irqAt, want, reports>>
  /\ \/ From("init", "clear") /\ StoreCtrl(FALSE, FALSE)
     \/ From("clear", "idle") /\ StoreStatus
Reset == port # "zephyr" /\ From("init", "idle") /\ Edge /\ UNCHANGED <<port, irqAt, want, reports>>

\* timer_start of the library and of FreeRTOS, eriscv_timer_set_top_value:
\* COMPARE, COUNT, CTRL.  Zephyr refuses an interval of zero.
Start ==
  /\ From("idle", "count") /\ UNCHANGED <<port, irqAt, reports>>
  /\ \E n \in Intervals, irq \in BOOLEAN :
       /\ (port = "library" => ~irq) /\ (port = "zephyr" => n # 0)
       /\ want' = [compare |-> n, irq |-> irq] /\ StoreCompare(n)
StartCount ==
  /\ From("count", "ctrl") /\ StoreCount0 /\ UNCHANGED <<port, irqAt, want, reports>>
StartCtrlNoIrq ==   \* mutant: never enables the interrupt
  /\ From("ctrl", "waiting") /\ StoreCtrl(TRUE, FALSE)
  /\ UNCHANGED <<port, irqAt, want, reports>>
StartCtrl ==
  /\ From("ctrl", "waiting") /\ StoreCtrl(TRUE, want.irq)
  /\ UNCHANGED <<port, irqAt, want, reports>>

\* timer_expired, in a loop: the library goes on, FreeRTOS stops the timer.
PollExpired ==
  /\ reg.expired /\ ~want.irq /\ port # "zephyr" /\ Report /\ Edge
  /\ From("waiting", IF port = "library" THEN "idle" ELSE "stop")
  /\ UNCHANGED <<port, irqAt, want>>

\* freertos_timer_stop: CTRL, then STATUS; counter_stop: CTRL alone.
StopCtrl == StoreCtrl(FALSE, FALSE)
StopStatusKeeps == Edge   \* mutant: stop leaves STATUS set
StopStatus == StoreStatus
StopTimer ==
  /\ port = "freertos" /\ UNCHANGED <<port, want, irqAt, reports>>
  /\ \/ From("stop", "status") /\ StopCtrl
     \/ From("status", "idle") /\ StopStatus
CounterStop ==
  /\ port = "zephyr" /\ From("waiting", "idle") /\ StopCtrl /\ UNCHANGED <<port, irqAt, want, reports>>
CounterStart ==   \* sets the enable again, not the interrupt enable that stop cleared
  /\ port = "zephyr" /\ From("idle", "waiting") /\ StoreCtrl(TRUE, reg.irq)
  /\ want' = [want EXCEPT !.irq = FALSE] /\ UNCHANGED <<port, irqAt, reports>>

\* The handlers, one store per step; they report what they are entered for.
Handles(step, to) == irqAt = step /\ irqAt' = to /\ UNCHANGED <<port, want>>
IrqEnter == Line /\ Handles("no", "first") /\ Edge /\ Report /\ UNCHANGED at
FreertosIsr ==
  /\ port = "freertos" /\ UNCHANGED reports
  /\ \/ Handles("first", "second") /\ StopCtrl /\ UNCHANGED at
     \/ Handles("second", "notify") /\ StopStatus /\ UNCHANGED at
     \/ Handles("notify", "no") /\ Edge /\ at' = "idle"
ZephyrIsr ==
  /\ port = "zephyr" /\ UNCHANGED <<at, reports>>
  /\ \/ Handles("first", "second") /\ StoreStatus
     \/ Handles("second", "callback") /\ StoreCount0
     \/ Handles("callback", "no") /\ Edge

Call == ZephyrInit \/ Reset \/ StartCount \/ StartCtrl \/ PollExpired \/ StopTimer
Isr == IrqEnter \/ FreertosIsr \/ ZephyrIsr
Next == Clock \/ Start \/ CounterStop \/ CounterStart \/ Call \/ Isr
Spec == Init /\ [][Next]_vars

\* The clock runs, and the hart goes on with calls and handlers.
FairSpec == Spec /\ WF_vars(Clock) /\ WF_vars(Call) /\ WF_vars(Isr)

-----------------------------------------------------------------------------
(* The end of an interval is not reported before the interval has passed.   *)
(* FreeRTOS's driver keeps this always; the library and Zephyr's driver     *)
(* only for an interval that found STATUS clear, because neither clears it  *)
(* when one begins.                                                         *)
Early == reports' # reports /\ elapsed < want.compare
ExpiryIsDue == [][Early => port # "freertos" /\ ~clean]_vars

\* What the demo prints of each of its intervals: that they elapsed.
IntervalElapsed == [][~Early]_vars

\* Every interval that is started and not stopped is reported, to the caller
\* that polls or in its callback.  An interval of zero never ends, and what
\* counter_start resumes has no callback.
Reports(r) == at = "waiting" /\ want.compare # 0 /\ (want.irq \/ port # "zephyr")
              /\ reports = r
Expires == \A r \in {0, 1} : Reports(r) ~> (at # "waiting" \/ reports # r)
=============================================================================
