------------------------------ MODULE Watchdog ------------------------------
(* The APB watchdog (rtl/peripherals/watchdog/watchdog_apb.sv) under the     *)
(* three pieces of software that set it: the library's inline functions      *)
(* (sw/include/eriscv_mcu.h), the FreeRTOS driver and Zephyr's driver with   *)
(* its handler.  Every step is a clock edge; a store takes effect on one.    *)
EXTENDS Naturals

CONSTANTS
  Ports,      \* a subset of {"library", "freertos", "zephyr"}
  Times,      \* the time-outs asked for: cycles, in Zephyr milliseconds
  Pres,       \* the warning and window thresholds asked for; 0 is none
  PerMs,      \* cycles per millisecond
  Width,      \* registers count modulo Width (2^32)
  Long        \* bound: history counts edges up to Long

VARIABLES
  port,
  reg,        \* [en, irq, windowed (CTRL), timeout, window, pre, count, pend, locked]
  at, irqAt,  \* where the foreground and the handler stand
  drv,        \* Zephyr: [installed, running, callback]
  ask,        \* what the software asks for: [time, pre, window], cycles not reduced
  since,      \* history: edges since the counter was loaded,
  warned,     \* was the interrupt raised since then?
  steady,     \* is what was asked for unchanged since then?
  fired       \* the reset output was active; nothing goes on
rest == <<port, irqAt, drv>>
vars == <<port, reg, at, irqAt, drv, ask, since, warned, steady, fired>>

Init ==
  /\ port \in Ports
  /\ reg = [en |-> FALSE, irq |-> FALSE, windowed |-> FALSE, timeout |-> Width - 1,
            window |-> 0, pre |-> 0, count |-> Width - 1, pend |-> FALSE, locked |-> FALSE]
  /\ at = "idle" /\ irqAt = "no"
  /\ drv = [installed |-> FALSE, running |-> FALSE, callback |-> FALSE]
  /\ ask = [time |-> Width - 1, pre |-> 0, window |-> 0]
  /\ since = 0 /\ warned = FALSE /\ steady = TRUE /\ fired = FALSE

-----------------------------------------------------------------------------
(* The device.  The core is not halted by a debugger.                        *)
Expired == reg.en /\ reg.count = 0   \* wdt_rst_n_o is low
Hit == /\ reg.en /\ reg.irq /\ reg.pre # 0 /\ reg.pre < reg.timeout
       /\ reg.count = reg.pre + 1
Line == reg.pend /\ reg.irq
Clocked == [reg EXCEPT !.count = IF reg.en /\ @ > 0 THEN @ - 1 ELSE @, !.pend = @ \/ Hit]
WindowOk == ~reg.windowed \/ reg.window = 0 \/ reg.count <= reg.window

AtMost(n) == IF n < Long THEN n ELSE Long
Passes == since' = AtMost(since + 1) /\ warned' = (warned \/ Hit)
Loaded == since' = 0 /\ warned' = FALSE
Edge == ~fired /\ fired' = Expired

\* A store to a configuration register has no effect once LOCK is set.
StoreConfig(r) ==
  /\ Edge /\ Passes /\ reg' = IF reg.locked THEN Clocked ELSE r
  /\ steady' = (steady /\ ~reg.en)
StoreTimeout(t) == StoreConfig([Clocked EXCEPT !.timeout = t])
StoreWindow(t) == StoreConfig([Clocked EXCEPT !.window = t])
StorePretimeout(t) == StoreConfig([Clocked EXCEPT !.pre = t])

\* CTRL loads the counter only when it enables; disabling drops a warning.
StoreCtrl(en, irq) ==
  /\ Edge
  /\ IF reg.locked THEN reg' = Clocked /\ Passes /\ UNCHANGED steady
     ELSE IF en /\ ~reg.en
     THEN reg' = [Clocked EXCEPT !.en = TRUE, !.irq = irq, !.count = reg.timeout]
          /\ Loaded /\ steady' = TRUE
     ELSE reg' = [Clocked EXCEPT !.en = en, !.irq = irq, !.pend = @ /\ en]
          /\ Passes /\ steady' = (steady /\ irq = reg.irq)
StoreStatus == /\ Edge /\ Passes /\ UNCHANGED steady
               /\ reg' = IF reg.locked THEN Clocked ELSE [Clocked EXCEPT !.pend = Hit]
StoreFeedKeeps ==   \* mutant: a feed forgets the pending warning, not the count
  /\ Edge /\ reg' = [Clocked EXCEPT !.pend = FALSE] /\ UNCHANGED steady
  /\ IF reg.en THEN Loaded ELSE Passes
StoreFeed ==
  /\ Edge /\ UNCHANGED steady
  /\ IF WindowOk
     THEN /\ reg' = [Clocked EXCEPT !.count = IF reg.en THEN reg.timeout ELSE @, !.pend = FALSE]
          /\ IF reg.en THEN Loaded ELSE Passes
     ELSE reg' = Clocked /\ Passes
StoreLock == Edge /\ Passes /\ reg' = [Clocked EXCEPT !.locked = TRUE] /\ UNCHANGED steady

Clock == Edge /\ Passes /\ reg' = Clocked /\ UNCHANGED <<rest, at, ask, steady>>

-----------------------------------------------------------------------------
(* The library and FreeRTOS.  The library has one call per register, which   *)
(* wdt_smoke makes in this order.                                            *)
From(step, to) == at = step /\ irqAt = "no" /\ at' = to
Plain == port \in {"library", "freertos"} /\ UNCHANGED rest

SetTimeout ==
  /\ Plain /\ From("idle", IF port = "library" THEN "pre" ELSE "window")
  /\ \E t \in Times, p, w \in Pres :
       /\ ask' = [time |-> t, pre |-> p, window |-> w] /\ StoreTimeout(t)
SetPretimeout ==
  /\ Plain /\ From("pre", IF port = "library" THEN "window" ELSE "idle")
  /\ StorePretimeout(ask.pre) /\ UNCHANGED ask
SetWindow ==
  /\ Plain /\ From("window", IF port = "library" THEN "idle" ELSE "pre")
  /\ StoreWindow(ask.window) /\ UNCHANGED ask
Enable == Plain /\ From("idle", "idle") /\ (\E irq \in BOOLEAN : StoreCtrl(TRUE, irq)) /\ UNCHANGED ask
Disable == /\ Plain /\ port = "freertos" /\ From("idle", "idle") /\ StoreCtrl(FALSE, FALSE)
           /\ UNCHANGED ask
Feed == Plain /\ From("idle", "idle") /\ StoreFeed /\ UNCHANGED ask
Lock == Plain /\ port = "library" /\ From("idle", "idle") /\ StoreLock /\ UNCHANGED ask
ClearPretimeout ==
  Plain /\ port = "library" /\ From("idle", "idle") /\ StoreStatus /\ UNCHANGED ask

-----------------------------------------------------------------------------
(* Zephyr.  Half of the time-out is left when the callback is due.           *)
Cycles(ms) == (ms * PerMs) % Width   \* wdt_cycles
Install ==
  /\ port = "zephyr" /\ From("idle", "zpre") /\ UNCHANGED <<port, irqAt>>
  /\ ~drv.running /\ ~drv.installed
  /\ \E max \in Times, callback \in BOOLEAN :
       /\ max # 0 /\ drv' = [drv EXCEPT !.callback = callback, !.installed = TRUE]
       /\ ask' = [time |-> max * PerMs, pre |-> IF callback THEN max \div 2 ELSE 0,
                  window |-> 0]
       /\ StoreTimeout(Cycles(max))
InstallPre ==
  /\ port = "zephyr" /\ From("zpre", "idle") /\ StorePretimeout(Cycles(ask.pre))
  /\ UNCHANGED <<rest, ask>>
Setup ==
  /\ port = "zephyr" /\ From("idle", "idle") /\ drv.installed /\ ~drv.running
  /\ StoreCtrl(TRUE, drv.callback) /\ drv' = [drv EXCEPT !.running = TRUE]
  /\ UNCHANGED <<port, irqAt, ask>>
ZephyrDisable ==
  /\ port = "zephyr" /\ From("idle", "idle") /\ drv.running /\ StoreCtrl(FALSE, FALSE)
  /\ drv' = [drv EXCEPT !.running = FALSE, !.installed = FALSE]
  /\ UNCHANGED <<port, irqAt, ask>>
ZephyrFeed ==
  /\ port = "zephyr" /\ From("idle", "idle") /\ drv.running /\ StoreFeed
  /\ UNCHANGED <<rest, ask>>
Isr ==
  /\ port = "zephyr" /\ UNCHANGED <<port, drv, at, ask>>
  /\ \/ irqAt = "no" /\ Line /\ irqAt' = "status" /\ Edge /\ Passes /\ reg' = Clocked
        /\ UNCHANGED steady
     \/ irqAt = "status" /\ irqAt' = "callback" /\ StoreStatus
     \/ irqAt = "callback" /\ irqAt' = "no" /\ Edge /\ Passes /\ reg' = Clocked
        /\ UNCHANGED steady

Next == \/ Clock \/ SetTimeout \/ SetPretimeout \/ SetWindow \/ Enable \/ Disable \/ Feed \/ Lock
        \/ ClearPretimeout \/ Install \/ InstallPre \/ Setup \/ ZephyrDisable \/ ZephyrFeed \/ Isr
Spec == Init /\ [][Next]_vars
FairSpec == Spec /\ WF_vars(Clock) /\ WF_vars(Isr)

-----------------------------------------------------------------------------
(* The reset comes no earlier than the time asked for after the last feed,   *)
(* and when a warning was asked for not before the warning, unless the       *)
(* software has changed its mind under way; Zephyr's driver never lets it.   *)
AsksWarning == IF port = "zephyr" THEN drv.callback
               ELSE reg.irq /\ ask.pre # 0 /\ ask.pre < ask.time
ResetIsDue ==
  [][fired' /\ ~fired => IF steady THEN since >= ask.time /\ (AsksWarning => warned)
                         ELSE port # "zephyr"]_vars

\* A watchdog that is neither fed nor disabled resets the system, whatever is
\* configured meanwhile and though the handler may run again and again.
Starved == reg.en /\ since = 1
StarvedResets == Starved ~> (fired \/ since = 0 \/ ~reg.en)

\* "WINDOW mode enforces minimal feed interval": a feed before the window that
\* was programmed opens is not accepted.
FedInWindow ==
  [][since # 0 /\ since' = 0 /\ reg.en /\ reg.window # 0 => reg.count <= reg.window]_vars
=============================================================================
