----------------------------- MODULE MCSoftware -----------------------------
(* The software of the library and of the RTOS ports for TLC, in one run:   *)
(* UART, SPI, timer and watchdog with their drivers, the bare-metal and the *)
(* RTOS programs.  They share nothing that the models keep, so that one of  *)
(* them is chosen at the start and the others rest.                         *)
EXTENDS Integers

CONSTANTS
  UartPorts, TxDepth, RxDepth, BufSize, TxMark, RxMark, Bytes, Arrivals,
  SpiPorts, SpiLen, Calls, Timeouts,
  TimerPorts, Intervals, MaxCount,
  WatchdogPorts, Times, Pres, PerMs, Width, Longest,
  BareApps, Ticks, RtosApps

VARIABLES system,
  uPort, txFifo, shift, rxFifo, overrun, en, uTx, uRx, rxDropped, console, hooked, task, uIrqAt,
  cause, svc, asked, sent, arrived, lost, taken, got,
  sPort, sBusy, done, irqEn, ss, sCur, rxData, latch, active, sJob, poll, sAt, calls, gaveUp, sLast,
  tPort, reg, tAt, tIrqAt, want, elapsed, clean, reports,
  bApp, bPc, ret, dma, bJob, hook, bIrqAt, seen, asleep, mie, mtip, tick, bLast, shown, bRx,
  bResult, late,
  rApp, kern, rCur, rPc, mem, dev, pmp, rResult, flaws,
  wPort, wReg, wAt, wIrqAt, drv, ask, since, warned, steady, fired

U == INSTANCE Uart WITH port <- uPort, rx <- uRx, tx <- uTx, irqAt <- uIrqAt,
       Ports <- UartPorts
S == INSTANCE Spi WITH port <- sPort, busy <- sBusy, cur <- sCur, job <- sJob, at <- sAt,
       last <- sLast, Ports <- SpiPorts, MaxLen <- SpiLen
T == INSTANCE Timer WITH port <- tPort, at <- tAt, irqAt <- tIrqAt, Ports <- TimerPorts
W == INSTANCE Watchdog WITH port <- wPort, reg <- wReg, at <- wAt, irqAt <- wIrqAt,
       Ports <- WatchdogPorts, Long <- Longest
B == INSTANCE Baremetal WITH app <- bApp, pc <- bPc, job <- bJob, irqAt <- bIrqAt, last <- bLast,
       rx <- bRx, result <- bResult, Apps <- BareApps
R == INSTANCE Rtos WITH app <- rApp, k <- kern, cur <- rCur, pc <- rPc, result <- rResult,
       Apps <- RtosApps

\* A ring has a slot at least; the counters reach every interval, and every
\* time-out of the watchdog fits into its registers.  At a time-out of one cycle
\* its reset comes without the warning.
UartAssumption ==
  /\ TxDepth \in Nat /\ RxDepth \in Nat /\ BufSize \in Nat \ {0} /\ Bytes \in Nat
SpiAssumption == SpiPorts \subseteq {"freertos", "zephyr"} /\ SpiLen \in Nat
IntervalAssumption == MaxCount \in Nat /\ Intervals \subseteq 0 .. MaxCount
WatchdogAssumption ==
  /\ Width \in Nat \ {0} /\ PerMs \in Nat \ {0} /\ Longest \in Nat /\ Width - 1 <= Longest
  /\ Pres \subseteq Nat /\ Times \subseteq Nat
  /\ \A t \in Times : t >= 2 /\ t * PerMs < Width
BareAssumption == BareApps \subseteq B!PollApps \cup B!SleepApps \cup B!TimerApps \cup {"client"}
ASSUME SoftwareAssumption ==
  /\ UartAssumption /\ SpiAssumption /\ IntervalAssumption /\ WatchdogAssumption
  /\ BareAssumption

uVars == <<uPort, txFifo, shift, rxFifo, overrun, en, uTx, uRx, rxDropped, console, hooked, task,
           uIrqAt, cause, svc, asked, sent, arrived, lost, taken, got>>
sVars == <<sPort, sBusy, done, irqEn, ss, sCur, rxData, latch, active, sJob, poll, sAt, calls,
           gaveUp, sLast>>
tVars == <<tPort, reg, tAt, tIrqAt, want, elapsed, clean, reports>>
wVars == <<wPort, wReg, wAt, wIrqAt, drv, ask, since, warned, steady, fired>>
bVars == <<bApp, bPc, ret, dma, bJob, hook, bIrqAt, seen, asleep, mie, mtip, tick, bLast, shown,
           bRx, bResult, late>>
rVars == <<rApp, kern, rCur, rPc, mem, dev, pmp, rResult, flaws>>
vars == <<system, uVars, sVars, tVars, wVars, bVars, rVars>>

Systems == {"uart", "spi", "timer", "watchdog", "bare", "rtos"}
\* What rests stands at one of its initial states.
Init ==
  /\ system \in Systems
  /\ U!Init /\ S!Init /\ T!Init /\ W!Init /\ B!Init /\ R!Init
  /\ system = "uart" \/ uPort = "async"
  /\ system = "spi" \/ sPort = "zephyr"
  /\ system = "timer" \/ tPort = "library"
  /\ system = "watchdog" \/ wPort = "library"
  /\ system = "bare" \/ bApp = "client"
  /\ system = "rtos" \/ rApp = "low_power"

Next ==
  \/ system = "uart" /\ U!Next /\ UNCHANGED <<system, sVars, tVars, wVars, bVars, rVars>>
  \/ system = "spi" /\ S!Next /\ UNCHANGED <<system, uVars, tVars, wVars, bVars, rVars>>
  \/ system = "timer" /\ T!Next /\ UNCHANGED <<system, uVars, sVars, wVars, bVars, rVars>>
  \/ system = "watchdog" /\ W!Next /\ UNCHANGED <<system, uVars, sVars, tVars, bVars, rVars>>
  \/ system = "bare" /\ B!Next /\ UNCHANGED <<system, uVars, sVars, tVars, wVars, rVars>>
  \/ system = "rtos" /\ R!Next /\ UNCHANGED <<system, uVars, sVars, tVars, wVars, bVars>>

\* The fairness of the parts.
Spec ==
  /\ Init /\ [][Next]_vars
  /\ WF_(uVars)(system = "uart" /\ U!ShiftOut)
  /\ WF_(uVars)(system = "uart" /\ U!InCall)
  /\ WF_(uVars)(system = "uart" /\ (U!TxServiceStep \/ U!Handler))
  /\ WF_(sVars)(system = "spi" /\ S!Exchange)
  /\ WF_(sVars)(system = "spi" /\ S!Raise)
  /\ WF_(sVars)(system = "spi" /\ S!Handler)
  /\ WF_(sVars)(system = "spi" /\ sAt.task # "idle" /\ S!Task)
  /\ WF_(tVars)(system = "timer" /\ T!Clock)
  /\ WF_(tVars)(system = "timer" /\ T!Call)
  /\ WF_(tVars)(system = "timer" /\ T!Isr)
  /\ WF_(wVars)(system = "watchdog" /\ W!Clock)
  /\ WF_(wVars)(system = "watchdog" /\ W!Isr)
  /\ WF_(bVars)(system = "bare" /\ B!MoveSegment)
  /\ WF_(bVars)(system = "bare" /\ B!TimerFires)
  /\ WF_(bVars)(system = "bare" /\ B!Main)
  /\ WF_(bVars)(system = "bare" /\ B!Trap)
  /\ WF_(rVars)(system = "rtos" /\ R!Tick)
  /\ WF_(rVars)(system = "rtos" /\ R!Devices)
  /\ WF_(rVars)(system = "rtos" /\ R!LongTimeout)
  /\ WF_(rVars)(system = "rtos" /\ R!PollStep)
  /\ SF_(rVars)(system = "rtos" /\ R!TaskStep)

-----------------------------------------------------------------------------
(* Bytes of the UART go out in the order in which they were accepted, and   *)
(* come in with every loss counted.                                         *)
UartInOrder == U!TxInOrder /\ U!RxInOrder
\* "Nothing pending" means that everything has left the UART.
DoneMeansSent == U!DoneMeansSent
\* Every accepted byte is sent, and a received one is taken from the FIFO.
UartServed == system = "uart" => U!EverySent /\ U!RxServed
\* A successful SPI transfer has received what was exchanged for its bytes.
RightAnswer == S!RightAnswer
\* An asynchronous transfer calls back, a started interval is reported, and a
\* watchdog that nobody feeds resets the system.
CallbackComes == /\ system = "spi" => S!AsyncEnds
                 /\ system = "timer" => T!Expires
                 /\ system = "watchdog" => W!StarvedResets
\* The end of an interval is not reported early, and the watchdog's reset comes
\* neither early nor without the warning that was asked for.
ExpiryIsDue == T!ExpiryIsDue /\ W!ResetIsDue
\* A program passes and fails only for cause.
VerdictIsTrue == B!VerdictIsTrue /\ R!VerdictIsTrue
\* Every program comes to its verdict.
VerdictComes == (system = "bare" => B!VerdictComes) /\ (system = "rtos" => R!VerdictComes)
=============================================================================
