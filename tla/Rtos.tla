-------------------------------- MODULE Rtos --------------------------------
(* The RTOS programs, one of which is chosen at the start: the FreeRTOS demo  *)
(* (sw/rtos/freertos/main.c), its user-mode variant with PMP-isolated tasks   *)
(* (sw/rtos/freertos_umode), the Zephyr demo and the Zephyr low-power app.    *)
(* RtosPrograms has the tasks; the kernels are external and known from their  *)
(* use: priorities, preemption, ticks, and any order among equals at a switch.*)
EXTENDS Naturals, Sequences, RtosPrograms

CONSTANT Apps   \* a subset of {"freertos", "umode", "zephyr", "low_power"}

VARIABLES
  app,
  k,         \* the kernel: [ready, wait, count (of queues and semaphores), ret, reg]
  cur, pc,   \* the task that runs, and where each stands
  mem, dev,  \* shared variables, and the devices at work
  pmp,       \* the task whose region pmpaddr1 opens
  result,
  flaws      \* history: "lost" update, "sliced" hand-over, "late" device
vars == <<app, k, cur, pc, mem, dev, pmp, result, flaws>>

-----------------------------------------------------------------------------
Program(t) == Programs[app][t]
Tasks == DOMAIN Programs[app]
Priority(t) == CASE t \in {"consumer", "user0", "user1", "user2", "user3"} -> 2
                 [] t = "main" -> 3 [] t \in {"a", "b", "thread_a"} -> 1 [] OTHER -> 0

-----------------------------------------------------------------------------
(* The kernel.                                                                *)
Objects == {"queue", "notify", "mutex", "user1", "user2", "user3", "sem_a", "sem_b", "msgq",
            "sem_done", "spi_done", "wake_sem", "never"}
Idle == [on |-> "no", left |-> 0]
Init ==
  /\ app \in Apps
  /\ k = [ready |-> Tasks, wait |-> [t \in Tasks |-> Idle], ret |-> [t \in Tasks |-> FALSE],
          reg |-> [t \in Tasks |-> {}],
          count |-> [o \in Objects |-> IF o \in {"mutex", "sem_a"} THEN 1 ELSE 0]]
  \* FreeRTOS starts the task created last among the highest.
  /\ cur = CASE app = "freertos" -> "consumer" [] app = "umode" -> "user3" [] OTHER -> "main"
  /\ pc = [t \in Tasks |-> 1] /\ pmp = "user3"
  /\ mem = [bits |-> {}, given |-> {}, woken |-> {}, armed |-> 0, spi |-> 0, handoff |-> 0,
            msgq |-> 0, count |-> 0, timer |-> 0, wdt |-> 0, wake |-> 0, console |-> 0,
            irqs |-> 0, byte |-> 0, exit0 |-> 0, exit1 |-> 0, exit2 |-> 0, waited |-> 0]
  /\ dev = {} /\ result = "none" /\ flaws = {}

Top(ready) == {t \in ready : \A u \in ready : Priority(u) <= Priority(t)}
SwitchKeepsPmp(ready, slice) ==   \* mutant: the wrapper of vTaskSwitchContext is not linked
  /\ cur' \in IF ready = {} THEN {"idle"}
              ELSE IF ~slice /\ cur \in Top(ready) THEN {cur} ELSE Top(ready)
  /\ UNCHANGED pmp
Switch(ready, slice) ==   \* the idle task keeps the template of the last user
  /\ cur' \in IF ready = {} THEN {"idle"}
              ELSE IF ~slice /\ cur \in Top(ready) THEN {cur} ELSE Top(ready)
  /\ pmp' = IF app = "umode" /\ cur' # "idle" THEN cur' ELSE pmp

Waiting(q, o) == {t \in Tasks : q.wait[t].on = o}
Woken(q, ts, ok) == [q EXCEPT !.ready = @ \cup ts,
                              !.wait = [t \in Tasks |-> IF t \in ts THEN Idle ELSE @[t]],
                              !.ret = [t \in Tasks |-> IF t \in ts THEN ok ELSE @[t]]]
Give(q, o) == IF Waiting(q, o) # {} THEN Woken(q, Waiting(q, o), TRUE)
              ELSE [q EXCEPT !.count[o] = 1]
Block(q, t, o, n) == [q EXCEPT !.ready = @ \ {t}, !.wait[t] = [on |-> o, left |-> n]]

\* The tick: time-outs end, the tick hook runs, equals take turns.
HandedOn(t) == pc[t] <= Len(Program(t)) /\ \E i \in 1 .. pc[t] - 1 : Program(t)[i][1] = "give"
Tick ==
  LET timed == {t \in Tasks : k.wait[t].left \in 1 .. 3}
      ended == {t \in timed : k.wait[t].left = 1}
      q == [k EXCEPT !.wait = [t \in Tasks |-> IF t \in timed THEN [@[t] EXCEPT !.left = @ - 1]
                                               ELSE @[t]]]
  IN  /\ result = "none" /\ k' = Woken(q, ended, FALSE) /\ Switch(k'.ready, TRUE)
      /\ mem' = [mem EXCEPT !.armed = 0]
      /\ flaws' = IF app = "umode" /\ cur # "idle" /\ cur' # cur /\ HandedOn(cur)
                  THEN flaws \cup {"sliced"} ELSE flaws
      /\ UNCHANGED <<app, pc, dev, result>>

\* A device that has not answered when the software gives up waiting is late.
Late == IF dev # {} THEN flaws \cup {"late"} ELSE flaws

\* A long time-out ends when nothing else is left to run.
LongTimeout ==
  /\ cur = "idle" /\ result = "none" /\ \E t \in Tasks :
       k.wait[t].left = Long /\ k' = Woken(k, {t}, FALSE)
  /\ flaws' = Late /\ Switch(k'.ready, FALSE) /\ UNCHANGED <<app, pc, mem, dev, result>>

-----------------------------------------------------------------------------
(* The interrupts: the handler of the FreeRTOS demo, Zephyr's callbacks and   *)
(* the expiry function of the low-power timer.                                *)
Raised(d) == d \in dev /\ result # "fail" /\ dev' = dev \ {d} /\ UNCHANGED <<app, pc, flaws>>
Seen(d) == mem' = [mem EXCEPT ![d] = 1] /\ UNCHANGED <<k, result>>
FreertosIsr ==
  /\ app = "freertos"
  /\ \/ /\ Raised("timer") /\ UNCHANGED mem
        /\ result' = IF k.count["queue"] = 1 THEN "fail" ELSE result
        /\ k' = Give(Give(k, "queue"), "notify")
     \/ Raised("spi") /\ Seen("spi")
  /\ Switch(k'.ready, FALSE)
ZephyrIsr ==
  /\ app = "zephyr"
  /\ \/ Raised("timer") /\ Seen("timer")
     \/ Raised("wdt") /\ Seen("wdt")
     \/ Raised("spi") /\ k' = Give(k, "spi_done") /\ UNCHANGED <<mem, result>>
     \/ /\ Raised("console") /\ mem' = [mem EXCEPT !.console = 0, !.irqs = 1]
        /\ UNCHANGED <<k, result>>
  /\ Switch(k'.ready, FALSE)
WakeTimer ==
  /\ Raised("wake") /\ k' = Give(k, "wake_sem") /\ mem' = [mem EXCEPT !.wake = @ + 1]
  /\ UNCHANGED result /\ Switch(k'.ready, FALSE)
\* A byte that is polled for has been shifted: no interrupt comes.
Shifted == Raised("byte") /\ Seen("byte") /\ UNCHANGED <<cur, pmp>>

-----------------------------------------------------------------------------
(* The tasks.                                                                 *)
At(t, ops) == /\ cur = t /\ result # "fail" /\ pc[t] <= Len(Program(t))
              /\ Program(t)[pc[t]][1] \in ops
Op(t) == Program(t)[pc[t]][1]
Object(t) == Program(t)[pc[t]][2]
Arg(t) == Program(t)[pc[t]][3]
Goes(t) == pc' = [pc EXCEPT ![t] = @ + 1]
Keeps == UNCHANGED <<k, cur, pmp>>

Store(t) ==
  /\ At(t, {"set", "add", "stop"}) /\ Goes(t) /\ Keeps /\ UNCHANGED <<app, result, flaws>>
  /\ mem' = CASE Op(t) = "set" -> [mem EXCEPT ![Object(t)] = Arg(t)]
              [] Op(t) = "add" -> [mem EXCEPT ![Object(t)] = @ + 1]
              [] OTHER -> mem
  /\ dev' = IF Op(t) = "stop" THEN dev \ {Object(t)} ELSE dev

\* x |= v is a load and a store; what is stored in between is lost.
MarkLoad(t) ==
  /\ At(t, {"load"}) /\ Goes(t) /\ UNCHANGED <<app, cur, mem, dev, pmp, result, flaws>>
  /\ k' = [k EXCEPT !.reg[t] = mem[Object(t)]]
MarkStore(t) ==
  /\ At(t, {"or"}) /\ Goes(t) /\ k' = [k EXCEPT !.reg[t] = {}]
  /\ UNCHANGED <<app, cur, dev, pmp, result>>
  /\ mem' = [mem EXCEPT ![Object(t)] = k.reg[t] \cup {Arg(t)}]
  /\ flaws' = IF mem[Object(t)] # k.reg[t] THEN flaws \cup {"lost"} ELSE flaws

\* configASSERT and the comparisons that end a program with a failure.
ConsoleQuiet == mem.irqs # 0 /\ mem.console = 0
Found(t) == CASE Object(t) = "ret" -> k.ret[t]
              [] Object(t) = "quiet" -> ConsoleQuiet
              [] OTHER -> mem[Object(t)]
Expect(t) ==
  /\ At(t, {"expect"}) /\ Keeps /\ UNCHANGED <<app, mem, dev, flaws>>
  /\ IF Found(t) = Arg(t) THEN Goes(t) /\ UNCHANGED result ELSE result' = "fail" /\ UNCHANGED pc

\* Busy waits, without a bound and with one, and the loops around a delay of
\* 1, of which "retry" has a bound: its failure is for the check behind it.
Until(t) ==
  /\ At(t, {"until", "within"}) /\ mem[Object(t)] = Arg(t) /\ Goes(t) /\ Keeps
  /\ UNCHANGED <<app, mem, dev, result, flaws>>
GiveUp(t) ==
  /\ At(t, {"within", "retry"}) /\ Found(t) # Arg(t) /\ flaws' = Late
  /\ IF Op(t) = "within" THEN result' = "fail" /\ UNCHANGED pc ELSE Goes(t) /\ UNCHANGED result
  /\ Keeps /\ UNCHANGED <<app, mem, dev>>
Poll(t) ==
  /\ At(t, {"poll", "retry"}) /\ UNCHANGED <<app, mem, dev, result, flaws>>
  /\ IF Found(t) = Arg(t) THEN Goes(t) /\ Keeps
     ELSE k' = Block(k, t, "time", 1) /\ Switch(k'.ready, FALSE) /\ UNCHANGED pc

Take(t) ==
  /\ At(t, {"take"}) /\ Goes(t) /\ UNCHANGED <<app, mem, dev, result, flaws>>
  /\ k' = CASE k.count[Object(t)] > 0 -> [k EXCEPT !.count[Object(t)] = @ - 1, !.ret[t] = TRUE]
            [] k.count[Object(t)] = 0 /\ Arg(t) = 0 -> [k EXCEPT !.ret[t] = FALSE]
            [] OTHER -> Block(k, t, Object(t), Arg(t))
  /\ Switch(k'.ready, FALSE)
GiveTo(t) ==
  /\ At(t, {"give"}) /\ Goes(t) /\ k' = Give(k, Object(t)) /\ Switch(k'.ready, FALSE)
  /\ UNCHANGED <<app, mem, dev, result, flaws>>
PutNoWait(t) ==   \* k_msgq_put into a queue of one
  /\ At(t, {"put"}) /\ Goes(t) /\ UNCHANGED <<app, cur, dev, pmp, result, flaws>>
  /\ IF k.count[Object(t)] = 1 THEN k' = [k EXCEPT !.ret[t] = FALSE] /\ UNCHANGED mem
     ELSE /\ k' = [k EXCEPT !.ret[t] = TRUE, !.count[Object(t)] = 1]
          /\ mem' = [mem EXCEPT ![Object(t)] = Arg(t)]
DelayFor(t) ==
  /\ At(t, {"delay"}) /\ Goes(t) /\ k' = Block(k, t, "time", Arg(t)) /\ Switch(k'.ready, FALSE)
  /\ UNCHANGED <<app, mem, dev, result, flaws>>
Yield(t) ==
  /\ At(t, {"yield"}) /\ Goes(t) /\ Switch(k.ready, TRUE)
  /\ UNCHANGED <<app, k, mem, dev, result, flaws>>

\* A device is started; what it reports is cleared.
StartDevice(t) ==
  /\ At(t, {"start"}) /\ Goes(t) /\ Keeps /\ UNCHANGED <<app, result, flaws>>
  /\ dev' = dev \cup {Object(t)}
  /\ mem' = CASE Object(t) = "console" -> [mem EXCEPT !.console = 1]
              [] Object(t) \in {"spi", "byte"} -> [mem EXCEPT ![Object(t)] = 0]
              [] OTHER -> mem

\* A store of a user task outside the region that PMP opens faults, and the
\* exception handler asserts.
Touch(t) ==
  /\ At(t, {"touch"}) /\ Goes(t) /\ Keeps /\ UNCHANGED <<app, mem, dev, flaws>>
  /\ result' = IF pmp = t THEN result ELSE "fail"

\* The verdicts: user3's exit looks at what the others have recorded.
ChainDone == /\ {mem.exit0, mem.exit1, mem.exit2, mem.waited} = {1}
             /\ {mem.given, mem.woken} = {{"user1", "user2", "user3"}}
Report(t) ==
  /\ At(t, {"report", "judge"}) /\ Goes(t) /\ Keeps /\ UNCHANGED <<app, mem, dev, flaws>>
  /\ result' = IF Op(t) = "report" \/ ChainDone THEN "pass" ELSE "fail"

\* vTaskDelete, the user tasks' exit, a thread that returns.
End(t) ==
  /\ cur = t /\ result # "fail" /\ pc[t] > Len(Program(t))
  /\ k' = [k EXCEPT !.ready = @ \ {t}] /\ Switch(k'.ready, FALSE)
  /\ UNCHANGED <<app, pc, mem, dev, result, flaws>>

Step(t) == \/ Store(t) \/ MarkLoad(t) \/ MarkStore(t) \/ Expect(t) \/ Until(t) \/ Take(t)
           \/ GiveTo(t) \/ PutNoWait(t) \/ DelayFor(t) \/ Yield(t) \/ StartDevice(t) \/ Touch(t)
           \/ Report(t) \/ End(t)
TaskStep == \E t \in Tasks : Step(t)
PollStep == \E t \in Tasks : Poll(t)
Devices == FreertosIsr \/ ZephyrIsr \/ WakeTimer \/ Shifted
Next == Tick \/ LongTimeout \/ Devices \/ TaskStep \/ PollStep \/ \E t \in Tasks : GiveUp(t)
Spec == Init /\ [][Next]_vars

\* The tick and the devices go on, and ticks leave the tasks time to run.
FairSpec == /\ Spec /\ WF_vars(Tick) /\ WF_vars(Devices) /\ WF_vars(LongTimeout)
            /\ WF_vars(PollStep) /\ SF_vars(TaskStep)

-----------------------------------------------------------------------------
(* A program passes only when every task has done its part, and fails only    *)
(* when a device was late, a mark was lost between load and store, or a tick  *)
(* fell between a hand-over and the exit behind it.                           *)
Reporter(t) == t \in {"consumer", "user3", "main"}
VerdictIsTrue ==
  /\ result = "pass" => \A t \in Tasks : Reporter(t) \/ pc[t] > Len(Program(t))
  /\ result = "fail" => flaws # {}

\* Every program comes to its verdict, unless a mark is lost.
VerdictComes == <>(result # "none" \/ "lost" \in flaws)

\* What the consumer's loop takes for granted: every task's mark is seen.
EveryMarkSeen == <>(result # "none")
=============================================================================
