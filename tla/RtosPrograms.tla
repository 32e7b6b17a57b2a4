---------------------------- MODULE RtosPrograms ----------------------------
(* The tasks of the RTOS programs (FreeRTOS demo, its user-mode variant, the  *)
(* Zephyr demo and the Zephyr low-power app).  A program is a sequence of     *)
(* <<operation, object, argument>> per task; Rtos gives them their meaning.   *)
EXTENDS Naturals, Sequences, SequencesExt

Handoffs == 2  \* bound: rounds of the Zephyr demo (HANDOFF_COUNT, 4)
Forever == 9   \* time-outs: ticks, or
Long == 8      \* 10 ms and more: longer than any device takes

Mark(x, v) == << <<"load", x, 0>>, <<"or", x, v>> >>   \* x |= v, in two steps
Ok == << <<"expect", "ret", TRUE>> >>
Try(o) == << <<"take", o, 0>> >> \o Ok

Consumer ==
  << <<"take", "queue", 1>>, <<"expect", "ret", FALSE>>, <<"take", "notify", Forever>> >>
  \o Try("queue") \o Try("mutex") \o << <<"give", "mutex", 0>> >> \o Mark("bits", "consumer")
  \o << <<"poll", "bits", {"consumer", "trigger", "a", "b"}>>, <<"report", "", 0>> >>
Polled(n) == FlattenSeq([i \in 1 .. n |-> << <<"start", "byte", 0>>, <<"within", "byte", 1>> >>])
Trigger ==   \* two bytes by polling, one by interrupt
  << <<"delay", "", 1>> >> \o Try("mutex") \o << <<"give", "mutex", 0>> >> \o Polled(2)
  \o << <<"start", "spi", 0>>, <<"within", "spi", 1>>, <<"start", "timer", 0>> >>
  \o Mark("bits", "trigger")
YieldA == << <<"yield", "", 0>>, <<"set", "armed", 1>>, <<"until", "armed", 0>>,
             <<"delay", "", 1>> >> \o Mark("bits", "a")
YieldB == << <<"yield", "", 0>>, <<"delay", "", 1>> >> \o Mark("bits", "b")

\* The services of the exception handler as the user tasks call them.
NotifyGive(n) == << <<"give", n, 0>> >> \o Mark("given", n)
NotifyWait(n) == << <<"take", n, Forever>> >> \o Mark("woken", n)
User(i) == << <<"touch", i, 0>> >>   \* a store to the task's own region
User0 == User("user0") \o << <<"yield", "", 0>>, <<"delay", "", 3>> >>
         \o NotifyGive("user1") \o << <<"set", "exit0", 1>> >>
User1 == User("user1") \o << <<"yield", "", 0>> >> \o NotifyWait("user1") \o User("user1")
         \o << <<"set", "waited", 1>> >> \o NotifyGive("user2") \o << <<"set", "exit1", 1>> >>
User2 == User("user2") \o NotifyWait("user2") \o User("user2") \o NotifyGive("user3")
         \o << <<"set", "exit2", 1>> >>
User3 == User("user3") \o NotifyWait("user3") \o User("user3") \o << <<"judge", "", 0>> >>

\* Zephyr.  What is written to the console keeps its interrupt at work.
HandOff(h) ==   \* thread A
  << <<"take", "sem_a", Forever>>, <<"take", "mutex", Forever>>, <<"set", "handoff", h>>,
     <<"give", "mutex", 0>>, <<"put", "msgq", h>>, <<"expect", "ret", TRUE>>,
     <<"start", "console", 0>>, <<"add", "count", 0>>, <<"give", "sem_b", 0>> >>
TakeOver(h) ==  \* thread B
  << <<"take", "sem_b", Forever>>, <<"take", "mutex", Forever>>, <<"expect", "handoff", h>>,
     <<"give", "mutex", 0>> >> \o Try("msgq")
  \o << <<"expect", "msgq", h>>, <<"start", "console", 0>>, <<"give", "sem_a", 0>> >>
ThreadA == FlattenSeq([h \in 1 .. Handoffs |-> HandOff(h)])
ThreadB == FlattenSeq([h \in 1 .. Handoffs |-> TakeOver(h)]) \o << <<"give", "sem_done", 0>> >>
Smoke(d) == << <<"start", d, 0>>, <<"within", d, 1>>, <<"stop", d, 0>> >>
SpiSmoke == << <<"start", "spi", 0>>, <<"take", "spi_done", Long>> >> \o Ok
ConsoleIdle == << <<"retry", "quiet", TRUE>>, <<"expect", "quiet", TRUE>> >>
ZephyrMain ==
  << <<"start", "console", 0>> >> \o Smoke("timer") \o Smoke("wdt") \o SpiSmoke \o ConsoleIdle
  \o << <<"take", "sem_done", Long>>, <<"expect", "ret", TRUE>>, <<"expect", "count", Handoffs>>,
        <<"start", "console", 0>>, <<"report", "", 0>> >>
LowPower ==
  << <<"start", "wake", 0>>, <<"take", "wake_sem", Long>>, <<"expect", "ret", TRUE>>,
     <<"expect", "wake", 1>>, <<"report", "", 0>>, <<"take", "never", Forever>> >>

Programs ==
  [freertos |-> [consumer |-> Consumer, trigger |-> Trigger, a |-> YieldA, b |-> YieldB],
   umode |-> [user0 |-> User0, user1 |-> User1, user2 |-> User2, user3 |-> User3],
   zephyr |-> [main |-> ZephyrMain, thread_a |-> ThreadA, thread_b |-> ThreadB],
   low_power |-> [main |-> LowPower]]
=============================================================================
