------------------------------- MODULE Clint --------------------------------
(***************************************************************************)
(* The timer of the core-local interruptor                                 *)
(* (rtl/soc/peripherals/clint.sv): a 64-bit counter and compare register   *)
(* behind 32-bit accesses, and the two library routines that use them,     *)
(* clint_set_mtimecmp and clint_read_mtime (sw/include/eriscv_mcu.h).  A   *)
(* 64-bit value is a pair of words of Base values each; the counter goes   *)
(* on between any two accesses.                                            *)
(***************************************************************************)
EXTENDS Integers

CONSTANTS
  Base        \* values of one 32-bit word, at least 2

Word == 0 .. Base - 1
Time == 0 .. Base * Base - 1
Hi(t) == t \div Base
Lo(t) == t % Base
Pair(hi, lo) == hi * Base + lo

VARIABLES
  mtime,        \* the counter; it stops at its last value, a bound of the model
  cmpHi, cmpLo, \* mtimecmp_q
  pc,           \* where the program is
  target,       \* the value it sets mtimecmp to
  before,       \* the value mtimecmp had before this call
  hi, lo,       \* its local variables
  start,        \* mtime when the read began
  result        \* what the read returned

vars == <<mtime, cmpHi, cmpLo, pc, target, before, hi, lo, start, result>>

Init ==
  /\ mtime = 0
  /\ cmpHi = Base - 1 /\ cmpLo = Base - 1
  /\ pc = "idle" /\ target = 0 /\ before = 0
  /\ hi = 0 /\ lo = 0 /\ start = 0 /\ result = 0

mtip == mtime >= Pair(cmpHi, cmpLo)

-----------------------------------------------------------------------------
Tick ==
  /\ mtime < Base * Base - 1 /\ mtime' = mtime + 1
  /\ UNCHANGED <<cmpHi, cmpLo, pc, target, before, hi, lo, start, result>>

CallSet ==
  /\ pc = "idle" /\ pc' = "set_1"
  /\ target' \in Time /\ before' = Pair(cmpHi, cmpLo)
  /\ UNCHANGED <<mtime, cmpHi, cmpLo, hi, lo, start, result>>

\* The three stores of clint_set_mtimecmp, the value of the first and the order.
\* Mutants: the first one overflows the word; only two stores, the low word first.
GuardOver == Base
Guard == Base - 1
SetLowFirst ==
  \/ pc = "set_1" /\ cmpLo' = Lo(target) /\ pc' = "set_2" /\ UNCHANGED cmpHi
  \/ pc = "set_2" /\ cmpHi' = Hi(target) /\ pc' = "idle" /\ UNCHANGED cmpLo
SetStore ==
  \/ pc = "set_1" /\ cmpHi' = Guard /\ pc' = "set_2" /\ UNCHANGED cmpLo
  \/ pc = "set_2" /\ cmpLo' = Lo(target) /\ pc' = "set_3" /\ UNCHANGED cmpHi
  \/ pc = "set_3" /\ cmpHi' = Hi(target) /\ pc' = "idle" /\ UNCHANGED cmpLo

\* Locals are forgotten when a routine returns.
Set ==
  /\ SetStore /\ UNCHANGED <<mtime, hi, lo, start, result>>
  /\ IF pc' = "idle" THEN target' = 0 /\ before' = 0 ELSE UNCHANGED <<target, before>>

CallRead ==
  /\ pc = "idle" /\ pc' = "read_hi" /\ start' = mtime
  /\ UNCHANGED <<mtime, cmpHi, cmpLo, target, before, hi, lo, result>>

\* The loop of clint_read_mtime.  Mutant: the high word is not looked at again.
SameHigh == TRUE
HighUnchanged == hi = Hi(mtime)

ReadLoad ==
  \/ pc = "read_hi" /\ hi' = Hi(mtime) /\ pc' = "read_lo" /\ UNCHANGED <<lo, result>>
  \/ pc = "read_lo" /\ lo' = Lo(mtime) /\ pc' = "read_again" /\ UNCHANGED <<hi, result>>
  \/ pc = "read_again" /\ HighUnchanged /\ result' = Pair(hi, lo) /\ pc' = "returned"
     /\ UNCHANGED <<hi, lo>>
  \/ pc = "read_again" /\ ~HighUnchanged /\ pc' = "read_hi" /\ UNCHANGED <<hi, lo, result>>

Read == ReadLoad /\ UNCHANGED <<mtime, cmpHi, cmpLo, target, before, start>>

Return ==
  /\ pc = "returned" /\ pc' = "idle"
  /\ hi' = 0 /\ lo' = 0 /\ start' = 0 /\ result' = 0
  /\ UNCHANGED <<mtime, cmpHi, cmpLo, target, before>>

Next == Tick \/ CallSet \/ Set \/ CallRead \/ Read \/ Return
Spec == Init /\ [][Next]_vars

-----------------------------------------------------------------------------
(* Type invariant: the registers and the locals of the routines hold words.    *)
TypeOK ==
  /\ mtime \in Time /\ cmpHi \in Word /\ cmpLo \in Word
  /\ pc \in {"idle", "set_1", "set_2", "set_3", "read_hi", "read_lo", "read_again", "returned"}
  /\ target \in Time /\ before \in Time /\ hi \in Word /\ lo \in Word
  /\ start \in Time /\ result \in Time

(* "Set the 64-bit CLINT timer compare value safely" (eriscv_mcu.h:202): while *)
(* the three stores are under way the timer interrupt is raised only if the    *)
(* value before the call or the one being set is due.                          *)
NoEarlyTimer ==
  pc \in {"set_1", "set_2", "set_3"} /\ mtip => mtime >= before \/ mtime >= target

(* clint_read_mtime returns a time the counter had during the call, whatever   *)
(* the counter does between its three loads, a carry out of the low word       *)
(* included.                                                                   *)
ReadIsATimeOfTheCall ==
  pc = "returned" => start <= result /\ result <= mtime
=============================================================================
