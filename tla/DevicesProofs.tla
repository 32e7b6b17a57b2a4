--------------------------- MODULE DevicesProofs ----------------------------
(* Theorems about the devices for every value of the constants: the PLIC with *)
(* its two handlers, the CLINT with the timer routines (C), the caches' line  *)
(* adapter (L), the bridge to APB (A) and the Ethernet payload paths (P).     *)
(* The parts share nothing; each section proves of one of them an inductive   *)
(* invariant and, from it, what its run checks.                               *)
EXTENDS MCDevices, SequenceTheorems, WellFoundedInduction, TLAPS

-----------------------------------------------------------------------------
(* The PLIC (rtl/soc/peripherals/plic.sv) with the two handlers, for every   *)
(* finite set of sources, priorities, thresholds and enable masks.           *)

(* A non-empty set of numbers has a least element.                            *)
LEMMA Least ==
  ASSUME NEW X \in SUBSET Nat, X # {} PROVE \E x \in X : \A y \in X : x <= y
<1>1. PICK x \in X : \A y \in X : <<y, x>> \notin OpToRel(<, Nat)
  BY WFMin, NatLessThanWellFounded, Zenon
<1>2. \A y \in X : ~(y < x)
  BY <1>1 DEF OpToRel
<1> QED BY <1>2

(* The priority network picks a candidate when there is one, and 0 is none:   *)
(* the order it chooses by has a first element in every set of sources.       *)
LEMMA HighestIsCandidate ==
  ASSUME TypeOK, NEW c \in Context
  PROVE  IF Candidate(c) = {} THEN HighestId(c) = 0 ELSE HighestId(c) \in Candidate(c)
<1>1. CASE Candidate(c) = {}
  BY <1>1 DEF HighestId
<1>2. CASE Candidate(c) # {}
  <2> DEFINE D == Candidate(c)
             Rank(s) == MaxPriority - Prio[s]
             Ranks == {Rank(s) : s \in D}
  <2>0. D \subseteq Sources /\ D \subseteq Nat
    BY SourcesAssumption DEF Candidate, TypeOK
  <2>1. \A s \in D : Rank(s) \in Nat /\ Prio[s] \in Nat
    BY <2>0, PriorityAssumption DEF Level
  <2>2. PICK m \in Ranks : \A n \in Ranks : m <= n
    <3>1. Ranks \in SUBSET Nat /\ Ranks # {}
      BY <1>2, <2>1
    <3> QED BY <3>1, Least
  <2> DEFINE First == {s \in D : Rank(s) = m}
  <2>3. PICK s \in First : \A t \in First : s <= t
    <3>1. First \in SUBSET Nat /\ First # {}
      BY <2>0, <2>2
    <3> QED BY <3>1, Least
  <2>4. \A t \in D : Prio[s] > Prio[t] \/ (Prio[s] = Prio[t] /\ s <= t)
    <3> SUFFICES ASSUME NEW t \in D
                 PROVE  Prio[s] > Prio[t] \/ (Prio[s] = Prio[t] /\ s <= t)
      OBVIOUS
    <3>1. Rank(s) <= Rank(t) /\ s \in D
      BY <2>2, <2>3
    <3>2. Rank(s) = Rank(t) => s <= t
      BY <2>3
    <3> QED BY <3>1, <3>2, <2>1, PriorityAssumption
  <2>5. s \in D
    BY <2>3
  <2> QED BY <1>2, <2>4, <2>5 DEF HighestId
<1> QED BY <1>1, <1>2

(* The inductive invariant: a handler holds a source from its claim to its    *)
(* completion, and what is pending is raised and not in service.              *)
Holding == \A c \in Context : claimed[c] # 0 <=> handler[c] \in {"service", "complete"}
Gate == \A s \in pending : src[s] /\ s \notin inService
PlicInv == TypeOK /\ ServedByItsClaimer /\ Holding /\ Gate /\ ClaimMeansRaised

LEMMA PlicStart == Init => PlicInv
BY SourcesAssumption, PriorityAssumption
   DEF Init, PlicInv, TypeOK, ServedByItsClaimer, Holding, Gate, ClaimMeansRaised, Level, Context

(* Recording the levels of an edge keeps the gate while src and inService do. *)
LEMMA LatchedGate ==
  ASSUME PlicInv
  PROVE  Latched \subseteq Sources /\ \A s \in Latched : src[s] /\ s \notin inService
BY DEF PlicInv, TypeOK, Gate, Latched

(* What a held source is.                                                     *)
LEMMA Held ==
  ASSUME PlicInv, NEW c \in Context, handler[c] \in {"service", "complete"}
  PROVE  claimed[c] \in inService /\ claimed[c] \in Sources
BY DEF PlicInv, TypeOK, Holding, ServedByItsClaimer

(* Steps that touch neither levels, service nor handlers.                     *)
LEMMA QuietInv ==
  ASSUME PlicInv, pending' = Latched, UNCHANGED <<src, inService, handler, claimed>>,
         enable' \in [Context -> SUBSET Sources], threshold' \in [Context -> Level],
         writes' \in 0 .. MaxWrites
  PROVE  PlicInv'
<1>1. TypeOK'
  BY LatchedGate DEF PlicInv, TypeOK
<1>2. ServedByItsClaimer' /\ Holding' /\ ClaimMeansRaised'
  BY DEF PlicInv, ServedByItsClaimer, Holding, ClaimMeansRaised
<1>3. Gate'
  BY LatchedGate DEF Gate
<1> QED BY <1>1, <1>2, <1>3 DEF PlicInv

LEMMA RaiseInv == ASSUME PlicInv, NEW s \in Sources, Raise(s) PROVE PlicInv'
<1>1. TypeOK'
  BY DEF Raise, PlicInv, TypeOK, controller, registers
<1>2. ServedByItsClaimer' /\ Holding'
  BY DEF Raise, PlicInv, ServedByItsClaimer, Holding, controller
<1>3. \A t : src[t] => src'[t]
  BY DEF Raise, PlicInv, TypeOK
<1>4. Gate' /\ ClaimMeansRaised'
  BY <1>3 DEF Raise, PlicInv, Gate, ClaimMeansRaised, controller
<1> QED BY <1>1, <1>2, <1>4 DEF PlicInv

LEMMA TrapInv == ASSUME PlicInv, NEW c \in Context, Trap(c) PROVE PlicInv'
<1>1. TypeOK'
  BY LatchedGate DEF Trap, PlicInv, TypeOK, registers
<1>2. ServedByItsClaimer' /\ Holding' /\ ClaimMeansRaised'
  BY DEF Trap, PlicInv, TypeOK, ServedByItsClaimer, Holding, ClaimMeansRaised
<1>3. Gate'
  BY LatchedGate DEF Trap, Gate
<1> QED BY <1>1, <1>2, <1>3 DEF PlicInv

(* A claim: what it takes was raised, in nobody's service, and is now in the  *)
(* claimer's alone.                                                           *)
LEMMA ClaimInv == ASSUME PlicInv, NEW c \in Context, Claim(c) PROVE PlicInv'
<1> DEFINE id == HighestId(c)
<1>1. id = 0 \/ (id \in Sources /\ id \in pending /\ id \notin inService)
  BY HighestIsCandidate DEF PlicInv, TypeOK, Candidate
<1>2. 0 \notin Sources
  BY SourcesAssumption
<1>3. /\ pending' = Latched \ {id} /\ claimed' = [claimed EXCEPT ![c] = id]
      /\ inService' = IF id = 0 THEN inService ELSE inService \cup {id}
      /\ handler' = [handler EXCEPT ![c] = IF id = 0 THEN "idle" ELSE "service"]
      /\ handler[c] = "trap" /\ UNCHANGED <<src, enable, threshold, writes>>
  BY DEF Claim, Served, registers
<1>4. claimed[c] = 0
  BY <1>3 DEF PlicInv, Holding
<1>5. TypeOK'
  <2>1. pending' \subseteq Sources /\ inService' \subseteq Sources
    BY <1>1, <1>3, LatchedGate DEF PlicInv, TypeOK
  <2>2. claimed' \in [Context -> Sources \cup {0}]
    BY <1>1, <1>3 DEF PlicInv, TypeOK
  <2> QED BY <1>3, <2>1, <2>2 DEF PlicInv, TypeOK
<1>6. ServedByItsClaimer'
  <2>1. \A d \in Context : claimed'[d] = IF d = c THEN id ELSE claimed[d]
    BY <1>3 DEF PlicInv, TypeOK
  <2>2. inService' = {claimed'[d] : d \in Context} \ {0}
    BY <1>1, <1>3, <1>4, <2>1 DEF PlicInv, ServedByItsClaimer
  <2>3. \A d \in Context : claimed[d] # 0 => claimed[d] \in inService
    BY DEF PlicInv, ServedByItsClaimer
  <2>4. claimed'[0] # claimed'[1] \/ claimed'[0] = 0
    BY <1>1, <1>2, <2>1, <2>3 DEF PlicInv, ServedByItsClaimer, Context
  <2> QED BY <2>2, <2>4 DEF ServedByItsClaimer
<1>7. Holding'
  BY <1>1, <1>2, <1>3 DEF PlicInv, TypeOK, Holding
<1>8. Gate'
  BY <1>1, <1>3, LatchedGate DEF Gate
<1>9. ClaimMeansRaised'
  BY <1>1, <1>3 DEF PlicInv, TypeOK, Gate, ClaimMeansRaised
<1> QED BY <1>5, <1>6, <1>7, <1>8, <1>9 DEF PlicInv

(* A service lowers one line: of a source in service, which is not pending,   *)
(* and not of the one the other context holds.                                *)
LEMMA ServiceInv == ASSUME PlicInv, NEW c \in Context, Service(c) PROVE PlicInv'
<1>1. claimed[c] \in inService /\ claimed[c] \in Sources
  BY Held DEF Service
<1>2. /\ src' = [src EXCEPT ![claimed[c]] = FALSE] /\ pending' = Latched
      /\ handler' = [handler EXCEPT ![c] = "complete"]
      /\ handler[c] = "service" /\ UNCHANGED <<inService, claimed, enable, threshold, writes>>
  BY DEF Service, registers
<1>3. \A s \in Sources : s # claimed[c] => src'[s] = src[s]
  BY <1>2 DEF PlicInv, TypeOK
<1>4. TypeOK'
  BY <1>1, <1>2, LatchedGate DEF PlicInv, TypeOK
<1>5. ServedByItsClaimer' /\ Holding'
  BY <1>2 DEF PlicInv, TypeOK, ServedByItsClaimer, Holding
<1>6. Gate'
  BY <1>1, <1>2, <1>3, LatchedGate DEF Gate
<1>7. ClaimMeansRaised'
  <2> SUFFICES ASSUME NEW d \in Context, handler'[d] = "service" PROVE src'[claimed'[d]]
    BY DEF ClaimMeansRaised
  <2>1. d # c /\ handler[d] = "service"
    BY <1>2 DEF PlicInv, TypeOK
  <2>2. claimed[d] \in Sources /\ src[claimed[d]]
    BY <2>1, Held DEF PlicInv, ClaimMeansRaised
  <2>3. claimed[d] # claimed[c]
    BY <1>1, <2>1, <2>2, SourcesAssumption DEF PlicInv, ServedByItsClaimer, Context
  <2> QED BY <1>2, <1>3, <2>2, <2>3
<1> QED BY <1>4, <1>5, <1>6, <1>7 DEF PlicInv

LEMMA CompleteInv == ASSUME PlicInv, NEW c \in Context, Complete(c) PROVE PlicInv'
<1>1. claimed[c] \in inService /\ claimed[c] \in Sources
  BY Held DEF Complete
<1>2. /\ inService' = inService \ {claimed[c]} /\ pending' = Latched
      /\ handler' = [handler EXCEPT ![c] = "idle"] /\ claimed' = [claimed EXCEPT ![c] = 0]
      /\ handler[c] = "complete" /\ UNCHANGED <<src, enable, threshold, writes>>
  BY DEF Complete, Completed, registers
<1>3. TypeOK'
  BY <1>2, LatchedGate DEF PlicInv, TypeOK
<1>4. ServedByItsClaimer'
  <2>1. \A d \in Context : claimed'[d] = IF d = c THEN 0 ELSE claimed[d]
    BY <1>2 DEF PlicInv, TypeOK
  <2>2. \A d \in Context : d # c => claimed[d] # claimed[c]
    BY <1>1, SourcesAssumption DEF PlicInv, ServedByItsClaimer, Context
  <2>3. inService' = {claimed'[d] : d \in Context} \ {0}
    BY <1>2, <2>1, <2>2 DEF PlicInv, ServedByItsClaimer
  <2>4. claimed'[0] # claimed'[1] \/ claimed'[0] = 0
    BY <2>1 DEF PlicInv, ServedByItsClaimer, Context
  <2> QED BY <2>3, <2>4 DEF ServedByItsClaimer
<1>5. Holding'
  BY <1>2 DEF PlicInv, TypeOK, Holding
<1>6. Gate'
  BY <1>2, LatchedGate DEF Gate
<1>7. ClaimMeansRaised'
  BY <1>2 DEF PlicInv, TypeOK, ClaimMeansRaised
<1> QED BY <1>3, <1>4, <1>5, <1>6, <1>7 DEF PlicInv

LEMMA PlicStep == PlicInv /\ [Next]_vars => PlicInv'
<1> SUFFICES ASSUME PlicInv, [Next]_vars PROVE PlicInv'
  OBVIOUS
<1>1. CASE Tick
  <2>1. UNCHANGED <<enable, threshold, writes>>
    BY <1>1 DEF Tick, registers
  <2> QED BY <1>1, <2>1, QuietInv DEF Tick, PlicInv, TypeOK
<1>2. ASSUME NEW s \in Sources, Raise(s) PROVE PlicInv'
  BY <1>2, RaiseInv
<1>3. ASSUME NEW c \in Context, Handler(c) PROVE PlicInv'
  BY <1>3, TrapInv, ClaimInv, ServiceInv, CompleteInv DEF Handler
<1>4. ASSUME NEW c \in Context, WriteEnable(c) PROVE PlicInv'
  <2>1. enable' \in [Context -> SUBSET Sources] /\ UNCHANGED threshold
    BY <1>4 DEF WriteEnable, PlicInv, TypeOK
  <2>2. writes' \in 0 .. MaxWrites
    BY <1>4, PriorityAssumption DEF WriteEnable, PlicInv, TypeOK
  <2> QED BY <1>4, <2>1, <2>2, QuietInv DEF WriteEnable, PlicInv, TypeOK
<1>5. ASSUME NEW c \in Context, WriteThreshold(c) PROVE PlicInv'
  <2>1. threshold' \in [Context -> Level] /\ UNCHANGED enable
    BY <1>5 DEF WriteThreshold, PlicInv, TypeOK
  <2>2. writes' \in 0 .. MaxWrites
    BY <1>5, PriorityAssumption DEF WriteThreshold, PlicInv, TypeOK
  <2> QED BY <1>5, <2>1, <2>2, QuietInv DEF WriteThreshold, PlicInv, TypeOK
<1>6. CASE UNCHANGED vars
  BY <1>6 DEF vars, controller, registers, PlicInv, TypeOK, ServedByItsClaimer, Holding, Gate,
              ClaimMeansRaised
<1> QED BY <1>1, <1>2, <1>3, <1>4, <1>5, <1>6 DEF Next

LEMMA PlicAlways == Spec => []PlicInv
BY PlicStart, PlicStep, PTL DEF Spec

(* Every register of the controller and both handlers keep their types: an    *)
(* empty claim (plic.sv, claim of 0) puts nothing into service.               *)
THEOREM TypeCorrect == Spec => []TypeOK
BY PlicAlways, PTL DEF PlicInv

(* A source is in service exactly while one handler holds it, and never both: *)
(* in_service_q follows claims and completions whatever preempts what.        *)
THEOREM ServedByItsClaimerAlways == Spec => []ServedByItsClaimer
BY PlicAlways, PTL DEF PlicInv

(* A handler that has claimed finds its device raised (pending_d is gated by   *)
(* in_service_q, so a level of the last service is not recorded).             *)
THEOREM ClaimMeansRaisedAlways == Spec => []ClaimMeansRaised
BY PlicAlways, PTL DEF PlicInv

-----------------------------------------------------------------------------
(* The CLINT (rtl/soc/peripherals/clint.sv) and the library's 64-bit timer   *)
(* routines: while mtimecmp is written in three 32-bit stores it never holds *)
(* an earlier time than the old and the new one, and the re-read of the high *)
(* word returns a time of the call. Words have any number of values from two *)
(* on.                                                                       *)

\* The inductive invariant: what the registers and the local variables hold at
\* each store and each load.
ClintInv ==
  /\ C!TypeOK
  /\ pc = "set_1" => before = C!Pair(cmpHi, cmpLo)
  /\ pc = "set_2" => cmpHi = Base - 1 /\ cmpLo = C!Lo(before)
  /\ pc = "set_3" => cmpHi = Base - 1 /\ cmpLo = C!Lo(target)
  /\ pc \in {"read_hi", "read_lo", "read_again"} => start <= mtime
  /\ pc \in {"read_lo", "read_again"} => hi <= C!Hi(mtime)
  /\ pc = "read_again" => C!Pair(hi, lo) <= mtime /\ (hi = C!Hi(mtime) => start <= C!Pair(hi, lo))
  /\ pc = "returned" => start <= result /\ result <= mtime

(* A time is its two words, and times are ordered by the high word first.     *)
LEMMA TimeIsItsWords ==
  ASSUME BaseAssumption, NEW n \in C!Time
  PROVE  C!Hi(n) \in C!Word /\ C!Lo(n) \in C!Word /\ n = C!Pair(C!Hi(n), C!Lo(n))
<1>1. C!Hi(n) \in Nat /\ C!Lo(n) \in C!Word /\ n = C!Pair(C!Hi(n), C!Lo(n))
  BY DEF BaseAssumption, C!Time, C!Hi, C!Lo, C!Word, C!Pair
<1>2. C!Hi(n) < Base
  BY DEF BaseAssumption, C!Time, C!Hi
<1> QED BY <1>1, <1>2 DEF BaseAssumption, C!Word

\* While the high word is at its largest, no compare value is earlier than one
\* with another high word.
LEMMA HighWordFirst ==
  ASSUME BaseAssumption, NEW h1 \in C!Word, NEW l1 \in C!Word, NEW h2 \in C!Word, NEW l2 \in C!Word
  PROVE  /\ C!Pair(h1, l1) \in C!Time
         /\ C!Pair(h1, l1) <= C!Pair(h2, l2) <=> h1 < h2 \/ (h1 = h2 /\ l1 <= l2)
<1>1. C!Pair(h1, l1) <= C!Pair(h2, l2) <=> h1 < h2 \/ (h1 = h2 /\ l1 <= l2)
  BY DEF BaseAssumption, C!Pair, C!Word
<1>2. C!Pair(h1, l1) \in Nat /\ C!Pair(h1, l1) <= C!Pair(Base - 1, Base - 1)
  BY DEF BaseAssumption, C!Pair, C!Word
<1>3. C!Pair(Base - 1, Base - 1) = Base * Base - 1
  BY DEF BaseAssumption, C!Pair
<1> QED BY <1>1, <1>2, <1>3 DEF BaseAssumption, C!Time

LEMMA TimesAreOrdered ==
  ASSUME BaseAssumption, NEW m \in C!Time, NEW n \in C!Time
  PROVE  m <= n <=> C!Hi(m) < C!Hi(n) \/ (C!Hi(m) = C!Hi(n) /\ C!Lo(m) <= C!Lo(n))
<1>1. C!Hi(m) \in C!Word /\ C!Lo(m) \in C!Word /\ m = C!Pair(C!Hi(m), C!Lo(m))
  BY TimeIsItsWords
<1>2. C!Hi(n) \in C!Word /\ C!Lo(n) \in C!Word /\ n = C!Pair(C!Hi(n), C!Lo(n))
  BY TimeIsItsWords
<1>3. C!Pair(C!Hi(m), C!Lo(m)) <= C!Pair(C!Hi(n), C!Lo(n))
        <=> C!Hi(m) < C!Hi(n) \/ (C!Hi(m) = C!Hi(n) /\ C!Lo(m) <= C!Lo(n))
  BY <1>1, <1>2, HighWordFirst
<1> QED BY <1>1, <1>2, <1>3

(* The invariant holds initially and is preserved.                            *)
LEMMA ClintInit == ASSUME BaseAssumption, C!Init PROVE ClintInv
<1>1. Base - 1 \in C!Word /\ 0 \in C!Word /\ 0 \in C!Time
  BY DEF BaseAssumption, C!Word, C!Time
<1> QED BY <1>1 DEF C!Init, ClintInv, C!TypeOK

LEMMA TickKeeps == ASSUME BaseAssumption, ClintInv, C!Tick PROVE ClintInv'
<1>1. mtime' \in C!Time /\ mtime <= mtime' /\ mtime \in C!Time
  BY DEF BaseAssumption, ClintInv, C!TypeOK, C!Tick, C!Time
<1>2. C!Hi(mtime) \in C!Word /\ C!Hi(mtime') \in C!Word /\ C!Hi(mtime) <= C!Hi(mtime')
  BY <1>1, TimeIsItsWords, TimesAreOrdered DEF BaseAssumption, C!Word
<1>3. C!TypeOK'
  BY <1>1 DEF ClintInv, C!TypeOK, C!Tick
<1>4. /\ hi \in C!Word /\ lo \in C!Word /\ start \in C!Time /\ result \in C!Time
           /\ C!Pair(hi, lo) \in C!Time
  BY HighWordFirst DEF ClintInv, C!TypeOK
<1>5. pc' = pc /\ hi' = hi /\ lo' = lo /\ start' = start /\ result' = result
        /\ C!Hi(mtime)' = C!Hi(mtime')
  BY DEF C!Tick
<1>6. pc' \in {"read_hi", "read_lo", "read_again"} => start' <= mtime'
  BY <1>1, <1>4, <1>5 DEF ClintInv, C!Time
<1>7. pc' \in {"read_lo", "read_again"} => hi' <= C!Hi(mtime')
  BY <1>2, <1>4, <1>5 DEF ClintInv, C!Word
<1>8. pc' = "read_again" => C!Pair(hi, lo)' <= mtime'
        /\ (hi' = C!Hi(mtime') => start' <= C!Pair(hi, lo)')
  <2>1. C!Pair(hi, lo)' = C!Pair(hi, lo)
    BY <1>5 DEF C!Pair
  <2>2. pc = "read_again" /\ hi = C!Hi(mtime') => hi = C!Hi(mtime)
    BY <1>2, <1>4 DEF ClintInv, C!Word
  <2> QED BY <1>1, <1>4, <1>5, <2>1, <2>2 DEF ClintInv, C!Time
<1>9. pc' = "returned" => start' <= result' /\ result' <= mtime'
  BY <1>1, <1>4, <1>5 DEF ClintInv, C!Time
<1> QED BY <1>3, <1>6, <1>7, <1>8, <1>9 DEF ClintInv, C!Tick, C!Pair, C!Lo

LEMMA CallSetKeeps == ASSUME BaseAssumption, ClintInv, C!CallSet PROVE ClintInv'
<1>1. C!Pair(cmpHi, cmpLo) \in C!Time
  BY HighWordFirst DEF ClintInv, C!TypeOK
<1> QED BY <1>1 DEF ClintInv, C!TypeOK, C!CallSet, C!Pair

LEMMA SetKeeps == ASSUME BaseAssumption, ClintInv, C!Set PROVE ClintInv'
<1>1. Base - 1 \in C!Word /\ 0 \in C!Time /\ target \in C!Time /\ before \in C!Time
  BY DEF BaseAssumption, C!Word, C!Time, ClintInv, C!TypeOK
<1>2. C!Hi(target) \in C!Word /\ C!Lo(target) \in C!Word
  BY <1>1, TimeIsItsWords
<1>3. C!Lo(C!Pair(cmpHi, cmpLo)) = cmpLo
  BY DEF BaseAssumption, ClintInv, C!TypeOK, C!Lo, C!Pair, C!Word
<1>4. C!TypeOK'
  BY <1>1, <1>2 DEF ClintInv, C!TypeOK, C!Set, C!SetStore, C!Guard
<1>5. pc' \in {"set_2", "set_3", "idle"}
  BY DEF C!Set, C!SetStore
<1>6. pc' = "set_2" => cmpHi' = Base - 1 /\ cmpLo' = C!Lo(before')
  BY <1>3 DEF ClintInv, C!Set, C!SetStore, C!Guard
<1>7. pc' = "set_3" => cmpHi' = Base - 1 /\ cmpLo' = C!Lo(target')
  BY DEF ClintInv, C!Set, C!SetStore
<1> QED BY <1>4, <1>5, <1>6, <1>7 DEF ClintInv, C!Lo

LEMMA ReadKeeps == ASSUME BaseAssumption, ClintInv, C!Read PROVE ClintInv'
<1>1. mtime \in C!Time /\ hi \in C!Word /\ lo \in C!Word /\ start \in C!Time
  BY DEF ClintInv, C!TypeOK
<1>2. C!Hi(mtime) \in C!Word /\ C!Lo(mtime) \in C!Word /\ mtime = C!Pair(C!Hi(mtime), C!Lo(mtime))
  BY <1>1, TimeIsItsWords
<1>3. C!Pair(hi, lo) \in C!Time /\ (hi <= C!Hi(mtime) => C!Pair(hi, C!Lo(mtime)) <= mtime)
  <2>1. C!Pair(hi, lo) \in C!Time
    BY <1>1, HighWordFirst
  <2>2. C!Pair(hi, C!Lo(mtime)) <= C!Pair(C!Hi(mtime), C!Lo(mtime))
          <=> hi < C!Hi(mtime) \/ (hi = C!Hi(mtime) /\ C!Lo(mtime) <= C!Lo(mtime))
    BY <1>1, <1>2, HighWordFirst
  <2>3. hi <= C!Hi(mtime) <=> hi < C!Hi(mtime) \/ (hi = C!Hi(mtime) /\ C!Lo(mtime) <= C!Lo(mtime))
    BY <1>1, <1>2 DEF C!Word, BaseAssumption
  <2> QED BY <1>2, <2>1, <2>2, <2>3
<1>4. CASE pc = "read_hi"
  <2>1. hi' = C!Hi(mtime) /\ pc' = "read_lo" /\ UNCHANGED <<lo, result, mtime, start>>
    BY <1>4 DEF C!Read, C!ReadLoad
  <2> QED BY <1>1, <1>2, <1>4, <2>1 DEF ClintInv, C!TypeOK, C!Read, C!Hi, C!Word, C!Time, BaseAssumption
<1>5. CASE pc = "read_lo"
  <2>1. lo' = C!Lo(mtime) /\ pc' = "read_again" /\ UNCHANGED <<hi, result, mtime, start>>
    BY <1>5 DEF C!Read, C!ReadLoad
  <2>2. C!TypeOK'
    BY <1>2, <2>1 DEF ClintInv, C!TypeOK, C!Read
  <2>3. C!Pair(hi, lo)' <= mtime' /\ (hi' = C!Hi(mtime)' => start' <= C!Pair(hi, lo)')
    BY <1>1, <1>2, <1>3, <1>5, <2>1 DEF ClintInv, C!Pair, C!Hi
  <2> QED BY <1>5, <2>1, <2>2, <2>3 DEF ClintInv, C!Hi
<1>6. CASE pc = "read_again" /\ C!HighUnchanged
  <2>1. result' = C!Pair(hi, lo) /\ pc' = "returned" /\ UNCHANGED <<hi, lo, mtime, start>>
    BY <1>6 DEF C!Read, C!ReadLoad
  <2> QED BY <1>1, <1>3, <1>6, <2>1 DEF ClintInv, C!TypeOK, C!Read, C!HighUnchanged
<1>7. CASE pc = "read_again" /\ ~C!HighUnchanged
  <2>1. pc' = "read_hi" /\ UNCHANGED <<hi, lo, result, mtime, start>>
    BY <1>7 DEF C!Read, C!ReadLoad
  <2> QED BY <1>7, <2>1 DEF ClintInv, C!TypeOK, C!Read
<1> QED BY <1>4, <1>5, <1>6, <1>7 DEF C!Read, C!ReadLoad

LEMMA ClintStep == ASSUME BaseAssumption, ClintInv, [C!Next]_(C!vars) PROVE ClintInv'
<1>1. CASE C!CallRead
  <2>1. mtime \in C!Time
    BY DEF ClintInv, C!TypeOK
  <2> QED BY <1>1, <2>1 DEF ClintInv, C!TypeOK, C!CallRead, C!Time, BaseAssumption
<1>2. CASE C!Return
  <2>1. 0 \in C!Time /\ 0 \in C!Word
    BY DEF BaseAssumption, C!Time, C!Word
  <2> QED BY <1>2, <2>1 DEF ClintInv, C!TypeOK, C!Return
<1>3. CASE UNCHANGED C!vars
  BY <1>3 DEF ClintInv, C!TypeOK, C!vars, C!Pair, C!Hi, C!Lo
<1> QED BY <1>1, <1>2, <1>3, TickKeeps, CallSetKeeps, SetKeeps, ReadKeeps DEF C!Next

(* No early interrupt: while the compare register is being set it is the old  *)
(* value, the new one, or one with the largest high word and the low word of  *)
(* the value before or the new one, which is not below that value.            *)
LEMMA NotEarly == ASSUME BaseAssumption, ClintInv PROVE C!NoEarlyTimer
<1> SUFFICES ASSUME pc \in {"set_1", "set_2", "set_3"}, C!mtip
             PROVE  mtime >= before \/ mtime >= target
  BY DEF C!NoEarlyTimer
<1>1. mtime \in C!Time /\ before \in C!Time /\ target \in C!Time /\ cmpHi \in C!Word /\ cmpLo \in C!Word
  BY DEF ClintInv, C!TypeOK
<1>2. C!Pair(cmpHi, cmpLo) \in C!Time /\ mtime >= C!Pair(cmpHi, cmpLo)
  BY <1>1, HighWordFirst DEF C!mtip
<1>3. \A n \in C!Time : n <= C!Pair(Base - 1, C!Lo(n))
  <2> SUFFICES ASSUME NEW n \in C!Time PROVE n <= C!Pair(Base - 1, C!Lo(n))
    OBVIOUS
  <2>1. Base - 1 \in C!Word /\ C!Hi(n) \in C!Word /\ C!Lo(n) \in C!Word /\ n = C!Pair(C!Hi(n), C!Lo(n))
    BY TimeIsItsWords DEF BaseAssumption, C!Word
  <2>2. n <= C!Pair(Base - 1, C!Lo(n)) <=> C!Hi(n) < Base - 1
          \/ (C!Hi(n) = Base - 1 /\ C!Lo(n) <= C!Lo(n))
    BY <2>1, HighWordFirst
  <2> QED BY <2>1, <2>2 DEF C!Word, BaseAssumption
<1>4. CASE pc = "set_1"
  BY <1>1, <1>2, <1>4 DEF ClintInv
<1>5. CASE pc = "set_2"
  BY <1>1, <1>2, <1>3, <1>5 DEF ClintInv, C!Time
<1>6. CASE pc = "set_3"
  BY <1>1, <1>2, <1>3, <1>6 DEF ClintInv, C!Time
<1> QED BY <1>4, <1>5, <1>6

\* The routines that set and read the 64-bit timer keep both promises.
THEOREM ClintAlways == ASSUME BaseAssumption PROVE C!Spec => []TimerCalls
<1>1. ClintInv => TimerCalls
  BY NotEarly DEF ClintInv, C!ReadIsATimeOfTheCall, TimerCalls
<1> QED BY <1>1, ClintInit, ClintStep, PTL DEF C!Spec

-----------------------------------------------------------------------------
(* The line adapter, for every line length and memory: what it tells the     *)
(* cache is what the subordinate did.                                        *)

(* The inductive invariant.  The handshake: the adapter is idle exactly      *)
(* while the client is not waiting, and works on what the client wants.     *)
Handshaken ==
  /\ state = "IDLE" <=> client # "wait"
  /\ client # "none" => want \in L!Transaction
  /\ state # "IDLE" => line = want.line /\ wdata = want.data
  /\ state \in {"READ_ADDR", "READ_DATA"} => ~want.we
  /\ L!Writing => want.we

(* The burst: the beats before the counter have been transferred in place.  *)
Transferred ==
  /\ state \in {"READ_ADDR", "WRITE_ADDR"} => beat = 0 /\ ~lErr
  /\ state \in {"READ_DATA", "WRITE_DATA"} => sent = beat
  /\ state = "READ_DATA" /\ ~lErr => \A b \in L!Beat : b < beat => rdata[b] = mem[line][b]
  /\ state = "RESP" /\ ~want.we /\ ~lErr => rdata = mem[line]
  /\ state = "WRITE_DATA" => \A b \in L!Beat : b < beat => got[b] = wdata[b]
  /\ state = "WRITE_RESP" => got = wdata
LineInv == L!TypeOK /\ Handshaken /\ Transferred

LEMMA LineStart == ASSUME BeatsAssumption, L!Init PROVE LineInv
<1>1. L!Zero \in L!LineData /\ 0 \in L!Beat /\ 0 \in 0 .. Beats
  BY DEF BeatsAssumption, L!Zero, L!LineData, L!Beat
<1> QED BY <1>1 DEF L!Init, LineInv, L!TypeOK, Handshaken, Transferred, L!States, L!Writing

(* The client's edge, seen from the adapter.                                *)
LEMMA ClientInv ==
  ASSUME LineInv, L!ClientEdge
  PROVE  /\ client' \in {"none", "req", "wait"} /\ want' \in L!Transaction \cup {None}
         /\ client' # "none" => want' \in L!Transaction
         /\ state = "IDLE" => /\ client' = "wait" <=> client = "req"
                              /\ client = "req" => want' = want
         /\ state = "RESP" => client' # "wait"
         /\ state \notin {"IDLE", "RESP"} => client' = "wait" /\ want' = want
<1>1. CASE state = "IDLE"
  BY <1>1 DEF LineInv, L!TypeOK, Handshaken, L!ClientEdge, L!Raise
<1>2. CASE state = "RESP"
  BY <1>2 DEF LineInv, L!TypeOK, Handshaken, L!ClientEdge, L!Raise
<1>3. CASE state \notin {"IDLE", "RESP"}
  BY <1>3 DEF LineInv, L!TypeOK, Handshaken, L!ClientEdge, L!Raise
<1> QED BY <1>1, <1>2, <1>3

LEMMA CaptureInv == ASSUME BeatsAssumption, LineInv, L!ClientEdge, L!Capture PROVE LineInv'
<1>1. /\ state = "IDLE" /\ client = "req" /\ client' = "wait" /\ want' = want
      /\ want \in L!Transaction
  BY ClientInv DEF L!Capture, LineInv, Handshaken
<1>2. L!Zero \in L!LineData /\ 0 \in L!Beat
  BY DEF BeatsAssumption, L!Zero, L!LineData, L!Beat
<1>3. want.line \in Line /\ want.data \in L!LineData /\ want.we \in BOOLEAN
  BY <1>1 DEF L!Transaction
<1>4. L!TypeOK'
  BY <1>1, <1>2, <1>3 DEF L!Capture, L!slaveVars, LineInv, L!TypeOK, L!States
<1>5. Handshaken'
  BY <1>1, <1>3 DEF L!Capture, Handshaken, L!Writing
<1>6. Transferred'
  BY <1>1, <1>3 DEF L!Capture, Transferred
<1> QED BY <1>4, <1>5, <1>6 DEF LineInv

LEMMA AddressTakenInv == ASSUME BeatsAssumption, LineInv, L!ClientEdge,
  L!AddressTaken PROVE LineInv'
<1>1. /\ client' = "wait" /\ want' = want /\ client = "wait"
      /\ UNCHANGED <<line, wdata, rdata, beat, lErr, mem>>
  BY ClientInv DEF L!AddressTaken, L!registers, LineInv, Handshaken
<1>2. L!Zero \in L!LineData /\ 0 \in 0 .. Beats
  BY DEF BeatsAssumption, L!Zero, L!LineData, L!Beat
<1>3. L!TypeOK'
  BY <1>1, <1>2 DEF L!AddressTaken, LineInv, L!TypeOK, L!States
<1>4. Handshaken'
  BY <1>1 DEF L!AddressTaken, LineInv, Handshaken, L!Writing
<1>5. Transferred'
  BY <1>1 DEF L!AddressTaken, LineInv, Transferred, L!TypeOK, L!Beat
<1> QED BY <1>3, <1>4, <1>5 DEF LineInv

(* A read beat lands in its place; a burst without an error is complete.    *)
LEMMA ReadBeatInv ==
  ASSUME BeatsAssumption, LineInv, L!ClientEdge,
         NEW d \in Value, NEW ok \in BOOLEAN, NEW last \in BOOLEAN, L!ReadBeat(d, ok, last)
  PROVE  LineInv'
<1>1. /\ client' = "wait" /\ want' = want /\ client = "wait" /\ ~want.we
      /\ state = "READ_DATA" /\ sent = beat /\ beat \in L!Beat
      /\ UNCHANGED <<line, wdata, mem, got>>
      /\ sent' = sent + 1 /\ rdata' = [rdata EXCEPT ![beat] = d]
      /\ ok => d = mem[line][beat]
  BY ClientInv DEF L!ReadBeat, LineInv, Handshaken, Transferred, L!TypeOK
<1>2. \/ L!BurstEnd(last) /\ state' = "RESP" /\ beat' = beat
      \/ ~L!BurstEnd(last) /\ beat' = beat + 1 /\ state' = "READ_DATA"
  BY <1>1 DEF L!ReadBeat
<1>3. /\ lErr' \in BOOLEAN
      /\ ~lErr' => ~lErr /\ ok /\ (L!BurstEnd(last) => L!LastBeat)
  BY DEF L!ReadBeat, L!BurstError, LineInv, L!TypeOK
<1>4. ~L!BurstEnd(last) => beat + 1 \in L!Beat
  BY <1>1 DEF L!BurstEnd, L!LastBeat, L!Beat, BeatsAssumption
<1>5. \A b \in L!Beat : rdata'[b] = IF b = beat THEN d ELSE rdata[b]
  BY <1>1 DEF LineInv, L!TypeOK, L!LineData
<1>6. L!TypeOK'
  <2>1. rdata' \in L!LineData /\ sent' \in 0 .. Beats
    BY <1>1 DEF LineInv, L!TypeOK, L!LineData, L!Beat, BeatsAssumption
  <2> QED BY <1>1, <1>2, <1>3, <1>4, <2>1 DEF LineInv, L!TypeOK, L!States
<1>7. Handshaken'
  BY <1>1, <1>2 DEF LineInv, Handshaken, L!Writing
<1>8. ~lErr' => \A b \in L!Beat : b <= beat => rdata'[b] = mem[line][b]
  <2> SUFFICES ASSUME ~lErr', NEW b \in L!Beat, b <= beat PROVE rdata'[b] = mem[line][b]
    OBVIOUS
  <2>1. CASE b = beat
    BY <1>1, <1>3, <1>5, <2>1
  <2>2. CASE b # beat
    BY <1>1, <1>3, <1>5, <2>2 DEF LineInv, Transferred, L!Beat
  <2> QED BY <2>1, <2>2
<1>9. CASE L!BurstEnd(last) /\ state' = "RESP" /\ beat' = beat
  <2>1. ASSUME ~lErr' PROVE rdata' = mem[line]
    <3>1. beat = Beats - 1
      BY <1>3, <1>9, <2>1 DEF L!LastBeat
    <3>2. \A b \in L!Beat : rdata'[b] = mem[line][b]
      BY <1>8, <2>1, <3>1 DEF L!Beat, BeatsAssumption
    <3>3. rdata' \in L!LineData /\ mem[line] \in L!LineData
      BY <1>1, <1>6 DEF LineInv, L!TypeOK, Handshaken, L!Transaction
    <3> QED BY <3>2, <3>3 DEF L!LineData
  <2>2. Transferred'
    BY <1>1, <1>9, <2>1 DEF Transferred
  <2> QED BY <1>6, <1>7, <2>2 DEF LineInv
<1>10. CASE ~L!BurstEnd(last) /\ beat' = beat + 1 /\ state' = "READ_DATA"
  <2>1. \A b \in L!Beat : b < beat + 1 => b <= beat
    BY <1>1 DEF L!Beat
  <2>2. Transferred'
    BY <1>1, <1>8, <1>10, <2>1 DEF Transferred
  <2> QED BY <1>6, <1>7, <2>2 DEF LineInv
<1> QED BY <1>2, <1>6, <1>7, <1>9, <1>10 DEF LineInv

LEMMA WriteBeatInv == ASSUME BeatsAssumption, LineInv, L!ClientEdge, L!WriteBeat PROVE LineInv'
<1>1. /\ client' = "wait" /\ want' = want /\ client = "wait" /\ want.we
      /\ state = "WRITE_DATA" /\ sent = beat /\ beat \in L!Beat
      /\ UNCHANGED <<line, wdata, rdata, lErr, mem>>
      /\ sent' = sent + 1 /\ got' = [got EXCEPT ![beat] = wdata[beat]]
  BY ClientInv DEF L!WriteBeat, LineInv, Handshaken, Transferred, L!TypeOK, L!Writing
<1>2. \/ L!LastBeat /\ state' = "WRITE_RESP" /\ beat' = beat
      \/ ~L!LastBeat /\ beat' = beat + 1 /\ state' = "WRITE_DATA"
  BY <1>1 DEF L!WriteBeat
<1>3. ~L!LastBeat => beat + 1 \in L!Beat
  BY <1>1 DEF L!LastBeat, L!Beat, BeatsAssumption
<1>4. L!TypeOK'
  <2>1. got' \in L!LineData /\ sent' \in 0 .. Beats
    BY <1>1 DEF LineInv, L!TypeOK, L!LineData, L!Beat, BeatsAssumption
  <2> QED BY <1>1, <1>2, <1>3, <2>1 DEF LineInv, L!TypeOK, L!States
<1>5. Handshaken'
  BY <1>1, <1>2 DEF LineInv, Handshaken, L!Writing
<1>6. \A b \in L!Beat : b <= beat => got'[b] = wdata[b]
  BY <1>1 DEF LineInv, L!TypeOK, Transferred, L!LineData, L!Beat
<1>7. CASE L!LastBeat /\ state' = "WRITE_RESP" /\ beat' = beat
  <2>1. \A b \in L!Beat : got'[b] = wdata[b]
    BY <1>6, <1>7 DEF L!LastBeat, L!Beat, BeatsAssumption
  <2>2. got' = wdata
    BY <1>1, <1>4, <2>1 DEF LineInv, L!TypeOK, L!LineData
  <2>3. Transferred'
    BY <1>1, <1>7, <2>2 DEF Transferred
  <2> QED BY <1>4, <1>5, <2>3 DEF LineInv
<1>8. CASE ~L!LastBeat /\ beat' = beat + 1 /\ state' = "WRITE_DATA"
  <2>1. \A b \in L!Beat : b < beat + 1 => b <= beat
    BY <1>1 DEF L!Beat
  <2>2. Transferred'
    BY <1>1, <1>6, <1>8, <2>1 DEF Transferred
  <2> QED BY <1>4, <1>5, <2>2 DEF LineInv
<1> QED BY <1>2, <1>4, <1>5, <1>7, <1>8 DEF LineInv

LEMMA WriteAnswerInv ==
  ASSUME BeatsAssumption, LineInv, L!ClientEdge, NEW ok \in BOOLEAN,
           L!WriteAnswer(ok) PROVE LineInv'
<1>1. /\ client' = "wait" /\ want' = want /\ client = "wait" /\ want.we
      /\ state = "WRITE_RESP" /\ state' = "RESP"
      /\ UNCHANGED <<line, wdata, rdata, beat, sent, got>> /\ lErr' = ~ok
  BY ClientInv DEF L!WriteAnswer, LineInv, Handshaken, L!Writing
<1>2. mem' \in [Line -> L!LineData]
  <2>1. \A d \in L!Performed(ok) : d \in L!LineData
    BY DEF L!Performed, LineInv, L!TypeOK
  <2> QED BY <2>1 DEF L!WriteAnswer, LineInv, L!TypeOK
<1>3. L!TypeOK'
  BY <1>1, <1>2 DEF LineInv, L!TypeOK, L!States
<1>4. Handshaken' /\ Transferred'
  BY <1>1 DEF LineInv, Handshaken, Transferred, L!Writing
<1> QED BY <1>3, <1>4 DEF LineInv

LEMMA RespondInv == ASSUME LineInv, L!ClientEdge, L!Respond PROVE LineInv'
<1>1. /\ state = "RESP" /\ state' = "IDLE" /\ client' # "wait"
      /\ UNCHANGED <<line, wdata, rdata, beat, lErr, mem, sent, got>>
  BY ClientInv DEF L!Respond, L!registers, L!slaveVars
<1>2. L!TypeOK'
  BY <1>1, ClientInv DEF LineInv, L!TypeOK, L!States
<1>3. Handshaken' /\ Transferred'
  BY <1>1, ClientInv DEF Handshaken, Transferred, L!Writing
<1> QED BY <1>2, <1>3 DEF LineInv

LEMMA StallInv == ASSUME LineInv, L!ClientEdge, L!Stall PROVE LineInv'
<1>1. UNCHANGED <<state, line, wdata, rdata, beat, lErr, mem, sent, got>> /\ state # "RESP"
  BY DEF L!Stall, L!registers, L!slaveVars
<1>2. L!TypeOK'
  BY <1>1, ClientInv DEF LineInv, L!TypeOK
<1>3. CASE state = "IDLE"
  <2>1. client' # "wait"
    BY <1>3, ClientInv DEF L!Stall
  <2> QED BY <1>1, <1>2, <1>3, <2>1, ClientInv DEF LineInv, Handshaken, Transferred, L!Writing
<1>4. CASE state # "IDLE"
  <2>1. client' = "wait" /\ want' = want /\ client = "wait"
    BY <1>1, <1>4, ClientInv DEF LineInv, Handshaken
  <2> QED BY <1>1, <1>2, <1>4, <2>1 DEF LineInv, Handshaken, Transferred, L!Writing
<1> QED BY <1>3, <1>4

LEMMA LineStep == ASSUME BeatsAssumption PROVE LineInv /\ [L!Next]_(L!vars) => LineInv'
<1> SUFFICES ASSUME LineInv, [L!Next]_(L!vars) PROVE LineInv'
  OBVIOUS
<1>1. CASE L!Next
  BY <1>1, CaptureInv, AddressTakenInv, ReadBeatInv, WriteBeatInv, WriteAnswerInv, RespondInv,
     StallInv DEF L!Next, L!AdapterEdge, L!Handshake
<1>2. CASE UNCHANGED L!vars
  BY <1>2 DEF L!vars, LineInv, L!TypeOK, Handshaken, Transferred, L!Writing
<1> QED BY <1>1, <1>2

(* Each edge is a step of the port or invisible at it.                      *)
PortStep == L!Port!Next \/ UNCHANGED <<mem, L!Bus>>

LEMMA SameBus ==
  ASSUME UNCHANGED <<state, line, wdata, rdata, lErr>>, state # "IDLE" => want' = want
  PROVE  L!Bus' = L!Bus
BY DEF L!Bus, L!PortState, L!IsWrite, L!Writing

LEMMA CaptureStep == ASSUME LineInv, L!ClientEdge, L!Capture PROVE PortStep
<1>1. /\ state = "IDLE" /\ want \in L!Transaction /\ want' = want
  BY ClientInv DEF L!Capture, LineInv, Handshaken
<1>2. want.line \in Line /\ want.data \in L!LineData /\ want.we \in BOOLEAN
  BY <1>1 DEF L!Transaction
<1>3. L!Bus.st = "idle" /\ mem' = mem
  BY <1>1 DEF L!Bus, L!PortState, L!Capture, L!slaveVars
<1>4. L!Bus' = [st |-> "req", we |-> want.we, line |-> want.line,
                data |-> IF want.we THEN want.data ELSE None, err |-> FALSE]
  BY <1>1, <1>2 DEF L!Capture, L!Bus, L!PortState, L!IsWrite, L!Writing
<1>5. CASE want.we
  <2>1. L!Port!Request(want.line, TRUE, want.data)
    BY <1>2, <1>3, <1>4, <1>5 DEF L!Port!Request
  <2> QED BY <1>2, <2>1 DEF PortStep, L!Port!Next
<1>6. CASE ~want.we
  <2>1. L!Port!Request(want.line, FALSE, None)
    BY <1>2, <1>3, <1>4, <1>6 DEF L!Port!Request
  <2> QED BY <1>2, <2>1 DEF PortStep, L!Port!Next
<1> QED BY <1>5, <1>6

QuietPair ==
  \/ state \in {"READ_ADDR", "READ_DATA"} /\ state' \in {"READ_ADDR", "READ_DATA"}
  \/ /\ state \in {"WRITE_ADDR", "WRITE_DATA", "WRITE_RESP"}
     /\ state' \in {"WRITE_ADDR", "WRITE_DATA", "WRITE_RESP"}

LEMMA QuietStep ==
  ASSUME mem' = mem, line' = line, wdata' = wdata, QuietPair PROVE PortStep
<1>1. L!Bus' = L!Bus
  BY DEF QuietPair, L!Bus, L!PortState, L!IsWrite, L!Writing
<1> QED BY <1>1 DEF PortStep

(* The answer replaces three fields of the transaction.                     *)
LEMMA Replaced ==
  ASSUME NEW we, NEW d, NEW d2, NEW e2,
         L!Bus = [st |-> "req", we |-> we, line |-> line, data |-> d, err |-> FALSE],
         L!Bus' = [st |-> "resp", we |-> we, line |-> line, data |-> d2, err |-> e2]
  PROVE  L!Bus' = [L!Bus EXCEPT !.st = "resp", !.data = d2, !.err = e2]
<1>1. PICK b : b = [L!Bus EXCEPT !.st = "resp"]
  OBVIOUS
<1>2. PICK c : c = [b EXCEPT !.data = d2]
  OBVIOUS
<1>3. b = [st |-> "resp", we |-> we, line |-> line, data |-> d, err |-> FALSE]
  BY <1>1
<1>4. c = [st |-> "resp", we |-> we, line |-> line, data |-> d2, err |-> FALSE]
  BY <1>2, <1>3
<1>5. L!Bus' = [c EXCEPT !.err = e2]
  BY <1>4
<1> QED BY <1>1, <1>2, <1>5

(* The last beat of a read is the answer: the line, or an error.            *)
LEMMA ReadBeatStep ==
  ASSUME BeatsAssumption, LineInv, LineInv', L!ClientEdge,
         NEW d \in Value, NEW ok \in BOOLEAN, NEW last \in BOOLEAN, L!ReadBeat(d, ok, last)
  PROVE  PortStep
<1>1. /\ state = "READ_DATA" /\ UNCHANGED <<line, wdata, mem, want>> /\ ~want.we
      /\ want \in L!Transaction /\ line \in Line
  BY ClientInv DEF L!ReadBeat, LineInv, Handshaken, L!Transaction
<1>2. CASE state' = "READ_DATA"
  <2>1. QuietPair
    BY <1>1, <1>2 DEF QuietPair
  <2> QED BY <1>1, <2>1, QuietStep
<1>3. CASE state' = "RESP"
  <2>1. L!Bus = [st |-> "req", we |-> FALSE, line |-> line, data |-> None, err |-> FALSE]
    BY <1>1 DEF L!Bus, L!PortState, L!IsWrite, L!Writing
  <2>2. L!Bus' = [st |-> "resp", we |-> FALSE, line |-> line,
                  data |-> IF lErr' THEN None ELSE rdata', err |-> lErr']
    BY <1>1, <1>3 DEF L!Bus, L!PortState, L!IsWrite, L!Writing, LineInv, L!TypeOK
  <2>3. rdata' \in L!LineData /\ lErr' \in BOOLEAN /\ (~lErr' => rdata' = mem[line])
    BY <1>1, <1>3 DEF LineInv, L!TypeOK, Transferred
  <2>4. L!Bus' = [L!Bus EXCEPT !.st = "resp", !.data = IF lErr' THEN None ELSE rdata',
          !.err = lErr']
    BY <2>1, <2>2, Replaced, Zenon
  <2>5. L!Bus.st = "req" /\ ~L!Bus.we /\ L!Bus.line = line
    BY <2>1
  <2>6. L!Port!Read(rdata', lErr')
    BY <1>1, <2>3, <2>4, <2>5 DEF L!Port!Read
  <2> QED BY <2>3, <2>6 DEF PortStep, L!Port!Next
<1> QED BY <1>1, <1>2, <1>3 DEF L!ReadBeat

LEMMA WriteAnswerStep ==
  ASSUME LineInv, L!ClientEdge, NEW ok \in BOOLEAN, L!WriteAnswer(ok) PROVE PortStep
<1>1. /\ state = "WRITE_RESP" /\ state' = "RESP" /\ UNCHANGED <<line, wdata, want>>
      /\ want.we /\ got = wdata /\ lErr' = ~ok /\ wdata \in L!LineData
  BY ClientInv DEF L!WriteAnswer, LineInv, L!TypeOK, Handshaken, Transferred, L!Writing
<1>2. L!Bus = [st |-> "req", we |-> TRUE, line |-> line, data |-> wdata, err |-> FALSE]
  BY <1>1 DEF L!Bus, L!PortState, L!IsWrite, L!Writing
<1>3. L!Bus' = [st |-> "resp", we |-> TRUE, line |-> line, data |-> None, err |-> ~ok]
  BY <1>1 DEF L!Bus, L!PortState, L!IsWrite, L!Writing
<1>4. PICK d \in L!Performed(ok) : mem' = [mem EXCEPT ![line] = d]
  BY DEF L!WriteAnswer
<1>5. d \in L!LineData /\ IF ~ok THEN d \in L!Port!Mixed(mem[line], wdata) ELSE d = wdata
  BY <1>1, <1>4 DEF L!Performed, L!Port!Mixed
<1>6. L!Bus' = [L!Bus EXCEPT !.st = "resp", !.data = None, !.err = ~ok]
  BY <1>2, <1>3, Replaced, Zenon
<1>7. L!Bus.st = "req" /\ L!Bus.we /\ L!Bus.line = line /\ L!Bus.data = wdata
  BY <1>2
<1>8. L!Port!Write(d, ~ok)
  BY <1>4, <1>5, <1>6, <1>7 DEF L!Port!Write
<1> QED BY <1>5, <1>8 DEF PortStep, L!Port!Next

LEMMA RespondStep == ASSUME LineInv, L!ClientEdge, L!Respond PROVE PortStep
<1>1. state = "RESP" /\ state' = "IDLE" /\ mem' = mem
  BY DEF L!Respond, L!slaveVars
<1>2. L!Bus.st = "resp" /\ L!Bus' = L!Port!Idle
  BY <1>1 DEF L!Bus, L!PortState, L!IsWrite, L!Writing, L!Port!Idle
<1>3. L!Port!Answer
  BY <1>1, <1>2 DEF L!Port!Answer
<1> QED BY <1>3 DEF PortStep, L!Port!Next

LEMMA EdgeIsPortStep ==
  ASSUME BeatsAssumption PROVE LineInv /\ [L!Next]_(L!vars) => LineInv'
           /\ [L!Port!Next]_<<mem, L!Bus>>
<1> SUFFICES ASSUME LineInv, [L!Next]_(L!vars) PROVE LineInv' /\ PortStep
  BY DEF PortStep
<1>1. LineInv'
  BY LineStep
<1>2. ASSUME L!AddressTaken PROVE PortStep
  BY <1>2, QuietStep DEF L!AddressTaken, L!registers, QuietPair
<1>3. ASSUME L!WriteBeat PROVE PortStep
  BY <1>3, QuietStep DEF L!WriteBeat, QuietPair
<1>4. ASSUME L!ClientEdge, L!Stall PROVE PortStep
  <2>1. L!Bus' = L!Bus /\ mem' = mem
    BY <1>4, SameBus, ClientInv DEF L!Stall, L!registers, L!slaveVars
  <2> QED BY <2>1 DEF PortStep
<1>5. CASE L!Next
  BY <1>1, <1>2, <1>3, <1>4, <1>5, CaptureStep, ReadBeatStep, WriteAnswerStep, RespondStep
     DEF L!Next, L!AdapterEdge, L!Handshake
<1>6. CASE UNCHANGED L!vars
  <2>1. L!Bus' = L!Bus /\ mem' = mem
    BY <1>6, SameBus DEF L!vars
  <2> QED BY <1>1, <2>1 DEF PortStep
<1> QED BY <1>5, <1>6

LEMMA PortStart == L!Init => L!Port!Init
BY DEF L!Init, L!Port!Init, L!Port!Idle, L!Bus, L!PortState, L!IsWrite, L!Writing

\* beat_q never leaves the line, although the subordinate decides when a read burst
\* ends (BEATS_P beats at most are counted), and every register keeps its type.
THEOREM LineTypeCorrect == ASSUME BeatsAssumption PROVE L!Spec => []L!TypeOK
<1>1. L!Init => LineInv
  BY LineStart
<1>2. LineInv => L!TypeOK
  BY DEF LineInv
<1> QED BY <1>1, <1>2, LineStep, PTL DEF L!Spec

\* What the cache is told is what memory did: a line reported without an error was
\* transferred beat for beat, for every burst length and every misbehaviour of the
\* subordinate (early or missing last, foreign IDs, errors on any beat).
THEOREM LineAlways == ASSUME BeatsAssumption PROVE L!Spec => L!ImplementsLinePort
<1>1. L!Init => LineInv
  BY LineStart
<1> QED BY <1>1, PortStart, EdgeIsPortStep, PTL DEF L!Spec, L!ImplementsLinePort, L!Port!Spec

-----------------------------------------------------------------------------
(* The uncached device master and the bridge to APB, for every set of        *)
(* request forms. The invariant follows a request through channels and       *)
(* bridge: it waits, is served lane by lane, or is answered, and the answer  *)
(* bears the error of any lane.                                              *)
(* Where a request is on its way through master, channels and bridge.         *)

BridgeTypes ==
  /\ uc \in A!MasterStates /\ ucErr \in BOOLEAN /\ req \in A!Request \cup {None}
  /\ aw \in BOOLEAN /\ wItem \in BOOLEAN /\ ar \in BOOLEAN
  /\ bAnswer \in BOOLEAN \cup {None} /\ rAnswer \in BOOLEAN \cup {None}
  /\ br \in A!BridgeStates
  /\ awSeen \in BOOLEAN /\ wSeen \in BOOLEAN /\ bad \in BOOLEAN /\ err \in BOOLEAN
  /\ be \subseteq A!Lane /\ faults \subseteq A!Lane
WordsFailed == ~req.single \/ faults # {}
NothingOnTheWay == accesses = <<>> /\ faults = {}
NoWrite == ~aw /\ ~wItem /\ ~awSeen /\ ~wSeen /\ bAnswer = None
NoRead == ~ar /\ rAnswer = None
\* What the bridge has done when it stands at br.
WordsDone == accesses = IF req.single THEN A!WordsInOrder(be) ELSE <<>>
WordBeingDone ==
  /\ br.phase # "resp" => req.single /\ br.lane \in be
  /\ br.phase # "resp" /\ br.lane = "lo" => NothingOnTheWay
  /\ br.phase # "resp" /\ br.lane = "hi" => accesses = IF "lo" \in be THEN <<"lo">> ELSE <<>>
  /\ br.phase = "resp" => WordsDone
  /\ err <=> WordsFailed
\* A write between address and answer: the bridge waits for it, serves it, or
\* has answered it; a read the same.
WriteWaits == /\ br = A!Idle /\ bAnswer = None /\ (aw <=> ~awSeen) /\ ~wSeen /\ NothingOnTheWay
              /\ (wItem <=> uc = "WRITE_RESP") /\ (bad <=> awSeen /\ ~req.single)
WriteServed == /\ br # A!Idle /\ br.we /\ bAnswer = None /\ ~aw /\ awSeen /\ ~wItem /\ wSeen
               /\ uc = "WRITE_RESP" /\ be = req.lanes /\ WordBeingDone
WriteAnswered == /\ br = A!Idle /\ bAnswer # None /\ ~aw /\ ~awSeen /\ ~wItem /\ ~wSeen /\ ~bad
                 /\ uc = "WRITE_RESP" /\ be = req.lanes /\ WordsDone /\ (bAnswer <=> WordsFailed)
ReadWaits == br = A!Idle /\ rAnswer = None /\ ar /\ NothingOnTheWay /\ ~bad
ReadServed == br # A!Idle /\ ~br.we /\ rAnswer = None /\ ~ar /\ be = A!Lane /\ WordBeingDone
ReadAnswered == br = A!Idle /\ rAnswer # None /\ ~ar /\ ~bad /\ (rAnswer <=> WordsFailed)
\* The inductive invariant: what is on the way in each state of the master.
BridgeInv ==
  /\ BridgeTypes
  /\ uc # "IDLE" => req \in A!Request
  /\ uc \in {"IDLE", "RESP", "WRITE_ADDR", "READ_ADDR"} => NoWrite /\ NoRead /\ br = A!Idle /\ ~bad
  /\ uc \in {"WRITE_ADDR", "READ_ADDR"} => NothingOnTheWay /\ (req.we <=> uc = "WRITE_ADDR")
  /\ uc \in {"WRITE_DATA", "WRITE_RESP"} =>
       req.we /\ NoRead /\ (WriteWaits \/ WriteServed \/ WriteAnswered)
  /\ uc = "READ_DATA" => ~req.we /\ NoWrite /\ (ReadWaits \/ ReadServed \/ ReadAnswered)
  /\ uc = "RESP" => /\ ucErr <=> WordsFailed
                    /\ req.we => be = req.lanes /\ WordsDone

LEMMA BridgeStart == ASSUME FormAssumption, A!Init PROVE BridgeInv
BY DEF FormAssumption, A!Init, BridgeInv, BridgeTypes, A!MasterStates, A!BridgeStates, NoWrite, NoRead

(* The states of the bridge, by their phase.                                  *)
LEMMA Phases ==
  ASSUME br \in A!BridgeStates
  PROVE  \/ br = A!Idle
         \/ br # A!Idle /\ br.phase = "resp" /\ br.we \in BOOLEAN /\ br = A!Resp(br.we)
         \/ /\ br # A!Idle /\ br.phase \in {"setup", "access"} /\ br.we \in BOOLEAN
                 /\ br.lane \in A!Lane
            /\ br = [phase |-> br.phase, we |-> br.we, lane |-> br.lane]
BY DEF A!BridgeStates, A!Idle, A!Resp

LEMMA RequestKeeps == ASSUME FormAssumption, BridgeInv, A!HartRequest PROVE BridgeInv'
<1>1. req' \in A!Request /\ req'.we \in BOOLEAN
  BY DEF A!HartRequest, A!Request
<1>2. BridgeTypes'
  BY <1>1 DEF BridgeInv, BridgeTypes, A!HartRequest, A!MasterStates, A!toBridge
<1>3. (NoWrite /\ NoRead /\ br = A!Idle /\ ~bad)'
  BY DEF BridgeInv, A!HartRequest, NoWrite, NoRead, A!toBridge
<1>4. NothingOnTheWay'
  BY DEF A!HartRequest, NothingOnTheWay
<1> QED BY <1>1, <1>2, <1>3, <1>4 DEF BridgeInv, A!HartRequest

LEMMA SendAddressKeeps == ASSUME FormAssumption, BridgeInv, A!SendAddress PROVE BridgeInv'
<1>1. BridgeTypes'
  <2>1. uc' \in A!MasterStates /\ ucErr' \in BOOLEAN /\ req' \in A!Request \cup {None}
    BY DEF BridgeInv, BridgeTypes, A!SendAddress, A!MasterStates
  <2>2. aw' \in BOOLEAN /\ wItem' \in BOOLEAN /\ ar' \in BOOLEAN
    BY DEF BridgeInv, BridgeTypes, A!SendAddress
  <2>3. UNCHANGED <<bAnswer, rAnswer, br, awSeen, wSeen, be, bad, err, faults>>
    BY DEF A!SendAddress, A!bridgeVars
  <2> QED BY <2>1, <2>2, <2>3 DEF BridgeInv, BridgeTypes
<1> USE DEF BridgeInv, A!SendAddress, A!bridgeVars
<1>2. CASE uc = "WRITE_ADDR"
  BY <1>1, <1>2 DEF NoWrite, NoRead, WriteWaits, NothingOnTheWay, BridgeTypes
<1>3. CASE uc = "READ_ADDR"
  BY <1>1, <1>3 DEF NoWrite, NoRead, ReadWaits, NothingOnTheWay
<1> QED BY <1>2, <1>3

LEMMA SendDataKeeps == ASSUME FormAssumption, BridgeInv, A!SendData PROVE BridgeInv'
<1> USE DEF BridgeInv, A!SendData, A!bridgeVars
<1>1. BridgeTypes'
  BY DEF BridgeTypes, A!MasterStates
<1>2. WriteWaits /\ NoRead /\ req.we
  BY DEF WriteServed, WriteAnswered
<1>3. WriteWaits'
  BY <1>2 DEF WriteWaits, NothingOnTheWay
<1> QED BY <1>1, <1>2, <1>3 DEF NoRead

LEMMA TakeAnswerKeeps == ASSUME FormAssumption, BridgeInv, A!TakeAnswer PROVE BridgeInv'
<1> USE DEF BridgeInv, A!TakeAnswer, A!bridgeVars, A!toBridge
<1>1. BridgeTypes'
  BY DEF BridgeTypes, A!MasterStates
<1>2. CASE uc = "WRITE_RESP"
  <2>1. WriteAnswered /\ NoRead /\ req.we
    BY <1>2 DEF WriteWaits, WriteServed
  <2>2. (NoWrite /\ NoRead /\ br = A!Idle /\ ~bad)'
    BY <1>2, <2>1 DEF WriteAnswered, NoRead, NoWrite
  <2>3. (ucErr <=> WordsFailed)' /\ (be = req.lanes /\ WordsDone)'
    BY <1>2, <2>1 DEF WriteAnswered, WordsFailed, WordsDone
  <2> QED BY <1>1, <1>2, <2>1, <2>2, <2>3
<1>3. CASE uc = "READ_DATA"
  <2>1. ReadAnswered /\ NoWrite /\ ~req.we
    BY <1>3 DEF ReadWaits, ReadServed
  <2>2. (NoWrite /\ NoRead /\ br = A!Idle /\ ~bad)'
    BY <1>3, <2>1 DEF ReadAnswered, NoRead, NoWrite
  <2>3. (ucErr <=> WordsFailed)'
    BY <1>3, <2>1 DEF ReadAnswered, WordsFailed
  <2> QED BY <1>1, <1>3, <2>1, <2>2, <2>3
<1> QED BY <1>2, <1>3

LEMMA AnswerHartKeeps == ASSUME FormAssumption, BridgeInv, A!AnswerHart PROVE BridgeInv'
<1>1. BridgeTypes'
  BY DEF BridgeInv, A!AnswerHart, BridgeTypes, A!MasterStates, A!bridgeVars, A!toBridge
<1> QED BY <1>1 DEF BridgeInv, A!AnswerHart, NoWrite, NoRead, A!bridgeVars, A!toBridge

LEMMA AcceptWriteKeeps == ASSUME FormAssumption, BridgeInv, A!AcceptWrite PROVE BridgeInv'
<1> USE DEF BridgeInv, A!AcceptWrite, A!masterVars, A!AwFire, A!WFire
<1>0. req \in A!Request /\ req.we /\ NoRead /\ WriteWaits /\ uc \in {"WRITE_DATA", "WRITE_RESP"}
  BY DEF WriteWaits, WriteServed, WriteAnswered, NoWrite, BridgeTypes, A!MasterStates
<1>1. req.lanes \in (SUBSET A!Lane) \ {{}} /\ req.single \in BOOLEAN
  BY <1>0 DEF A!Request, FormAssumption
<1>2. A!FirstLane(req.lanes) \in req.lanes /\ (A!FirstLane(req.lanes) = "hi" => "lo" \notin req.lanes)
  BY <1>1 DEF A!FirstLane, A!Lane
<1>3. CASE wItem
  <2>1. /\ ~aw' /\ ~wItem' /\ awSeen' /\ wSeen' /\ be' = req.lanes /\ bAnswer' = None /\ NoRead'
        /\ uc' = "WRITE_RESP" /\ NothingOnTheWay'
    BY <1>0, <1>3 DEF WriteWaits, NoRead, NothingOnTheWay, BridgeTypes
  <2>2. bad \/ (A!AwFire /\ ~req.single) <=> ~req.single
    BY <1>0, <1>1 DEF WriteWaits
  <2>3. /\ err' = ~req.single
        /\ br' = IF ~req.single THEN A!Resp(TRUE) ELSE A!Setup(TRUE, A!FirstLane(req.lanes))
    BY <2>1, <2>2, <1>1
  <2>4. br' \in A!BridgeStates /\ br' # A!Idle /\ br'.we
    BY <1>1, <1>2, <2>3 DEF A!BridgeStates, A!Resp, A!Setup, A!Idle
  <2>5. BridgeTypes'
    BY <2>1, <2>3, <2>4, <1>0, <1>1 DEF BridgeTypes, FormAssumption
  <2>6. WordBeingDone'
    <3>1. CASE req.single
      <4>1. br'.phase = "setup" /\ br'.lane = A!FirstLane(req.lanes)
        BY <2>3, <3>1 DEF A!Setup
      <4> QED BY <1>1, <1>2, <2>1, <2>3, <3>1, <4>1 DEF WordBeingDone, NothingOnTheWay, WordsFailed
    <3>2. CASE ~req.single
      <4>1. br'.phase = "resp"
        BY <2>3, <3>2 DEF A!Resp
      <4> QED BY <1>1, <2>1, <2>3, <3>2, <4>1 DEF WordBeingDone, NothingOnTheWay, WordsFailed, WordsDone
    <3> QED BY <3>1, <3>2
  <2>7. WriteServed'
    BY <2>1, <2>4, <2>6 DEF WriteServed
  <2> QED BY <1>0, <2>1, <2>5, <2>7
<1>4. CASE ~wItem
  <2>1. /\ aw /\ ~awSeen /\ ~aw' /\ ~wItem' /\ awSeen' /\ ~wSeen' /\ bad' = ~req.single /\ br' = A!Idle
        /\ be' = be /\ err' = err
    BY <1>0, <1>4 DEF WriteWaits, BridgeTypes
  <2>2. BridgeTypes'
    BY <2>1, <1>0, <1>1 DEF BridgeTypes, FormAssumption, A!BridgeStates
  <2>3. WriteWaits' /\ NoRead'
    BY <1>0, <1>1, <1>4, <2>1 DEF WriteWaits, NoRead, NothingOnTheWay
  <2> QED BY <1>0, <2>2, <2>3
<1> QED BY <1>3, <1>4

LEMMA AcceptReadKeeps == ASSUME FormAssumption, BridgeInv, A!AcceptRead PROVE BridgeInv'
<1> USE DEF BridgeInv, A!AcceptRead, A!masterVars, A!ArFire
<1>0. req \in A!Request /\ ~req.we /\ NoWrite /\ ReadWaits /\ uc = "READ_DATA"
  BY DEF NoRead, ReadServed, ReadAnswered, BridgeTypes, A!MasterStates
<1>1. req.single \in BOOLEAN
  BY <1>0 DEF A!Request, FormAssumption
<1>2. /\ br' \in A!BridgeStates /\ br' # A!Idle /\ br'.we = FALSE
      /\ br'.phase = IF req.single THEN "setup" ELSE "resp"
      /\ req.single => br'.lane = "lo"
  BY <1>1 DEF A!BridgeStates, A!Setup, A!Resp, A!Idle, A!Lane
<1>3. BridgeTypes'
  BY <1>0, <1>1, <1>2 DEF BridgeTypes
<1>4. NothingOnTheWay' /\ be' = A!Lane /\ "lo" \in A!Lane /\ err' = ~req.single /\ NoWrite'
        /\ rAnswer' = None /\ ~ar'
  BY <1>0 DEF ReadWaits, NothingOnTheWay, NoWrite, A!Lane
<1>5. WordBeingDone'
  BY <1>1, <1>2, <1>4 DEF WordBeingDone, NothingOnTheWay, WordsFailed, WordsDone
<1> QED BY <1>0, <1>2, <1>3, <1>4, <1>5 DEF ReadServed

(* A step of the bridge between acceptance and answer.                        *)
LEMMA ServingKeeps ==
  ASSUME FormAssumption, BridgeInv, br # A!Idle, br' \in A!BridgeStates, br' # A!Idle, br'.we = br.we,
         WordBeingDone', err' \in BOOLEAN, faults' \subseteq A!Lane,
         UNCHANGED <<A!masterVars, A!toBridge, bAnswer, rAnswer, awSeen, wSeen, be, bad>>
  PROVE  BridgeInv'
<1> USE DEF BridgeInv, A!masterVars, A!toBridge
<1>1. BridgeTypes'
  BY DEF BridgeTypes
<1>2. CASE uc \in {"WRITE_DATA", "WRITE_RESP"}
  <2>1. WriteServed
    BY <1>2 DEF WriteWaits, WriteAnswered
  <2>2. WriteServed' /\ NoRead'
    BY <1>2, <2>1 DEF WriteServed, NoRead
  <2> QED BY <1>1, <1>2, <2>1, <2>2
<1>3. CASE uc = "READ_DATA"
  <2>1. ReadServed
    BY <1>3 DEF ReadWaits, ReadAnswered
  <2>2. ReadServed' /\ NoWrite'
    BY <1>3, <2>1 DEF ReadServed, NoWrite
  <2> QED BY <1>1, <1>3, <2>1, <2>2
<1> QED BY <1>2, <1>3 DEF BridgeTypes, A!MasterStates

(* What the bridge knows while it serves a request.                           *)
LEMMA Serving ==
  ASSUME FormAssumption, BridgeInv, br # A!Idle
  PROVE  WordBeingDone /\ req \in A!Request /\ be \subseteq A!Lane /\ err \in BOOLEAN
           /\ faults \subseteq A!Lane
         /\ (IF br.we THEN WriteServed /\ NoRead /\ req.we /\ uc = "WRITE_RESP"
                      ELSE ReadServed /\ NoWrite /\ ~req.we /\ uc = "READ_DATA")
<1> USE DEF BridgeInv
<1>1. CASE uc \in {"WRITE_DATA", "WRITE_RESP"}
  BY <1>1 DEF WriteWaits, WriteAnswered, WriteServed, BridgeTypes
<1>2. CASE uc = "READ_DATA"
  BY <1>2 DEF ReadWaits, ReadAnswered, ReadServed, BridgeTypes
<1> QED BY <1>1, <1>2 DEF BridgeTypes, A!MasterStates

LEMMA ApbSetupKeeps == ASSUME FormAssumption, BridgeInv, A!SetupDone PROVE BridgeInv'
<1>1. br \in A!BridgeStates /\ br.phase = "setup" /\ br # A!Idle
  BY DEF A!SetupDone, BridgeInv, BridgeTypes, A!Idle
<1>2. br.we \in BOOLEAN /\ br.lane \in A!Lane
        /\ br = [phase |-> br.phase, we |-> br.we, lane |-> br.lane]
  BY <1>1, Phases
<1>3. br' = [phase |-> "access", we |-> br.we, lane |-> br.lane]
  BY <1>2 DEF A!SetupDone
<1>4. br' \in A!BridgeStates /\ br' # A!Idle /\ br'.we = br.we /\ br'.phase = "access"
        /\ br'.lane = br.lane
  BY <1>2, <1>3 DEF A!BridgeStates, A!Idle
<1>5. WordBeingDone'
  BY <1>1, <1>4, Serving DEF A!SetupDone, WordBeingDone, A!masterVars, NothingOnTheWay, WordsFailed
<1> QED BY <1>1, <1>4, <1>5, Serving, ServingKeeps DEF A!SetupDone

LEMMA AccessKeeps == ASSUME FormAssumption, BridgeInv, A!Access PROVE BridgeInv'
<1>1. br \in A!BridgeStates /\ br.phase = "access" /\ br # A!Idle
  BY DEF A!Access, BridgeInv, BridgeTypes, A!Idle
<1>2. br.we \in BOOLEAN /\ br.lane \in A!Lane
        /\ br = [phase |-> br.phase, we |-> br.we, lane |-> br.lane]
  BY <1>1, Phases
<1>3. WordBeingDone /\ req \in A!Request /\ be \subseteq A!Lane /\ err \in BOOLEAN
        /\ faults \subseteq A!Lane
      /\ (~br.we => be = A!Lane)
  BY <1>1, Serving DEF ReadServed
<1>4. req.single /\ br.lane \in be /\ ~(~req.single)
  BY <1>1, <1>3 DEF WordBeingDone
<1>5. PICK fault \in BOOLEAN :
        /\ err' = (err \/ fault)
        /\ faults' = IF fault THEN faults \cup {br.lane} ELSE faults
  BY DEF A!Access, A!ErrAfter
<1>6. /\ err' \in BOOLEAN /\ faults' \subseteq A!Lane /\ (err' <=> faults' # {})
  BY <1>2, <1>3, <1>4, <1>5 DEF WordBeingDone, WordsFailed
<1>7. UNCHANGED <<A!masterVars, A!toBridge, bAnswer, rAnswer, awSeen, wSeen, be, bad>>
  BY DEF A!Access
<1>8. CASE br.lane = "lo" /\ "hi" \in be
  <2>1. br' = A!Setup(br.we, "hi")
    BY <1>8 DEF A!Access, A!GoesHigh
  <2>2. /\ br' \in A!BridgeStates /\ br' # A!Idle /\ br'.we = br.we /\ br'.phase = "setup"
        /\ br'.lane = "hi"
    BY <1>2, <2>1 DEF A!BridgeStates, A!Setup, A!Idle, A!Lane
  <2>3. accesses' = <<"lo">>
    BY <1>1, <1>3, <1>8 DEF A!Access, WordBeingDone, NothingOnTheWay
  <2>4. WordBeingDone'
    BY <1>4, <1>6, <1>7, <1>8, <2>2, <2>3 DEF WordBeingDone, WordsFailed, A!masterVars
  <2> QED BY <1>1, <1>6, <1>7, <2>2, <2>4, ServingKeeps
<1>9. CASE ~(br.lane = "lo" /\ "hi" \in be)
  <2>1. br' = A!Resp(br.we)
    BY <1>3, <1>9 DEF A!Access, A!GoesHigh, A!Lane
  <2>2. br' \in A!BridgeStates /\ br' # A!Idle /\ br'.we = br.we /\ br'.phase = "resp"
    BY <1>2, <2>1 DEF A!BridgeStates, A!Resp, A!Idle
  <2>3. accesses' = A!WordsInOrder(be)
    <3>1. CASE br.lane = "lo"
      BY <1>1, <1>3, <1>4, <1>9, <3>1 DEF A!Access, WordBeingDone, NothingOnTheWay, A!WordsInOrder
    <3>2. CASE br.lane = "hi"
      BY <1>1, <1>3, <1>4, <3>2 DEF A!Access, WordBeingDone, A!WordsInOrder
    <3> QED BY <1>2, <3>1, <3>2 DEF A!Lane
  <2>4. WordBeingDone'
    BY <1>4, <1>6, <1>7, <2>2, <2>3 DEF WordBeingDone, WordsDone, WordsFailed, A!masterVars,
       A!WordsInOrder
  <2> QED BY <1>1, <1>6, <1>7, <2>2, <2>4, ServingKeeps
<1> QED BY <1>8, <1>9

LEMMA AnswerKeeps == ASSUME FormAssumption, BridgeInv, A!Answer PROVE BridgeInv'
<1>1. br \in A!BridgeStates /\ br.phase = "resp" /\ br # A!Idle /\ br.we \in BOOLEAN
  <2>1. br \in A!BridgeStates /\ br.phase = "resp" /\ br # A!Idle
    BY DEF A!Answer, BridgeInv, BridgeTypes, A!Idle
  <2> QED BY <2>1, Phases
<1>2. /\ WordBeingDone /\ req \in A!Request /\ be \subseteq A!Lane /\ err \in BOOLEAN
           /\ faults \subseteq A!Lane
      /\ (IF br.we THEN WriteServed /\ NoRead /\ req.we /\ uc = "WRITE_RESP"
                   ELSE ReadServed /\ NoWrite /\ ~req.we /\ uc = "READ_DATA")
  BY <1>1, Serving
<1>3. WordsDone /\ (err <=> WordsFailed)
  BY <1>1, <1>2 DEF WordBeingDone
<1>4. BridgeTypes'
  BY <1>2 DEF A!Answer, A!AnswerSent, BridgeInv, BridgeTypes, A!BridgeStates, A!masterVars, A!toBridge
<1>5. WordsDone' /\ (WordsFailed' <=> WordsFailed) /\ br' = A!Idle /\ ~bad'
  BY <1>3 DEF A!Answer, A!AnswerSent, WordsDone, WordsFailed, A!masterVars
<1>6. CASE br.we
  <2>1. /\ bAnswer' = err /\ rAnswer' = rAnswer /\ ~awSeen' /\ ~wSeen'
    BY <1>6 DEF A!Answer, A!AnswerSent
  <2>2. bAnswer' # None
    BY <1>2, <2>1 DEF FormAssumption
  <2>3. WriteAnswered'
    BY <1>2, <1>3, <1>5, <1>6, <2>1, <2>2 DEF WriteAnswered, WriteServed, A!Answer, A!masterVars,
       A!toBridge
  <2>4. NoRead' /\ req'.we /\ uc' = "WRITE_RESP" /\ req' \in A!Request
    BY <1>2, <1>6, <2>1 DEF NoRead, A!Answer, A!masterVars, A!toBridge
  <2> QED BY <1>4, <2>3, <2>4 DEF BridgeInv
<1>7. CASE ~br.we
  <2>1. rAnswer' = err /\ bAnswer' = bAnswer
    BY <1>7 DEF A!Answer
  <2>0. ~awSeen' /\ ~wSeen'
    BY <1>2, <1>7 DEF A!Answer, A!AnswerSent, NoWrite
  <2>2. rAnswer' # None
    BY <1>2, <2>1 DEF FormAssumption
  <2>3. ReadAnswered'
    BY <1>2, <1>3, <1>5, <1>7, <2>0, <2>1, <2>2 DEF ReadAnswered, ReadServed, A!Answer, A!masterVars,
       A!toBridge
  <2>4. NoWrite' /\ ~req'.we /\ uc' = "READ_DATA" /\ req' \in A!Request
    BY <1>2, <1>7, <2>0, <2>1 DEF NoWrite, A!Answer, A!masterVars, A!toBridge
  <2> QED BY <1>4, <2>3, <2>4 DEF BridgeInv
<1> QED BY <1>6, <1>7

LEMMA BridgeStep == ASSUME FormAssumption, BridgeInv, [A!Next]_(A!vars) PROVE BridgeInv'
<1>1. CASE UNCHANGED A!vars
  BY <1>1 DEF BridgeInv, BridgeTypes, NoWrite, NoRead, NothingOnTheWay, WriteWaits, WriteServed,
     WriteAnswered, ReadWaits, ReadServed, ReadAnswered, WordBeingDone, WordsDone, WordsFailed,
     A!vars, A!masterVars, A!toBridge, A!bridgeVars
<1> QED BY <1>1, RequestKeeps, SendAddressKeeps, SendDataKeeps, TakeAnswerKeeps, AnswerHartKeeps,
        AcceptWriteKeeps, AcceptReadKeeps, ApbSetupKeeps, AccessKeeps, AnswerKeeps DEF A!Next,
          A!Progress

\* A store reaches the words it selects, once and in order, and the error of any
\* access is reported to the hart.
THEOREM BridgeAlways == ASSUME FormAssumption PROVE A!Spec
  => [](A!StoreReachesItsWords /\ A!ErrorIsReported)
<1>1. BridgeInv => A!StoreReachesItsWords /\ A!ErrorIsReported
  BY DEF BridgeInv, A!StoreReachesItsWords, A!ErrorIsReported, WordsFailed, WordsDone
<1> QED BY <1>1, BridgeStart, BridgeStep, PTL DEF A!Spec

-----------------------------------------------------------------------------
(* The transmit path: one frame at a time is read, crosses to the PHY's      *)
(* clock, is captured whole and handed to the MAC, for any length and depth. *)
(* The invariant names the stage it is in, and which of its bytes are where. *)

\* A byte behind the DMA, consecutive bytes of frame n, and the frames 1 to n.
Crossed == [frame : Nat, at : Nat]
IsRun(s, n, from, to) ==
  /\ s \in Seq(Crossed) /\ Len(s) = to - from
  /\ \A i \in 1 .. Len(s) : s[i] = [frame |-> n, at |-> from + i]
Sent(n) == [i \in 1 .. n |-> P!Whole(i)]

Flags(busy, ready, flight) == tx.busy = busy /\ tx.ready = ready /\ tx.flight = flight
Owed == launched > 0 /\ txTold = "none"
Unsent == Owed /\ wired = Sent(launched - 1)
Drained == left = 0 /\ pipe = <<>>

\* The stages of a frame: none, being read, staged behind the token, being
\* captured by the PHY, streamed to the MAC, and gone.
Resting ==
  /\ Flags(FALSE, FALSE, FALSE) /\ token = "none" /\ phy.at = "wait"
  /\ Drained /\ fifo = <<>> /\ wired = Sent(launched)
  /\ tx.ok = FALSE /\ tx.last = FALSE
Filling ==
  /\ Flags(TRUE, FALSE, FALSE) /\ token = "none" /\ phy.at = "wait" /\ Unsent
  /\ \E f \in 0 .. TxBytes - left :
       IsRun(fifo, launched, 0, f) /\ IsRun(pipe, launched, f, TxBytes - left)
  /\ tx.ok => left = 0
  /\ tx.last => Drained
Staged ==
  /\ token \in {"none", "asked", "shown"} /\ phy.at = "wait" /\ Unsent
  /\ IF token = "none" THEN Flags(TRUE, TRUE, FALSE) ELSE Flags(TRUE, FALSE, TRUE)
  /\ Drained /\ IsRun(fifo, launched, 0, TxBytes)
Capturing ==
  /\ Flags(TRUE, FALSE, TRUE) /\ token = "shown" /\ phy.at = "capture" /\ Unsent /\ Drained
  /\ \E h \in 0 .. TxBytes - 1 :
       IsRun(phy.held, launched, 0, h) /\ IsRun(fifo, launched, h, TxBytes)
Streaming ==
  /\ Flags(TRUE, FALSE, TRUE) /\ token = "shown" /\ phy.at = "stream" /\ Unsent /\ Drained
  /\ fifo = <<>> /\ phy.held = P!Whole(launched)
Left ==
  /\ Flags(TRUE, FALSE, TRUE) /\ Owed /\ Drained /\ fifo = <<>> /\ wired = Sent(launched)
  /\ \/ token = "shown" /\ phy.at = "done"
     \/ token \in {"acked", "none"} /\ phy.at = "wait"

TxFlags == [busy : BOOLEAN, ok : BOOLEAN, last : BOOLEAN, ready : BOOLEAN, flight : BOOLEAN]
PhyStates == [at : {"wait", "capture", "stream", "done"}, held : Seq(Crossed), sent : Nat]
TxTypes ==
  /\ tx \in TxFlags /\ phy \in PhyStates
  /\ launched \in Nat /\ left \in 0 .. TxBytes
Stages == Resting \/ Filling \/ Staged \/ Capturing \/ Streaming \/ Left
\* The inductive invariant.  A failed read ends what is promised of frames.
TxInv == ~readFailed => TxTypes /\ Stages

LEMMA RunGrows ==
  ASSUME NEW s, NEW n \in Nat, NEW f \in Nat, NEW t \in Nat, IsRun(s, n, f, t)
  PROVE  IsRun(Append(s, [frame |-> n, at |-> t + 1]), n, f, t + 1)
<1> DEFINE a == Append(s, [frame |-> n, at |-> t + 1])
<1>1. [frame |-> n, at |-> t + 1] \in Crossed
  BY DEF Crossed
<1>2. /\ s \in Seq(Crossed) /\ Len(s) = t - f
      /\ \A i \in 1 .. Len(s) : s[i] = [frame |-> n, at |-> f + i]
  BY DEF IsRun
<1>3. /\ a \in Seq(Crossed) /\ Len(a) = Len(s) + 1
      /\ \A i \in 1 .. Len(s) : a[i] = s[i]
      /\ a[Len(s) + 1] = [frame |-> n, at |-> t + 1]
  BY <1>1, <1>2, AppendProperties
<1>4. \A i \in 1 .. Len(a) : a[i] = [frame |-> n, at |-> f + i]
  <2> SUFFICES ASSUME NEW i \in 1 .. Len(a) PROVE a[i] = [frame |-> n, at |-> f + i]
    OBVIOUS
  <2>1. CASE i \in 1 .. Len(s)
    BY <1>2, <1>3, <2>1
  <2>2. CASE i = Len(s) + 1
    <3>1. f + i = t + 1
      BY <1>2, <2>2
    <3> QED BY <1>3, <2>2, <3>1
  <2>3. Len(s) \in Nat
    BY <1>2, LenProperties
  <2> QED BY <1>3, <2>1, <2>2, <2>3
<1>5. Len(a) = t + 1 - f
  BY <1>2, <1>3
<1> QED BY <1>3, <1>4, <1>5 DEF IsRun

LEMMA RunShrinks ==
  ASSUME NEW s, NEW n \in Nat, NEW f \in Nat, NEW t \in Nat, f < t, IsRun(s, n, f, t)
  PROVE  /\ s # <<>> /\ Head(s) = [frame |-> n, at |-> f + 1]
         /\ IsRun(Tail(s), n, f + 1, t)
<1>1. /\ s \in Seq(Crossed) /\ Len(s) = t - f
      /\ \A i \in 1 .. Len(s) : s[i] = [frame |-> n, at |-> f + i]
  BY DEF IsRun
<1>2. s # <<>>
  BY <1>1, EmptySeq
<1>3. Head(s) = s[1] /\ 1 \in 1 .. Len(s)
  BY <1>1, <1>2
<1>4. /\ Tail(s) \in Seq(Crossed) /\ Len(Tail(s)) = Len(s) - 1
      /\ \A i \in 1 .. Len(Tail(s)) : Tail(s)[i] = s[i + 1]
  BY <1>1, <1>2, HeadTailProperties
<1>5. \A i \in 1 .. Len(Tail(s)) : Tail(s)[i] = [frame |-> n, at |-> f + 1 + i]
  <2> SUFFICES ASSUME NEW i \in 1 .. Len(Tail(s))
               PROVE  Tail(s)[i] = [frame |-> n, at |-> f + 1 + i]
    OBVIOUS
  <2>1. i + 1 \in 1 .. Len(s) /\ f + (i + 1) = f + 1 + i
    BY <1>1, <1>4
  <2> QED BY <1>1, <1>4, <2>1
<1>6. IsRun(Tail(s), n, f + 1, t)
  BY <1>1, <1>4, <1>5 DEF IsRun
<1> QED BY <1>1, <1>2, <1>3, <1>6

LEMMA RunEmpty ==
  ASSUME NEW s, NEW n \in Nat, NEW f \in Nat, NEW t \in Nat, IsRun(s, n, f, t)
  PROVE  s = <<>> <=> f = t
<1>1. s \in Seq(Crossed) /\ Len(s) = t - f
  BY DEF IsRun
<1> QED BY <1>1, EmptySeq

LEMMA EmptyRun ==
  ASSUME NEW n \in Nat, NEW f \in Nat PROVE IsRun(<<>>, n, f, f)
  BY EmptySeq DEF IsRun

LEMMA WholeRun ==
  ASSUME NEW s, NEW n \in Nat, BytesAssumption, IsRun(s, n, 0, TxBytes)
  PROVE  s = P!Whole(n)
<1>1. /\ s \in Seq(Crossed) /\ Len(s) = TxBytes
      /\ \A i \in 1 .. Len(s) : s[i] = [frame |-> n, at |-> 0 + i]
  BY DEF IsRun, BytesAssumption
<1>2. s \in [1 .. TxBytes -> Crossed]
  BY <1>1, LenProperties
<1>3. \A i \in 1 .. TxBytes : s[i] = [frame |-> n, at |-> i]
  BY <1>1 DEF BytesAssumption
<1> QED BY <1>2, <1>3 DEF P!Whole

LEMMA SentGrows ==
  ASSUME NEW n \in Nat \ {0}
  PROVE  Append(Sent(n - 1), P!Whole(n)) = Sent(n)
<1> DEFINE wholes == {P!Whole(i) : i \in Nat}
           a == Append(Sent(n - 1), P!Whole(n))
<1>1. /\ Sent(n - 1) \in Seq(wholes) /\ Len(Sent(n - 1)) = n - 1
      /\ \A i \in 1 .. n - 1 : Sent(n - 1)[i] = P!Whole(i)
  <2>1. Sent(n - 1) \in [1 .. n - 1 -> wholes] /\ n - 1 \in Nat
    BY DEF Sent
  <2> QED BY <2>1, SeqDef DEF Sent
<1>2. /\ Sent(n) \in Seq(wholes) /\ Len(Sent(n)) = n
      /\ \A i \in 1 .. n : Sent(n)[i] = P!Whole(i)
  <2>1. Sent(n) \in [1 .. n -> wholes] /\ n \in Nat
    BY DEF Sent
  <2> QED BY <2>1, SeqDef DEF Sent
<1>3. P!Whole(n) \in wholes
  OBVIOUS
<1>4. /\ a \in Seq(wholes) /\ Len(a) = n
      /\ \A i \in 1 .. n - 1 : a[i] = Sent(n - 1)[i]
      /\ a[n] = P!Whole(n)
  BY <1>1, <1>3, AppendProperties
<1>5. \A i \in 1 .. n : a[i] = Sent(n)[i]
  <2> SUFFICES ASSUME NEW i \in 1 .. n PROVE a[i] = Sent(n)[i]
    OBVIOUS
  <2>1. CASE i = n
    BY <1>2, <1>4, <2>1
  <2>2. CASE i \in 1 .. n - 1
    BY <1>1, <1>2, <1>4, <2>2
  <2>3. i = n \/ i \in 1 .. n - 1
    OBVIOUS
  <2> QED BY <2>1, <2>2, <2>3
<1> QED BY <1>2, <1>4, <1>5, SeqEqual

LEMMA LaunchKeeps ==
  ASSUME BytesAssumption, TxTypes, Stages, P!Launch PROVE TxTypes' /\ Stages'
<1>1. txTold # "none" /\ token = "none" /\ ~tx.busy /\ Resting
  BY DEF P!Launch, P!LaunchReady, Stages, Filling, Staged, Capturing, Streaming, Left, Owed, Unsent
<1>2. TxTypes'
  <2>1. /\ launched \in Nat /\ launched' = launched + 1 /\ left' = TxBytes /\ phy' = phy
        /\ tx' = [tx EXCEPT !.busy = TRUE, !.ok = FALSE, !.last = FALSE]
    BY DEF TxTypes, TxFlags, PhyStates, P!Launch
  <2>2. tx' \in TxFlags
    BY <2>1 DEF TxTypes, TxFlags
  <2>3. launched' \in Nat /\ left' \in 0 .. TxBytes
    BY <2>1 DEF BytesAssumption
  <2> QED BY <2>1, <2>2, <2>3 DEF TxTypes, TxFlags, PhyStates
<1>3. Flags(TRUE, FALSE, FALSE)' /\ tx'.ok = FALSE /\ tx'.last = FALSE
  BY <1>1 DEF TxTypes, TxFlags, PhyStates, P!Launch, Resting, Flags
<1>4. IsRun(fifo', launched', 0, 0) /\ IsRun(pipe', launched', 0, TxBytes - left')
  <2>1. fifo' = <<>> /\ pipe' = <<>> /\ launched' \in Nat /\ TxBytes - left' = 0
    BY <1>1, <1>2 DEF P!Launch, Resting, Drained, TxTypes, TxFlags, PhyStates, BytesAssumption
  <2> QED BY <2>1, EmptyRun
<1>5. Unsent'
  BY <1>1 DEF TxTypes, TxFlags, PhyStates, P!Launch, Resting, Unsent, Owed, Sent, P!Whole
<1>6. Filling'
  <2>1. token' = "none" /\ phy'.at = "wait"
    BY <1>1 DEF P!Launch, Resting
  <2>2. 0 \in 0 .. TxBytes - left'
    BY DEF P!Launch, BytesAssumption
  <2> QED BY <1>3, <1>4, <1>5, <2>1, <2>2 DEF Filling
<1> QED BY <1>2, <1>6 DEF Stages

LEMMA ReadByteKeeps ==
  ASSUME BytesAssumption, TxTypes, Stages, P!ReadByte, ~readFailed' PROVE TxTypes' /\ Stages'
<1>1. left > 0 /\ left # 0 /\ left' = left - 1 /\ left \in 1 .. TxBytes
  BY DEF P!ReadByte, TxTypes, TxFlags, PhyStates, BytesAssumption
<1>2. Filling
  <2>1. ~Drained
    BY <1>1 DEF Drained
  <2> QED BY <2>1 DEF Stages, Resting, Staged, Capturing, Streaming, Left
<1>3. /\ tx' = [tx EXCEPT !.busy = TRUE, !.ok = left' = 0]
      /\ txTold' = txTold
  <2>1. PICK error \in BOOLEAN :
          /\ tx' = [tx EXCEPT !.busy = @ /\ ~(left' = 0 /\ tx.busy /\ error),
                             !.ok = @ \/ (left' = 0 /\ tx.busy /\ ~error)]
          /\ txTold' = IF left' = 0 /\ tx.busy /\ error THEN "err" ELSE txTold
          /\ readFailed' = (readFailed \/ error)
    BY DEF P!ReadByte
  <2>2. ~error
    BY <2>1
  <2>3. tx.busy = TRUE /\ tx.ok = FALSE
    BY <1>1, <1>2 DEF Filling, Flags, TxTypes, TxFlags, PhyStates
  <2> QED BY <2>1, <2>2, <2>3
<1>4. TxTypes'
  <2>1. (left' = 0) \in BOOLEAN
    OBVIOUS
  <2>2. tx' \in TxFlags
    BY <1>3, <2>1 DEF TxTypes, TxFlags
  <2>3. left' \in 0 .. TxBytes
    BY <1>1 DEF BytesAssumption
  <2> QED BY <2>2, <2>3 DEF TxTypes, TxFlags, PhyStates, P!ReadByte
<1>5. PICK f \in 0 .. TxBytes - left :
        IsRun(fifo, launched, 0, f) /\ IsRun(pipe, launched, f, TxBytes - left)
  BY <1>2 DEF Filling
<1>6. pipe' = Append(pipe, [frame |-> launched, at |-> TxBytes - left + 1])
  <2>1. TxBytes - left' \in 1 .. TxBytes /\ TxBytes - left' = TxBytes - left + 1
    BY <1>1 DEF BytesAssumption
  <2> QED BY <2>1 DEF P!ReadByte, P!Whole
<1>7. IsRun(pipe', launched', f, TxBytes - left')
  <2>1. f \in Nat /\ TxBytes - left \in Nat /\ launched \in Nat
        /\ TxBytes - left' = TxBytes - left + 1 /\ launched' = launched
    BY <1>1 DEF BytesAssumption, TxTypes, TxFlags, PhyStates, P!ReadByte
  <2> QED BY <1>5, <1>6, <2>1, RunGrows
<1>8. IsRun(fifo', launched', 0, f) /\ f \in 0 .. TxBytes - left'
  BY <1>1, <1>5 DEF P!ReadByte, BytesAssumption
<1>9. tx'.ok => left' = 0
  BY <1>3 DEF TxTypes, TxFlags, PhyStates
<1>10. Flags(TRUE, FALSE, FALSE)' /\ ~tx'.last
  BY <1>1, <1>2, <1>3 DEF TxTypes, TxFlags, PhyStates, Filling, Flags, Drained
<1>11. token' = "none" /\ phy'.at = "wait" /\ Unsent'
  BY <1>2, <1>3 DEF P!ReadByte, Filling, Unsent, Owed
<1>12. Filling'
  BY <1>7, <1>8, <1>9, <1>10, <1>11 DEF Filling
<1> QED BY <1>4, <1>12 DEF Stages

LEMMA ByteOutKeeps ==
  ASSUME BytesAssumption, TxTypes, Stages, P!ByteOut PROVE TxTypes' /\ Stages'
<1>1. Filling
  BY DEF P!ByteOut, Stages, Resting, Staged, Capturing, Streaming, Left, Drained
<1>2. PICK f \in 0 .. TxBytes - left :
        IsRun(fifo, launched, 0, f) /\ IsRun(pipe, launched, f, TxBytes - left)
  BY <1>1 DEF Filling
<1>3. /\ f \in Nat /\ TxBytes - left \in Nat /\ launched \in Nat /\ f + 1 \in Nat
      /\ launched' = launched /\ left' = left
  BY DEF BytesAssumption, TxTypes, TxFlags, PhyStates, P!ByteOut
<1>4. f < TxBytes - left
  <2>1. f # TxBytes - left
    BY <1>2, <1>3, RunEmpty DEF P!ByteOut
  <2> QED BY <1>3, <2>1
<1>5. /\ Head(pipe) = [frame |-> launched, at |-> f + 1]
      /\ IsRun(pipe', launched', f + 1, TxBytes - left')
  BY <1>2, <1>3, <1>4, RunShrinks DEF P!ByteOut
<1>6. IsRun(fifo', launched', 0, f + 1)
  BY <1>2, <1>3, <1>5, RunGrows DEF P!ByteOut
<1>7. tx' = [tx EXCEPT !.last = @ \/ f + 1 = TxBytes]
  BY <1>5 DEF P!ByteOut
<1>8. TxTypes'
  BY <1>7 DEF TxTypes, TxFlags, PhyStates, P!ByteOut
<1>9. tx'.last => Drained'
  <2> SUFFICES ASSUME tx'.last PROVE Drained'
    OBVIOUS
  <2>1. tx.last = FALSE
    BY <1>1 DEF Filling, Drained, P!ByteOut, TxTypes, TxFlags, PhyStates
  <2>2. f + 1 = TxBytes
    BY <1>7, <2>1 DEF TxTypes, TxFlags, PhyStates
  <2>3. left = 0 /\ f + 1 = TxBytes - left'
    BY <1>3, <1>4, <2>2 DEF TxTypes, TxFlags, PhyStates, BytesAssumption
  <2>4. pipe' = <<>>
    BY <1>3, <1>5, <2>3, RunEmpty
  <2> QED BY <1>3, <2>3, <2>4 DEF Drained
<1>10. Flags(TRUE, FALSE, FALSE)' /\ (tx'.ok => left' = 0)
  BY <1>1, <1>3, <1>7 DEF TxTypes, TxFlags, PhyStates, Filling, Flags
<1>11. token' = "none" /\ phy'.at = "wait" /\ Unsent'
  BY <1>1 DEF P!ByteOut, Filling, Unsent, Owed
<1>12. f + 1 \in 0 .. TxBytes - left'
  BY <1>3, <1>4
<1>13. Filling'
  BY <1>5, <1>6, <1>9, <1>10, <1>11, <1>12 DEF Filling
<1> QED BY <1>8, <1>13 DEF Stages

LEMMA FrameReadyKeeps ==
  ASSUME BytesAssumption, TxTypes, Stages, P!FrameReady PROVE TxTypes' /\ Stages'
<1>1. Filling
  BY DEF P!FrameReady, Stages, Resting, Staged, Capturing, Streaming, Left, Flags
<1>2. left = 0 /\ pipe = <<>>
  BY <1>1 DEF P!FrameReady, Filling, Drained
<1>3. PICK f \in 0 .. TxBytes - left :
        IsRun(fifo, launched, 0, f) /\ IsRun(pipe, launched, f, TxBytes - left)
  BY <1>1 DEF Filling
<1>4. f = TxBytes
  <2>1. f \in Nat /\ TxBytes - left = TxBytes /\ TxBytes \in Nat /\ launched \in Nat
    BY <1>2 DEF BytesAssumption, TxTypes, TxFlags, PhyStates
  <2> QED BY <1>2, <1>3, <2>1, RunEmpty
<1>5. TxTypes'
  BY DEF TxTypes, TxFlags, PhyStates, P!FrameReady
<1>6. Flags(TRUE, TRUE, FALSE)'
  BY <1>1 DEF TxTypes, TxFlags, PhyStates, P!FrameReady, Filling, Flags
<1>7. Staged'
  BY <1>1, <1>2, <1>3, <1>4, <1>6 DEF Staged, P!FrameReady, Filling, Drained, Unsent, Owed
<1> QED BY <1>5, <1>7 DEF Stages

LEMMA AskKeeps ==
  ASSUME BytesAssumption, TxTypes, Stages, P!Ask PROVE TxTypes' /\ Stages'
<1>1. Staged /\ token = "none" /\ token' = "asked"
  BY DEF P!Ask, Stages, Resting, Filling, Capturing, Streaming, Left, Flags
<1>2. TxTypes'
  BY DEF TxTypes, TxFlags, PhyStates, P!Ask
<1>3. Flags(TRUE, FALSE, TRUE)'
  BY <1>1 DEF TxTypes, TxFlags, PhyStates, P!Ask, Staged, Flags
<1>4. Staged'
  BY <1>1, <1>3 DEF Staged, P!Ask, Drained, Unsent, Owed
<1> QED BY <1>2, <1>4 DEF Stages

LEMMA CompleteKeeps ==
  ASSUME BytesAssumption, TxTypes, Stages, P!Complete PROVE TxTypes' /\ Stages'
<1>1. Left /\ token = "none"
  BY DEF P!Complete, P!Returned, Stages, Resting, Filling, Staged, Capturing, Streaming, Flags
<1>2. TxTypes'
  BY DEF TxTypes, TxFlags, PhyStates, P!Complete
<1>3. Flags(FALSE, FALSE, FALSE)' /\ tx'.ok = FALSE /\ tx'.last = FALSE
  BY <1>1 DEF TxTypes, TxFlags, PhyStates, P!Complete, Left, Flags
<1>4. Resting'
  BY <1>1, <1>3 DEF Resting, Left, P!Complete, Drained
<1> QED BY <1>2, <1>4 DEF Stages

LEMMA CrossKeeps ==
  ASSUME BytesAssumption, TxTypes, Stages, P!Cross PROVE TxTypes' /\ Stages'
<1>1. TxTypes'
  BY DEF TxTypes, TxFlags, PhyStates, P!Cross
<1>2. CASE token = "asked"
  <2>1. Staged /\ token' = "shown"
    BY <1>2 DEF P!Cross, Stages, Resting, Filling, Capturing, Streaming, Left
  <2>2. Staged'
    BY <1>2, <2>1 DEF Staged, P!Cross, Drained, Unsent, Owed, Flags
  <2> QED BY <1>1, <2>2 DEF Stages
<1>3. CASE token = "acked"
  <2>1. Left /\ token' = "none"
    BY <1>3 DEF P!Cross, Stages, Resting, Filling, Staged, Capturing, Streaming
  <2>2. Left'
    BY <1>3, <2>1 DEF Left, P!Cross, Drained, Owed, Flags
  <2> QED BY <1>1, <2>2 DEF Stages
<1> QED BY <1>2, <1>3 DEF P!Cross

LEMMA StartKeeps ==
  ASSUME BytesAssumption, TxTypes, Stages, P!Start PROVE TxTypes' /\ Stages'
<1>1. Staged /\ token = "shown" /\ token' = "shown" /\ launched' = launched /\ launched \in Nat
  BY DEF P!Start, Stages, Resting, Filling, Capturing, Streaming, Left, TxTypes, TxFlags, PhyStates
<1>2. phy' = [at |-> "capture", held |-> <<>>, sent |-> 0]
  BY DEF P!Start
<1>3. TxTypes'
  BY <1>2, EmptySeq DEF TxTypes, TxFlags, PhyStates, P!Start
<1>4. IsRun(phy'.held, launched', 0, 0)
  BY <1>1, <1>2, EmptyRun
<1>5. IsRun(fifo', launched', 0, TxBytes)
  BY <1>1 DEF Staged, P!Start
<1>6. 0 \in 0 .. TxBytes - 1
  BY DEF BytesAssumption
<1>7. /\ phy'.at = "capture" /\ Flags(TRUE, FALSE, TRUE)' /\ Unsent' /\ Drained'
  BY <1>1, <1>2 DEF Staged, P!Start, Drained, Unsent, Owed, Flags
<1>8. Capturing'
  BY <1>1, <1>4, <1>5, <1>6, <1>7 DEF Capturing
<1> QED BY <1>3, <1>8 DEF Stages

LEMMA CaptureKeeps ==
  ASSUME BytesAssumption, TxTypes, Stages, P!Capture PROVE TxTypes' /\ Stages'
<1>1. Capturing
  BY DEF P!Capture, Stages, Resting, Filling, Staged, Streaming, Left
<1>2. PICK h \in 0 .. TxBytes - 1 :
        IsRun(phy.held, launched, 0, h) /\ IsRun(fifo, launched, h, TxBytes)
  BY <1>1 DEF Capturing
<1>3. /\ h \in Nat /\ h + 1 \in Nat /\ TxBytes \in Nat /\ launched \in Nat /\ h < TxBytes
      /\ launched' = launched
  BY DEF BytesAssumption, TxTypes, TxFlags, PhyStates, P!Capture
<1>4. Head(fifo) = [frame |-> launched, at |-> h + 1] /\ IsRun(fifo', launched', h + 1, TxBytes)
  BY <1>2, <1>3, RunShrinks DEF P!Capture
<1>5. /\ phy'.held = Append(phy.held, [frame |-> launched, at |-> h + 1])
      /\ phy'.at = IF h + 1 = TxBytes THEN "stream" ELSE "capture"
      /\ phy'.sent = phy.sent
  BY <1>4 DEF P!Capture, TxTypes, TxFlags, PhyStates
<1>6. IsRun(phy'.held, launched', 0, h + 1)
  BY <1>2, <1>3, <1>5, RunGrows
<1>7. TxTypes'
  <2>1. phy'.held \in Seq(Crossed)
    BY <1>6 DEF IsRun
  <2>2. phy' = [phy EXCEPT !.held = phy'.held, !.at = phy'.at]
    BY <1>4, <1>5 DEF P!Capture, TxTypes, TxFlags, PhyStates
  <2>3. phy'.at \in {"wait", "capture", "stream", "done"}
    BY <1>5
  <2> QED BY <2>1, <2>2, <2>3 DEF TxTypes, TxFlags, PhyStates, P!Capture
<1>8. Flags(TRUE, FALSE, TRUE)' /\ token' = "shown" /\ Unsent' /\ Drained'
  BY <1>1 DEF P!Capture, Capturing, Flags, Unsent, Owed, Drained
<1>9. CASE h + 1 = TxBytes
  <2>1. phy'.held = P!Whole(launched')
    BY <1>3, <1>6, <1>9, WholeRun
  <2>2. fifo' = <<>>
    BY <1>3, <1>4, <1>9, RunEmpty
  <2>3. Streaming'
    BY <1>5, <1>8, <1>9, <2>1, <2>2 DEF Streaming
  <2> QED BY <1>7, <2>3 DEF Stages
<1>10. CASE h + 1 # TxBytes
  <2>1. h + 1 \in 0 .. TxBytes - 1
    BY <1>3, <1>10
  <2>2. Capturing'
    BY <1>4, <1>5, <1>6, <1>8, <1>10, <2>1 DEF Capturing
  <2> QED BY <1>7, <2>2 DEF Stages
<1> QED BY <1>9, <1>10

LEMMA MacAcceptsKeeps ==
  ASSUME BytesAssumption, TxTypes, Stages, P!MacAccepts PROVE TxTypes' /\ Stages'
<1>1. Streaming
  BY DEF P!MacAccepts, Stages, Resting, Filling, Staged, Capturing, Left
<1>2. /\ phy' = [phy EXCEPT !.sent = phy.sent + 1,
                           !.at = IF phy.sent + 1 = Len(phy.held) THEN "done" ELSE "stream"]
      /\ wired' = IF phy.sent + 1 = Len(phy.held) THEN Append(wired, phy.held) ELSE wired
  BY <1>1 DEF P!MacAccepts, Streaming
<1>3. TxTypes'
  <2> DEFINE at == IF phy.sent + 1 = Len(phy.held) THEN "done" ELSE "stream"
  <2>1. phy.sent + 1 \in Nat /\ at \in {"wait", "capture", "stream", "done"} /\ phy \in PhyStates
    BY DEF TxTypes, PhyStates
  <2>2. phy' = [phy EXCEPT !.sent = phy.sent + 1, !.at = at]
    BY <1>2
  <2> HIDE DEF at
  <2>3. phy' \in PhyStates
    BY <2>1, <2>2 DEF PhyStates
  <2> QED BY <2>3 DEF P!MacAccepts, TxTypes, TxFlags, PhyStates
<1>4. /\ Flags(TRUE, FALSE, TRUE)' /\ token' = "shown" /\ Owed' /\ Drained' /\ fifo' = <<>>
      /\ phy'.held = P!Whole(launched')
  BY <1>1, <1>2 DEF P!MacAccepts, Streaming, Flags, Unsent, Owed, Drained, TxTypes, TxFlags, PhyStates,
     P!Whole
<1>5. CASE phy.sent + 1 = Len(phy.held)
  <2>1. wired' = Append(Sent(launched - 1), P!Whole(launched)) /\ launched' = launched
    BY <1>1, <1>2, <1>5 DEF P!MacAccepts, Streaming, Unsent
  <2>2. launched \in Nat \ {0}
    BY <1>1 DEF Streaming, Unsent, Owed, TxTypes, TxFlags, PhyStates
  <2>3. wired' = Sent(launched')
    BY <2>1, <2>2, SentGrows
  <2>4. phy'.at = "done"
    BY <1>2, <1>5 DEF TxTypes, TxFlags, PhyStates
  <2>5. Left'
    BY <1>4, <2>3, <2>4 DEF Left
  <2> QED BY <1>3, <2>5 DEF Stages
<1>6. CASE phy.sent + 1 # Len(phy.held)
  <2>1. phy'.at = "stream" /\ Unsent'
    BY <1>1, <1>2, <1>6 DEF TxTypes, TxFlags, PhyStates, P!MacAccepts, Streaming, Unsent, Owed
  <2>2. Streaming'
    BY <1>4, <2>1 DEF Streaming
  <2> QED BY <1>3, <2>2 DEF Stages
<1> QED BY <1>5, <1>6

LEMMA AckKeeps ==
  ASSUME BytesAssumption, TxTypes, Stages, P!Ack PROVE TxTypes' /\ Stages'
<1>1. Left
  BY DEF P!Ack, Stages, Resting, Filling, Staged, Capturing, Streaming
<1>2. TxTypes'
  BY EmptySeq DEF P!Ack, TxTypes, TxFlags, PhyStates
<1>3. phy'.at = "wait" /\ token' = "acked"
  BY DEF P!Ack, TxTypes, TxFlags, PhyStates
<1>4. Left'
  BY <1>1, <1>3 DEF Left, P!Ack, Flags, Owed, Drained
<1> QED BY <1>2, <1>4 DEF Stages

LEMMA TxStart == ASSUME BytesAssumption, P!Init PROVE TxInv
<1>1. TxTypes
  BY EmptySeq DEF P!Init, TxTypes, TxFlags, PhyStates, BytesAssumption
<1>2. wired = Sent(launched)
  BY DEF P!Init, Sent
<1>3. Resting
  BY <1>2 DEF P!Init, Resting, Flags, Drained
<1> QED BY <1>1, <1>3 DEF TxInv, Stages

LEMMA TxStep == ASSUME BytesAssumption, TxInv, [P!TxNext]_(P!txVars) PROVE TxInv'
<1> SUFFICES ASSUME ~readFailed' PROVE TxTypes' /\ Stages'
  BY DEF TxInv
<1>1. ~readFailed
  BY DEF P!TxNext, P!TxGoing, P!Quiet, P!Launch, P!ReadByte, P!ByteOut, P!FrameReady, P!Ask,
     P!Complete, P!Cross, P!Start, P!Capture, P!MacAccepts, P!Ack, P!txVars
<1>2. TxTypes /\ Stages
  BY <1>1 DEF TxInv
<1>3. CASE P!Quiet \/ UNCHANGED P!txVars
  <2>1. TxTypes'
    BY <1>2, <1>3 DEF TxTypes, TxFlags, PhyStates, P!Quiet, P!txVars
  <2>2. Stages'
    BY <1>2, <1>3 DEF Stages, Resting, Filling, Staged, Capturing, Streaming, Left, Flags, Unsent,
       Owed, Drained, P!Quiet, P!txVars
  <2> QED BY <2>1, <2>2
<1> QED BY <1>2, <1>3, LaunchKeeps, ReadByteKeeps, ByteOutKeeps, FrameReadyKeeps, AskKeeps,
        CompleteKeeps, CrossKeeps, StartKeeps, CaptureKeeps, MacAcceptsKeeps, AckKeeps
        DEF P!TxNext, P!TxGoing

\* What the invariant says of the frames that have left.
LEMMA SentAreWhole == TxInv => P!FramesLeaveWhole
BY DEF TxInv, P!FramesLeaveWhole, Stages, Resting, Filling, Staged, Capturing, Streaming, Left,
   Unsent, Owed, Sent

\* Every frame the MAC accepts is one that was launched, whole and in order.
THEOREM FramesLeaveWholeAlways == ASSUME BytesAssumption PROVE P!TxSpec => []P!FramesLeaveWhole
<1>1. TxInv => P!FramesLeaveWhole
  BY SentAreWhole
<1>2. TxInv /\ [P!TxNext /\ UNCHANGED P!rxVars]_(P!vars) => TxInv'
  BY TxStep DEF P!vars
<1> QED BY <1>1, <1>2, TxStart, PTL DEF P!TxSpec

-----------------------------------------------------------------------------
(* The receive path, edge by edge, for any length of frames and capacity of  *)
(* buffers, while no byte is lost before the frame buffer: the invariant     *)
(* says which of arming, recording and moving a frame is under way, and what *)
(* page and buffer hold.                                                     *)

RxFlags == [busy : BOOLEAN, desc : BOOLEAN, issued : BOOLEAN, arm : BOOLEAN, start : BOOLEAN,
            release : BOOLEAN, comp : {"no", "ok", "err"}]
RxByte == [frame : Nat, at : Nat, end : {"no", "good", "bad"}]
Buffers == [armed : BOOLEAN, capture : BOOLEAN, drop : BOOLEAN, ready : BOOLEAN,
            stream : BOOLEAN, dropOut : BOOLEAN, bytes : Seq(RxByte), rd : Nat]
RxTypes ==
  /\ rx \in RxFlags /\ buf \in Buffers /\ wire \in [frame : Nat, at : Nat]
  /\ rxOn \in BOOLEAN /\ arming \in {"idle", "arm", "active"}
  /\ wdma \in {"idle", "taken", "resp"} /\ page \in Seq(RxByte) /\ reported \in Nat
  /\ reported < wire.frame

\* A descriptor is claimed, then issued to the write DMA, and at most one is.
OnePath ==
  /\ rx.issued <=> wdma # "idle"
  /\ ~(rx.desc /\ rx.issued)
  /\ rx.start => wdma = "taken" /\ page = <<>> /\ ~buf.stream
  /\ buf.stream => wdma = "taken"
  /\ rx.comp = "ok" => rx.release /\ ~rx.desc /\ ~rx.issued /\ ~rx.busy
\* Nothing is left of the last frame when the buffer is armed for the next.
Fresh == ~rx.desc /\ ~rx.issued /\ ~buf.ready /\ ~buf.stream /\ rx.comp # "ok"
ArmedIsFresh ==
  /\ rx.arm => Fresh /\ ~buf.armed /\ ~buf.dropOut /\ (rxOn => rx.busy)
  /\ buf.armed => Fresh /\ ~rx.arm /\ rx.busy /\ ~buf.dropOut
  /\ buf.capture => buf.armed

\* Consecutive bytes of one frame; the whole of one that the MAC called good
\* and that has not been reported yet.
Follow(s) ==
  \A i \in 1 .. Len(s) - 1 : s[i + 1].frame = s[i].frame /\ s[i + 1].at = s[i].at + 1
Frame(s, n) == s # <<>> /\ Follow(s) /\ (\A i \in 1 .. Len(s) : s[i].frame = n)
Finished(s) == s # <<>> /\ Follow(s) /\ s[Len(s)].end = "good"
               /\ s[1].frame > reported /\ s[1].frame < wire.frame
\* What the frame buffer holds while it records, and when it is ready.
Recording ==
  /\ buf.armed /\ ~buf.capture => buf.bytes = <<>> /\ ~buf.drop
  /\ buf.capture => /\ Frame(buf.bytes, wire.frame)
                    /\ IF buf.drop THEN Len(buf.bytes) >= Capacity
                                   ELSE buf.bytes[Len(buf.bytes)].at = wire.at
  /\ buf.ready => Finished(buf.bytes)

Live == rxOn /\ arming = "active"
\* What the page holds while a frame is moved and the receiver is not switched
\* off meanwhile.
Transfer ==
  Live /\ rx.comp = "no" =>
    /\ ~rx.release
    /\ rx.desc \/ rx.issued => buf.ready
    /\ wdma = "taken" /\ ~buf.stream => rx.start
    /\ buf.stream => buf.rd < Len(buf.bytes) /\ page = SubSeq(buf.bytes, 1, buf.rd)
    /\ wdma = "resp" => page = buf.bytes
\* What is reported is a frame, whole.
Told == P!Reporting => Finished(page)

\* The inductive invariant.
RxInv == RxTypes /\ OnePath /\ ArmedIsFresh /\ Recording /\ Transfer /\ Told

\* One edge of the clock, its inputs made visible.
Edge(go, st, byte) ==
  /\ st = "err" => P!Status(go)
  /\ rx' = P!RxEdge(go, st) /\ buf' = P!BufEdge(byte, go)
  /\ P!DmaEdge(go) /\ P!EngineEdge /\ P!Switch /\ wire' = P!WireAfter(byte)

LEMMA EachEdge ==
  ASSUME RxAssumption, P!RxNext
  PROVE  \E go \in BOOLEAN, st \in {"ok", "err"}, byte \in P!Bytes : Edge(go, st, byte)
<1>1. PICK go \in BOOLEAN, missed \in BOOLEAN, st \in {"ok", "err"}, byte \in P!Bytes :
        LET seen == IF missed THEN P!NoByte ELSE byte
        IN  /\ missed => Overruns /\ byte # P!NoByte
            /\ st = "err" => P!Status(go)
            /\ rx' = P!RxEdge(go, st) /\ buf' = P!BufEdge(seen, go)
            /\ P!DmaEdge(go) /\ P!EngineEdge /\ P!Switch /\ wire' = P!WireAfter(byte)
  BY DEF P!RxNext
<1>2. ~missed
  BY <1>1 DEF RxAssumption
<1>3. Edge(go, st, byte)
  BY <1>1, <1>2 DEF Edge
<1> QED BY <1>3

LEMMA ByteOnWire ==
  ASSUME RxTypes, NEW byte \in P!Bytes, wire' = P!WireAfter(byte)
  PROVE  /\ byte \in RxByte /\ wire' \in [frame : Nat, at : Nat] /\ wire'.frame >= wire.frame
         /\ byte = P!NoByte => wire' = wire
         /\ byte # P!NoByte =>
              /\ byte.frame = wire.frame /\ byte.at = wire.at + 1
              /\ IF byte.end = "no" THEN wire'.frame = wire.frame /\ wire'.at = byte.at
                                    ELSE wire'.frame = wire.frame + 1
<1>1. wire.frame \in Nat /\ wire.at \in Nat /\ wire \in [frame : Nat, at : Nat]
  BY DEF RxTypes
<1>2. CASE byte = P!NoByte
  BY <1>1, <1>2 DEF P!WireAfter, P!NoByte, RxByte
<1>3. CASE byte # P!NoByte
  <2>1. byte \in [frame : {wire.frame}, at : {wire.at + 1}, end : P!Ends]
    BY <1>3 DEF P!Bytes
  <2>2. P!Ends \subseteq {"no", "good", "bad"}
    BY DEF P!Ends
  <2>0. byte.frame = wire.frame /\ byte.at = wire.at + 1 /\ byte.end \in {"no", "good", "bad"}
    BY <2>1, <2>2
  <2>3. byte \in RxByte /\ byte.frame = wire.frame /\ byte.at = wire.at + 1
    BY <1>1, <2>0, <2>1 DEF RxByte
  <2>4. CASE byte.end = "no"
    <3>1. wire' = [wire EXCEPT !.at = wire.at + 1]
      BY <1>3, <2>4 DEF P!WireAfter
    <3> QED BY <1>1, <1>3, <2>3, <2>4, <3>1
  <2>5. CASE byte.end # "no"
    <3>1. wire' = [frame |-> wire.frame + 1, at |-> 0]
      BY <1>3, <2>5 DEF P!WireAfter
    <3> QED BY <1>1, <1>3, <2>3, <2>5, <3>1
  <2> QED BY <2>4, <2>5
<1> QED BY <1>2, <1>3

LEMMA SwitchOff ==
  ASSUME NEW d \in Buffers
  PROVE  IF rxOn \/ buf.stream THEN P!SwitchedOff(d) = d
         ELSE /\ P!SwitchedOff(d) \in Buffers
              /\ ~P!SwitchedOff(d).armed /\ ~P!SwitchedOff(d).capture /\ ~P!SwitchedOff(d).drop
              /\ ~P!SwitchedOff(d).ready /\ P!SwitchedOff(d).bytes = <<>>
              /\ P!SwitchedOff(d).dropOut = d.dropOut /\ P!SwitchedOff(d).stream = d.stream
<1>1. CASE rxOn \/ buf.stream
  BY <1>1 DEF P!SwitchedOff
<1>2. CASE ~(rxOn \/ buf.stream)
  <2> DEFINE e == P!SwitchedOff(d)
  <2>1. e = [d EXCEPT !.armed = FALSE, !.capture = FALSE, !.drop = FALSE, !.ready = FALSE,
                      !.rd = 0, !.bytes = <<>>]
    BY <1>2 DEF P!SwitchedOff
  <2>2. <<>> \in Seq(RxByte)
    BY EmptySeq
  <2> HIDE DEF e
  <2>3. /\ e \in Buffers /\ ~e.armed /\ ~e.capture /\ ~e.drop /\ ~e.ready /\ e.bytes = <<>>
        /\ e.dropOut = d.dropOut /\ e.stream = d.stream
    BY <2>1, <2>2 DEF Buffers
  <2> QED BY <1>2, <2>3 DEF e
<1> QED BY <1>1, <1>2

LEMMA ArmEdge ==
  ASSUME RxTypes, OnePath, ArmedIsFresh, rx.arm, NEW go \in BOOLEAN, NEW byte \in P!Bytes,
         buf' = P!BufEdge(byte, go)
  PROVE  /\ buf' \in Buffers /\ (buf'.armed <=> rxOn) /\ ~buf'.capture /\ ~buf'.drop
         /\ ~buf'.ready /\ ~buf'.stream /\ ~buf'.dropOut /\ buf'.bytes = <<>>
<1>1. /\ ~rx.start /\ ~buf.armed /\ ~buf.capture /\ ~buf.ready /\ ~buf.stream
      /\ buf \in Buffers /\ rxOn \in BOOLEAN
  BY DEF RxTypes, OnePath, ArmedIsFresh, Fresh
<1> DEFINE c == [buf EXCEPT !.dropOut = FALSE, !.armed = TRUE, !.drop = FALSE, !.bytes = <<>>]
<1>2. /\ c \in Buffers /\ c.armed = TRUE /\ c.drop = FALSE /\ c.bytes = <<>> /\ c.dropOut = FALSE
      /\ c.capture = buf.capture /\ c.ready = buf.ready /\ c.stream = buf.stream
  BY <1>1, EmptySeq DEF Buffers
<1>3. P!Recorded(byte) = c
  BY <1>1 DEF P!Recorded, P!ArmBuffer, Buffers
<1> HIDE DEF c
<1>4. P!Streamed(c, go) = c
  BY <1>1 DEF P!Streamed, P!BeatMoves
<1> DEFINE d == P!Released(c)
<1>5. /\ d \in Buffers /\ d.armed = TRUE /\ d.drop = FALSE /\ d.bytes = <<>> /\ d.dropOut = FALSE
      /\ ~d.capture /\ ~d.ready /\ ~d.stream
  BY <1>1, <1>2, EmptySeq DEF P!Released, Buffers
<1>6. buf' = P!SwitchedOff(d)
  BY <1>3, <1>4 DEF P!BufEdge
<1> HIDE DEF d
<1> QED BY <1>1, <1>5, <1>6, SwitchOff

LEMMA TakeEdge ==
  ASSUME RxAssumption, RxTypes, OnePath, ArmedIsFresh, buf.armed, rxOn,
         NEW go \in BOOLEAN, NEW byte \in RxByte, byte # P!NoByte, buf' = P!BufEdge(byte, go)
  PROVE  /\ buf' \in Buffers /\ ~buf'.stream
         /\ (buf'.armed <=> byte.end = "no") /\ (buf'.capture <=> byte.end = "no")
         /\ buf'.ready <=> (P!Good(byte) /\ ~rx.release)
         /\ byte.end = "no" => ~buf'.dropOut
         /\ buf'.drop <=> (buf.drop \/ ~P!Fits)
         /\ ~(P!Good(byte) /\ rx.release) =>
              buf'.bytes = IF P!Fits THEN Append(buf.bytes, byte) ELSE buf.bytes
<1>1. /\ ~rx.start /\ ~buf.ready /\ ~buf.stream /\ ~rx.arm /\ buf \in Buffers
  BY DEF RxTypes, OnePath, ArmedIsFresh, Fresh
<1> DEFINE more == byte.end = "no"
           whole == P!Good(byte)
          full == ~P!Fits
          bytes == IF P!Fits THEN Append(buf.bytes, byte) ELSE buf.bytes
          c == [buf EXCEPT !.dropOut = ~more /\ ~whole, !.bytes = bytes, !.drop = buf.drop \/ full,
                           !.armed = more, !.capture = more, !.ready = whole]
<1>2. bytes \in Seq(RxByte)
  BY <1>1, AppendProperties DEF Buffers
<1>3. more \in BOOLEAN /\ whole \in BOOLEAN /\ full \in BOOLEAN
  BY DEF P!Good, P!Fits
<1>4. P!Recorded(byte) = c
  BY <1>1 DEF P!Recorded, P!TakeByte, Buffers
<1>5. more => ~whole
  BY DEF P!Good
<1> HIDE DEF more, whole, full, bytes
<1>6. /\ c \in Buffers /\ c.dropOut = (~more /\ ~whole) /\ c.bytes = bytes
      /\ c.drop = (buf.drop \/ full) /\ c.armed = more /\ c.capture = more /\ c.ready = whole
      /\ c.stream = buf.stream
  BY <1>1, <1>2, <1>3 DEF Buffers
<1> HIDE DEF c
<1>7. P!Streamed(c, go) = c
  BY <1>1 DEF P!Streamed, P!BeatMoves
<1> DEFINE d == P!Released(c)
<1>8. buf' = d
  BY <1>4, <1>7 DEF P!BufEdge, P!SwitchedOff
<1>9. CASE ~rx.release
  <2>1. d = c
    BY <1>9 DEF P!Released
  <2> QED BY <1>1, <1>3, <1>5, <1>6, <1>8, <1>9, <2>1 DEF more, whole, full, bytes
<1>10. CASE rx.release
  <2>1. /\ d \in Buffers /\ d.armed = c.armed /\ d.capture = c.capture /\ d.drop = c.drop
        /\ d.dropOut = c.dropOut /\ d.ready = FALSE /\ d.stream = FALSE
        /\ ~c.ready => d.bytes = c.bytes
    BY <1>6, <1>10, EmptySeq DEF P!Released, Buffers
  <2> QED BY <1>3, <1>5, <1>6, <1>8, <1>10, <2>1 DEF more, whole, full, bytes
<1> QED BY <1>9, <1>10

LEMMA WaitEdge ==
  ASSUME RxTypes, OnePath, ArmedIsFresh, buf.armed, NEW go \in BOOLEAN, NEW byte \in P!Bytes,
         byte = P!NoByte \/ ~rxOn, buf' = P!BufEdge(byte, go)
  PROVE  /\ buf' \in Buffers /\ ~buf'.stream /\ ~buf'.ready /\ ~buf'.dropOut
         /\ (buf'.armed <=> rxOn) /\ (buf'.capture <=> rxOn /\ buf.capture)
         /\ rxOn => buf'.bytes = buf.bytes /\ buf'.drop = buf.drop
<1>1. /\ ~rx.start /\ ~buf.ready /\ ~buf.stream /\ ~rx.arm /\ buf \in Buffers /\ rxOn \in BOOLEAN
  BY DEF RxTypes, OnePath, ArmedIsFresh, Fresh
<1> DEFINE c == [buf EXCEPT !.dropOut = FALSE]
<1>2. /\ c \in Buffers /\ c.dropOut = FALSE /\ c.bytes = buf.bytes /\ c.drop = buf.drop
      /\ c.armed = buf.armed /\ c.capture = buf.capture /\ c.ready = buf.ready
      /\ c.stream = buf.stream
  BY <1>1 DEF Buffers
<1>3. P!Recorded(byte) = c
  BY <1>1 DEF P!Recorded, Buffers
<1> HIDE DEF c
<1>4. P!Streamed(c, go) = c
  BY <1>1 DEF P!Streamed, P!BeatMoves
<1> DEFINE d == P!Released(c)
<1>5. /\ d \in Buffers /\ d.dropOut = FALSE /\ d.bytes = buf.bytes /\ d.drop = buf.drop
      /\ d.armed = buf.armed /\ d.capture = buf.capture /\ ~d.ready /\ ~d.stream
  BY <1>1, <1>2 DEF P!Released, Buffers
<1>6. buf' = P!SwitchedOff(d)
  BY <1>3, <1>4 DEF P!BufEdge
<1> HIDE DEF d
<1> QED BY <1>1, <1>5, <1>6, SwitchOff

LEMMA QuietEdge ==
  ASSUME RxAssumption, RxTypes, OnePath, ArmedIsFresh, ~buf.armed, ~rx.arm,
         NEW go \in BOOLEAN, NEW byte \in P!Bytes, buf' = P!BufEdge(byte, go)
  PROVE  /\ buf' \in Buffers /\ ~buf'.armed /\ ~buf'.capture /\ ~buf'.dropOut
         /\ buf'.ready => buf.ready /\ ~rx.release /\ buf'.bytes = buf.bytes
         /\ buf'.stream => \/ rx.start
                           \/ buf.stream /\ ~(P!BeatMoves(go) /\ P!LastBeat)
         /\ rxOn /\ ~rx.release =>
              /\ buf'.ready = buf.ready /\ buf'.bytes = buf.bytes
              /\ rx.start /\ buf.ready => buf'.stream /\ buf'.rd = 0
              /\ buf.stream /\ ~P!BeatMoves(go) => buf'.stream /\ buf'.rd = buf.rd
              /\ P!BeatMoves(go) /\ ~P!LastBeat => buf'.stream /\ buf'.rd = buf.rd + BeatLen
<1>1. ~buf.capture /\ (rx.start => ~buf.stream) /\ buf \in Buffers /\ rxOn \in BOOLEAN
  BY DEF RxTypes, OnePath, ArmedIsFresh
<1> DEFINE c == [buf EXCEPT !.dropOut = FALSE]
<1>2. /\ c \in Buffers /\ c.dropOut = FALSE /\ c.bytes = buf.bytes /\ c.rd = buf.rd
      /\ ~c.armed /\ ~c.capture /\ c.ready = buf.ready /\ c.stream = buf.stream
  BY <1>1 DEF Buffers
<1>3. P!Recorded(byte) = c
  BY <1>1 DEF P!Recorded, Buffers
<1> HIDE DEF c
<1> DEFINE s == P!Streamed(c, go)
<1>4. /\ s \in Buffers /\ s.dropOut = FALSE /\ s.bytes = buf.bytes /\ ~s.armed /\ ~s.capture
      /\ s.ready = buf.ready
      /\ s.stream => \/ rx.start
                     \/ buf.stream /\ ~(P!BeatMoves(go) /\ P!LastBeat)
      /\ rx.start /\ buf.ready => s.stream /\ s.rd = 0
      /\ buf.stream /\ ~P!BeatMoves(go) => s.stream /\ s.rd = buf.rd
      /\ P!BeatMoves(go) /\ ~P!LastBeat => s.stream /\ s.rd = buf.rd + BeatLen
  <2>1. CASE rx.start /\ buf.ready /\ ~buf.stream
    <3>1. s = [c EXCEPT !.stream = TRUE, !.rd = 0]
      BY <2>1 DEF P!Streamed
    <3>2. ~P!BeatMoves(go)
      BY <2>1 DEF P!BeatMoves
    <3> HIDE DEF s
    <3> QED BY <1>2, <2>1, <3>1, <3>2 DEF Buffers
  <2>2. CASE ~(rx.start /\ buf.ready /\ ~buf.stream) /\ ~P!BeatMoves(go)
    <3>1. s = c
      BY <2>2 DEF P!Streamed
    <3> HIDE DEF s
    <3> QED BY <1>1, <1>2, <2>2, <3>1
  <2>3. CASE ~(rx.start /\ buf.ready /\ ~buf.stream) /\ P!BeatMoves(go) /\ P!LastBeat
    <3>1. s = [c EXCEPT !.stream = FALSE]
      BY <2>3 DEF P!Streamed
    <3> HIDE DEF s
    <3> QED BY <1>1, <1>2, <2>3, <3>1 DEF Buffers
  <2>4. CASE ~(rx.start /\ buf.ready /\ ~buf.stream) /\ P!BeatMoves(go) /\ ~P!LastBeat
    <3>1. s = [c EXCEPT !.rd = @ + BeatLen]
      BY <2>4 DEF P!Streamed
    <3>2. buf.stream /\ buf.rd + BeatLen \in Nat
      BY <1>1, <2>4 DEF P!BeatMoves, Buffers, RxAssumption
    <3> HIDE DEF s
    <3> QED BY <1>1, <1>2, <2>4, <3>1, <3>2 DEF Buffers
  <2> QED BY <2>1, <2>2, <2>3, <2>4
<1> HIDE DEF s
<1> DEFINE d == P!Released(s)
<1>5. buf' = P!SwitchedOff(d)
  BY <1>3 DEF P!BufEdge, s
<1>6. CASE rx.release
  <2>1. /\ d \in Buffers /\ d.dropOut = FALSE /\ ~d.armed /\ ~d.capture /\ ~d.ready /\ ~d.stream
    BY <1>4, <1>6, EmptySeq DEF P!Released, Buffers
  <2> HIDE DEF d
  <2> QED BY <1>5, <1>6, <2>1, SwitchOff
<1>7. CASE ~rx.release
  <2>1. d = s
    BY <1>7 DEF P!Released
  <2>2. CASE rxOn
    <3>1. buf' = s
      BY <1>5, <2>1, <2>2 DEF P!SwitchedOff
    <3> QED BY <1>4, <1>7, <3>1
  <2>3. CASE ~rxOn
    <3>1. \/ buf' = s
          \/ /\ buf' \in Buffers /\ ~buf'.armed /\ ~buf'.capture /\ ~buf'.dropOut
             /\ ~buf'.ready /\ buf'.stream = s.stream
      BY <1>4, <1>5, <2>1, SwitchOff
    <3> QED BY <1>4, <1>7, <2>3, <3>1
  <2> QED BY <2>2, <2>3
<1> QED BY <1>6, <1>7

LEMMA BufferTyped ==
  ASSUME RxAssumption, RxInv, NEW go \in BOOLEAN, NEW st \in {"ok", "err"},
         NEW byte \in P!Bytes, Edge(go, st, byte)
  PROVE  buf' \in Buffers
<1>1. RxTypes /\ OnePath /\ ArmedIsFresh /\ buf' = P!BufEdge(byte, go) /\ byte \in RxByte
  BY ByteOnWire DEF RxInv, Edge
<1>2. CASE rx.arm
  BY <1>1, <1>2, ArmEdge
<1>3. CASE buf.armed /\ rxOn /\ byte # P!NoByte
  BY <1>1, <1>3, TakeEdge
<1>4. CASE buf.armed /\ (byte = P!NoByte \/ ~rxOn)
  BY <1>1, <1>4, WaitEdge
<1>5. CASE ~buf.armed /\ ~rx.arm
  BY <1>1, <1>5, QuietEdge
<1> QED BY <1>2, <1>3, <1>4, <1>5

LEMMA BeatIsPart ==
  ASSUME RxAssumption, RxTypes
  PROVE  P!BeatBytes \in Seq(RxByte)
<1>1. /\ buf.bytes \in Seq(RxByte) /\ Len(buf.bytes) \in Nat /\ buf.rd \in Nat /\ BeatLen \in Nat \ {0}
  BY DEF RxTypes, Buffers, RxAssumption
<1> DEFINE last == IF P!LastBeat THEN Len(buf.bytes) ELSE buf.rd + BeatLen
<1>2. last \in Nat /\ last <= Len(buf.bytes)
  BY <1>1 DEF P!LastBeat
<1> HIDE DEF last
<1>3. \A i \in buf.rd + 1 .. last : buf.bytes[i] \in RxByte
  <2> SUFFICES ASSUME NEW i \in buf.rd + 1 .. last PROVE buf.bytes[i] \in RxByte
    OBVIOUS
  <2>1. i \in 1 .. Len(buf.bytes)
    BY <1>1, <1>2
  <2> QED BY <1>1, <2>1, ElementOfSeq
<1>4. SubSeq(buf.bytes, buf.rd + 1, last) \in Seq(RxByte)
  <2>1. buf.rd + 1 \in Int /\ last \in Int
    BY <1>1, <1>2
  <2> QED BY <1>3, <2>1, SubSeqProperties
<1> QED BY <1>4 DEF P!BeatBytes, last

LEMMA RxTypesKeep ==
  ASSUME RxAssumption, RxInv, NEW go \in BOOLEAN, NEW st \in {"ok", "err"},
         NEW byte \in P!Bytes, Edge(go, st, byte)
  PROVE  RxTypes'
<1>1. RxTypes /\ Told
  BY DEF RxInv
<1>2. buf' \in Buffers
  BY BufferTyped
<1>3. wire' \in [frame : Nat, at : Nat] /\ wire'.frame >= wire.frame
  BY <1>1, ByteOnWire DEF Edge
<1>4. rx' \in RxFlags
  <2>1. rx' = P!RxEdge(go, st)
    BY DEF Edge
  <2> QED BY <2>1 DEF P!RxEdge, RxFlags, P!Armed, P!Taken, P!Status, P!Cancel, P!Release
<1>5. rxOn' \in BOOLEAN /\ arming' \in {"idle", "arm", "active"}
  <2>1. rxOn' \in BOOLEAN
    BY DEF Edge, P!Switch
  <2>2. arming' \in {"idle", "arm", "active"}
    BY <1>1 DEF Edge, P!EngineEdge, RxTypes
  <2> QED BY <2>1, <2>2
<1>6. wdma' \in {"idle", "taken", "resp"}
  BY <1>1 DEF Edge, P!DmaEdge, RxTypes
<1>7. page' \in Seq(RxByte)
  <2>1. page \in Seq(RxByte) /\ P!BeatBytes \in Seq(RxByte) /\ <<>> \in Seq(RxByte)
    BY <1>1, BeatIsPart, EmptySeq DEF RxTypes
  <2>2. page \o P!BeatBytes \in Seq(RxByte)
    BY <2>1, ConcatProperties
  <2> QED BY <2>1, <2>2 DEF Edge, P!DmaEdge
<1>8. reported' \in Nat /\ reported' < wire'.frame
  <2>1. wire.frame \in Nat /\ wire'.frame \in Nat /\ reported \in Nat /\ reported < wire.frame
    BY <1>1, <1>3 DEF RxTypes
  <2>2. CASE P!Reporting
    <3>1. page # <<>> /\ page[1].frame < wire.frame
      BY <1>1, <2>2 DEF Told, Finished
    <3>2. page \in Seq(RxByte) /\ Len(page) \in Nat \ {0}
      BY <1>1, <3>1, EmptySeq DEF RxTypes
    <3>3. page[1] \in RxByte
      BY <3>2, ElementOfSeq
    <3>4. page[1].frame \in Nat
      BY <3>3 DEF RxByte
    <3>5. reported' = page[1].frame
      BY <2>2 DEF Edge, P!EngineEdge
    <3> QED BY <1>3, <2>1, <3>1, <3>4, <3>5
  <2>3. CASE ~P!Reporting
    BY <1>3, <2>1, <2>3 DEF Edge, P!EngineEdge
  <2> QED BY <2>2, <2>3
<1> QED BY <1>2, <1>3, <1>4, <1>5, <1>6, <1>7, <1>8 DEF RxTypes

LEMMA OnePathKeeps ==
  ASSUME RxAssumption, RxInv, NEW go \in BOOLEAN, NEW st \in {"ok", "err"},
         NEW byte \in P!Bytes, Edge(go, st, byte)
  PROVE  OnePath'
<1>1. /\ RxTypes /\ OnePath /\ ArmedIsFresh /\ rx' = P!RxEdge(go, st) /\ buf' = P!BufEdge(byte, go)
      /\ byte \in RxByte
  BY ByteOnWire DEF RxInv, Edge
<1>2. /\ rx'.issued <=> P!Taken(go) \/ (rx.issued /\ ~P!Status(go))
      /\ rx'.desc => \/ rx.desc /\ ~P!Taken(go)
                     \/ ~rx.desc /\ ~rx.issued
      /\ rx'.start <=> P!Taken(go)
      /\ rx'.comp = "ok" => P!Status(go)
      /\ P!Status(go) => rx'.release
      /\ rx'.busy => P!Armed \/ ~P!Status(go)
  BY <1>1 DEF P!RxEdge, P!Release
<1>3. /\ P!Taken(go) => rx.desc /\ wdma = "idle" /\ ~rx.issued
      /\ P!Status(go) => rx.issued /\ wdma = "resp" /\ ~rx.desc
      /\ P!BeatMoves(go) => buf.stream /\ wdma = "taken"
      /\ P!Armed => ~rx.issued
  BY <1>1 DEF P!Taken, P!Status, P!BeatMoves, P!Armed, P!ArmReady, OnePath
<1>4. /\ wdma' = IF P!Taken(go) THEN "taken" ELSE IF P!BeatMoves(go) /\ P!LastBeat THEN "resp"
                 ELSE IF wdma = "resp" /\ go THEN "idle" ELSE wdma
      /\ P!Taken(go) => page' = <<>>
  BY DEF Edge, P!DmaEdge
<1>5. buf'.stream => \/ rx.start
                     \/ buf.stream /\ ~(P!BeatMoves(go) /\ P!LastBeat)
  <2>1. CASE rx.arm
    BY <1>1, <2>1, ArmEdge
  <2>2. CASE buf.armed /\ rxOn /\ byte # P!NoByte
    BY <1>1, <2>2, TakeEdge
  <2>3. CASE buf.armed /\ (byte = P!NoByte \/ ~rxOn)
    BY <1>1, <2>3, WaitEdge
  <2>4. CASE ~buf.armed /\ ~rx.arm
    BY <1>1, <2>4, QuietEdge
  <2> QED BY <2>1, <2>2, <2>3, <2>4
<1>6. rx'.issued <=> wdma' # "idle"
  <2>1. P!Status(go) <=> wdma = "resp" /\ go
    BY <1>1 DEF P!Status, OnePath
  <2> QED BY <1>1, <1>2, <1>3, <1>4, <2>1 DEF OnePath, RxTypes
<1>7. ~(rx'.desc /\ rx'.issued)
  BY <1>1, <1>2, <1>3 DEF OnePath
<1>8. rx'.start => wdma' = "taken" /\ page' = <<>> /\ ~buf'.stream
  BY <1>1, <1>2, <1>3, <1>4, <1>5 DEF OnePath
<1>9. buf'.stream => wdma' = "taken"
  BY <1>1, <1>3, <1>4, <1>5 DEF OnePath
<1>10. rx'.comp = "ok" => rx'.release /\ ~rx'.desc /\ ~rx'.issued /\ ~rx'.busy
  BY <1>1, <1>2, <1>3 DEF OnePath
<1> QED BY <1>6, <1>7, <1>8, <1>9, <1>10 DEF OnePath

LEMMA NothingStarts ==
  ASSUME OnePath, Fresh, NEW go \in BOOLEAN, NEW st \in {"ok", "err"}, rx' = P!RxEdge(go, st)
  PROVE  ~rx'.desc /\ ~rx'.issued /\ rx'.comp # "ok" /\ ~P!Taken(go) /\ ~P!Status(go)
  BY DEF Fresh, P!RxEdge, P!Taken, P!Status

LEMMA ArmedIsFreshKeeps ==
  ASSUME RxAssumption, RxInv, NEW go \in BOOLEAN, NEW st \in {"ok", "err"},
         NEW byte \in P!Bytes, Edge(go, st, byte)
  PROVE  ArmedIsFresh'
<1>1. /\ RxTypes /\ OnePath /\ ArmedIsFresh /\ rx' = P!RxEdge(go, st) /\ buf' = P!BufEdge(byte, go)
      /\ byte \in RxByte
  BY ByteOnWire DEF RxInv, Edge
<1>2. rx'.arm <=> P!Armed
  BY <1>1 DEF P!RxEdge
<1>3. CASE rx.arm
  <2>1. Fresh /\ ~buf.dropOut /\ (rxOn => rx.busy)
    BY <1>1, <1>3 DEF ArmedIsFresh
  <2>2. ~rx'.desc /\ ~rx'.issued /\ rx'.comp # "ok" /\ ~P!Status(go)
    BY <1>1, <2>1, NothingStarts
  <2>3. /\ (buf'.armed <=> rxOn) /\ ~buf'.capture /\ ~buf'.ready /\ ~buf'.stream /\ ~buf'.dropOut
    BY <1>1, <1>3, ArmEdge
  <2>4. rxOn => ~P!Armed /\ rx'.busy
    BY <1>1, <2>1, <2>2 DEF P!RxEdge, P!Cancel, P!Armed, P!ArmReady
  <2>5. rx'.arm => ~rxOn'
    BY <1>2, <2>4 DEF Edge, P!Switch, P!Armed
  <2>6. Fresh'
    BY <2>2, <2>3 DEF Fresh
  <2> QED BY <1>2, <2>3, <2>4, <2>5, <2>6 DEF ArmedIsFresh
<1>4. CASE buf.armed
  <2>1. Fresh /\ ~buf.dropOut /\ rx.busy
    BY <1>1, <1>4 DEF ArmedIsFresh
  <2>2. ~rx'.desc /\ ~rx'.issued /\ rx'.comp # "ok" /\ ~P!Status(go)
    BY <1>1, <2>1, NothingStarts
  <2>3. ~rx'.arm
    BY <1>2, <2>1 DEF P!Armed, P!ArmReady
  <2>4. /\ ~buf'.stream
        /\ buf'.capture => buf'.armed
        /\ buf'.armed => rxOn /\ ~buf'.ready /\ ~buf'.dropOut
    <3>1. CASE rxOn /\ byte # P!NoByte
      BY <1>1, <1>4, <3>1, TakeEdge DEF RxInv, P!Good
    <3>2. CASE ~(rxOn /\ byte # P!NoByte)
      BY <1>1, <1>4, <3>2, WaitEdge
    <3> QED BY <3>1, <3>2
  <2>5. rxOn => rx'.busy
    BY <1>1, <2>1, <2>2 DEF P!RxEdge, P!Cancel
  <2> QED BY <2>2, <2>3, <2>4, <2>5 DEF ArmedIsFresh, Fresh
<1>5. CASE ~buf.armed /\ ~rx.arm
  <2>1. ~buf'.armed /\ ~buf'.capture /\ ~buf'.dropOut /\ (buf'.ready => buf.ready)
    BY <1>1, <1>5, QuietEdge
  <2>2. ASSUME rx'.arm
        PROVE  Fresh' /\ (rxOn' => rx'.busy)
    <3>1. P!Armed /\ ~rx.busy /\ ~rx.desc /\ ~rx.issued /\ ~buf.ready /\ arming = "arm"
      BY <1>2, <2>2 DEF P!Armed, P!ArmReady
    <3>2. ~P!Taken(go) /\ ~P!Status(go) /\ ~rx'.desc /\ ~rx'.issued /\ rx'.comp # "ok"
      BY <1>1, <3>1 DEF P!RxEdge, P!Taken, P!Status
    <3>3. ~buf'.stream
      BY <1>1, <1>5, <3>1, QuietEdge DEF OnePath
    <3>4. rxOn' => rxOn
      BY <3>1 DEF Edge, P!Switch
    <3>5. rxOn' => rx'.busy
      BY <1>1, <3>1, <3>4 DEF P!RxEdge, P!Cancel
    <3> QED BY <2>1, <3>1, <3>2, <3>3, <3>5 DEF Fresh
  <2> QED BY <2>1, <2>2 DEF ArmedIsFresh
<1> QED BY <1>3, <1>4, <1>5

LEMMA FrameGrows ==
  ASSUME NEW s \in Seq(RxByte), NEW e \in RxByte,
         s # <<>> => Frame(s, e.frame) /\ e.at = s[Len(s)].at + 1
  PROVE  /\ Append(s, e) \in Seq(RxByte) /\ Frame(Append(s, e), e.frame)
         /\ Append(s, e)[Len(Append(s, e))] = e
<1> DEFINE a == Append(s, e)
<1>1. /\ a \in Seq(RxByte) /\ a # <<>> /\ Len(a) = Len(s) + 1 /\ Len(s) \in Nat
      /\ \A i \in 1 .. Len(s) : a[i] = s[i]
      /\ a[Len(s) + 1] = e
  BY AppendProperties, LenProperties
<1> HIDE DEF a
<1>2. CASE s = <<>>
  <2>1. Len(a) = 1 /\ a[1] = e
    BY <1>1, <1>2, EmptySeq
  <2>2. a[Len(a)] = e
    BY <2>1
  <2>3. Frame(a, e.frame)
    BY <1>1, <2>1 DEF Frame, Follow
  <2> QED BY <1>1, <2>2, <2>3 DEF a
<1>3. CASE s # <<>>
  <2>1. /\ Len(s) \in Nat \ {0} /\ e.at = s[Len(s)].at + 1
        /\ \A i \in 1 .. Len(s) : s[i].frame = e.frame
        /\ \A i \in 1 .. Len(s) - 1 : s[i + 1].frame = s[i].frame /\ s[i + 1].at = s[i].at + 1
    BY <1>3, EmptySeq DEF Frame, Follow
  <2>2. ASSUME NEW i \in 1 .. Len(a) - 1
        PROVE  a[i + 1].frame = a[i].frame /\ a[i + 1].at = a[i].at + 1
    <3>1. i \in 1 .. Len(s) /\ a[i] = s[i]
      BY <1>1, <2>1, <2>2
    <3>2. CASE i = Len(s)
      <4>1. a[i + 1] = e /\ a[i] = s[Len(s)]
        BY <1>1, <3>1, <3>2
      <4>2. s[Len(s)].frame = e.frame
        BY <2>1
      <4> QED BY <2>1, <4>1, <4>2
    <3>3. CASE i # Len(s)
      <4>1. i \in 1 .. Len(s) - 1 /\ i + 1 \in 1 .. Len(s)
        BY <1>1, <3>1, <3>3
      <4>2. a[i + 1] = s[i + 1]
        BY <1>1, <4>1
      <4> QED BY <2>1, <3>1, <4>1, <4>2
    <3> QED BY <3>2, <3>3
  <2>3. ASSUME NEW i \in 1 .. Len(a) PROVE a[i].frame = e.frame
    <3>1. i \in 1 .. Len(s) \/ i = Len(s) + 1
      BY <1>1, <2>3
    <3> QED BY <1>1, <2>1, <3>1
  <2>4. Frame(a, e.frame)
    BY <1>1, <2>2, <2>3 DEF Frame, Follow
  <2>5. a[Len(a)] = e
    BY <1>1
  <2> QED BY <1>1, <2>4, <2>5 DEF a
<1> QED BY <1>2, <1>3

LEMMA FinishedStays ==
  ASSUME RxTypes, NEW s \in Seq(RxByte), Finished(s), reported' = reported,
         wire' \in [frame : Nat, at : Nat], wire'.frame >= wire.frame, NEW t, t = s
  PROVE  t # <<>> /\ Follow(t) /\ t[Len(t)].end = "good" /\ t[1].frame > reported'
           /\ t[1].frame < wire'.frame
<1>1. s # <<>> /\ Follow(s) /\ s[Len(s)].end = "good" /\ s[1].frame > reported
        /\ s[1].frame < wire.frame
  BY DEF Finished
<1>2. s[1].frame \in Nat
  <2>1. 1 \in 1 .. Len(s)
    BY <1>1, EmptySeq
  <2>2. s[1] \in RxByte
    BY <2>1, ElementOfSeq
  <2> QED BY <2>2 DEF RxByte
<1>3. wire.frame \in Nat /\ wire'.frame \in Nat
  BY DEF RxTypes
<1> QED BY <1>1, <1>2, <1>3

LEMMA TakingRecords ==
  ASSUME RxAssumption, RxInv, NEW go \in BOOLEAN, NEW st \in {"ok", "err"},
         NEW byte \in P!Bytes, Edge(go, st, byte),
         buf.armed, rxOn, byte # P!NoByte
  PROVE  Recording'
<1>1. /\ RxTypes /\ OnePath /\ ArmedIsFresh /\ Recording /\ buf' = P!BufEdge(byte, go)
      /\ wire' = P!WireAfter(byte)
  BY DEF RxInv, Edge
<1>2. /\ byte \in RxByte /\ byte.frame = wire.frame /\ byte.at = wire.at + 1
      /\ wire \in [frame : Nat, at : Nat] /\ wire' \in [frame : Nat, at : Nat]
      /\ IF byte.end = "no" THEN wire'.frame = wire.frame /\ wire'.at = byte.at
                            ELSE wire'.frame = wire.frame + 1
  BY <1>1, ByteOnWire DEF RxTypes
<1>3. /\ (buf'.armed <=> byte.end = "no") /\ (buf'.capture <=> byte.end = "no")
      /\ buf'.ready <=> (P!Good(byte) /\ ~rx.release)
      /\ buf'.drop <=> (buf.drop \/ ~P!Fits)
      /\ ~(P!Good(byte) /\ rx.release) =>
           buf'.bytes = IF P!Fits THEN Append(buf.bytes, byte) ELSE buf.bytes
  BY <1>1, <1>2, TakeEdge
<1>4. /\ buf.bytes \in Seq(RxByte) /\ Len(buf.bytes) \in Nat
      /\ buf.bytes = <<>> => ~buf.drop /\ Len(buf.bytes) = 0
      /\ buf.bytes # <<>> => /\ Frame(buf.bytes, wire.frame)
                            /\ IF buf.drop THEN Len(buf.bytes) >= Capacity
                                           ELSE buf.bytes[Len(buf.bytes)].at = wire.at
  <2>1. buf.bytes \in Seq(RxByte) /\ Len(buf.bytes) \in Nat
    BY <1>1 DEF RxTypes, Buffers
  <2>2. CASE buf.capture
    BY <1>1, <2>1, <2>2 DEF Recording, Frame
  <2>3. CASE ~buf.capture
    BY <1>1, <2>1, <2>3, EmptySeq DEF Recording
  <2> QED BY <2>2, <2>3
<1>5. CASE P!Fits
  <2>1. ~buf.drop
    BY <1>4, <1>5, EmptySeq DEF P!Fits, RxAssumption
  <2>2. buf.bytes # <<>> => Frame(buf.bytes, byte.frame) /\ byte.at = buf.bytes[Len(buf.bytes)].at + 1
    BY <1>2, <1>4, <2>1
  <2> DEFINE a == Append(buf.bytes, byte)
  <2>3. a \in Seq(RxByte) /\ Frame(a, byte.frame) /\ a[Len(a)] = byte
    BY <1>2, <1>4, <2>2, FrameGrows
  <2> HIDE DEF a
  <2>4. ~(P!Good(byte) /\ rx.release) => buf'.bytes = a
    BY <1>3, <1>5 DEF a
  <2>5. ASSUME buf'.capture
        PROVE  /\ Frame(buf'.bytes, wire'.frame)
               /\ ~buf'.drop /\ buf'.bytes[Len(buf'.bytes)].at = wire'.at
    <3>1. byte.end = "no" /\ ~P!Good(byte)
      BY <1>3, <2>5 DEF P!Good
    <3>2. buf'.bytes = a /\ ~buf'.drop /\ wire'.frame = byte.frame /\ wire'.at = byte.at
      BY <1>2, <1>3, <1>5, <2>1, <2>4, <3>1
    <3> QED BY <2>3, <3>2
  <2>6. ASSUME buf'.ready
        PROVE  Finished(buf.bytes)'
    <3>1. P!Good(byte) /\ ~rx.release
      BY <1>3, <2>6
    <3>2. buf'.bytes = a /\ byte.end = "good" /\ wire'.frame = wire.frame + 1
      BY <1>2, <2>4, <3>1 DEF P!Good
    <3>3. a # <<>> /\ Follow(a) /\ a[Len(a)].end = "good" /\ a[1].frame = wire.frame
      <4>1. a # <<>> /\ 1 \in 1 .. Len(a)
        BY <2>3, EmptySeq DEF Frame
      <4>2. a[1].frame = byte.frame
        BY <2>3, <4>1 DEF Frame
      <4> QED BY <1>2, <2>3, <3>2, <4>1, <4>2 DEF Frame
    <3>4. reported' = reported /\ reported < wire.frame /\ wire.frame \in Nat
      <4>1. ~P!Reporting
        BY <1>1 DEF P!Reporting, ArmedIsFresh, Fresh
      <4> QED BY <1>1, <4>1 DEF Edge, P!EngineEdge, RxTypes
    <3> QED BY <3>2, <3>3, <3>4 DEF Finished, Follow
  <2> QED BY <1>3, <2>5, <2>6 DEF Recording
<1>6. CASE ~P!Fits
  <2>1. ~P!Good(byte)
    BY <1>6 DEF P!Good
  <2>2. buf'.bytes = buf.bytes /\ buf'.drop /\ ~buf'.ready
    BY <1>3, <1>6, <2>1
  <2>3. Len(buf.bytes) >= Capacity /\ buf.bytes # <<>>
    BY <1>4, <1>6, EmptySeq DEF P!Fits, RxAssumption
  <2>4. buf'.capture => Frame(buf'.bytes, wire'.frame)
    BY <1>2, <1>3, <1>4, <2>2, <2>3
  <2> QED BY <1>3, <2>2, <2>3, <2>4 DEF Recording
<1> QED BY <1>5, <1>6

LEMMA RecordingKeeps ==
  ASSUME RxAssumption, RxInv, NEW go \in BOOLEAN, NEW st \in {"ok", "err"},
         NEW byte \in P!Bytes, Edge(go, st, byte)
  PROVE  Recording'
<1>1. /\ RxTypes /\ OnePath /\ ArmedIsFresh /\ Recording /\ buf' = P!BufEdge(byte, go)
      /\ wire' = P!WireAfter(byte)
  BY DEF RxInv, Edge
<1>2. /\ wire' \in [frame : Nat, at : Nat] /\ wire'.frame >= wire.frame
      /\ byte = P!NoByte => wire' = wire
  BY <1>1, ByteOnWire
<1>3. CASE rx.arm
  BY <1>1, <1>3, ArmEdge DEF Recording
<1>4. CASE buf.armed /\ rxOn /\ byte # P!NoByte
  BY <1>4, TakingRecords
<1>5. CASE buf.armed /\ ~(rxOn /\ byte # P!NoByte)
  <2>1. /\ ~buf'.ready /\ (buf'.armed <=> rxOn) /\ (buf'.capture <=> rxOn /\ buf.capture)
        /\ rxOn => buf'.bytes = buf.bytes /\ buf'.drop = buf.drop
    BY <1>1, <1>5, WaitEdge
  <2>2. rxOn => wire' = wire
    BY <1>2, <1>5
  <2> QED BY <1>1, <1>5, <2>1, <2>2 DEF Recording
<1>6. CASE ~buf.armed /\ ~rx.arm
  <2>1. /\ ~buf'.armed /\ ~buf'.capture
        /\ buf'.ready => buf.ready /\ ~rx.release /\ buf'.bytes = buf.bytes
    BY <1>1, <1>6, QuietEdge
  <2>2. ASSUME buf'.ready
        PROVE  Finished(buf.bytes)'
    <3>1. Finished(buf.bytes) /\ buf.bytes \in Seq(RxByte) /\ buf'.bytes = buf.bytes
      BY <1>1, <2>1, <2>2 DEF Recording, RxTypes, Buffers
    <3>2. rx.comp # "ok"
      BY <1>1, <2>1, <2>2 DEF OnePath
    <3>3. reported' = reported
      BY <3>2 DEF Edge, P!EngineEdge, P!Reporting
    <3>4. /\ buf'.bytes # <<>> /\ Follow(buf'.bytes) /\ buf'.bytes[Len(buf'.bytes)].end = "good"
          /\ buf'.bytes[1].frame > reported' /\ buf'.bytes[1].frame < wire'.frame
      BY <1>1, <1>2, <3>1, <3>3, FinishedStays
    <3> QED BY <3>4 DEF Finished, Follow
  <2> QED BY <2>1, <2>2 DEF Recording
<1> QED BY <1>3, <1>4, <1>5, <1>6

LEMMA LiveWas ==
  ASSUME RxAssumption, RxInv, NEW go \in BOOLEAN, NEW st \in {"ok", "err"},
         NEW byte \in P!Bytes, Edge(go, st, byte), Live'
  PROVE  \/ P!Armed /\ rxOn
         \/ Live /\ rx.comp = "no"
<1>1. rxOn' /\ arming' = "active" /\ arming \in {"idle", "arm", "active"}
  BY DEF Live, RxInv, RxTypes
<1>2. CASE arming = "idle"
  BY <1>1, <1>2 DEF Edge, P!EngineEdge
<1>3. CASE arming = "arm"
  BY <1>1, <1>3 DEF Edge, P!EngineEdge, P!Armed
<1>4. CASE arming = "active"
  <2>1. rx.comp = "no"
    BY <1>1, <1>4 DEF Edge, P!EngineEdge
  <2>2. rxOn
    BY <1>1, <1>4 DEF Edge, P!Switch
  <2> QED BY <1>4, <2>1, <2>2 DEF Live
<1> QED BY <1>1, <1>2, <1>3, <1>4

LEMMA PageGrows ==
  ASSUME RxAssumption, RxTypes, Recording, buf.ready, buf.rd < Len(buf.bytes),
         page = SubSeq(buf.bytes, 1, buf.rd)
  PROVE  page \o P!BeatBytes = IF P!LastBeat THEN buf.bytes ELSE SubSeq(buf.bytes, 1, buf.rd + BeatLen)
<1>1. /\ buf.bytes \in Seq(RxByte) /\ Len(buf.bytes) \in Nat \ {0} /\ buf.rd \in Nat
           /\ BeatLen \in Nat \ {0}
  <2>1. buf.bytes # <<>>
    BY DEF Recording, Finished
  <2> QED BY <2>1, EmptySeq DEF RxTypes, Buffers, RxAssumption
<1> DEFINE last == IF P!LastBeat THEN Len(buf.bytes) ELSE buf.rd + BeatLen
<1>2. last \in buf.rd .. Len(buf.bytes) /\ 1 \in 1 .. Len(buf.bytes) + 1
        /\ buf.rd \in 1 - 1 .. Len(buf.bytes)
  BY <1>1 DEF P!LastBeat
<1>3. P!BeatBytes = SubSeq(buf.bytes, buf.rd + 1, last)
  BY DEF P!BeatBytes
<1>4. last = IF P!LastBeat THEN Len(buf.bytes) ELSE buf.rd + BeatLen
  OBVIOUS
<1> HIDE DEF last
<1>5. SubSeq(buf.bytes, 1, buf.rd) \o SubSeq(buf.bytes, buf.rd + 1, last) = SubSeq(buf.bytes, 1, last)
  BY <1>1, <1>2, ConcatAdjacentSubSeq
<1>6. SubSeq(buf.bytes, 1, Len(buf.bytes)) = buf.bytes
  BY <1>1, SubSeqFull
<1> QED BY <1>3, <1>4, <1>5, <1>6

LEMMA TransferKeeps ==
  ASSUME RxAssumption, RxInv, NEW go \in BOOLEAN, NEW st \in {"ok", "err"},
         NEW byte \in P!Bytes, Edge(go, st, byte)
  PROVE  Transfer'
<1> SUFFICES ASSUME Live', rx'.comp = "no"
             PROVE  /\ ~rx'.release
                    /\ rx'.desc \/ rx'.issued => buf'.ready
                    /\ wdma' = "taken" /\ ~buf'.stream => rx'.start
                    /\ buf'.stream => /\ buf'.rd < Len(buf'.bytes)
                                      /\ page' = SubSeq(buf'.bytes, 1, buf'.rd)
                    /\ wdma' = "resp" => page' = buf'.bytes
  BY DEF Transfer
<1>1. /\ RxTypes /\ OnePath /\ ArmedIsFresh /\ Recording /\ Transfer /\ OnePath'
      /\ rx' = P!RxEdge(go, st) /\ buf' = P!BufEdge(byte, go)
  BY OnePathKeeps DEF RxInv, Edge
<1>2. CASE P!Armed /\ rxOn
  <2>1. ~rx.busy /\ ~rx.desc /\ ~rx.issued
    BY <1>2 DEF P!Armed, P!ArmReady
  <2>2. ~rx'.release /\ ~rx'.desc /\ ~rx'.issued
    BY <1>1, <1>2, <2>1 DEF P!RxEdge, P!Release, P!Cancel, P!Status, P!Taken
  <2>3. wdma' # "taken" /\ wdma' # "resp" /\ ~buf'.stream
    BY <1>1, <2>2 DEF OnePath
  <2> QED BY <2>2, <2>3
<1>3. CASE Live /\ rx.comp = "no"
  <2>1. rxOn /\ ~rx.release
    BY <1>1, <1>3 DEF Live, Transfer
  <2>2. /\ rx.desc \/ rx.issued => buf.ready
        /\ wdma = "taken" /\ ~buf.stream => rx.start
        /\ buf.stream => buf.rd < Len(buf.bytes) /\ page = SubSeq(buf.bytes, 1, buf.rd)
        /\ wdma = "resp" => page = buf.bytes
    BY <1>1, <1>3 DEF Transfer
  <2>3. /\ ~P!Status(go)
        /\ ~rx'.release
        /\ rx'.desc => buf.ready
        /\ rx'.issued => buf.ready
        /\ rx'.start <=> P!Taken(go)
    BY <1>1, <2>1, <2>2 DEF P!RxEdge, P!Release, P!Cancel, P!Taken
  <2>4. /\ P!Taken(go) => rx.desc /\ wdma = "idle"
        /\ P!BeatMoves(go) => buf.stream /\ wdma = "taken" /\ ~P!Taken(go)
    BY DEF P!Taken, P!BeatMoves
  <2>5. /\ wdma' = IF P!Taken(go) THEN "taken" ELSE IF P!BeatMoves(go) /\ P!LastBeat THEN "resp"
                   ELSE IF wdma = "resp" /\ go THEN "idle" ELSE wdma
        /\ page' = IF P!Taken(go) THEN <<>> ELSE IF P!BeatMoves(go) THEN page \o P!BeatBytes ELSE page
    BY DEF Edge, P!DmaEdge
  <2>6. CASE ~buf.ready
    <3>1. ~rx'.desc /\ ~rx'.issued
      BY <2>3, <2>6
    <3>2. wdma' # "taken" /\ wdma' # "resp" /\ ~buf'.stream
      BY <1>1, <3>1 DEF OnePath
    <3> QED BY <2>3, <3>1, <3>2
  <2>7. CASE buf.ready
    <3>1. ~buf.armed /\ ~rx.arm
      BY <1>1, <2>7 DEF ArmedIsFresh, Fresh
    <3>2. /\ buf'.ready = buf.ready /\ buf'.bytes = buf.bytes
          /\ rx.start /\ buf.ready => buf'.stream /\ buf'.rd = 0
          /\ buf.stream /\ ~P!BeatMoves(go) => buf'.stream /\ buf'.rd = buf.rd
          /\ P!BeatMoves(go) /\ ~P!LastBeat => buf'.stream /\ buf'.rd = buf.rd + BeatLen
      BY <1>1, <2>1, <3>1, QuietEdge
    <3>3. buf'.stream => \/ rx.start
                         \/ buf.stream /\ ~(P!BeatMoves(go) /\ P!LastBeat)
      BY <1>1, <3>1, QuietEdge
    <3>4. /\ buf.bytes \in Seq(RxByte) /\ Len(buf.bytes) \in Nat \ {0} /\ buf.rd \in Nat
      <4>1. buf.bytes # <<>>
        BY <1>1, <2>7 DEF Recording, Finished
      <4> QED BY <1>1, <4>1, EmptySeq DEF RxTypes, Buffers
    <3>5. buf.stream => page \o P!BeatBytes = IF P!LastBeat THEN buf.bytes
                                             ELSE SubSeq(buf.bytes, 1, buf.rd + BeatLen)
      BY <1>1, <2>2, <2>7, PageGrows
    <3>6. ASSUME wdma' = "taken", ~buf'.stream
          PROVE  rx'.start
      <4> SUFFICES ASSUME ~P!Taken(go) PROVE FALSE
        BY <2>3
      <4>1. wdma = "taken" /\ ~(P!BeatMoves(go) /\ P!LastBeat)
        BY <2>5, <3>6
      <4>2. CASE buf.stream
        BY <3>2, <3>6, <4>1, <4>2
      <4>3. CASE ~buf.stream
        BY <2>2, <2>7, <3>2, <3>6, <4>1, <4>3
      <4> QED BY <4>2, <4>3
    <3>7. ASSUME buf'.stream
          PROVE  buf'.rd < Len(buf'.bytes) /\ page' = SubSeq(buf'.bytes, 1, buf'.rd)
      <4>1. CASE rx.start
        <5>1. page = <<>> /\ wdma = "taken" /\ ~buf.stream
          BY <1>1, <4>1 DEF OnePath
        <5>2. page' = <<>> /\ buf'.rd = 0
          BY <2>4, <2>5, <2>7, <3>2, <4>1, <5>1
        <5>3. SubSeq(buf.bytes, 1, 0) = <<>>
          BY SubSeqEmpty
        <5> QED BY <3>2, <3>4, <5>2, <5>3
      <4>2. CASE buf.stream /\ P!BeatMoves(go) /\ ~P!LastBeat
        <5>1. page' = SubSeq(buf.bytes, 1, buf.rd + BeatLen) /\ buf'.rd = buf.rd + BeatLen
          BY <2>4, <2>5, <3>2, <3>5, <4>2
        <5>2. buf.rd + BeatLen < Len(buf.bytes)
          BY <3>4, <4>2 DEF P!LastBeat, RxAssumption
        <5> QED BY <3>2, <5>1, <5>2
      <4>3. CASE buf.stream /\ ~P!BeatMoves(go)
        <5>1. ~P!Taken(go)
          BY <1>1, <2>4, <4>3 DEF OnePath
        <5> QED BY <2>2, <2>5, <3>2, <4>3, <5>1
      <4> QED BY <3>3, <3>7, <4>1, <4>2, <4>3
    <3>8. ASSUME wdma' = "resp"
          PROVE  page' = buf'.bytes
      <4>1. CASE P!BeatMoves(go) /\ P!LastBeat
        BY <2>4, <2>5, <3>2, <3>5, <4>1
      <4>2. CASE ~(P!BeatMoves(go) /\ P!LastBeat)
        <5>1. wdma = "resp" /\ ~P!Taken(go) /\ ~P!BeatMoves(go)
          BY <2>4, <2>5, <3>8, <4>2
        <5> QED BY <2>2, <2>5, <3>2, <5>1
      <4> QED BY <4>1, <4>2
    <3> QED BY <2>3, <2>7, <3>2, <3>6, <3>7, <3>8
  <2> QED BY <2>6, <2>7
<1> QED BY <1>2, <1>3, LiveWas

LEMMA ToldKeeps ==
  ASSUME RxAssumption, RxInv, NEW go \in BOOLEAN, NEW st \in {"ok", "err"},
         NEW byte \in P!Bytes, Edge(go, st, byte)
  PROVE  Told'
<1> SUFFICES ASSUME P!Reporting' PROVE Finished(page)'
  BY DEF Told
<1>1. /\ RxTypes /\ OnePath /\ Recording /\ Transfer /\ rx' = P!RxEdge(go, st)
      /\ wire' = P!WireAfter(byte)
  BY DEF RxInv, Edge
<1>2. Live' /\ P!Status(go)
  BY <1>1 DEF P!Reporting, Live, P!RxEdge
<1>3. rx.issued /\ wdma = "resp"
  BY <1>2 DEF P!Status
<1>4. Live /\ rx.comp = "no"
  BY <1>2, <1>3, LiveWas DEF P!Armed, P!ArmReady
<1>5. Finished(buf.bytes) /\ page = buf.bytes
  BY <1>1, <1>3, <1>4 DEF Transfer, Recording
<1>6. page' = page
  BY <1>3 DEF Edge, P!DmaEdge, P!Taken, P!BeatMoves
<1>7. reported' = reported
  BY <1>4 DEF Edge, P!EngineEdge, P!Reporting
<1>8. /\ wire' \in [frame : Nat, at : Nat] /\ wire'.frame >= wire.frame
      /\ page \in Seq(RxByte)
  BY <1>1, ByteOnWire DEF RxTypes
<1>9. /\ page' # <<>> /\ Follow(page') /\ page'[Len(page')].end = "good"
      /\ page'[1].frame > reported' /\ page'[1].frame < wire'.frame
  BY <1>1, <1>5, <1>6, <1>7, <1>8, FinishedStays
<1> QED BY <1>9 DEF Finished, Follow

LEMMA RxStart == ASSUME P!Init PROVE RxInv
<1>1. <<>> \in Seq(RxByte)
  BY EmptySeq
<1>2. RxTypes
  <2>1. rx \in RxFlags
    BY DEF P!Init, RxFlags
  <2>2. buf \in Buffers
    BY <1>1 DEF P!Init, Buffers
  <2>3. wire \in [frame : Nat, at : Nat] /\ reported \in Nat /\ reported < wire.frame
    BY DEF P!Init
  <2>4. rxOn \in BOOLEAN /\ arming \in {"idle", "arm", "active"}
        /\ wdma \in {"idle", "taken", "resp"} /\ page \in Seq(RxByte)
    BY <1>1 DEF P!Init
  <2> QED BY <2>1, <2>2, <2>3, <2>4 DEF RxTypes
<1> QED BY <1>2 DEF P!Init, RxInv, OnePath, ArmedIsFresh, Recording, Transfer, Told, P!Reporting, Live

LEMMA RxStep == ASSUME RxAssumption, RxInv, [P!RxNext]_(P!rxVars) PROVE RxInv'
<1>1. CASE UNCHANGED P!rxVars
  BY <1>1 DEF P!rxVars, RxInv, RxTypes, OnePath, ArmedIsFresh, Fresh, Recording, Finished, Frame,
     Follow, Transfer, Live, Told, P!Reporting
<1>2. CASE P!RxNext
  <2>1. PICK go \in BOOLEAN, st \in {"ok", "err"}, byte \in P!Bytes : Edge(go, st, byte)
    BY <1>2, EachEdge
  <2> QED BY <2>1, RxTypesKeep, OnePathKeeps, ArmedIsFreshKeeps, RecordingKeeps, TransferKeeps,
             ToldKeeps DEF RxInv
<1> QED BY <1>1, <1>2

\* What the invariant says of the frame being reported.
LEMMA ReportedIsOne == RxInv => P!OneFrame
BY DEF RxInv, Told, Finished, Follow, P!OneFrame

\* A frame reported as received is the one in the page, whole and not reported
\* before.
THEOREM OneFrameAlways == ASSUME RxAssumption PROVE P!RxSpec => []P!OneFrame
<1>1. RxInv => P!OneFrame
  BY ReportedIsOne
<1>2. RxInv /\ [P!RxNext /\ UNCHANGED P!txVars]_(P!vars) => RxInv'
  BY RxStep DEF P!vars
<1> QED BY <1>1, <1>2, RxStart, PTL DEF P!RxSpec

-----------------------------------------------------------------------------
(* The run's specification, in which any of the parts may be the one that    *)
(* steps, implements the specification of each of them.                      *)

\* Both payload paths at once: they share no state, and step in any order.
PayloadNext == (P!TxNext /\ UNCHANGED P!rxVars) \/ (P!RxNext /\ UNCHANGED P!txVars)
PayloadSpec == P!Init /\ [][PayloadNext]_(P!vars)

\* Every frame is whole on both paths, whichever moves.
THEOREM PayloadAlways ==
  ASSUME BytesAssumption, RxAssumption
  PROVE  PayloadSpec => [](P!FramesLeaveWhole /\ P!OneFrame)
<1>1. P!Init => TxInv /\ RxInv
  BY TxStart, RxStart
<1>2. TxInv /\ RxInv /\ [PayloadNext]_(P!vars) => TxInv' /\ RxInv'
  <2> SUFFICES ASSUME TxInv, RxInv, [PayloadNext]_(P!vars) PROVE TxInv' /\ RxInv'
    OBVIOUS
  <2>1. [P!TxNext]_(P!txVars) /\ [P!RxNext]_(P!rxVars)
    BY DEF PayloadNext, P!vars
  <2> QED BY <2>1, TxStep, RxStep
<1>3. TxInv => P!FramesLeaveWhole
  BY SentAreWhole
<1>4. RxInv => P!OneFrame
  BY ReportedIsOne
<1> QED BY <1>1, <1>2, <1>3, <1>4, PTL DEF PayloadSpec

\* What the parts' steps are in terms of all variables.
LEMMA PartsStep ==
  ASSUME [DevicesNext]_devicesVars
  PROVE  /\ [Next]_vars /\ [C!Next]_(C!vars) /\ [L!Next]_(L!vars)
         /\ [A!Next]_(A!vars) /\ [PayloadNext]_(P!vars)
<1>1. CASE UNCHANGED devicesVars
  BY <1>1 DEF devicesVars, pVars, cVars, lVars, aVars, eVars, txVars, rxVars, vars, controller, registers,
     C!vars, L!vars, A!vars, A!masterVars, A!toBridge, A!bridgeVars, P!vars, P!txVars, P!rxVars
<1>2. CASE DevicesNext
  <2>0. L!Next \/ UNCHANGED lVars
    BY <1>2 DEF DevicesNext
  <2>1. Next \/ UNCHANGED pVars
    BY <1>2 DEF DevicesNext
  <2>2. C!Next \/ UNCHANGED cVars
    BY <1>2 DEF DevicesNext
  <2>3. A!Next \/ UNCHANGED aVars
    BY <1>2 DEF DevicesNext
  <2>4. (P!TxNext /\ UNCHANGED rxVars) \/ (P!RxNext /\ UNCHANGED txVars) \/ UNCHANGED eVars
    BY <1>2 DEF DevicesNext
  <2>5. [Next]_vars
    BY <2>1 DEF pVars, vars, controller, registers
  <2>6. [C!Next]_(C!vars)
    BY <2>2 DEF cVars, C!vars
  <2>7. [A!Next]_(A!vars)
    BY <2>3 DEF aVars, A!vars, A!masterVars, A!toBridge, A!bridgeVars
  <2>8. [PayloadNext]_(P!vars)
    BY <2>4 DEF PayloadNext, eVars, txVars, rxVars, P!vars, P!txVars, P!rxVars
  <2>9. [L!Next]_(L!vars)
    BY <2>0 DEF lVars, L!vars
  <2> QED BY <2>5, <2>6, <2>7, <2>8, <2>9
<1> QED BY <1>1, <1>2

\* The composition keeps the promise of every part.
THEOREM Parts == DevicesSpec => Spec /\ C!Spec /\ L!Spec /\ A!Spec /\ PayloadSpec
<1>1. DevicesInit => Init /\ C!Init /\ L!Init /\ A!Init /\ P!Init
  BY DEF DevicesInit
<1>2. [DevicesNext]_devicesVars
      => /\ [Next]_vars /\ [C!Next]_(C!vars) /\ [L!Next]_(L!vars)
         /\ [A!Next]_(A!vars) /\ [PayloadNext]_(P!vars)
  BY PartsStep
<1>3. DevicesSpec => DevicesInit /\ [][DevicesNext]_devicesVars
  BY PTL DEF DevicesSpec
<1> QED BY <1>1, <1>2, <1>3, PTL DEF Spec, C!Spec, L!Spec, A!Spec, PayloadSpec

\* A compare value in the making is never earlier than the old and the new one,
\* and a read returns a time of the call (eriscv_mcu_clint_set_mtimecmp,
\* eriscv_mcu_clint_read_mtime).
THEOREM TimerCallsAlways == DevicesSpec => []TimerCalls
BY Parts, ClintAlways, DevicesAssumption, PTL

\* What the caches are told of a line is what memory did, whatever the subordinate
\* does to the burst (cache_axi4_line_adapter.sv).
THEOREM ImplementsLinePortAlways == DevicesSpec => ImplementsLinePort
<1>1. L!Spec => L!ImplementsLinePort
  BY LineAlways, DevicesAssumption
<1> QED BY <1>1, Parts, PTL DEF ImplementsLinePort

\* A store reaches its words once, an error is reported to the hart, and a frame
\* reported sent or received is one, whole.
THEOREM TransfersAreWholeAlways == DevicesSpec => []TransfersAreWhole
<1>1. TransfersAreWhole <=> /\ A!StoreReachesItsWords /\ A!ErrorIsReported
                            /\ P!FramesLeaveWhole /\ P!OneFrame
  BY DEF TransfersAreWhole
<1>2. A!Spec => [](A!StoreReachesItsWords /\ A!ErrorIsReported)
  BY BridgeAlways, DevicesAssumption
<1>3. PayloadSpec => [](P!FramesLeaveWhole /\ P!OneFrame)
  BY PayloadAlways, DevicesAssumption
<1> QED BY <1>1, <1>2, <1>3, Parts, PTL
=============================================================================
