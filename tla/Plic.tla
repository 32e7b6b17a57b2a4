-------------------------------- MODULE Plic --------------------------------
(***************************************************************************)
(* The interrupt controller (rtl/soc/peripherals/plic.sv), level-triggered *)
(* devices, and the external-interrupt handlers of the M and the S context *)
(* of one hart (sw/lib/trap.c, machine_external_irq_handler): claim,       *)
(* service, complete.  One step is one clock edge of the controller with   *)
(* at most one APB access on it.  The M handler preempts the S handler.    *)
(***************************************************************************)
EXTENDS Integers, FiniteSets

CONSTANTS
  Sources,    \* source IDs, positive
  MaxPriority,
  Prio,       \* the priorities software has programmed (priority_q)
  MaxWrites   \* bound: writes of enable and threshold registers after the start

Context == {0, 1}        \* 0 is M, 1 is S
Level == 0 .. MaxPriority

ASSUME SourcesAssumption == Sources \subseteq Nat \ {0} /\ IsFiniteSet(Sources)
ASSUME PriorityAssumption ==
  /\ MaxPriority \in Nat /\ Prio \in [Sources -> Level] /\ MaxWrites \in Nat

VARIABLES
  src,                    \* src_i: the level each device drives
  pending, inService,     \* pending_q, in_service_q as sets
  enable, threshold,      \* enable_q, threshold_q
  handler,                \* per context: "idle", "trap", "service", "complete"
  claimed,                \* per context: the ID its claim read returned
  writes

controller == <<pending, inService>>
registers == <<enable, threshold, writes>>
vars == <<src, controller, registers, handler, claimed>>

Init ==
  /\ src = [s \in Sources |-> FALSE]
  /\ pending = {} /\ inService = {}
  /\ enable \in [Context -> {Sources}] /\ threshold = [c \in Context |-> 0]
  /\ handler = [c \in Context |-> "idle"] /\ claimed = [c \in Context |-> 0]
  /\ writes = 0

-----------------------------------------------------------------------------
Candidate(c) ==
  {s \in (pending \cap enable[c]) \ inService : Prio[s] > threshold[c]}

\* highest_id: highest priority first, then the lowest ID; 0 when there is none.
HighestId(c) ==
  IF Candidate(c) = {} THEN 0
  ELSE CHOOSE s \in Candidate(c) :
         \A t \in Candidate(c) : Prio[s] > Prio[t] \/ (Prio[s] = Prio[t] /\ s <= t)

Interrupt(c) == HighestId(c) # 0      \* meip_o, seip_o

\* pending_d before the access of this edge: a level is recorded unless its
\* source is being served.  Mutant: it is recorded then as well.
LatchedAlways == pending \cup {s \in Sources : src[s]}
Latched == pending \cup {s \in Sources \ inService : src[s]}

-----------------------------------------------------------------------------
\* An edge without an access; a device may raise its line before the next one.
Tick ==
  /\ pending' = Latched
  /\ UNCHANGED <<src, inService, registers, handler, claimed>>

Raise(s) ==
  /\ ~src[s] /\ src' = [src EXCEPT ![s] = TRUE]
  /\ UNCHANGED <<controller, registers, handler, claimed>>

\* The S handler runs only while no M handler is active.
Running(c) == c = 0 \/ handler[0] = "idle"

Trap(c) ==
  /\ Running(c) /\ handler[c] = "idle" /\ Interrupt(c)
  /\ handler' = [handler EXCEPT ![c] = "trap"]
  /\ pending' = Latched
  /\ UNCHANGED <<src, inService, registers, claimed>>

\* in_service_d after a claim.  Mutant: an empty claim is recorded as well.
ServedAny(id) == inService \cup {id}
Served(id) == IF id = 0 THEN inService ELSE inService \cup {id}

\* A read of the claim register.  The handler returns at once when it yields 0.
Claim(c) ==
  /\ Running(c) /\ handler[c] = "trap"
  /\ LET id == HighestId(c) IN
     /\ pending' = Latched \ {id}
     /\ inService' = Served(id)
     /\ claimed' = [claimed EXCEPT ![c] = id]
     /\ handler' = [handler EXCEPT ![c] = IF id = 0 THEN "idle" ELSE "service"]
  /\ UNCHANGED <<src, registers>>

\* The driver's handler answers the device, which lowers its line.
Service(c) ==
  /\ Running(c) /\ handler[c] = "service"
  /\ src' = [src EXCEPT ![claimed[c]] = FALSE]
  /\ handler' = [handler EXCEPT ![c] = "complete"]
  /\ pending' = Latched
  /\ UNCHANGED <<inService, registers, claimed>>

\* A write of the claim register.  Mutants: it leaves the source in service,
\* or closes the source of the other context as well.
CompletedAll(id) == {}
CompletedNever(id) == inService
Completed(id) == inService \ {id}

Complete(c) ==
  /\ Running(c) /\ handler[c] = "complete"
  /\ inService' = Completed(claimed[c])
  /\ pending' = Latched
  /\ handler' = [handler EXCEPT ![c] = "idle"]
  /\ claimed' = [claimed EXCEPT ![c] = 0]
  /\ UNCHANGED <<src, registers>>

\* Writes of the enable and threshold registers, from either handler or from
\* the program they interrupt.
WriteEnable(c) ==
  /\ writes < MaxWrites /\ writes' = writes + 1
  /\ \E S \in SUBSET Sources : enable' = [enable EXCEPT ![c] = S]
  /\ pending' = Latched
  /\ UNCHANGED <<src, inService, threshold, handler, claimed>>

WriteThreshold(c) ==
  /\ writes < MaxWrites /\ writes' = writes + 1
  /\ \E l \in Level : threshold' = [threshold EXCEPT ![c] = l]
  /\ pending' = Latched
  /\ UNCHANGED <<src, inService, enable, handler, claimed>>

-----------------------------------------------------------------------------
Handler(c) == Trap(c) \/ Claim(c) \/ Service(c) \/ Complete(c)
Next ==
  \/ Tick \/ (\E s \in Sources : Raise(s))
  \/ \E c \in Context : Handler(c) \/ WriteEnable(c) \/ WriteThreshold(c)
Spec == Init /\ [][Next]_vars

\* The controller is clocked; the hart executes a handler to its end and takes
\* an interrupt that stays pending.  The S context runs whenever M is not
\* active again and again.
FairSpec == Spec /\ WF_vars(Tick) /\ \A c \in Context : SF_vars(Handler(c))

-----------------------------------------------------------------------------
(* Type invariant: pending and in-service bits belong to real sources (an empty *)
(* claim records nothing), and a handler holds a source or none.               *)
TypeOK ==
  /\ src \in [Sources -> BOOLEAN]
  /\ pending \subseteq Sources /\ inService \subseteq Sources
  /\ enable \in [Context -> SUBSET Sources] /\ threshold \in [Context -> Level]
  /\ handler \in [Context -> {"idle", "trap", "service", "complete"}]
  /\ claimed \in [Context -> Sources \cup {0}] /\ writes \in 0 .. MaxWrites

(* A source is in service exactly when one handler has claimed it and not yet  *)
(* completed it, and the two contexts never hold the same source: a claim that *)
(* nobody saw would silence its source for ever, one seen twice would serve a  *)
(* device twice (in_service_q against claim reads and completions).            *)
ServedByItsClaimer ==
  /\ inService = {claimed[c] : c \in Context} \ {0}
  /\ claimed[0] # claimed[1] \/ claimed[0] = 0

(* A handler never finds its device idle: what is claimed and not yet serviced *)
(* is a device that still drives its line (the gate of pending_d by            *)
(* in_service_q), even when the device raised again during the last service.   *)
ClaimMeansRaised ==
  \A c \in Context : handler[c] = "service" => src[claimed[c]]

(* A raised line that some context goes on enabling above its threshold is      *)
(* answered by a handler in the end, unless a source that outranks it is raised *)
(* again and again: fixed priorities starve, nothing else does (no edge, claim  *)
(* or completion loses a recorded level).                                      *)
Above(s) == {t \in Sources \ {s} : Prio[t] > Prio[s] \/ (Prio[t] = Prio[s] /\ t < s)}
Heard(s) == \E c \in Context : <>[](s \in enable[c] /\ Prio[s] > threshold[c])

RaiseServed ==
  \A s \in Sources :
    Heard(s) /\ (\A t \in Above(s) : <>[]~src[t]) => (src[s] ~> ~src[s])
=============================================================================
