------------------------------- MODULE DCache -------------------------------
(***************************************************************************)
(* The blocking, set-associative, write-back data cache                    *)
(* (rtl/soc/hart_tile/mem/cache/dcache.sv), with the line memory behind    *)
(* it.  One action is one clock edge of the cache in one state of its FSM. *)
(* The inputs sampled on the edge are chosen by the environment: a CPU     *)
(* request (from the router or the page-table walker), a CBO, a FENCE, or  *)
(* nothing.  A register that is dead, that is not read again before it is  *)
(* overwritten, holds its reset value (None for a request or a response).  *)
(***************************************************************************)
EXTENDS Integers

CONSTANTS
  NSets, NWays, \* the geometry (SETS_P, WAYS_P)
  Tag, Word, Value,
  CoreOp,       \* the loads and stores of the instance
  AmoOp, Alu,   \* the AMOs and what they compute (apply_atomic)
  DmaValue,     \* what a DMA master may write behind the cache
  None

Set == 0 .. NSets - 1
Way == 0 .. NWays - 1
Slot == Set \X Way
Line == [set : Set, tag : Tag]

VARIABLES
  state,        \* state_q
  valid, dirty, \* the slots whose valid_q (dirty_q) bit is set
  tag, data,    \* tag_q and data_q, per slot
  victim,       \* victim_q, per set
  req,          \* the captured CPU request: req_addr_q .. req_atomic_op_q
  cbo,          \* the captured CBO: cbo_addr_q, cbo_op_q
  refillWay,    \* refill_way_q
  flushAt,      \* <<flush_set_q, flush_way_q>>
  resp,         \* response_rdata_q and response_err_q while they are shown
  flushErr, cboErr,
  resv,         \* reservation_line_q if reservation_valid_q, or None
  mem,          \* the memory behind the line port
  bus           \* the line transaction in flight

cacheVars == <<valid, dirty, tag, data, victim>>
vars == <<state, valid, dirty, tag, data, victim, req, cbo, refillWay, flushAt,
          resp, flushErr, cboErr, resv, mem, bus>>

-----------------------------------------------------------------------------
LineData == [Word -> Value]
Op == CoreOp \cup AmoOp
Request == [line : Line, word : Word, op : Op \ {"LOAD", "LR"}, operand : Value]
           \cup [line : Line, word : Word, op : CoreOp \cap {"LOAD", "LR"}, operand : {None}]
Cbo == [op : {"INVAL", "CLEAN", "FLUSH"}, line : Line]
\* A maintenance operation as the contract sees it.
Report == [op : {"INVAL", "CLEAN", "FLUSH", "FENCE"}, line : Line \cup {None},
           st : {"busy", "ok", "err"}]

ASSUME Geometry == NSets \in Nat \ {0} /\ NWays \in Nat \ {0, 1}
ASSUME Words == 0 \in Value /\ DmaValue \subseteq Value
ASSUME CoreOps == CoreOp \subseteq {"LOAD", "STORE", "LR", "SC"}
ASSUME Amos == /\ AmoOp \cap {"LOAD", "STORE", "LR", "SC"} = {}
               /\ Alu \in [AmoOp -> [Value -> [Value -> Value]]]
ASSUME NoneIsNone ==
  None \notin Tag /\ None \notin Line \cup Request \cup Cbo \cup LineData \cup Report

EvictStates == {"WRITEBACK_REQ", "WRITEBACK_WAIT"}
RefillStates == {"REFILL_REQ", "REFILL_WAIT"}
FlushWriteStates == {"FLUSH_WRITEBACK_REQ", "FLUSH_WRITEBACK_WAIT"}
CboWriteStates == {"CBO_WRITEBACK_REQ", "CBO_WRITEBACK_WAIT"}
MissStates == EvictStates \cup RefillStates
FlushStates == {"FLUSH_SCAN"} \cup FlushWriteStates
CboStates == {"CBO_LOOKUP"} \cup CboWriteStates
WriteStates == EvictStates \cup FlushWriteStates \cup CboWriteStates
States == {"IDLE", "LOOKUP", "RESP", "FLUSH_DONE", "CBO_DONE"}
          \cup MissStates \cup FlushStates \cup CboStates

\* The states that raise line_req_o, and where each waits for the answer.
WaitOf == [WRITEBACK_REQ       |-> "WRITEBACK_WAIT",
           REFILL_REQ          |-> "REFILL_WAIT",
           FLUSH_WRITEBACK_REQ |-> "FLUSH_WRITEBACK_WAIT",
           CBO_WRITEBACK_REQ   |-> "CBO_WRITEBACK_WAIT"]
ReqStates == {"WRITEBACK_REQ", "REFILL_REQ", "FLUSH_WRITEBACK_REQ", "CBO_WRITEBACK_REQ"}
WaitStates == {"WRITEBACK_WAIT", "REFILL_WAIT", "FLUSH_WRITEBACK_WAIT", "CBO_WRITEBACK_WAIT"}

IdleBus == [st |-> "idle", we |-> FALSE, line |-> None, data |-> None,
            err |-> FALSE]

Init ==
  /\ state = "IDLE"
  /\ valid = {} /\ dirty = {}
  /\ tag = [s \in Slot |-> None] /\ data = [s \in Slot |-> [w \in Word |-> 0]]
  /\ victim = [s \in Set |-> 0]
  /\ req = None /\ cbo = None
  /\ refillWay = 0 /\ flushAt = <<0, 0>>
  /\ resp = None
  /\ flushErr = FALSE /\ cboErr = FALSE
  /\ resv = None
  /\ mem \in [Line -> LineData]
  /\ bus = IdleBus

-----------------------------------------------------------------------------
(* The lookup: the loops over the ways keep the last match, and the last   *)
(* invalid way is preferred to the round-robin victim.                     *)
Holds(s, l) == s \in valid /\ s[1] = l.set /\ tag[s] = l.tag
CachedInVictimWay(l) == Holds(<<l.set, victim[l.set]>>, l)   \* mutant
Cached(l) == \E w \in Way : Holds(<<l.set, w>>, l)

HitWay(l) == CHOOSE w \in Way : /\ Holds(<<l.set, w>>, l)
                                /\ \A v \in Way : Holds(<<l.set, v>>, l) => v <= w
HitSlot(l) == <<l.set, HitWay(l)>>

LastInvalid(s, w) == /\ <<s, w>> \notin valid
                     /\ \A v \in Way : v > w => <<s, v>> \in valid
VictimWay(s) == IF \E w \in Way : LastInvalid(s, w)
                THEN CHOOSE w \in Way : LastInvalid(s, w)
                ELSE victim[s]

NextWayUnwrapped(w) == w + 1   \* mutant
NextWay(w) == (w + 1) % NWays

LineOf(s) == [set |-> s[1], tag |-> tag[s]]
RefillSlot == <<req.line.set, refillWay>>

-----------------------------------------------------------------------------
(* The line port.  The request is combinational in a *_REQ state and the   *)
(* backing side captures it; it may already answer on the same edge.       *)
WrittenSlot == IF state \in EvictStates THEN RefillSlot
               ELSE IF state \in FlushWriteStates THEN flushAt
               ELSE HitSlot(cbo.line)

LineRequest ==
  IF state \in WriteStates
  THEN [st |-> "req", we |-> TRUE, line |-> LineOf(WrittenSlot),
        data |-> data[WrittenSlot], err |-> FALSE]
  ELSE [st |-> "req", we |-> FALSE, line |-> req.line, data |-> None, err |-> FALSE]

AwaitLine ==
  /\ state \in ReqStates /\ bus.st = "idle"
  /\ bus' = LineRequest
  /\ state' = WaitOf[state]
  /\ UNCHANGED <<cacheVars, req, cbo, refillWay, flushAt, resp, flushErr,
                 cboErr, resv, mem>>

Outstanding == IF bus.st = "idle" /\ state \in ReqStates THEN LineRequest ELSE bus

\* The memory performs the transaction as a whole (module LineAdapter shows the
\* burst is one).  A write answered with an error may have written any words.
Written(l, new, err) ==
  IF err THEN {d \in LineData : \A w \in Word : d[w] \in {mem[l][w], new[w]}}
  ELSE {new}

ServeLine ==
  /\ Outstanding.st = "req"
  /\ \E err \in BOOLEAN :
       /\ bus' = [Outstanding EXCEPT !.st = "resp", !.err = err,
                    !.data = IF Outstanding.we THEN None ELSE mem[Outstanding.line]]
       /\ IF Outstanding.we
          THEN \E d \in Written(Outstanding.line, Outstanding.data, err) :
                 mem' = [mem EXCEPT ![Outstanding.line] = d]
          ELSE mem' = mem
  /\ UNCHANGED <<state, cacheVars, req, cbo, refillWay, flushAt, resp, flushErr,
                 cboErr, resv>>

\* line_resp_valid_i is sampled: the transaction is over.
Answered(err) == bus.st = "resp" /\ bus.err = err /\ bus' = IdleBus

DmaWrite(l, w, v) ==
  /\ mem' = [mem EXCEPT ![l][w] = v]
  /\ UNCHANGED <<state, cacheVars, req, cbo, refillWay, flushAt, resp, flushErr,
                 cboErr, resv, bus>>

-----------------------------------------------------------------------------
(* Acceptance.  IDLE prefers a flush to a CBO to a CPU request; RESP and   *)
(* FLUSH_DONE accept the next request back to back, but no CBO.            *)
AcceptCpu(r) ==
  /\ state \in {"IDLE", "RESP", "FLUSH_DONE"}
  /\ state' = "LOOKUP"
  /\ req' = r
  /\ resp' = None /\ flushErr' = FALSE
  /\ UNCHANGED <<cacheVars, cbo, refillWay, flushAt, cboErr, resv, mem, bus>>

AcceptCbo(c) ==
  /\ state = "IDLE"
  /\ state' = "CBO_LOOKUP"
  /\ cbo' = c /\ cboErr' = FALSE
  /\ UNCHANGED <<cacheVars, req, refillWay, flushAt, resp, flushErr, resv, mem, bus>>

AcceptFlush ==
  /\ state \in {"IDLE", "RESP"}
  /\ state' = "FLUSH_SCAN"
  /\ flushAt' = <<0, 0>> /\ flushErr' = FALSE /\ resv' = None
  /\ resp' = None
  /\ UNCHANGED <<cacheVars, req, cbo, refillWay, cboErr, mem, bus>>

\* Nothing follows a response or a completion; a CBO's completion is never
\* followed back to back.
GoIdle ==
  /\ state \in {"RESP", "FLUSH_DONE", "CBO_DONE"}
  /\ state' = "IDLE"
  /\ resp' = None /\ cbo' = None /\ flushErr' = FALSE /\ cboErr' = FALSE
  /\ UNCHANGED <<cacheVars, req, refillWay, flushAt, resv, mem, bus>>

-----------------------------------------------------------------------------
(* LOOKUP.                                                                 *)
Hit(s) ==
  /\ state = "LOOKUP" /\ Cached(req.line) /\ s = HitSlot(req.line)
  /\ state' = "RESP" /\ req' = None
  /\ victim' = [victim EXCEPT ![s[1]] = NextWay(s[2])]
  /\ UNCHANGED <<valid, tag, cbo, refillWay, flushAt, flushErr, cboErr, mem, bus>>

Return(value) == resp' = [rdata |-> value, err |-> FALSE]

StoreWord(s, value) ==
  /\ data' = [data EXCEPT ![s][req.word] = value]
  /\ dirty' = dirty \cup {s}

LoadHit(s) == /\ Hit(s) /\ req.op = "LOAD" /\ Return(data[s][req.word])
              /\ UNCHANGED <<data, dirty, resv>>

StoreHit(s) == /\ Hit(s) /\ req.op = "STORE" /\ Return(data[s][req.word])
               /\ StoreWord(s, req.operand)
               /\ resv' = IF resv = req.line THEN None ELSE resv

LrHit(s) == /\ Hit(s) /\ req.op = "LR" /\ Return(data[s][req.word])
            /\ resv' = req.line
            /\ UNCHANGED <<data, dirty>>

\* Mutant: the reservation is checked, its line is not.
ScHitAnyReservation(s) ==
  /\ Hit(s) /\ req.op = "SC" /\ resv' = None
  /\ IF resv # None
     THEN Return(0) /\ StoreWord(s, req.operand)
     ELSE Return(1) /\ UNCHANGED <<data, dirty>>

ScHit(s) == /\ Hit(s) /\ req.op = "SC" /\ resv' = None
            /\ IF resv = req.line
               THEN Return(0) /\ StoreWord(s, req.operand)
               ELSE Return(1) /\ UNCHANGED <<data, dirty>>

AmoHit(s) == /\ Hit(s) /\ req.op \in AmoOp /\ Return(data[s][req.word])
             /\ StoreWord(s, Alu[req.op][data[s][req.word]][req.operand])
             /\ resv' = None

LookupHit == \E s \in Slot : LoadHit(s) \/ StoreHit(s) \/ LrHit(s) \/ ScHit(s)
                             \/ AmoHit(s)

LookupMiss ==
  /\ state = "LOOKUP" /\ ~Cached(req.line)
  /\ refillWay' = VictimWay(req.line.set)
  /\ state' = IF <<req.line.set, refillWay'>> \in valid \cap dirty
              THEN "WRITEBACK_REQ" ELSE "REFILL_REQ"
  /\ UNCHANGED <<cacheVars, req, cbo, flushAt, resp, flushErr, cboErr, resv, mem, bus>>

-----------------------------------------------------------------------------
(* Eviction and refill.                                                    *)
AccessFault ==
  /\ Answered(TRUE)
  /\ resp' = [rdata |-> 0, err |-> TRUE]
  /\ state' = "RESP" /\ req' = None /\ refillWay' = 0
  /\ UNCHANGED <<cacheVars, cbo, flushAt, flushErr, cboErr, resv, mem>>

\* Mutant: a failed transaction is retried.
MissRetry ==
  /\ state \in MissStates /\ Answered(TRUE)
  /\ state' = "LOOKUP" /\ refillWay' = 0
  /\ UNCHANGED <<cacheVars, req, cbo, flushAt, resp, flushErr, cboErr, resv, mem>>

MissFault == state \in MissStates /\ AccessFault

\* Mutant: line_err_i is not looked at.
VictimWrittenAnyway ==
  /\ state \in EvictStates /\ (Answered(FALSE) \/ Answered(TRUE))
  /\ dirty' = dirty \ {RefillSlot}
  /\ state' = "REFILL_REQ"
  /\ UNCHANGED <<valid, tag, data, victim, req, cbo, refillWay, flushAt, resp,
                 flushErr, cboErr, resv, mem>>

VictimWritten ==
  /\ state \in EvictStates /\ Answered(FALSE)
  /\ dirty' = dirty \ {RefillSlot}
  /\ state' = "REFILL_REQ"
  /\ UNCHANGED <<valid, tag, data, victim, req, cbo, refillWay, flushAt, resp,
                 flushErr, cboErr, resv, mem>>

Install ==
  /\ state \in RefillStates /\ Answered(FALSE)
  /\ data' = [data EXCEPT ![RefillSlot] = bus.data]
  /\ tag' = [tag EXCEPT ![RefillSlot] = req.line.tag]
  /\ valid' = valid \cup {RefillSlot}
  /\ dirty' = dirty \ {RefillSlot}
  /\ state' = "LOOKUP" /\ refillWay' = 0
  /\ UNCHANGED <<victim, req, cbo, flushAt, resp, flushErr, cboErr,
                 resv, mem>>

-----------------------------------------------------------------------------
(* Zicbom maintenance of one line.                                         *)
CboLookup ==
  /\ state = "CBO_LOOKUP"
  /\ IF ~Cached(cbo.line)
     THEN state' = "CBO_DONE" /\ UNCHANGED <<valid, dirty, resv>>
     ELSE LET s == HitSlot(cbo.line)
              writes == cbo.op \in {"CLEAN", "FLUSH"} /\ s \in dirty
              drops == cbo.op = "INVAL" \/ (cbo.op = "FLUSH" /\ s \notin dirty)
          IN  /\ resv' = IF resv = cbo.line THEN None ELSE resv
              /\ valid' = IF drops THEN valid \ {s} ELSE valid
              /\ dirty' = IF drops THEN dirty \ {s} ELSE dirty
              /\ state' = IF writes THEN "CBO_WRITEBACK_REQ" ELSE "CBO_DONE"
  /\ UNCHANGED <<tag, data, victim, req, cbo, refillWay, flushAt, resp, flushErr,
                 cboErr, mem, bus>>

CboWritten ==
  /\ state \in CboWriteStates
  /\ LET s == HitSlot(cbo.line)
     IN  \/ /\ Answered(TRUE) /\ cboErr' = TRUE
            /\ UNCHANGED <<valid, dirty>>
         \/ /\ Answered(FALSE) /\ dirty' = dirty \ {s}
            /\ valid' = IF cbo.op = "FLUSH" THEN valid \ {s} ELSE valid
            /\ UNCHANGED cboErr
  /\ state' = "CBO_DONE"
  /\ UNCHANGED <<tag, data, victim, req, cbo, refillWay, flushAt, resp, flushErr,
                 resv, mem>>

-----------------------------------------------------------------------------
(* The FENCE walk over all slots.  `flush_way_q == 1'(WAYS_P - 1)' compares *)
(* with the low bit of WAYS_P - 1 only.                                    *)
FirstFlushWay == 0   \* mutant: the walk leaves a set after its first way
LastFlushWay == (NWays - 1) % 2

\* Mutant: the walk wraps instead of ending.
FlushAdvanceWraps ==
  /\ flushAt' = IF flushAt[2] # LastFlushWay
                THEN <<flushAt[1], NextWay(flushAt[2])>>
                ELSE <<(flushAt[1] + 1) % NSets, 0>>
  /\ state' = "FLUSH_SCAN"

FlushAdvance ==
  IF flushAt[2] # LastFlushWay
  THEN flushAt' = <<flushAt[1], NextWay(flushAt[2])>> /\ state' = "FLUSH_SCAN"
  ELSE IF flushAt[1] # NSets - 1
  THEN flushAt' = <<flushAt[1] + 1, 0>> /\ state' = "FLUSH_SCAN"
  ELSE flushAt' = <<0, 0>> /\ state' = "FLUSH_DONE"

FlushScan ==
  /\ state = "FLUSH_SCAN"
  /\ IF flushAt \in valid \cap dirty
     THEN state' = "FLUSH_WRITEBACK_REQ" /\ UNCHANGED flushAt
     ELSE FlushAdvance
  /\ UNCHANGED <<cacheVars, req, cbo, refillWay, resp, flushErr, cboErr, resv, mem, bus>>

FlushWritten ==
  /\ state \in FlushWriteStates
  /\ \/ /\ Answered(TRUE) /\ flushErr' = TRUE /\ state' = "FLUSH_DONE"
        /\ flushAt' = <<0, 0>> /\ UNCHANGED dirty
     \/ /\ Answered(FALSE) /\ dirty' = dirty \ {flushAt} /\ FlushAdvance
        /\ UNCHANGED flushErr
  /\ UNCHANGED <<valid, tag, data, victim, req, cbo, refillWay, resp, cboErr,
                 resv, mem>>

-----------------------------------------------------------------------------
CacheStep == \/ AwaitLine
             \/ LookupHit \/ LookupMiss
             \/ MissFault \/ VictimWritten \/ Install
             \/ CboLookup \/ CboWritten
             \/ FlushScan \/ FlushWritten

Next ==
  \/ CacheStep \/ ServeLine
  \/ \E r \in Request : AcceptCpu(r)
  \/ \E c \in Cbo : AcceptCbo(c)
  \/ AcceptFlush \/ GoIdle
  \/ \E l \in Line, w \in Word, v \in DmaValue : DmaWrite(l, w, v)

Spec == Init /\ [][Next]_vars

\* The cache is clocked and the line memory answers every transaction.
FairSpec == Spec /\ WF_vars(CacheStep) /\ WF_vars(ServeLine)

-----------------------------------------------------------------------------
(* Type invariant: every register holds a value of its width.              *)
TypeOK ==
  /\ state \in States
  /\ valid \subseteq Slot /\ dirty \subseteq Slot
  /\ tag \in [Slot -> Tag \cup {None}] /\ data \in [Slot -> LineData]
  /\ \A s \in valid : tag[s] \in Tag
  /\ victim \in [Set -> Way]
  /\ req \in Request \cup {None}
  /\ cbo \in Cbo \cup {None}
  /\ refillWay \in Way /\ flushAt \in Slot
  /\ resp \in [rdata : Value \cup {0, 1}, err : BOOLEAN] \cup {None}
  /\ flushErr \in BOOLEAN /\ cboErr \in BOOLEAN
  /\ resv \in Line \cup {None}
  /\ mem \in [Line -> LineData]
  /\ bus \in [st : {"idle", "req", "resp"}, we : BOOLEAN, line : Line \cup {None},
             data : LineData \cup {None}, err : BOOLEAN]

\* A physical line is in at most one slot.  The lookup loop keeps the last
\* match only, so a second copy would hide stores made to the first; nothing
\* in dcache.sv checks for one when a refill installs a line.
NoDuplicateLine ==
  \A s, t \in valid : LineOf(s) = LineOf(t) => s = t

\* Without DMA, a clean line is equal to the memory behind it: a slot loses its
\* dirty bit only when its content has reached memory, whatever the interleaving
\* of evictions, CBOs, FENCEs and failed write-backs.
CleanMatchesMemory ==
  \A s \in valid \ dirty : data[s] = mem[LineOf(s)]

\* A FENCE acknowledged without an error leaves no dirty line ("Clean all dirty
\* lines", dcache.sv:38): the walk misses no slot, and none gets dirty behind it.
FenceCleansAll ==
  state = "FLUSH_DONE" /\ ~flushErr => valid \cap dirty = {}

\* The FSM and its registers agree: what makes the above inductive.
Control ==
  /\ req = None <=> state \notin {"LOOKUP"} \cup MissStates
  /\ cbo = None <=> state \notin {"CBO_DONE"} \cup CboStates
  /\ state \in MissStates => ~Cached(req.line)
  /\ state \in RefillStates => RefillSlot \notin valid \cap dirty
  /\ state \in CboWriteStates => Cached(cbo.line)
  /\ state \in WriteStates => WrittenSlot \in valid \cap dirty
BusControl ==
  /\ bus.st = "idle" => state \notin WaitStates
  /\ bus.st # "idle" => /\ state \in WriteStates \cup RefillStates
                        /\ bus.we = LineRequest.we /\ bus.line = LineRequest.line
                        /\ bus.we \/ (bus.st = "resp" => bus.data \in LineData)
                        /\ bus.we /\ bus.st = "req" => bus.data = LineRequest.data
Inv == TypeOK /\ NoDuplicateLine /\ Control /\ BusControl

\* Every accepted request is answered, and every maintenance operation ends,
\* although evictions, refills and write-backs may fail at any point.
RequestAnswered == state = "LOOKUP" ~> state = "RESP"
MaintenanceEnds == /\ state = "CBO_LOOKUP" ~> state = "CBO_DONE"
                   /\ state = "FLUSH_SCAN" ~> state = "FLUSH_DONE"
OperationsEnd == RequestAnswered /\ MaintenanceEnds

\* "The reservation is cleared by an overlapping core store, AMO, eviction,
\* invalidate, or trap/reset": a reserved line that leaves the cache takes the
\* reservation with it.
ReservedLineIsCached ==
  resv # None => Cached(resv)

-----------------------------------------------------------------------------
(* The cache implements MemoryContract.  A line read from memory is the    *)
(* hart's from the moment memory has served the read, and a written line   *)
(* stops being owed when memory has served the write.                      *)
ServedRead(l) == bus.st = "resp" /\ ~bus.we /\ ~bus.err /\ bus.line = l
ServedWrite(l) == bus.st = "resp" /\ bus.we /\ ~bus.err /\ bus.line = l

View == [l \in Line |-> IF Cached(l) THEN data[HitSlot(l)]
                        ELSE IF ServedRead(l) THEN bus.data ELSE None]
Owed == {l \in Line : Cached(l) /\ HitSlot(l) \in dirty /\ ~ServedWrite(l)}
Maintained ==
  CASE state \in FlushStates -> [op |-> "FENCE", line |-> None, st |-> "busy"]
    [] state = "FLUSH_DONE"  -> [op |-> "FENCE", line |-> None,
                                 st |-> IF flushErr THEN "err" ELSE "ok"]
    [] state \in CboStates   -> [op |-> cbo.op, line |-> cbo.line, st |-> "busy"]
    [] state = "CBO_DONE"    -> [op |-> cbo.op, line |-> cbo.line,
                                 st |-> IF cboErr THEN "err" ELSE "ok"]
    [] OTHER -> None

Contract == INSTANCE MemoryContract WITH
  ram <- mem, view <- View, owed <- Owed, resv <- resv, pend <- req,
  ans <- resp, mnt <- Maintained

\* Loads, stores, AMOs, LR and SC act on one view of memory, in order, each
\* exactly once, and a maintenance operation that reports no error has done
\* what software relies on before and after DMA.
ImplementsContract == Contract!Spec
=============================================================================
