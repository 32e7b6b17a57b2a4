---------------------------- MODULE DCacheProofs ----------------------------
(***************************************************************************)
(* Theorems about the data cache for every geometry, tag, word and value.  *)
(* The inductive invariant is Inv of module DCache.  CleanInv adds what a   *)
(* transfer carries, FenceInv how far the FENCE walk has come.  The second  *)
(* part shows that the two-way cache implements MemoryContract.             *)
(***************************************************************************)
EXTENDS DCache, TLAPS

(* What the lookup finds: the line, in the only slot that holds it.        *)
LEMMA HitSlotHolds ==
  ASSUME TypeOK, NoDuplicateLine, NEW l \in Line, Cached(l)
  PROVE  HitSlot(l) \in Slot /\ Holds(HitSlot(l), l) /\ LineOf(HitSlot(l)) = l
<1>1. PICK w \in Way : Holds(<<l.set, w>>, l)
  BY DEF Cached
<1>2. \A v \in Way : Holds(<<l.set, v>>, l) => v = w
  <2> SUFFICES ASSUME NEW v \in Way, Holds(<<l.set, v>>, l) PROVE v = w
    OBVIOUS
  <2>1. LineOf(<<l.set, v>>) = LineOf(<<l.set, w>>)
    BY <1>1 DEF Holds, LineOf
  <2>2. <<l.set, v>> = <<l.set, w>>
    BY <1>1, <2>1 DEF Holds, NoDuplicateLine
  <2> QED BY <2>2
<1>3. HitWay(l) = w
  BY <1>1, <1>2, Geometry DEF HitWay, Way
<1>4. <<l.set, w>> \in Slot
  BY <1>1 DEF Slot, Line
<1>5. LineOf(<<l.set, w>>) = l
  BY <1>1 DEF Holds, LineOf, Line
<1> QED BY <1>1, <1>3, <1>4, <1>5 DEF HitSlot

(* A slot that holds a line makes the lookup hit.                          *)
LEMMA HeldIsCached ==
  ASSUME TypeOK, NEW s \in valid PROVE Cached(LineOf(s)) /\ LineOf(s) \in Line
<1>1. /\ s \in Slot /\ s[1] \in Set /\ s[2] \in Way /\ s = <<s[1], s[2]>>
      /\ tag[s] \in Tag
  BY DEF TypeOK, Slot
<1>2. LineOf(s) \in Line /\ LineOf(s).set = s[1] /\ LineOf(s).tag = tag[s]
  BY <1>1 DEF LineOf, Line
<1>3. Holds(<<LineOf(s).set, s[2]>>, LineOf(s))
  BY <1>1, <1>2 DEF Holds
<1> QED BY <1>1, <1>2, <1>3 DEF Cached

LEMMA VictimIsWay ==
  ASSUME TypeOK, NEW s \in Set PROVE VictimWay(s) \in Way
BY DEF VictimWay, TypeOK

LEMMA NextWayIsWay ==
  ASSUME NEW w \in Way PROVE NextWay(w) \in Way
BY Geometry DEF NextWay, Way

(* The lookup depends on valid and tag only.                               *)
LEMMA LookupFrame ==
  ASSUME valid' = valid, tag' = tag
  PROVE  /\ \A l : Cached(l)' <=> Cached(l)
         /\ \A l : HitSlot(l)' = HitSlot(l)
         /\ \A s : LineOf(s)' = LineOf(s)
         /\ NoDuplicateLine => NoDuplicateLine'
BY DEF Cached, Holds, HitSlot, HitWay, LineOf, NoDuplicateLine

-----------------------------------------------------------------------------
LEMMA InitInv == Init => Inv
<1> SUFFICES ASSUME Init PROVE Inv
  OBVIOUS
<1>1. TypeOK
  <2>1. 0 \in Set /\ 0 \in Way /\ <<0, 0>> \in Slot
    BY Geometry DEF Set, Way, Slot
  <2>2. [w \in Word |-> 0] \in LineData
    BY Words DEF LineData
  <2>3. bus \in [st : {"idle", "req", "resp"}, we : BOOLEAN, line : Line \cup {None},
                data : LineData \cup {None}, err : BOOLEAN]
    BY DEF Init, IdleBus
  <2> QED BY <2>1, <2>2, <2>3 DEF Init, TypeOK, States
<1>2. NoDuplicateLine
  BY DEF Init, NoDuplicateLine
<1>3. Control
  BY DEF Init, Control, MissStates, EvictStates, RefillStates, CboStates,
         CboWriteStates, WriteStates, FlushWriteStates
<1>4. BusControl
  BY DEF Init, BusControl, IdleBus, WaitStates
<1> QED BY <1>1, <1>2, <1>3, <1>4 DEF Inv

(* What a cache that asks for a line transaction asks for.                 *)
LEMMA LineRequestType ==
  ASSUME Inv, state \in ReqStates \cup WaitStates
  PROVE  /\ LineRequest.st = "req" /\ LineRequest.err = FALSE
         /\ LineRequest.we \in BOOLEAN /\ LineRequest.line \in Line
         /\ LineRequest.data \in LineData \cup {None}
         /\ LineRequest = [st |-> "req", we |-> LineRequest.we, line |-> LineRequest.line,
                           data |-> LineRequest.data, err |-> FALSE]
         /\ LineRequest.we <=> state \in WriteStates
<1>1. CASE state \in WriteStates
  <2>1. WrittenSlot \in valid /\ WrittenSlot \in Slot
    BY <1>1 DEF Inv, Control, TypeOK
  <2>2. LineOf(WrittenSlot) \in Line /\ data[WrittenSlot] \in LineData
    BY <2>1, HeldIsCached DEF Inv, TypeOK
  <2> QED BY <1>1, <2>2 DEF LineRequest
<1>2. CASE state \notin WriteStates
  <2>1. state \in RefillStates
    BY <1>2 DEF WriteStates, EvictStates, FlushWriteStates, CboWriteStates, ReqStates,
                WaitStates, RefillStates
  <2>2. req \in Request
    BY <2>1 DEF Inv, Control, TypeOK, MissStates
  <2>3. req.line \in Line
    BY <2>2 DEF Request
  <2> QED BY <1>2, <2>3 DEF LineRequest
<1> QED BY <1>1, <1>2

LEMMA AwaitLineInv == Inv /\ AwaitLine => Inv'
<1> SUFFICES ASSUME Inv, AwaitLine PROVE Inv'
  OBVIOUS
<1>0. valid' = valid /\ tag' = tag
  BY DEF AwaitLine, cacheVars
<1>s. \/ state = "WRITEBACK_REQ" /\ state' = "WRITEBACK_WAIT"
      \/ state = "REFILL_REQ" /\ state' = "REFILL_WAIT"
      \/ state = "FLUSH_WRITEBACK_REQ" /\ state' = "FLUSH_WRITEBACK_WAIT"
      \/ state = "CBO_WRITEBACK_REQ" /\ state' = "CBO_WRITEBACK_WAIT"
  BY DEF AwaitLine, ReqStates, WaitOf
<1>1. WrittenSlot' = WrittenSlot
  BY <1>0, <1>s, LookupFrame DEF AwaitLine, WrittenSlot, RefillSlot, EvictStates,
     FlushWriteStates
<1>w. state' \in WriteStates <=> state \in WriteStates
  BY <1>s DEF WriteStates, EvictStates, FlushWriteStates, CboWriteStates
<1>2. LineRequest' = LineRequest
  BY <1>0, <1>1, <1>w, LookupFrame DEF AwaitLine, LineRequest, cacheVars
<1>3. /\ bus'.st = "req" /\ bus'.err = FALSE /\ bus'.we \in BOOLEAN /\ bus'.line \in Line
      /\ bus'.data \in LineData \cup {None}
      /\ bus' = [st |-> "req", we |-> bus'.we, line |-> bus'.line, data |-> bus'.data,
                 err |-> FALSE]
  BY LineRequestType DEF AwaitLine
<1>4. TypeOK'
  <2>1. state' \in States
    BY <1>s DEF States, MissStates, FlushStates, CboStates, EvictStates, RefillStates,
                FlushWriteStates, CboWriteStates
  <2>2. bus' \in [st : {"idle", "req", "resp"}, we : BOOLEAN, line : Line \cup {None},
                 data : LineData \cup {None}, err : BOOLEAN]
    BY <1>3
  <2> QED BY <2>1, <2>2 DEF AwaitLine, Inv, TypeOK, cacheVars
<1>5. NoDuplicateLine'
  BY <1>0, LookupFrame DEF Inv
<1>6. Control'
  BY <1>0, <1>1, <1>s, LookupFrame DEF AwaitLine, Inv, Control, cacheVars, RefillSlot,
     MissStates, CboStates, EvictStates, RefillStates, FlushWriteStates, CboWriteStates,
     WriteStates
<1>7. BusControl'
  BY <1>2, <1>3, <1>s DEF AwaitLine, BusControl, Inv, EvictStates, RefillStates,
     FlushWriteStates, CboWriteStates, WriteStates
<1> QED BY <1>4, <1>5, <1>6, <1>7 DEF Inv

LEMMA ServeLineInv == Inv /\ ServeLine => Inv'
<1> SUFFICES ASSUME Inv, ServeLine PROVE Inv'
  OBVIOUS
<1>0. /\ valid' = valid /\ tag' = tag /\ dirty' = dirty /\ data' = data
      /\ victim' = victim /\ state' = state /\ req' = req /\ cbo' = cbo
      /\ refillWay' = refillWay /\ flushAt' = flushAt
  BY DEF ServeLine, cacheVars
<1>1. /\ WrittenSlot' = WrittenSlot /\ LineRequest' = LineRequest
      /\ RefillSlot' = RefillSlot
  BY <1>0, LookupFrame DEF WrittenSlot, LineRequest, RefillSlot
<1>2. state \in ReqStates \cup WaitStates
  BY DEF ServeLine, Outstanding, Inv, TypeOK, BusControl, WriteStates, RefillStates,
         EvictStates, FlushWriteStates, CboWriteStates, ReqStates, WaitStates
<1>3. /\ Outstanding.st = "req" /\ Outstanding.we = LineRequest.we
      /\ Outstanding.line = LineRequest.line
      /\ Outstanding.we => Outstanding.data = LineRequest.data
      /\ Outstanding.we \in BOOLEAN /\ Outstanding.line \in Line
      /\ Outstanding.we => Outstanding.data \in LineData
      /\ Outstanding = [st |-> "req", we |-> Outstanding.we, line |-> Outstanding.line,
                        data |-> Outstanding.data, err |-> Outstanding.err]
  <2>1. LineRequest.we => LineRequest.data \in LineData
    BY <1>2, LineRequestType DEF LineRequest, Inv, TypeOK, Control
  <2>2. CASE bus.st = "idle"
    BY <1>2, <2>1, <2>2, LineRequestType DEF ServeLine, Outstanding
  <2>3. CASE bus.st # "idle"
    BY <1>2, <2>1, <2>3, LineRequestType DEF ServeLine, Outstanding, Inv, BusControl, TypeOK
  <2> QED BY <2>2, <2>3
<1>4. PICK err \in BOOLEAN :
        /\ bus' = [Outstanding EXCEPT !.st = "resp", !.err = err,
                     !.data = IF Outstanding.we THEN None ELSE mem[Outstanding.line]]
        /\ IF Outstanding.we
           THEN \E d \in Written(Outstanding.line, Outstanding.data, err) :
                  mem' = [mem EXCEPT ![Outstanding.line] = d]
           ELSE mem' = mem
  BY DEF ServeLine
<1>5. /\ bus'.st = "resp" /\ bus'.we = LineRequest.we /\ bus'.line = LineRequest.line
      /\ bus'.we \/ bus'.data \in LineData
      /\ bus' \in [st : {"idle", "req", "resp"}, we : BOOLEAN, line : Line \cup {None},
                   data : LineData \cup {None}, err : BOOLEAN]
  BY <1>3, <1>4 DEF Inv, TypeOK
<1>6. mem' \in [Line -> LineData]
  <2>1. Outstanding.we =>
          \A d \in Written(Outstanding.line, Outstanding.data, err) : d \in LineData
    BY <1>3 DEF Written
  <2> QED BY <1>3, <1>4, <2>1 DEF Inv, TypeOK
<1>7. TypeOK'
  BY <1>0, <1>5, <1>6 DEF ServeLine, Inv, TypeOK, cacheVars
<1>8. NoDuplicateLine' /\ Control'
  BY <1>0, <1>1, LookupFrame DEF Inv, Control
<1>9. BusControl'
  BY <1>0, <1>1, <1>2, <1>5 DEF BusControl, ReqStates, WaitStates, WriteStates, RefillStates,
     EvictStates, FlushWriteStates, CboWriteStates
<1> QED BY <1>7, <1>8, <1>9 DEF Inv

LEMMA DmaWriteInv ==
  ASSUME Inv, NEW l \in Line, NEW w \in Word, NEW v \in DmaValue, DmaWrite(l, w, v)
  PROVE  Inv'
<1>0. /\ valid' = valid /\ tag' = tag /\ dirty' = dirty /\ data' = data
      /\ victim' = victim /\ state' = state /\ req' = req /\ cbo' = cbo
      /\ refillWay' = refillWay /\ flushAt' = flushAt /\ bus' = bus
  BY DEF DmaWrite, cacheVars
<1>1. /\ WrittenSlot' = WrittenSlot /\ LineRequest' = LineRequest
      /\ RefillSlot' = RefillSlot
  BY <1>0, LookupFrame DEF WrittenSlot, LineRequest, RefillSlot
<1>2. mem' \in [Line -> LineData]
  <2>1. [mem[l] EXCEPT ![w] = v] \in LineData
    BY Words DEF Inv, TypeOK, LineData
  <2> QED BY <2>1 DEF DmaWrite, Inv, TypeOK
<1> QED BY <1>0, <1>1, <1>2, LookupFrame DEF DmaWrite, Inv, TypeOK, Control, BusControl

(* The steps that only take or withdraw a request: the contents, the bus   *)
(* and the memory stay, and no transaction is under way.                   *)
Take == \/ \E r \in Request : AcceptCpu(r)
        \/ \E c \in Cbo : AcceptCbo(c)
        \/ AcceptFlush \/ GoIdle

LEMMA TakeInv == Inv /\ Take => Inv'
<1> SUFFICES ASSUME Inv, Take PROVE Inv'
  OBVIOUS
<1>0. /\ valid' = valid /\ tag' = tag /\ dirty' = dirty /\ data' = data
      /\ victim' = victim /\ bus' = bus /\ mem' = mem
  BY DEF Take, AcceptCpu, AcceptCbo, AcceptFlush, GoIdle, cacheVars
<1>1. /\ state \in {"IDLE", "RESP", "FLUSH_DONE", "CBO_DONE"}
      /\ state' \in {"IDLE", "LOOKUP", "CBO_LOOKUP", "FLUSH_SCAN"}
  BY DEF Take, AcceptCpu, AcceptCbo, AcceptFlush, GoIdle
<1> USE DEF MissStates, EvictStates, RefillStates, CboStates, CboWriteStates, WriteStates,
            FlushWriteStates, FlushStates
<1>2. TypeOK'
  <2>1. <<0, 0>> \in Slot
    BY Geometry DEF Set, Way, Slot
  <2>2. state' \in States
    BY <1>1 DEF States
  <2>3. CASE \E r \in Request : AcceptCpu(r)
    BY <1>0, <2>2, <2>3 DEF AcceptCpu, Inv, TypeOK
  <2>4. CASE \E c \in Cbo : AcceptCbo(c)
    BY <1>0, <2>2, <2>4 DEF AcceptCbo, Inv, TypeOK
  <2>5. CASE AcceptFlush
    BY <1>0, <2>1, <2>2, <2>5 DEF AcceptFlush, Inv, TypeOK
  <2>6. CASE GoIdle
    BY <1>0, <2>2, <2>6 DEF GoIdle, Inv, TypeOK
  <2> QED BY <2>3, <2>4, <2>5, <2>6 DEF Take
<1>3. NoDuplicateLine'
  BY <1>0, LookupFrame DEF Inv
<1>4. Control'
  BY <1>0, <1>1, NoneIsNone DEF Take, AcceptCpu, AcceptCbo, AcceptFlush, GoIdle, Inv, Control
<1>5. BusControl'
  BY <1>0, <1>1 DEF Inv, BusControl, WaitStates
<1> QED BY <1>2, <1>3, <1>4, <1>5 DEF Inv

-----------------------------------------------------------------------------
(* The steps of a CPU request.                                             *)
LEMMA LookupHitInv == Inv /\ LookupHit => Inv'
<1> SUFFICES ASSUME Inv, NEW s \in Slot,
                    LoadHit(s) \/ StoreHit(s) \/ LrHit(s) \/ ScHit(s) \/ AmoHit(s)
             PROVE Inv'
  BY DEF LookupHit
<1>0. /\ valid' = valid /\ tag' = tag /\ bus' = bus /\ mem' = mem /\ cbo' = cbo
      /\ Hit(s)
  BY DEF LoadHit, StoreHit, LrHit, ScHit, AmoHit, Hit
<1>1. /\ state = "LOOKUP" /\ state' = "RESP" /\ req \in Request /\ req' = None
      /\ req.line \in Line /\ req.word \in Word
  BY <1>0 DEF Hit, Inv, TypeOK, Control, Request
<1>2. data[s][req.word] \in Value
  BY <1>1 DEF Inv, TypeOK, LineData
<1>3. ASSUME NEW value \in Value, StoreWord(s, value)
      PROVE  data' \in [Slot -> LineData] /\ dirty' \subseteq Slot
  <2>1. [data[s] EXCEPT ![req.word] = value] \in LineData
    BY <1>1, <1>3 DEF Inv, TypeOK, LineData
  <2> QED BY <2>1, <1>3 DEF StoreWord, Inv, TypeOK
<1>4. ASSUME req.op \notin {"LOAD", "LR"} PROVE req.operand \in Value
  BY <1>1, <1>4 DEF Request
<1>5. /\ data' \in [Slot -> LineData] /\ dirty' \subseteq Slot
      /\ resp' \in [rdata : Value \cup {0, 1}, err : BOOLEAN]
      /\ resv' \in Line \cup {None}
  <2>1. CASE LoadHit(s)
    BY <1>2, <2>1 DEF LoadHit, Return, Inv, TypeOK
  <2>2. CASE StoreHit(s)
    BY <1>2, <1>3, <1>4, <2>2 DEF StoreHit, Return, Inv, TypeOK
  <2>3. CASE LrHit(s)
    BY <1>1, <1>2, <2>3 DEF LrHit, Return, Inv, TypeOK
  <2>4. CASE ScHit(s)
    <3>1. req.operand \in Value /\ resv' = None
      BY <1>4, <2>4 DEF ScHit
    <3>2. CASE resv = req.line
      <4>1. StoreWord(s, req.operand) /\ resp' = [rdata |-> 0, err |-> FALSE]
        BY <2>4, <3>2 DEF ScHit, Return
      <4> QED BY <1>3, <3>1, <4>1
    <3>3. CASE resv # req.line
      <4>1. data' = data /\ dirty' = dirty /\ resp' = [rdata |-> 1, err |-> FALSE]
        BY <2>4, <3>3 DEF ScHit, Return
      <4> QED BY <3>1, <4>1 DEF Inv, TypeOK
    <3> QED BY <3>2, <3>3
  <2>5. CASE AmoHit(s)
    <3>1. req.operand \in Value
      BY <1>4, <2>5, Amos DEF AmoHit
    <3>2. Alu[req.op] \in [Value -> [Value -> Value]]
      BY <2>5, Amos DEF AmoHit
    <3>3. Alu[req.op][data[s][req.word]][req.operand] \in Value
      BY <1>2, <3>1, <3>2
    <3> QED BY <1>2, <1>3, <3>3, <2>5 DEF AmoHit, Return, Inv, TypeOK
  <2> QED BY <2>1, <2>2, <2>3, <2>4, <2>5
<1>6. victim' \in [Set -> Way]
  <2>1. s[1] \in Set /\ s[2] \in Way
    BY DEF Slot
  <2> QED BY <1>0, <2>1, NextWayIsWay DEF Hit, Inv, TypeOK
<1>7. TypeOK'
  BY <1>0, <1>1, <1>5, <1>6 DEF Hit, Inv, TypeOK, States
<1>8. NoDuplicateLine'
  BY <1>0, LookupFrame DEF Inv
<1> USE DEF MissStates, EvictStates, RefillStates, CboStates, CboWriteStates, WriteStates,
            FlushWriteStates, FlushStates
<1>9. Control'
  BY <1>0, <1>1 DEF Inv, Control
<1>10. BusControl'
  BY <1>0, <1>1 DEF Inv, BusControl, WaitStates
<1> QED BY <1>7, <1>8, <1>9, <1>10 DEF Inv

LEMMA LookupMissInv == Inv /\ LookupMiss => Inv'
<1> SUFFICES ASSUME Inv, LookupMiss PROVE Inv'
  OBVIOUS
<1>0. /\ valid' = valid /\ tag' = tag /\ dirty' = dirty /\ data' = data
      /\ victim' = victim /\ bus' = bus /\ mem' = mem /\ req' = req /\ cbo' = cbo
  BY DEF LookupMiss, cacheVars
<1>1. /\ req \in Request /\ req.line \in Line /\ req.line.set \in Set
  BY DEF LookupMiss, Inv, TypeOK, Control, Request, Line
<1>2. refillWay' \in Way /\ RefillSlot' \in Slot
  BY <1>0, <1>1, VictimIsWay DEF LookupMiss, Inv, RefillSlot, Slot
<1> USE DEF MissStates, EvictStates, RefillStates, CboStates, CboWriteStates, WriteStates,
            FlushWriteStates, FlushStates
<1>3. TypeOK'
  BY <1>0, <1>2 DEF LookupMiss, Inv, TypeOK, States
<1>4. NoDuplicateLine'
  BY <1>0, LookupFrame DEF Inv
<1>5. Control'
  BY <1>0, <1>1, LookupFrame, NoneIsNone DEF LookupMiss, Inv, Control, RefillSlot, WrittenSlot
<1>6. BusControl'
  BY <1>0 DEF LookupMiss, Inv, BusControl, WaitStates
<1> QED BY <1>3, <1>4, <1>5, <1>6 DEF Inv

LEMMA MissFaultInv == Inv /\ MissFault => Inv'
<1> SUFFICES ASSUME Inv, MissFault PROVE Inv'
  OBVIOUS
<1>0. /\ valid' = valid /\ tag' = tag /\ dirty' = dirty /\ data' = data
      /\ victim' = victim /\ bus' = IdleBus /\ mem' = mem /\ req' = None /\ cbo' = cbo
      /\ state' = "RESP"
  BY DEF MissFault, AccessFault, Answered, cacheVars
<1> USE DEF MissStates, EvictStates, RefillStates, CboStates, CboWriteStates, WriteStates,
            FlushWriteStates, FlushStates
<1>1. TypeOK'
  BY <1>0, Geometry DEF MissFault, AccessFault, Inv, TypeOK, States, IdleBus, Way
<1>2. NoDuplicateLine'
  BY <1>0, LookupFrame DEF Inv
<1>3. Control'
  BY <1>0 DEF MissFault, Inv, Control
<1>4. BusControl'
  BY <1>0 DEF BusControl, IdleBus, WaitStates
<1> QED BY <1>1, <1>2, <1>3, <1>4 DEF Inv

LEMMA VictimWrittenInv == Inv /\ VictimWritten => Inv'
<1> SUFFICES ASSUME Inv, VictimWritten PROVE Inv'
  OBVIOUS
<1>0. /\ valid' = valid /\ tag' = tag /\ data' = data /\ dirty' = dirty \ {RefillSlot}
      /\ victim' = victim /\ bus' = IdleBus /\ mem' = mem /\ req' = req /\ cbo' = cbo
      /\ refillWay' = refillWay /\ state \in EvictStates /\ state' = "REFILL_REQ"
  BY DEF VictimWritten, Answered
<1> USE DEF MissStates, EvictStates, RefillStates, CboStates, CboWriteStates, WriteStates,
            FlushWriteStates, FlushStates
<1>1. TypeOK'
  BY <1>0 DEF VictimWritten, Inv, TypeOK, States, IdleBus
<1>2. NoDuplicateLine'
  BY <1>0, LookupFrame DEF Inv
<1>3. Control'
  <2>1. RefillSlot' = RefillSlot
    BY <1>0 DEF RefillSlot
  <2>2. ~Cached(req.line)
    BY <1>0 DEF Inv, Control
  <2> QED BY <1>0, <2>1, <2>2, LookupFrame DEF Inv, Control
<1>4. BusControl'
  BY <1>0 DEF BusControl, IdleBus, WaitStates
<1> QED BY <1>1, <1>2, <1>3, <1>4 DEF Inv

(* The refill writes a line the lookup has missed, so no copy can appear.  *)
LEMMA InstallInv == Inv /\ Install => Inv'
<1> SUFFICES ASSUME Inv, Install PROVE Inv'
  OBVIOUS
<1>0. /\ valid' = valid \cup {RefillSlot} /\ dirty' = dirty \ {RefillSlot}
      /\ data' = [data EXCEPT ![RefillSlot] = bus.data]
      /\ tag' = [tag EXCEPT ![RefillSlot] = req.line.tag]
      /\ victim' = victim /\ bus' = IdleBus /\ mem' = mem /\ req' = req /\ cbo' = cbo
      /\ refillWay' = 0 /\ state \in RefillStates /\ state' = "LOOKUP"
  BY DEF Install, Answered
<1>1. /\ req \in Request /\ req.line \in Line /\ RefillSlot \in Slot
      /\ req.line.set \in Set /\ req.line.tag \in Tag /\ ~Cached(req.line)
  BY <1>0 DEF Inv, TypeOK, Control, Request, Line, MissStates, RefillSlot, Slot
<1>2. bus.data \in LineData
  <2>1. bus.st = "resp"
    BY DEF Install, Answered
  <2>2. ~bus.we
    BY <1>0, <2>1 DEF Inv, BusControl, LineRequest, WriteStates, RefillStates, EvictStates,
                     FlushWriteStates, CboWriteStates
  <2> QED BY <2>1, <2>2 DEF Inv, BusControl
<1> USE DEF MissStates, EvictStates, RefillStates, CboStates, CboWriteStates, WriteStates,
            FlushWriteStates, FlushStates
<1>3. TypeOK'
  <2>1. 0 \in Way
    BY Geometry DEF Way
  <2>2. /\ tag' \in [Slot -> Tag \cup {None}] /\ data' \in [Slot -> LineData]
        /\ \A s \in valid' : tag'[s] \in Tag
    BY <1>0, <1>1, <1>2 DEF Inv, TypeOK
  <2> QED BY <1>0, <1>1, <2>1, <2>2 DEF Install, Inv, TypeOK, States, IdleBus
<1>4. NoDuplicateLine'
  <2>0. PICK r : r = RefillSlot
    OBVIOUS
  <2> SUFFICES ASSUME NEW s \in valid', NEW t \in valid', LineOf(s)' = LineOf(t)'
               PROVE s = t
    BY DEF NoDuplicateLine
  <2>1. ASSUME NEW u \in valid', u # r
        PROVE  u \in valid /\ LineOf(u)' = LineOf(u) /\ LineOf(u) # req.line
    <3>1. u \in valid /\ u \in Slot /\ tag'[u] = tag[u]
      BY <1>0, <1>1, <2>0, <2>1 DEF Inv, TypeOK
    <3>2. Cached(LineOf(u))
      BY <3>1, HeldIsCached DEF Inv
    <3>3. LineOf(u)' = LineOf(u)
      BY <3>1 DEF LineOf
    <3> QED BY <1>1, <3>1, <3>2, <3>3
  <2>2. LineOf(r)' = req.line
    <3>1. r[1] = req.line.set /\ tag'[r] = req.line.tag
      BY <1>0, <1>1, <2>0 DEF RefillSlot, Inv, TypeOK
    <3>2. LineOf(r)' = [set |-> req.line.set, tag |-> req.line.tag]
      BY <3>1 DEF LineOf
    <3> QED BY <1>1, <3>2 DEF Line
  <2> QED BY <2>1, <2>2 DEF Inv, NoDuplicateLine
<1>5. Control'
  BY <1>0, <1>1 DEF Inv, Control
<1>6. BusControl'
  BY <1>0 DEF BusControl, IdleBus, WaitStates
<1> QED BY <1>3, <1>4, <1>5, <1>6 DEF Inv

-----------------------------------------------------------------------------
(* The steps of a CBO.                                                     *)
LEMMA CboLookupInv == Inv /\ CboLookup => Inv'
<1> SUFFICES ASSUME Inv, CboLookup PROVE Inv'
  OBVIOUS
<1>0. /\ tag' = tag /\ data' = data /\ victim' = victim /\ bus' = bus /\ mem' = mem
      /\ req' = req /\ cbo' = cbo /\ flushAt' = flushAt
      /\ state = "CBO_LOOKUP" /\ state' \in {"CBO_WRITEBACK_REQ", "CBO_DONE"}
  BY DEF CboLookup
<1> USE DEF MissStates, EvictStates, RefillStates, CboStates, CboWriteStates, WriteStates,
            FlushWriteStates, FlushStates
<1>1. cbo \in Cbo /\ cbo.line \in Line
  BY <1>0 DEF Inv, TypeOK, Control, Cbo
<1>2. valid' \subseteq valid /\ dirty' \subseteq dirty /\ resv' \in {resv, None}
  BY DEF CboLookup
<1>3. TypeOK'
  BY <1>0, <1>2 DEF CboLookup, Inv, TypeOK, States
<1>4. NoDuplicateLine'
  <2>1. \A s : LineOf(s)' = LineOf(s)
    BY <1>0 DEF LineOf
  <2> QED BY <1>2, <2>1 DEF Inv, NoDuplicateLine
<1>5. Control'
  <2>1. CASE state' = "CBO_DONE"
    BY <1>0, <1>1, <2>1, NoneIsNone DEF Inv, Control
  <2>2. CASE state' = "CBO_WRITEBACK_REQ"
    <3>1. /\ valid' = valid /\ dirty' = dirty /\ Cached(cbo.line)
          /\ HitSlot(cbo.line) \in dirty
      BY <2>2 DEF CboLookup
    <3>2. HitSlot(cbo.line) \in valid
      BY <1>1, <3>1, HitSlotHolds DEF Inv, Holds
    <3>3. WrittenSlot' = HitSlot(cbo.line)
      BY <1>0, <2>2, <3>1, LookupFrame DEF WrittenSlot
    <3> QED BY <1>0, <1>1, <2>2, <3>1, <3>2, <3>3, LookupFrame, NoneIsNone DEF Inv, Control
  <2> QED BY <1>0, <2>1, <2>2
<1>6. BusControl'
  BY <1>0 DEF Inv, BusControl, WaitStates
<1> QED BY <1>3, <1>4, <1>5, <1>6 DEF Inv

LEMMA CboWrittenInv == Inv /\ CboWritten => Inv'
<1> SUFFICES ASSUME Inv, CboWritten PROVE Inv'
  OBVIOUS
<1>0. /\ tag' = tag /\ data' = data /\ victim' = victim /\ bus' = IdleBus /\ mem' = mem
      /\ req' = req /\ cbo' = cbo /\ state \in CboWriteStates /\ state' = "CBO_DONE"
      /\ valid' \subseteq valid /\ dirty' \subseteq dirty /\ cboErr' \in {cboErr, TRUE}
  BY DEF CboWritten, Answered
<1> USE DEF MissStates, EvictStates, RefillStates, CboStates, CboWriteStates, WriteStates,
            FlushWriteStates, FlushStates
<1>1. TypeOK'
  BY <1>0 DEF CboWritten, Inv, TypeOK, States, IdleBus
<1>2. NoDuplicateLine'
  <2>1. \A s : LineOf(s)' = LineOf(s)
    BY <1>0 DEF LineOf
  <2> QED BY <1>0, <2>1 DEF Inv, NoDuplicateLine
<1>3. Control'
  BY <1>0, NoneIsNone DEF Inv, Control
<1>4. BusControl'
  BY <1>0 DEF BusControl, IdleBus, WaitStates
<1> QED BY <1>1, <1>2, <1>3, <1>4 DEF Inv

-----------------------------------------------------------------------------
(* The steps of a FENCE.                                                   *)
LEMMA FlushAdvanceStep ==
  ASSUME Inv, FlushAdvance
  PROVE  flushAt' \in Slot /\ state' \in {"FLUSH_SCAN", "FLUSH_DONE"}
<1>1. /\ flushAt[1] \in Set /\ flushAt[2] \in Way /\ 0 \in Way /\ 0 \in Set
      /\ NextWay(flushAt[2]) \in Way
  BY Geometry, NextWayIsWay DEF Inv, TypeOK, Slot, Set, Way
<1>2. flushAt[1] # NSets - 1 => flushAt[1] + 1 \in Set
  BY <1>1, Geometry DEF Set
<1> QED BY <1>1, <1>2 DEF FlushAdvance, Slot

LEMMA FlushScanInv == Inv /\ FlushScan => Inv'
<1> SUFFICES ASSUME Inv, FlushScan PROVE Inv'
  OBVIOUS
<1>0. /\ valid' = valid /\ tag' = tag /\ dirty' = dirty /\ data' = data
      /\ victim' = victim /\ bus' = bus /\ mem' = mem /\ req' = req /\ cbo' = cbo
      /\ state = "FLUSH_SCAN"
  BY DEF FlushScan, cacheVars
<1>1. /\ flushAt' \in Slot
      /\ \/ state' \in {"FLUSH_SCAN", "FLUSH_DONE"}
         \/ state' = "FLUSH_WRITEBACK_REQ" /\ flushAt' \in valid \cap dirty
  <2>1. CASE flushAt \in valid \cap dirty
    BY <2>1 DEF FlushScan, Inv, TypeOK
  <2>2. CASE flushAt \notin valid \cap dirty
    BY <2>2, FlushAdvanceStep DEF FlushScan
  <2> QED BY <2>1, <2>2
<1> USE DEF MissStates, EvictStates, RefillStates, CboStates, CboWriteStates, WriteStates,
            FlushWriteStates, FlushStates
<1>2. TypeOK'
  BY <1>0, <1>1 DEF FlushScan, Inv, TypeOK, States
<1>3. NoDuplicateLine'
  BY <1>0, LookupFrame DEF Inv
<1>4. Control'
  BY <1>0, <1>1 DEF Inv, Control, WrittenSlot
<1>5. BusControl'
  BY <1>0, <1>1 DEF Inv, BusControl, WaitStates
<1> QED BY <1>2, <1>3, <1>4, <1>5 DEF Inv

LEMMA FlushWrittenInv == Inv /\ FlushWritten => Inv'
<1> SUFFICES ASSUME Inv, FlushWritten PROVE Inv'
  OBVIOUS
<1>0. /\ valid' = valid /\ tag' = tag /\ data' = data /\ dirty' \subseteq dirty
      /\ victim' = victim /\ bus' = IdleBus /\ mem' = mem /\ req' = req /\ cbo' = cbo
      /\ state \in FlushWriteStates /\ flushErr' \in {flushErr, TRUE}
  BY DEF FlushWritten, Answered
<1>1. flushAt' \in Slot /\ state' \in {"FLUSH_SCAN", "FLUSH_DONE"}
  <2>1. <<0, 0>> \in Slot
    BY Geometry DEF Slot, Set, Way
  <2> QED BY <2>1, FlushAdvanceStep DEF FlushWritten
<1> USE DEF MissStates, EvictStates, RefillStates, CboStates, CboWriteStates, WriteStates,
            FlushWriteStates, FlushStates
<1>2. TypeOK'
  BY <1>0, <1>1 DEF FlushWritten, Inv, TypeOK, States, IdleBus
<1>3. NoDuplicateLine'
  BY <1>0, LookupFrame DEF Inv
<1>4. Control'
  BY <1>0, <1>1 DEF Inv, Control
<1>5. BusControl'
  BY <1>0, <1>1 DEF BusControl, IdleBus, WaitStates
<1> QED BY <1>2, <1>3, <1>4, <1>5 DEF Inv

-----------------------------------------------------------------------------
LEMMA InvInductive == Inv /\ [Next]_vars => Inv'
<1> SUFFICES ASSUME Inv, [Next]_vars PROVE Inv'
  OBVIOUS
<1>1. CASE CacheStep
  BY <1>1, AwaitLineInv, LookupHitInv, LookupMissInv, MissFaultInv, VictimWrittenInv,
     InstallInv, CboLookupInv, CboWrittenInv, FlushScanInv, FlushWrittenInv DEF CacheStep
<1>2. CASE ServeLine
  BY <1>2, ServeLineInv
<1>3. CASE Take
  BY <1>3, TakeInv
<1>4. ASSUME NEW l \in Line, NEW w \in Word, NEW v \in DmaValue, DmaWrite(l, w, v)
      PROVE  Inv'
  BY <1>4, DmaWriteInv
<1>5. CASE UNCHANGED vars
  <2>1. /\ UNCHANGED <<state, valid, dirty, tag, data, victim, req, cbo, refillWay>>
        /\ UNCHANGED <<flushAt, resp, flushErr, cboErr, resv, mem, bus>>
    BY <1>5 DEF vars
  <2>2. TypeOK'
    BY <2>1 DEF Inv, TypeOK
  <2>3. NoDuplicateLine'
    BY <2>1, LookupFrame DEF Inv
  <2>4. /\ WrittenSlot' = WrittenSlot /\ RefillSlot' = RefillSlot
        /\ LineRequest' = LineRequest
    BY <2>1 DEF WrittenSlot, RefillSlot, LineRequest, HitSlot, HitWay, Holds, LineOf
  <2>5. Control'
    BY <2>1, <2>4, LookupFrame DEF Inv, Control
  <2>6. BusControl'
    BY <2>1, <2>4 DEF Inv, BusControl
  <2> QED BY <2>2, <2>3, <2>5, <2>6 DEF Inv
<1> QED BY <1>1, <1>2, <1>3, <1>4, <1>5 DEF Next, Take

LEMMA InvAlways == Spec => []Inv
BY InitInv, InvInductive, PTL DEF Spec

\* Every register keeps its width, whatever is requested and however memory answers.
THEOREM TypeCorrect == Spec => []TypeOK
<1>1. Inv => TypeOK
  BY DEF Inv
<1> QED BY <1>1, InvAlways, PTL

\* No refill installs a line the cache already holds, so a lookup can only find the
\* current copy (dcache.sv:220-234 and 439-471).
THEOREM NoDuplicateLineAlways == Spec => []NoDuplicateLine
<1>1. Inv => NoDuplicateLine
  BY DEF Inv
<1> QED BY <1>1, InvAlways, PTL

-----------------------------------------------------------------------------
(* Clean lines.  A slot loses its dirty bit at the end of a write-back, so  *)
(* what memory has taken must still be what the slot holds; a slot is filled *)
(* at the end of a refill, so what memory gave must still be what it holds.  *)
Carried ==
  bus.st = "resp" /\ ~bus.err =>
    IF bus.we THEN data[WrittenSlot] = mem[LineOf(WrittenSlot)]
              ELSE bus.data = mem[bus.line]
CleanInv == Inv /\ CleanMatchesMemory /\ Carried

(* Between transactions nothing is carried.                                *)
LEMMA NothingCarried ==
  ASSUME Inv, state \notin WriteStates \cup RefillStates PROVE bus.st = "idle"
BY DEF Inv, TypeOK, BusControl

(* Steps that store nothing, bring in nothing and clean nothing.           *)
LEMMA QuietClean ==
  ASSUME CleanInv, valid' \ dirty' \subseteq valid \ dirty,
         UNCHANGED <<tag, data, mem>>
  PROVE  CleanMatchesMemory'
BY DEF CleanInv, CleanMatchesMemory, LineOf

(* A step that ends with an idle bus carries nothing.                      *)
LEMMA IdleCarries == ASSUME bus'.st # "resp" PROVE Carried'
BY DEF Carried

LEMMA TakeClean == ASSUME CleanInv, Take PROVE CleanMatchesMemory' /\ Carried'
<1>1. /\ UNCHANGED <<valid, dirty, tag, data, mem, bus>>
      /\ state \in {"IDLE", "RESP", "FLUSH_DONE", "CBO_DONE"}
  BY DEF Take, AcceptCpu, AcceptCbo, AcceptFlush, GoIdle, cacheVars
<1>2. bus.st = "idle"
  BY <1>1, NothingCarried DEF CleanInv, WriteStates, RefillStates, EvictStates,
     FlushWriteStates, CboWriteStates
<1> QED BY <1>1, <1>2, QuietClean, IdleCarries

LEMMA AwaitLineClean == ASSUME CleanInv, AwaitLine PROVE CleanMatchesMemory' /\ Carried'
<1>1. UNCHANGED <<valid, dirty, tag, data, mem>> /\ bus' = LineRequest
  BY DEF AwaitLine, cacheVars
<1>2. LineRequest.st = "req"
  BY LineRequestType DEF AwaitLine, CleanInv
<1> QED BY <1>1, <1>2, QuietClean, IdleCarries

(* Memory takes a whole dirty line, or gives one; the clean copies are of   *)
(* other lines, since no line has two.                                     *)
LEMMA ServeLineClean ==
  ASSUME CleanInv, Inv', ServeLine PROVE CleanMatchesMemory' /\ Carried'
<1>0. UNCHANGED <<state, valid, dirty, tag, data, victim, req, cbo, refillWay, flushAt>>
  BY DEF ServeLine, cacheVars
<1>1. /\ WrittenSlot' = WrittenSlot /\ LineRequest' = LineRequest
      /\ \A s : LineOf(s)' = LineOf(s)
  BY <1>0, LookupFrame DEF WrittenSlot, LineRequest, RefillSlot
<1>2. state \in ReqStates \cup WaitStates
  BY DEF ServeLine, Outstanding, CleanInv, Inv, TypeOK, BusControl, WriteStates, RefillStates,
         EvictStates, FlushWriteStates, CboWriteStates, ReqStates, WaitStates
<1>3. /\ Outstanding.st = "req" /\ Outstanding.we = LineRequest.we
      /\ Outstanding.line = LineRequest.line
      /\ Outstanding.we => Outstanding.data = LineRequest.data
      /\ Outstanding.we \in BOOLEAN /\ Outstanding.line \in Line
      /\ Outstanding = [st |-> "req", we |-> Outstanding.we, line |-> Outstanding.line,
                        data |-> Outstanding.data, err |-> Outstanding.err]
  <2>1. CASE bus.st = "idle"
    BY <1>2, <2>1, LineRequestType DEF ServeLine, Outstanding, CleanInv
  <2>2. CASE bus.st # "idle"
    BY <1>2, <2>2, LineRequestType DEF ServeLine, Outstanding, CleanInv, Inv, BusControl, TypeOK
  <2> QED BY <2>1, <2>2
<1>4. PICK err \in BOOLEAN :
        /\ bus' = [Outstanding EXCEPT !.st = "resp", !.err = err,
                     !.data = IF Outstanding.we THEN None ELSE mem[Outstanding.line]]
        /\ IF Outstanding.we
           THEN \E d \in Written(Outstanding.line, Outstanding.data, err) :
                  mem' = [mem EXCEPT ![Outstanding.line] = d]
           ELSE mem' = mem
  BY DEF ServeLine
<1>5. CASE ~Outstanding.we
  <2>1. mem' = mem /\ bus'.data = mem[Outstanding.line] /\ bus'.line = Outstanding.line
        /\ ~bus'.we
    BY <1>3, <1>4, <1>5
  <2>2. Carried'
    BY <2>1 DEF Carried
  <2> QED BY <1>0, <2>1, <2>2, QuietClean
<1>6. CASE Outstanding.we
  <2>1. state \in WriteStates /\ WrittenSlot \in valid \cap dirty
    BY <1>2, <1>3, <1>6, LineRequestType DEF CleanInv, Inv, Control
  <2>2. /\ Outstanding.line = LineOf(WrittenSlot) /\ LineOf(WrittenSlot) \in Line
        /\ Outstanding.data = data[WrittenSlot] /\ bus'.we /\ bus'.err = err
    BY <1>3, <1>4, <1>6, <2>1, HeldIsCached DEF LineRequest, CleanInv, Inv
  <2>3. PICK d \in Written(Outstanding.line, Outstanding.data, err) :
          mem' = [mem EXCEPT ![Outstanding.line] = d]
    BY <1>4, <1>6
  <2>4. CleanMatchesMemory'
    <3> SUFFICES ASSUME NEW s \in valid \ dirty PROVE data[s] = mem'[LineOf(s)]
      BY <1>0, <1>1 DEF CleanMatchesMemory
    <3>1. LineOf(s) \in Line /\ LineOf(s) # LineOf(WrittenSlot)
      BY <2>1, HeldIsCached DEF CleanInv, Inv, NoDuplicateLine
    <3>2. mem'[LineOf(s)] = mem[LineOf(s)]
      BY <2>2, <2>3, <3>1 DEF CleanInv, Inv, TypeOK
    <3> QED BY <3>2 DEF CleanInv, CleanMatchesMemory
  <2>5. ~err => mem'[LineOf(WrittenSlot)] = data[WrittenSlot]
    BY <2>2, <2>3 DEF Written, CleanInv, Inv, TypeOK
  <2>6. Carried'
    BY <1>0, <1>1, <2>2, <2>5 DEF Carried
  <2> QED BY <2>4, <2>6
<1> QED BY <1>5, <1>6

LEMMA LookupHitClean == ASSUME CleanInv, LookupHit PROVE CleanMatchesMemory' /\ Carried'
<1>1. PICK s \in Slot : LoadHit(s) \/ StoreHit(s) \/ LrHit(s) \/ ScHit(s) \/ AmoHit(s)
  BY DEF LookupHit
<1>2. /\ state = "LOOKUP" /\ UNCHANGED <<valid, tag, mem, bus>>
      /\ \/ UNCHANGED <<data, dirty>>
         \/ \E value : StoreWord(s, value)
  BY <1>1 DEF LoadHit, StoreHit, LrHit, ScHit, AmoHit, Hit
<1>3. dirty \subseteq dirty' /\ \A t \in Slot \ dirty' : data'[t] = data[t]
  BY <1>2 DEF StoreWord, CleanInv, Inv, TypeOK
<1>4. bus.st = "idle"
  BY <1>2, NothingCarried DEF CleanInv, WriteStates, RefillStates, EvictStates,
     FlushWriteStates, CboWriteStates
<1>5. CleanMatchesMemory'
  BY <1>2, <1>3 DEF CleanInv, CleanMatchesMemory, LineOf, Inv, TypeOK
<1> QED BY <1>2, <1>4, <1>5, IdleCarries

LEMMA LookupMissClean == ASSUME CleanInv, LookupMiss PROVE CleanMatchesMemory' /\ Carried'
<1>1. UNCHANGED <<valid, dirty, tag, data, mem, bus>> /\ state = "LOOKUP"
  BY DEF LookupMiss, cacheVars
<1>2. bus.st = "idle"
  BY <1>1, NothingCarried DEF CleanInv, WriteStates, RefillStates, EvictStates,
     FlushWriteStates, CboWriteStates
<1> QED BY <1>1, <1>2, QuietClean, IdleCarries

LEMMA MissFaultClean == ASSUME CleanInv, MissFault PROVE CleanMatchesMemory' /\ Carried'
<1>1. UNCHANGED <<valid, dirty, tag, data, mem>> /\ bus'.st = "idle"
  BY DEF MissFault, AccessFault, Answered, IdleBus, cacheVars
<1> QED BY <1>1, QuietClean, IdleCarries

(* The end of a write-back: the slot that becomes clean holds what memory took. *)
LEMMA WrittenBack ==
  ASSUME CleanInv, Answered(FALSE), state \in WriteStates,
         valid' \ dirty' \subseteq (valid \ dirty) \cup {WrittenSlot},
         UNCHANGED <<tag, data, mem>>
  PROVE  CleanMatchesMemory' /\ Carried'
<1>1. bus.st = "resp" /\ ~bus.err /\ bus'.st = "idle"
  BY DEF Answered, IdleBus
<1>2. bus.we
  BY <1>1, LineRequestType DEF CleanInv, Inv, BusControl, LineRequest
<1>3. data[WrittenSlot] = mem[LineOf(WrittenSlot)]
  BY <1>1, <1>2 DEF CleanInv, Carried
<1>4. CleanMatchesMemory'
  BY <1>3 DEF CleanInv, CleanMatchesMemory, LineOf
<1> QED BY <1>1, <1>4, IdleCarries

LEMMA VictimWrittenClean ==
  ASSUME CleanInv, VictimWritten PROVE CleanMatchesMemory' /\ Carried'
<1>1. /\ state \in EvictStates /\ Answered(FALSE) /\ UNCHANGED <<valid, tag, data, mem>>
      /\ dirty' = dirty \ {RefillSlot}
  BY DEF VictimWritten
<1>2. WrittenSlot = RefillSlot /\ state \in WriteStates
  BY <1>1 DEF WrittenSlot, WriteStates
<1> QED BY <1>1, <1>2, WrittenBack

LEMMA InstallClean == ASSUME CleanInv, Install PROVE CleanMatchesMemory' /\ Carried'
<1>0. /\ valid' = valid \cup {RefillSlot} /\ dirty' = dirty \ {RefillSlot}
      /\ data' = [data EXCEPT ![RefillSlot] = bus.data]
      /\ tag' = [tag EXCEPT ![RefillSlot] = req.line.tag]
      /\ state \in RefillStates /\ bus.st = "resp" /\ ~bus.err /\ bus'.st = "idle"
      /\ mem' = mem
  BY DEF Install, Answered, IdleBus
<1>1. /\ req \in Request /\ req.line \in Line /\ RefillSlot \in Slot
      /\ RefillSlot[1] = req.line.set
  BY <1>0 DEF CleanInv, Inv, TypeOK, Control, Request, Line, MissStates, RefillSlot, Slot
<1>2. ~bus.we /\ bus.line = req.line
  BY <1>0 DEF CleanInv, Inv, BusControl, LineRequest, WriteStates, RefillStates, EvictStates,
     FlushWriteStates, CboWriteStates
<1>3. bus.data = mem[req.line]
  BY <1>0, <1>2 DEF CleanInv, Carried
<1>4. CleanMatchesMemory'
  <2> SUFFICES ASSUME NEW s \in valid' \ dirty' PROVE data'[s] = mem[LineOf(s)']
    BY <1>0 DEF CleanMatchesMemory
  <2>1. CASE s = RefillSlot
    <3>1. data'[s] = bus.data /\ tag'[s] = req.line.tag
      BY <1>0, <1>1, <2>1 DEF CleanInv, Inv, TypeOK
    <3>2. LineOf(s)' = req.line
      BY <1>1, <2>1, <3>1 DEF LineOf, Line
    <3> QED BY <1>3, <3>1, <3>2
  <2>2. CASE s # RefillSlot
    <3>1. s \in valid \ dirty /\ s \in Slot
      BY <1>0, <2>2 DEF CleanInv, Inv, TypeOK
    <3>2. data'[s] = data[s] /\ LineOf(s)' = LineOf(s)
      BY <1>0, <2>2, <3>1 DEF CleanInv, Inv, TypeOK, LineOf
    <3> QED BY <3>1, <3>2 DEF CleanInv, CleanMatchesMemory
  <2> QED BY <2>1, <2>2
<1> QED BY <1>0, <1>4, IdleCarries

LEMMA CboLookupClean == ASSUME CleanInv, CboLookup PROVE CleanMatchesMemory' /\ Carried'
<1>1. UNCHANGED <<tag, data, mem, bus>> /\ state = "CBO_LOOKUP"
      /\ valid' \ dirty' \subseteq valid \ dirty
  BY DEF CboLookup
<1>2. bus.st = "idle"
  BY <1>1, NothingCarried DEF CleanInv, WriteStates, RefillStates, EvictStates,
     FlushWriteStates, CboWriteStates
<1> QED BY <1>1, <1>2, QuietClean, IdleCarries

LEMMA CboWrittenClean == ASSUME CleanInv, CboWritten PROVE CleanMatchesMemory' /\ Carried'
<1>1. UNCHANGED <<tag, data, mem>> /\ state \in CboWriteStates
  BY DEF CboWritten
<1>2. WrittenSlot = HitSlot(cbo.line) /\ state \in WriteStates
  BY <1>1 DEF WrittenSlot, WriteStates, EvictStates, FlushWriteStates, CboWriteStates
<1>3. CASE Answered(TRUE)
  BY <1>1, <1>3, QuietClean, IdleCarries DEF CboWritten, Answered, IdleBus
<1>4. CASE Answered(FALSE)
  BY <1>1, <1>2, <1>4, WrittenBack DEF CboWritten, Answered
<1> QED BY <1>3, <1>4 DEF CboWritten

LEMMA FlushScanClean == ASSUME CleanInv, FlushScan PROVE CleanMatchesMemory' /\ Carried'
<1>1. UNCHANGED <<valid, dirty, tag, data, mem, bus>> /\ state = "FLUSH_SCAN"
  BY DEF FlushScan, cacheVars
<1>2. bus.st = "idle"
  BY <1>1, NothingCarried DEF CleanInv, WriteStates, RefillStates, EvictStates,
     FlushWriteStates, CboWriteStates
<1> QED BY <1>1, <1>2, QuietClean, IdleCarries

LEMMA FlushWrittenClean ==
  ASSUME CleanInv, FlushWritten PROVE CleanMatchesMemory' /\ Carried'
<1>1. UNCHANGED <<valid, tag, data, mem>> /\ state \in FlushWriteStates
  BY DEF FlushWritten
<1>2. WrittenSlot = flushAt /\ state \in WriteStates
  BY <1>1 DEF WrittenSlot, WriteStates, EvictStates, FlushWriteStates
<1>3. CASE Answered(TRUE)
  BY <1>1, <1>3, QuietClean, IdleCarries DEF FlushWritten, Answered, IdleBus
<1>4. CASE Answered(FALSE)
  BY <1>1, <1>2, <1>4, WrittenBack DEF FlushWritten, Answered
<1> QED BY <1>3, <1>4 DEF FlushWritten

LEMMA CleanInductive ==
  ASSUME DmaValue = {} PROVE CleanInv /\ [Next]_vars => CleanInv'
<1> SUFFICES ASSUME CleanInv, [Next]_vars PROVE CleanInv'
  OBVIOUS
<1>0. Inv'
  BY InvInductive DEF CleanInv
<1>1. CASE CacheStep
  BY <1>0, <1>1, AwaitLineClean, LookupHitClean, LookupMissClean, MissFaultClean,
     VictimWrittenClean, InstallClean, CboLookupClean, CboWrittenClean, FlushScanClean,
     FlushWrittenClean DEF CacheStep, CleanInv
<1>2. CASE ServeLine
  BY <1>0, <1>2, ServeLineClean DEF CleanInv
<1>3. CASE Take
  BY <1>0, <1>3, TakeClean DEF CleanInv
<1>4. CASE UNCHANGED vars
  <2>1. UNCHANGED <<state, valid, dirty, tag, data, req, cbo, refillWay, flushAt, mem, bus>>
    BY <1>4 DEF vars
  <2>2. WrittenSlot' = WrittenSlot /\ \A s : LineOf(s)' = LineOf(s)
    BY <2>1, LookupFrame DEF WrittenSlot, RefillSlot
  <2> QED BY <1>0, <2>1, <2>2 DEF CleanInv, CleanMatchesMemory, Carried
<1> QED BY <1>1, <1>2, <1>3, <1>4 DEF Next, Take

\* Without DMA a clean line is what memory holds, for every geometry: dirty_q is
\* cleared only on a write-back that has succeeded, of the content it still has.
THEOREM CleanMatchesMemoryAlways ==
  ASSUME DmaValue = {} PROVE Spec => []CleanMatchesMemory
<1>1. Init => CleanInv
  BY InitInv DEF Init, CleanInv, CleanMatchesMemory, Carried, IdleBus
<1>2. CleanInv => CleanMatchesMemory
  BY DEF CleanInv
<1> QED BY <1>1, <1>2, CleanInductive, PTL DEF Spec

-----------------------------------------------------------------------------
(* The FENCE walk.  What is dirty lies at or after its position, and nothing *)
(* is stored while it is under way.                                          *)
Ahead(s) == s[1] > flushAt[1] \/ (s[1] = flushAt[1] /\ s[2] >= flushAt[2])
Walk == state \in FlushStates => \A s \in valid \cap dirty : Ahead(s)
FenceInv == Inv /\ Walk /\ FenceCleansAll

(* The walk moves on by one slot, from the last way to the next set.       *)
LEMMA Advanced ==
  ASSUME NWays = 2, Inv, FlushAdvance, NEW s \in Slot, Ahead(s), s # flushAt
  PROVE  state' = "FLUSH_SCAN" /\ Ahead(s)'
<1>1. /\ flushAt[1] \in Set /\ flushAt[2] \in {0, 1} /\ flushAt = <<flushAt[1], flushAt[2]>>
      /\ s[1] \in Set /\ s[2] \in {0, 1} /\ s = <<s[1], s[2]>>
  BY DEF Inv, TypeOK, Slot, Way
<1>2. Set \subseteq Int /\ \A n \in Set : n <= NSets - 1 /\ NSets \in Int
  BY Geometry DEF Set
<1>3. LastFlushWay = 1 /\ NextWay(0) = 1
  BY DEF LastFlushWay, NextWay
<1>4. CASE flushAt[2] = 0
  <2>1. flushAt' = <<flushAt[1], 1>> /\ state' = "FLUSH_SCAN"
    BY <1>3, <1>4 DEF FlushAdvance
  <2>2. s[1] > flushAt[1] \/ (s[1] = flushAt[1] /\ s[2] = 1)
    BY <1>1, <1>4 DEF Ahead
  <2> QED BY <1>1, <2>1, <2>2 DEF Ahead
<1>5. CASE flushAt[2] = 1
  <2>1. s[1] > flushAt[1]
    BY <1>1, <1>5 DEF Ahead
  <2>2. flushAt[1] # NSets - 1 /\ s[1] >= flushAt[1] + 1
    BY <1>1, <1>2, <2>1
  <2>3. flushAt' = <<flushAt[1] + 1, 0>> /\ state' = "FLUSH_SCAN"
    BY <1>3, <1>5, <2>2 DEF FlushAdvance
  <2> QED BY <1>1, <1>2, <2>2, <2>3 DEF Ahead
<1> QED BY <1>1, <1>4, <1>5

(* Once the slot under the walk is clean, the walk may leave it behind.    *)
LEMMA AdvancedWalk ==
  ASSUME NWays = 2, FenceInv, state \in FlushStates, FlushAdvance, valid' = valid,
         dirty' \subseteq dirty, flushAt \notin valid \cap dirty'
  PROVE  Walk' /\ FenceCleansAll'
<1>1. \A s \in valid' \cap dirty' : s \in Slot /\ Ahead(s) /\ s # flushAt
  BY DEF FenceInv, Walk, Inv, TypeOK
<1>2. \A s \in valid' \cap dirty' : state' = "FLUSH_SCAN" /\ Ahead(s)'
  BY <1>1, Advanced DEF FenceInv
<1> QED BY <1>2 DEF Walk, FenceCleansAll

(* Steps that leave the walk where it is and make nothing dirty.           *)
LEMMA QuietWalk ==
  ASSUME FenceInv, valid' = valid, dirty' = dirty, flushAt' = flushAt,
         state' \in FlushStates => state \in FlushStates,
         state' = "FLUSH_DONE" => state = "FLUSH_DONE" /\ flushErr' = flushErr
  PROVE  Walk' /\ FenceCleansAll'
BY DEF FenceInv, Walk, FenceCleansAll, Ahead

(* Steps after which no FENCE is under way.                                *)
LEMMA NoWalk ==
  ASSUME state' \notin FlushStates \cup {"FLUSH_DONE"} PROVE Walk' /\ FenceCleansAll'
BY DEF Walk, FenceCleansAll

LEMMA TakeFence == ASSUME FenceInv, Inv', Take PROVE Walk' /\ FenceCleansAll'
<1>1. CASE AcceptFlush
  <2>1. flushAt' = <<0, 0>> /\ state' = "FLUSH_SCAN" /\ valid' = valid /\ dirty' = dirty
    BY <1>1 DEF AcceptFlush, cacheVars
  <2>2. \A s \in Slot : s[1] \in Nat /\ s[2] \in Nat
    BY Geometry DEF Slot, Set, Way
  <2>3. \A s \in valid' \cap dirty' : s \in Slot
    BY <2>1 DEF FenceInv, Inv, TypeOK
  <2> QED BY <2>1, <2>2, <2>3 DEF Walk, FenceCleansAll, Ahead
<1>2. CASE ~AcceptFlush
  BY <1>2, NoWalk DEF Take, AcceptCpu, AcceptCbo, GoIdle, FlushStates, FlushWriteStates
<1> QED BY <1>1, <1>2

LEMMA AwaitLineFence == ASSUME FenceInv, AwaitLine PROVE Walk' /\ FenceCleansAll'
<1>1. /\ UNCHANGED <<valid, dirty, flushAt, flushErr>>
      /\ \/ state = "WRITEBACK_REQ" /\ state' = "WRITEBACK_WAIT"
         \/ state = "REFILL_REQ" /\ state' = "REFILL_WAIT"
         \/ state = "FLUSH_WRITEBACK_REQ" /\ state' = "FLUSH_WRITEBACK_WAIT"
         \/ state = "CBO_WRITEBACK_REQ" /\ state' = "CBO_WRITEBACK_WAIT"
  BY DEF AwaitLine, cacheVars, ReqStates, WaitOf
<1> QED BY <1>1, QuietWalk DEF FlushStates, FlushWriteStates

LEMMA FlushScanFence ==
  ASSUME NWays = 2, FenceInv, FlushScan PROVE Walk' /\ FenceCleansAll'
<1>1. UNCHANGED <<valid, dirty, flushErr>> /\ state = "FLUSH_SCAN" /\ state \in FlushStates
  BY DEF FlushScan, cacheVars, FlushStates
<1>2. CASE flushAt \in valid \cap dirty
  BY <1>1, <1>2, QuietWalk DEF FlushScan
<1>3. CASE flushAt \notin valid \cap dirty
  BY <1>1, <1>3, AdvancedWalk DEF FlushScan
<1> QED BY <1>2, <1>3

LEMMA FlushWrittenFence ==
  ASSUME NWays = 2, FenceInv, FlushWritten PROVE Walk' /\ FenceCleansAll'
<1>1. valid' = valid /\ state \in FlushStates
  BY DEF FlushWritten, FlushStates
<1>2. CASE flushErr' = TRUE /\ state' = "FLUSH_DONE"
  BY <1>2 DEF Walk, FenceCleansAll, FlushStates, FlushWriteStates
<1>3. CASE dirty' = dirty \ {flushAt} /\ FlushAdvance
  BY <1>1, <1>3, AdvancedWalk
<1> QED BY <1>2, <1>3 DEF FlushWritten

LEMMA FenceInductive == ASSUME NWays = 2 PROVE FenceInv /\ [Next]_vars => FenceInv'
<1> SUFFICES ASSUME FenceInv, [Next]_vars PROVE FenceInv'
  OBVIOUS
<1>0. Inv'
  BY InvInductive DEF FenceInv
<1> USE DEF FlushStates, FlushWriteStates
<1>1. CASE AwaitLine
  BY <1>0, <1>1, AwaitLineFence DEF FenceInv
<1>2. CASE FlushScan
  BY <1>0, <1>2, FlushScanFence DEF FenceInv
<1>3. CASE FlushWritten
  BY <1>0, <1>3, FlushWrittenFence DEF FenceInv
<1>4. CASE LookupHit \/ LookupMiss \/ MissFault \/ VictimWritten \/ Install
           \/ CboLookup \/ CboWritten
  <2>1. state' \in {"RESP", "WRITEBACK_REQ", "REFILL_REQ", "LOOKUP", "CBO_DONE",
                    "CBO_WRITEBACK_REQ"}
    BY <1>4 DEF LookupHit, LoadHit, StoreHit, LrHit, ScHit, AmoHit, Hit, LookupMiss, MissFault,
                AccessFault, VictimWritten, Install, CboLookup, CboWritten
  <2> QED BY <1>0, <2>1, NoWalk DEF FenceInv
<1>5. CASE ServeLine
  BY <1>0, <1>5, QuietWalk DEF ServeLine, cacheVars, FenceInv
<1>6. ASSUME NEW l \in Line, NEW w \in Word, NEW v \in DmaValue, DmaWrite(l, w, v)
      PROVE  FenceInv'
  BY <1>0, <1>6, QuietWalk DEF DmaWrite, cacheVars, FenceInv
<1>7. CASE Take
  BY <1>0, <1>7, TakeFence DEF FenceInv
<1>8. CASE UNCHANGED vars
  BY <1>0, <1>8, QuietWalk DEF vars, FenceInv
<1> QED BY <1>1, <1>2, <1>3, <1>4, <1>5, <1>6, <1>7, <1>8 DEF Next, CacheStep, Take

\* A FENCE of the two-way cache that reports no error has left no dirty line, for
\* every number of sets, with DMA behind it and any answers of memory.
THEOREM FenceCleansAllAlways ==
  ASSUME NWays = 2 PROVE Spec => []FenceCleansAll
<1>1. Init => FenceInv
  BY InitInv DEF Init, FenceInv, Walk, FenceCleansAll, FlushStates, FlushWriteStates
<1>2. FenceInv => FenceCleansAll
  BY DEF FenceInv
<1> QED BY <1>1, <1>2, FenceInductive, PTL DEF Spec

-----------------------------------------------------------------------------
(* The two-way data cache implements MemoryContract, for every number of    *)
(* sets, tags, words, values and AMOs, with failing transfers and DMA: each *)
(* step of the cache is a step of the contract, or invisible to it.        *)

(* What the refinement needs besides the invariants: an answer and an error *)
(* are shown only in the states that end an operation.                     *)
Shown ==
  /\ resp # None => state = "RESP"
  /\ state \in FlushStates => ~flushErr
  /\ state \in CboStates => ~cboErr
  /\ state \in CboWriteStates => cbo.op # "INVAL"
RInv == FenceInv /\ Shown

(* The view and the debt, slot by slot.                                    *)
LEMMA SlotFound ==
  ASSUME Inv, NEW s \in valid
  PROVE  Cached(LineOf(s)) /\ HitSlot(LineOf(s)) = s /\ LineOf(s) \in Line
<1>1. Cached(LineOf(s)) /\ LineOf(s) \in Line
  BY HeldIsCached DEF Inv
<1>2. /\ HitSlot(LineOf(s)) \in valid
      /\ LineOf(HitSlot(LineOf(s))) = LineOf(s)
  BY <1>1, HitSlotHolds DEF Inv, Holds
<1> QED BY <1>1, <1>2 DEF Inv, NoDuplicateLine

ViewBySlot ==
  /\ View = [l \in Line |-> View[l]]
  /\ \A s \in valid : View[LineOf(s)] = data[s] /\ LineOf(s) \in Line
  /\ \A l \in Line : (\A s \in valid : LineOf(s) # l) =>
       View[l] = IF ServedRead(l) THEN bus.data ELSE None
OwedBySlot ==
  /\ Owed \subseteq Line
  /\ \A l \in Line : l \in Owed <=> /\ \E s \in valid \cap dirty : LineOf(s) = l
                                    /\ ~ServedWrite(l)

LEMMA BySlot == Inv => ViewBySlot /\ OwedBySlot
<1> SUFFICES ASSUME Inv PROVE ViewBySlot /\ OwedBySlot
  OBVIOUS
<1>1. ASSUME NEW l \in Line, Cached(l) PROVE \E s \in valid : LineOf(s) = l /\ HitSlot(l) = s
  BY <1>1, HitSlotHolds DEF Inv, Holds
<1>2. ViewBySlot
  <2>1. View = [l \in Line |-> View[l]]
    BY DEF View
  <2>2. \A s \in valid : View[LineOf(s)] = data[s] /\ LineOf(s) \in Line
    BY SlotFound DEF View
  <2>3. \A l \in Line : (\A s \in valid : LineOf(s) # l) =>
          View[l] = IF ServedRead(l) THEN bus.data ELSE None
    BY <1>1 DEF View
  <2> QED BY <2>1, <2>2, <2>3 DEF ViewBySlot
<1>3. OwedBySlot
  <2>1. \A l \in Line, s \in valid : LineOf(s) = l => Cached(l) /\ HitSlot(l) = s
    BY SlotFound
  <2> QED BY <1>1, <2>1 DEF Owed, OwedBySlot
<1> QED BY <1>2, <1>3

LEMMA BySlotAfter == Inv' => ViewBySlot' /\ OwedBySlot'
BY BySlot, PTL

(* Steps that the contract does not see in the view or in the debt.        *)
SameServed == \A l \in Line : /\ ServedRead(l)' <=> ServedRead(l)
                              /\ ServedWrite(l)' <=> ServedWrite(l)
                              /\ ServedRead(l) => bus'.data = bus.data

LEMMA SameView ==
  ASSUME Inv, Inv', UNCHANGED <<valid, tag, data>>, SameServed PROVE View' = View
<1>1. ViewBySlot /\ ViewBySlot'
  BY BySlot, BySlotAfter
<1>2. \A s : LineOf(s)' = LineOf(s)
  BY DEF LineOf
<1>3. \A l \in Line : View'[l] = View[l]
  <2> SUFFICES ASSUME NEW l \in Line PROVE View'[l] = View[l]
    OBVIOUS
  <2>1. CASE \E s \in valid : LineOf(s) = l
    BY <1>1, <1>2, <2>1 DEF ViewBySlot
  <2>2. CASE ~\E s \in valid : LineOf(s) = l
    <3>1. View[l] = IF ServedRead(l) THEN bus.data ELSE None
      BY <1>1, <2>2 DEF ViewBySlot
    <3>2. View'[l] = IF ServedRead(l)' THEN bus'.data ELSE None
      BY <1>1, <1>2, <2>2 DEF ViewBySlot
    <3> QED BY <3>1, <3>2 DEF SameServed
  <2> QED BY <2>1, <2>2
<1> QED BY <1>1, <1>3 DEF ViewBySlot

LEMMA SameOwed ==
  ASSUME Inv, Inv', UNCHANGED <<valid, tag, dirty>>,
         \A l \in Line : ServedWrite(l)' <=> ServedWrite(l)
  PROVE  Owed' = Owed
<1>1. OwedBySlot /\ OwedBySlot'
  BY BySlot, BySlotAfter
<1>2. \A s : LineOf(s)' = LineOf(s)
  BY DEF LineOf
<1> QED BY <1>1, <1>2 DEF OwedBySlot

(* Nothing is served while no transaction has been answered.               *)
LEMMA Unserved ==
  ASSUME bus.st # "resp" \/ bus.err PROVE \A l \in Line : ~ServedRead(l) /\ ~ServedWrite(l)
BY DEF ServedRead, ServedWrite
LEMMA UnservedAfter ==
  ASSUME bus'.st # "resp" \/ bus'.err
  PROVE  \A l \in Line : ~ServedRead(l)' /\ ~ServedWrite(l)'
BY DEF ServedRead, ServedWrite

(* Outside the states that use the line port nothing is served.            *)
PortStates == WriteStates \cup RefillStates
LEMMA Quiescent == ASSUME Inv, state \notin PortStates PROVE bus.st = "idle"
BY DEF PortStates, Inv, TypeOK, BusControl
-----------------------------------------------------------------------------
ContractStep == Contract!Next \/ UNCHANGED Contract!vars

LEMMA Invisible ==
  ASSUME View' = View, Owed' = Owed, UNCHANGED <<mem, resv, req, resp>>,
         Maintained' = Maintained
  PROVE  ContractStep
BY DEF ContractStep, Contract!vars

(* What the contract sees of a maintenance operation.                      *)
LEMMA NotMaintaining ==
  ASSUME state \notin FlushStates \cup CboStates \cup {"FLUSH_DONE", "CBO_DONE"}
  PROVE  Maintained = None
BY DEF Maintained
LEMMA NotMaintainingAfter ==
  ASSUME state' \notin FlushStates \cup CboStates \cup {"FLUSH_DONE", "CBO_DONE"}
  PROVE  Maintained' = None
BY DEF Maintained

-----------------------------------------------------------------------------
(* Acceptance and withdrawal.                                              *)
LEMMA TakeSame == ASSUME Inv, Inv', Take PROVE View' = View /\ Owed' = Owed /\ mem' = mem
<1>1. UNCHANGED <<valid, tag, data, dirty, bus, mem>>
  BY DEF Take, AcceptCpu, AcceptCbo, AcceptFlush, GoIdle, cacheVars
<1>2. SameServed
  BY <1>1 DEF SameServed, ServedRead, ServedWrite
<1> QED BY <1>1, <1>2, SameView, SameOwed DEF SameServed

LEMMA TakeQuiet == ASSUME Inv, Take PROVE Contract!Quiet
<1>1. state \in {"IDLE", "RESP", "FLUSH_DONE", "CBO_DONE"}
  BY DEF Take, AcceptCpu, AcceptCbo, AcceptFlush, GoIdle
<1>2. req = None
  BY <1>1 DEF Inv, Control, MissStates, EvictStates, RefillStates
<1>3. Maintained = None \/ Maintained.st \in {"ok", "err"}
  BY <1>1 DEF Maintained, FlushStates, FlushWriteStates, CboStates, CboWriteStates
<1> QED BY <1>2, <1>3 DEF Contract!Quiet

LEMMA AcceptCpuStep ==
  ASSUME RInv, Inv', NEW r \in Request, AcceptCpu(r) PROVE ContractStep
<1>1. View' = View /\ Owed' = Owed /\ mem' = mem /\ Contract!Quiet
  BY TakeSame, TakeQuiet DEF Take, RInv, FenceInv
<1>2. r \in Contract!Request
  BY CoreOps DEF Request, Op, Contract!Request, Contract!Op
<1>3. Maintained' = None
  BY NotMaintainingAfter DEF AcceptCpu, FlushStates, FlushWriteStates, CboStates, CboWriteStates
<1>4. Contract!Accept(r)
  BY <1>1, <1>3 DEF AcceptCpu, Contract!Accept
<1> QED BY <1>2, <1>4 DEF ContractStep, Contract!Next

LEMMA AcceptCboStep ==
  ASSUME RInv, Inv', NEW c \in Cbo, AcceptCbo(c) PROVE ContractStep
<1>1. View' = View /\ Owed' = Owed /\ mem' = mem /\ Contract!Quiet
  BY TakeSame, TakeQuiet DEF Take, RInv, FenceInv
<1>2. c \in Contract!Maintenance /\ c.op # "FENCE"
  BY DEF Cbo, Contract!Maintenance
<1>3. Maintained' = [op |-> c.op, line |-> c.line, st |-> "busy"]
  BY DEF AcceptCbo, Maintained, FlushStates, FlushWriteStates, CboStates, CboWriteStates
<1>4. resp' = None
  BY DEF AcceptCbo, RInv, Shown
<1>5. Contract!Maintain(c)
  BY <1>1, <1>2, <1>3, <1>4 DEF AcceptCbo, Contract!Maintain
<1> QED BY <1>2, <1>5 DEF ContractStep, Contract!Next

LEMMA AcceptFlushStep == ASSUME RInv, Inv', AcceptFlush PROVE ContractStep
<1>1. View' = View /\ Owed' = Owed /\ mem' = mem /\ Contract!Quiet
  BY TakeSame, TakeQuiet DEF Take, RInv, FenceInv
<1> DEFINE m == [op |-> "FENCE", line |-> None]
<1>2. m \in Contract!Maintenance
  BY DEF Contract!Maintenance
<1>3. Maintained' = [op |-> "FENCE", line |-> None, st |-> "busy"]
  BY DEF AcceptFlush, Maintained, FlushStates, FlushWriteStates, CboStates, CboWriteStates
<1>4. Contract!Maintain(m)
  BY <1>1, <1>3 DEF AcceptFlush, Contract!Maintain
<1> QED BY <1>2, <1>4 DEF ContractStep, Contract!Next

LEMMA GoIdleStep == ASSUME RInv, Inv', GoIdle PROVE ContractStep
<1>1. View' = View /\ Owed' = Owed /\ mem' = mem /\ Contract!Quiet
  BY TakeSame, TakeQuiet DEF Take, RInv, FenceInv
<1>2. Maintained' = None
  BY NotMaintainingAfter DEF GoIdle, FlushStates, FlushWriteStates, CboStates, CboWriteStates
<1>3. Contract!Withdraw
  BY <1>1, <1>2 DEF GoIdle, Contract!Withdraw
<1> QED BY <1>3 DEF ContractStep, Contract!Next

LEMMA DmaWriteStep ==
  ASSUME RInv, Inv', NEW l \in Line, NEW w \in Word, NEW v \in DmaValue, DmaWrite(l, w, v)
  PROVE  ContractStep
<1>1. /\ UNCHANGED <<state, valid, tag, data, dirty, bus, resv, req, resp, cbo>>
      /\ UNCHANGED <<flushErr, cboErr>>
      /\ mem' = [mem EXCEPT ![l][w] = v]
  BY DEF DmaWrite, cacheVars
<1>2. SameServed
  BY <1>1 DEF SameServed, ServedRead, ServedWrite
<1>3. View' = View /\ Owed' = Owed
  BY <1>1, <1>2, SameView, SameOwed DEF SameServed, RInv, FenceInv
<1>4. Maintained' = Maintained
  BY <1>1 DEF Maintained
<1>5. Contract!DmaWrite(l, w, v)
  BY <1>1, <1>3, <1>4 DEF Contract!DmaWrite
<1> QED BY <1>5 DEF ContractStep, Contract!Next

-----------------------------------------------------------------------------
(* Accesses.                                                               *)
LEMMA LookupMissStep == ASSUME RInv, Inv', LookupMiss PROVE ContractStep
<1>1. UNCHANGED <<valid, tag, data, dirty, bus, mem, resv, req, resp>> /\ state = "LOOKUP"
      /\ state' \in {"WRITEBACK_REQ", "REFILL_REQ"}
  BY DEF LookupMiss, cacheVars
<1>2. SameServed
  BY <1>1 DEF SameServed, ServedRead, ServedWrite
<1>3. View' = View /\ Owed' = Owed
  BY <1>1, <1>2, SameView, SameOwed DEF SameServed, RInv, FenceInv
<1>4. Maintained' = None /\ Maintained = None
  BY <1>1, NotMaintaining, NotMaintainingAfter DEF FlushStates, FlushWriteStates, CboStates,
     CboWriteStates
<1> QED BY <1>1, <1>3, <1>4, Invisible

LEMMA MissFaultStep == ASSUME RInv, Inv', MissFault PROVE ContractStep
<1>1. /\ UNCHANGED <<valid, tag, data, dirty, mem, resv>> /\ state \in MissStates
      /\ state' = "RESP" /\ req' = None /\ resp' = [rdata |-> 0, err |-> TRUE]
      /\ bus.err /\ bus'.st = "idle"
  BY DEF MissFault, AccessFault, cacheVars, Answered, IdleBus
<1>2. SameServed
  BY <1>1, Unserved, UnservedAfter DEF SameServed
<1>3. View' = View /\ Owed' = Owed
  BY <1>1, <1>2, SameView, SameOwed DEF SameServed, RInv, FenceInv
<1>4. Maintained' = None /\ Maintained = None
  BY <1>1, NotMaintaining, NotMaintainingAfter DEF FlushStates, FlushWriteStates, CboStates,
     CboWriteStates, MissStates, EvictStates, RefillStates
<1>5. req # None
  BY <1>1 DEF RInv, FenceInv, Inv, Control
<1>6. Contract!Fault
  BY <1>1, <1>3, <1>4, <1>5 DEF Contract!Fault
<1> QED BY <1>6 DEF ContractStep, Contract!Next

(* A hit acts on the slot of the line, which is its view.                  *)
LEMMA LookupHitStep == ASSUME RInv, Inv', LookupHit PROVE ContractStep
<1>0. Inv
  BY DEF RInv, FenceInv
<1>1. PICK s \in Slot : LoadHit(s) \/ StoreHit(s) \/ LrHit(s) \/ ScHit(s) \/ AmoHit(s)
  BY DEF LookupHit
<1>2. /\ state = "LOOKUP" /\ Cached(req.line) /\ s = HitSlot(req.line)
      /\ state' = "RESP" /\ req' = None /\ UNCHANGED <<valid, tag, bus, mem>>
  BY <1>1 DEF LoadHit, StoreHit, LrHit, ScHit, AmoHit, Hit
<1>3. req \in Request /\ req.line \in Line /\ req.word \in Word
  BY <1>0, <1>2 DEF Inv, TypeOK, Control, Request
<1>4. s \in valid /\ LineOf(s) = req.line /\ req # None
  BY <1>0, <1>2, <1>3, HitSlotHolds, NoneIsNone DEF Inv, Holds
<1>5. View[req.line] = data[s] /\ data[s] \in LineData /\ View[req.line] # None
  BY <1>0, <1>4, BySlot, NoneIsNone DEF ViewBySlot, Inv, TypeOK
<1>6. bus.st = "idle" /\ bus'.st = "idle"
  BY <1>0, <1>2, Quiescent DEF PortStates, WriteStates, RefillStates, EvictStates,
     FlushWriteStates, CboWriteStates
<1>7. Maintained' = None /\ Maintained = None
  BY <1>2, NotMaintaining, NotMaintainingAfter DEF FlushStates, FlushWriteStates, CboStates,
     CboWriteStates
<1>8. SameServed
  BY <1>6, Unserved, UnservedAfter DEF SameServed
<1>9. ASSUME UNCHANGED <<data, dirty>> PROVE View' = View /\ Owed' = Owed
  BY <1>0, <1>2, <1>8, <1>9, SameView, SameOwed DEF SameServed
<1>10. ASSUME NEW v, StoreWord(s, v) PROVE Contract!Write(v)
  <2>1. /\ data' = [data EXCEPT ![s][req.word] = v] /\ dirty' = dirty \cup {s}
        /\ \A t : LineOf(t)' = LineOf(t)
    BY <1>2, <1>10 DEF StoreWord, LineOf
  <2>2. ViewBySlot /\ ViewBySlot' /\ OwedBySlot /\ OwedBySlot'
    BY <1>0, BySlot, BySlotAfter
  <2>3. \A t \in valid : t # s => LineOf(t) # req.line
    BY <1>0, <1>4 DEF Inv, NoDuplicateLine
  <2>4. View' = [View EXCEPT ![req.line][req.word] = v]
    <3>1. ASSUME NEW l \in Line
          PROVE  View'[l] = IF l = req.line THEN [View[l] EXCEPT ![req.word] = v] ELSE View[l]
      <4>1. CASE l = req.line
        <5>1. View'[l] = data'[s]
          BY <1>2, <1>4, <2>1, <2>2, <4>1 DEF ViewBySlot
        <5>2. data'[s] = [data[s] EXCEPT ![req.word] = v]
          BY <1>0, <2>1 DEF Inv, TypeOK
        <5> QED BY <1>5, <4>1, <5>1, <5>2
      <4>2. CASE l # req.line /\ \E t \in valid : LineOf(t) = l
        <5>1. PICK t \in valid : LineOf(t) = l
          BY <4>2
        <5>2. t # s /\ data'[t] = data[t]
          BY <1>0, <1>4, <2>1, <4>2, <5>1 DEF Inv, TypeOK
        <5>3. View'[l] = data'[t] /\ View[l] = data[t]
          BY <1>2, <2>1, <2>2, <5>1 DEF ViewBySlot
        <5> QED BY <4>2, <5>2, <5>3
      <4>3. CASE l # req.line /\ ~\E t \in valid : LineOf(t) = l
        <5>1. View[l] = None
          BY <1>6, <2>2, <4>3, Unserved DEF ViewBySlot
        <5>2. View'[l] = None
          BY <1>2, <1>6, <2>1, <2>2, <4>3, UnservedAfter DEF ViewBySlot
        <5> QED BY <4>3, <5>1, <5>2
      <4> QED BY <4>1, <4>2, <4>3
    <3>2. View = [l \in Line |-> View[l]] /\ View' = [l \in Line |-> View'[l]]
      BY <2>2 DEF ViewBySlot
    <3>3. [View EXCEPT ![req.line][req.word] = v]
            = [l \in Line |-> IF l = req.line THEN [View[l] EXCEPT ![req.word] = v] ELSE View[l]]
      BY <3>2
    <3> QED BY <3>1, <3>2, <3>3
  <2>5. Owed' = Owed \cup {req.line}
    BY <1>2, <1>3, <1>4, <1>6, <2>1, <2>2, Unserved, UnservedAfter DEF OwedBySlot
  <2> QED BY <2>4, <2>5 DEF Contract!Write
<1>11. ASSUME NEW v, Return(v) PROVE Contract!Answer(v)
  BY <1>2, <1>4, <1>5, <1>7, <1>11 DEF Return, Contract!Answer
<1>12. Contract!Old = data[s][req.word]
  BY <1>5 DEF Contract!Old
<1>13. CASE LoadHit(s)
  BY <1>9, <1>11, <1>12, <1>13 DEF LoadHit, Contract!Load, ContractStep, Contract!Next
<1>14. CASE StoreHit(s)
  BY <1>10, <1>11, <1>12, <1>14 DEF StoreHit, Contract!Store, ContractStep, Contract!Next
<1>15. CASE LrHit(s)
  BY <1>9, <1>11, <1>12, <1>15 DEF LrHit, Contract!LoadReserved, ContractStep, Contract!Next
<1>16. CASE ScHit(s)
  <2>1. CASE resv = req.line
    BY <1>4, <1>10, <1>11, <1>16, <2>1 DEF ScHit, Contract!StoreConditional, ContractStep,
       Contract!Next
  <2>2. CASE resv # req.line
    BY <1>4, <1>9, <1>11, <1>16, <2>2 DEF ScHit, Contract!StoreConditional, ContractStep,
       Contract!Next
  <2> QED BY <2>1, <2>2
<1>17. CASE AmoHit(s)
  BY <1>10, <1>11, <1>12, <1>17 DEF AmoHit, Contract!Amo, ContractStep, Contract!Next
<1> QED BY <1>1, <1>13, <1>14, <1>15, <1>16, <1>17
-----------------------------------------------------------------------------
(* The line port.                                                          *)
LEMMA AwaitLineStep == ASSUME RInv, Inv', AwaitLine PROVE ContractStep
<1>1. /\ UNCHANGED <<valid, tag, data, dirty, mem, resv, req, resp, cbo>>
      /\ UNCHANGED <<flushErr, cboErr>>
      /\ bus.st = "idle" /\ bus' = LineRequest
      /\ \/ state = "WRITEBACK_REQ" /\ state' = "WRITEBACK_WAIT"
         \/ state = "REFILL_REQ" /\ state' = "REFILL_WAIT"
         \/ state = "FLUSH_WRITEBACK_REQ" /\ state' = "FLUSH_WRITEBACK_WAIT"
         \/ state = "CBO_WRITEBACK_REQ" /\ state' = "CBO_WRITEBACK_WAIT"
  BY DEF AwaitLine, cacheVars, ReqStates, WaitOf
<1>2. bus'.st = "req"
  BY <1>1, LineRequestType DEF AwaitLine, RInv, FenceInv
<1>3. SameServed
  BY <1>1, <1>2, Unserved, UnservedAfter DEF SameServed
<1>4. View' = View /\ Owed' = Owed
  BY <1>1, <1>3, SameView, SameOwed DEF SameServed, RInv, FenceInv
<1>5. Maintained' = Maintained
  BY <1>1 DEF Maintained, FlushStates, FlushWriteStates, CboStates, CboWriteStates
<1> QED BY <1>1, <1>4, <1>5, Invisible

(* Memory gives a line, which enters the view, or takes a dirty one.       *)
LEMMA ServeLineStep == ASSUME RInv, Inv', ServeLine PROVE ContractStep
<1>0. Inv
  BY DEF RInv, FenceInv
<1>1. /\ UNCHANGED <<state, valid, tag, data, dirty, resv, req, resp, cbo>>
      /\ UNCHANGED <<flushErr, cboErr, victim, refillWay, flushAt>>
  BY DEF ServeLine, cacheVars
<1>2. state \in ReqStates \cup WaitStates
  BY <1>0 DEF ServeLine, Outstanding, Inv, TypeOK, BusControl, WriteStates, RefillStates,
         EvictStates, FlushWriteStates, CboWriteStates, ReqStates, WaitStates
<1>3. /\ Outstanding.st = "req" /\ Outstanding.we = LineRequest.we
      /\ Outstanding.line = LineRequest.line
      /\ Outstanding.we => Outstanding.data = LineRequest.data
      /\ Outstanding.we \in BOOLEAN /\ Outstanding.line \in Line
      /\ Outstanding = [st |-> "req", we |-> Outstanding.we, line |-> Outstanding.line,
                        data |-> Outstanding.data, err |-> Outstanding.err]
  <2>1. CASE bus.st = "idle"
    BY <1>0, <1>2, <2>1, LineRequestType DEF ServeLine, Outstanding
  <2>2. CASE bus.st # "idle"
    BY <1>0, <1>2, <2>2, LineRequestType DEF ServeLine, Outstanding, Inv, BusControl, TypeOK
  <2> QED BY <2>1, <2>2
<1>4. bus.st # "resp"
  BY <1>3 DEF Outstanding
<1>5. PICK err \in BOOLEAN :
        /\ bus' = [Outstanding EXCEPT !.st = "resp", !.err = err,
                     !.data = IF Outstanding.we THEN None ELSE mem[Outstanding.line]]
        /\ IF Outstanding.we
           THEN \E d \in Written(Outstanding.line, Outstanding.data, err) :
                  mem' = [mem EXCEPT ![Outstanding.line] = d]
           ELSE mem' = mem
  BY DEF ServeLine
<1>6. Maintained' = Maintained
  BY <1>1 DEF Maintained
<1>7. ViewBySlot /\ ViewBySlot' /\ OwedBySlot /\ OwedBySlot'
  BY <1>0, BySlot, BySlotAfter
<1>8. /\ \A l \in Line : ~ServedRead(l) /\ ~ServedWrite(l)
      /\ \A s : LineOf(s)' = LineOf(s)
  BY <1>1, <1>4, Unserved DEF LineOf
<1>9. CASE ~Outstanding.we
  <2>1. /\ mem' = mem /\ bus'.data = mem[Outstanding.line] /\ bus'.line = Outstanding.line
        /\ ~bus'.we /\ bus'.err = err /\ bus'.st = "resp"
    BY <1>3, <1>5, <1>9
  <2>2. state \in RefillStates /\ Outstanding.line = req.line
    BY <1>0, <1>2, <1>3, <1>9, LineRequestType DEF LineRequest, ReqStates, WaitStates,
       WriteStates, RefillStates, EvictStates, FlushWriteStates, CboWriteStates
  <2>3. ~Cached(req.line) /\ req # None /\ req.line \in Line
    BY <1>0, <1>3, <2>2 DEF Inv, Control, MissStates
  <2>4. \A s \in valid : LineOf(s) # req.line
    BY <1>0, <2>3, SlotFound
  <2>5. Owed' = Owed
    BY <1>0, <1>1, <1>8, <2>1, SameOwed DEF ServedWrite
  <2>6. CASE err
    <3>1. SameServed
      BY <1>8, <2>1, <2>6, UnservedAfter DEF SameServed
    <3> QED BY <1>0, <1>1, <1>6, <2>1, <2>5, <3>1, SameView, Invisible
  <2>7. CASE ~err
    <3>1. ASSUME NEW l \in Line
          PROVE  View'[l] = IF l = req.line THEN mem[l] ELSE View[l]
      <4>1. CASE l = req.line
        <5>1. View'[l] = bus'.data
          BY <1>1, <1>7, <1>8, <2>1, <2>2, <2>4, <2>7, <4>1 DEF ViewBySlot, ServedRead
        <5> QED BY <2>1, <2>2, <4>1, <5>1
      <4>2. CASE l # req.line /\ \E s \in valid : LineOf(s) = l
        BY <1>1, <1>7, <1>8, <4>2 DEF ViewBySlot
      <4>3. CASE l # req.line /\ ~\E s \in valid : LineOf(s) = l
        <5>1. View[l] = None
          BY <1>7, <1>8, <4>3 DEF ViewBySlot
        <5>2. View'[l] = None
          BY <1>1, <1>7, <1>8, <2>1, <2>2, <4>3 DEF ViewBySlot, ServedRead
        <5> QED BY <4>3, <5>1, <5>2
      <4> QED BY <4>1, <4>2, <4>3
    <3>2. View' = [View EXCEPT ![req.line] = mem[req.line]]
      <4>1. View = [l \in Line |-> View[l]] /\ View' = [l \in Line |-> View'[l]]
        BY <1>7 DEF ViewBySlot
      <4>2. [View EXCEPT ![req.line] = mem[req.line]]
              = [l \in Line |-> IF l = req.line THEN mem[l] ELSE View[l]]
        BY <4>1
      <4> QED BY <3>1, <4>1, <4>2
    <3>3. View[req.line] = None
      BY <1>7, <1>8, <2>3, <2>4 DEF ViewBySlot
    <3>4. Contract!Fill
      BY <1>1, <1>6, <2>1, <2>3, <2>5, <3>2, <3>3 DEF Contract!Fill
    <3> QED BY <3>4 DEF ContractStep, Contract!Next
  <2> QED BY <2>6, <2>7
<1>10. CASE Outstanding.we
  <2> DEFINE L == Outstanding.line
  <2>1. state \in WriteStates /\ WrittenSlot \in valid \cap dirty
    BY <1>0, <1>2, <1>3, <1>10, LineRequestType DEF Inv, Control
  <2>2. /\ L = LineOf(WrittenSlot) /\ L \in Line
        /\ Outstanding.data = data[WrittenSlot] /\ Outstanding.data = View[L]
    BY <1>3, <1>7, <1>10, <2>1 DEF LineRequest, ViewBySlot
  <2>3. bus'.we /\ bus'.err = err /\ bus'.line = L /\ bus'.st = "resp"
    BY <1>3, <1>5, <1>10
  <2>4. PICK d \in Written(L, Outstanding.data, err) : mem' = [mem EXCEPT ![L] = d]
    BY <1>5, <1>10
  <2>5. L \in Owed
    BY <1>7, <1>8, <2>1, <2>2 DEF OwedBySlot
  <2>6. View' = View
    <3>1. SameServed \/ \A l \in Line : ~ServedRead(l)'
      BY <2>3 DEF ServedRead
    <3>2. \A l \in Line : View'[l] = View[l]
      BY <1>1, <1>7, <1>8, <2>3 DEF ViewBySlot, ServedRead
    <3> QED BY <1>7, <3>2 DEF ViewBySlot
  <2>7. CASE err
    <3>1. Owed' = Owed
      BY <1>0, <1>1, <1>8, <2>3, <2>7, SameOwed, UnservedAfter
    <3>2. d \in LineData /\ \A w \in Word : d[w] \in {mem[L][w], View[L][w]}
      BY <2>2, <2>4, <2>7 DEF Written
    <3>3. d \in Contract!LineData
      BY <3>2 DEF LineData, Contract!LineData
    <3>4. Contract!WriteBackFault(L)
      BY <1>1, <1>6, <2>4, <2>5, <2>6, <3>1, <3>2, <3>3 DEF Contract!WriteBackFault
    <3> QED BY <2>2, <3>4 DEF ContractStep, Contract!Next
  <2>8. CASE ~err
    <3>1. mem' = [mem EXCEPT ![L] = View[L]]
      BY <2>2, <2>4, <2>8 DEF Written
    <3>2. Owed' = Owed \ {L}
      BY <1>1, <1>7, <1>8, <2>3, <2>8 DEF OwedBySlot, ServedWrite
    <3>3. Contract!WriteBack(L)
      BY <1>1, <1>6, <2>5, <2>6, <3>1, <3>2 DEF Contract!WriteBack
    <3> QED BY <2>2, <3>3 DEF ContractStep, Contract!Next
  <2> QED BY <2>7, <2>8
<1> QED BY <1>9, <1>10
(* The end of a write-back is no news: memory had the line before.         *)
LEMMA WrittenBackSame ==
  ASSUME Inv, Inv', Answered(FALSE), state \in WriteStates,
         UNCHANGED <<valid, tag, data>>, dirty' = dirty \ {WrittenSlot}
  PROVE  View' = View /\ Owed' = Owed
<1>1. /\ bus.st = "resp" /\ ~bus.err /\ bus'.st = "idle" /\ bus.we
      /\ bus.line = LineOf(WrittenSlot) /\ WrittenSlot \in valid
  BY LineRequestType DEF Answered, IdleBus, Inv, BusControl, Control, LineRequest
<1>2. ViewBySlot /\ ViewBySlot' /\ OwedBySlot /\ OwedBySlot' /\ \A s : LineOf(s)' = LineOf(s)
  BY BySlot, BySlotAfter DEF LineOf
<1>3. \A l \in Line : ~ServedRead(l) /\ ~ServedRead(l)' /\ ~ServedWrite(l)'
  BY <1>1, UnservedAfter DEF ServedRead
<1>4. SameServed \/ \A l \in Line : View'[l] = View[l]
  BY <1>2, <1>3 DEF ViewBySlot
<1>5. View' = View
  <2>1. \A l \in Line : View'[l] = View[l]
    BY <1>2, <1>3 DEF ViewBySlot
  <2> QED BY <1>2, <2>1 DEF ViewBySlot
<1>6. Owed' = Owed
  <2>1. ASSUME NEW l \in Line PROVE l \in Owed' <=> l \in Owed
    <3>1. CASE l = LineOf(WrittenSlot)
      <4>1. l \notin Owed
        BY <1>1, <1>2, <3>1 DEF OwedBySlot, ServedWrite
      <4>2. \A s \in valid : LineOf(s) = l => s = WrittenSlot
        BY <1>1, <3>1 DEF Inv, NoDuplicateLine
      <4>3. l \notin Owed'
        BY <1>2, <4>2 DEF OwedBySlot
      <4> QED BY <4>1, <4>3
    <3>2. CASE l # LineOf(WrittenSlot)
      <4>1. ~ServedWrite(l)
        BY <1>1, <3>2 DEF ServedWrite
      <4>2. (\E s \in valid \cap dirty : LineOf(s) = l)
              <=> \E s \in valid' \cap dirty' : LineOf(s)' = l
        BY <1>2, <3>2
      <4> QED BY <1>2, <1>3, <4>1, <4>2 DEF OwedBySlot
    <3> QED BY <3>1, <3>2
  <2> QED BY <1>2, <2>1 DEF OwedBySlot
<1> QED BY <1>5, <1>6

LEMMA VictimWrittenStep == ASSUME RInv, Inv', VictimWritten PROVE ContractStep
<1>1. /\ UNCHANGED <<valid, tag, data, mem, resv, req, resp>> /\ Answered(FALSE)
      /\ state \in EvictStates /\ state' = "REFILL_REQ" /\ dirty' = dirty \ {RefillSlot}
  BY DEF VictimWritten
<1>2. WrittenSlot = RefillSlot /\ state \in WriteStates
  BY <1>1 DEF WrittenSlot, WriteStates
<1>3. View' = View /\ Owed' = Owed
  BY <1>1, <1>2, WrittenBackSame DEF RInv, FenceInv
<1>4. Maintained' = None /\ Maintained = None
  BY <1>1, NotMaintaining, NotMaintainingAfter DEF FlushStates, FlushWriteStates, CboStates,
     CboWriteStates, EvictStates
<1> QED BY <1>1, <1>3, <1>4, Invisible

(* A refill takes the place of a clean line, if of any.                    *)
LEMMA InstallStep == ASSUME RInv, Inv', Install PROVE ContractStep
<1>0. Inv
  BY DEF RInv, FenceInv
<1>1. /\ valid' = valid \cup {RefillSlot} /\ dirty' = dirty \ {RefillSlot}
      /\ data' = [data EXCEPT ![RefillSlot] = bus.data]
      /\ tag' = [tag EXCEPT ![RefillSlot] = req.line.tag]
      /\ state \in RefillStates /\ state' = "LOOKUP"
      /\ bus.st = "resp" /\ ~bus.err /\ bus'.st = "idle"
      /\ UNCHANGED <<mem, resv, req, resp>>
  BY DEF Install, Answered, IdleBus
<1>2. PICK r : r = RefillSlot
  OBVIOUS
<1>3. /\ req \in Request /\ req.line \in Line /\ r \in Slot /\ ~Cached(req.line)
      /\ r[1] = req.line.set /\ req # None /\ r \notin valid \cap dirty
  BY <1>0, <1>1, <1>2 DEF Inv, TypeOK, Control, Request, Line, MissStates, RefillSlot, Slot
<1>4. ~bus.we /\ bus.line = req.line
  BY <1>0, <1>1 DEF Inv, BusControl, LineRequest, WriteStates, RefillStates, EvictStates,
     FlushWriteStates, CboWriteStates
<1>5. ViewBySlot /\ ViewBySlot' /\ OwedBySlot /\ OwedBySlot'
  BY <1>0, BySlot, BySlotAfter
<1>6. /\ \A l \in Line : ~ServedRead(l)' /\ ~ServedWrite(l)' /\ ~ServedWrite(l)
      /\ \A l \in Line : ServedRead(l) <=> l = req.line
  BY <1>1, <1>4, UnservedAfter DEF ServedRead, ServedWrite
<1>7. LineOf(r)' = req.line /\ data'[r] = bus.data
  <2>1. tag'[r] = req.line.tag /\ data'[r] = bus.data
    BY <1>0, <1>1, <1>2, <1>3 DEF Inv, TypeOK
  <2> QED BY <1>3, <2>1 DEF LineOf, Line
<1>8. \A s \in valid : s # r => LineOf(s)' = LineOf(s) /\ data'[s] = data[s]
  BY <1>0, <1>1, <1>2 DEF LineOf, Inv, TypeOK
<1>9. \A s \in valid : LineOf(s) # req.line
  BY <1>0, <1>3, SlotFound
<1>10. View[req.line] = bus.data /\ View'[req.line] = bus.data
  BY <1>1, <1>2, <1>3, <1>5, <1>6, <1>7, <1>9 DEF ViewBySlot
<1>11. Owed' = Owed
  <2>1. ASSUME NEW l \in Line
        PROVE  (\E s \in valid \cap dirty : LineOf(s) = l)
                 <=> \E s \in valid' \cap dirty' : LineOf(s)' = l
    BY <1>1, <1>2, <1>3, <1>8
  <2> QED BY <1>5, <1>6, <2>1 DEF OwedBySlot
<1>12. Maintained' = None /\ Maintained = None
  BY <1>1, NotMaintaining, NotMaintainingAfter DEF FlushStates, FlushWriteStates, CboStates,
     CboWriteStates, RefillStates
<1>13. ASSUME NEW l \in Line, l # req.line, r \notin valid \/ l # LineOf(r)
       PROVE  View'[l] = View[l]
  <2>1. CASE \E s \in valid : LineOf(s) = l
    <3>1. PICK s \in valid : LineOf(s) = l /\ s # r
      BY <1>13, <2>1
    <3> QED BY <1>1, <1>5, <1>8, <3>1 DEF ViewBySlot
  <2>2. CASE ~\E s \in valid : LineOf(s) = l
    <3>1. \A s \in valid' : LineOf(s)' # l
      BY <1>1, <1>2, <1>7, <1>8, <1>13, <2>2
    <3> QED BY <1>5, <1>6, <1>13, <2>2, <3>1 DEF ViewBySlot
  <2> QED BY <2>1, <2>2
<1>14. CASE r \notin valid
  <2>1. View' = View
    <3>1. \A l \in Line : View'[l] = View[l]
      BY <1>10, <1>13, <1>14
    <3> QED BY <1>5, <3>1 DEF ViewBySlot
  <2> QED BY <1>1, <1>11, <1>12, <2>1, Invisible
<1>15. CASE r \in valid
  <2>1. LineOf(r) \in Line /\ LineOf(r) # req.line
    BY <1>5, <1>9, <1>15 DEF ViewBySlot
  <2>2. LineOf(r) \notin Owed
    <3>1. \A s \in valid : LineOf(s) = LineOf(r) => s = r
      BY <1>0, <1>15 DEF Inv, NoDuplicateLine
    <3> QED BY <1>3, <1>5, <2>1, <3>1 DEF OwedBySlot
  <2>3. View'[LineOf(r)] = None
    <3>1. \A s \in valid : LineOf(s) = LineOf(r) => s = r
      BY <1>0, <1>15 DEF Inv, NoDuplicateLine
    <3>2. \A s \in valid' : LineOf(s)' # LineOf(r)
      BY <1>1, <1>2, <1>7, <1>8, <2>1, <3>1
    <3> QED BY <1>5, <1>6, <2>1, <3>2 DEF ViewBySlot
  <2>4. View' = [View EXCEPT ![LineOf(r)] = None]
    <3>1. \A l \in Line : View'[l] = IF l = LineOf(r) THEN None ELSE View[l]
      BY <1>10, <1>13, <2>1, <2>3
    <3>2. View = [l \in Line |-> View[l]] /\ View' = [l \in Line |-> View'[l]]
      BY <1>5 DEF ViewBySlot
    <3>3. [View EXCEPT ![LineOf(r)] = None]
            = [l \in Line |-> IF l = LineOf(r) THEN None ELSE View[l]]
      BY <3>2
    <3> QED BY <3>1, <3>2, <3>3
  <2>5. Contract!Drop(LineOf(r))
    BY <1>1, <1>3, <1>11, <1>12, <2>2, <2>4 DEF Contract!Drop
  <2> QED BY <2>1, <2>5 DEF ContractStep, Contract!Next
<1> QED BY <1>14, <1>15

-----------------------------------------------------------------------------
(* Maintenance of one line.                                                *)
LEMMA Dropped ==
  ASSUME Inv, Inv', NEW r \in valid, valid' = valid \ {r}, UNCHANGED <<tag, data>>,
         dirty' \in {dirty, dirty \ {r}},
         \A l \in Line : ~ServedRead(l) /\ ~ServedRead(l)' /\ ~ServedWrite(l)',
         \A l \in Line : l # LineOf(r) => ~ServedWrite(l)
  PROVE  /\ View' = [View EXCEPT ![LineOf(r)] = None]
         /\ Owed' = Owed \ {LineOf(r)}
<1>1. ViewBySlot /\ ViewBySlot' /\ OwedBySlot /\ OwedBySlot' /\ \A s : LineOf(s)' = LineOf(s)
  BY BySlot, BySlotAfter DEF LineOf
<1>2. \A s \in valid : LineOf(s) = LineOf(r) => s = r
  BY DEF Inv, NoDuplicateLine
<1>3. \A l \in Line : View'[l] = IF l = LineOf(r) THEN None ELSE View[l]
  <2> SUFFICES ASSUME NEW l \in Line PROVE View'[l] = IF l = LineOf(r) THEN None ELSE View[l]
    OBVIOUS
  <2>1. CASE l = LineOf(r)
    BY <1>1, <1>2, <2>1 DEF ViewBySlot
  <2>2. CASE l # LineOf(r) /\ \E s \in valid : LineOf(s) = l
    BY <1>1, <2>2 DEF ViewBySlot
  <2>3. CASE l # LineOf(r) /\ ~\E s \in valid : LineOf(s) = l
    BY <1>1, <2>3 DEF ViewBySlot
  <2> QED BY <2>1, <2>2, <2>3
<1>4. View' = [View EXCEPT ![LineOf(r)] = None]
  <2>1. View = [l \in Line |-> View[l]] /\ View' = [l \in Line |-> View'[l]]
    BY <1>1 DEF ViewBySlot
  <2>2. [View EXCEPT ![LineOf(r)] = None]
          = [l \in Line |-> IF l = LineOf(r) THEN None ELSE View[l]]
    BY <2>1
  <2> QED BY <1>3, <2>1, <2>2
<1>5. Owed' = Owed \ {LineOf(r)}
  <2>1. ASSUME NEW l \in Line PROVE l \in Owed' <=> l \in Owed /\ l # LineOf(r)
    <3>1. (\E s \in valid' \cap dirty' : LineOf(s)' = l)
            <=> l # LineOf(r) /\ \E s \in valid \cap dirty : LineOf(s) = l
      BY <1>1, <1>2
    <3> QED BY <1>1, <3>1 DEF OwedBySlot
  <2> QED BY <1>1, <2>1 DEF OwedBySlot
<1> QED BY <1>4, <1>5

LEMMA CboLookupStep == ASSUME RInv, Inv', CboLookup PROVE ContractStep
<1>0. Inv
  BY DEF RInv, FenceInv
<1>1. /\ UNCHANGED <<tag, data, bus, mem, req, resp, cbo, cboErr>> /\ state = "CBO_LOOKUP"
  BY DEF CboLookup
<1>2. /\ cbo \in Cbo /\ cbo.line \in Line /\ cbo.op \in {"INVAL", "CLEAN", "FLUSH"}
      /\ cboErr = FALSE
  BY <1>0, <1>1 DEF Inv, TypeOK, Control, Cbo, CboStates, RInv, Shown
<1>3. bus.st = "idle"
  BY <1>0, <1>1, Quiescent DEF PortStates, WriteStates, RefillStates, EvictStates,
     FlushWriteStates, CboWriteStates
<1>4. /\ \A l \in Line : ~ServedRead(l) /\ ~ServedWrite(l)
      /\ \A l \in Line : ~ServedRead(l)' /\ ~ServedWrite(l)'
  BY <1>1, <1>3, Unserved, UnservedAfter
<1>5. ViewBySlot /\ OwedBySlot
  BY <1>0, BySlot
<1>6. Maintained = [op |-> cbo.op, line |-> cbo.line, st |-> "busy"]
  BY <1>1 DEF Maintained, FlushStates, FlushWriteStates, CboStates
<1>7. ASSUME state' = "CBO_DONE"
      PROVE  Maintained' = [op |-> cbo.op, line |-> cbo.line, st |-> "ok"]
  BY <1>1, <1>2, <1>7 DEF Maintained, FlushStates, FlushWriteStates, CboStates, CboWriteStates
<1>8. ASSUME state' = "CBO_DONE" PROVE Contract!Finish("ok") /\ Maintained # None
  <2>1. Maintained \in [op : {"INVAL", "CLEAN", "FLUSH"}, line : Line, st : {"busy"}]
    BY <1>2, <1>6
  <2>2. Maintained' = [Maintained EXCEPT !.st = "ok"]
    BY <1>6, <1>7, <1>8
  <2>3. Maintained # None
    BY <1>2, <1>6, NoneIsNone DEF Report
  <2> QED BY <1>6, <2>2, <2>3 DEF Contract!Finish
<1>9. ASSUME UNCHANGED <<valid, dirty>> PROVE View' = View /\ Owed' = Owed
  <2>1. SameServed
    BY <1>4 DEF SameServed
  <2> QED BY <1>0, <1>1, <1>9, <2>1, SameView, SameOwed DEF SameServed
<1>10. CASE ~Cached(cbo.line)
  <2>1. state' = "CBO_DONE" /\ UNCHANGED <<valid, dirty, resv>>
    BY <1>1, <1>10 DEF CboLookup
  <2>2. \A s \in valid : LineOf(s) # cbo.line
    BY <1>0, <1>10, SlotFound
  <2>3. cbo.line \notin Owed /\ View[cbo.line] = None
    BY <1>2, <1>4, <1>5, <2>2 DEF ViewBySlot, OwedBySlot
  <2>4. View = [View EXCEPT ![cbo.line] = None] /\ Owed = Owed \ {cbo.line}
    <3>1. View = [l \in Line |-> View[l]]
      BY <1>5 DEF ViewBySlot
    <3> QED BY <2>3, <3>1
  <2>5. Contract!CleanDone \/ Contract!FlushDone \/ Contract!InvalDone
    BY <1>1, <1>2, <1>6, <1>8, <1>9, <2>1, <2>3, <2>4 DEF Contract!CleanDone,
       Contract!FlushDone, Contract!InvalDone
  <2> QED BY <2>5 DEF ContractStep, Contract!Next
<1>11. CASE Cached(cbo.line)
  <2> DEFINE s == HitSlot(cbo.line)
             writes == cbo.op \in {"CLEAN", "FLUSH"} /\ s \in dirty
             drops == cbo.op = "INVAL" \/ (cbo.op = "FLUSH" /\ s \notin dirty)
  <2>1. /\ resv' \in {resv, None}
        /\ resv' = IF resv = cbo.line THEN None ELSE resv
        /\ valid' = IF drops THEN valid \ {s} ELSE valid
        /\ dirty' = IF drops THEN dirty \ {s} ELSE dirty
        /\ state' = IF writes THEN "CBO_WRITEBACK_REQ" ELSE "CBO_DONE"
    BY <1>1, <1>11 DEF CboLookup
  <2>2. s \in valid /\ LineOf(s) = cbo.line
    BY <1>0, <1>2, <1>11, HitSlotHolds DEF Inv, Holds
  <2>3. s \notin dirty => cbo.line \notin Owed
    <3>1. \A t \in valid : LineOf(t) = cbo.line => t = s
      BY <1>0, <2>2 DEF Inv, NoDuplicateLine
    <3> QED BY <1>5, <3>1 DEF OwedBySlot
  <2>4. CASE writes
    <3>1. View' = View /\ Owed' = Owed
      BY <1>9, <2>1, <2>4
    <3>2. Maintained' = Maintained
      BY <1>1, <1>6, <2>1, <2>4 DEF Maintained, FlushStates, FlushWriteStates, CboStates,
         CboWriteStates
    <3>3. Maintained # None /\ Maintained.st = "busy" /\ Maintained.op # "FENCE"
      BY <1>2, <1>6, NoneIsNone DEF Report
    <3>4. Contract!CboHit \/ UNCHANGED Contract!vars
      BY <1>1, <2>1, <3>1, <3>2, <3>3 DEF Contract!CboHit, Contract!vars
    <3> QED BY <3>4 DEF ContractStep, Contract!Next
  <2>5. CASE drops
    <3>1. state' = "CBO_DONE" /\ valid' = valid \ {s} /\ dirty' = dirty \ {s}
      BY <2>1, <2>5
    <3>2. View' = [View EXCEPT ![cbo.line] = None] /\ Owed' = Owed \ {cbo.line}
      BY <1>0, <1>1, <1>4, <2>2, <3>1, Dropped
    <3>3. CASE cbo.op = "INVAL"
      <4>1. Contract!InvalDone
        BY <1>1, <1>6, <1>8, <2>1, <3>1, <3>2, <3>3 DEF Contract!InvalDone
      <4> QED BY <4>1 DEF ContractStep, Contract!Next
    <3>4. CASE cbo.op = "FLUSH" /\ s \notin dirty
      <4>1. Owed' = Owed /\ cbo.line \notin Owed
        BY <2>3, <3>2, <3>4
      <4>2. Contract!FlushDone
        BY <1>1, <1>6, <1>8, <2>1, <3>1, <3>2, <3>4, <4>1 DEF Contract!FlushDone
      <4> QED BY <4>2 DEF ContractStep, Contract!Next
    <3> QED BY <2>5, <3>3, <3>4
  <2>6. CASE ~writes /\ ~drops
    <3>1. cbo.op = "CLEAN" /\ s \notin dirty /\ state' = "CBO_DONE"
          /\ UNCHANGED <<valid, dirty>>
      BY <1>2, <2>1, <2>6
    <3>2. Contract!CleanDone
      BY <1>1, <1>6, <1>8, <1>9, <2>1, <2>3, <3>1 DEF Contract!CleanDone
    <3> QED BY <3>2 DEF ContractStep, Contract!Next
  <2> QED BY <2>4, <2>5, <2>6
<1> QED BY <1>10, <1>11

LEMMA CboWrittenStep == ASSUME RInv, Inv', CboWritten PROVE ContractStep
<1>0. Inv
  BY DEF RInv, FenceInv
<1>1. /\ UNCHANGED <<tag, data, mem, req, resp, resv, cbo>> /\ state \in CboWriteStates
      /\ state' = "CBO_DONE" /\ state \in CboStates
  BY DEF CboWritten, CboStates
<1>2. /\ cbo \in Cbo /\ cbo.line \in Line /\ cbo.op \in {"CLEAN", "FLUSH"}
      /\ cboErr = FALSE
  BY <1>0, <1>1 DEF Inv, TypeOK, Control, Cbo, RInv, Shown
<1>3. Maintained = [op |-> cbo.op, line |-> cbo.line, st |-> "busy"]
  BY <1>1 DEF Maintained, FlushStates, FlushWriteStates, CboStates, CboWriteStates
<1>4. Maintained' = [op |-> cbo.op, line |-> cbo.line, st |-> IF cboErr' THEN "err" ELSE "ok"]
  BY <1>1 DEF Maintained, FlushStates, FlushWriteStates, CboStates, CboWriteStates
<1>5. Contract!Finish(IF cboErr' THEN "err" ELSE "ok")
  <2>1. Maintained' = [Maintained EXCEPT !.st = IF cboErr' THEN "err" ELSE "ok"]
    BY <1>3, <1>4
  <2>2. Maintained # None
    BY <1>2, <1>3, NoneIsNone DEF Report
  <2> QED BY <1>3, <2>1, <2>2 DEF Contract!Finish
<1>6. state \in WriteStates /\ WrittenSlot = HitSlot(cbo.line) /\ Cached(cbo.line)
  BY <1>0, <1>1 DEF Inv, Control, WrittenSlot, WriteStates, EvictStates, FlushWriteStates,
     CboWriteStates
<1>7. CASE Answered(TRUE) /\ cboErr' = TRUE /\ UNCHANGED <<valid, dirty>>
  <2>1. bus.err /\ bus'.st = "idle"
    BY <1>7 DEF Answered, IdleBus
  <2>2. SameServed
    BY <2>1, Unserved, UnservedAfter DEF SameServed
  <2>3. View' = View /\ Owed' = Owed
    BY <1>0, <1>1, <1>7, <2>2, SameView, SameOwed DEF SameServed
  <2>4. Contract!MaintenanceFault
    BY <1>1, <1>2, <1>3, <1>5, <1>7, <2>3 DEF Contract!MaintenanceFault
  <2> QED BY <2>4 DEF ContractStep, Contract!Next
<1>8. CASE /\ Answered(FALSE) /\ dirty' = dirty \ {WrittenSlot} /\ cboErr' = FALSE
           /\ valid' = IF cbo.op = "FLUSH" THEN valid \ {WrittenSlot} ELSE valid
  <2>1. /\ bus.st = "resp" /\ ~bus.err /\ bus'.st = "idle" /\ bus.we
        /\ bus.line = LineOf(WrittenSlot) /\ WrittenSlot \in valid
    BY <1>0, <1>6, <1>8, LineRequestType DEF Answered, IdleBus, Inv, BusControl, Control,
       LineRequest
  <2>2. LineOf(WrittenSlot) = cbo.line
    BY <1>0, <1>2, <1>6, HitSlotHolds DEF Inv
  <2>3. cbo.line \notin Owed
    BY <1>0, <2>1, <2>2, BySlot DEF OwedBySlot, ServedWrite
  <2>4. CASE cbo.op = "CLEAN"
    <3>1. View' = View /\ Owed' = Owed
      BY <1>0, <1>1, <1>6, <1>8, <2>4, WrittenBackSame
    <3>2. Contract!CleanDone
      BY <1>1, <1>3, <1>5, <1>8, <2>3, <2>4, <3>1 DEF Contract!CleanDone
    <3> QED BY <3>2 DEF ContractStep, Contract!Next
  <2>5. CASE cbo.op = "FLUSH"
    <3>1. /\ \A l \in Line : ~ServedRead(l) /\ ~ServedRead(l)' /\ ~ServedWrite(l)'
          /\ \A l \in Line : l # LineOf(WrittenSlot) => ~ServedWrite(l)
      BY <2>1, UnservedAfter DEF ServedRead, ServedWrite
    <3>2. View' = [View EXCEPT ![cbo.line] = None] /\ Owed' = Owed \ {cbo.line}
      BY <1>0, <1>1, <1>8, <2>1, <2>2, <2>5, <3>1, Dropped
    <3>3. Contract!FlushDone
      BY <1>1, <1>3, <1>5, <1>8, <2>3, <2>5, <3>2 DEF Contract!FlushDone
    <3> QED BY <3>3 DEF ContractStep, Contract!Next
  <2> QED BY <1>2, <2>4, <2>5
<1> QED BY <1>2, <1>6, <1>7, <1>8 DEF CboWritten

-----------------------------------------------------------------------------
(* The FENCE walk: what FenceCleansAll says of its end is what the contract *)
(* asks of an acknowledgement.                                             *)
LEMMA WalkStep ==
  ASSUME RInv, Inv', FenceCleansAll', View' = View, Owed' = Owed,
         state \in FlushStates, state' \in FlushStates \cup {"FLUSH_DONE"},
         UNCHANGED <<mem, resv, req, resp>>,
         flushErr' => state' = "FLUSH_DONE"
  PROVE  ContractStep
<1>1. Maintained = [op |-> "FENCE", line |-> None, st |-> "busy"]
  BY DEF Maintained, FlushStates, FlushWriteStates, CboStates, CboWriteStates
<1>2. CASE state' \in FlushStates
  <2>1. Maintained' = Maintained
    BY <1>1, <1>2 DEF Maintained, FlushStates, FlushWriteStates, CboStates, CboWriteStates
  <2> QED BY <2>1, Invisible
<1>3. CASE state' = "FLUSH_DONE"
  <2>1. Maintained' = [op |-> "FENCE", line |-> None, st |-> IF flushErr' THEN "err" ELSE "ok"]
    BY <1>3 DEF Maintained, FlushStates, FlushWriteStates, CboStates, CboWriteStates
  <2>2. Contract!Finish(IF flushErr' THEN "err" ELSE "ok")
    <3>1. Maintained # None
      BY <1>1, NoneIsNone DEF Report
    <3>2. Maintained' = [Maintained EXCEPT !.st = IF flushErr' THEN "err" ELSE "ok"]
      BY <1>1, <2>1
    <3> QED BY <1>1, <3>1, <3>2 DEF Contract!Finish
  <2>3. CASE flushErr'
    <3>1. Contract!MaintenanceFault
      BY <1>1, <2>2, <2>3 DEF Contract!MaintenanceFault
    <3> QED BY <3>1 DEF ContractStep, Contract!Next
  <2>4. CASE ~flushErr'
    <3>1. Owed' = {}
      <4>1. valid' \cap dirty' = {}
        BY <1>3, <2>4 DEF FenceCleansAll
      <4> QED BY <4>1, BySlotAfter DEF OwedBySlot
    <3>2. Contract!FenceDone
      BY <1>1, <2>2, <2>4, <3>1 DEF Contract!FenceDone
    <3> QED BY <3>2 DEF ContractStep, Contract!Next
  <2> QED BY <2>3, <2>4
<1> QED BY <1>2, <1>3

LEMMA FlushScanStep == ASSUME RInv, Inv', FenceCleansAll', FlushScan PROVE ContractStep
<1>0. Inv
  BY DEF RInv, FenceInv
<1>1. /\ UNCHANGED <<valid, tag, data, dirty, bus, mem, resv, req, resp, flushErr>>
      /\ state \in FlushStates
      /\ state' \in FlushStates \cup {"FLUSH_DONE"}
  BY DEF FlushScan, FlushAdvance, cacheVars, FlushStates, FlushWriteStates
<1>2. SameServed
  BY <1>1 DEF SameServed, ServedRead, ServedWrite
<1>3. View' = View /\ Owed' = Owed
  BY <1>0, <1>1, <1>2, SameView, SameOwed DEF SameServed
<1>4. ~flushErr'
  BY <1>1 DEF RInv, Shown
<1> QED BY <1>1, <1>3, <1>4, WalkStep

LEMMA FlushWrittenStep ==
  ASSUME RInv, Inv', FenceCleansAll', FlushWritten PROVE ContractStep
<1>0. Inv
  BY DEF RInv, FenceInv
<1>1. /\ UNCHANGED <<valid, tag, data, mem, resv, req, resp>>
      /\ state \in FlushStates /\ state \in FlushWriteStates /\ ~flushErr
  BY DEF FlushWritten, FlushStates, RInv, Shown
<1>2. WrittenSlot = flushAt /\ state \in WriteStates
  BY <1>1 DEF WrittenSlot, WriteStates, EvictStates, FlushWriteStates
<1>3. CASE Answered(TRUE) /\ flushErr' = TRUE /\ state' = "FLUSH_DONE" /\ dirty' = dirty
  <2>1. bus.err /\ bus'.st = "idle"
    BY <1>3 DEF Answered, IdleBus
  <2>2. SameServed
    BY <2>1, Unserved, UnservedAfter DEF SameServed
  <2>3. View' = View /\ Owed' = Owed
    BY <1>0, <1>1, <1>3, <2>2, SameView, SameOwed DEF SameServed
  <2> QED BY <1>1, <1>3, <2>3, WalkStep
<1>4. CASE Answered(FALSE) /\ dirty' = dirty \ {flushAt} /\ FlushAdvance /\ flushErr' = flushErr
  <2>1. View' = View /\ Owed' = Owed
    BY <1>0, <1>1, <1>2, <1>4, WrittenBackSame
  <2>2. state' \in {"FLUSH_SCAN", "FLUSH_DONE"}
    BY <1>4 DEF FlushAdvance
  <2> QED BY <1>1, <1>4, <2>1, <2>2, WalkStep DEF FlushStates
<1> QED BY <1>3, <1>4 DEF FlushWritten
-----------------------------------------------------------------------------
(* An answer is withdrawn on the edge after it, and an error flag is cleared *)
(* on the edge that accepts the next operation.                             *)
LEMMA ShownInductive == ASSUME Inv, Shown, [Next]_vars PROVE Shown'
<1> USE DEF Shown, FlushStates, FlushWriteStates, CboStates, CboWriteStates
<1>1. CASE AwaitLine
  <2>1. /\ UNCHANGED <<resp, flushErr, cboErr, cbo>>
        /\ \/ state = "WRITEBACK_REQ" /\ state' = "WRITEBACK_WAIT"
           \/ state = "REFILL_REQ" /\ state' = "REFILL_WAIT"
           \/ state = "FLUSH_WRITEBACK_REQ" /\ state' = "FLUSH_WRITEBACK_WAIT"
           \/ state = "CBO_WRITEBACK_REQ" /\ state' = "CBO_WRITEBACK_WAIT"
    BY <1>1 DEF AwaitLine, ReqStates, WaitOf
  <2> QED BY <2>1
<1>2. CASE LookupHit
  <2>1. state' = "RESP"
    BY <1>2 DEF LookupHit, LoadHit, StoreHit, LrHit, ScHit, AmoHit, Hit
  <2> QED BY <2>1
<1>3. CASE LookupMiss \/ VictimWritten \/ Install
  <2>1. /\ resp' = resp /\ state # "RESP"
        /\ state' \in {"WRITEBACK_REQ", "REFILL_REQ", "LOOKUP"}
    BY <1>3 DEF LookupMiss, VictimWritten, Install, EvictStates, RefillStates
  <2> QED BY <2>1
<1>4. CASE MissFault
  BY <1>4 DEF MissFault, AccessFault
<1>5. CASE CboLookup
  <2>1. /\ UNCHANGED <<resp, cboErr, cbo>> /\ state = "CBO_LOOKUP"
        /\ \/ state' = "CBO_DONE"
           \/ state' = "CBO_WRITEBACK_REQ" /\ cbo.op \in {"CLEAN", "FLUSH"}
    BY <1>5 DEF CboLookup
  <2> QED BY <2>1
<1>6. CASE CboWritten
  BY <1>6 DEF CboWritten
<1>7. CASE FlushScan
  <2>1. /\ UNCHANGED <<resp, flushErr>> /\ state = "FLUSH_SCAN"
        /\ state' \in {"FLUSH_SCAN", "FLUSH_WRITEBACK_REQ", "FLUSH_DONE"}
    BY <1>7 DEF FlushScan, FlushAdvance
  <2> QED BY <2>1
<1>8. CASE FlushWritten
  <2>1. /\ resp' = resp /\ state \in FlushWriteStates
        /\ \/ state' = "FLUSH_DONE"
           \/ state' = "FLUSH_SCAN" /\ flushErr' = flushErr
    BY <1>8 DEF FlushWritten, FlushAdvance
  <2> QED BY <2>1
<1>9. CASE ServeLine
  BY <1>9 DEF ServeLine
<1>10. ASSUME NEW r \in Request, AcceptCpu(r) PROVE Shown'
  BY <1>10 DEF AcceptCpu
<1>11. ASSUME NEW c \in Cbo, AcceptCbo(c) PROVE Shown'
  BY <1>11 DEF AcceptCbo
<1>12. CASE AcceptFlush
  BY <1>12 DEF AcceptFlush
<1>13. CASE GoIdle
  BY <1>13 DEF GoIdle
<1>14. ASSUME NEW l \in Line, NEW w \in Word, NEW v \in DmaValue, DmaWrite(l, w, v)
       PROVE  Shown'
  BY <1>14 DEF DmaWrite
<1>15. CASE UNCHANGED vars
  BY <1>15 DEF vars
<1> QED BY <1>1, <1>2, <1>3, <1>4, <1>5, <1>6, <1>7, <1>8, <1>9, <1>10, <1>11, <1>12, <1>13,
           <1>14, <1>15 DEF Next, CacheStep

LEMMA InitRefines == Init => RInv /\ Contract!Init
<1> SUFFICES ASSUME Init PROVE RInv /\ Contract!Init
  OBVIOUS
<1>1. Inv
  BY InitInv
<1>2. FenceInv /\ Shown
  BY <1>1 DEF Init, FenceInv, Walk, FenceCleansAll, Shown, FlushStates, FlushWriteStates,
     CboStates, CboWriteStates
<1>3. ViewBySlot /\ OwedBySlot
  BY <1>1, BySlot
<1>4. bus.st = "idle" /\ valid = {}
  BY DEF Init, IdleBus
<1>5. View = [l \in Line |-> None]
  <2>1. \A l \in Line : View[l] = None
    BY <1>3, <1>4, Unserved DEF ViewBySlot
  <2> QED BY <1>3, <2>1 DEF ViewBySlot
<1>6. Owed = {}
  BY <1>3, <1>4 DEF OwedBySlot
<1>7. Maintained = None
  BY NotMaintaining DEF Init, FlushStates, FlushWriteStates, CboStates, CboWriteStates
<1>8. mem \in [Line -> Contract!LineData]
  BY DEF Init, LineData, Contract!LineData
<1> QED BY <1>2, <1>5, <1>6, <1>7, <1>8 DEF RInv, Init, Contract!Init

LEMMA NextRefines ==
  ASSUME NWays = 2 PROVE RInv /\ [Next]_vars => RInv' /\ [Contract!Next]_Contract!vars
<1> SUFFICES ASSUME RInv, [Next]_vars PROVE RInv' /\ ContractStep
  BY DEF ContractStep
<1>1. RInv'
  BY FenceInductive, ShownInductive DEF RInv, FenceInv
<1>2. Inv' /\ FenceCleansAll'
  BY <1>1 DEF RInv, FenceInv
<1>3. CASE CacheStep
  BY <1>1, <1>2, <1>3, AwaitLineStep, LookupHitStep, LookupMissStep, MissFaultStep,
     VictimWrittenStep, InstallStep, CboLookupStep, CboWrittenStep, FlushScanStep,
     FlushWrittenStep DEF CacheStep
<1>4. CASE ServeLine
  BY <1>1, <1>2, <1>4, ServeLineStep
<1>5. ASSUME NEW r \in Request, AcceptCpu(r) PROVE ContractStep
  BY <1>2, <1>5, AcceptCpuStep
<1>6. ASSUME NEW c \in Cbo, AcceptCbo(c) PROVE ContractStep
  BY <1>2, <1>6, AcceptCboStep
<1>7. CASE AcceptFlush \/ GoIdle
  BY <1>1, <1>2, <1>7, AcceptFlushStep, GoIdleStep
<1>8. ASSUME NEW l \in Line, NEW w \in Word, NEW v \in DmaValue, DmaWrite(l, w, v)
      PROVE  ContractStep
  BY <1>2, <1>8, DmaWriteStep
<1>9. CASE UNCHANGED vars
  <2>1. /\ UNCHANGED <<state, valid, tag, data, dirty, bus, mem, resv, req, resp, cbo>>
        /\ UNCHANGED <<flushErr, cboErr>>
    BY <1>9 DEF vars
  <2>2. SameServed
    BY <2>1 DEF SameServed, ServedRead, ServedWrite
  <2>3. View' = View /\ Owed' = Owed
    BY <1>2, <2>1, <2>2, SameView, SameOwed DEF SameServed, RInv, FenceInv
  <2>4. Maintained' = Maintained
    BY <2>1 DEF Maintained
  <2> QED BY <1>1, <2>1, <2>3, <2>4, Invisible
<1> QED BY <1>1, <1>3, <1>4, <1>5, <1>6, <1>7, <1>8, <1>9 DEF Next

\* Loads, stores, AMOs, LR and SC of the two-way cache act on one view of memory,
\* each exactly once, and a FENCE or CBO reported without an error has done what
\* DMA software relies on, for every size of the cache and of its contents.
THEOREM ImplementsContractAlways ==
  ASSUME NWays = 2 PROVE Spec => ImplementsContract
BY InitRefines, NextRefines, PTL DEF Spec, ImplementsContract, Contract!Spec
=============================================================================
