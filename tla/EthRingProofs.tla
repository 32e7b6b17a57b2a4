---------------------------- MODULE EthRingProofs ---------------------------
(* Theorems about EthRing, for rings of every size: its types, RingsLive,     *)
(* NoStaleFrame, FramesInOrder and, where no write of a completion fails,     *)
(* SlotFree.                                                                  *)
EXTENDS EthRing, FiniteSetTheorems, TLAPS

(* How far b is ahead of a in a ring of n slots, without a remainder.         *)
Ahead(a, b, n) == IF a <= b THEN b - a ELSE b + n - a
TxAhead(a, b) == Ahead(a, b, TxN)
RxAhead(a, b) == Ahead(a, b, RxN)

-----------------------------------------------------------------------------
(* The inductive invariant, in named parts.                                   *)
Status == {"no", "ok", "err"}
Descriptor == [own : BOOLEAN, st : Status, frame : Nat]
Direction == [act : BOOLEAN, pend : Status, wait : BOOLEAN]
Place == [op : {"unbound", "down", "open", "up", "xmit", "stop"},
          at : {"no", "reclaim", "slot", "tail", "bell", "full", "irq", "rx", "poll", "ctrl",
                "reset", "alloc", "program", "enable", "irqon", "start", "off", "over", "napi",
                "wait", "timeout", "free"}]
Poll == [on : BOOLEAN, sched : BOOLEAN,
         at : {"no", "tx", "wake", "rx", "tail", "bell", "done", "on", "check", "again"},
         work : 0 .. Budget, tail : BOOLEAN, fails : Nat]
Registers == [txEn : BOOLEAN, rxEn : BOOLEAN, txTail : TxSlot, rxTail : RxSlot,
              base : {"none", "live", "freed"}, irqEn : BOOLEAN, irq : SUBSET {"TX", "RX"}]
RingEngine == [st : {"IDLE", "FETCH", "COMP", "RESP"}, tx : BOOLEAN, err : BOOLEAN]

Types ==
  /\ pc \in Place /\ rings \in BOOLEAN /\ stopped \in BOOLEAN /\ load \in Loads
  /\ txSkb \in [TxSlot -> 0 .. load.tx]
  /\ txProd \in TxSlot /\ txClean \in TxSlot /\ rxProd \in RxSlot /\ rxCons \in RxSlot
  /\ napi \in Poll /\ napi.fails <= load.fails /\ irqAt \in {"no", "clear", "disable"}
  /\ reg \in Registers /\ eng \in RingEngine /\ tx \in Direction /\ rx \in Direction
  /\ txHead \in TxSlot /\ rxHead \in RxSlot
  /\ txDesc \in [TxSlot -> Descriptor] /\ rxDesc \in [RxSlot -> Descriptor]
  /\ txDma \in {"idle", "reading", "dangling"} /\ rxDma \in {"idle", "armed", "issued", "dangling"}
  /\ taken \in Nat /\ sent \in Nat /\ arrived \in Nat /\ delivered \in Nat

\* The life of a session.  Attached: the registers speak of the rings the driver
\* has.  Served: a poll may run.
Early == {"irq", "rx", "poll", "ctrl", "reset", "alloc", "off", "over"}
Opening == {"enable", "irqon", "bell", "start"}
Attached == \/ pc.op \in {"up", "xmit"}
            \/ pc.op = "open" /\ pc.at \in Opening
            \/ pc.op = "stop" /\ pc.at # "free"
Served == \/ pc.op \in {"up", "xmit"}
          \/ pc.op = "open" /\ pc.at \in {"bell", "start"}
          \/ pc.op = "stop" /\ pc.at \notin {"reset", "free"}
EngBusy == eng.st # "IDLE" \/ tx.act \/ rx.act

Places ==
  /\ \/ pc.op \in {"unbound", "down", "up"} /\ pc.at = "no"
     \/ pc.op = "xmit" /\ pc.at \in {"reclaim", "slot", "tail", "bell", "full"}
     \/ pc.op = "open" /\ pc.at \in Early \cup {"program"} \cup Opening
     \/ pc.op = "stop" /\ pc.at \in {"irq", "rx", "poll", "ctrl", "napi", "wait", "timeout",
                                     "over", "reset", "free"}
  /\ pc.op \in {"up", "xmit", "stop"} => rings
  /\ pc.op = "open" => (rings <=> pc.at \in {"program"} \cup Opening)
  /\ pc.op = "unbound" => ~rings
  /\ pc.op = "xmit" /\ pc.at \in {"reclaim", "slot"} => taken < load.tx
  /\ taken <= load.tx

\* A poll runs only while its rings exist.
Polls ==
  /\ ~Served => ~napi.sched /\ napi.at = "no"
  /\ napi.on => pc.op \in {"open", "up", "xmit", "stop"}
  /\ napi.on => pc.at \notin {"wait", "over"} /\ ~(pc.op = "stop" /\ pc.at \in {"reset", "free"})
  /\ pc.op = "xmit" => napi.at = "no"
  /\ napi.on /\ ~Served => irqAt = "no" /\ ~(reg.irqEn /\ reg.irq # {})
  /\ pc.op = "open" /\ pc.at \in {"rx", "poll", "ctrl", "reset", "alloc", "off",
                                  "program", "enable", "irqon"} => ~reg.irqEn

\* The engine is at rest outside a session, except behind a stop that gave up,
\* and starts nothing while RX is off.
Engine ==
  /\ reg.rxEn => \/ pc.op \in {"up", "xmit"}
                 \/ pc.op = "open" /\ pc.at \in {"irqon", "bell", "start"}
                 \/ pc.op = "stop" /\ pc.at \in {"irq", "rx"}
  /\ Attached \/ EngBusy => reg.base = "live"
  /\ ~Attached /\ (pc.op \in {"open", "stop"} \/ (pc.op = "down" /\ ~rings)) => ~EngBusy
  /\ pc = At("open", "enable") => ~EngBusy
  /\ tx.pend # "no" => tx.act
  /\ rx.pend # "no" => rx.act
  /\ tx.act => ~(eng.tx /\ eng.st # "IDLE")
  /\ rx.act => ~(~eng.tx /\ eng.st # "IDLE")

\* What open has prepared when it programs the registers.
Prepared ==
  /\ pc.op = "open" /\ pc.at \in {"alloc", "program"} => txHead = 0 /\ rxHead = 0
  /\ pc.op = "open" /\ pc.at = "program" => txProd = 0 /\ rxProd = RxN - 1 /\ rxCons = 0
  /\ pc = At("open", "enable") => txProd = txHead
  /\ pc.op = "open" /\ pc.at \in Early \cup {"program"} => napi.fails = 0
  /\ pc.op = "open" /\ pc.at = "program" =>
       \A i \in RxSlot : i # RxN - 1 => rxDesc[i].own /\ rxDesc[i].st = "no"

\* The transmit ring: head, tail, producer, in this order, and what lies
\* between head and producer is posted.
TxBusy == tx.act \/ (eng.tx /\ eng.st # "IDLE")
TxPosted(i) == TxAhead(txHead, i) < TxAhead(txHead, txProd)
TxWindow ==
  /\ Attached =>
       /\ TxAhead(txHead, reg.txTail) <= TxAhead(txHead, txProd)
       /\ TxBusy => txHead # reg.txTail
       /\ \A i \in TxSlot : TxPosted(i) =>
            /\ txDesc[i].own /\ txDesc[i].frame = txSkb[i]
            /\ txDesc[i].st = "no" \/ (eng.st = "RESP" /\ eng.tx /\ i = txHead)
  /\ eng.st = "FETCH" /\ eng.tx =>
       /\ txDesc[txHead].own /\ txDesc[txHead].frame > sent
       /\ pc.op = "unbound" \/ txSkb[txHead] = txDesc[txHead].frame

\* Frames in the transmit ring are numbered upwards and not yet sent.
Launching == tx.act \/ (eng.tx /\ eng.st \in {"COMP", "RESP"})
TxOrder ==
  /\ sent <= taken
  /\ \A i \in TxSlot : txDesc[i].frame <= taken
  /\ reg.rxEn =>
       /\ \A i \in TxSlot : TxPosted(i) /\ (Launching => i # txHead) => txDesc[i].frame > sent
       /\ \A i, j \in TxSlot : TxPosted(j) /\ TxAhead(txHead, i) < TxAhead(txHead, j) =>
            txDesc[i].frame < txDesc[j].frame

\* The receive ring, seen from the consumer: what is completed, what is posted,
\* and the gap that failed allocations leave behind the producer.
RxFront == IF eng.st = "RESP" /\ ~eng.tx THEN RingNext(rxHead, RxN) ELSE rxHead
RxBusy == rx.act \/ (~eng.tx /\ eng.st \in {"FETCH", "COMP"})
RxCompleted(i) == RxAhead(rxCons, i) < RxAhead(rxCons, RxFront)
RxWindow ==
  Attached =>
    /\ RxAhead(rxCons, RxFront) <= RxAhead(rxCons, reg.rxTail)
    /\ RxAhead(rxCons, reg.rxTail) <= RxAhead(rxCons, rxProd)
    /\ RxAhead(rxCons, rxProd) = RxN - 1 - napi.fails
    /\ RxBusy => rxHead # reg.rxTail
    /\ \A i \in RxSlot : ~RxCompleted(i) /\ RxAhead(rxCons, i) < RxAhead(rxCons, rxProd) =>
         rxDesc[i].own /\ rxDesc[i].st = "no"

\* Completed frames are numbered upwards and not yet delivered, and a frame on
\* its way into the ring is newer than all of them.
Capturing == \/ rx.act /\ (rxDma \in {"issued", "dangling"} \/ rx.pend = "ok")
             \/ eng.st = "COMP" /\ ~eng.tx /\ ~eng.err
Captured == \/ rx.act /\ rx.pend = "ok"
            \/ eng.st = "COMP" /\ ~eng.tx /\ ~eng.err
RxOrder ==
  /\ delivered <= arrived
  /\ reg.rxEn /\ rxDma = "armed" => rx.act /\ rx.pend = "no"
  /\ Attached =>
       /\ \A i \in RxSlot : RxCompleted(i) /\ rxDesc[i].st = "ok" =>
            delivered < rxDesc[i].frame /\ rxDesc[i].frame <= arrived
       /\ \A i, j \in RxSlot : /\ RxCompleted(j) /\ RxAhead(rxCons, i) < RxAhead(rxCons, j)
                               /\ rxDesc[i].st = "ok" /\ rxDesc[j].st = "ok"
                               => rxDesc[i].frame < rxDesc[j].frame
       /\ Capturing => /\ delivered < arrived
                       /\ \A i \in RxSlot : RxCompleted(i) /\ rxDesc[i].st = "ok" =>
                            rxDesc[i].frame < arrived
       /\ Captured => rxDesc[rxHead].frame = arrived

\* The driver's books.  Kept: outside clean..prod no slot holds a frame.  Passed:
\* a slot the head has passed has its status.  Room: transmit is called only
\* while the ring has a free slot.
Kept ==
  /\ ~rings => \A i \in TxSlot : txSkb[i] = 0
  /\ rings => \A i \in TxSlot : TxAhead(txClean, i) >= TxAhead(txClean, txProd) => txSkb[i] = 0
  /\ pc.op = "open" /\ pc.at = "program" => txClean = 0
Passed ==
  Attached =>
    /\ TxAhead(txClean, txHead) <= TxAhead(txClean, txProd)
    /\ \A i \in TxSlot : TxAhead(txClean, i) < TxAhead(txClean, txHead) => txDesc[i].st # "no"
    /\ eng.st = "RESP" /\ eng.tx => txDesc[txHead].st # "no"
Room ==
  /\ pc.op = "up" /\ ~stopped => ~Full(txHead)
  /\ pc.op = "xmit" /\ pc.at \in {"reclaim", "slot"} => ~Full(txHead)
  /\ pc.op = "xmit" /\ pc.at = "slot" => RingNext(txProd, TxN) # txClean
  /\ pc.op = "open" /\ pc.at \in Opening => txProd = txHead
Books == Kept /\ Passed /\ Room

IInv == /\ Types /\ Places /\ Polls /\ Engine /\ Prepared
        /\ TxWindow /\ TxOrder /\ RxWindow /\ RxOrder

-----------------------------------------------------------------------------
(* What is assumed of the constants: rings of two slots or more, and bounds   *)
(* that are numbers.                                                          *)
LEMMA Sizes ==
  /\ TxN \in Nat \ {0, 1} /\ RxN \in Nat \ {0, 1} /\ Budget \in Nat \ {0}
  /\ \A l \in Loads : l.tx \in Nat /\ l.rx \in Nat /\ l.opens \in Nat /\ l.fails \in 0 .. RxN - 2
<1>1. TxN \in Nat \ {0, 1} /\ RxN \in Nat \ {0, 1} /\ Budget \in Nat \ {0}
  BY RingAssumption
<1>2. \A l \in Loads : l.tx \in Nat /\ l.rx \in Nat /\ l.opens \in Nat /\ l.fails \in 0 .. RxN - 2
  BY LoadAssumption
<1> QED BY <1>1, <1>2

(* Below twice its divisor a remainder is one comparison and one subtraction. *)
LEMMA Remainder ==
  ASSUME NEW n \in Nat \ {0}, NEW k \in 0 .. 2 * n - 1
  PROVE  k % n = IF k < n THEN k ELSE k - n
<1>1. k < n => k % n = k
  OBVIOUS
<1>2. k >= n => k % n = k - n
  <2> SUFFICES ASSUME k >= n PROVE k % n = k - n
    OBVIOUS
  <2>1. k - n \in 0 .. n - 1
    OBVIOUS
  <2>2. k % n = (k - n) % n
    OBVIOUS
  <2> QED BY <2>1, <2>2
<1> QED BY <1>1, <1>2

(* The next slot of the transmit ring, without a remainder.                   *)
LEMMA TxNext ==
  ASSUME NEW i \in TxSlot
  PROVE  /\ RingNext(i, TxN) = IF i = TxN - 1 THEN 0 ELSE i + 1
         /\ RingNext(i, TxN) \in TxSlot
<1>1. i + 1 \in 0 .. 2 * TxN - 1 /\ TxN \in Nat \ {0}
  BY Sizes DEF TxSlot
<1>2. RingNext(i, TxN) = IF i + 1 < TxN THEN i + 1 ELSE i + 1 - TxN
  <2> DEFINE k == i + 1
  <2> HIDE DEF k
  <2>1. k % TxN = IF k < TxN THEN k ELSE k - TxN
    BY <1>1, Remainder DEF k
  <2> QED BY <1>1, <2>1 DEF k, RingNext, TxSlot, RxSlot
<1> QED BY <1>1, <1>2 DEF TxSlot

(* The next slot of the receive ring, without a remainder.                    *)
LEMMA RxNext ==
  ASSUME NEW i \in RxSlot
  PROVE  /\ RingNext(i, RxN) = IF i = RxN - 1 THEN 0 ELSE i + 1
         /\ RingNext(i, RxN) \in RxSlot
<1>1. i + 1 \in 0 .. 2 * RxN - 1 /\ RxN \in Nat \ {0}
  BY Sizes DEF RxSlot
<1>2. RingNext(i, RxN) = IF i + 1 < RxN THEN i + 1 ELSE i + 1 - RxN
  <2> DEFINE k == i + 1
  <2> HIDE DEF k
  <2>1. k % RxN = IF k < RxN THEN k ELSE k - RxN
    BY <1>1, Remainder DEF k
  <2> QED BY <1>1, <2>1 DEF k, RingNext, TxSlot, RxSlot
<1> QED BY <1>1, <1>2 DEF RxSlot

(* The slots from a up to b are those nearer to a than b is.                  *)
LEMMA BetweenIsLinear ==
  ASSUME NEW a \in TxSlot, NEW b \in TxSlot
  PROVE  Between(a, b) = {i \in TxSlot : TxAhead(a, i) < TxAhead(a, b)}
<1>1. TxN \in Nat \ {0}
  BY Sizes
<1>2. ASSUME NEW i \in TxSlot
      PROVE  (i + TxN - a) % TxN = TxAhead(a, i)
  <2>1. i + TxN - a \in 0 .. 2 * TxN - 1
    BY <1>1 DEF TxSlot
  <2> DEFINE k == i + TxN - a
  <2>2. k \in 0 .. 2 * TxN - 1
    BY <2>1
  <2> HIDE DEF k
  <2>3. k % TxN = IF k < TxN THEN k ELSE k - TxN
    BY <1>1, <2>2, Remainder
  <2> QED BY <1>1, <2>3 DEF k, TxSlot, TxAhead, Ahead
<1>3. (b + TxN - a) % TxN = TxAhead(a, b)
  BY <1>2
<1> QED BY <1>2, <1>3 DEF Between

(* As many slots lie between two as the second is ahead of the first.         *)
LEMMA BetweenCount ==
  ASSUME NEW a \in TxSlot, NEW b \in TxSlot
  PROVE  IsFiniteSet(Between(a, b)) /\ Cardinality(Between(a, b)) = TxAhead(a, b)
<1>1. TxN \in Nat \ {0} /\ a \in 0 .. TxN - 1 /\ b \in 0 .. TxN - 1
  BY Sizes DEF TxSlot
<1>2. CASE a <= b
  <2>1. Between(a, b) = a .. b - 1
    BY <1>1, <1>2, BetweenIsLinear DEF TxSlot, TxAhead, Ahead
  <2>2. a \in Int /\ b - 1 \in Int
    BY <1>1
  <2>3. IsFiniteSet(a .. b - 1) /\ Cardinality(a .. b - 1) = IF a > b - 1 THEN 0 ELSE b - 1 - a + 1
    BY <2>2, FS_Interval
  <2> QED BY <1>1, <1>2, <2>1, <2>3 DEF TxAhead, Ahead
<1>3. CASE a > b
  <2> DEFINE U == a .. TxN - 1
             V == 0 .. b - 1
  <2>1. Between(a, b) = U \cup V
    BY <1>1, <1>3, BetweenIsLinear DEF TxSlot, TxAhead, Ahead
  <2>2. /\ IsFiniteSet(U) /\ IsFiniteSet(V)
        /\ Cardinality(U) = TxN - a /\ Cardinality(V) = b
    <3>1. a \in Int /\ TxN - 1 \in Int /\ 0 \in Int /\ b - 1 \in Int
      BY <1>1
    <3>2. IsFiniteSet(U) /\ Cardinality(U) = IF a > TxN - 1 THEN 0 ELSE TxN - 1 - a + 1
      BY <3>1, FS_Interval
    <3>3. IsFiniteSet(V) /\ Cardinality(V) = IF 0 > b - 1 THEN 0 ELSE b - 1 - 0 + 1
      BY <3>1, FS_Interval
    <3> QED BY <1>1, <1>3, <3>2, <3>3
  <2>3. U \cap V = {}
    BY <1>1, <1>3
  <2>4. Cardinality(U \cap V) = 0
    BY <2>3, FS_EmptySet
  <2> HIDE DEF U, V
  <2>5. /\ IsFiniteSet(U \cup V)
        /\ Cardinality(U \cup V) = Cardinality(U) + Cardinality(V) - Cardinality(U \cap V)
    BY <2>2, FS_Union
  <2> QED BY <1>1, <1>3, <2>1, <2>2, <2>4, <2>5 DEF TxAhead, Ahead
<1> QED BY <1>1, <1>2, <1>3

(* Reclaim moves txClean to a slot, and as far as the head when every slot up *)
(* to it has its status.                                                      *)
LEMMA ReclaimedCount ==
  ASSUME txClean \in TxSlot, txHead \in TxSlot
  PROVE  /\ (txClean + Cardinality(Reclaimed)) % TxN \in TxSlot
         /\ (\A i \in TxSlot : TxAhead(txClean, i) < TxAhead(txClean, txHead) => txDesc[i].st # "no")
              => /\ Reclaimed = Between(txClean, txHead)
                 /\ (txClean + Cardinality(Reclaimed)) % TxN = txHead
<1>1. TxN \in Nat \ {0} /\ txClean \in 0 .. TxN - 1 /\ txHead \in 0 .. TxN - 1
  BY Sizes DEF TxSlot
<1>2. Reclaimed \in SUBSET Between(txClean, txHead)
  BY DEF Reclaimed
<1>3. IsFiniteSet(Between(txClean, txHead)) /\ Cardinality(Between(txClean, txHead)) = TxAhead(txClean, txHead)
  BY BetweenCount
<1>4. IsFiniteSet(Reclaimed) /\ Cardinality(Reclaimed) \in Nat
  BY <1>2, <1>3, FS_Subset, FS_CardinalityType
<1>5. (txClean + Cardinality(Reclaimed)) % TxN \in TxSlot
  BY <1>1, <1>4 DEF TxSlot
<1>6. ASSUME \A i \in TxSlot : TxAhead(txClean, i) < TxAhead(txClean, txHead) => txDesc[i].st # "no"
      PROVE  /\ Reclaimed = Between(txClean, txHead)
             /\ (txClean + Cardinality(Reclaimed)) % TxN = txHead
  <2>1. \A i \in Between(txClean, txHead) : i \in TxSlot /\ txDesc[i].st # "no"
    BY <1>6, BetweenIsLinear
  <2>2. ASSUME NEW i \in Between(txClean, txHead), NEW j \in Between(txClean, i)
        PROVE  j \in Between(txClean, txHead)
    <3>1. i \in TxSlot /\ TxAhead(txClean, i) < TxAhead(txClean, txHead)
      BY BetweenIsLinear
    <3>2. j \in TxSlot /\ TxAhead(txClean, j) < TxAhead(txClean, i)
      BY <3>1, BetweenIsLinear
    <3>3. TxAhead(txClean, j) < TxAhead(txClean, txHead)
      BY <1>1, <3>1, <3>2 DEF TxAhead, Ahead, TxSlot
    <3> QED BY <3>2, <3>3, BetweenIsLinear
  <2>3. Reclaimed = Between(txClean, txHead)
    BY <2>1, <2>2 DEF Reclaimed
  <2>4. txClean + TxAhead(txClean, txHead) \in 0 .. 2 * TxN - 1
    BY <1>1 DEF TxAhead, Ahead
  <2>5. (txClean + TxAhead(txClean, txHead)) % TxN = txHead
    <3> DEFINE k == txClean + TxAhead(txClean, txHead)
    <3>1. k \in 0 .. 2 * TxN - 1
      BY <2>4
    <3> HIDE DEF k
    <3>2. k % TxN = IF k < TxN THEN k ELSE k - TxN
      BY <1>1, <3>1, Remainder
    <3>3. k = IF txClean <= txHead THEN txHead ELSE txHead + TxN
      BY <1>1 DEF k, TxAhead, Ahead
    <3>4. k % TxN = txHead
      BY <1>1, <3>2, <3>3
    <3> QED BY <3>4 DEF k
  <2> QED BY <1>3, <2>3, <2>5
<1> QED BY <1>5, <1>6

-----------------------------------------------------------------------------
(* Types: a step of the ring engine.                                          *)
LEMMA EngineTypes ==
  ASSUME Types, EngineStep, UNCHANGED <<driver, napi, irqAt, cause, delivered>>
  PROVE  Types'
<1> USE DEF Types, driver, memory, engine, payload
<1>1. CASE CompleteTx /\ UNCHANGED <<txHead, rxHead, reg, memory, payload>>
  BY <1>1 DEF CompleteTx, IdleTo, EngineIdle, RxDropped, Quiet, RingEngine, Direction, Status
<1>2. CASE CompleteRx /\ UNCHANGED <<txHead, rxHead, reg, memory, payload>>
  <2>1. eng' \in RingEngine
    BY <1>2 DEF CompleteRx, IdleTo, EngineIdle, RingEngine, Registers
  <2>2. rx' \in Direction
    BY <1>2 DEF CompleteRx, Quiet, Direction, Status
  <2> QED BY <1>2, <2>1, <2>2 DEF CompleteRx
<1>3. CASE StartFetch /\ UNCHANGED <<txHead, rxHead, reg, memory, payload>>
  <2>1. eng' \in RingEngine
    BY <1>3 DEF StartFetch, TxWanted, IdleTo, EngineIdle, RingEngine, Registers
  <2>2. rx' \in Direction
    BY <1>3 DEF StartFetch, RxDropped, Quiet, Direction, Status
  <2> QED BY <1>3, <2>1, <2>2 DEF StartFetch
<1>4. CASE StayIdle /\ UNCHANGED <<txHead, rxHead, reg, memory, payload>>
  BY <1>4 DEF StayIdle, RxDropped, Quiet, Direction, Status
<1>5. CASE Abandoned /\ UNCHANGED <<txHead, rxHead, reg, memory, payload>>
  BY <1>5 DEF Abandoned, EngineIdle, Quiet, RingEngine, Direction, Status
<1>6. CASE Launched /\ UNCHANGED <<txHead, rxHead, reg, memory>>
  <2>1. eng' \in RingEngine /\ tx' \in Direction
    BY <1>6 DEF Launched, EngineIdle, RingEngine, Direction
  <2>2. sent' \in Nat /\ txDma' \in {"idle", "reading", "dangling"}
    BY <1>6 DEF Launched, Descriptor
  <2> QED BY <1>6, <2>1, <2>2 DEF Launched
<1>7. CASE Armed /\ UNCHANGED <<txHead, rxHead, reg, memory>>
  <2>1. eng' \in RingEngine /\ rx' \in Direction
    BY <1>7 DEF Armed, EngineIdle, RingEngine, Direction, Status
  <2>2. rxDma' \in {"idle", "armed", "issued", "dangling"}
    BY <1>7 DEF Armed
  <2> QED BY <1>7, <2>1, <2>2 DEF Armed
<1>8. CASE StatusWritten /\ UNCHANGED <<txHead, rxHead, tx, rx, reg, payload>>
  <2>1. eng' \in RingEngine
    BY <1>8 DEF StatusWritten, RingEngine
  <2>2. PICK fails \in WriteFails :
          LET word == IF eng.err THEN "err" ELSE "ok"
          IN  IF fails THEN UNCHANGED memory
              ELSE IF eng.tx THEN txDesc' = [txDesc EXCEPT ![txHead].st = word] /\ UNCHANGED rxDesc
              ELSE rxDesc' = [rxDesc EXCEPT ![rxHead].st = word] /\ UNCHANGED txDesc
    BY <1>8 DEF StatusWritten
  <2>3. txDesc' \in [TxSlot -> Descriptor]
    BY <2>2 DEF Descriptor, Status
  <2>4. rxDesc' \in [RxSlot -> Descriptor]
    BY <2>2 DEF Descriptor, Status
  <2> QED BY <1>8, <2>1, <2>3, <2>4
<1>9. CASE HeadMoved /\ UNCHANGED <<tx, rx, memory, payload>>
  BY <1>9, TxNext, RxNext DEF HeadMoved, EngineIdle, RingEngine, Registers
<1> QED BY <1>1, <1>2, <1>3, <1>4, <1>5, <1>6, <1>7, <1>8, <1>9 DEF EngineStep

(* Types: a step of the payload paths.                                        *)
LEMMA PayloadTypes ==
  ASSUME Types, PayloadStep, UNCHANGED <<driver, napi, irqAt, cause, delivered>>
  PROVE  Types'
<1> USE DEF Types, driver, memory, engine, payload
<1>1. CASE TxPayload /\ UNCHANGED <<eng, txHead, rxHead, reg, txDesc>>
  BY <1>1 DEF TxPayload, Direction, Status
<1>2. CASE FrameArrives /\ UNCHANGED <<eng, txHead, rxHead, reg, txDesc>>
  BY <1>2 DEF FrameArrives, Direction, Status
<1>3. CASE RxPayload /\ UNCHANGED <<eng, txHead, rxHead, reg, txDesc>>
  BY <1>3 DEF RxPayload, Direction, Descriptor, Status
<1>4. CASE Disarmed /\ UNCHANGED <<eng, txHead, rxHead, reg, txDesc>>
  BY <1>4 DEF Disarmed
<1> QED BY <1>1, <1>2, <1>3, <1>4 DEF PayloadStep

(* Types: a step of the interrupt handler.                                    *)
LEMMA IrqTypes ==
  ASSUME Types, Irq
  PROVE  Types'
<1> USE DEF Types, driver, memory, engine, payload
<1>1. CASE irqAt = "no"
  BY <1>1 DEF Irq, IrqStep
<1>2. CASE irqAt = "clear"
  BY <1>2 DEF Irq, IrqStep, Registers
<1>3. CASE irqAt = "disable"
  BY <1>3 DEF Irq, IrqStep, Schedule, Registers, Poll
<1> QED BY <1>1, <1>2, <1>3

(* Types: a step of the poll.                                                 *)
LEMMA NapiTypes ==
  ASSUME Types, Napi
  PROVE  Types'
<1> USE DEF Types, driver, memory, engine, payload
<1>1. CASE NapiStart /\ UNCHANGED <<irqAt, cause, eng, txHead, rxHead, tx, payload>>
  <2>1. napi' \in Poll /\ napi'.fails = napi.fails
    <3>1. 0 \in 0 .. Budget
      BY Sizes
    <3> QED BY <1>1, <3>1 DEF NapiStart, Poll
  <2> QED BY <1>1, <2>1 DEF NapiStart
<1>2. CASE NapiReclaim /\ UNCHANGED <<irqAt, cause, eng, txHead, rxHead, tx, payload>>
  <2>1. napi' \in Poll /\ napi'.fails <= load.fails
    BY <1>2 DEF NapiReclaim, NapiTo, Poll
  <2>2. txSkb' \in [TxSlot -> 0 .. load.tx]
    BY <1>2, Sizes DEF NapiReclaim, Reclaim
  <2>3. txDesc' \in [TxSlot -> Descriptor]
    BY <1>2 DEF NapiReclaim, Reclaim, Descriptor, Status
  <2>4. txClean' \in TxSlot
    BY <1>2, ReclaimedCount DEF NapiReclaim, Reclaim
  <2> QED BY <1>2, <2>1, <2>2, <2>3, <2>4 DEF NapiReclaim
<1>3. CASE NapiWake /\ UNCHANGED <<irqAt, cause, eng, txHead, rxHead, tx, payload>>
  BY <1>3 DEF NapiWake, Wake, NapiTo, Poll
<1>4. CASE RxPosted /\ UNCHANGED <<irqAt, cause, eng, txHead, rxHead, tx, payload>>
  <2>1. napi' \in Poll /\ napi'.fails <= load.fails
    <3>1. napi.work + 1 \in 0 .. Budget
      BY <1>4, Sizes DEF RxPosted, RxTurn, Poll
    <3> QED BY <1>4, <3>1 DEF RxPosted, Poll
  <2>2. rxDesc' \in [RxSlot -> Descriptor]
    BY <1>4 DEF RxPosted, Posted, Descriptor, Status
  <2>3. delivered' \in Nat
    BY <1>4 DEF RxPosted, RxDeliver, Descriptor
  <2>4. rxCons' \in RxSlot /\ rxProd' \in RxSlot
    BY <1>4, RxNext DEF RxPosted
  <2> QED BY <1>4, <2>1, <2>2, <2>3, <2>4 DEF RxPosted
<1>5. CASE RxNotPosted /\ UNCHANGED <<irqAt, cause, eng, txHead, rxHead, tx, payload>>
  <2>1. napi' \in Poll /\ napi'.fails <= load.fails
    <3> DEFINE where == IF napi.tail THEN "tail" ELSE "done"
    <3>1. napi.work + 1 \in 0 .. Budget /\ napi.fails + 1 <= load.fails /\ napi.fails + 1 \in Nat
      BY <1>5, Sizes DEF RxNotPosted, RxTurn, Poll
    <3>2. napi' = [napi EXCEPT !.work = napi.work + 1, !.fails = napi.fails + 1, !.at = where]
      BY <1>5 DEF RxNotPosted
    <3>3. where \in {"tail", "done"}
      OBVIOUS
    <3> HIDE DEF where
    <3> QED BY <3>1, <3>2, <3>3 DEF Poll
  <2>2. reg' \in Registers
    BY <1>5 DEF RxNotPosted, Registers
  <2>3. delivered' \in Nat
    BY <1>5 DEF RxNotPosted, RxDeliver, Descriptor
  <2>4. rxCons' \in RxSlot
    BY <1>5, RxNext DEF RxNotPosted
  <2> QED BY <1>5, <2>1, <2>2, <2>3, <2>4 DEF RxNotPosted
<1>6. CASE RxDone /\ UNCHANGED <<irqAt, cause, eng, txHead, rxHead, tx, payload>>
  BY <1>6 DEF RxDone, NapiTo, Poll
<1>7. CASE NapiTail /\ UNCHANGED <<irqAt, cause, eng, txHead, rxHead, tx, payload>>
  BY <1>7 DEF NapiTail, NapiTo, Poll, Registers
<1>8. CASE NapiBell /\ UNCHANGED <<irqAt, cause, eng, txHead, rxHead, tx, payload>>
  <2>1. napi' \in Poll /\ napi'.fails = napi.fails
    BY <1>8 DEF NapiBell, NapiTo, Poll
  <2>2. rx' \in Direction
    BY <1>8 DEF NapiBell, Direction
  <2> QED BY <1>8, <2>1, <2>2 DEF NapiBell
<1>9. CASE NapiDone /\ UNCHANGED <<irqAt, cause, eng, txHead, rxHead, tx, payload>>
  BY <1>9 DEF NapiDone, Poll
<1>10. CASE NapiOn /\ UNCHANGED <<irqAt, cause, eng, txHead, rxHead, tx, payload>>
  BY <1>10 DEF NapiOn, NapiTo, Poll, Registers
<1>11. CASE NapiCheck /\ UNCHANGED <<irqAt, cause, eng, txHead, rxHead, tx, payload>>
  BY <1>11 DEF NapiCheck, NapiTo, Poll
<1>12. CASE NapiAgain /\ UNCHANGED <<irqAt, cause, eng, txHead, rxHead, tx, payload>>
  <2>1. napi' \in Poll /\ napi'.fails = napi.fails
    BY <1>12 DEF NapiAgain, Poll
  <2>2. reg' \in Registers
    BY <1>12 DEF NapiAgain, Registers
  <2> QED BY <1>12, <2>1, <2>2 DEF NapiAgain
<1> QED BY <1>1, <1>2, <1>3, <1>4, <1>5, <1>6, <1>7, <1>8, <1>9, <1>10, <1>11, <1>12 DEF Napi

(* Types: the stack and the bus call the driver.                              *)
LEMMA CallTypes ==
  ASSUME Types, Places, Call, UNCHANGED <<irqAt, cause>>
  PROVE  Types'
<1> USE DEF Types, driver, memory, engine, payload, Place
<1>1. CASE XmitStart /\ UNCHANGED <<eng, txHead, rxHead, rx, payload, delivered>>
  BY <1>1 DEF XmitStart, At
<1>2. CASE OpenStart
  <2>1. pc' \in Place
    BY <1>2 DEF OpenStart, At
  <2>2. napi' \in Poll /\ napi'.fails = 0
    BY <1>2 DEF OpenStart, Poll
  <2>3. 0 <= load.fails
    BY Sizes
  <2> QED BY <1>2, <2>1, <2>2, <2>3 DEF OpenStart, rest
<1>3. CASE StopStart
  BY <1>3 DEF StopStart, At, rest
<1>4. CASE Probe
  <2>1. pc' \in Place
    BY <1>4 DEF Probe, At
  <2>2. reg' \in Registers /\ eng' \in RingEngine /\ tx' \in Direction /\ rx' \in Direction
    BY <1>4 DEF Probe, RingReset, EngineIdle, Quiet, Registers, RingEngine, Direction, Status
  <2>3. txHead' \in TxSlot /\ rxHead' \in RxSlot
    <3>1. 0 \in TxSlot /\ 0 \in RxSlot
      BY Sizes DEF TxSlot, RxSlot
    <3> QED BY <1>4, <3>1 DEF Probe, RingReset
  <2> QED BY <1>4, <2>1, <2>2, <2>3 DEF Probe, rest
<1>5. CASE Remove
  <2>1. pc' \in Place
    BY <1>5 DEF Remove, At
  <2>2. txSkb' \in [TxSlot -> 0 .. load.tx]
    BY <1>5, Sizes DEF Remove
  <2> QED BY <1>5, <2>1, <2>2 DEF Remove
<1> QED BY <1>1, <1>2, <1>3, <1>4, <1>5 DEF Call

(* Types: what those calls go on to do.                                       *)
LEMMA RunningTypes ==
  ASSUME Types, Places, Running, UNCHANGED <<irqAt, cause>>
  PROVE  Types'
<1> USE DEF Types, driver, memory, engine, payload, Place
<1>1. CASE XmitReclaim /\ UNCHANGED <<eng, txHead, rxHead, rx, payload, delivered>>
  BY <1>1, ReclaimedCount, Sizes DEF XmitReclaim, Reclaim, Goto, At, Descriptor, Status
<1>2. CASE XmitSlot /\ UNCHANGED <<eng, txHead, rxHead, rx, payload, delivered>>
  <2>1. pc' \in Place
    BY <1>2 DEF XmitSlot, Goto, At
  <2>5. stopped' \in BOOLEAN /\ taken' \in Nat
    <3>1. CASE Full(txHead)
      BY <1>2, <3>1 DEF XmitSlot
    <3>2. CASE ~Full(txHead)
      BY <1>2, <3>2 DEF XmitSlot
    <3> QED BY <3>1, <3>2
  <2>2. txSkb' \in [TxSlot -> 0 .. load.tx]
    <3>1. pc = At("xmit", "slot") => taken < load.tx
      BY DEF Places, At
    <3>2. taken \in Nat /\ load.tx \in Nat
      BY Sizes
    <3> QED BY <1>2, <3>1, <3>2 DEF XmitSlot
  <2>3. txDesc' \in [TxSlot -> Descriptor]
    <3>1. Posted(taken + 1) \in Descriptor
      BY DEF Posted, Descriptor, Status
    <3> QED BY <1>2, <3>1 DEF XmitSlot
  <2>4. txProd' \in TxSlot
    BY <1>2, TxNext DEF XmitSlot
  <2> QED BY <1>2, <2>1, <2>2, <2>3, <2>4, <2>5 DEF XmitSlot
<1>3. CASE XmitTail /\ UNCHANGED <<eng, txHead, rxHead, rx, payload, delivered>>
  BY <1>3 DEF XmitTail, Goto, At, Registers
<1>4. CASE XmitBell /\ UNCHANGED <<eng, txHead, rxHead, rx, payload, delivered>>
  <2>1. pc' \in Place
    BY <1>4 DEF XmitBell, Goto, At
  <2>2. tx' \in Direction
    BY <1>4 DEF XmitBell, Direction
  <2> QED BY <1>4, <2>1, <2>2 DEF XmitBell
<1>5. CASE XmitEnd /\ UNCHANGED <<eng, txHead, rxHead, rx, payload, delivered>>
  BY <1>5 DEF XmitEnd, Goto, At, Full
<1>6. CASE HwStopStep
  <2>1. pc' \in Place
    BY <1>6 DEF HwStopStep, HwStop, Goto
  <2>2. reg' \in Registers
    BY <1>6 DEF HwStopStep, HwStop, Registers
  <2>3. napi' \in Poll /\ napi'.fails = napi.fails
    BY <1>6 DEF HwStopStep, HwStop, Poll
  <2> QED BY <1>6, <2>1, <2>2, <2>3 DEF HwStopStep, HwStop, rest
<1>7. CASE ResetStep
  <2>1. pc' \in Place
    BY <1>7 DEF ResetStep, Goto
  <2>2. reg' \in Registers /\ eng' \in RingEngine /\ tx' \in Direction /\ rx' \in Direction
    BY <1>7 DEF ResetStep, RingReset, EngineIdle, Quiet, Registers, RingEngine, Direction, Status
  <2>3. txHead' \in TxSlot /\ rxHead' \in RxSlot
    <3>1. 0 \in TxSlot /\ 0 \in RxSlot
      BY Sizes DEF TxSlot, RxSlot
    <3> QED BY <1>7, <3>1 DEF ResetStep, RingReset
  <2> QED BY <1>7, <2>1, <2>2, <2>3 DEF ResetStep, rest
<1>8. CASE AllocRings
  <2>1. pc' \in Place
    BY <1>8 DEF AllocRings, Goto, At
  <2>2. 0 \in TxSlot /\ 0 \in RxSlot /\ RxN - 1 \in RxSlot
    BY Sizes DEF TxSlot, RxSlot
  <2>3. txDesc' \in [TxSlot -> Descriptor] /\ rxDesc' \in [RxSlot -> Descriptor]
    BY <1>8 DEF AllocRings, NoDesc, Posted, Descriptor, Status
  <2> QED BY <1>8, <2>1, <2>2, <2>3 DEF AllocRings
<1>9. CASE AllocFails
  BY <1>9 DEF AllocFails, Goto, At, rest
<1>10. CASE HwProgramStep
  <2>1. pc' \in Place
    BY <1>10 DEF HwProgramStep, HwProgram, Goto
  <2>2. reg' \in Registers
    <3>1. 0 \in TxSlot /\ rxProd \in RxSlot
      BY Sizes DEF TxSlot
    <3> QED BY <1>10, <3>1 DEF HwProgramStep, HwProgram, Registers
  <2>3. rx' \in Direction
    BY <1>10 DEF HwProgramStep, HwProgram, Direction
  <2> QED BY <1>10, <2>1, <2>2, <2>3 DEF HwProgramStep, rest
<1>11. CASE OpenEnd
  BY <1>11 DEF OpenEnd, At, rest
<1>12. CASE NapiDisable
  <2>1. pc' \in Place
    BY <1>12 DEF NapiDisable, Goto, At
  <2>2. napi' \in Poll /\ napi'.fails <= load.fails
    BY <1>12 DEF NapiDisable, Poll
  <2> QED BY <1>12, <2>1, <2>2 DEF NapiDisable
<1>13. CASE FreeRings
  <2>1. pc' \in Place /\ reg' \in Registers
    BY <1>13 DEF FreeRings, At, Registers
  <2>2. txSkb' \in [TxSlot -> 0 .. load.tx]
    BY <1>13, Sizes DEF FreeRings
  <2> QED BY <1>13, <2>1, <2>2 DEF FreeRings
<1> QED BY <1>1, <1>2, <1>3, <1>4, <1>5, <1>6, <1>7, <1>8, <1>9, <1>10, <1>11, <1>12,
          <1>13 DEF Running, Xmit

-----------------------------------------------------------------------------
(* What the poll leaves alone, and when it may run.                           *)
LEMMA NapiFrame ==
  ASSUME Napi
  PROVE  /\ UNCHANGED <<pc, rings, txProd, taken, opens, load, irqAt, cause, eng, txHead, rxHead, tx>>
         /\ UNCHANGED <<txDma, rxDma, sent, arrived>>
         /\ irqAt = "no" /\ (Line => napi.at = "check")
<1>1. CASE NapiStart
  BY <1>1 DEF Napi, NapiStart, driver, payload
<1>2. CASE NapiReclaim
  BY <1>2 DEF Napi, NapiReclaim, driver, payload
<1>3. CASE NapiWake
  BY <1>3 DEF Napi, NapiWake, driver, payload
<1>4. CASE RxPosted
  BY <1>4 DEF Napi, RxPosted, driver, payload
<1>5. CASE RxNotPosted
  BY <1>5 DEF Napi, RxNotPosted, driver, payload
<1>6. CASE RxDone
  BY <1>6 DEF Napi, RxDone, driver, payload
<1>7. CASE NapiTail
  BY <1>7 DEF Napi, NapiTail, driver, payload
<1>8. CASE NapiBell
  BY <1>8 DEF Napi, NapiBell, driver, payload
<1>9. CASE NapiDone
  BY <1>9 DEF Napi, NapiDone, driver, payload
<1>10. CASE NapiOn
  BY <1>10 DEF Napi, NapiOn, driver, payload
<1>11. CASE NapiCheck
  BY <1>11 DEF Napi, NapiCheck, driver, payload
<1>12. CASE NapiAgain
  BY <1>12 DEF Napi, NapiAgain, driver, payload
<1> QED BY <1>1, <1>2, <1>3, <1>4, <1>5, <1>6, <1>7, <1>8, <1>9, <1>10, <1>11, <1>12 DEF Napi

(* Places: only process context moves.                                        *)
LEMMA OthersPlaces ==
  ASSUME Places, Hardware \/ Irq \/ Napi
  PROVE  Places'
<1>1. UNCHANGED <<pc, rings, taken, load>>
  BY NapiFrame DEF Hardware, Irq, driver
<1> QED BY <1>1 DEF Places

(* Places: the calls.                                                         *)
LEMMA CallPlaces ==
  ASSUME Types, Places, Call, UNCHANGED <<irqAt, cause>>
  PROVE  Places'
<1> USE DEF Places, Early, Opening, Types, Place
<1>1. CASE XmitStart /\ UNCHANGED <<eng, txHead, rxHead, rx, payload, delivered>>
  BY <1>1, Sizes DEF XmitStart, At
<1>2. CASE OpenStart
  BY <1>2 DEF OpenStart, At, rest
<1>3. CASE StopStart
  BY <1>3 DEF StopStart, At, rest
<1>4. CASE Probe
  BY <1>4 DEF Probe, At, RingReset, EngineIdle, Quiet, rest
<1>5. CASE Remove
  BY <1>5 DEF Remove, At
<1> QED BY <1>1, <1>2, <1>3, <1>4, <1>5 DEF Call

(* Places: what the calls go on to do.  In open the engine is at rest, and no *)
(* hw_stop gives up.                                                          *)
LEMMA RunningPlaces ==
  ASSUME Types, Places, Engine, Running, UNCHANGED <<irqAt, cause>>
  PROVE  Places'
<1> USE DEF Places, Early, Opening, Types, Place
<1>1. CASE XmitReclaim /\ UNCHANGED <<eng, txHead, rxHead, rx, payload, delivered>>
  BY <1>1 DEF XmitReclaim, Reclaim, Goto, At
<1>2. CASE XmitSlot /\ UNCHANGED <<eng, txHead, rxHead, rx, payload, delivered>>
  BY <1>2, Sizes DEF XmitSlot, Goto, At, Posted
<1>3. CASE XmitTail /\ UNCHANGED <<eng, txHead, rxHead, rx, payload, delivered>>
  BY <1>3 DEF XmitTail, Goto, At
<1>4. CASE XmitBell /\ UNCHANGED <<eng, txHead, rxHead, rx, payload, delivered>>
  BY <1>4 DEF XmitBell, Goto, At
<1>5. CASE XmitEnd /\ UNCHANGED <<eng, txHead, rxHead, rx, payload, delivered>>
  BY <1>5 DEF XmitEnd, Goto, At
<1>6. CASE HwStopStep
  BY <1>6 DEF HwStopStep, HwStop, Goto, rest, Engine, EngBusy, Attached, Busy
<1>7. CASE ResetStep
  BY <1>7 DEF ResetStep, RingReset, EngineIdle, Quiet, Goto, rest
<1>8. CASE AllocRings
  BY <1>8 DEF AllocRings, Goto, At, Posted, NoDesc
<1>9. CASE AllocFails
  BY <1>9 DEF AllocFails, Goto, At, rest
<1>10. CASE HwProgramStep
  BY <1>10 DEF HwProgramStep, HwProgram, Goto, rest
<1>11. CASE OpenEnd
  BY <1>11 DEF OpenEnd, At, rest
<1>12. CASE NapiDisable
  BY <1>12 DEF NapiDisable, Goto, At
<1>13. CASE FreeRings
  BY <1>13 DEF FreeRings, At
<1> QED BY <1>1, <1>2, <1>3, <1>4, <1>5, <1>6, <1>7, <1>8, <1>9, <1>10, <1>11, <1>12,
          <1>13 DEF Running, Xmit

(* Polls: the hardware raises a cause only while a poll may run, or with      *)
(* interrupts off.                                                            *)
LEMMA HardwarePolls ==
  ASSUME Types, Places, Polls, Engine, Hardware
  PROVE  Polls'
<1>1. UNCHANGED <<pc, napi, irqAt>> /\ reg'.irqEn = reg.irqEn
  BY DEF Hardware, driver, EngineStep, PayloadStep, HeadMoved, Types, Registers
<1>2. CASE eng.st = "RESP"
  BY <1>1, <1>2 DEF Polls, Served, Places, Engine, Attached, Opening, EngBusy, Early
<1>3. CASE eng.st # "RESP"
  <2>1. reg' = reg
    BY <1>3 DEF Hardware, EngineStep, PayloadStep, HeadMoved
  <2> QED BY <1>1, <2>1 DEF Polls, Served
<1> QED BY <1>2, <1>3

(* Polls: the handler schedules a poll only where one may run.                *)
LEMMA IrqPolls ==
  ASSUME Types, Places, Polls, Irq
  PROVE  Polls'
<1> USE DEF Polls, Served, Types, Registers, Poll
<1>1. CASE irqAt = "no"
  BY <1>1 DEF Irq, IrqStep, driver, Line, Masked
<1>2. CASE irqAt = "clear"
  BY <1>2 DEF Irq, IrqStep, driver
<1>3. CASE irqAt = "disable"
  BY <1>3 DEF Irq, IrqStep, Schedule, driver
<1> QED BY <1>1, <1>2, <1>3

(* Polls: a poll goes on where it stands.                                     *)
LEMMA NapiPolls ==
  ASSUME Types, Places, Polls, Napi
  PROVE  Polls'
<1> USE DEF Polls, Served, Types, Poll, Registers, driver
<1>1. CASE NapiStart /\ UNCHANGED <<irqAt, cause, eng, txHead, rxHead, tx, payload>>
  BY <1>1 DEF NapiStart
<1>2. CASE NapiReclaim /\ UNCHANGED <<irqAt, cause, eng, txHead, rxHead, tx, payload>>
  BY <1>2 DEF NapiReclaim, Reclaim, NapiTo
<1>3. CASE NapiWake /\ UNCHANGED <<irqAt, cause, eng, txHead, rxHead, tx, payload>>
  BY <1>3 DEF NapiWake, Wake, NapiTo
<1>4. CASE RxPosted /\ UNCHANGED <<irqAt, cause, eng, txHead, rxHead, tx, payload>>
  BY <1>4 DEF RxPosted, RxTurn, RxDeliver, Posted
<1>5. CASE RxNotPosted /\ UNCHANGED <<irqAt, cause, eng, txHead, rxHead, tx, payload>>
  BY <1>5 DEF RxNotPosted, RxTurn, RxDeliver
<1>6. CASE RxDone /\ UNCHANGED <<irqAt, cause, eng, txHead, rxHead, tx, payload>>
  BY <1>6 DEF RxDone, NapiTo
<1>7. CASE NapiTail /\ UNCHANGED <<irqAt, cause, eng, txHead, rxHead, tx, payload>>
  BY <1>7 DEF NapiTail, NapiTo
<1>8. CASE NapiBell /\ UNCHANGED <<irqAt, cause, eng, txHead, rxHead, tx, payload>>
  BY <1>8 DEF NapiBell, NapiTo
<1>9. CASE NapiDone /\ UNCHANGED <<irqAt, cause, eng, txHead, rxHead, tx, payload>>
  BY <1>9 DEF NapiDone
<1>10. CASE NapiOn /\ UNCHANGED <<irqAt, cause, eng, txHead, rxHead, tx, payload>>
  BY <1>10 DEF NapiOn, NapiTo
<1>11. CASE NapiCheck /\ UNCHANGED <<irqAt, cause, eng, txHead, rxHead, tx, payload>>
  BY <1>11 DEF NapiCheck, NapiTo
<1>12. CASE NapiAgain /\ UNCHANGED <<irqAt, cause, eng, txHead, rxHead, tx, payload>>
  BY <1>12 DEF NapiAgain
<1> QED BY <1>1, <1>2, <1>3, <1>4, <1>5, <1>6, <1>7, <1>8, <1>9, <1>10, <1>11, <1>12 DEF Napi

(* Polls: the calls begin while no poll runs.                                 *)
LEMMA CallPolls ==
  ASSUME Types, Places, Polls, irqAt = "no", ~Line, napi.at = "no", Call, UNCHANGED <<irqAt, cause>>
  PROVE  Polls'
<1> USE DEF Polls, Served, Types, Place, Poll, Registers, Places
<1>1. CASE XmitStart /\ UNCHANGED <<eng, txHead, rxHead, rx, payload, delivered>>
  BY <1>1 DEF XmitStart, At
<1>2. CASE OpenStart
  BY <1>2 DEF OpenStart, At, rest, Line, Masked
<1>3. CASE StopStart
  BY <1>3 DEF StopStart, At, rest
<1>4. CASE Probe
  BY <1>4 DEF Probe, At, RingReset, EngineIdle, Quiet, rest
<1>5. CASE Remove
  BY <1>5 DEF Remove, At
<1> QED BY <1>1, <1>2, <1>3, <1>4, <1>5 DEF Call

(* Polls: open and stop wait for the poll before they take its rings.         *)
LEMMA RunningPolls ==
  ASSUME Types, Places, Polls, irqAt = "no", ~Line, napi.at = "no", Running, UNCHANGED <<irqAt, cause>>
  PROVE  Polls'
<1> USE DEF Polls, Served, Types, Place, Poll, Registers, Places, Early, Opening
<1>1. CASE XmitReclaim /\ UNCHANGED <<eng, txHead, rxHead, rx, payload, delivered>>
  BY <1>1 DEF XmitReclaim, Reclaim, Goto, At
<1>2. CASE XmitSlot /\ UNCHANGED <<eng, txHead, rxHead, rx, payload, delivered>>
  BY <1>2 DEF XmitSlot, Goto, At, Posted
<1>3. CASE XmitTail /\ UNCHANGED <<eng, txHead, rxHead, rx, payload, delivered>>
  BY <1>3 DEF XmitTail, Goto, At
<1>4. CASE XmitBell /\ UNCHANGED <<eng, txHead, rxHead, rx, payload, delivered>>
  BY <1>4 DEF XmitBell, Goto, At
<1>5. CASE XmitEnd /\ UNCHANGED <<eng, txHead, rxHead, rx, payload, delivered>>
  BY <1>5 DEF XmitEnd, Goto, At
<1>6. CASE HwStopStep
  <2>1. CASE pc.at = "irq"
    BY <1>6, <2>1 DEF HwStopStep, HwStop, Goto, rest
  <2>2. CASE pc.at = "rx"
    BY <1>6, <2>2 DEF HwStopStep, HwStop, Goto, rest
  <2>3. CASE pc.at = "poll"
    BY <1>6, <2>3 DEF HwStopStep, HwStop, Goto, rest
  <2>4. CASE pc.at = "ctrl"
    BY <1>6, <2>4 DEF HwStopStep, HwStop, Goto, rest
  <2> QED BY <1>6, <2>1, <2>2, <2>3, <2>4 DEF HwStopStep, HwStop
<1>7. CASE ResetStep
  BY <1>7 DEF ResetStep, RingReset, EngineIdle, Quiet, Goto, rest
<1>8. CASE AllocRings
  BY <1>8 DEF AllocRings, Goto, At, Posted, NoDesc
<1>9. CASE AllocFails
  BY <1>9 DEF AllocFails, Goto, At, rest
<1>10. CASE HwProgramStep
  <2>1. CASE pc.at = "program"
    BY <1>10, <2>1 DEF HwProgramStep, HwProgram, Goto, rest
  <2>2. CASE pc.at = "enable"
    BY <1>10, <2>2 DEF HwProgramStep, HwProgram, Goto, rest
  <2>3. CASE pc.at \in {"irqon", "bell"}
    BY <1>10, <2>3 DEF HwProgramStep, HwProgram, Goto, rest
  <2> QED BY <1>10, <2>1, <2>2, <2>3 DEF HwProgramStep, HwProgram
<1>11. CASE OpenEnd
  BY <1>11 DEF OpenEnd, At, rest
<1>12. CASE NapiDisable
  BY <1>12 DEF NapiDisable, Goto, At
<1>13. CASE FreeRings
  BY <1>13 DEF FreeRings, At
<1> QED BY <1>1, <1>2, <1>3, <1>4, <1>5, <1>6, <1>7, <1>8, <1>9, <1>10, <1>11, <1>12,
          <1>13 DEF Running, Xmit

-----------------------------------------------------------------------------
(* The handler touches the causes and the interrupt enable only.              *)
LEMMA IrqFrame ==
  ASSUME Types, Irq
  PROVE  /\ UNCHANGED <<driver, memory, engine, payload, delivered>>
         /\ reg'.rxEn = reg.rxEn /\ reg'.base = reg.base
         /\ reg'.txTail = reg.txTail /\ reg'.rxTail = reg.rxTail
         /\ napi'.at = napi.at /\ napi'.fails = napi.fails
<1>1. CASE irqAt = "no"
  BY <1>1 DEF Irq, IrqStep
<1>2. CASE irqAt = "clear"
  BY <1>2 DEF Irq, IrqStep, Types, Registers
<1>3. CASE irqAt = "disable"
  BY <1>3 DEF Irq, IrqStep, Schedule, Types, Registers, Poll
<1> QED BY <1>1, <1>2, <1>3 DEF Types

(* The poll never switches RX on, and moves neither tail nor base of the      *)
(* transmit ring.                                                             *)
LEMMA NapiRegs ==
  ASSUME Types, Napi
  PROVE  /\ rx'.act = rx.act /\ rx'.pend = rx.pend
         /\ reg'.base = reg.base /\ reg'.txTail = reg.txTail
         /\ reg'.rxEn => reg.rxEn
<1> USE DEF Types, Registers, Direction
<1>1. CASE NapiStart
  BY <1>1 DEF NapiStart
<1>2. CASE NapiReclaim
  BY <1>2 DEF NapiReclaim
<1>3. CASE NapiWake
  BY <1>3 DEF NapiWake
<1>4. CASE RxPosted
  BY <1>4 DEF RxPosted
<1>5. CASE RxNotPosted
  BY <1>5 DEF RxNotPosted
<1>6. CASE RxDone
  BY <1>6 DEF RxDone
<1>7. CASE NapiTail
  BY <1>7 DEF NapiTail
<1>8. CASE NapiBell
  BY <1>8 DEF NapiBell
<1>9. CASE NapiDone
  BY <1>9 DEF NapiDone
<1>10. CASE NapiOn
  BY <1>10 DEF NapiOn
<1>11. CASE NapiCheck
  BY <1>11 DEF NapiCheck
<1>12. CASE NapiAgain
  BY <1>12 DEF NapiAgain
<1> QED BY <1>1, <1>2, <1>3, <1>4, <1>5, <1>6, <1>7, <1>8, <1>9, <1>10, <1>11, <1>12 DEF Napi

(* Engine: while RX is off an engine at rest stays at rest.                   *)
LEMMA EngineEngine ==
  ASSUME Types, Engine, EngineStep, UNCHANGED <<driver, napi, irqAt, cause, delivered>>
  PROVE  Engine'
<1> USE DEF Engine, EngBusy, Attached, Types, Direction, RingEngine, driver, payload
<1>1. CASE CompleteTx /\ UNCHANGED <<txHead, rxHead, reg, memory, payload>>
  BY <1>1 DEF CompleteTx, IdleTo, EngineIdle, RxDropped, Quiet
<1>2. CASE CompleteRx /\ UNCHANGED <<txHead, rxHead, reg, memory, payload>>
  BY <1>2 DEF CompleteRx, IdleTo, EngineIdle, Quiet
<1>3. CASE StartFetch /\ UNCHANGED <<txHead, rxHead, reg, memory, payload>>
  <2>1. /\ eng.st = "IDLE" /\ UNCHANGED <<tx, pc, rings, reg>>
        /\ (TxWanted => ~tx.act /\ reg.base # "none") /\ (RxWanted => ~rx.act)
        /\ (TxWanted \/ RxWanted) /\ tx.pend = "no" /\ rx.pend = "no"
    BY <1>3 DEF StartFetch, TxWanted, RxWanted
  <2>2. /\ reg.rxEn => eng' = [st |-> "FETCH", tx |-> TxWanted, err |-> FALSE] /\ rx' = rx
        /\ ~reg.rxEn => eng' = [st |-> "IDLE", tx |-> TRUE, err |-> FALSE]
                        /\ rx' = [act |-> FALSE, pend |-> "no", wait |-> FALSE]
    BY <1>3 DEF StartFetch, IdleTo, EngineIdle, RxDropped, Quiet
  <2>3. CASE ~reg.rxEn
    BY <2>1, <2>2, <2>3
  <2>4. CASE reg.rxEn
    <3>1. eng'.st = "FETCH" /\ eng'.tx = TxWanted /\ rx' = rx
      BY <2>2, <2>4
    <3>2. Attached /\ reg.base = "live"
      BY <2>4 DEF Opening
    <3>3. Attached' /\ reg'.base = "live" /\ (reg'.rxEn <=> reg.rxEn) /\ pc' = pc
      BY <2>1, <3>2
    <3>4. tx'.pend = "no" /\ rx'.pend = "no"
      BY <2>1, <3>1
    <3>5. CASE TxWanted
      <4>1. eng'.st = "FETCH" /\ eng'.tx = TRUE /\ ~tx'.act
        BY <2>1, <3>1, <3>5
      <4>2. pc' # At("open", "enable")
        BY <2>1, <2>4 DEF At
      <4> QED BY <3>3, <3>4, <4>1, <4>2, <2>4
    <3>6. CASE ~TxWanted
      <4>1. eng'.st = "FETCH" /\ eng'.tx = FALSE /\ ~rx'.act
        BY <2>1, <3>1, <3>6
      <4>2. pc' # At("open", "enable")
        BY <2>1, <2>4 DEF At
      <4> QED BY <3>3, <3>4, <4>1, <4>2, <2>4
    <3> QED BY <3>5, <3>6
  <2> QED BY <2>3, <2>4
<1>4. CASE StayIdle /\ UNCHANGED <<txHead, rxHead, reg, memory, payload>>
  BY <1>4 DEF StayIdle, RxDropped, Quiet
<1>5. CASE Abandoned /\ UNCHANGED <<txHead, rxHead, reg, memory, payload>>
  BY <1>5 DEF Abandoned, EngineIdle, Quiet
<1>6. CASE Launched /\ UNCHANGED <<txHead, rxHead, reg, memory>>
  BY <1>6 DEF Launched, EngineIdle
<1>7. CASE Armed /\ UNCHANGED <<txHead, rxHead, reg, memory>>
  BY <1>7 DEF Armed, EngineIdle
<1>8. CASE StatusWritten /\ UNCHANGED <<txHead, rxHead, tx, rx, reg, payload>>
  BY <1>8 DEF StatusWritten
<1>9. CASE HeadMoved /\ UNCHANGED <<tx, rx, memory, payload>>
  BY <1>9 DEF HeadMoved, EngineIdle, Registers
<1> QED BY <1>1, <1>2, <1>3, <1>4, <1>5, <1>6, <1>7, <1>8, <1>9 DEF EngineStep

(* Engine: a payload path completes only what is under way.                   *)
LEMMA PayloadEngine ==
  ASSUME Types, Engine, PayloadStep, UNCHANGED <<driver, napi, irqAt, cause, delivered>>
  PROVE  Engine'
<1> USE DEF Engine, EngBusy, Attached, Types, Direction, RingEngine, driver, payload
<1>1. CASE TxPayload /\ UNCHANGED <<eng, txHead, rxHead, reg, txDesc>>
  BY <1>1 DEF TxPayload
<1>2. CASE FrameArrives /\ UNCHANGED <<eng, txHead, rxHead, reg, txDesc>>
  BY <1>2 DEF FrameArrives
<1>3. CASE RxPayload /\ UNCHANGED <<eng, txHead, rxHead, reg, txDesc>>
  BY <1>3 DEF RxPayload
<1>4. CASE Disarmed /\ UNCHANGED <<eng, txHead, rxHead, reg, txDesc>>
  BY <1>4 DEF Disarmed
<1> QED BY <1>1, <1>2, <1>3, <1>4 DEF PayloadStep

(* Engine: handler and poll start nothing.                                    *)
LEMMA SoftwareEngine ==
  ASSUME Types, Engine, Irq \/ Napi
  PROVE  Engine'
<1>1. /\ UNCHANGED <<pc, rings, eng, tx>> /\ rx'.act = rx.act /\ rx'.pend = rx.pend
      /\ reg'.base = reg.base /\ (reg'.rxEn => reg.rxEn)
  BY IrqFrame, NapiFrame, NapiRegs DEF driver, engine
<1> QED BY <1>1 DEF Engine, EngBusy, Attached

(* hw_stop keeps the rings and the engine, and the session with them; it      *)
(* switches RX off before it looks at STATUS.                                 *)
LEMMA HwStopEffects ==
  ASSUME Types, Places, HwStopStep
  PROVE  /\ UNCHANGED <<rest, stopped, opens, napi, memory, engine, payload, delivered>>
         /\ pc.op \in {"open", "stop"} /\ pc'.op = pc.op
         /\ pc.at \in {"irq", "rx", "poll", "ctrl"}
         /\ pc'.at \in {"rx", "poll", "ctrl", "timeout", "reset", "napi"}
         /\ pc.at = "irq" => pc'.at = "rx"
         /\ pc'.at = "reset" => pc.op = "open"
         /\ pc'.at \in {"napi", "timeout"} /\ pc.op = "open" => pc'.at = "timeout"
         /\ reg'.base = reg.base /\ reg'.txTail = reg.txTail /\ reg'.rxTail = reg.rxTail
         /\ reg'.rxEn => reg.rxEn /\ pc.at \in {"irq", "poll"}
<1> USE DEF HwStopStep, HwStop, Goto, rest, Types, Place, Registers
<1>1. CASE pc.at = "irq"
  BY <1>1
<1>2. CASE pc.at = "rx"
  BY <1>2
<1>3. CASE pc.at = "poll"
  BY <1>3
<1>4. CASE pc.at = "ctrl"
  BY <1>4
<1> QED BY <1>1, <1>2, <1>3, <1>4

(* What hw_program writes, register by register.                              *)
LEMMA HwProgramEffects ==
  ASSUME Types, HwProgramStep
  PROVE  /\ UNCHANGED <<rest, stopped, opens, napi, memory, eng, txHead, rxHead, tx, payload, delivered>>
         /\ pc.op = "open" /\ pc'.op = "open"
         /\ pc.at \in {"program", "enable", "irqon", "bell"}
         /\ pc.at = "program" => /\ pc'.at = "enable" /\ reg'.base = "live" /\ reg'.txTail = 0
                                 /\ reg'.rxTail = rxProd /\ reg'.rxEn = reg.rxEn
         /\ pc.at # "program" => /\ reg'.base = reg.base /\ reg'.txTail = reg.txTail
                                 /\ reg'.rxTail = reg.rxTail
         /\ pc.at = "enable" => pc'.at = "irqon" /\ rxDma # "armed"
         /\ pc.at \in {"irqon", "bell"} => pc'.at \in {"bell", "start"} /\ reg'.rxEn = reg.rxEn
         /\ rx'.act = rx.act /\ rx'.pend = rx.pend
<1> USE DEF HwProgramStep, HwProgram, Goto, rest, Types, Place, Registers, Direction
<1>1. CASE pc.at = "program"
  BY <1>1
<1>2. CASE pc.at = "enable"
  BY <1>2
<1>3. CASE pc.at = "irqon"
  BY <1>3
<1>4. CASE pc.at = "bell"
  BY <1>4
<1> QED BY <1>1, <1>2, <1>3, <1>4 DEF HwProgramStep, HwProgram

(* Engine: the calls start nothing.                                           *)
LEMMA CallEngine ==
  ASSUME Types, Places, Engine, Call, UNCHANGED <<irqAt, cause>>
  PROVE  Engine'
<1> USE DEF Engine, EngBusy, Attached, Opening, Types, Place, Registers, Direction, engine, Places
<1>1. CASE XmitStart /\ UNCHANGED <<eng, txHead, rxHead, rx, payload, delivered>>
  BY <1>1 DEF XmitStart, At
<1>2. CASE OpenStart
  BY <1>2 DEF OpenStart, At, rest
<1>3. CASE StopStart
  BY <1>3 DEF StopStart, At, rest
<1>4. CASE Probe
  BY <1>4 DEF Probe, At, RingReset, EngineIdle, Quiet, rest
<1>5. CASE Remove
  BY <1>5 DEF Remove, At
<1> QED BY <1>1, <1>2, <1>3, <1>4, <1>5 DEF Call

(* Engine: what the calls go on to do ends a session only behind an engine at *)
(* rest, or behind a hw_stop that gave up.                                    *)
LEMMA RunningEngine ==
  ASSUME Types, Places, Engine, Running, UNCHANGED <<irqAt, cause>>
  PROVE  Engine'
<1> USE DEF Engine, EngBusy, Attached, Opening, Types, Place, Registers, Direction, engine,
          Places, Early
<1>1. CASE XmitReclaim /\ UNCHANGED <<eng, txHead, rxHead, rx, payload, delivered>>
  BY <1>1 DEF XmitReclaim, Reclaim, Goto, At
<1>2. CASE XmitSlot /\ UNCHANGED <<eng, txHead, rxHead, rx, payload, delivered>>
  BY <1>2 DEF XmitSlot, Goto, At, Posted
<1>3. CASE XmitTail /\ UNCHANGED <<eng, txHead, rxHead, rx, payload, delivered>>
  BY <1>3 DEF XmitTail, Goto, At
<1>4. CASE XmitBell /\ UNCHANGED <<eng, txHead, rxHead, rx, payload, delivered>>
  BY <1>4 DEF XmitBell, Goto, At
<1>5. CASE XmitEnd /\ UNCHANGED <<eng, txHead, rxHead, rx, payload, delivered>>
  BY <1>5 DEF XmitEnd, Goto, At
<1>6. CASE HwStopStep
  <2>1. /\ UNCHANGED <<rings, eng, tx, rx>> /\ reg'.base = reg.base
        /\ pc'.op = pc.op /\ (reg'.rxEn => reg.rxEn /\ pc.at \in {"irq", "poll"})
        /\ (pc.at = "irq" => pc'.at = "rx")
        /\ pc.at \in {"irq", "rx", "poll", "ctrl"} /\ pc.op \in {"open", "stop"}
        /\ pc'.at \in {"rx", "poll", "ctrl", "timeout", "reset", "napi"}
    BY <1>6, HwStopEffects DEF rest, engine
  <2>2. EngBusy' = EngBusy
    BY <2>1
  <2>3. Attached' = Attached
    BY <2>1
  <2>4. reg'.rxEn => pc.op = "stop" /\ pc'.op = "stop" /\ pc'.at = "rx"
    BY <2>1
  <2>5. pc' # At("open", "enable")
    BY <2>1 DEF At
  <2> HIDE DEF EngBusy, Attached
  <2> QED BY <2>1, <2>2, <2>3, <2>4, <2>5
<1>7. CASE ResetStep
  BY <1>7 DEF ResetStep, RingReset, EngineIdle, Quiet, Goto, rest
<1>8. CASE AllocRings
  BY <1>8 DEF AllocRings, Goto, At, Posted, NoDesc
<1>9. CASE AllocFails
  BY <1>9 DEF AllocFails, Goto, At, rest
<1>10. CASE HwProgramStep
  <2>1. UNCHANGED <<rings, eng, tx>> /\ rx'.act = rx.act /\ rx'.pend = rx.pend
    BY <1>10, HwProgramEffects DEF rest
  <2>2. pc.op = "open" /\ pc'.op = "open" /\ Attached'
    BY <1>10, HwProgramEffects
  <2>3. EngBusy' = EngBusy /\ reg'.base = "live"
    BY <1>10, <2>1, HwProgramEffects
  <2>4. reg'.rxEn => pc'.at \in {"irqon", "bell", "start"}
    BY <1>10, HwProgramEffects
  <2>5. pc' = At("open", "enable") => ~EngBusy
    BY <1>10, HwProgramEffects DEF At
  <2> HIDE DEF EngBusy, Attached
  <2> QED BY <2>1, <2>2, <2>3, <2>4, <2>5
<1>11. CASE OpenEnd
  BY <1>11 DEF OpenEnd, At, rest
<1>12. CASE NapiDisable
  BY <1>12 DEF NapiDisable, Goto, At
<1>13. CASE FreeRings
  BY <1>13 DEF FreeRings, At
<1> QED BY <1>1, <1>2, <1>3, <1>4, <1>5, <1>6, <1>7, <1>8, <1>9, <1>10, <1>11, <1>12,
          <1>13 DEF Running, Xmit

-----------------------------------------------------------------------------
(* An engine at rest moves no head and writes no descriptor.                  *)
LEMMA AtRest ==
  ASSUME Types, Engine, Hardware, ~EngBusy
  PROVE  UNCHANGED <<txHead, rxHead, memory>>
<1>1. ASSUME EngineStep PROVE UNCHANGED <<txHead, rxHead, memory>>
  BY <1>1 DEF EngineStep, StatusWritten, HeadMoved, EngBusy
<1>2. ASSUME PayloadStep PROVE UNCHANGED <<txHead, rxHead, memory>>
  BY <1>2 DEF PayloadStep, TxPayload, FrameArrives, RxPayload, Disarmed, EngBusy, memory
<1> QED BY <1>1, <1>2 DEF Hardware

(* Prepared: the engine is at rest while open prepares the rings.             *)
LEMMA HardwarePrepared ==
  ASSUME Types, Engine, Prepared, Hardware
  PROVE  Prepared'
<1>1. UNCHANGED <<pc, txProd, rxProd, rxCons, napi>>
  BY DEF Hardware, driver
<1>2. pc.op = "open" /\ pc.at \in {"alloc", "program", "enable"} => ~EngBusy
  BY DEF Engine, Attached, Opening, At, Types, Place
<1>3. CASE EngBusy
  BY <1>1, <1>2, <1>3 DEF Prepared, At
<1>4. CASE ~EngBusy
  BY <1>1, <1>4, AtRest DEF Prepared, memory
<1> QED BY <1>3, <1>4

(* Prepared: no poll runs while open prepares the rings.                      *)
LEMMA SoftwarePrepared ==
  ASSUME Types, Places, Polls, Prepared, Irq \/ Napi
  PROVE  Prepared'
<1>1. CASE Irq
  BY <1>1, IrqFrame DEF Prepared, driver, memory, engine
<1>2. CASE Napi
  <2>1. pc' = pc
    BY <1>2, NapiFrame
  <2>2. napi.at # "no" \/ napi.sched
    BY <1>2 DEF Napi, NapiStart, NapiReclaim, NapiWake, RxPosted, RxNotPosted, RxTurn, RxDone,
              NapiTail,
                NapiBell, NapiDone, NapiOn, NapiCheck, NapiAgain
  <2>3. ~(pc.op = "open" /\ pc.at \in Early \cup {"program", "enable"})
    BY <2>2 DEF Polls, Served, Early
  <2> QED BY <2>1, <2>3 DEF Prepared, At, Early
<1> QED BY <1>1, <1>2

(* Prepared: open starts with a count of no failed allocation.                *)
LEMMA CallPrepared ==
  ASSUME Types, Places, Prepared, Call, UNCHANGED <<irqAt, cause>>
  PROVE  Prepared'
<1> USE DEF Prepared, Types, Place, Poll, Places, Early, Opening
<1>1. CASE XmitStart /\ UNCHANGED <<eng, txHead, rxHead, rx, payload, delivered>>
  BY <1>1 DEF XmitStart, At
<1>2. CASE OpenStart
  BY <1>2 DEF OpenStart, At, rest
<1>3. CASE StopStart
  BY <1>3 DEF StopStart, At, rest
<1>4. CASE Probe
  BY <1>4 DEF Probe, At, RingReset, EngineIdle, Quiet, rest
<1>5. CASE Remove
  BY <1>5 DEF Remove, At
<1> QED BY <1>1, <1>2, <1>3, <1>4, <1>5 DEF Call

(* Prepared: open goes from the reset through the rings to the registers.     *)
LEMMA RunningPrepared ==
  ASSUME Types, Places, Prepared, Running, UNCHANGED <<irqAt, cause>>
  PROVE  Prepared'
<1> USE DEF Prepared, Types, Place, Poll, Places, Early, Opening
<1>1. CASE XmitReclaim /\ UNCHANGED <<eng, txHead, rxHead, rx, payload, delivered>>
  BY <1>1 DEF XmitReclaim, Goto, At
<1>2. CASE XmitSlot /\ UNCHANGED <<eng, txHead, rxHead, rx, payload, delivered>>
  BY <1>2 DEF XmitSlot, Goto, At
<1>3. CASE XmitTail /\ UNCHANGED <<eng, txHead, rxHead, rx, payload, delivered>>
  BY <1>3 DEF XmitTail, Goto, At
<1>4. CASE XmitBell /\ UNCHANGED <<eng, txHead, rxHead, rx, payload, delivered>>
  BY <1>4 DEF XmitBell, Goto, At
<1>5. CASE XmitEnd /\ UNCHANGED <<eng, txHead, rxHead, rx, payload, delivered>>
  BY <1>5 DEF XmitEnd, Goto, At
<1>6. CASE HwStopStep
  BY <1>6, HwStopEffects DEF rest, engine, memory, At
<1>7. CASE ResetStep
  <2>1. pc.at = "reset" /\ pc.op \in {"open", "stop"} /\ pc'.op = pc.op /\ napi' = napi
        /\ txHead' = 0 /\ rxHead' = 0 /\ pc'.at \in {"alloc", "free"}
    BY <1>7 DEF ResetStep, RingReset, Goto
  <2> QED BY <2>1 DEF At
<1>8. CASE AllocRings
  <2>1. /\ pc.op = "open" /\ pc.at = "alloc" /\ pc'.op = "open" /\ pc'.at = "program"
        /\ napi' = napi /\ txHead' = txHead /\ rxHead' = rxHead
        /\ txProd' = 0 /\ rxCons' = 0 /\ rxProd' = RxN - 1
    BY <1>8 DEF AllocRings, Goto, At, engine
  <2>2. \A i \in RxSlot : i # RxN - 1 => rxDesc'[i].own /\ rxDesc'[i].st = "no"
    BY <1>8 DEF AllocRings, Posted
  <2> QED BY <2>1, <2>2 DEF At
<1>9. CASE AllocFails
  BY <1>9 DEF AllocFails, Goto, At, rest
<1>10. CASE HwProgramStep
  BY <1>10, HwProgramEffects DEF rest, memory, At
<1>11. CASE OpenEnd
  BY <1>11 DEF OpenEnd, At, rest
<1>12. CASE NapiDisable
  BY <1>12 DEF NapiDisable, Goto, At
<1>13. CASE FreeRings
  BY <1>13 DEF FreeRings, At
<1> QED BY <1>1, <1>2, <1>3, <1>4, <1>5, <1>6, <1>7, <1>8, <1>9, <1>10, <1>11, <1>12,
          <1>13 DEF Running, Xmit

-----------------------------------------------------------------------------
(* A step that leaves the transmit ring alone, as far as the parts about it   *)
(* can tell, and one that leaves the receive ring alone.                      *)
TxUndisturbed ==
  /\ sent' = sent /\ taken <= taken' /\ UNCHANGED txDesc
  /\ eng'.st = "FETCH" /\ eng'.tx =>
       /\ eng.st = "FETCH" /\ eng.tx /\ txHead' = txHead
       /\ pc'.op = "unbound" \/ (pc.op # "unbound" /\ txSkb' = txSkb)
  /\ Attached' =>
       /\ Attached /\ UNCHANGED <<txHead, txProd, txSkb>> /\ reg'.txTail = reg.txTail
       /\ TxBusy' => TxBusy \/ txHead # reg.txTail
       /\ eng.st = "RESP" /\ eng.tx => eng'.st = "RESP" /\ eng'.tx
       /\ reg'.rxEn => reg.rxEn /\ (Launching => Launching')
RxUndisturbed ==
  /\ delivered' = delivered /\ arrived' = arrived
  /\ reg'.rxEn /\ rxDma' = "armed" => rx'.act /\ rx'.pend = "no"
  /\ Attached' =>
       /\ Attached /\ UNCHANGED <<rxHead, rxProd, rxCons, rxDesc>>
       /\ reg'.rxTail = reg.rxTail /\ napi'.fails = napi.fails /\ RxFront' = RxFront
       /\ RxBusy' => RxBusy \/ rxHead # reg.rxTail
       /\ (Capturing' => Capturing) /\ (Captured' => Captured)

(* RX is on only in a session.                                                *)
LEMMA RxInSession ==
  ASSUME Engine, reg.rxEn
  PROVE  Attached /\ pc # At("open", "enable") /\ pc.op # "unbound"
BY DEF Engine, Attached, Opening, At

(* A step that leaves the transmit ring alone keeps what is said about it.    *)
LEMMA TxFrame ==
  ASSUME Types, Types', Engine', TxWindow, TxOrder, TxUndisturbed
  PROVE  TxWindow' /\ TxOrder'
<1>1. sent' = sent /\ taken <= taken' /\ txDesc' = txDesc
  BY DEF TxUndisturbed
<1>2. reg'.rxEn => Attached'
  BY DEF Engine, Attached, Opening
<1>3. ASSUME Attached'
      PROVE  /\ Attached /\ UNCHANGED <<txHead, txProd, txSkb>> /\ reg'.txTail = reg.txTail
             /\ TxBusy' => TxBusy \/ txHead # reg.txTail
             /\ eng.st = "RESP" /\ eng.tx => eng'.st = "RESP" /\ eng'.tx
             /\ reg'.rxEn => reg.rxEn /\ (Launching => Launching')
  BY <1>3 DEF TxUndisturbed
<1>4. ASSUME Attached', NEW i \in TxSlot
      PROVE  TxPosted(i)' <=> TxPosted(i)
  BY <1>3, <1>4 DEF TxPosted
<1>5. TxWindow'
  <2>1. Attached' => /\ TxAhead(txHead, reg.txTail)' <= TxAhead(txHead, txProd)'
                     /\ TxBusy' => txHead' # reg'.txTail
    BY <1>3 DEF TxWindow
  <2>2. ASSUME Attached', NEW i \in TxSlot, TxPosted(i)'
        PROVE  /\ txDesc'[i].own /\ txDesc'[i].frame = txSkb'[i]
               /\ txDesc'[i].st = "no" \/ (eng'.st = "RESP" /\ eng'.tx /\ i = txHead')
    BY <1>1, <1>3, <1>4, <2>2 DEF TxWindow
  <2>3. eng'.st = "FETCH" /\ eng'.tx =>
          /\ txDesc'[txHead'].own /\ txDesc'[txHead'].frame > sent'
          /\ pc'.op = "unbound" \/ txSkb'[txHead'] = txDesc'[txHead'].frame
    BY <1>1 DEF TxWindow, TxUndisturbed
  <2> QED BY <2>1, <2>2, <2>3 DEF TxWindow
<1>6. TxOrder'
  <2>1. sent' <= taken' /\ \A i \in TxSlot : txDesc'[i].frame <= taken'
    BY <1>1 DEF TxOrder, Types, Descriptor
  <2>2. ASSUME reg'.rxEn
        PROVE  /\ Attached' /\ reg.rxEn /\ txHead' = txHead /\ (Launching => Launching')
               /\ \A i \in TxSlot : TxPosted(i)' <=> TxPosted(i)
    BY <2>2, <1>2, <1>3, <1>4
  <2>3. ASSUME reg'.rxEn, NEW i \in TxSlot, TxPosted(i)', Launching' => i # txHead'
        PROVE  txDesc'[i].frame > sent'
    BY <1>1, <2>2, <2>3 DEF TxOrder
  <2>4. ASSUME reg'.rxEn, NEW i \in TxSlot, NEW j \in TxSlot, TxPosted(j)',
               TxAhead(txHead', i) < TxAhead(txHead', j)
        PROVE  txDesc'[i].frame < txDesc'[j].frame
    BY <1>1, <2>2, <2>4 DEF TxOrder
  <2> QED BY <2>1, <2>3, <2>4 DEF TxOrder
<1> QED BY <1>5, <1>6

(* A step that leaves the receive ring alone keeps what is said about it.     *)
LEMMA RxFrame ==
  ASSUME RxWindow, RxOrder, RxUndisturbed
  PROVE  RxWindow' /\ RxOrder'
<1>1. delivered' = delivered /\ arrived' = arrived
      /\ (reg'.rxEn /\ rxDma' = "armed" => rx'.act /\ rx'.pend = "no")
  BY DEF RxUndisturbed
<1>2. ASSUME Attached'
      PROVE  /\ Attached /\ UNCHANGED <<rxHead, rxProd, rxCons, rxDesc>>
             /\ reg'.rxTail = reg.rxTail /\ napi'.fails = napi.fails /\ RxFront' = RxFront
             /\ RxBusy' => RxBusy \/ rxHead # reg.rxTail
             /\ (Capturing' => Capturing) /\ (Captured' => Captured)
  BY <1>2 DEF RxUndisturbed
<1>3. ASSUME Attached', NEW i \in RxSlot
      PROVE  RxCompleted(i)' <=> RxCompleted(i)
  BY <1>2, <1>3 DEF RxCompleted
<1>4. RxWindow'
  BY <1>2, <1>3 DEF RxWindow
<1>5. RxOrder'
  BY <1>1, <1>2, <1>3 DEF RxOrder
<1> QED BY <1>4, <1>5

-----------------------------------------------------------------------------
(* The steps of the hardware that leave the transmit ring alone.              *)
LEMMA HardwareSparesTx ==
  ASSUME Types, Engine, UNCHANGED <<driver, napi, irqAt, cause, delivered>>,
         \/ CompleteTx /\ UNCHANGED <<txHead, rxHead, reg, memory, payload>>
         \/ CompleteRx /\ UNCHANGED <<txHead, rxHead, reg, memory, payload>>
         \/ StartFetch /\ ~TxWanted /\ UNCHANGED <<txHead, rxHead, reg, memory, payload>>
         \/ StartFetch /\ ~reg.rxEn /\ UNCHANGED <<txHead, rxHead, reg, memory, payload>>
         \/ StayIdle /\ UNCHANGED <<txHead, rxHead, reg, memory, payload>>
         \/ Abandoned /\ UNCHANGED <<txHead, rxHead, reg, memory, payload>>
         \/ Armed /\ UNCHANGED <<txHead, rxHead, reg, memory>>
         \/ StatusWritten /\ ~eng.tx /\ UNCHANGED <<txHead, rxHead, tx, rx, reg, payload>>
         \/ HeadMoved /\ ~eng.tx /\ UNCHANGED <<tx, rx, memory, payload>>
         \/ PayloadStep
  PROVE  TxUndisturbed
<1> USE DEF TxUndisturbed, TxBusy, Launching, Attached, Types, Direction, RingEngine, driver,
          memory, payload
<1>1. CASE CompleteTx /\ UNCHANGED <<txHead, rxHead, reg, memory, payload>>
  BY <1>1 DEF CompleteTx, IdleTo, EngineIdle, Engine
<1>2. CASE CompleteRx /\ UNCHANGED <<txHead, rxHead, reg, memory, payload>>
  BY <1>2 DEF CompleteRx, IdleTo, EngineIdle
<1>3. CASE StartFetch /\ ~TxWanted /\ UNCHANGED <<txHead, rxHead, reg, memory, payload>>
  BY <1>3 DEF StartFetch, IdleTo, EngineIdle
<1>4. CASE StartFetch /\ ~reg.rxEn /\ UNCHANGED <<txHead, rxHead, reg, memory, payload>>
  BY <1>4 DEF StartFetch, IdleTo, EngineIdle
<1>5. CASE StayIdle /\ UNCHANGED <<txHead, rxHead, reg, memory, payload>>
  BY <1>5 DEF StayIdle
<1>6. CASE Abandoned /\ UNCHANGED <<txHead, rxHead, reg, memory, payload>>
  BY <1>6 DEF Abandoned, EngineIdle
<1>7. CASE Armed /\ UNCHANGED <<txHead, rxHead, reg, memory>>
  BY <1>7 DEF Armed, EngineIdle
<1>8. CASE StatusWritten /\ ~eng.tx /\ UNCHANGED <<txHead, rxHead, tx, rx, reg, payload>>
  BY <1>8 DEF StatusWritten
<1>9. CASE HeadMoved /\ ~eng.tx /\ UNCHANGED <<tx, rx, memory, payload>>
  BY <1>9 DEF HeadMoved, EngineIdle, Registers
<1>10. CASE PayloadStep
  BY <1>10 DEF PayloadStep, TxPayload, FrameArrives, RxPayload, Disarmed
<1> QED BY <1>1, <1>2, <1>3, <1>4, <1>5, <1>6, <1>7, <1>8, <1>9, <1>10

(* The steps of the hardware that leave the receive ring alone.               *)
LEMMA HardwareSparesRx ==
  ASSUME Types, Engine, RxOrder, UNCHANGED <<driver, napi, irqAt, cause, delivered>>,
         \/ CompleteTx /\ UNCHANGED <<txHead, rxHead, reg, memory, payload>>
         \/ CompleteRx /\ UNCHANGED <<txHead, rxHead, reg, memory, payload>>
         \/ StartFetch /\ UNCHANGED <<txHead, rxHead, reg, memory, payload>>
         \/ StayIdle /\ UNCHANGED <<txHead, rxHead, reg, memory, payload>>
         \/ Abandoned /\ UNCHANGED <<txHead, rxHead, reg, memory, payload>>
         \/ Launched /\ UNCHANGED <<txHead, rxHead, reg, memory>>
         \/ Armed /\ UNCHANGED <<txHead, rxHead, reg, memory>>
         \/ StatusWritten /\ eng.tx /\ UNCHANGED <<txHead, rxHead, tx, rx, reg, payload>>
         \/ HeadMoved /\ eng.tx /\ UNCHANGED <<tx, rx, memory, payload>>
         \/ TxPayload /\ UNCHANGED <<eng, txHead, rxHead, reg, txDesc>>
         \/ Disarmed /\ UNCHANGED <<eng, txHead, rxHead, reg, txDesc>>
  PROVE  RxUndisturbed
<1> USE DEF RxUndisturbed, RxFront, RxBusy, Capturing, Captured, Attached, Types, Direction,
          RingEngine, driver, memory, payload
<1>1. CASE CompleteTx /\ UNCHANGED <<txHead, rxHead, reg, memory, payload>>
  BY <1>1 DEF CompleteTx, IdleTo, EngineIdle, RxDropped, Quiet, RxOrder, Status
<1>2. CASE CompleteRx /\ UNCHANGED <<txHead, rxHead, reg, memory, payload>>
  <2>1. CASE ~reg.rxEn
    BY <1>2, <2>1 DEF CompleteRx, IdleTo, EngineIdle, Quiet, RxOrder
  <2>2. CASE reg.rxEn
    <3>1. /\ eng.st = "IDLE" /\ rx.pend # "no" /\ rx.act /\ rx'.act = FALSE /\ rx'.pend = "no"
          /\ eng'.st = "COMP" /\ eng'.tx = FALSE /\ (eng'.err <=> rx.pend = "err")
      BY <1>2, <2>2 DEF CompleteRx, IdleTo, Engine
    <3>2. rx.pend = "no" \/ rx.pend = "err" \/ rx.pend = "ok"
      BY DEF Status
    <3> QED BY <1>2, <2>2, <3>1, <3>2 DEF RxOrder
  <2> QED BY <2>1, <2>2
<1>3. CASE StartFetch /\ UNCHANGED <<txHead, rxHead, reg, memory, payload>>
  <2>1. CASE ~reg.rxEn
    BY <1>3, <2>1 DEF StartFetch, IdleTo, EngineIdle, RxDropped, Quiet, RxOrder
  <2>2. CASE reg.rxEn
    <3>1. eng' = [st |-> "FETCH", tx |-> TxWanted, err |-> FALSE] /\ rx' = rx /\ eng.st = "IDLE"
      BY <1>3, <2>2 DEF StartFetch, IdleTo, RxDropped
    <3>2. ~TxWanted => rxHead # reg.rxTail
      BY <1>3 DEF StartFetch, RxWanted
    <3>3. eng'.st = "FETCH" /\ eng'.tx = TxWanted
      BY <3>1
    <3> QED BY <1>3, <2>2, <3>1, <3>2, <3>3 DEF RxOrder
  <2> QED BY <2>1, <2>2
<1>4. CASE StayIdle /\ UNCHANGED <<txHead, rxHead, reg, memory, payload>>
  BY <1>4 DEF StayIdle, RxDropped, Quiet, RxOrder
<1>5. CASE Abandoned /\ UNCHANGED <<txHead, rxHead, reg, memory, payload>>
  BY <1>5 DEF Abandoned, EngineIdle, Quiet, RxOrder
<1>6. CASE Launched /\ UNCHANGED <<txHead, rxHead, reg, memory>>
  BY <1>6 DEF Launched, EngineIdle, RxOrder
<1>7. CASE Armed /\ UNCHANGED <<txHead, rxHead, reg, memory>>
  BY <1>7 DEF Armed, EngineIdle, RxOrder, Engine, Status
<1>8. CASE StatusWritten /\ eng.tx /\ UNCHANGED <<txHead, rxHead, tx, rx, reg, payload>>
  BY <1>8 DEF StatusWritten, RxOrder
<1>9. CASE HeadMoved /\ eng.tx /\ UNCHANGED <<tx, rx, memory, payload>>
  BY <1>9 DEF HeadMoved, EngineIdle, RxOrder, Registers
<1>10. CASE TxPayload /\ UNCHANGED <<eng, txHead, rxHead, reg, txDesc>>
  BY <1>10 DEF TxPayload, RxOrder
<1>11. CASE Disarmed /\ UNCHANGED <<eng, txHead, rxHead, reg, txDesc>>
  BY <1>11 DEF Disarmed, RxOrder
<1> QED BY <1>1, <1>2, <1>3, <1>4, <1>5, <1>6, <1>7, <1>8, <1>9, <1>10, <1>11

-----------------------------------------------------------------------------
(* The handler leaves both rings alone.                                       *)
LEMMA IrqSpares ==
  ASSUME Types, RxOrder, Irq
  PROVE  TxUndisturbed /\ RxUndisturbed
<1>1. /\ UNCHANGED <<driver, memory, engine, payload, delivered>>
      /\ reg'.rxEn = reg.rxEn /\ reg'.base = reg.base
      /\ reg'.txTail = reg.txTail /\ reg'.rxTail = reg.rxTail
      /\ napi'.at = napi.at /\ napi'.fails = napi.fails
  BY IrqFrame
<1>2. TxUndisturbed
  BY <1>1 DEF TxUndisturbed, TxBusy, Launching, Attached, Types, driver, memory, engine, payload
<1>3. RxUndisturbed
  BY <1>1 DEF RxUndisturbed, RxOrder, RxFront, RxBusy, Capturing, Captured, Attached, driver,
            memory, engine, payload
<1> QED BY <1>2, <1>3

(* The poll leaves the transmit ring alone, but for reclaiming.               *)
LEMMA NapiSparesTx ==
  ASSUME Types, Napi, ~NapiReclaim
  PROVE  TxUndisturbed
<1>1. /\ UNCHANGED <<pc, rings, txProd, taken, eng, txHead, tx, sent>>
      /\ reg'.txTail = reg.txTail /\ (reg'.rxEn => reg.rxEn)
  BY NapiFrame, NapiRegs
<1>2. UNCHANGED <<txDesc, txSkb>>
  BY DEF Napi, NapiStart, NapiWake, RxPosted, RxNotPosted, RxDone, NapiTail, NapiBell, NapiDone,
         NapiOn,
         NapiCheck, NapiAgain, driver, memory
<1> QED BY <1>1, <1>2 DEF TxUndisturbed, TxBusy, Launching, Attached, Types

(* The poll leaves the receive ring alone, but for its turns and the tail.    *)
LEMMA NapiSparesRx ==
  ASSUME Types, RxOrder, Napi, ~RxPosted, ~RxNotPosted, ~NapiTail
  PROVE  RxUndisturbed
<1>1. /\ UNCHANGED <<pc, rings, eng, rxHead, rxDma, arrived>>
      /\ rx'.act = rx.act /\ rx'.pend = rx.pend /\ (reg'.rxEn => reg.rxEn)
  BY NapiFrame, NapiRegs
<1>2. UNCHANGED <<rxDesc, rxCons, rxProd, delivered>> /\ napi'.fails = napi.fails
  <2> USE DEF driver, memory, Types, Poll
  <2>1. CASE NapiStart
    BY <2>1 DEF NapiStart
  <2>2. CASE NapiReclaim
    BY <2>2 DEF NapiReclaim, NapiTo
  <2>3. CASE NapiWake
    BY <2>3 DEF NapiWake, NapiTo
  <2>4. CASE RxDone
    BY <2>4 DEF RxDone, NapiTo
  <2>5. CASE NapiBell
    BY <2>5 DEF NapiBell, NapiTo
  <2>6. CASE NapiDone
    BY <2>6 DEF NapiDone
  <2>7. CASE NapiOn
    BY <2>7 DEF NapiOn, NapiTo
  <2>8. CASE NapiCheck
    BY <2>8 DEF NapiCheck, NapiTo
  <2>9. CASE NapiAgain
    BY <2>9 DEF NapiAgain
  <2> QED BY <2>1, <2>2, <2>3, <2>4, <2>5, <2>6, <2>7, <2>8, <2>9 DEF Napi
<1>3. reg'.rxTail = reg.rxTail
  BY DEF Napi, NapiStart, NapiReclaim, NapiWake, RxDone, NapiBell, NapiDone, NapiOn, NapiCheck,
         NapiAgain, Types, Registers
<1> QED BY <1>1, <1>2, <1>3 DEF RxUndisturbed, RxOrder, RxFront, RxBusy, Capturing, Captured,
          Attached, Types

(* napi_disable touches no ring, and begins no session.                       *)
LEMMA NapiDisableEffects ==
  ASSUME Types, Places, NapiDisable
  PROVE  /\ UNCHANGED <<rings, txSkb, txProd, txClean, rxProd, rxCons, taken, stopped, load, memory, reg,
                        engine, payload, delivered>>
         /\ napi'.fails = napi.fails /\ (Attached' => Attached)
         /\ pc'.op \in {pc.op, "down"} /\ pc.op # "unbound" /\ pc'.at \in {"wait", "over", "reset", "no"}
<1> USE DEF NapiDisable, Goto, At, Places, Types, Place, Poll, Attached, Opening
<1>1. CASE pc.at \in {"napi", "timeout", "off"}
  BY <1>1
<1>2. CASE pc.at = "wait"
  BY <1>2
<1>3. CASE pc.at = "over"
  BY <1>3
<1> QED BY <1>1, <1>2, <1>3

(* The calls leave the transmit ring alone, or leave no session.              *)
LEMMA CallSparesTx ==
  ASSUME Types, Places,
         \/ XmitStart /\ UNCHANGED <<eng, txHead, rxHead, rx, payload, delivered>>
         \/ OpenStart
         \/ StopStart
         \/ Probe
         \/ Remove
  PROVE  TxUndisturbed
<1> USE DEF TxUndisturbed, TxBusy, Launching, Attached, Types, Place, driver, memory, engine,
          payload, Opening
<1>1. CASE XmitStart /\ UNCHANGED <<eng, txHead, rxHead, rx, payload, delivered>>
  BY <1>1 DEF XmitStart, At
<1>2. CASE OpenStart
  BY <1>2 DEF OpenStart, At, rest
<1>3. CASE StopStart
  BY <1>3 DEF StopStart, At, rest
<1>4. CASE Probe
  BY <1>4 DEF Probe, At, RingReset, EngineIdle, Quiet, rest, Registers
<1>5. CASE Remove
  BY <1>5 DEF Remove, At
<1> QED BY <1>1, <1>2, <1>3, <1>4, <1>5

(* The calls leave the receive ring alone, or leave no session.               *)
LEMMA CallSparesRx ==
  ASSUME Types, Places, RxOrder,
         \/ XmitStart /\ UNCHANGED <<eng, txHead, rxHead, rx, payload, delivered>>
         \/ OpenStart
         \/ StopStart
         \/ Probe
         \/ Remove
  PROVE  RxUndisturbed
<1> USE DEF RxUndisturbed, RxOrder, RxFront, RxBusy, Capturing, Captured, Attached, Types, Place,
          driver, memory, engine, payload, Opening
<1>1. CASE XmitStart /\ UNCHANGED <<eng, txHead, rxHead, rx, payload, delivered>>
  BY <1>1 DEF XmitStart, At
<1>2. CASE OpenStart
  BY <1>2 DEF OpenStart, At, rest
<1>3. CASE StopStart
  BY <1>3 DEF StopStart, At, rest
<1>4. CASE Probe
  BY <1>4 DEF Probe, At, RingReset, EngineIdle, Quiet, rest, Registers
<1>5. CASE Remove
  BY <1>5 DEF Remove, At
<1> QED BY <1>1, <1>2, <1>3, <1>4, <1>5

(* The steps of process context that leave the transmit ring alone: all but   *)
(* transmit's, new rings and the registers that are told of them.             *)
LEMMA RunningSparesTx ==
  ASSUME Types, Places, Engine,
         \/ XmitBell /\ UNCHANGED <<eng, txHead, rxHead, rx, payload, delivered>>
         \/ XmitEnd /\ UNCHANGED <<eng, txHead, rxHead, rx, payload, delivered>>
         \/ HwStopStep
         \/ ResetStep
         \/ AllocFails
         \/ HwProgramStep /\ pc.at \in {"irqon", "bell"}
         \/ OpenEnd
         \/ NapiDisable
         \/ FreeRings
  PROVE  TxUndisturbed
<1> USE DEF TxUndisturbed, TxBusy, Launching, Attached, Types, Place, driver, memory, engine,
          payload, Opening
<1>1. CASE XmitBell /\ UNCHANGED <<eng, txHead, rxHead, rx, payload, delivered>>
  BY <1>1 DEF XmitBell, Goto, At, Direction
<1>2. CASE XmitEnd /\ UNCHANGED <<eng, txHead, rxHead, rx, payload, delivered>>
  BY <1>2 DEF XmitEnd, Goto, At
<1>3. CASE HwStopStep
  BY <1>3, HwStopEffects DEF rest
<1>4. CASE ResetStep
  BY <1>4 DEF ResetStep, RingReset, EngineIdle, Quiet, Goto, rest, Registers
<1>5. CASE AllocFails
  BY <1>5 DEF AllocFails, Goto, At, rest
<1>6. CASE HwProgramStep /\ pc.at \in {"irqon", "bell"}
  BY <1>6, HwProgramEffects DEF rest
<1>7. CASE OpenEnd
  BY <1>7 DEF OpenEnd, At, rest
<1>8. CASE NapiDisable
  BY <1>8, NapiDisableEffects
<1>9. CASE FreeRings
  BY <1>9 DEF FreeRings, At, Engine, EngBusy, Registers
<1> QED BY <1>1, <1>2, <1>3, <1>4, <1>5, <1>6, <1>7, <1>8, <1>9

(* The steps of process context that leave the receive ring alone: all but    *)
(* the one that tells the registers of it.                                    *)
LEMMA RunningSparesRx ==
  ASSUME Types, Places, Engine, RxOrder,
         \/ XmitReclaim /\ UNCHANGED <<eng, txHead, rxHead, rx, payload, delivered>>
         \/ XmitSlot /\ UNCHANGED <<eng, txHead, rxHead, rx, payload, delivered>>
         \/ XmitTail /\ UNCHANGED <<eng, txHead, rxHead, rx, payload, delivered>>
         \/ XmitBell /\ UNCHANGED <<eng, txHead, rxHead, rx, payload, delivered>>
         \/ XmitEnd /\ UNCHANGED <<eng, txHead, rxHead, rx, payload, delivered>>
         \/ HwStopStep
         \/ ResetStep
         \/ AllocFails
         \/ OpenEnd
         \/ NapiDisable
         \/ FreeRings
         \/ AllocRings
         \/ HwProgramStep /\ pc.at # "program"
  PROVE  RxUndisturbed
<1> USE DEF RxUndisturbed, RxOrder, RxFront, RxBusy, Capturing, Captured, Attached, Types, Place,
          driver, memory, engine, payload, Opening
<1>1. CASE XmitReclaim /\ UNCHANGED <<eng, txHead, rxHead, rx, payload, delivered>>
  BY <1>1 DEF XmitReclaim, Goto, At
<1>2. CASE XmitSlot /\ UNCHANGED <<eng, txHead, rxHead, rx, payload, delivered>>
  BY <1>2 DEF XmitSlot, Goto, At
<1>3. CASE XmitTail /\ UNCHANGED <<eng, txHead, rxHead, rx, payload, delivered>>
  BY <1>3 DEF XmitTail, Goto, At, Registers
<1>4. CASE XmitBell /\ UNCHANGED <<eng, txHead, rxHead, rx, payload, delivered>>
  BY <1>4 DEF XmitBell, Goto, At, Direction
<1>5. CASE XmitEnd /\ UNCHANGED <<eng, txHead, rxHead, rx, payload, delivered>>
  BY <1>5 DEF XmitEnd, Goto, At
<1>6. CASE HwStopStep
  BY <1>6, HwStopEffects DEF rest
<1>7. CASE ResetStep
  BY <1>7 DEF ResetStep, RingReset, EngineIdle, Quiet, Goto, rest, Registers
<1>8. CASE AllocFails
  BY <1>8 DEF AllocFails, Goto, At, rest
<1>9. CASE OpenEnd
  BY <1>9 DEF OpenEnd, At, rest
<1>10. CASE NapiDisable
  BY <1>10, NapiDisableEffects
<1>11. CASE FreeRings
  BY <1>11 DEF FreeRings, At, Engine, EngBusy, Registers
<1>12. CASE AllocRings
  BY <1>12 DEF AllocRings, Goto, At
<1>13. CASE HwProgramStep /\ pc.at # "program"
  BY <1>13, HwProgramEffects DEF rest
<1> QED BY <1>1, <1>2, <1>3, <1>4, <1>5, <1>6, <1>7, <1>8, <1>9, <1>10, <1>11, <1>12, <1>13

-----------------------------------------------------------------------------
(* Distances in the transmit ring: a step of the nearer end makes one         *)
(* shorter, a step of the farther end longer.                                 *)
LEMMA TxAheadFacts ==
  ASSUME NEW a \in TxSlot, NEW b \in TxSlot
  PROVE  /\ TxAhead(a, b) \in 0 .. TxN - 1
         /\ TxAhead(a, b) = 0 <=> a = b
         /\ \A c \in TxSlot : TxAhead(a, b) = TxAhead(a, c) <=> b = c
         /\ TxAhead(RingNext(a, TxN), b) = IF a = b THEN TxN - 1 ELSE TxAhead(a, b) - 1
         /\ TxAhead(a, RingNext(b, TxN)) = IF RingNext(b, TxN) = a THEN 0 ELSE TxAhead(a, b) + 1
<1>1. TxN \in Nat \ {0, 1} /\ a \in 0 .. TxN - 1 /\ b \in 0 .. TxN - 1
  BY Sizes DEF TxSlot
<1>2. TxAhead(a, b) \in 0 .. TxN - 1 /\ (TxAhead(a, b) = 0 <=> a = b)
  BY <1>1 DEF TxAhead, Ahead
<1>3. \A c \in TxSlot : TxAhead(a, b) = TxAhead(a, c) <=> b = c
  BY <1>1 DEF TxAhead, Ahead, TxSlot
<1>4. TxAhead(RingNext(a, TxN), b) = IF a = b THEN TxN - 1 ELSE TxAhead(a, b) - 1
  <2>1. RingNext(a, TxN) = IF a = TxN - 1 THEN 0 ELSE a + 1
    BY TxNext
  <2> QED BY <1>1, <2>1 DEF TxAhead, Ahead
<1>5. TxAhead(a, RingNext(b, TxN)) = IF RingNext(b, TxN) = a THEN 0 ELSE TxAhead(a, b) + 1
  <2>1. RingNext(b, TxN) = IF b = TxN - 1 THEN 0 ELSE b + 1
    BY TxNext
  <2> QED BY <1>1, <2>1 DEF TxAhead, Ahead
<1> QED BY <1>2, <1>3, <1>4, <1>5

(* Distances in the receive ring: likewise.                                   *)
LEMMA RxAheadFacts ==
  ASSUME NEW a \in RxSlot, NEW b \in RxSlot
  PROVE  /\ RxAhead(a, b) \in 0 .. RxN - 1
         /\ RxAhead(a, b) = 0 <=> a = b
         /\ \A c \in RxSlot : RxAhead(a, b) = RxAhead(a, c) <=> b = c
         /\ RxAhead(RingNext(a, RxN), b) = IF a = b THEN RxN - 1 ELSE RxAhead(a, b) - 1
         /\ RxAhead(a, RingNext(b, RxN)) = IF RingNext(b, RxN) = a THEN 0 ELSE RxAhead(a, b) + 1
<1>1. RxN \in Nat \ {0, 1} /\ a \in 0 .. RxN - 1 /\ b \in 0 .. RxN - 1
  BY Sizes DEF RxSlot
<1>2. RxAhead(a, b) \in 0 .. RxN - 1 /\ (RxAhead(a, b) = 0 <=> a = b)
  BY <1>1 DEF RxAhead, Ahead
<1>3. \A c \in RxSlot : RxAhead(a, b) = RxAhead(a, c) <=> b = c
  BY <1>1 DEF RxAhead, Ahead, RxSlot
<1>4. RxAhead(RingNext(a, RxN), b) = IF a = b THEN RxN - 1 ELSE RxAhead(a, b) - 1
  <2>1. RingNext(a, RxN) = IF a = RxN - 1 THEN 0 ELSE a + 1
    BY RxNext
  <2> QED BY <1>1, <2>1 DEF RxAhead, Ahead
<1>5. RxAhead(a, RingNext(b, RxN)) = IF RingNext(b, RxN) = a THEN 0 ELSE RxAhead(a, b) + 1
  <2>1. RingNext(b, RxN) = IF b = RxN - 1 THEN 0 ELSE b + 1
    BY RxNext
  <2> QED BY <1>1, <2>1 DEF RxAhead, Ahead
<1> QED BY <1>2, <1>3, <1>4, <1>5

(* TxWindow and TxOrder: the engine takes the next descriptor.  It is posted, *)
(* and the frame in it is later than all that went out.                       *)
LEMMA FetchTx ==
  ASSUME Types, Engine, TxWindow, TxOrder, StartFetch, TxWanted, reg.rxEn,
         UNCHANGED <<txHead, rxHead, reg, memory, payload>>,
         UNCHANGED <<driver, napi, irqAt, cause, delivered>>
  PROVE  TxWindow' /\ TxOrder'
<1>1. /\ eng.st = "IDLE" /\ eng'.st = "FETCH" /\ eng'.tx = TRUE /\ tx' = tx /\ ~tx.act
      /\ txHead # reg.txTail /\ reg' = reg
      /\ UNCHANGED <<pc, txHead, txProd, txDesc, txSkb, sent, taken>>
  BY DEF StartFetch, IdleTo, TxWanted, driver, memory, payload
<1>2. Attached /\ Attached'
  BY <1>1, RxInSession DEF Attached
<1>3. ~Launching /\ ~Launching' /\ ~(eng.st = "RESP" /\ eng.tx)
  BY <1>1 DEF Launching
<1>4. \A i \in TxSlot : TxPosted(i)' <=> TxPosted(i)
  BY <1>1 DEF TxPosted
<1>5. TxPosted(txHead)
  <2>1. txHead \in TxSlot /\ reg.txTail \in TxSlot /\ txProd \in TxSlot
    BY DEF Types, Registers
  <2>2. /\ TxAhead(txHead, reg.txTail) \in 0 .. TxN - 1 /\ TxAhead(txHead, reg.txTail) # 0
        /\ TxAhead(txHead, txHead) = 0 /\ TxAhead(txHead, txProd) \in 0 .. TxN - 1
    BY <1>1, <2>1, TxAheadFacts
  <2>3. TxAhead(txHead, reg.txTail) <= TxAhead(txHead, txProd)
    BY <1>2 DEF TxWindow
  <2> QED BY <2>2, <2>3, Sizes DEF TxPosted
<1>6. txDesc[txHead].own /\ txDesc[txHead].frame = txSkb[txHead] /\ txDesc[txHead].frame > sent
  BY <1>2, <1>3, <1>5 DEF TxWindow, TxOrder, Types
<1>7. TxWindow'
  BY <1>1, <1>2, <1>3, <1>4, <1>6 DEF TxWindow
<1>8. TxOrder'
  BY <1>1, <1>3, <1>4 DEF TxOrder
<1> QED BY <1>7, <1>8

(* TxWindow and TxOrder: it sends the frame, whose descriptor it owns.        *)
LEMMA LaunchTx ==
  ASSUME Types, Engine, TxWindow, TxOrder, Launched,
         UNCHANGED <<txHead, rxHead, reg, memory>>,
         UNCHANGED <<driver, napi, irqAt, cause, delivered>>
  PROVE  TxWindow' /\ TxOrder'
<1>1. /\ eng.st = "FETCH" /\ eng.tx /\ eng'.st = "IDLE"
      /\ UNCHANGED <<pc, txHead, txProd, txDesc, txSkb, taken, reg>>
  BY DEF Launched, EngineIdle, driver, memory
<1>2. txDesc[txHead].own
  BY <1>1 DEF TxWindow
<1>3. sent' = txDesc[txHead].frame /\ tx'.act
  BY <1>1, <1>2 DEF Launched, Owned, Types, Direction
<1>4. (Attached' <=> Attached) /\ TxBusy
  BY <1>1 DEF Attached, TxBusy, Launching
<1>5. \A i \in TxSlot : TxPosted(i)' <=> TxPosted(i)
  BY <1>1 DEF TxPosted
<1>6. TxWindow'
  BY <1>1, <1>4, <1>5 DEF TxWindow, TxBusy, Attached
<1>7. TxOrder'
  <2>1. sent' <= taken' /\ \A i \in TxSlot : txDesc'[i].frame <= taken'
    BY <1>1, <1>3 DEF TxOrder, Types
  <2>2. ASSUME reg'.rxEn, NEW i \in TxSlot, TxPosted(i)', Launching' => i # txHead'
        PROVE  txDesc'[i].frame > sent'
    <3>1. Launching' /\ reg.rxEn /\ TxPosted(i) /\ i # txHead
      BY <1>1, <1>3, <1>5, <2>2 DEF Launching
    <3>2. TxAhead(txHead, txHead) < TxAhead(txHead, i)
      BY <3>1, TxAheadFacts, Sizes DEF Types
    <3>3. txDesc[txHead].frame < txDesc[i].frame
      BY <3>1, <3>2 DEF TxOrder, Types
    <3> QED BY <1>1, <1>3, <3>3 DEF Types, Descriptor
  <2>3. ASSUME reg'.rxEn, NEW i \in TxSlot, NEW j \in TxSlot, TxPosted(j)',
               TxAhead(txHead', i) < TxAhead(txHead', j)
        PROVE  txDesc'[i].frame < txDesc'[j].frame
    BY <1>1, <1>5, <2>3 DEF TxOrder
  <2> QED BY <2>1, <2>2, <2>3 DEF TxOrder
<1> QED BY <1>6, <1>7

(* TxWindow and TxOrder: the status word goes to the descriptor at the head,  *)
(* or is lost.                                                                *)
LEMMA CompleteTxStatus ==
  ASSUME Types, Engine, TxWindow, TxOrder, StatusWritten, eng.tx,
         UNCHANGED <<txHead, rxHead, tx, rx, reg, payload>>,
         UNCHANGED <<driver, napi, irqAt, cause, delivered>>
  PROVE  TxWindow' /\ TxOrder'
<1>1. /\ eng.st = "COMP" /\ eng'.st = "RESP" /\ eng'.tx
      /\ UNCHANGED <<pc, txHead, txProd, tx, txSkb, sent, taken, reg>>
  BY DEF StatusWritten, driver, payload, Types, RingEngine
<1>2. \A i \in TxSlot : /\ txDesc'[i].own = txDesc[i].own /\ txDesc'[i].frame = txDesc[i].frame
                        /\ txDesc'[i].st = txDesc[i].st \/ i = txHead
  BY DEF StatusWritten, memory, Types, Descriptor
<1>3. (Attached' <=> Attached) /\ (TxBusy' <=> TxBusy) /\ Launching /\ Launching'
  BY <1>1 DEF Attached, TxBusy, Launching
<1>4. \A i \in TxSlot : TxPosted(i)' <=> TxPosted(i)
  BY <1>1 DEF TxPosted
<1>5. TxWindow'
  BY <1>1, <1>2, <1>3, <1>4 DEF TxWindow
<1>6. TxOrder'
  BY <1>1, <1>2, <1>3, <1>4 DEF TxOrder
<1> QED BY <1>5, <1>6

(* TxWindow and TxOrder: the head passes the descriptor, one posted frame     *)
(* less.                                                                      *)
LEMMA PassTx ==
  ASSUME Types, Types', Engine, TxWindow, TxOrder, HeadMoved, eng.tx,
         UNCHANGED <<tx, rx, memory, payload>>,
         UNCHANGED <<driver, napi, irqAt, cause, delivered>>
  PROVE  TxWindow' /\ TxOrder'
<1>1. /\ eng.st = "RESP" /\ eng'.st = "IDLE" /\ txHead' = RingNext(txHead, TxN)
      /\ reg'.txTail = reg.txTail /\ reg'.rxEn = reg.rxEn
      /\ UNCHANGED <<pc, txProd, tx, txDesc, txSkb, sent, taken>>
  BY DEF HeadMoved, EngineIdle, driver, memory, payload, Types, Registers
<1>2. (Attached' <=> Attached) /\ TxBusy /\ Launching /\ ~TxBusy' /\ ~Launching'
  BY <1>1 DEF Attached, TxBusy, Launching, Engine
<1>3. (reg.rxEn => Attached) /\ TxN \in Nat \ {0, 1}
  BY RxInSession, Sizes
<1>4. \A i \in TxSlot : /\ TxAhead(txHead, i) \in 0 .. TxN - 1
                        /\ TxAhead(txHead, i) = 0 <=> i = txHead
                        /\ TxAhead(txHead', i) = IF i = txHead THEN TxN - 1 ELSE TxAhead(txHead, i) - 1
  BY <1>1, TxAheadFacts DEF Types
<1>5. txHead \in TxSlot /\ reg.txTail \in TxSlot /\ txProd \in TxSlot
  BY DEF Types, Registers
<1>6. ASSUME Attached
      PROVE  /\ txHead # reg.txTail /\ TxAhead(txHead, reg.txTail) <= TxAhead(txHead, txProd)
             /\ TxAhead(txHead', reg.txTail) <= TxAhead(txHead', txProd) /\ txProd # txHead
  BY <1>2, <1>3, <1>4, <1>5, <1>6 DEF TxWindow
<1>7. ASSUME Attached, NEW i \in TxSlot, TxPosted(i)'
      PROVE  TxPosted(i) /\ i # txHead
  BY <1>1, <1>3, <1>4, <1>5, <1>6, <1>7 DEF TxPosted
<1>8. TxWindow'
  BY <1>1, <1>2, <1>6, <1>7 DEF TxWindow
<1>9. TxOrder'
  <2>1. sent' <= taken' /\ \A i \in TxSlot : txDesc'[i].frame <= taken'
    BY <1>1 DEF TxOrder
  <2>2. ASSUME reg'.rxEn, NEW i \in TxSlot, TxPosted(i)'
        PROVE  txDesc'[i].frame > sent'
    BY <1>1, <1>3, <1>7, <2>2 DEF TxOrder
  <2>3. ASSUME reg'.rxEn, NEW i \in TxSlot, NEW j \in TxSlot, TxPosted(j)',
               TxAhead(txHead', i) < TxAhead(txHead', j)
        PROVE  txDesc'[i].frame < txDesc'[j].frame
    <3>1. reg.rxEn /\ TxPosted(j) /\ j # txHead
      BY <1>1, <1>3, <1>7, <2>3
    <3>2. TxAhead(txHead, i) < TxAhead(txHead, j)
      BY <1>3, <1>4, <2>3, <3>1
    <3> QED BY <1>1, <3>1, <3>2 DEF TxOrder
  <2> QED BY <2>1, <2>2, <2>3 DEF TxOrder
<1> QED BY <1>8, <1>9

-----------------------------------------------------------------------------
(* Reclaiming gives back nothing that is posted.                              *)
LEMMA ReclaimSparesPosted ==
  ASSUME Types, Reclaim
  PROVE  \A i \in TxSlot : i = txHead \/ txDesc[i].st = "no" =>
           txDesc'[i] = txDesc[i] /\ txSkb'[i] = txSkb[i]
<1>1. Reclaimed \subseteq Between(txClean, txHead)
  BY DEF Reclaimed
<1>2. \A i \in Reclaimed : txDesc[i].st # "no"
  BY DEF Reclaimed
<1>3. txHead \notin Between(txClean, txHead)
  BY BetweenIsLinear, TxAheadFacts, Sizes DEF Types
<1> QED BY <1>1, <1>2, <1>3 DEF Reclaim

(* TxWindow and TxOrder: reclaiming, in the poll and in transmit.             *)
LEMMA ReclaimTx ==
  ASSUME Types, Engine, TxWindow, TxOrder, Reclaim,
         UNCHANGED <<txHead, txProd, eng, tx, sent, taken>>, pc'.op = pc.op,
         Attached' <=> Attached, reg'.txTail = reg.txTail, reg'.rxEn = reg.rxEn
  PROVE  TxWindow' /\ TxOrder'
<1>1. \A i \in TxSlot : i = txHead \/ txDesc[i].st = "no" =>
        txDesc'[i] = txDesc[i] /\ txSkb'[i] = txSkb[i]
  BY ReclaimSparesPosted
<1>2. \A i \in TxSlot : txDesc'[i].frame = txDesc[i].frame
  BY DEF Reclaim, Types, Descriptor
<1>3. (TxBusy' <=> TxBusy) /\ (Launching' <=> Launching) /\ \A i \in TxSlot : TxPosted(i)' <=> TxPosted(i)
  BY DEF TxBusy, Launching, TxPosted
<1>4. TxWindow'
  <2>1. ASSUME Attached', NEW i \in TxSlot, TxPosted(i)'
        PROVE  /\ txDesc'[i].own /\ txDesc'[i].frame = txSkb'[i]
               /\ txDesc'[i].st = "no" \/ (eng'.st = "RESP" /\ eng'.tx /\ i = txHead')
    BY <1>1, <1>3, <2>1 DEF TxWindow
  <2>2. txHead \in TxSlot
    BY DEF Types
  <2> QED BY <1>1, <1>3, <2>1, <2>2 DEF TxWindow
<1>5. TxOrder'
  BY <1>2, <1>3 DEF TxOrder
<1> QED BY <1>4, <1>5

(* TxWindow and TxOrder: transmit posts the newest frame behind all the       *)
(* others.                                                                    *)
LEMMA XmitSlotTx ==
  ASSUME Types, Types', Engine, TxWindow, TxOrder, XmitSlot,
         UNCHANGED <<eng, txHead, rxHead, rx, payload, delivered>>
  PROVE  TxWindow' /\ TxOrder'
<1>1. /\ pc = At("xmit", "slot") /\ pc'.op \in {"up", "xmit"} /\ UNCHANGED <<reg, tx, eng, txHead, sent>>
      /\ Attached /\ Attached'
  BY DEF XmitSlot, Goto, At, Attached, payload
<1>2. (TxBusy' <=> TxBusy) /\ (Launching' <=> Launching)
  BY <1>1 DEF TxBusy, Launching
<1>3. CASE Full(txHead)
  <2>1. UNCHANGED <<txProd, txSkb, txDesc, taken>>
    BY <1>3 DEF XmitSlot
  <2>2. \A i \in TxSlot : TxPosted(i)' <=> TxPosted(i)
    BY <1>1, <2>1 DEF TxPosted
  <2> QED BY <1>1, <1>2, <2>1, <2>2, RxInSession DEF TxWindow, TxOrder, At
<1>4. CASE ~Full(txHead)
  <2>1. /\ txSkb' = [txSkb EXCEPT ![txProd] = taken + 1]
        /\ txDesc' = [txDesc EXCEPT ![txProd] = [own |-> TRUE, st |-> "no", frame |-> taken + 1]]
        /\ txProd' = RingNext(txProd, TxN) /\ taken' = taken + 1 /\ txProd' # txHead
    BY <1>4 DEF XmitSlot, Posted, Full
  <2>2. txHead \in TxSlot /\ txProd \in TxSlot /\ reg.txTail \in TxSlot
    BY DEF Types, Registers
  <2>3. /\ txDesc'[txProd].own /\ txDesc'[txProd].st = "no" /\ txDesc'[txProd].frame = taken + 1
        /\ txSkb'[txProd] = taken + 1
        /\ \A i \in TxSlot : i # txProd => txDesc'[i] = txDesc[i] /\ txSkb'[i] = txSkb[i]
    BY <2>1, <2>2 DEF Types
  <2>4. TxAhead(txHead, txProd') = TxAhead(txHead, txProd) + 1
    BY <2>1, <2>2, TxAheadFacts
  <2>5. \A i \in TxSlot : TxAhead(txHead, i) \in 0 .. TxN - 1
                          /\ (TxAhead(txHead, i) = TxAhead(txHead, txProd) <=> i = txProd)
    BY <2>2, TxAheadFacts
  <2>6. \A i \in TxSlot : TxPosted(i)' <=> TxPosted(i) \/ i = txProd
    BY <1>1, <2>2, <2>4, <2>5, Sizes DEF TxPosted
  <2>7. \A i \in TxSlot : TxPosted(i) => i # txProd
    BY <2>2, <2>5, Sizes DEF TxPosted
  <2>8. TxBusy => TxPosted(txHead)
    <3>1. TxAhead(txHead, reg.txTail) <= TxAhead(txHead, txProd) /\ (TxBusy => txHead # reg.txTail)
      BY <1>1 DEF TxWindow
    <3>2. /\ TxAhead(txHead, txHead) = 0 /\ (TxAhead(txHead, reg.txTail) = 0 => txHead = reg.txTail)
          /\ TxAhead(txHead, reg.txTail) \in 0 .. TxN - 1
      BY <2>2, TxAheadFacts
    <3> QED BY <2>2, <2>5, <3>1, <3>2, Sizes DEF TxPosted
  <2>9. \A i \in TxSlot : txDesc[i].frame \in Nat /\ txDesc[i].frame <= taken /\ sent <= taken
                          /\ taken \in Nat /\ sent \in Nat
    BY DEF TxOrder, Types, Descriptor
  <2>10. TxWindow'
    <3>1. TxAhead(txHead', reg'.txTail) <= TxAhead(txHead', txProd')
      BY <1>1, <2>2, <2>4, <2>5 DEF TxWindow
    <3>2. ASSUME NEW i \in TxSlot, TxPosted(i)'
          PROVE  /\ txDesc'[i].own /\ txDesc'[i].frame = txSkb'[i]
                 /\ txDesc'[i].st = "no" \/ (eng'.st = "RESP" /\ eng'.tx /\ i = txHead')
      BY <1>1, <2>3, <2>6, <3>2 DEF TxWindow
    <3>3. eng'.st = "FETCH" /\ eng'.tx =>
          /\ txDesc'[txHead'].own /\ txDesc'[txHead'].frame > sent'
          /\ txSkb'[txHead'] = txDesc'[txHead'].frame
      <4> SUFFICES ASSUME eng.st = "FETCH", eng.tx
                   PROVE  /\ txDesc'[txHead].own /\ txDesc'[txHead].frame > sent
                          /\ txSkb'[txHead] = txDesc'[txHead].frame
        BY <1>1
      <4>1. txHead # txProd
        BY <2>2, <2>7, <2>8 DEF TxBusy
      <4> QED BY <1>1, <2>2, <2>3, <4>1 DEF TxWindow, At
    <3> QED BY <1>1, <1>2, <3>1, <3>2, <3>3 DEF TxWindow
  <2>11. TxOrder'
    <3>1. sent' <= taken' /\ \A i \in TxSlot : txDesc'[i].frame <= taken'
      BY <1>1, <2>1, <2>2, <2>3, <2>9
    <3>2. ASSUME reg'.rxEn, NEW i \in TxSlot, TxPosted(i)', Launching' => i # txHead'
          PROVE  txDesc'[i].frame > sent'
      BY <1>1, <1>2, <2>2, <2>3, <2>6, <2>9, <3>2 DEF TxOrder
    <3>3. ASSUME reg'.rxEn, NEW i \in TxSlot, NEW j \in TxSlot, TxPosted(j)',
                 TxAhead(txHead', i) < TxAhead(txHead', j)
          PROVE  txDesc'[i].frame < txDesc'[j].frame
      <4>1. CASE j = txProd
        <5>1. i # txProd
          BY <1>1, <2>5, <3>3, <4>1
        <5> QED BY <2>3, <2>9, <4>1, <5>1
      <4>2. CASE j # txProd
        <5>1. TxPosted(j) /\ TxAhead(txHead, i) < TxAhead(txHead, j)
          BY <1>1, <2>6, <3>3, <4>2
        <5>2. i # txProd
          BY <2>2, <2>5, <5>1, Sizes DEF TxPosted
        <5> QED BY <1>1, <2>3, <3>3, <4>2, <5>1, <5>2 DEF TxOrder
      <4> QED BY <4>1, <4>2
    <3> QED BY <3>1, <3>2, <3>3 DEF TxOrder
  <2> QED BY <2>10, <2>11
<1> QED BY <1>3, <1>4

(* TxWindow and TxOrder: transmit tells the engine of all that is posted.     *)
LEMMA XmitTailTx ==
  ASSUME Types, Engine, TxWindow, TxOrder, XmitTail,
         UNCHANGED <<eng, txHead, rxHead, rx, payload, delivered>>
  PROVE  TxWindow' /\ TxOrder'
<1>1. /\ pc.op = "xmit" /\ pc'.op = "xmit" /\ reg'.txTail = txProd /\ reg'.rxEn = reg.rxEn
      /\ UNCHANGED <<txHead, txProd, tx, eng, txDesc, txSkb, sent, taken>>
  BY DEF XmitTail, Goto, At, Types, Place, Registers, memory, payload
<1>2. Attached /\ Attached' /\ (TxBusy' <=> TxBusy) /\ (Launching' <=> Launching)
      /\ \A i \in TxSlot : TxPosted(i)' <=> TxPosted(i)
  BY <1>1 DEF Attached, TxBusy, Launching, TxPosted
<1>3. TxAhead(txHead, txProd) \in 0 .. TxN - 1
  BY TxAheadFacts DEF Types
<1>4. TxBusy => txHead # txProd
  <2>1. /\ TxAhead(txHead, txProd) = 0 <=> txHead = txProd
        /\ TxAhead(txHead, reg.txTail) = 0 <=> txHead = reg.txTail
        /\ TxAhead(txHead, reg.txTail) \in 0 .. TxN - 1
    BY TxAheadFacts DEF Types, Registers
  <2> QED BY <1>2, <1>3, <2>1, Sizes DEF TxWindow
<1>5. TxWindow'
  <2>1. TxAhead(txHead', reg'.txTail) <= TxAhead(txHead', txProd')
    BY <1>1, <1>3, Sizes
  <2> QED BY <1>1, <1>2, <1>4, <2>1 DEF TxWindow
<1>6. TxOrder'
  BY <1>1, <1>2 DEF TxOrder
<1> QED BY <1>5, <1>6

(* TxWindow and TxOrder: new rings are empty, and not yet the engine's.       *)
LEMMA AllocRingsTx ==
  ASSUME Types, Engine, TxOrder, AllocRings
  PROVE  TxWindow' /\ TxOrder'
<1>1. /\ pc.op = "open" /\ pc.at = "alloc" /\ pc'.op = "open" /\ pc'.at = "program"
      /\ UNCHANGED <<eng, reg, sent, taken>> /\ txDesc' = [i \in TxSlot |-> NoDesc]
  BY DEF AllocRings, Goto, At, engine, payload
<1>2. ~Attached' /\ ~reg.rxEn /\ eng.st = "IDLE"
  BY <1>1 DEF Engine, EngBusy, Attached, Opening
<1>3. \A i \in TxSlot : txDesc'[i].frame <= taken
  BY <1>1 DEF NoDesc, Types
<1> QED BY <1>1, <1>2, <1>3 DEF TxWindow, TxOrder

(* TxWindow and TxOrder: hw_program makes the new rings the engine's.         *)
LEMMA HwProgramTx ==
  ASSUME Types, Engine, Prepared, TxWindow, TxOrder, HwProgramStep, pc.at \in {"program", "enable"}
  PROVE  TxWindow' /\ TxOrder'
<1>1. /\ UNCHANGED <<txHead, txProd, txDesc, txSkb, eng, tx, sent, taken>>
      /\ pc.op = "open" /\ pc'.op = "open" /\ pc'.at \in {"enable", "irqon"}
      /\ pc.at = "program" => pc'.at = "enable" /\ reg'.txTail = 0 /\ reg'.rxEn = reg.rxEn
      /\ pc.at = "enable" => reg'.txTail = reg.txTail
  BY HwProgramEffects DEF rest, memory, payload
<1>2. ~EngBusy
  BY <1>1 DEF Engine, Attached, Opening, At, Types, Place
<1>3. txProd = txHead /\ (pc.at = "program" => txHead = 0)
  BY <1>1 DEF Prepared, At, Types, Place
<1>4. TxAhead(txHead, txHead) = 0
  BY TxAheadFacts DEF Types
<1>5. \A i \in TxSlot : ~TxPosted(i)'
  <2>1. \A i \in TxSlot : TxAhead(txHead, i) \in 0 .. TxN - 1
    BY TxAheadFacts DEF Types
  <2> QED BY <1>1, <1>3, <1>4, <2>1, Sizes DEF TxPosted
<1>6. ~TxBusy'
  BY <1>1, <1>2 DEF EngBusy, TxBusy
<1>7. TxWindow'
  <2>1. TxAhead(txHead', reg'.txTail) <= TxAhead(txHead', txProd')
    <3>1. CASE pc.at = "program"
      BY <1>1, <1>3, <1>4, <3>1
    <3>2. CASE pc.at = "enable"
      BY <1>1, <1>3, <3>2 DEF TxWindow, Attached, Opening
    <3> QED BY <3>1, <3>2
  <2>2. ~(eng'.st = "FETCH")
    BY <1>1, <1>2 DEF EngBusy
  <2> QED BY <1>5, <1>6, <2>1, <2>2 DEF TxWindow
<1>8. TxOrder'
  BY <1>1, <1>5 DEF TxOrder
<1> QED BY <1>7, <1>8

-----------------------------------------------------------------------------
(* RxWindow and RxOrder: the status word of a received or dropped frame       *)
(* completes the descriptor at the head, or is lost.                          *)
LEMMA CompleteRxStatus ==
  ASSUME Types, Engine, RxWindow, RxOrder, StatusWritten, ~eng.tx,
         UNCHANGED <<txHead, rxHead, tx, rx, reg, payload>>,
         UNCHANGED <<driver, napi, irqAt, cause, delivered>>
  PROVE  RxWindow' /\ RxOrder'
<1>1. /\ eng.st = "COMP" /\ eng'.st = "RESP" /\ ~eng'.tx
      /\ UNCHANGED <<pc, rxHead, rxProd, rxCons, rx, rxDma, reg, napi, arrived, delivered>>
  BY DEF StatusWritten, driver, payload, Types, RingEngine
<1>2. rxHead \in RxSlot /\ rxCons \in RxSlot /\ rxProd \in RxSlot /\ reg.rxTail \in RxSlot
  BY DEF Types, Registers
<1>3. /\ rxDesc' \in [RxSlot -> Descriptor]
      /\ \A i \in RxSlot : i # rxHead => rxDesc'[i] = rxDesc[i]
      /\ rxDesc'[rxHead].frame = rxDesc[rxHead].frame
      /\ rxDesc'[rxHead].st = "ok" => ~eng.err \/ rxDesc[rxHead].st = "ok"
  <2>1. CASE UNCHANGED memory
    BY <2>1 DEF memory, Types
  <2>2. CASE rxDesc' = [rxDesc EXCEPT ![rxHead].st = IF eng.err THEN "err" ELSE "ok"]
    BY <1>2, <2>2 DEF Types, Descriptor, Status
  <2> QED BY <2>1, <2>2 DEF StatusWritten
<1>4. (Attached' <=> Attached) /\ RxBusy /\ ~RxBusy' /\ ~Capturing' /\ ~Captured'
      /\ (~eng.err => Capturing /\ Captured) /\ RxFront = rxHead /\ RxFront' = RingNext(rxHead, RxN)
  BY <1>1 DEF Attached, RxBusy, Capturing, Captured, RxFront, Engine
<1>5. ASSUME Attached
      PROVE  RxWindow' /\ RxOrder'
  <2>1. /\ RxAhead(rxCons, rxHead) <= RxAhead(rxCons, reg.rxTail)
        /\ RxAhead(rxCons, reg.rxTail) <= RxAhead(rxCons, rxProd)
        /\ RxAhead(rxCons, rxProd) = RxN - 1 - napi.fails
        /\ rxHead # reg.rxTail
    BY <1>4, <1>5 DEF RxWindow
  <2>2. \A i \in RxSlot : /\ RxAhead(rxCons, i) \in 0 .. RxN - 1
                          /\ RxAhead(rxCons, i) = RxAhead(rxCons, rxHead) <=> i = rxHead
    BY <1>2, RxAheadFacts
  <2>3. RxAhead(rxCons, rxHead) < RxAhead(rxCons, reg.rxTail)
    BY <1>2, <2>1, <2>2, Sizes
  <2>4. RxAhead(rxCons, RxFront') = RxAhead(rxCons, rxHead) + 1
    <3>1. RxAhead(rxCons, RingNext(rxHead, RxN)) \in 0 .. RxN - 1
      BY <1>2, RxNext, <2>2
    <3>2. RxAhead(rxCons, RingNext(rxHead, RxN)) = IF RingNext(rxHead, RxN) = rxCons THEN 0
                                                   ELSE RxAhead(rxCons, rxHead) + 1
      BY <1>2, RxAheadFacts
    <3>3. RingNext(rxHead, RxN) # rxCons
      <4> SUFFICES ASSUME RingNext(rxHead, RxN) = rxCons PROVE FALSE
        OBVIOUS
      <4>1. RxAhead(RingNext(rxHead, RxN), rxHead) = RxN - 1
        BY <1>2, RxAheadFacts
      <4> QED BY <1>2, <2>2, <2>3, <4>1, Sizes
    <3> QED BY <1>4, <3>2, <3>3
  <2>5. \A i \in RxSlot : RxCompleted(i)' <=> RxCompleted(i) \/ i = rxHead
    BY <1>1, <1>2, <1>4, <2>2, <2>4, Sizes DEF RxCompleted
  <2>6. ~RxCompleted(rxHead) /\ rxDesc[rxHead].st = "no"
    <3>1. ~RxCompleted(rxHead)
      BY <1>2, <1>4, <2>2, Sizes DEF RxCompleted
    <3>2. RxAhead(rxCons, rxHead) < RxAhead(rxCons, rxProd)
      BY <1>2, <2>1, <2>2, <2>3, Sizes
    <3> QED BY <1>2, <1>5, <3>1, <3>2 DEF RxWindow
  <2>7. RxWindow'
    <3>1. /\ RxAhead(rxCons, RxFront)' <= RxAhead(rxCons, reg.rxTail)'
          /\ RxAhead(rxCons, reg.rxTail)' <= RxAhead(rxCons, rxProd)'
          /\ RxAhead(rxCons, rxProd)' = RxN - 1 - napi'.fails
      BY <1>1, <1>2, <2>1, <2>2, <2>3, <2>4, Sizes
    <3>2. ASSUME NEW i \in RxSlot, ~RxCompleted(i)', RxAhead(rxCons, i)' < RxAhead(rxCons, rxProd)'
          PROVE  rxDesc'[i].own /\ rxDesc'[i].st = "no"
      BY <1>1, <1>3, <1>5, <2>5, <3>2 DEF RxWindow
    <3> QED BY <1>4, <3>1, <3>2 DEF RxWindow
  <2>8. delivered \in Nat /\ arrived \in Nat /\ \A i \in RxSlot : rxDesc[i].frame \in Nat
    BY DEF Types, Descriptor
  <2>9. rxDesc'[rxHead].st = "ok" => /\ rxDesc'[rxHead].frame = arrived /\ delivered < arrived
                                     /\ \A i \in RxSlot : RxCompleted(i) /\ rxDesc[i].st = "ok" =>
                                          rxDesc[i].frame < arrived
    BY <1>3, <1>4, <1>5, <2>6 DEF RxOrder
  <2>10. ASSUME NEW i \in RxSlot, RxCompleted(i)', rxDesc'[i].st = "ok"
         PROVE  delivered < rxDesc'[i].frame /\ rxDesc'[i].frame <= arrived
    <3>1. CASE i = rxHead
      BY <2>8, <2>9, <2>10, <3>1
    <3>2. CASE i # rxHead
      BY <1>3, <1>5, <2>5, <2>10, <3>2 DEF RxOrder
    <3> QED BY <3>1, <3>2
  <2>11. ASSUME NEW i \in RxSlot, NEW j \in RxSlot, RxCompleted(j)',
                RxAhead(rxCons, i) < RxAhead(rxCons, j), rxDesc'[i].st = "ok", rxDesc'[j].st = "ok"
         PROVE  rxDesc'[i].frame < rxDesc'[j].frame
    <3>1. i # rxHead
      BY <1>2, <1>4, <2>2, <2>5, <2>11, Sizes DEF RxCompleted
    <3>2. rxDesc'[i] = rxDesc[i]
      BY <1>3, <3>1
    <3>3. CASE j = rxHead
      <4>1. RxCompleted(i)
        BY <1>4, <2>11, <3>3 DEF RxCompleted
      <4> QED BY <2>9, <2>11, <3>2, <3>3, <4>1
    <3>4. CASE j # rxHead
      BY <1>3, <1>5, <2>5, <2>11, <3>2, <3>4 DEF RxOrder
    <3> QED BY <3>3, <3>4
  <2>12. RxOrder'
    <3>1. delivered' <= arrived' /\ (reg'.rxEn /\ rxDma' = "armed" => rx'.act /\ rx'.pend = "no")
      BY <1>1 DEF RxOrder
    <3> QED BY <1>1, <1>4, <2>10, <2>11, <3>1 DEF RxOrder
  <2> QED BY <2>7, <2>12
<1>6. CASE ~Attached
  BY <1>1, <1>4, <1>6 DEF RxWindow, RxOrder
<1> QED BY <1>5, <1>6

(* RxWindow and RxOrder: the head follows.                                    *)
LEMMA PassRx ==
  ASSUME Types, Engine, RxWindow, RxOrder, HeadMoved, ~eng.tx,
         UNCHANGED <<tx, rx, memory, payload>>,
         UNCHANGED <<driver, napi, irqAt, cause, delivered>>
  PROVE  RxWindow' /\ RxOrder'
<1>1. /\ eng.st = "RESP" /\ eng'.st = "IDLE" /\ rxHead' = RingNext(rxHead, RxN)
      /\ reg'.rxTail = reg.rxTail /\ reg'.rxEn = reg.rxEn
      /\ UNCHANGED <<pc, rxProd, rxCons, rx, rxDma, rxDesc, napi, arrived, delivered>>
  BY DEF HeadMoved, EngineIdle, driver, memory, payload, Types, Registers
<1>2. (Attached' <=> Attached) /\ ~RxBusy' /\ ~Capturing' /\ ~Captured' /\ RxFront' = RxFront
  BY <1>1 DEF Attached, RxBusy, Capturing, Captured, RxFront, Engine
<1>3. \A i \in RxSlot : RxCompleted(i)' <=> RxCompleted(i)
  BY <1>1, <1>2 DEF RxCompleted
<1>4. RxWindow'
  BY <1>1, <1>2, <1>3 DEF RxWindow
<1>5. RxOrder'
  BY <1>1, <1>2, <1>3 DEF RxOrder
<1> QED BY <1>4, <1>5

(* RxWindow and RxOrder: a frame that arrives is the newest.                  *)
LEMMA FrameArrivesRx ==
  ASSUME Types, Engine, RxWindow, RxOrder, FrameArrives,
         UNCHANGED <<eng, txHead, rxHead, reg, txDesc>>,
         UNCHANGED <<driver, napi, irqAt, cause, delivered>>
  PROVE  RxWindow' /\ RxOrder'
<1>1. /\ rxDma = "armed" /\ reg.rxEn /\ arrived' = arrived + 1 /\ rxDma' \in {"issued", "idle"}
      /\ rx'.act = rx.act /\ rx'.pend \in {rx.pend, "err"}
      /\ UNCHANGED <<pc, eng, rxHead, reg, rxProd, rxCons, rxDesc, napi, delivered>>
  BY DEF FrameArrives, driver, Types, Direction
<1>2. rx.act /\ rx.pend = "no" /\ delivered <= arrived /\ delivered \in Nat /\ arrived \in Nat
      /\ \A i \in RxSlot : rxDesc[i].frame \in Nat
  BY <1>1 DEF RxOrder, Types, Descriptor
<1>3. (Attached' <=> Attached) /\ (RxBusy' <=> RxBusy) /\ ~Captured' /\ RxFront' = RxFront
  BY <1>1, <1>2 DEF Attached, RxBusy, Captured, RxFront, Engine
<1>4. \A i \in RxSlot : RxCompleted(i)' <=> RxCompleted(i)
  BY <1>1, <1>3 DEF RxCompleted
<1>5. RxWindow'
  BY <1>1, <1>3, <1>4 DEF RxWindow
<1>6. RxOrder'
  <2>1. delivered' <= arrived' /\ delivered' < arrived' /\ ~(rxDma' = "armed")
    BY <1>1, <1>2
  <2>2. Attached => \A i \in RxSlot : RxCompleted(i) /\ rxDesc[i].st = "ok" =>
                      delivered < rxDesc[i].frame /\ rxDesc[i].frame <= arrived' /\ rxDesc[i].frame < arrived'
    BY <1>1, <1>2 DEF RxOrder
  <2> QED BY <1>1, <1>3, <1>4, <2>1, <2>2 DEF RxOrder
<1> QED BY <1>5, <1>6

(* RxWindow and RxOrder: its payload goes into the descriptor at the head,    *)
(* which no one else looks at.                                                *)
LEMMA RxPayloadRx ==
  ASSUME Types, Engine, RxWindow, RxOrder, RxPayload,
         UNCHANGED <<eng, txHead, rxHead, reg, txDesc>>,
         UNCHANGED <<driver, napi, irqAt, cause, delivered>>
  PROVE  RxWindow' /\ RxOrder'
<1>1. /\ rxDma \in {"issued", "dangling"} /\ rxDma' = "idle" /\ rx'.act = rx.act
      /\ UNCHANGED <<pc, eng, rxHead, reg, rxProd, rxCons, napi, arrived, delivered>>
  BY DEF RxPayload, driver, Types, Direction
<1>2. (Attached' <=> Attached) /\ (RxBusy' <=> RxBusy) /\ RxFront' = RxFront /\ (Captured' => Capturing')
  BY <1>1 DEF Attached, RxBusy, RxFront, Captured, Capturing
<1>3. \A i \in RxSlot : RxCompleted(i)' <=> RxCompleted(i)
  BY <1>1, <1>2 DEF RxCompleted
<1>4. CASE ~rx.act
  <2>1. UNCHANGED <<rx, rxDesc>>
    BY <1>4 DEF RxPayload
  <2>2. (Captured' <=> Captured) /\ (Capturing' => Capturing)
    BY <1>1, <1>4, <2>1 DEF Captured, Capturing
  <2> QED BY <1>1, <1>2, <1>3, <2>1, <2>2 DEF RxWindow, RxOrder
<1>5. CASE rx.act
  <2>1. rxDesc' = [rxDesc EXCEPT ![rxHead].frame = arrived] /\ Capturing
    BY <1>1, <1>5 DEF RxPayload, Capturing
  <2>2. rxHead \in RxSlot /\ RxFront = rxHead
    BY <1>5 DEF Types, RxFront, Engine
  <2>3. /\ \A i \in RxSlot : /\ i # rxHead => rxDesc'[i] = rxDesc[i]
                             /\ rxDesc'[i].own = rxDesc[i].own /\ rxDesc'[i].st = rxDesc[i].st
        /\ rxDesc'[rxHead].frame = arrived
    BY <2>1, <2>2 DEF Types, Descriptor
  <2>4. \A i \in RxSlot : RxCompleted(i) => i # rxHead
    BY <2>2, RxAheadFacts, Sizes DEF RxCompleted, Types
  <2>5. RxWindow'
    BY <1>1, <1>2, <1>3, <2>3 DEF RxWindow
  <2>6. RxOrder'
    <3>1. delivered' <= arrived' /\ ~(rxDma' = "armed")
      BY <1>1 DEF RxOrder
    <3>2. ASSUME Attached', NEW i \in RxSlot, RxCompleted(i)', rxDesc'[i].st = "ok"
          PROVE  /\ delivered' < rxDesc'[i].frame /\ rxDesc'[i].frame <= arrived'
                 /\ rxDesc'[i].frame < arrived'
      BY <1>1, <1>2, <1>3, <2>1, <2>3, <2>4, <3>2 DEF RxOrder
    <3>3. ASSUME Attached', NEW i \in RxSlot, NEW j \in RxSlot, RxCompleted(j)',
                 RxAhead(rxCons', i) < RxAhead(rxCons', j), rxDesc'[i].st = "ok", rxDesc'[j].st = "ok"
          PROVE  rxDesc'[i].frame < rxDesc'[j].frame
      <4>1. RxCompleted(j) /\ RxCompleted(i) /\ RxAhead(rxCons, i) < RxAhead(rxCons, j)
        <5>1. RxCompleted(j) /\ RxAhead(rxCons, i) < RxAhead(rxCons, j)
          BY <1>1, <1>3, <3>3
        <5>2. RxAhead(rxCons, i) \in Nat /\ RxAhead(rxCons, j) \in Nat /\ RxAhead(rxCons, RxFront) \in Nat
          BY <2>2, RxAheadFacts, Sizes DEF Types
        <5> QED BY <5>1, <5>2 DEF RxCompleted
      <4>2. i # rxHead /\ j # rxHead
        BY <2>4, <4>1
      <4> QED BY <1>2, <2>3, <3>3, <4>1, <4>2 DEF RxOrder
    <3>4. Attached' /\ Capturing' => delivered' < arrived'
      BY <1>1, <1>2, <2>1 DEF RxOrder
    <3>5. Captured' => rxDesc'[rxHead'].frame = arrived'
      BY <1>1, <2>3
    <3> QED BY <3>1, <3>2, <3>3, <3>4, <3>5 DEF RxOrder
  <2> QED BY <2>5, <2>6
<1> QED BY <1>4, <1>5

-----------------------------------------------------------------------------
(* The descriptor the engine receives into is not the one the driver fills.   *)
LEMMA HeadIsPosted ==
  ASSUME Types, Engine, RxWindow, Attached, RxBusy
  PROVE  rxHead # rxProd
<1>1. RxFront = rxHead
  BY DEF RxFront, RxBusy, Engine, Types, RingEngine
<1>2. /\ RxAhead(rxCons, rxHead) <= RxAhead(rxCons, reg.rxTail)
      /\ RxAhead(rxCons, reg.rxTail) <= RxAhead(rxCons, rxProd)
      /\ rxHead # reg.rxTail
  BY <1>1 DEF RxWindow
<1>3. \A i \in {rxHead, reg.rxTail, rxProd} : RxAhead(rxCons, i) \in 0 .. RxN - 1
  BY RxAheadFacts DEF Types, Registers
<1>4. RxAhead(rxCons, rxHead) = RxAhead(rxCons, reg.rxTail) <=> rxHead = reg.rxTail
  BY RxAheadFacts DEF Types, Registers
<1> QED BY <1>2, <1>3, <1>4, Sizes

(* The frame a turn of ap_eth_rx_poll meets was completed by the engine.      *)
LEMMA TurnIsCompleted ==
  ASSUME Types, Polls, RxWindow, RxTurn
  PROVE  Attached /\ RxCompleted(rxCons) /\ napi.fails \in 0 .. RxN - 2
<1>1. napi.at = "rx" /\ rxDesc[rxCons].st # "no" /\ rxCons \in RxSlot
  BY DEF RxTurn, Types
<1>2. Attached
  BY <1>1 DEF Polls, Served, Attached, Opening
<1>3. napi.fails \in 0 .. RxN - 2 /\ RxN \in Nat \ {0, 1}
  <2>1. load \in Loads /\ napi.fails <= load.fails /\ napi.fails \in Nat
    BY DEF Types, Poll
  <2>2. load.fails \in 0 .. RxN - 2 /\ RxN \in Nat \ {0, 1}
    BY <2>1, Sizes
  <2> QED BY <2>1, <2>2
<1>4. RxAhead(rxCons, rxCons) = 0 /\ RxAhead(rxCons, rxProd) = RxN - 1 - napi.fails
  BY <1>1, <1>2, RxAheadFacts DEF RxWindow
<1>5. RxAhead(rxCons, rxCons) < RxAhead(rxCons, rxProd)
  BY <1>3, <1>4
<1> QED BY <1>1, <1>2, <1>3, <1>5 DEF RxWindow

(* RxWindow and RxOrder: a turn takes the oldest completed frame, whether it  *)
(* posts a buffer or not.                                                     *)
LEMMA TurnRx ==
  ASSUME Types, Engine, RxWindow, RxOrder, Attached, RxCompleted(rxCons), napi.fails \in 0 .. RxN - 2,
         UNCHANGED <<pc, eng, rxHead, rxDma, arrived>>, rxCons' = RingNext(rxCons, RxN),
         rx'.act = rx.act, rx'.pend = rx.pend, reg'.rxEn => reg.rxEn, reg'.rxTail = reg.rxTail,
         \/ delivered' = delivered
         \/ delivered' = rxDesc[rxCons].frame /\ rxDesc[rxCons].st = "ok",
         \/ rxProd' = rxProd /\ rxDesc' = rxDesc /\ napi'.fails = napi.fails + 1
         \/ /\ rxProd' = RingNext(rxProd, RxN) /\ rxDesc' = [rxDesc EXCEPT ![rxProd] = Posted(0)]
            /\ napi'.fails = napi.fails
  PROVE  RxWindow' /\ RxOrder'
<1>1. rxHead \in RxSlot /\ rxCons \in RxSlot /\ rxProd \in RxSlot /\ reg.rxTail \in RxSlot
      /\ RxFront \in RxSlot /\ RxN \in Nat \ {0, 1}
  BY RxNext, Sizes DEF Types, Registers, RxFront
<1>2. \A i \in RxSlot : /\ RxAhead(rxCons, i) \in 0 .. RxN - 1
                        /\ RxAhead(rxCons, i) = 0 <=> i = rxCons
                        /\ RxAhead(rxCons, i) = RxAhead(rxCons, rxProd) <=> i = rxProd
                        /\ RxAhead(rxCons', i) = IF i = rxCons THEN RxN - 1 ELSE RxAhead(rxCons, i) - 1
  BY <1>1, RxAheadFacts
<1>3. /\ 0 < RxAhead(rxCons, RxFront)
      /\ RxAhead(rxCons, RxFront) <= RxAhead(rxCons, reg.rxTail)
      /\ RxAhead(rxCons, reg.rxTail) <= RxAhead(rxCons, rxProd)
      /\ RxAhead(rxCons, rxProd) = RxN - 1 - napi.fails
  BY <1>1, <1>2 DEF RxWindow, RxCompleted
<1>4. RxFront # rxCons /\ reg.rxTail # rxCons /\ rxProd # rxCons
  BY <1>1, <1>2, <1>3
<1>5. /\ Attached' /\ RxFront' = RxFront /\ (RxBusy' <=> RxBusy)
      /\ (Capturing' <=> Capturing) /\ (Captured' <=> Captured)
  BY DEF Attached, RxFront, RxBusy, Capturing, Captured
<1>6. \A i \in RxSlot : RxCompleted(i)' <=> RxCompleted(i) /\ i # rxCons
  BY <1>1, <1>2, <1>3, <1>4, <1>5 DEF RxCompleted
<1>7. \A i \in RxSlot : RxCompleted(i) => i # rxProd
  BY <1>1, <1>2, <1>3 DEF RxCompleted
<1>8. \A i \in RxSlot : i # rxProd => rxDesc'[i] = rxDesc[i]
  BY <1>1 DEF Types
<1>9. RxAhead(rxCons', rxProd') = RxN - 1 - napi'.fails
      /\ (rxProd' = rxProd \/ RxAhead(rxCons', rxProd') = RxAhead(rxCons, rxProd))
  <2>1. CASE rxProd' = rxProd /\ napi'.fails = napi.fails + 1
    BY <1>1, <1>2, <1>3, <1>4, <2>1
  <2>2. CASE rxProd' = RingNext(rxProd, RxN) /\ napi'.fails = napi.fails
    <3>1. rxProd' \in RxSlot
      BY <1>1, <2>2, RxNext
    <3>2. RxAhead(rxCons, rxProd') = IF rxProd' = rxCons THEN 0 ELSE RxAhead(rxCons, rxProd) + 1
      BY <1>1, <2>2, RxAheadFacts
    <3>3. CASE rxProd' = rxCons
      <4>1. RxAhead(RingNext(rxProd, RxN), rxProd) = RxN - 1
        BY <1>1, RxAheadFacts
      <4> QED BY <1>1, <1>2, <1>3, <2>2, <3>3, <4>1
    <3>4. CASE rxProd' # rxCons
      BY <1>1, <1>2, <1>3, <2>2, <3>1, <3>2, <3>4
    <3> QED BY <3>3, <3>4
  <2> QED BY <2>1, <2>2
<1>10. RxWindow'
  <2>1. /\ RxAhead(rxCons', RxFront') <= RxAhead(rxCons', reg'.rxTail)
        /\ RxAhead(rxCons', reg'.rxTail) <= RxAhead(rxCons', rxProd')
    <3>1. RxAhead(rxCons', rxProd) = RxAhead(rxCons, rxProd) - 1
      BY <1>1, <1>2, <1>4
    <3> QED BY <1>1, <1>2, <1>3, <1>4, <1>5, <1>9, <3>1
  <2>2. RxBusy' => rxHead' # reg'.rxTail
    BY <1>5 DEF RxWindow
  <2>3. ASSUME NEW i \in RxSlot, ~RxCompleted(i)', RxAhead(rxCons', i) < RxAhead(rxCons', rxProd')
        PROVE  rxDesc'[i].own /\ rxDesc'[i].st = "no"
    <3>1. i # rxCons
      <4>1. RxAhead(rxCons, rxProd) <= RxN - 1 /\ RxAhead(rxCons', rxProd) = RxAhead(rxCons, rxProd) - 1
        BY <1>1, <1>2, <1>4
      <4> QED BY <1>1, <1>2, <1>9, <2>3, <4>1
    <3>2. ~RxCompleted(i)
      BY <1>6, <2>3, <3>1
    <3>3. CASE i = rxProd
      <4>1. rxProd' # rxProd
        BY <2>3, <3>3, <1>1, <1>2, <1>4
      <4>2. rxDesc' = [rxDesc EXCEPT ![rxProd] = [own |-> TRUE, st |-> "no", frame |-> 0]]
        BY <4>1 DEF Posted
      <4> QED BY <1>1, <3>3, <4>2 DEF Types
    <3>4. CASE i # rxProd
      <4>1. RxAhead(rxCons', i) = RxAhead(rxCons, i) - 1 /\ RxAhead(rxCons', rxProd) = RxAhead(rxCons, rxProd) - 1
            /\ RxAhead(rxCons, i) # RxAhead(rxCons, rxProd)
            /\ RxAhead(rxCons, i) \in Nat /\ RxAhead(rxCons, rxProd) \in Nat
        BY <1>1, <1>2, <1>4, <3>1, <3>4
      <4>2. RxAhead(rxCons, i) < RxAhead(rxCons, rxProd)
        BY <1>9, <2>3, <4>1
      <4> QED BY <1>8, <3>2, <3>4, <4>2 DEF RxWindow
    <3> QED BY <3>3, <3>4
  <2> QED BY <1>9, <2>1, <2>2, <2>3 DEF RxWindow
<1>11. /\ delivered \in Nat /\ arrived \in Nat /\ \A i \in RxSlot : rxDesc[i].frame \in Nat
       /\ \A i \in RxSlot : RxCompleted(i) /\ rxDesc[i].st = "ok" =>
            delivered < rxDesc[i].frame /\ rxDesc[i].frame <= arrived
       /\ \A i, j \in RxSlot : /\ RxCompleted(j) /\ RxAhead(rxCons, i) < RxAhead(rxCons, j)
                               /\ rxDesc[i].st = "ok" /\ rxDesc[j].st = "ok"
                               => rxDesc[i].frame < rxDesc[j].frame
       /\ Capturing => /\ delivered < arrived
                       /\ \A i \in RxSlot : RxCompleted(i) /\ rxDesc[i].st = "ok" =>
                            rxDesc[i].frame < arrived
       /\ Captured => rxDesc[rxHead].frame = arrived
       /\ delivered <= arrived
  BY DEF RxOrder, Types, Descriptor
<1>12. RxOrder'
  <2>1. delivered' <= arrived' /\ (reg'.rxEn /\ rxDma' = "armed" => rx'.act /\ rx'.pend = "no")
    BY <1>1, <1>11 DEF RxOrder
  <2>2. ASSUME NEW i \in RxSlot, RxCompleted(i)', rxDesc'[i].st = "ok"
        PROVE  delivered' < rxDesc'[i].frame /\ rxDesc'[i].frame <= arrived'
    <3>1. RxCompleted(i) /\ i # rxCons /\ rxDesc'[i] = rxDesc[i]
      BY <1>6, <1>7, <1>8, <2>2
    <3>2. RxAhead(rxCons, rxCons) < RxAhead(rxCons, i)
      BY <1>1, <1>2, <3>1
    <3> QED BY <1>1, <1>11, <2>2, <3>1, <3>2
  <2>3. ASSUME NEW i \in RxSlot, NEW j \in RxSlot, RxCompleted(j)',
               RxAhead(rxCons', i) < RxAhead(rxCons', j), rxDesc'[i].st = "ok", rxDesc'[j].st = "ok"
        PROVE  rxDesc'[i].frame < rxDesc'[j].frame
    <3>1. RxCompleted(j) /\ j # rxCons /\ rxDesc'[j] = rxDesc[j]
      BY <1>6, <1>7, <1>8, <2>3
    <3>2. i # rxCons /\ RxAhead(rxCons, i) < RxAhead(rxCons, j)
      BY <1>1, <1>2, <2>3, <3>1
    <3>3. RxCompleted(i)
      BY <1>1, <1>2, <3>1, <3>2 DEF RxCompleted
    <3>4. rxDesc'[i] = rxDesc[i]
      BY <1>7, <1>8, <3>3
    <3> QED BY <1>11, <2>3, <3>1, <3>2, <3>4
  <2>4. Capturing' => /\ delivered' < arrived'
                      /\ \A i \in RxSlot : RxCompleted(i)' /\ rxDesc'[i].st = "ok" =>
                           rxDesc'[i].frame < arrived'
    BY <1>1, <1>5, <1>6, <1>7, <1>8, <1>11
  <2>5. Captured' => rxDesc'[rxHead'].frame = arrived'
    <3> SUFFICES ASSUME Captured PROVE rxDesc'[rxHead].frame = arrived
      BY <1>5
    <3>2. rxHead # rxProd
      BY HeadIsPosted DEF Captured, RxBusy
    <3> QED BY <1>1, <1>8, <1>11, <3>2
  <2> QED BY <1>5, <2>1, <2>2, <2>3, <2>4, <2>5 DEF RxOrder
<1> QED BY <1>10, <1>12

(* RxWindow and RxOrder: a turn that posts a buffer.                          *)
LEMMA RxPostedRx ==
  ASSUME Types, Engine, Polls, RxWindow, RxOrder, Napi, RxPosted
  PROVE  RxWindow' /\ RxOrder'
<1>1. RxTurn
  BY DEF RxPosted
<1>2. Attached /\ RxCompleted(rxCons) /\ napi.fails \in 0 .. RxN - 2
  BY <1>1, TurnIsCompleted
<1>3. /\ UNCHANGED <<pc, eng, rxHead, rxDma, arrived, reg, rx>>
      /\ rxCons' = RingNext(rxCons, RxN) /\ rxProd' = RingNext(rxProd, RxN)
      /\ rxDesc' = [rxDesc EXCEPT ![rxProd] = Posted(0)]
  BY NapiFrame DEF RxPosted
<1>4. napi'.fails = napi.fails
  BY DEF RxPosted, Types, Poll
<1>5. \/ delivered' = delivered
      \/ delivered' = rxDesc[rxCons].frame /\ rxDesc[rxCons].st = "ok"
  BY DEF RxPosted, RxDeliver
<1> QED BY <1>2, <1>3, <1>4, <1>5, TurnRx

(* RxWindow and RxOrder: a turn that finds no buffer, and leaves a gap behind *)
(* the producer.                                                              *)
LEMMA RxNotPostedRx ==
  ASSUME Types, Engine, Polls, RxWindow, RxOrder, Napi, RxNotPosted
  PROVE  RxWindow' /\ RxOrder'
<1>1. RxTurn
  BY DEF RxNotPosted
<1>2. Attached /\ RxCompleted(rxCons) /\ napi.fails \in 0 .. RxN - 2
  BY <1>1, TurnIsCompleted
<1>3. /\ UNCHANGED <<pc, eng, rxHead, rxDma, arrived, rx, rxProd, rxDesc>>
      /\ rxCons' = RingNext(rxCons, RxN)
  BY NapiFrame DEF RxNotPosted, memory
<1>4. napi'.fails = napi.fails + 1
  BY DEF RxNotPosted, Types, Poll
<1>5. ~reg'.rxEn /\ reg'.rxTail = reg.rxTail
  BY DEF RxNotPosted, Types, Registers
<1>6. \/ delivered' = delivered
      \/ delivered' = rxDesc[rxCons].frame /\ rxDesc[rxCons].st = "ok"
  BY DEF RxNotPosted, RxDeliver
<1> QED BY <1>2, <1>3, <1>4, <1>5, <1>6, TurnRx

(* RxWindow and RxOrder: the poll tells the engine of all that is posted.     *)
LEMMA NapiTailRx ==
  ASSUME Types, Engine, Polls, RxWindow, RxOrder, Napi, NapiTail
  PROVE  RxWindow' /\ RxOrder'
<1>1. /\ UNCHANGED <<pc, eng, rxHead, rxDma, arrived, rx, rxCons, rxProd, rxDesc, delivered>>
      /\ napi.at = "tail"
  BY NapiFrame DEF NapiTail, driver, memory
<1>2. reg'.rxTail = rxProd /\ reg'.rxEn = reg.rxEn /\ napi'.fails = napi.fails
  BY DEF NapiTail, NapiTo, Types, Registers, Poll
<1>3. Attached /\ Attached'
  BY <1>1 DEF Polls, Served, Attached, Opening
<1>4. /\ RxFront' = RxFront /\ (RxBusy' <=> RxBusy)
      /\ (Capturing' <=> Capturing) /\ (Captured' <=> Captured)
      /\ \A i \in RxSlot : RxCompleted(i)' <=> RxCompleted(i)
  BY <1>1 DEF RxFront, RxBusy, Capturing, Captured, RxCompleted
<1>5. RxWindow'
  <2>1. RxFront \in RxSlot /\ reg.rxTail \in RxSlot /\ rxProd \in RxSlot /\ rxCons \in RxSlot
    BY RxNext DEF Types, Registers, RxFront
  <2>2. \A i \in RxSlot : RxAhead(rxCons, i) \in 0 .. RxN - 1
    BY <2>1, RxAheadFacts
  <2>3. RxAhead(rxCons, RxFront) <= RxAhead(rxCons, rxProd)
    BY <1>3, <2>1, <2>2, Sizes DEF RxWindow
  <2>4. RxAhead(rxCons, rxProd) <= RxAhead(rxCons, rxProd)
    BY <2>1, <2>2, Sizes
  <2>5. RxBusy => rxHead # rxProd
    BY <1>3, HeadIsPosted
  <2> QED BY <1>1, <1>2, <1>3, <1>4, <2>3, <2>4, <2>5 DEF RxWindow
<1>6. RxOrder'
  BY <1>1, <1>2, <1>3, <1>4 DEF RxOrder
<1> QED BY <1>5, <1>6

(* RxWindow and RxOrder: hw_program tells the engine of the ring that open    *)
(* has filled.                                                                *)
LEMMA HwProgramRx ==
  ASSUME Types, Engine, Prepared, RxWindow, RxOrder, HwProgramStep, pc.at = "program"
  PROVE  RxWindow' /\ RxOrder'
<1>1. /\ UNCHANGED <<eng, rxHead, rxDma, arrived, rxCons, rxProd, rxDesc, delivered, napi>>
      /\ rx'.act = rx.act /\ rx'.pend = rx.pend
      /\ pc.op = "open" /\ reg'.rxTail = rxProd /\ reg'.rxEn = reg.rxEn
  BY HwProgramEffects DEF rest, memory, payload
<1>2. ~EngBusy /\ ~reg.rxEn
  BY <1>1 DEF Engine, Attached, Opening
<1>3. /\ rxHead = 0 /\ rxProd = RxN - 1 /\ rxCons = 0 /\ napi.fails = 0
      /\ \A i \in RxSlot : i # RxN - 1 => rxDesc[i].own /\ rxDesc[i].st = "no"
  BY <1>1 DEF Prepared
<1>4. ~RxBusy' /\ RxFront' = 0 /\ ~Capturing' /\ ~Captured'
  BY <1>1, <1>2, <1>3 DEF EngBusy, RxBusy, RxFront, Capturing, Captured
<1>5. /\ RxAhead(0, 0) = 0 /\ RxAhead(0, RxN - 1) = RxN - 1
      /\ \A i \in RxSlot : RxAhead(0, i) = i /\ i \in 0 .. RxN - 1
  BY Sizes DEF RxAhead, Ahead, RxSlot
<1>6. \A i \in RxSlot : ~RxCompleted(i)'
  BY <1>1, <1>3, <1>4, <1>5, Sizes DEF RxCompleted
<1>7. RxWindow'
  <2>1. /\ RxAhead(rxCons', RxFront') <= RxAhead(rxCons', reg'.rxTail)
        /\ RxAhead(rxCons', reg'.rxTail) <= RxAhead(rxCons', rxProd')
        /\ RxAhead(rxCons', rxProd') = RxN - 1 - napi'.fails
    BY <1>1, <1>3, <1>4, <1>5, Sizes
  <2>2. \A i \in RxSlot : RxAhead(rxCons', i) < RxAhead(rxCons', rxProd') =>
                            rxDesc'[i].own /\ rxDesc'[i].st = "no"
    BY <1>1, <1>3, <1>5, Sizes
  <2> QED BY <1>4, <2>1, <2>2 DEF RxWindow
<1>8. RxOrder'
  BY <1>1, <1>2, <1>4, <1>6 DEF RxOrder
<1> QED BY <1>7, <1>8

-----------------------------------------------------------------------------
(* TxWindow and TxOrder, under every step of the hardware.                    *)
LEMMA HardwareTx ==
  ASSUME Types, Types', Engine, Engine', TxWindow, TxOrder, Hardware
  PROVE  TxWindow' /\ TxOrder'
<1> DEFINE H == UNCHANGED <<driver, napi, irqAt, cause, delivered>>
<1>1. H
  BY DEF Hardware
<1>2. CASE TxUndisturbed
  BY <1>2, TxFrame
<1>3. CASE PayloadStep
  BY <1>1, <1>2, <1>3, HardwareSparesTx
<1>4. CASE StartFetch /\ UNCHANGED <<txHead, rxHead, reg, memory, payload>>
  BY <1>1, <1>2, <1>4, HardwareSparesTx, FetchTx
<1>5. CASE Launched /\ UNCHANGED <<txHead, rxHead, reg, memory>>
  BY <1>1, <1>5, LaunchTx
<1>6. CASE StatusWritten /\ UNCHANGED <<txHead, rxHead, tx, rx, reg, payload>>
  BY <1>1, <1>2, <1>6, HardwareSparesTx, CompleteTxStatus
<1>7. CASE HeadMoved /\ UNCHANGED <<tx, rx, memory, payload>>
  BY <1>1, <1>2, <1>7, HardwareSparesTx, PassTx
<1>8. CASE \/ (CompleteTx \/ CompleteRx \/ StayIdle \/ Abandoned)
              /\ UNCHANGED <<txHead, rxHead, reg, memory, payload>>
           \/ Armed /\ UNCHANGED <<txHead, rxHead, reg, memory>>
  BY <1>1, <1>2, <1>8, HardwareSparesTx
<1> QED BY <1>3, <1>4, <1>5, <1>6, <1>7, <1>8 DEF Hardware, EngineStep

(* RxWindow and RxOrder, under every step of the hardware.                    *)
LEMMA HardwareRx ==
  ASSUME Types, Engine, RxWindow, RxOrder, Hardware
  PROVE  RxWindow' /\ RxOrder'
<1> DEFINE H == UNCHANGED <<driver, napi, irqAt, cause, delivered>>
<1>1. H
  BY DEF Hardware
<1>2. CASE RxUndisturbed
  BY <1>2, RxFrame
<1>3. CASE PayloadStep
  <2>1. UNCHANGED <<eng, txHead, rxHead, reg, txDesc>>
    BY <1>3 DEF PayloadStep
  <2> QED BY <1>1, <1>2, <1>3, <2>1, HardwareSparesRx, FrameArrivesRx, RxPayloadRx DEF PayloadStep
<1>4. CASE StatusWritten /\ UNCHANGED <<txHead, rxHead, tx, rx, reg, payload>>
  BY <1>1, <1>2, <1>4, HardwareSparesRx, CompleteRxStatus
<1>5. CASE HeadMoved /\ UNCHANGED <<tx, rx, memory, payload>>
  BY <1>1, <1>2, <1>5, HardwareSparesRx, PassRx
<1>6. CASE \/ (CompleteTx \/ CompleteRx \/ StartFetch \/ StayIdle \/ Abandoned)
              /\ UNCHANGED <<txHead, rxHead, reg, memory, payload>>
           \/ (Launched \/ Armed) /\ UNCHANGED <<txHead, rxHead, reg, memory>>
  BY <1>1, <1>2, <1>6, HardwareSparesRx
<1> QED BY <1>3, <1>4, <1>5, <1>6 DEF Hardware, EngineStep

(* The parts about the rings, under every step of the poll.                   *)
LEMMA NapiRings ==
  ASSUME Types, Types', Engine, Engine', Polls, TxWindow, TxOrder, RxWindow, RxOrder, Napi
  PROVE  TxWindow' /\ TxOrder' /\ RxWindow' /\ RxOrder'
<1>1. TxWindow' /\ TxOrder'
  <2>1. CASE NapiReclaim
    <3>1. UNCHANGED <<pc, txHead, txProd, eng, tx, sent, taken, reg>> /\ Reclaim
      BY <2>1, NapiFrame DEF NapiReclaim
    <3>2. Attached' <=> Attached
      BY <3>1 DEF Attached
    <3> QED BY <3>1, <3>2, ReclaimTx
  <2>2. CASE ~NapiReclaim
    BY <2>2, NapiSparesTx, TxFrame
  <2> QED BY <2>1, <2>2
<1>2. RxWindow' /\ RxOrder'
  <2>1. CASE ~RxPosted /\ ~RxNotPosted /\ ~NapiTail
    BY <2>1, NapiSparesRx, RxFrame
  <2> QED BY <2>1, RxPostedRx, RxNotPostedRx, NapiTailRx
<1> QED BY <1>1, <1>2

(* The parts about the rings, under the calls.                                *)
LEMMA CallRings ==
  ASSUME Types, Types', Places, Engine, Engine', TxWindow, TxOrder, RxWindow, RxOrder, Call
  PROVE  TxWindow' /\ TxOrder' /\ RxWindow' /\ RxOrder'
<1>1. TxUndisturbed
  BY CallSparesTx DEF Call
<1>2. RxUndisturbed
  BY CallSparesRx DEF Call
<1> QED BY <1>1, <1>2, TxFrame, RxFrame

(* TxWindow and TxOrder, under what the calls go on to do.                    *)
LEMMA RunningTx ==
  ASSUME Types, Types', Places, Engine, Engine', Prepared, TxWindow, TxOrder, Running
  PROVE  TxWindow' /\ TxOrder'
<1>1. CASE TxUndisturbed
  BY <1>1, TxFrame
<1>2. CASE Xmit
  <2>1. UNCHANGED <<eng, txHead, rxHead, rx, payload, delivered>>
    BY <1>2 DEF Xmit
  <2>2. CASE XmitReclaim
    <3>1. /\ UNCHANGED <<txHead, txProd, eng, tx, sent, taken, reg>> /\ Reclaim
          /\ pc.op = "xmit" /\ pc'.op = "xmit"
      BY <2>1, <2>2 DEF XmitReclaim, Goto, At, Types, Place, payload
    <3>2. Attached' <=> Attached
      BY <3>1 DEF Attached
    <3> QED BY <3>1, <3>2, ReclaimTx
  <2>3. CASE XmitBell \/ XmitEnd
    BY <1>1, <2>1, <2>3, RunningSparesTx
  <2> QED BY <1>2, <2>1, <2>2, <2>3, XmitSlotTx, XmitTailTx DEF Xmit
<1>3. CASE HwProgramStep
  <2>1. pc.at \in {"program", "enable", "irqon", "bell"}
    BY <1>3, HwProgramEffects
  <2>2. CASE pc.at \in {"program", "enable"}
    BY <1>3, <2>2, HwProgramTx
  <2>3. CASE pc.at \in {"irqon", "bell"}
    BY <1>1, <1>3, <2>3, RunningSparesTx
  <2> QED BY <2>1, <2>2, <2>3
<1>4. CASE HwStopStep \/ ResetStep \/ AllocFails \/ OpenEnd \/ NapiDisable \/ FreeRings
  BY <1>1, <1>4, RunningSparesTx
<1> QED BY <1>2, <1>3, <1>4, AllocRingsTx DEF Running

(* RxWindow and RxOrder, under what the calls go on to do.                    *)
LEMMA RunningRx ==
  ASSUME Types, Places, Engine, Prepared, RxWindow, RxOrder, Running
  PROVE  RxWindow' /\ RxOrder'
<1>1. CASE RxUndisturbed
  BY <1>1, RxFrame
<1>2. CASE Xmit
  <2>1. UNCHANGED <<eng, txHead, rxHead, rx, payload, delivered>>
    BY <1>2 DEF Xmit
  <2> QED BY <1>1, <1>2, <2>1, RunningSparesRx DEF Xmit
<1>3. CASE HwProgramStep
  <2>1. CASE pc.at = "program"
    BY <1>3, <2>1, HwProgramRx
  <2>2. CASE pc.at # "program"
    BY <1>1, <1>3, <2>2, RunningSparesRx
  <2> QED BY <2>1, <2>2
<1>4. CASE HwStopStep \/ ResetStep \/ AllocRings \/ AllocFails \/ OpenEnd \/ NapiDisable \/ FreeRings
  BY <1>1, <1>4, RunningSparesRx
<1> QED BY <1>2, <1>3, <1>4 DEF Running

-----------------------------------------------------------------------------
(* The invariant holds at the start.                                          *)
LEMMA InitInvariant ==
  ASSUME Init
  PROVE  IInv
<1> USE DEF Init, At, Quiet, EngineIdle, NapiOff, NoDesc
<1>1. 0 \in TxSlot /\ 0 \in RxSlot /\ load.tx \in Nat /\ load.fails \in Nat
  BY Sizes DEF TxSlot, RxSlot
<1>2. Types
  <2>1. pc \in Place /\ load \in Loads /\ txSkb \in [TxSlot -> 0 .. load.tx]
    BY <1>1 DEF Place
  <2>2. napi \in Poll /\ napi.fails <= load.fails
    BY <1>1, Sizes DEF Poll
  <2>3. reg \in Registers /\ eng \in RingEngine /\ tx \in Direction /\ rx \in Direction
    BY <1>1 DEF Registers, RingEngine, Direction, Status
  <2>4. txDesc \in [TxSlot -> Descriptor] /\ rxDesc \in [RxSlot -> Descriptor]
    BY DEF Descriptor, Status
  <2> QED BY <1>1, <2>1, <2>2, <2>3, <2>4 DEF Types
<1>3. Places /\ Polls
  BY <1>1 DEF Places, Polls, Served, Early, Opening
<1>4. ~Attached /\ ~EngBusy
  BY DEF Attached, EngBusy
<1>5. Engine /\ Prepared
  BY <1>4 DEF Engine, Prepared
<1>6. TxWindow /\ TxOrder
  BY <1>4 DEF TxWindow, TxOrder
<1>7. RxWindow /\ RxOrder
  BY <1>4 DEF RxWindow, RxOrder
<1> QED BY <1>2, <1>3, <1>5, <1>6, <1>7 DEF IInv

(* Every step keeps the invariant.                                            *)
LEMMA NextInvariant ==
  ASSUME IInv, Next
  PROVE  IInv'
<1> USE DEF IInv
<1>1. CASE Hardware
  <2>1. UNCHANGED <<driver, napi, irqAt, cause, delivered>> /\ (EngineStep \/ PayloadStep)
    BY <1>1 DEF Hardware
  <2>2. Types'
    BY <2>1, EngineTypes, PayloadTypes
  <2>3. Engine'
    BY <2>1, EngineEngine, PayloadEngine
  <2>4. Places' /\ Polls' /\ Prepared'
    BY <1>1, OthersPlaces, HardwarePolls, HardwarePrepared
  <2>5. TxWindow' /\ TxOrder' /\ RxWindow' /\ RxOrder'
    BY <1>1, <2>2, <2>3, HardwareTx, HardwareRx
  <2> QED BY <2>2, <2>3, <2>4, <2>5
<1>2. CASE Irq
  <2>1. Types' /\ Engine' /\ Places' /\ Polls' /\ Prepared'
    BY <1>2, IrqTypes, SoftwareEngine, OthersPlaces, IrqPolls, SoftwarePrepared
  <2>2. TxWindow' /\ TxOrder' /\ RxWindow' /\ RxOrder'
    BY <1>2, <2>1, IrqSpares, TxFrame, RxFrame
  <2> QED BY <2>1, <2>2
<1>3. CASE Napi
  <2>1. Types' /\ Engine' /\ Places' /\ Polls' /\ Prepared'
    BY <1>3, NapiTypes, SoftwareEngine, OthersPlaces, NapiPolls, SoftwarePrepared
  <2>2. TxWindow' /\ TxOrder' /\ RxWindow' /\ RxOrder'
    BY <1>3, <2>1, NapiRings
  <2> QED BY <2>1, <2>2
<1>4. CASE Process
  <2>1. irqAt = "no" /\ ~Line /\ napi.at = "no" /\ UNCHANGED <<irqAt, cause>> /\ (Call \/ Running)
    BY <1>4 DEF Process
  <2>2. CASE Call
    <3>1. Types' /\ Engine' /\ Places' /\ Polls' /\ Prepared'
      BY <2>1, <2>2, CallTypes, CallEngine, CallPlaces, CallPolls, CallPrepared
    <3>2. TxWindow' /\ TxOrder' /\ RxWindow' /\ RxOrder'
      BY <2>2, <3>1, CallRings
    <3> QED BY <3>1, <3>2
  <2>3. CASE Running
    <3>1. Types' /\ Engine' /\ Places' /\ Polls' /\ Prepared'
      BY <2>1, <2>3, RunningTypes, RunningEngine, RunningPlaces, RunningPolls, RunningPrepared
    <3>2. TxWindow' /\ TxOrder' /\ RxWindow' /\ RxOrder'
      BY <2>3, <3>1, RunningTx, RunningRx
    <3> QED BY <3>1, <3>2
  <2> QED BY <2>1, <2>2, <2>3
<1> QED BY <1>1, <1>2, <1>3, <1>4 DEF Next

(* So does a step in which nothing happens.                                   *)
LEMMA StutterInvariant ==
  ASSUME IInv, UNCHANGED vars
  PROVE  IInv'
<1> USE DEF vars, driver, memory, engine, payload
<1>1. Types' /\ Places'
  BY DEF IInv, Types, Places
<1>2. Polls'
  BY DEF IInv, Polls, Served
<1>3. Engine' /\ Prepared'
  BY DEF IInv, Engine, EngBusy, Attached, Prepared
<1>4. TxWindow' /\ TxOrder'
  BY DEF IInv, TxWindow, TxOrder, TxPosted, TxBusy, Launching, Attached
<1>5. RxWindow' /\ RxOrder'
  BY DEF IInv, RxWindow, RxOrder, RxFront, RxBusy, RxCompleted, Capturing, Captured, Attached
<1> QED BY <1>1, <1>2, <1>3, <1>4, <1>5 DEF IInv

(* The invariant always holds.                                                *)
LEMMA Invariance == Spec => []IInv
<1>1. IInv /\ [Next]_vars => IInv'
  BY NextInvariant, StutterInvariant
<1> QED BY InitInvariant, <1>1, PTL DEF Spec

-----------------------------------------------------------------------------
(* TypeOK: the indices the driver and the engine keep are slots of their      *)
(* rings, and every state machine is in one of its states.                    *)
THEOREM TypeCorrect == Spec => []TypeOK
<1>1. IInv => TypeOK
  BY DEF IInv, Types, TypeOK, Registers, RingEngine, Poll
<1> QED BY Invariance, <1>1, PTL

(* RingsLive: the engine fetches and completes only in rings that exist,      *)
(* meets no descriptor it does not own, and a poll has its rings, whatever    *)
(* hw_stop, a time-out, a failed allocation or a removed driver did before.   *)
THEOREM RingsLiveAlways == Spec => []RingsLive
<1>1. ASSUME IInv PROVE RingsLive
  <2> USE DEF IInv
  <2>1. eng.st \in {"FETCH", "COMP"} => reg.base = "live"
    BY <1>1 DEF Engine, EngBusy
  <2>2. ASSUME eng.st = "FETCH", eng.tx PROVE Owned
    BY <1>1, <2>2 DEF TxWindow, Owned
  <2>3. ASSUME eng.st = "FETCH", ~eng.tx, reg.rxEn PROVE Owned
    <3>1. Attached /\ RxBusy /\ RxFront = rxHead
      BY <1>1, <2>3, RxInSession DEF RxBusy, RxFront
    <3>2. /\ RxAhead(rxCons, rxHead) <= RxAhead(rxCons, reg.rxTail)
          /\ RxAhead(rxCons, reg.rxTail) <= RxAhead(rxCons, rxProd)
          /\ rxHead # reg.rxTail
      BY <1>1, <3>1 DEF RxWindow
    <3>3. rxHead \in RxSlot /\ rxCons \in RxSlot /\ reg.rxTail \in RxSlot /\ rxProd \in RxSlot
      BY <1>1 DEF Types, Registers
    <3>4. /\ \A i \in RxSlot : RxAhead(rxCons, i) \in 0 .. RxN - 1
          /\ RxAhead(rxCons, rxHead) = RxAhead(rxCons, reg.rxTail) <=> rxHead = reg.rxTail
      BY <3>3, RxAheadFacts
    <3>5. RxAhead(rxCons, rxHead) < RxAhead(rxCons, rxProd) /\ ~RxCompleted(rxHead)
      BY <3>1, <3>2, <3>3, <3>4, Sizes DEF RxCompleted
    <3> QED BY <1>1, <2>3, <3>1, <3>3, <3>5 DEF RxWindow, Owned
  <2>4. napi.at \in {"tx", "rx"} => rings
    BY <1>1 DEF Polls, Places, Served, Opening
  <2> QED BY <2>1, <2>2, <2>3, <2>4 DEF RingsLive
<1> QED BY Invariance, <1>1, PTL

(* NoStaleFrame: the poll delivers a frame once, and in the order of arrival, *)
(* also after turns that found no buffer.                                     *)
THEOREM NoStaleFrameAlways == Spec => []NoStaleFrame
<1>1. ASSUME IInv PROVE NoStaleFrame
  <2> SUFFICES ASSUME RxTurn, rxDesc[rxCons].st = "ok"
               PROVE  rxDesc[rxCons].frame > delivered
    BY DEF NoStaleFrame
  <2>1. Attached /\ RxCompleted(rxCons) /\ rxCons \in RxSlot
    BY <1>1, TurnIsCompleted DEF IInv, Types
  <2>2. delivered < rxDesc[rxCons].frame
    BY <1>1, <2>1 DEF IInv, RxOrder
  <2>3. delivered \in Nat /\ rxDesc[rxCons].frame \in Nat
    BY <1>1, <2>1 DEF IInv, Types, Descriptor
  <2> QED BY <2>2, <2>3
<1> QED BY Invariance, <1>1, PTL

(* FramesInOrder: every frame on the wire is later than the one before, and   *)
(* comes from a buffer the ring still holds, or from one a driver removed     *)
(* after a time-out has left behind.                                          *)
THEOREM FramesInOrderAlways == Spec => FramesInOrder
<1>1. ASSUME IInv, Next, sent' # sent
      PROVE  sent' > sent /\ (pc.op = "unbound" \/ txSkb[txHead] = sent')
  <2>1. CASE Hardware
    <3>1. EngineStep
      BY <1>1, <2>1 DEF Hardware, PayloadStep, TxPayload, FrameArrives, RxPayload, Disarmed
    <3>2. Launched
      BY <1>1, <3>1 DEF EngineStep, Armed, payload
    <3>3. eng.st = "FETCH" /\ eng.tx /\ sent' = txDesc[txHead].frame
      BY <1>1, <3>2 DEF Launched
    <3> QED BY <1>1, <3>3 DEF IInv, TxWindow
  <2>2. sent' = sent \/ Hardware
    <3>1. CASE Irq
      BY <3>1 DEF Irq, payload
    <3>2. CASE Napi
      BY <3>2, NapiFrame
    <3>3. CASE Process
      BY <3>3 DEF Process, Call, OpenStart, StopStart, Probe, Remove, Running, Xmit, HwStopStep,
                ResetStep,
                  AllocRings, AllocFails, HwProgramStep, OpenEnd, NapiDisable, FreeRings, payload
    <3> QED BY <1>1, <3>1, <3>2, <3>3 DEF Next
  <2> QED BY <1>1, <2>1, <2>2
<1>2. ASSUME IInv, [Next]_vars
      PROVE  [sent' # sent => /\ sent' > sent
                              /\ pc.op = "unbound" \/ txSkb[txHead] = sent']_vars
  BY <1>1, <1>2 DEF vars, payload
<1> QED BY Invariance, <1>2, PTL DEF Spec, FramesInOrder

-----------------------------------------------------------------------------
(* Kept: steps that leave the driver's books alone.                           *)
LEMMA KeptFrame ==
  ASSUME Kept, UNCHANGED <<rings, txSkb, txProd, txClean>>,
         pc'.op = "open" /\ pc'.at = "program" => pc.op = "open" /\ pc.at = "program"
  PROVE  Kept'
BY DEF Kept

(* Passed: steps that leave the driver's books and the head alone.            *)
LEMMA PassedFrame ==
  ASSUME Passed, UNCHANGED <<txProd, txClean>>,
         Attached' => /\ Attached /\ UNCHANGED <<txHead, txDesc>>
                      /\ eng'.st = "RESP" /\ eng'.tx => eng.st = "RESP" /\ eng.tx
  PROVE  Passed'
BY DEF Passed

(* Books: the status word of the engine comes before its head.                *)
LEMMA HardwareBooks ==
  ASSUME WriteFails = {FALSE}, IInv, Books, Hardware
  PROVE  Books'
<1> USE DEF IInv, Books
<1>1. UNCHANGED <<pc, rings, txSkb, txProd, txClean, stopped>> /\ (Attached' <=> Attached)
  BY DEF Hardware, driver, Attached
<1>2. Kept'
  BY <1>1, KeptFrame
<1>3. CASE StatusWritten /\ eng.tx /\ UNCHANGED <<txHead, rxHead, tx, rx, reg, payload>>
  <2>1. eng.st = "COMP" /\ txHead' = txHead /\ Full(txHead)' = Full(txHead)
    BY <1>1, <1>3 DEF StatusWritten, Full
  <2>2. \E word \in {"ok", "err"} : txDesc' = [txDesc EXCEPT ![txHead].st = word]
    BY <1>3 DEF StatusWritten
  <2>3. \A i \in TxSlot : (txDesc'[i].st = txDesc[i].st /\ i # txHead) \/ (i = txHead /\ txDesc'[i].st # "no")
    BY <2>2 DEF Types, Descriptor
  <2>4. txHead \in TxSlot
    BY DEF Types
  <2>5. Passed'
    BY <1>1, <2>1, <2>3, <2>4 DEF Passed
  <2>6. Room'
    BY <1>1, <2>1 DEF Room, Full
  <2> QED BY <1>2, <2>5, <2>6
<1>4. CASE HeadMoved /\ eng.tx /\ UNCHANGED <<tx, rx, memory, payload>>
  <2>1. /\ eng.st = "RESP" /\ eng'.st = "IDLE" /\ txHead' = RingNext(txHead, TxN) /\ txDesc' = txDesc
    BY <1>4 DEF HeadMoved, EngineIdle, memory
  <2>2. txHead \in TxSlot /\ txClean \in TxSlot /\ txProd \in TxSlot /\ reg.txTail \in TxSlot /\ txHead' \in TxSlot
    BY <2>1, TxNext DEF Types, Registers
  <2>3. \A i \in TxSlot : /\ TxAhead(txClean, i) \in 0 .. TxN - 1
                          /\ TxAhead(txClean, i) = TxAhead(txClean, txHead) <=> i = txHead
    BY <2>2, TxAheadFacts
  <2>4. Attached => txHead # txProd
    <3>1. TxAhead(txHead, txHead) = 0 /\ TxAhead(txHead, reg.txTail) \in 0 .. TxN - 1
          /\ (TxAhead(txHead, reg.txTail) = 0 <=> txHead = reg.txTail)
      BY <2>2, TxAheadFacts
    <3>2. Attached => TxAhead(txHead, reg.txTail) <= TxAhead(txHead, txProd) /\ txHead # reg.txTail
      BY <1>4, <2>1 DEF TxWindow, TxBusy
    <3> QED BY <3>1, <3>2, Sizes
  <2>5. TxAhead(txClean, txHead') = IF txHead' = txClean THEN 0 ELSE TxAhead(txClean, txHead) + 1
    BY <2>1, <2>2, TxAheadFacts
  <2>6. txHead' = txClean => TxAhead(txClean, txHead) = TxN - 1
    <3>1. TxAhead(RingNext(txHead, TxN), txHead) = TxN - 1
      BY <2>2, TxAheadFacts
    <3> QED BY <2>1, <3>1
  <2>7. Passed'
    <3> SUFFICES ASSUME Attached
                 PROVE  /\ TxAhead(txClean, txHead') <= TxAhead(txClean, txProd)
                        /\ \A i \in TxSlot : TxAhead(txClean, i) < TxAhead(txClean, txHead') => txDesc[i].st # "no"
      BY <1>1, <2>1 DEF Passed
    <3>1. /\ TxAhead(txClean, txHead) <= TxAhead(txClean, txProd)
          /\ \A i \in TxSlot : TxAhead(txClean, i) < TxAhead(txClean, txHead) => txDesc[i].st # "no"
          /\ txDesc[txHead].st # "no"
      BY <1>4, <2>1 DEF Passed
    <3>2. TxAhead(txClean, txHead) < TxAhead(txClean, txProd)
      BY <2>2, <2>3, <2>4, <3>1, Sizes
    <3>3. TxAhead(txClean, txHead') = TxAhead(txClean, txHead) + 1
      BY <2>2, <2>3, <2>5, <2>6, <3>2, Sizes
    <3>4. \A i \in TxSlot : TxAhead(txClean, i) < TxAhead(txClean, txHead') => txDesc[i].st # "no"
      BY <2>2, <2>3, <3>1, <3>3, Sizes
    <3> QED BY <2>2, <2>3, <3>2, <3>3, <3>4, Sizes
  <2>8. Room'
    <3>1. Attached => RingNext(txProd, TxN) # txHead'
      <4>1. TxAhead(RingNext(txHead, TxN), txHead) = TxN - 1
        BY <2>2, TxAheadFacts
      <4>2. TxAhead(RingNext(txProd, TxN), txProd) = TxN - 1
        BY <2>2, TxAheadFacts
      <4>3. TxAhead(txHead', txHead) = TxAhead(txHead', txProd) <=> txHead = txProd
        BY <2>2, TxAheadFacts
      <4> QED BY <2>1, <2>4, <4>1, <4>2, <4>3
    <3>2. ~(pc.op = "open" /\ pc.at \in Opening)
      BY <2>4 DEF Room, Attached
    <3> QED BY <1>1, <3>1, <3>2 DEF Room, Full, Attached
  <2> QED BY <1>2, <2>7, <2>8
<1>5. CASE UNCHANGED <<txHead, txDesc>> /\ (eng'.st = "RESP" /\ eng'.tx => eng.st = "RESP" /\ eng.tx)
  <2>1. Passed'
    BY <1>1, <1>5, PassedFrame
  <2>2. Room'
    BY <1>1, <1>5 DEF Room, Full
  <2> QED BY <1>2, <2>1, <2>2
<1>6. CASE EngineStep
  <2>1. CASE StatusWritten /\ ~eng.tx /\ UNCHANGED <<txHead, rxHead, tx, rx, reg, payload>>
    BY <1>5, <2>1 DEF StatusWritten, memory, Types, RingEngine
  <2>2. CASE HeadMoved /\ ~eng.tx /\ UNCHANGED <<tx, rx, memory, payload>>
    BY <1>5, <2>2 DEF HeadMoved, EngineIdle, memory
  <2>3. CASE \/ (CompleteTx \/ CompleteRx \/ StartFetch \/ StayIdle \/ Abandoned)
                /\ UNCHANGED <<txHead, rxHead, reg, memory, payload>>
             \/ (Launched \/ Armed) /\ UNCHANGED <<txHead, rxHead, reg, memory>>
    <3>1. eng'.st # "RESP"
      BY <2>3 DEF CompleteTx, CompleteRx, StartFetch, StayIdle, Abandoned, Launched, Armed,
                IdleTo, EngineIdle
    <3> QED BY <1>5, <2>3, <3>1 DEF memory
  <2> QED BY <1>3, <1>4, <1>6, <2>1, <2>2, <2>3 DEF EngineStep
<1>7. CASE PayloadStep
  BY <1>5, <1>7 DEF PayloadStep
<1> QED BY <1>6, <1>7 DEF Hardware

(* Books: reclaim gives back all that the head has passed, and no more.       *)
LEMMA ReclaimBooks ==
  ASSUME Types, Kept, Passed, Attached, rings, Reclaim, UNCHANGED <<rings, txProd, txHead, eng>>,
         ~(pc'.op = "open" /\ pc'.at = "program")
  PROVE  Kept' /\ Passed' /\ txClean' = txHead
<1>1. txHead \in TxSlot /\ txClean \in TxSlot /\ txProd \in TxSlot /\ TxN \in Nat \ {0, 1}
  BY Sizes DEF Types
<1>2. Reclaimed = Between(txClean, txHead) /\ txClean' = txHead
  BY <1>1, ReclaimedCount DEF Passed, Reclaim
<1>3. \A i \in TxSlot : /\ TxAhead(txClean, i) \in 0 .. TxN - 1
                        /\ i \in Reclaimed <=> TxAhead(txClean, i) < TxAhead(txClean, txHead)
  BY <1>1, <1>2, TxAheadFacts, BetweenIsLinear
<1>4. \A i \in TxSlot : txSkb'[i] = IF i \in Reclaimed THEN 0 ELSE txSkb[i]
  BY DEF Reclaim
<1>5. TxAhead(txClean, txHead) <= TxAhead(txClean, txProd)
  BY DEF Passed
<1>6. \A i \in TxSlot : TxAhead(txClean, i) >= TxAhead(txClean, txHead) =>
                          TxAhead(txHead, i) = TxAhead(txClean, i) - TxAhead(txClean, txHead)
  BY <1>1 DEF TxAhead, Ahead, TxSlot
<1>7. Kept'
  <2> SUFFICES ASSUME NEW i \in TxSlot, TxAhead(txHead, i) >= TxAhead(txHead, txProd), i \notin Reclaimed
               PROVE  txSkb[i] = 0
    BY <1>2, <1>4 DEF Kept
  <2>1. TxAhead(txClean, i) >= TxAhead(txClean, txProd)
    BY <1>1, <1>3, <1>5, <1>6
  <2> QED BY <2>1 DEF Kept
<1>8. Passed'
  <2>1. TxAhead(txHead, txHead) = 0 /\ \A i \in TxSlot : TxAhead(txHead, i) \in 0 .. TxN - 1
    BY <1>1, TxAheadFacts
  <2>2. txHead \notin Reclaimed
    BY <1>1, <1>3
  <2>3. txDesc'[txHead] = txDesc[txHead]
    BY <1>1, <2>2 DEF Reclaim
  <2> QED BY <1>1, <1>2, <2>1, <2>3 DEF Passed
<1> QED BY <1>2, <1>7, <1>8

(* Books: the handler and the poll, which wakes the queue only when there is  *)
(* room.                                                                      *)
LEMMA SoftwareBooks ==
  ASSUME IInv, Books, Irq \/ Napi
  PROVE  Books'
<1> USE DEF IInv, Books
<1>1. UNCHANGED <<pc, rings, txProd, txHead, eng>> /\ (Attached' <=> Attached)
  BY IrqFrame, NapiFrame DEF driver, engine, Attached
<1>2. CASE UNCHANGED <<txSkb, txClean, txDesc>> /\ (pc.op = "up" /\ ~stopped' => ~stopped \/ ~Full(txHead))
  <2>1. Kept'
    BY <1>1, <1>2, KeptFrame
  <2>2. Passed'
    BY <1>1, <1>2, PassedFrame
  <2>3. Room'
    BY <1>1, <1>2 DEF Room, Full
  <2> QED BY <2>1, <2>2, <2>3
<1>3. CASE Irq
  BY <1>2, <1>3 DEF Irq, driver, memory
<1>4. CASE Napi
  <2>1. CASE NapiReclaim
    <3>1. Reclaim /\ stopped' = stopped /\ napi.at = "tx"
      BY <2>1 DEF NapiReclaim
    <3>2. Served /\ Attached /\ rings /\ pc.op # "xmit"
      BY <3>1 DEF Polls, Places, Served, Attached, Opening
    <3>3. Kept' /\ Passed'
      BY <1>1, <3>1, <3>2, ReclaimBooks DEF Served
    <3>4. Room'
      BY <1>1, <3>1, <3>2 DEF Room, Full
    <3> QED BY <3>3, <3>4
  <2>2. CASE NapiWake
    BY <1>2, <2>2 DEF NapiWake, Wake, memory, Types
  <2>3. CASE ~NapiReclaim /\ ~NapiWake
    <3>1. UNCHANGED <<txSkb, txClean, txDesc, stopped>>
      BY <1>4, <2>3 DEF Napi, NapiStart, RxPosted, RxNotPosted, RxDone, NapiTail, NapiBell,
                NapiDone, NapiOn,
                        NapiCheck, NapiAgain, driver, memory
    <3> QED BY <1>2, <3>1
  <2> QED BY <2>1, <2>2, <2>3
<1> QED BY <1>3, <1>4

(* Books: the calls.                                                          *)
LEMMA CallBooks ==
  ASSUME IInv, Books, Call
  PROVE  Books'
<1> USE DEF IInv, Books
<1>1. CASE XmitStart /\ UNCHANGED <<eng, txHead, rxHead, rx, payload, delivered>>
  <2>1. /\ pc.op = "up" /\ ~stopped /\ (pc' = pc \/ pc' = [op |-> "xmit", at |-> "reclaim"])
        /\ UNCHANGED <<rings, txSkb, txProd, txClean, stopped, txHead, txDesc, eng>>
    BY <1>1 DEF XmitStart, At, memory
  <2>2. pc'.op \in {"up", "xmit"} /\ (pc'.op = "xmit" => pc'.at = "reclaim") /\ Attached
    BY <2>1 DEF Attached
  <2>3. Kept'
    BY <2>1, <2>2, KeptFrame
  <2>4. Passed'
    BY <2>1, <2>2, PassedFrame
  <2>5. Room'
    BY <2>1, <2>2 DEF Room, Full
  <2> QED BY <2>3, <2>4, <2>5
<1>2. CASE OpenStart \/ StopStart
  <2>1. /\ UNCHANGED <<rings, txSkb, txProd, txClean, txHead, txDesc, eng>>
        /\ pc'.op \in {"open", "stop"} /\ pc'.at = "irq" /\ (pc'.op = "stop" => pc.op = "up")
    BY <1>2 DEF OpenStart, StopStart, At, rest, memory, engine
  <2>2. Attached' => Attached
    BY <2>1 DEF Attached, Opening
  <2>3. Kept'
    BY <2>1, KeptFrame
  <2>4. Passed'
    BY <2>1, <2>2, PassedFrame
  <2>5. Room'
    BY <2>1 DEF Room, Opening
  <2> QED BY <2>3, <2>4, <2>5
<1>3. CASE Probe
  <2>1. UNCHANGED <<rings, txSkb, txProd, txClean>> /\ pc'.op = "down"
    BY <1>3 DEF Probe, At, rest
  <2> QED BY <2>1 DEF Kept, Passed, Room, Attached
<1>4. CASE Remove
  <2>1. rings' = FALSE /\ (\A i \in TxSlot : txSkb'[i] = 0) /\ pc'.op = "unbound"
    BY <1>4 DEF Remove, At
  <2> QED BY <2>1 DEF Kept, Passed, Room, Attached
<1> QED BY <1>1, <1>2, <1>3, <1>4 DEF Call

(* Books: transmit takes the free slot it has looked for.                     *)
LEMMA XmitBooks ==
  ASSUME IInv, Books, Xmit
  PROVE  Books'
<1> USE DEF IInv, Books
<1>1. /\ UNCHANGED <<eng, txHead>> /\ pc.op = "xmit" /\ pc'.op \in {"up", "xmit"} /\ Attached /\ rings
      /\ UNCHANGED rings
  BY DEF Xmit, XmitReclaim, XmitSlot, XmitTail, XmitBell, XmitEnd, Goto, At, Attached, Places
<1>2. CASE XmitReclaim
  <2>1. Reclaim /\ pc.at = "reclaim" /\ pc'.at = "slot" /\ UNCHANGED <<txProd, stopped>>
        /\ pc'.op = "xmit"
    BY <1>2 DEF XmitReclaim, Goto, At, Types, Place
  <2>2. Kept' /\ Passed' /\ txClean' = txHead
    BY <1>1, <2>1, ReclaimBooks
  <2>3. Room'
    BY <1>1, <2>1, <2>2 DEF Room, Full
  <2> QED BY <2>2, <2>3
<1>3. CASE XmitSlot
  <2>1. ~Full(txHead) /\ RingNext(txProd, TxN) # txClean /\ pc.at = "slot"
    BY <1>1, <1>3 DEF Room, XmitSlot, At
  <2>2. /\ pc'.op = "xmit" /\ pc'.at = "tail" /\ txProd' = RingNext(txProd, TxN) /\ txClean' = txClean
        /\ txSkb' = [txSkb EXCEPT ![txProd] = taken + 1]
        /\ txDesc' = [txDesc EXCEPT ![txProd] = Posted(taken + 1)]
    BY <1>1, <1>3, <2>1 DEF XmitSlot, Goto, Types, Place
  <2>3. txHead \in TxSlot /\ txClean \in TxSlot /\ txProd \in TxSlot /\ reg.txTail \in TxSlot
    BY DEF Types, Registers
  <2>4. \A i \in TxSlot : /\ TxAhead(txClean, i) \in 0 .. TxN - 1
                          /\ TxAhead(txClean, i) = TxAhead(txClean, txProd) <=> i = txProd
    BY <2>3, TxAheadFacts
  <2>5. TxAhead(txClean, txProd') = TxAhead(txClean, txProd) + 1
    BY <2>1, <2>2, <2>3, TxAheadFacts
  <2>6. \A i \in TxSlot : i # txProd => txSkb'[i] = txSkb[i] /\ txDesc'[i] = txDesc[i]
    BY <2>2, <2>3 DEF Types
  <2>7. Kept'
    BY <1>1, <2>2, <2>3, <2>4, <2>5, <2>6, Sizes DEF Kept
  <2>8. Passed'
    <3>1. TxAhead(txClean, txHead) <= TxAhead(txClean, txProd)
      BY <1>1 DEF Passed
    <3>2. eng.st = "RESP" /\ eng.tx => txHead # txProd
      <4>1. /\ TxAhead(txHead, txHead) = 0 /\ TxAhead(txHead, reg.txTail) \in 0 .. TxN - 1
            /\ (TxAhead(txHead, reg.txTail) = 0 <=> txHead = reg.txTail)
        BY <2>3, TxAheadFacts
      <4>2. /\ TxAhead(txHead, reg.txTail) <= TxAhead(txHead, txProd)
            /\ eng.st = "RESP" /\ eng.tx => txHead # reg.txTail
        BY <1>1 DEF TxWindow, TxBusy
      <4> QED BY <4>1, <4>2, Sizes
    <3>3. TxAhead(txClean, txHead) <= TxAhead(txClean, txProd')
      BY <2>3, <2>4, <2>5, <3>1, Sizes
    <3>4. \A i \in TxSlot : TxAhead(txClean, i) < TxAhead(txClean, txHead) => txDesc'[i].st # "no"
      BY <1>1, <2>3, <2>4, <2>6, <3>1, Sizes DEF Passed
    <3>5. eng.st = "RESP" /\ eng.tx => txDesc'[txHead].st # "no"
      BY <1>1, <2>3, <2>6, <3>2 DEF Passed
    <3> QED BY <1>1, <2>2, <3>3, <3>4, <3>5 DEF Passed
  <2>9. Room'
    BY <2>2 DEF Room
  <2> QED BY <2>7, <2>8, <2>9
<1>4. CASE XmitTail \/ XmitBell \/ XmitEnd
  <2>1. /\ UNCHANGED <<txSkb, txProd, txClean, txDesc>>
        /\ pc'.op = "xmit" => pc'.at \in {"bell", "full"}
        /\ pc'.op = "up" => stopped' = Full(txHead)
    BY <1>4 DEF XmitTail, XmitBell, XmitEnd, Goto, At, Types, Place, memory
  <2>2. Kept'
    BY <1>1, <2>1, KeptFrame
  <2>3. Passed'
    BY <1>1, <2>1, PassedFrame
  <2>4. Room'
    BY <1>1, <2>1 DEF Room, Full
  <2> QED BY <2>2, <2>3, <2>4
<1> QED BY <1>2, <1>3, <1>4 DEF Xmit

(* Books: open and stop begin and end with empty books.                       *)
LEMMA RunningBooks ==
  ASSUME IInv, Books, Running
  PROVE  Books'
<1> USE DEF IInv, Books
<1>1. CASE /\ UNCHANGED <<rings, txSkb, txProd, txClean>> /\ pc'.op \in {"open", "stop", "down"}
           /\ ~(pc'.op = "open" /\ pc'.at \in {"program"} \cup Opening)
           /\ Attached' => Attached /\ UNCHANGED <<txHead, txDesc, eng>>
  <2>1. Kept'
    BY <1>1, KeptFrame
  <2>2. Passed'
    BY <1>1, PassedFrame
  <2>3. Room'
    BY <1>1 DEF Room
  <2> QED BY <2>1, <2>2, <2>3
<1>2. CASE HwStopStep
  <2>1. /\ UNCHANGED <<rings, txSkb, txProd, txClean, txHead, txDesc, eng>>
        /\ pc'.op \in {"open", "stop"} /\ pc'.op = pc.op
        /\ pc.at \in {"irq", "rx", "poll", "ctrl"}
        /\ pc'.at \in {"rx", "poll", "ctrl", "timeout", "reset", "napi"}
    BY <1>2, HwStopEffects DEF rest, memory, engine
  <2>2. Attached' => Attached
    BY <2>1 DEF Attached, Opening
  <2> QED BY <1>1, <2>1, <2>2 DEF Opening
<1>3. CASE ResetStep
  <2>1. /\ UNCHANGED <<rings, txSkb, txProd, txClean>>
        /\ pc.op \in {"open", "stop"} /\ pc'.op = pc.op
        /\ pc'.at = IF pc.op = "open" THEN "alloc" ELSE "free"
    BY <1>3 DEF ResetStep, Goto, rest, Types, Place
  <2>2. ~Attached'
    BY <2>1 DEF Attached, Opening
  <2> QED BY <1>1, <2>1, <2>2 DEF Opening
<1>4. CASE AllocFails
  <2>1. /\ UNCHANGED <<rings, txSkb, txProd, txClean>> /\ pc'.op = "open" /\ pc'.at = "off"
    BY <1>4 DEF AllocFails, Goto, At, rest
  <2>2. ~Attached'
    BY <2>1 DEF Attached, Opening
  <2> QED BY <1>1, <2>1, <2>2 DEF Opening
<1>5. CASE NapiDisable
  <2>1. /\ UNCHANGED <<rings, txSkb, txProd, txClean, txHead, txDesc, eng>> /\ (Attached' => Attached)
        /\ pc'.op \in {pc.op, "down"} /\ pc'.at \in {"wait", "over", "reset", "no"}
    BY <1>5, NapiDisableEffects DEF memory, engine
  <2>2. pc.op \in {"open", "stop"}
    BY <1>5 DEF NapiDisable, Places
  <2> QED BY <1>1, <2>1, <2>2 DEF Opening
<1>6. CASE AllocRings
  <2>1. /\ pc.op = "open" /\ pc.at = "alloc" /\ pc'.op = "open" /\ pc'.at = "program"
        /\ UNCHANGED txSkb /\ txClean' = 0 /\ rings'
    BY <1>6 DEF AllocRings, Goto, At
  <2>2. \A i \in TxSlot : txSkb[i] = 0
    BY <2>1 DEF Kept, Places, Early, Opening
  <2>3. ~Attached'
    BY <2>1 DEF Attached, Opening
  <2> QED BY <2>1, <2>2, <2>3 DEF Kept, Passed, Room, Opening
<1>7. CASE HwProgramStep
  <2>1. /\ UNCHANGED <<rings, txSkb, txProd, txClean, txHead, txDesc, eng, stopped>>
        /\ pc.op = "open" /\ pc'.op = "open"
        /\ pc.at \in {"program", "enable", "irqon", "bell"} /\ pc'.at \in Opening
    BY <1>7, HwProgramEffects DEF rest, memory, Opening
  <2>2. Kept'
    BY <2>1, KeptFrame DEF Opening
  <2>3. CASE pc.at = "program"
    <3>1. txClean = 0 /\ txHead = 0 /\ txProd = 0
      BY <2>1, <2>3 DEF Kept, Prepared
    <3>2. ~EngBusy
      BY <2>1, <2>3 DEF Engine, Attached, Opening
    <3>3. TxAhead(0, 0) = 0 /\ \A i \in TxSlot : TxAhead(0, i) \in 0 .. TxN - 1
      BY <3>1, TxAheadFacts DEF Types
    <3>4. Passed'
      BY <2>1, <3>1, <3>2, <3>3, Sizes DEF Passed, EngBusy
    <3>5. Room'
      BY <2>1, <3>1 DEF Room
    <3> QED BY <2>2, <3>4, <3>5
  <2>4. CASE pc.at # "program"
    <3>1. Attached
      BY <2>1, <2>4 DEF Attached, Opening
    <3>2. Passed'
      BY <2>1, <3>1, PassedFrame
    <3>3. Room'
      BY <2>1, <2>4 DEF Room, Opening
    <3> QED BY <2>2, <3>2, <3>3
  <2> QED BY <2>3, <2>4
<1>8. CASE OpenEnd
  <2>1. /\ UNCHANGED <<rings, txSkb, txProd, txClean, txHead, txDesc, eng>>
        /\ pc.op = "open" /\ pc.at = "start" /\ pc'.op = "up"
    BY <1>8 DEF OpenEnd, At, rest, memory, engine
  <2>2. Attached
    BY <2>1 DEF Attached, Opening
  <2>3. Kept'
    BY <2>1, KeptFrame
  <2>4. Passed'
    BY <2>1, <2>2, PassedFrame
  <2>5. txProd = txHead
    BY <2>1 DEF Room, Opening
  <2>6. RingNext(txProd, TxN) # txProd
    <3>1. txProd \in TxSlot
      BY DEF Types
    <3>2. RingNext(txProd, TxN) = IF txProd = TxN - 1 THEN 0 ELSE txProd + 1
      BY <3>1, TxNext
    <3> QED BY <3>1, <3>2, Sizes DEF TxSlot
  <2>7. Room'
    BY <2>1, <2>5, <2>6 DEF Room, Full
  <2> QED BY <2>3, <2>4, <2>7
<1>9. CASE FreeRings
  <2>1. rings' = FALSE /\ (\A i \in TxSlot : txSkb'[i] = 0) /\ pc'.op = "down"
    BY <1>9 DEF FreeRings, At
  <2> QED BY <2>1 DEF Kept, Passed, Room, Attached
<1> QED BY <1>2, <1>3, <1>4, <1>5, <1>6, <1>7, <1>8, <1>9, XmitBooks DEF Running

(* SlotFree: with no failed write of a completion, the slot that the head of  *)
(* the hardware says is free holds no frame that is still owed to the stack.  *)
THEOREM SlotFreeAlways ==
  ASSUME WriteFails = {FALSE}
  PROVE  Spec => []SlotFree
<1>1. Init => IInv /\ Books
  <2> SUFFICES ASSUME Init PROVE Books
    BY InitInvariant
  <2>1. pc.op = "unbound" /\ ~rings /\ \A i \in TxSlot : txSkb[i] = 0
    BY DEF Init, At
  <2> QED BY <2>1 DEF Books, Kept, Passed, Room, Attached
<1>2. ASSUME IInv, Books, [Next]_vars
      PROVE  IInv' /\ Books'
  <2>1. IInv'
    BY <1>2, NextInvariant, StutterInvariant
  <2>2. ASSUME Next PROVE Books'
    BY <1>2, <2>2, HardwareBooks, SoftwareBooks, CallBooks, RunningBooks DEF Next, Process
  <2>3. ASSUME UNCHANGED vars PROVE Books'
    <3>1. UNCHANGED <<pc, rings, txSkb, txProd, txClean, txHead, txDesc, eng, stopped>>
      BY <2>3 DEF vars, driver, memory, engine
    <3> QED BY <1>2, <3>1 DEF Books, Kept, Passed, Room, Attached, Full
  <2> QED BY <1>2, <2>1, <2>2, <2>3
<1>3. ASSUME IInv, Books
      PROVE  SlotFree
  <2> SUFFICES ASSUME pc = At("xmit", "slot") PROVE txSkb[txProd] = 0
    BY DEF SlotFree
  <2>1. rings /\ txProd \in TxSlot /\ txClean \in TxSlot
    BY <1>3 DEF IInv, Types, Places, At
  <2>2. TxAhead(txClean, txProd) >= TxAhead(txClean, txProd)
    BY <2>1, TxAheadFacts, Sizes
  <2> QED BY <1>3, <2>1, <2>2 DEF Books, Kept
<1> QED BY <1>1, <1>2, <1>3, PTL DEF Spec

=============================================================================
