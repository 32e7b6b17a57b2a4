------------------------------- MODULE EthRing ------------------------------
(* The Linux Ethernet driver (sw/linux/eriscv_ap_eth/eriscv_ap_eth.c), its   *)
(* two descriptor rings in memory, and the ring engine behind its registers *)
(* (rtl/soc/ethernet).  One hart runs the driver: process context (open,     *)
(* stop, transmit) is preempted by NAPI and both by the interrupt handler,  *)
(* while the engine and the two payload paths run beside them.  Every       *)
(* register access is a step of its own.                                    *)
EXTENDS Naturals, FiniteSets

CONSTANTS
  TxN, RxN,    \* descriptors per ring (64 and 64)
  Budget,      \* NAPI budget
  Loads,       \* bounds: frames taken from the stack, frames that arrive,
               \* opens of the device, and turns of a session that find no
               \* buffer to post (0: no allocation fails).  The first such turn
               \* switches DMA off; two more polls may follow, for a cause that
               \* was up and for a completion under way.
  WriteFails   \* may the write of a completion answer with an error?

ASSUME RingAssumption == {TxN, RxN} \subseteq Nat \ {0, 1} /\ Budget \in Nat \ {0}
ASSUME LoadAssumption == /\ Loads \subseteq [tx : Nat, rx : Nat, opens : Nat, fails : 0 .. RxN - 2]
                         /\ WriteFails \subseteq BOOLEAN /\ FALSE \in WriteFails

TxSlot == 0 .. TxN - 1
RxSlot == 0 .. RxN - 1
RingNext(i, n) == (i + 1) % n

VARIABLES
  pc,        \* process context: the operation and where it stands
  rings,     \* tx_ring and rx_ring are allocated
  txSkb,     \* tx_skb: the frame a slot holds, 0 when free
  txProd, txClean, rxProd, rxCons,
  stopped,   \* netif_queue_stopped
  napi,      \* NAPI: enabled, scheduled, where the poll stands, its work,
             \* tail_advanced; fails counts this session's
  irqAt, cause,       \* where the interrupt handler stands, what it has read
  txDesc,    \* TX descriptors: OWN, status word and the frame in the buffer
  rxDesc,    \* RX descriptors, likewise
  reg,       \* the registers software writes, and IRQ_STATUS
  eng,       \* ring engine: state_q, its direction, completion_error_q
  txHead, rxHead,
  tx, rx,    \* per direction: active_q, completion_pending_q, wait_owner_q
  txDma, rxDma,       \* the payload paths
  sent, arrived,       \* history: the last frame launched on
                              \* the wire, and captured from it
  taken, delivered,   \* and the last taken from the stack, given to it
  opens, load

driver == <<pc, rings, txSkb, txProd, txClean, rxProd, rxCons, stopped, taken, opens, load>>
memory == <<txDesc, rxDesc>>
engine == <<eng, txHead, rxHead, tx, rx>>
payload == <<txDma, rxDma, sent, arrived>>
vars == <<driver, napi, irqAt, cause, memory, reg, engine, payload, delivered>>

NoDesc == [own |-> FALSE, st |-> "no", frame |-> 0]
Posted(f) == [own |-> TRUE, st |-> "no", frame |-> f]   \* ap_eth_desc_set
MayFail == load.fails > 0
Quiet == [act |-> FALSE, pend |-> "no", wait |-> FALSE]
EngineIdle == [st |-> "IDLE", tx |-> TRUE, err |-> FALSE]
At(op, step) == [op |-> op, at |-> step]
NapiOff == [on |-> FALSE, sched |-> FALSE, at |-> "no", work |-> 0, tail |-> FALSE,
            fails |-> 0]

Init ==
  /\ pc = At("unbound", "no") /\ rings = FALSE /\ stopped = TRUE
  /\ opens = 0 /\ taken = 0 /\ load \in Loads
  /\ txSkb = [i \in TxSlot |-> 0]
  /\ txProd = 0 /\ txClean = 0 /\ rxProd = 0 /\ rxCons = 0
  /\ napi = NapiOff /\ irqAt = "no" /\ cause = {}
  /\ txDesc = [i \in TxSlot |-> NoDesc] /\ rxDesc = [i \in RxSlot |-> NoDesc]
  \* base: what the base registers point to; 0 in the count is no valid ring.
  /\ reg = [txEn |-> FALSE, rxEn |-> FALSE, txTail |-> 0, rxTail |-> 0,
            base |-> "none", irqEn |-> FALSE, irq |-> {}]
  /\ eng = EngineIdle /\ txHead = 0 /\ rxHead = 0 /\ tx = Quiet /\ rx = Quiet
  /\ txDma = "idle" /\ rxDma = "idle" /\ sent = 0 /\ arrived = 0 /\ delivered = 0

-----------------------------------------------------------------------------
(* The ring engine.  With RX disabled every cycle in ST_IDLE goes back to   *)
(* ST_IDLE, whatever else that cycle decides.                               *)
IdleToFree(e) == e   \* mutant: disabling RX leaves TX alone
IdleTo(e) == IF reg.rxEn THEN e ELSE EngineIdle
RxDropped == IF reg.rxEn THEN rx ELSE Quiet

CompleteTx ==
  /\ eng.st = "IDLE" /\ tx.pend # "no"
  /\ tx' = [tx EXCEPT !.act = FALSE, !.pend = "no"] /\ rx' = RxDropped
  /\ eng' = IdleTo([st |-> "COMP", tx |-> TRUE, err |-> tx.pend = "err"])
CompleteRx ==
  /\ eng.st = "IDLE" /\ tx.pend = "no" /\ rx.pend # "no"
  /\ rx' = IF reg.rxEn THEN [rx EXCEPT !.act = FALSE, !.pend = "no"] ELSE Quiet
  /\ eng' = IdleTo([st |-> "COMP", tx |-> FALSE, err |-> rx.pend = "err"])
  /\ UNCHANGED tx
TxWanted == reg.txEn /\ ~tx.act /\ ~tx.wait /\ reg.base # "none" /\ txHead # reg.txTail
RxWanted == reg.rxEn /\ ~rx.act /\ ~rx.wait /\ reg.base # "none" /\ rxHead # reg.rxTail
StartFetch ==
  /\ eng.st = "IDLE" /\ tx.pend = "no" /\ rx.pend = "no" /\ (TxWanted \/ RxWanted)
  /\ eng' = IdleTo([st |-> "FETCH", tx |-> TxWanted, err |-> FALSE])
  /\ rx' = RxDropped /\ UNCHANGED tx
StayIdle ==
  /\ eng.st = "IDLE" /\ tx.pend = "no" /\ rx.pend = "no" /\ ~TxWanted /\ ~RxWanted
  /\ rx' = RxDropped /\ UNCHANGED <<eng, tx>>

\* Fetch, check and start.  A descriptor without OWN parks the direction until
\* its doorbell; a started one waits until its payload path is free.
Owned == IF eng.tx THEN txDesc[txHead].own ELSE rxDesc[rxHead].own
Abandoned ==
  /\ eng.st = "FETCH" /\ ~eng.tx /\ ~reg.rxEn
  /\ eng' = EngineIdle /\ rx' = Quiet /\ UNCHANGED tx
Launched ==
  /\ eng.st = "FETCH" /\ eng.tx /\ eng' = EngineIdle
  /\ IF Owned THEN /\ txDma = "idle" /\ txDma' = "reading" /\ sent' = txDesc[txHead].frame
                   /\ tx' = [tx EXCEPT !.act = TRUE]
     ELSE tx' = [tx EXCEPT !.wait = TRUE] /\ UNCHANGED <<txDma, sent>>
  /\ UNCHANGED <<rx, rxDma, arrived>>
Armed ==
  /\ eng.st = "FETCH" /\ ~eng.tx /\ reg.rxEn /\ eng' = EngineIdle
  /\ IF Owned THEN rxDma = "idle" /\ rxDma' = "armed" /\ rx' = [rx EXCEPT !.act = TRUE]
     ELSE rx' = [rx EXCEPT !.wait = TRUE] /\ UNCHANGED rxDma
  /\ UNCHANGED <<tx, txDma, sent, arrived>>

\* The completion: the status word reaches memory, then the head moves and
\* IRQ_STATUS is set, the latter also when the write has failed.
StatusWritten ==
  /\ eng.st = "COMP" /\ eng' = [eng EXCEPT !.st = "RESP"]
  /\ \E fails \in WriteFails :
       LET word == IF eng.err THEN "err" ELSE "ok"
       IN  IF fails THEN UNCHANGED memory
           ELSE IF eng.tx THEN txDesc' = [txDesc EXCEPT ![txHead].st = word]
                               /\ UNCHANGED rxDesc
           ELSE rxDesc' = [rxDesc EXCEPT ![rxHead].st = word] /\ UNCHANGED txDesc
HeadMoved ==
  /\ eng.st = "RESP" /\ eng' = EngineIdle
  /\ IF eng.tx THEN txHead' = RingNext(txHead, TxN) /\ UNCHANGED rxHead
     ELSE rxHead' = RingNext(rxHead, RxN) /\ UNCHANGED txHead
  /\ reg' = [reg EXCEPT !.irq = @ \cup {IF eng.tx THEN "TX" ELSE "RX"}]

EngineStep ==
  \/ /\ CompleteTx \/ CompleteRx \/ StartFetch \/ StayIdle \/ Abandoned
     /\ UNCHANGED <<txHead, rxHead, reg, memory, payload>>
  \/ (Launched \/ Armed) /\ UNCHANGED <<txHead, rxHead, reg, memory>>
  \/ StatusWritten /\ UNCHANGED <<txHead, rxHead, tx, rx, reg, payload>>
  \/ HeadMoved /\ UNCHANGED <<tx, rx, memory, payload>>

\* The payload paths.  A frame is captured, or dropped with an error, only while
\* a buffer is armed; a write that was issued goes on when RX is disabled.  The
\* errors of the two transfers are left out: for a received frame they are what
\* a dropped one is, for a sent one the driver only counts them.
TxPayload ==
  /\ txDma \in {"reading", "dangling"} /\ txDma' = "idle"
  /\ tx' = IF tx.act THEN [tx EXCEPT !.pend = "ok"] ELSE tx
  /\ UNCHANGED <<rx, rxDma, sent, arrived, rxDesc>>
FrameArrives ==
  /\ rxDma = "armed" /\ reg.rxEn /\ arrived < load.rx
  /\ arrived' = arrived + 1
  /\ \/ rxDma' = "issued" /\ UNCHANGED rx
     \/ /\ rxDma' = "idle"
        /\ rx' = IF rx.act THEN [rx EXCEPT !.pend = "err"] ELSE rx
  /\ UNCHANGED <<tx, txDma, sent, rxDesc>>
RxPayload ==
  /\ rxDma \in {"issued", "dangling"} /\ rxDma' = "idle"
  /\ IF rx.act
     THEN /\ rx' = [rx EXCEPT !.pend = "ok"]
          /\ rxDesc' = [rxDesc EXCEPT ![rxHead].frame = arrived]
     ELSE UNCHANGED <<rx, rxDesc>>
  /\ UNCHANGED <<tx, txDma, sent, arrived>>
Disarmed ==
  /\ rxDma = "armed" /\ ~reg.rxEn /\ rxDma' = "idle"
  /\ UNCHANGED <<tx, rx, txDma, sent, arrived, rxDesc>>
PayloadStep == /\ TxPayload \/ FrameArrives \/ RxPayload \/ Disarmed
               /\ UNCHANGED <<eng, txHead, rxHead, reg, txDesc>>

Hardware == (EngineStep \/ PayloadStep)
            /\ UNCHANGED <<driver, napi, irqAt, cause, delivered>>

-----------------------------------------------------------------------------
(* ap_eth_tx_reclaim: give back what is DONE up to the head just read; a     *)
(* stopped queue is woken when a second reading of the head finds room.     *)
Full(head) == RingNext(txProd, TxN) = head   \* ap_eth_tx_ring_full
Between(from, to) == {i \in TxSlot : (i + TxN - from) % TxN < (to + TxN - from) % TxN}
ReclaimedToTail == Between(txClean, reg.txTail)   \* mutant: what was handed over is done
Reclaimed == {i \in Between(txClean, txHead) :
                \A j \in Between(txClean, i) \cup {i} : txDesc[j].st # "no"}
Reclaim ==
  /\ txSkb' = [i \in TxSlot |-> IF i \in Reclaimed THEN 0 ELSE txSkb[i]]
  /\ txDesc' = [i \in TxSlot |-> IF i \in Reclaimed THEN [txDesc[i] EXCEPT !.st = "no"]
                                                  ELSE txDesc[i]]
  /\ txClean' = (txClean + Cardinality(Reclaimed)) % TxN
Wake == stopped' = (stopped /\ Full(txHead))

(* ap_eth_irq, above everything but a section under tx_lock.  The hart takes *)
(* a raised interrupt before its next register access; a load may be out.   *)
Masked == napi.at \in {"tx", "wake"} \/ pc.op = "xmit"
Line == reg.irqEn /\ reg.irq # {} /\ ~Masked /\ pc.op # "unbound"
Schedule == napi' = [napi EXCEPT !.sched = @ \/ napi.on]   \* napi_schedule
IrqStep ==
  \/ /\ irqAt = "no" /\ Line /\ irqAt' = "clear" /\ cause' = reg.irq /\ UNCHANGED <<reg, napi>>
  \/ /\ irqAt = "clear" /\ irqAt' = "disable"
     /\ reg' = [reg EXCEPT !.irq = @ \ cause] /\ UNCHANGED <<cause, napi>>
  \/ /\ irqAt = "disable" /\ irqAt' = "no" /\ cause' = {}
     /\ reg' = [reg EXCEPT !.irqEn = FALSE] /\ Schedule
Irq == IrqStep /\ UNCHANGED <<driver, memory, engine, payload, delivered>>

-----------------------------------------------------------------------------
(* NAPI: ap_eth_napi_poll.                                                  *)
NapiTo(at) == napi' = [napi EXCEPT !.at = at]
NapiStart ==
  /\ napi.at = "no" /\ napi.sched /\ pc.op # "xmit"
  /\ napi' = [napi EXCEPT !.at = "tx", !.work = 0, !.tail = FALSE]
  /\ UNCHANGED <<driver, memory, reg, rx, delivered>>
NapiReclaimOnly ==   \* mutant: gives frames back and wakes nobody
  /\ napi.at = "tx" /\ Reclaim /\ NapiTo("rx")
  /\ UNCHANGED <<pc, rings, txProd, rxProd, rxCons, stopped, taken, opens, load, rxDesc, reg, rx>>
  /\ UNCHANGED delivered
NapiReclaim ==
  /\ napi.at = "tx" /\ Reclaim /\ NapiTo(IF stopped THEN "wake" ELSE "rx")
  /\ UNCHANGED <<pc, rings, txProd, rxProd, rxCons, stopped, taken, opens, load, rxDesc, reg, rx, delivered>>
NapiWake ==
  /\ napi.at = "wake" /\ Wake /\ NapiTo("rx")
  /\ UNCHANGED <<pc, rings, txSkb, txProd, txClean, rxProd, rxCons, taken, opens, load,
                 memory, reg, rx, delivered>>

\* One turn of ap_eth_rx_poll.  A good frame is delivered when a new buffer is
\* there to replace its own, else its own buffer is posted again.  When no
\* buffer can be posted the frame is passed over and DMA switched off.
RxTurn == napi.at = "rx" /\ napi.work < Budget /\ rxDesc[rxCons].st # "no"
RxDeliver(given) == delivered' = IF given /\ rxDesc[rxCons].st = "ok"
                                 THEN rxDesc[rxCons].frame ELSE delivered
RxPosted ==
  /\ RxTurn
  /\ \E given \in BOOLEAN : (~given => rxDesc[rxCons].st = "err" \/ MayFail)
                            /\ RxDeliver(given)
  /\ rxDesc' = [rxDesc EXCEPT ![rxProd] = Posted(0)]
  /\ rxCons' = RingNext(rxCons, RxN) /\ rxProd' = RingNext(rxProd, RxN)
  /\ napi' = [napi EXCEPT !.work = @ + 1, !.tail = TRUE]
  /\ UNCHANGED <<pc, rings, txSkb, txProd, txClean, stopped, taken, opens, load, txDesc, reg, rx>>
RxNotPostedStays ==   \* mutant: switches DMA off and stays at the frame
  /\ RxTurn /\ napi.fails < load.fails
  /\ \E given \in BOOLEAN : RxDeliver(given)
  /\ reg' = [reg EXCEPT !.txEn = FALSE, !.rxEn = FALSE]
  /\ napi' = [napi EXCEPT !.work = @ + 1, !.fails = @ + 1, !.at = "done"]
  /\ UNCHANGED <<pc, rings, txSkb, txProd, txClean, rxProd, rxCons, stopped, taken, opens, load, memory, rx>>
RxNotPosted ==
  /\ RxTurn /\ napi.fails < load.fails
  /\ \E given \in BOOLEAN : RxDeliver(given)
  /\ rxCons' = RingNext(rxCons, RxN)
  /\ reg' = [reg EXCEPT !.txEn = FALSE, !.rxEn = FALSE]
  /\ napi' = [napi EXCEPT !.work = @ + 1, !.fails = @ + 1,
                       !.at = IF napi.tail THEN "tail" ELSE "done"]
  /\ UNCHANGED <<pc, rings, txSkb, txProd, txClean, rxProd, stopped, taken, opens, load, memory, rx>>
RxDone ==
  /\ napi.at = "rx" /\ ~RxTurn /\ NapiTo(IF napi.tail THEN "tail" ELSE "done")
  /\ UNCHANGED <<driver, memory, reg, rx, delivered>>
NapiTail ==
  /\ napi.at = "tail" /\ NapiTo("bell") /\ reg' = [reg EXCEPT !.rxTail = rxProd]
  /\ UNCHANGED <<driver, memory, rx, delivered>>
NapiBell ==
  /\ napi.at = "bell" /\ NapiTo("done") /\ rx' = [rx EXCEPT !.wait = FALSE]
  /\ UNCHANGED <<driver, memory, reg, delivered>>

\* With budget left the poll ends: interrupts on, and off again when a cause
\* has come up meanwhile.
NapiDone ==
  /\ napi.at = "done"
  /\ napi' = IF napi.work < Budget THEN [napi EXCEPT !.sched = FALSE, !.at = "on"]
             ELSE [napi EXCEPT !.at = "no"]
  /\ UNCHANGED <<driver, memory, reg, rx, delivered>>
NapiOnClears ==   \* mutant: acknowledges what came up meanwhile
  /\ napi.at = "on" /\ NapiTo("check") /\ reg' = [reg EXCEPT !.irqEn = TRUE, !.irq = {}]
  /\ UNCHANGED <<driver, memory, rx, delivered>>
NapiOn ==
  /\ napi.at = "on" /\ NapiTo("check") /\ reg' = [reg EXCEPT !.irqEn = TRUE]
  /\ UNCHANGED <<driver, memory, rx, delivered>>
NapiCheck ==
  /\ napi.at = "check" /\ NapiTo(IF reg.irq # {} THEN "again" ELSE "no")
  /\ UNCHANGED <<driver, memory, reg, rx, delivered>>
NapiAgain ==
  /\ napi.at = "again" /\ reg' = [reg EXCEPT !.irqEn = FALSE]
  /\ napi' = [napi EXCEPT !.at = "no", !.sched = @ \/ napi.on]
  /\ UNCHANGED <<driver, memory, rx, delivered>>

Napi == /\ irqAt = "no" /\ (Line => napi.at = "check")
        /\ \/ NapiStart \/ NapiReclaim \/ NapiWake \/ RxPosted \/ RxNotPosted \/ RxDone
           \/ NapiTail \/ NapiBell \/ NapiDone \/ NapiOn \/ NapiCheck \/ NapiAgain
        /\ UNCHANGED <<irqAt, cause, eng, txHead, rxHead, tx, payload>>

-----------------------------------------------------------------------------
(* Process context.                                                         *)
rest == <<rings, txSkb, txProd, txClean, rxProd, rxCons, taken, load>>
Goto(at) == pc' = [pc EXCEPT !.at = at]
Busy == tx.act \/ rx.act \/ eng.st = "FETCH"   \* STATUS

\* ap_eth_start_xmit: without memory the frame is dropped; else, under tx_lock,
\* reclaim, take a slot, publish the tail, ring, and stop a full queue.
XmitStart ==
  /\ pc = At("up", "no") /\ ~stopped /\ taken < load.tx
  /\ \/ MayFail /\ taken' = taken + 1 /\ UNCHANGED pc
     \/ pc' = At("xmit", "reclaim") /\ UNCHANGED taken
  /\ UNCHANGED <<rings, txSkb, txProd, txClean, rxProd, rxCons, stopped, opens, load,
                 napi, memory, reg, tx>>
XmitReclaimLater ==   \* mutant: leaves reclaiming to NAPI
  /\ pc = At("xmit", "reclaim") /\ Goto("slot")
  /\ UNCHANGED <<rest, stopped, opens, napi, memory, reg, tx>>
XmitReclaim ==
  /\ pc = At("xmit", "reclaim") /\ Goto("slot") /\ Reclaim
  /\ UNCHANGED <<rings, txProd, rxProd, rxCons, stopped, taken, opens, load, napi, rxDesc, reg, tx>>
XmitSlot ==
  /\ pc = At("xmit", "slot")
  /\ IF Full(txHead)
     THEN /\ stopped' = TRUE /\ pc' = At("up", "no")
          /\ UNCHANGED <<txSkb, txDesc, txProd, taken>>
     ELSE /\ txSkb' = [txSkb EXCEPT ![txProd] = taken + 1]
          /\ txDesc' = [txDesc EXCEPT ![txProd] = Posted(taken + 1)]
          /\ txProd' = RingNext(txProd, TxN) /\ taken' = taken + 1
          /\ Goto("tail") /\ UNCHANGED stopped
  /\ UNCHANGED <<rings, txClean, rxProd, rxCons, opens, load, napi, rxDesc, reg, tx>>
XmitTail ==
  /\ pc = At("xmit", "tail") /\ Goto("bell") /\ reg' = [reg EXCEPT !.txTail = txProd]
  /\ UNCHANGED <<rings, txSkb, txProd, txClean, rxProd, rxCons, stopped, taken, opens, load,
                 napi, memory, tx>>
XmitBell ==
  /\ pc = At("xmit", "bell") /\ Goto("full") /\ tx' = [tx EXCEPT !.wait = FALSE]
  /\ UNCHANGED <<rings, txSkb, txProd, txClean, rxProd, rxCons, stopped, taken, opens, load,
                 napi, memory, reg>>
XmitEnd ==
  /\ pc = At("xmit", "full") /\ pc' = At("up", "no") /\ stopped' = Full(txHead)
  /\ UNCHANGED <<rings, txSkb, txProd, txClean, rxProd, rxCons, taken, opens, load,
                 napi, memory, reg, tx>>
Xmit == /\ XmitReclaim \/ XmitSlot \/ XmitTail \/ XmitBell \/ XmitEnd
        /\ UNCHANGED <<eng, txHead, rxHead, rx, payload, delivered>>

\* ap_eth_hw_stop, of open and of stop: interrupts off, RX off, wait for
\* STATUS to be zero or give up, everything off.  Only a transmission that
\* waits for its PHY lasts the 100 ms after which it gives up.
HwStop ==
  \/ pc.at = "irq" /\ reg' = [reg EXCEPT !.irqEn = FALSE] /\ Goto("rx")
  \/ pc.at = "rx" /\ reg' = [reg EXCEPT !.txEn = TRUE, !.rxEn = FALSE] /\ Goto("poll")
  \/ pc.at = "poll" /\ ~Busy /\ Goto("ctrl") /\ UNCHANGED reg
  \/ pc.at = "poll" /\ Busy /\ txDma = "reading" /\ Goto("timeout") /\ UNCHANGED reg
  \/ pc.at = "ctrl" /\ reg' = [reg EXCEPT !.txEn = FALSE, !.rxEn = FALSE]
     /\ Goto(IF pc.op = "open" THEN "reset" ELSE "napi")
HwStopStep == /\ pc.op \in {"open", "stop"} /\ HwStop
              /\ UNCHANGED <<rest, stopped, opens, napi, memory, engine, payload, delivered>>

RingReset == /\ reg' = [reg EXCEPT !.txEn = FALSE, !.rxEn = FALSE]
             /\ eng' = EngineIdle /\ txHead' = 0 /\ rxHead' = 0
             /\ tx' = Quiet /\ rx' = Quiet
ResetStep == /\ pc.op \in {"open", "stop"} /\ pc.at = "reset" /\ RingReset
             /\ Goto(IF pc.op = "open" THEN "alloc" ELSE "free")
             /\ UNCHANGED <<rest, stopped, opens, napi, memory, payload, delivered>>

\* ap_eth_open.  A device whose last stop gave up keeps its rings: -EBUSY.
OpenStart ==
  /\ pc = At("down", "no") /\ ~rings /\ opens < load.opens
  /\ opens' = opens + 1 /\ napi' = [napi EXCEPT !.on = TRUE, !.fails = 0] /\ pc' = At("open", "irq")
  /\ UNCHANGED <<rest, stopped, memory, reg, engine, payload, delivered>>
AllocRings ==
  /\ pc = At("open", "alloc") /\ Goto("program")
  /\ rings' = TRUE /\ txProd' = 0 /\ txClean' = 0 /\ rxCons' = 0 /\ rxProd' = RxN - 1
  /\ txDesc' = [i \in TxSlot |-> NoDesc]
  /\ rxDesc' = [i \in RxSlot |-> IF i = RxN - 1 THEN NoDesc ELSE Posted(0)]
  /\ UNCHANGED <<txSkb, stopped, taken, opens, load, napi, reg, engine, payload, delivered>>
AllocFails ==
  /\ pc = At("open", "alloc") /\ MayFail /\ Goto("off")
  /\ UNCHANGED <<rest, stopped, opens, napi, memory, reg, engine, payload, delivered>>
HwProgram ==   \* the engine is reset and off until CTRL, the capture disarmed at once
  \/ /\ pc.at = "program" /\ Goto("enable")
     /\ reg' = [reg EXCEPT !.base = "live", !.txTail = 0, !.rxTail = rxProd, !.irq = {}]
     /\ UNCHANGED rx
  \/ /\ pc.at = "enable" /\ rxDma # "armed" /\ Goto("irqon")
     /\ reg' = [reg EXCEPT !.txEn = TRUE, !.rxEn = TRUE] /\ UNCHANGED rx
  \/ pc.at = "irqon" /\ Goto("bell") /\ reg' = [reg EXCEPT !.irqEn = TRUE] /\ UNCHANGED rx
  \/ pc.at = "bell" /\ Goto("start") /\ rx' = [rx EXCEPT !.wait = FALSE] /\ UNCHANGED reg
HwProgramStep ==
  /\ pc.op = "open" /\ HwProgram
  /\ UNCHANGED <<rest, stopped, opens, napi, memory, eng, txHead, rxHead, tx,
                 payload, delivered>>
OpenEnd ==
  /\ pc = At("open", "start") /\ pc' = At("up", "no") /\ stopped' = FALSE
  /\ UNCHANGED <<rest, opens, napi, memory, reg, engine, payload, delivered>>

\* ap_eth_stop.  The stack sends no more frames; a poll may still run.
StopStart ==
  /\ pc = At("up", "no") /\ pc' = At("stop", "irq") /\ stopped' = TRUE
  /\ UNCHANGED <<rest, opens, napi, memory, reg, engine, payload, delivered>>
\* napi_disable: nothing is scheduled any more, and a poll under way ends.
NapiDisable ==
  /\ \/ /\ pc.at \in {"napi", "timeout", "off"} /\ Goto(IF pc.at = "napi" THEN "wait" ELSE "over")
        /\ napi' = [napi EXCEPT !.on = FALSE] /\ UNCHANGED <<rings, txSkb>>
     \/ /\ pc.at = "wait" /\ ~napi.sched /\ napi.at = "no"
        /\ Goto("reset") /\ UNCHANGED <<napi, rings, txSkb>>
     \/ /\ pc.at = "over" /\ ~napi.sched /\ napi.at = "no"
        /\ pc' = At("down", "no") /\ UNCHANGED <<napi, rings, txSkb>>
  /\ UNCHANGED <<txProd, txClean, rxProd, rxCons, taken, stopped, opens, load, memory, reg,
                 engine, payload, delivered>>
FreeRings ==
  /\ pc = At("stop", "free") /\ pc' = At("down", "no")
  /\ rings' = FALSE /\ txSkb' = [i \in TxSlot |-> 0]
  /\ reg' = [reg EXCEPT !.base = "freed"]
  /\ rxDma' = IF rxDma = "issued" THEN "dangling" ELSE rxDma
  /\ txDma' = IF txDma = "reading" THEN "dangling" ELSE txDma
  /\ UNCHANGED <<txProd, txClean, rxProd, rxCons, taken, stopped, opens, load, napi, memory,
                 engine, sent, arrived, delivered>>

\* ap_eth_probe and ap_eth_remove.  Rings a stop has preserved are lost here.
Probe ==
  /\ pc = At("unbound", "no") /\ opens < load.opens
  /\ RingReset /\ pc' = At("down", "no")
  /\ UNCHANGED <<rest, stopped, opens, napi, memory, payload, delivered>>
Remove ==
  /\ pc = At("down", "no") /\ pc' = At("unbound", "no")
  /\ rings' = FALSE /\ txSkb' = [i \in TxSlot |-> 0]
  /\ UNCHANGED <<txProd, txClean, rxProd, rxCons, taken, stopped, opens, load, napi, memory,
                 reg, engine, payload, delivered>>

Call == \/ XmitStart /\ UNCHANGED <<eng, txHead, rxHead, rx, payload, delivered>>
        \/ OpenStart \/ StopStart \/ Probe \/ Remove
Running == Xmit \/ HwStopStep \/ ResetStep \/ AllocRings \/ AllocFails \/ HwProgramStep
           \/ OpenEnd \/ NapiDisable \/ FreeRings
Process == /\ irqAt = "no" /\ ~Line /\ napi.at = "no" /\ (Call \/ Running)
           /\ UNCHANGED <<irqAt, cause>>

Next == Hardware \/ Irq \/ Napi \/ Process
Spec == Init /\ [][Next]_vars

\* The clock runs, a payload transfer ends, the hart takes interrupts and runs
\* what it has begun.  Frames, calls and time-outs are not owed.
FairSpec ==
  /\ Spec /\ WF_vars(EngineStep /\ UNCHANGED <<driver, napi, irqAt, cause, delivered>>)
  /\ WF_vars((TxPayload \/ RxPayload \/ Disarmed) /\ Hardware)
  /\ WF_vars(Irq) /\ WF_vars(Napi)
  /\ WF_vars(Running /\ Process)

-----------------------------------------------------------------------------
(* Type invariant: indices stay in the ring, every FSM in its states.       *)
TypeOK ==
  /\ {txProd, txClean, txHead, reg.txTail} \subseteq TxSlot
  /\ {rxProd, rxCons, rxHead, reg.rxTail} \subseteq RxSlot
  /\ txSkb \in [TxSlot -> 0 .. load.tx]
  /\ eng.st \in {"IDLE", "FETCH", "COMP", "RESP"}
  /\ txDma \in {"idle", "reading", "dangling"}
  /\ rxDma \in {"idle", "armed", "issued", "dangling"}
  /\ napi.work \in 0 .. Budget

\* "Publish descriptors, execute the DMA write barrier, write TAIL": the engine
\* walks only rings that exist and never meets a descriptor it does not own,
\* where a doorbell could be lost, although CTRL enables TX in every hw_stop
\* while the tail of the last session is still in its register; and the poll
\* finds its rings, although it may switch interrupts on behind hw_stop's back.
RingsLive ==
  /\ eng.st \in {"FETCH", "COMP"} => reg.base = "live"
  /\ eng.st = "FETCH" /\ (eng.tx \/ reg.rxEn) => Owned
  /\ napi.at \in {"tx", "rx"} => rings

\* A slot is filled only when its last frame has been given back: the driver
\* judges by the head of the hardware, reclaim by the status words.
SlotFree == pc = At("xmit", "slot") /\ ~Full(txHead) => txSkb[txProd] = 0

\* A frame is given to the stack once, in the order of arrival, whatever
\* allocations fail ("Stop before a stale completion can be consumed again").
NoStaleFrame == RxTurn /\ rxDesc[rxCons].st = "ok" => rxDesc[rxCons].frame > delivered

\* Frames go out in order, each once, from a buffer the ring still holds (or
\* from one that a driver removed after a time-out has left behind).
FramesInOrder == [][sent' # sent => /\ sent' > sent
                                    /\ pc.op = "unbound" \/ txSkb[txHead] = sent']_vars

\* Interrupts are off while the poll runs and a cause may come up at any
\* time: a completed frame is nevertheless taken by the poll, and a queue
\* stopped for want of room is woken.
Completed(i) == rings /\ rxCons = i /\ rxDesc[i].st # "no"
RxTaken == \A i \in RxSlot : Completed(i) ~> ~Completed(i) \/ ~napi.on
QueueWoken == pc = At("up", "no") /\ stopped ~> ~stopped \/ pc.op # "up" \/ ~reg.txEn

\* "Use RING_RESET only after STATUS is zero": a stop that found STATUS zero
\* leaves no transfer running into buffers it gives back.
DmaEndsFirst == rxDma # "dangling" /\ txDma # "dangling"

\* "active TX drains": no frame handed to the ring is left when hw_stop ends.
TxDrained == pc = At("stop", "ctrl") => txHead = reg.txTail
=============================================================================
