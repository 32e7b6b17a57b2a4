--------------------------- MODULE MemoryFrontend ---------------------------
(***************************************************************************)
(* The hart's memory frontend                                              *)
(* (rtl/soc/hart_tile/mem/ap_hart_memory_frontend.sv): the FSM of the      *)
(* fetch port and of the data port, the MMU controller and its page-table  *)
(* walker (core/mmu), the router, and the data-cache port that the walker  *)
(* and the router share; with the MEM stage of the core that drives it.    *)
(* One step is one clock edge of all of them: Next is the conjunction of   *)
(* one relation per FSM, and each reads the others' registers.             *)
(* The caches are seen through their ports (modules DCache and ICache);    *)
(* addresses are reduced to the target they reach and to one page, whose   *)
(* leaf PTE lies in cacheable memory.                                      *)
(***************************************************************************)
EXTENDS Integers

CONSTANTS
  Pte,         \* what the leaf PTE may hold, closed under setting A and D
  StoredPte,   \* the values software stores to it
  Levels,      \* page-table levels of a walk (three in Sv39)
  FetchReqs,   \* the fetches the core may issue
  MemOps,      \* the operations the MEM stage may hold
  MayFail,     \* may a memory behind the ports answer with an error?
  None

Target == {"rom", "ddr", "io", "pt"}   \* "pt": the word of DDR that holds the PTE
\* bare: M mode or satp.mode = Bare.  canon: a canonical address under a satp
\* that is in range.  to: the target of a bare access.
FetchReq == [bare : BOOLEAN, canon : BOOLEAN, to : Target]
MemOp == [op : {"LOAD", "STORE", "AMO", "CBO"}, bare : BOOLEAN, canon : BOOLEAN,
          to : Target, new : StoredPte]
         \cup {[op |-> "FENCE"]}
Bits == {"A", "D"}
PteType == [v : BOOLEAN, w : BOOLEAN, ad : SUBSET Bits, to : Target]

ASSUME LevelsAssumption == Levels \in Nat \ {0}
ASSUME PteAssumption ==
  /\ Pte \subseteq PteType /\ StoredPte \subseteq Pte
  /\ \A p \in Pte, b \in SUBSET Bits : [p EXCEPT !.ad = p.ad \cup b] \in Pte
ASSUME InputAssumption ==
  /\ FetchReqs \subseteq FetchReq /\ MemOps \subseteq MemOp
  /\ MayFail \subseteq BOOLEAN /\ FALSE \in MayFail
ASSUME NoneAssumption ==
  None \notin Pte /\ None \notin FetchReqs \cup MemOps /\ None \notin Target

VARIABLES
  mem,       \* the operation in the MEM stage, or None
  sfence,    \* where the pipeline holds an SFENCE.VMA: "none", "ex", "mem", "wb"
  retired,   \* what MEM completed on the last edge, or None
  ist, ito, ifault,       \* i_state_q, i_paddr_q, the fault flags
  dst, dto, dfault, dq,   \* d_state_q, d_paddr_q, the fault flags, the captured op
  mst, mside, mreq, mresp,   \* the MMU: state_q, active_i_q, active_*_q, resp_*_q
  pst, level, presp, pmask,  \* the walker: state_q, level_q, resp_*_q, the mask
  ptwPending,             \* ptw_pending_q
  tlb,       \* tlb[side]: the images of the PTE its TLB holds
  rst,       \* the router's state_q
  cache,     \* the data cache behind its CPU port
  imem,      \* the instruction side: whether the I-cache or the boot ROM is
             \* "idle", "busy" with a fetch or shows its answer ("resp")
  uncached,  \* the uncached master behind its port
  pte,       \* the PTE as the data cache holds it
  recent     \* history: the values of pte since the last SFENCE.VMA

coreVars == <<mem, sfence, retired>>
iVars == <<ist, ito, ifault>>
dVars == <<dst, dto, dfault, dq>>
mmuVars == <<mst, mside, mreq, mresp>>
ptwVars == <<pst, level, presp, pmask>>
vars == <<coreVars, iVars, dVars, mmuVars, ptwVars, ptwPending, tlb, rst, cache,
          imem, uncached, pte, recent>>

\* An answer of the MMU or the walker: the fault, the target, and the image of
\* the PTE that allowed the access (None when bare).
Outcome == [fault : {"none", "page", "access"}, to : Target \cup {None},
            by : Pte \cup {None}]
Ok(to, by) == [fault |-> "none", to |-> to, by |-> by]
Fault(f) == [fault |-> f, to |-> None, by |-> None]

IdleCache == [st |-> "idle", owner |-> None, op |-> None, err |-> FALSE, rdata |-> None]

Init ==
  /\ mem = None /\ sfence = "none" /\ retired = None
  /\ ist = "IDLE" /\ ito = None /\ ifault = "none"
  /\ dst = "IDLE" /\ dto = None /\ dfault = "none" /\ dq = None
  /\ mst = "IDLE" /\ mside = "D" /\ mreq = None /\ mresp = None
  /\ pst = "IDLE" /\ level = Levels - 1 /\ presp = None /\ pmask = {}
  /\ ptwPending = FALSE
  /\ tlb = [side \in {"I", "D"} |-> {}]
  /\ rst = "IDLE" /\ cache = IdleCache
  /\ imem = [src |-> "icache", st |-> "idle"] /\ uncached = [st |-> "idle", err |-> FALSE]
  /\ pte \in StoredPte /\ recent = {pte}

-----------------------------------------------------------------------------
(* Signals: what the FSMs see of each other within a cycle.                *)
Flush == sfence = "wb"                                  \* hart_sfence_vma
Fencing == mem # None /\ mem.op = "FENCE"               \* data_fence
IsCbo(op) == op # None /\ op.op = "CBO"

\* Acceptance of a fetch f and of the operation in MEM.  Fetch has priority.
ImemReady == ist = "IDLE" /\ mst = "IDLE" /\ ~Flush
IAccept(f) == f # None /\ ImemReady
DAccept(f) == /\ mem # None /\ ~Fencing
              /\ dst = "IDLE" /\ mst = "IDLE" /\ ~Flush /\ ~IAccept(f)

IAnswered == mst = "RESP" /\ mside = "I" /\ ist = "MMU_WAIT"
DAnswered == mst = "RESP" /\ mside = "D" /\ dst = "MMU_WAIT"

\* The walker's turn on the data-cache port.
PteReqReadyEarly ==   \* mutant: the data port is not looked at for a fetch
  ~ptwPending /\ ~Fencing /\ (ist = "MMU_WAIT" \/ dst = "MMU_WAIT")
PteReqReadyFetchOnly ==   \* mutant: no turn for the walk of a data access
  ~ptwPending /\ ~Fencing /\ ist = "MMU_WAIT" /\ dst = "IDLE"
PteReqReady ==
  /\ ~ptwPending /\ ~Fencing
  /\ (ist = "MMU_WAIT" /\ dst = "IDLE") \/ dst = "MMU_WAIT"
PteIssue == pst \in {"PTE_REQ", "AD_UPDATE_REQ"} /\ PteReqReady
PteResp == ptwPending /\ cache.st = "resp"

\* The router's requests, raised for the one cycle of D_PHYS_REQ.
RouterReq == dst = "PHYS_REQ" /\ ~IsCbo(dq)
Cacheable(to) == to \in {"ddr", "pt"}
RouterCacheReq == rst = "IDLE" /\ RouterReq /\ Cacheable(dto)
RouterUncachedReq == rst = "IDLE" /\ RouterReq /\ ~Cacheable(dto) /\ dq.op # "AMO"
RouterCacheResp == rst = "CACHE_WAIT" /\ cache.st = "resp" /\ ~ptwPending
RouterUncachedResp == rst = "UNCACHED_WAIT" /\ uncached.st = "resp"
RouterResp == RouterCacheResp \/ RouterUncachedResp \/ rst = "ERR_RESP"
RouterErr == \/ RouterCacheResp /\ cache.err
             \/ RouterUncachedResp /\ uncached.err
             \/ rst = "ERR_RESP"

\* The port of the data cache: the walker's request replaces the router's.
CacheReq == PteIssue \/ RouterCacheReq
CacheOwner == IF PteIssue THEN "ptw" ELSE "cpu"
CacheOp == IF PteIssue THEN [op |-> IF pst = "PTE_REQ" THEN "READ" ELSE "OR"] ELSE dq
CboReq == dst = "PHYS_REQ" /\ IsCbo(dq)
CboReady == cache.st = "idle" /\ ~Fencing /\ ~CacheReq
CboDone == cache.st = "cbo_done"

ICacheIdle == imem.src = "icache" => imem.st = "idle"
InvalidateDoneLate ==   \* mutant: not while a fetch asks for the cache
  Fencing /\ ICacheIdle /\ ~(ist = "PHYS_REQ" /\ ito # "rom")
InvalidateDone == Fencing /\ ICacheIdle
FenceDone == cache.st = "flush_done" /\ InvalidateDone

DataDone ==
  \/ dst = "PHYS_WAIT" /\ (IF IsCbo(dq) THEN CboDone ELSE RouterResp)
  \/ dst = "FAULT_RESP"
DataErr == \/ dst = "PHYS_WAIT" /\ (IF IsCbo(dq) THEN cache.err ELSE RouterErr)
           \/ dst = "FAULT_RESP"

-----------------------------------------------------------------------------
(* The core.  MEM holds its operation until it is answered; an SFENCE.VMA  *)
(* goes from EX to WB behind it, with fetch stopped, and flushes in WB.    *)
MemDone == mem # None /\ (IF Fencing THEN FenceDone ELSE DataDone)
MemErr == IF Fencing THEN cache.err ELSE DataErr   \* response_err
MemTrap == MemErr /\ ~Fencing                      \* mem_fault_valid

CoreEdge ==
  /\ retired' = IF MemDone THEN [op |-> mem.op, err |-> MemErr, trap |-> MemTrap]
                ELSE None
  /\ CASE mem # None /\ ~MemDone ->
            mem' = mem /\ sfence' \in (IF sfence = "none" THEN {"none", "ex"} ELSE {sfence})
       [] sfence = "none" /\ (mem = None \/ MemDone) ->
            mem' \in MemOps \cup {None} /\ sfence' \in {"none", "ex"}
       [] OTHER ->
            mem' = None /\ sfence' = [ex |-> "mem", mem |-> "wb", wb |-> "none"][sfence]

-----------------------------------------------------------------------------
(* The fetch port.                                                         *)
ITarget(to) == to \in {"rom", "ddr", "pt"}

IAccepted(f) == /\ IAccept(f)
                /\ ist' = "MMU_WAIT" /\ UNCHANGED <<ito, ifault>>

ITranslated ==
  /\ IAnswered
  /\ LET fault == IF mresp.fault = "none" /\ ~ITarget(mresp.to) THEN "access"
                  ELSE mresp.fault
     IN  /\ ist' = IF fault = "none" THEN "PHYS_REQ" ELSE "FAULT_RESP"
         /\ ifault' = fault /\ ito' = IF fault = "none" THEN mresp.to ELSE None

\* The boot ROM takes a request at any time, the I-cache unless it is invalidated.
IReady == imem.st = "idle" /\ (ito = "rom" \/ ~Fencing)
IIssued == /\ ist = "PHYS_REQ" /\ IReady
           /\ ist' = "PHYS_WAIT" /\ UNCHANGED <<ito, ifault>>
IDone == /\ ist = "FAULT_RESP" \/ (ist = "PHYS_WAIT" /\ imem.st = "resp")
         /\ ist' = "IDLE" /\ ito' = None /\ ifault' = "none"
IHold(f) == /\ ~IAccept(f) /\ ~IAnswered /\ ~(ist = "PHYS_REQ" /\ IReady)
            /\ ist # "FAULT_RESP" /\ ~(ist = "PHYS_WAIT" /\ imem.st = "resp")
            /\ UNCHANGED iVars

IEdge(f) == IAccepted(f) \/ ITranslated \/ IIssued \/ IDone \/ IHold(f)

-----------------------------------------------------------------------------
(* The data port.  A CBO waits for the cache; a router request does not.   *)
DAccepted(f) == /\ DAccept(f)
                /\ dst' = "MMU_WAIT" /\ dq' = mem /\ UNCHANGED <<dto, dfault>>
DTranslated == /\ DAnswered
               /\ dst' = IF mresp.fault = "none" THEN "PHYS_REQ" ELSE "FAULT_RESP"
               /\ dto' = mresp.to /\ dfault' = mresp.fault /\ UNCHANGED dq
DIssued == /\ dst = "PHYS_REQ" /\ (IsCbo(dq) => CboReady)
           /\ dst' = "PHYS_WAIT" /\ UNCHANGED <<dto, dfault, dq>>
DDone == /\ DataDone
         /\ dst' = "IDLE" /\ dto' = None /\ dfault' = "none" /\ dq' = None
DHold(f) == /\ ~DAccept(f) /\ ~DAnswered /\ ~DataDone
            /\ ~(dst = "PHYS_REQ" /\ (IsCbo(dq) => CboReady))
            /\ UNCHANGED dVars

DEdge(f) == DAccepted(f) \/ DTranslated \/ DIssued \/ DDone \/ DHold(f)

-----------------------------------------------------------------------------
(* The check of a PTE (sv39_pte_check) and the bits an access must set.    *)
AccessLoad(op) == "LOAD"   \* mutant: data_we is not looked at
Access(op) == IF op \in {"STORE", "CBO"} THEN "STORE" ELSE "LOAD"
Permitted(p, access) == p.v /\ (access = "STORE" => p.w)
Needed(req) == {"A"} \cup (IF req.access = "STORE" /\ ~req.cbo THEN {"D"} ELSE {})

Translation(op, access) == [bare |-> op.bare, canon |-> op.canon, to |-> op.to,
                            access |-> access, cbo |-> IsCbo(op)]

\* The MMU controller: one translation at a time.
MmuAccept(f) ==
  \/ /\ IAccept(f)
     /\ mside' = "I" /\ mst' = "LOOKUP"
     /\ mreq' = [bare |-> f.bare, canon |-> f.canon, to |-> f.to,
                 access |-> "FETCH", cbo |-> FALSE]
     /\ UNCHANGED mresp
  \/ /\ DAccept(f)
     /\ mside' = "D" /\ mst' = "LOOKUP"
     /\ mreq' = Translation(mem, Access(mem.op))
     /\ UNCHANGED mresp

\* A bare access, a TLB hit that decides it, or a walk.  The TLB may have
\* replaced any entry by one of another page.
MmuBare == /\ mst = "LOOKUP" /\ mreq.bare
           /\ mresp' = IF mreq.canon THEN Ok(mreq.to, None) ELSE Fault("access")
           /\ mst' = "RESP" /\ UNCHANGED <<mside, mreq>>
MmuHit == /\ mst = "LOOKUP" /\ ~mreq.bare
          /\ \E p \in tlb[mside] :
               \/ /\ ~mreq.canon \/ ~Permitted(p, mreq.access)
                  /\ mresp' = Fault("page")
               \/ /\ mreq.canon /\ Permitted(p, mreq.access)
                  /\ Needed(mreq) \subseteq p.ad
                  /\ mresp' = Ok(p.to, p)
          /\ mst' = "RESP" /\ UNCHANGED <<mside, mreq>>
MmuMiss == /\ mst = "LOOKUP" /\ ~mreq.bare
           /\ mst' = "PTW_REQ" /\ UNCHANGED <<mside, mreq, mresp>>
MmuWalk == /\ mst = "PTW_REQ" /\ pst = "IDLE"
           /\ mst' = "PTW_WAIT" /\ UNCHANGED <<mside, mreq, mresp>>
MmuWalked == /\ mst = "PTW_WAIT" /\ pst = "RESP"
             /\ mresp' = presp
             /\ mst' = IF presp.fault = "none" THEN "REFILL" ELSE "RESP"
             /\ UNCHANGED <<mside, mreq>>
MmuRefill == mst = "REFILL" /\ mst' = "RESP" /\ UNCHANGED <<mside, mreq, mresp>>
MmuTaken == /\ IAnswered \/ DAnswered
            /\ mst' = "IDLE" /\ mside' = "D" /\ mreq' = None /\ mresp' = None
MmuHold(f) == /\ \/ mst = "IDLE" /\ ~IAccept(f) /\ ~DAccept(f)
                 \/ mst = "PTW_WAIT" /\ pst # "RESP"
              /\ UNCHANGED mmuVars

MmuEdge(f) == \/ MmuAccept(f) \/ MmuBare \/ MmuHit \/ MmuMiss \/ MmuWalk
              \/ MmuWalked \/ MmuRefill \/ MmuTaken \/ MmuHold(f)

\* A refill adds the image of the PTE, unless SFENCE.VMA empties the TLBs.
TlbFlushData ==   \* mutant: the instruction TLB is not flushed
  tlb' = [tlb EXCEPT !["D"] = {}]
TlbFlush == tlb' = [side \in {"I", "D"} |-> {}]
TlbEdge ==
  IF Flush THEN TlbFlush
  ELSE IF mst = "REFILL" THEN tlb' = [tlb EXCEPT ![mside] = @ \cup {mresp.by}]
  ELSE UNCHANGED tlb

-----------------------------------------------------------------------------
(* The page-table walker.                                                  *)
WalkStartAbove ==   \* mutant: off by one
  /\ pst = "IDLE" /\ mst = "PTW_REQ"
  /\ level' = Levels /\ pmask' = {} /\ pst' = "PTE_REQ" /\ presp' = None
WalkStart == /\ pst = "IDLE" /\ mst = "PTW_REQ"
             /\ level' = Levels - 1 /\ pmask' = {}
             /\ IF mreq.canon THEN pst' = "PTE_REQ" /\ presp' = None
                ELSE pst' = "RESP" /\ presp' = Fault("page")
WalkIssue == /\ pst \in {"PTE_REQ", "AD_UPDATE_REQ"} /\ PteReqReady
             /\ pst' = IF pst = "PTE_REQ" THEN "PTE_WAIT" ELSE "AD_UPDATE_WAIT"
             /\ UNCHANGED <<level, presp, pmask>>
WalkError == /\ pst \in {"PTE_WAIT", "AD_UPDATE_WAIT"} /\ PteResp /\ cache.err
             /\ pst' = "RESP" /\ presp' = Fault("access") /\ UNCHANGED <<level, pmask>>
WalkDown == /\ pst = "PTE_WAIT" /\ PteResp /\ ~cache.err /\ level # 0
            /\ pst' = "PTE_REQ" /\ level' = level - 1 /\ UNCHANGED <<presp, pmask>>
WalkLeaf ==
  /\ pst = "PTE_WAIT" /\ PteResp /\ ~cache.err /\ level = 0
  /\ LET p == cache.rdata
         mask == Needed(mreq) \ p.ad
     IN  \/ /\ ~Permitted(p, mreq.access)
            /\ pst' = "RESP" /\ presp' = Fault("page") /\ UNCHANGED pmask
         \/ /\ Permitted(p, mreq.access) /\ mask # {}
            /\ pst' = "AD_UPDATE_REQ" /\ pmask' = mask /\ UNCHANGED presp
         \/ /\ Permitted(p, mreq.access) /\ mask = {}
            /\ pst' = "RESP" /\ presp' = Ok(p.to, p) /\ UNCHANGED pmask
  /\ UNCHANGED level
\* The image is the old value with the mask, whatever the old value is now.
WalkUpdated ==
  /\ pst = "AD_UPDATE_WAIT" /\ PteResp /\ ~cache.err
  /\ pst' = "RESP"
  /\ LET p == [cache.rdata EXCEPT !.ad = @ \cup pmask] IN presp' = Ok(p.to, p)
  /\ UNCHANGED <<level, pmask>>
WalkTaken == /\ pst = "RESP" /\ mst = "PTW_WAIT"
             /\ pst' = "IDLE" /\ presp' = None /\ level' = Levels - 1 /\ pmask' = {}
WalkHold == /\ \/ pst = "IDLE" /\ mst # "PTW_REQ"
               \/ pst \in {"PTE_REQ", "AD_UPDATE_REQ"} /\ ~PteReqReady
               \/ pst \in {"PTE_WAIT", "AD_UPDATE_WAIT"} /\ ~PteResp
            /\ UNCHANGED ptwVars

PtwEdge == WalkStart \/ WalkIssue \/ WalkError \/ WalkDown \/ WalkLeaf \/ WalkUpdated
           \/ WalkTaken \/ WalkHold

PendingReadsOnly ==   \* mutant: the A/D update is not counted as pending
  ptwPending' = ((PteIssue /\ pst = "PTE_REQ") \/ (ptwPending /\ ~PteResp))
PendingEdge == ptwPending' = (PteIssue \/ (ptwPending /\ ~PteResp))

-----------------------------------------------------------------------------
(* The router and what is behind the ports.                                *)
RouterEdge ==
  rst' = CASE rst = "IDLE" -> (CASE RouterCacheReq -> "CACHE_WAIT"
                                 [] RouterUncachedReq -> "UNCACHED_WAIT"
                                 [] RouterReq /\ dq.op = "AMO" /\ ~Cacheable(dto) -> "ERR_RESP"
                                 [] OTHER -> "IDLE")
           [] RouterResp -> "IDLE"
           [] OTHER -> rst

\* A store or an AMO to the page table changes the PTE, the walker's OR sets
\* its bits.
Performed(op) ==
  CASE op.op = "OR" -> [pte EXCEPT !.ad = @ \cup pmask]
    [] op.op \in {"STORE", "AMO"} /\ dto = "pt" -> op.new
    [] OTHER -> pte

CacheTakesCpu ==
  /\ CacheReq
  /\ \/ cache.st = "idle" /\ ~Fencing /\ ~CboReq
     \/ cache.st = "resp" /\ ~Fencing
     \/ cache.st = "flush_done" /\ ~Fencing
  /\ cache' = [IdleCache EXCEPT !.st = "busy", !.owner = CacheOwner, !.op = CacheOp]
  /\ UNCHANGED pte
CacheTakesFlush ==
  /\ Fencing /\ cache.st \in {"idle", "resp"}
  /\ cache' = [IdleCache EXCEPT !.st = "flush"] /\ UNCHANGED pte
CacheTakesCbo ==
  /\ CboReq /\ cache.st = "idle" /\ ~Fencing
  /\ cache' = [IdleCache EXCEPT !.st = "cbo"] /\ UNCHANGED pte
CachePerforms ==
  /\ cache.st = "busy"
  /\ \E err \in MayFail :
       /\ cache' = [cache EXCEPT !.st = "resp", !.err = err,
                      !.rdata = IF err \/ cache.owner = "cpu" THEN None ELSE pte]
       /\ pte' = IF err THEN pte ELSE Performed(cache.op)
CacheMaintains ==
  /\ cache.st \in {"flush", "cbo"}
  /\ \E err \in MayFail :
       cache' = [IdleCache EXCEPT !.err = err,
                   !.st = IF cache.st = "cbo" THEN "cbo_done" ELSE "flush_done"]
  /\ UNCHANGED pte
CacheGoesIdle ==
  /\ \/ cache.st \in {"resp", "flush_done"} /\ ~Fencing /\ ~CacheReq
     \/ cache.st = "cbo_done"
  /\ cache' = IdleCache /\ UNCHANGED pte
CacheStays ==
  /\ \/ cache.st \in {"busy", "flush", "cbo"}
     \/ cache.st = "idle" /\ ~Fencing /\ ~CboReq /\ ~CacheReq
     \/ cache.st = "flush_done" /\ Fencing
  /\ UNCHANGED <<cache, pte>>

CacheEnds == CachePerforms \/ CacheMaintains
CacheEdge == CacheTakesCpu \/ CacheTakesFlush \/ CacheTakesCbo \/ CacheEnds
             \/ CacheGoesIdle \/ CacheStays

\* The I-cache or the boot ROM answers, with an instruction or an error alike.
ImemEnds == imem.st = "busy" /\ imem' = [imem EXCEPT !.st = "resp"]
ImemEdge ==
  CASE ist = "PHYS_REQ" /\ IReady ->
         imem' = [src |-> IF ito = "rom" THEN "rom" ELSE "icache", st |-> "busy"]
    [] imem.st = "busy" -> ImemEnds \/ UNCHANGED imem
    [] imem.st = "resp" -> imem' = [src |-> "icache", st |-> "idle"]
    [] OTHER -> UNCHANGED imem

UncachedEnds ==
  /\ uncached.st = "busy"
  /\ \E err \in MayFail : uncached' = [st |-> "resp", err |-> err]
UncachedEdge ==
  CASE RouterUncachedReq /\ uncached.st = "idle" -> uncached' = [st |-> "busy", err |-> FALSE]
    [] uncached.st = "busy" -> UncachedEnds \/ UNCHANGED uncached
    [] uncached.st = "resp" -> uncached' = [st |-> "idle", err |-> FALSE]
    [] OTHER -> UNCHANGED uncached

RecentEdge == recent' = IF Flush THEN {pte'} ELSE recent \cup {pte'}

-----------------------------------------------------------------------------
\* Fetch is stopped from the SFENCE.VMA's EX stage to its flush.
FetchInput == IF sfence = "none" THEN FetchReqs \cup {None} ELSE {None}

Next == \E f \in FetchInput :
  /\ CoreEdge /\ IEdge(f) /\ DEdge(f) /\ MmuEdge(f) /\ TlbEdge /\ PtwEdge
  /\ PendingEdge /\ RouterEdge /\ CacheEdge /\ ImemEdge /\ UncachedEdge /\ RecentEdge

Spec == Init /\ [][Next]_vars

\* The clock runs, and what is behind the ports answers.
FairSpec == /\ Spec /\ WF_vars(Next)
            /\ []<>(cache.st \notin {"busy", "flush", "cbo"})
            /\ []<>(imem.st # "busy") /\ []<>(uncached.st # "busy")

-----------------------------------------------------------------------------
(* Type invariant: every FSM is in one of its states, and the level of a    *)
(* walk addresses a level of the page table.                               *)
TypeOK ==
  /\ mem \in MemOps \cup {None} /\ sfence \in {"none", "ex", "mem", "wb"}
  /\ ist \in {"IDLE", "MMU_WAIT", "PHYS_REQ", "PHYS_WAIT", "FAULT_RESP"}
  /\ dst \in {"IDLE", "MMU_WAIT", "PHYS_REQ", "PHYS_WAIT", "FAULT_RESP"}
  /\ ito \in Target \cup {None} /\ dto \in Target \cup {None}
  /\ dq \in MemOps \cup {None}
  /\ mst \in {"IDLE", "LOOKUP", "PTW_REQ", "PTW_WAIT", "REFILL", "RESP"}
  /\ mresp \in Outcome \cup {None} /\ presp \in Outcome \cup {None}
  /\ pst \in {"IDLE", "PTE_REQ", "PTE_WAIT", "AD_UPDATE_REQ", "AD_UPDATE_WAIT", "RESP"}
  /\ level \in 0 .. Levels - 1 /\ pmask \subseteq Bits /\ ptwPending \in BOOLEAN
  /\ tlb \in [{"I", "D"} -> SUBSET Pte]
  /\ rst \in {"IDLE", "CACHE_WAIT", "UNCACHED_WAIT", "ERR_RESP"}
  /\ cache.st \in {"idle", "busy", "resp", "flush", "flush_done", "cbo", "cbo_done"}
  /\ pte \in Pte /\ recent \subseteq Pte

\* The router and the walker raise their requests for one cycle and look at no
\* ready: whenever either does, whoever it asks must be able to take it, and
\* the two never ask in the same cycle.
NoLostRequest ==
  /\ CacheReq => cache.st \in {"idle", "resp", "flush_done"} /\ ~Fencing /\ ~CboReq
  /\ ~(PteIssue /\ RouterCacheReq)
  /\ RouterReq => rst = "IDLE"
  /\ RouterUncachedReq => uncached.st = "idle"

\* "A PTW transaction owns the D-Cache response while ptw_pending_q is set": an
\* answer of the shared port goes to the side that asked, which still waits.
AnswerReachesItsOwner ==
  cache.st = "resp" =>
    IF cache.owner = "ptw" THEN ptwPending /\ pst \in {"PTE_WAIT", "AD_UPDATE_WAIT"}
    ELSE ~ptwPending /\ rst = "CACHE_WAIT" /\ dst = "PHYS_WAIT"

\* No translation outlives an SFENCE.VMA: an entry is the image of a value the
\* PTE has had since the last one, although walks run ahead of the pipeline
\* and the flush does not wait for the walk in progress.
TlbIsRecent == tlb["I"] \cup tlb["D"] \subseteq recent

\* Every write that went through a translation was allowed by a PTE with W
\* set ("Sv39 permits hardware to set A on every leaf access and D on stores").
Writes(op) == op # None /\ op.op \in {"STORE", "AMO"}
WriteIsAllowed ==
  DAnswered /\ mresp.fault = "none" /\ mresp.by # None /\ Writes(dq) =>
    mresp.by.w /\ "D" \in mresp.by.ad

\* An error of the memory system reaches the program as a trap.
FailureIsReported == retired # None /\ retired.err => retired.trap

\* Every fetch is answered, every operation of MEM ends, and so does every
\* FENCE, while the caches, the walker and both ports wait on each other.
FetchAnswered == ist = "MMU_WAIT" ~> ist = "IDLE"
OperationEnds == mem # None ~> retired # None
=============================================================================
