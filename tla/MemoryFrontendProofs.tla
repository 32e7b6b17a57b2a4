------------------------ MODULE MemoryFrontendProofs ------------------------
(* Theorems about the memory frontend, for every set of operations, fetches   *)
(* and PTEs, every number of page-table levels and every pattern of memory    *)
(* errors: no request of the walker or the router is lost, an answer of the   *)
(* shared port reaches who asked, no translation outlives an SFENCE.VMA, and  *)
(* a translated store is allowed by a PTE with W and D set.                   *)
EXTENDS MemoryFrontend, TLAPS

(* The inductive invariant, one part per pair of FSMs that hold each other's  *)
(* state.                                                                     *)
CacheType == [st : {"idle", "busy", "resp", "flush", "flush_done", "cbo", "cbo_done"},
              owner : {"cpu", "ptw", None},
              op : MemOps \cup {[op |-> "READ"], [op |-> "OR"], None},
              err : BOOLEAN, rdata : Pte \cup {None}]
Request == [bare : BOOLEAN, canon : BOOLEAN, to : Target,
            access : {"FETCH", "LOAD", "STORE"}, cbo : BOOLEAN]

Types ==
  /\ TypeOK /\ cache \in CacheType /\ mside \in {"I", "D"}
  /\ mst # "IDLE" => mreq \in Request
  /\ mst \in {"REFILL", "RESP"} => mresp \in Outcome
  /\ pst = "RESP" => presp \in Outcome

\* The data port works on the operation MEM holds, and never on a FENCE.
DataPort == dst # "IDLE" => mem # None /\ ~Fencing /\ dq = mem

\* The port that waits for the MMU is the one it works for.
Translating ==
  /\ ist = "MMU_WAIT" <=> mst # "IDLE" /\ mside = "I"
  /\ dst = "MMU_WAIT" <=> mst # "IDLE" /\ mside = "D"
  /\ dst = "MMU_WAIT" => mreq = Translation(dq, Access(dq.op))

\* The walker works while the MMU waits for it, on translated accesses only.
Walking ==
  /\ pst # "IDLE" <=> mst = "PTW_WAIT"
  /\ mst \in {"PTW_REQ", "PTW_WAIT", "REFILL"} => ~mreq.bare
  /\ ptwPending => pst \in {"PTE_WAIT", "AD_UPDATE_WAIT"}

\* The router works while the data port waits for it.
Routing == /\ rst # "IDLE" <=> dst = "PHYS_WAIT" /\ ~IsCbo(dq)
           /\ uncached.st # "idle" => rst = "UNCACHED_WAIT"

\* Who waits for the shared port of the data cache.
Owned ==
  /\ cache.st \in {"busy", "resp"} =>
       \/ /\ cache.owner = "ptw" /\ ptwPending
          /\ \/ pst = "PTE_WAIT" /\ cache.op.op = "READ"
             \/ pst = "AD_UPDATE_WAIT" /\ cache.op.op = "OR"
       \/ /\ cache.owner = "cpu" /\ ~ptwPending
          /\ rst = "CACHE_WAIT" /\ dst = "PHYS_WAIT" /\ cache.op = dq
  /\ cache.st = "flush" => Fencing
  /\ cache.st \in {"cbo", "cbo_done"} => dst = "PHYS_WAIT" /\ IsCbo(dq)

\* From the read of a PTE to the refill nothing but the walker uses the port.
Reading == \/ pst \in {"PTE_WAIT", "AD_UPDATE_REQ", "AD_UPDATE_WAIT"}
           \/ pst = "RESP" /\ presp.fault = "none"
           \/ mst = "REFILL"
Alone == Reading => dst = "MMU_WAIT" \/ (dst = "IDLE" /\ ist = "MMU_WAIT")

\* So what the walker has read is what the PTE holds, ...
Image ==
  /\ cache.st = "resp" /\ cache.owner = "ptw" /\ ~cache.err =>
       /\ cache.rdata \in Pte
       /\ pst = "PTE_WAIT" => cache.rdata = pte
       /\ pst = "AD_UPDATE_WAIT" => [cache.rdata EXCEPT !.ad = @ \cup pmask] = pte
  /\ pst \in {"AD_UPDATE_REQ", "AD_UPDATE_WAIT"} =>
       Permitted(pte, mreq.access) /\ Needed(mreq) \subseteq pte.ad \cup pmask
  /\ pst = "RESP" /\ presp.fault = "none" => presp.by = pte
  /\ mst = "REFILL" => mresp.by = pte /\ mresp.fault = "none"

\* ... and an answer that grants an access rests on an image that allows it.
Allows(a, req) == IF req.bare THEN a.by = None
                  ELSE /\ a.by # None /\ Permitted(a.by, req.access)
                       /\ Needed(req) \subseteq a.by.ad
Granted ==
  /\ pst = "RESP" /\ presp.fault = "none" => Allows(presp, mreq)
  /\ mst \in {"REFILL", "RESP"} /\ mresp.fault = "none" => Allows(mresp, mreq)

History == pte \in recent /\ TlbIsRecent

IInv == Types /\ DataPort /\ Translating /\ Walking /\ Routing /\ Owned /\ Alone
        /\ Image /\ Granted /\ History

-----------------------------------------------------------------------------
(* The initial states.                                                        *)
LEMMA InitInv == Init => IInv
<1> SUFFICES ASSUME Init PROVE IInv
  OBVIOUS
<1>1. Types
  <2>1. level \in 0 .. Levels - 1
    BY LevelsAssumption DEF Init
  <2>2. cache \in CacheType /\ cache.st = "idle"
    BY DEF Init, CacheType, IdleCache
  <2>3. tlb \in [{"I", "D"} -> SUBSET Pte] /\ pte \in Pte /\ recent \subseteq Pte
    BY PteAssumption DEF Init
  <2>4. TypeOK
    BY <2>1, <2>2, <2>3 DEF Init, TypeOK
  <2> QED BY <2>2, <2>4 DEF Init, Types
<1>2. DataPort /\ Translating /\ Walking /\ Routing /\ Owned
  BY DEF Init, DataPort, Translating, Walking, Routing, Owned, IdleCache
<1>3. Alone /\ Image /\ Granted /\ History
  BY DEF Init, Alone, Reading, Image, Granted, History, TlbIsRecent, IdleCache
<1> QED BY <1>1, <1>2, <1>3 DEF IInv

-----------------------------------------------------------------------------
(* What the ports see of an operation while it stays in MEM.                  *)

(* MEM holds its operation until it is answered.                              *)
LEMMA MemHolds == ASSUME CoreEdge, mem # None, ~MemDone PROVE mem' = mem
BY DEF CoreEdge

(* A FENCE holds MEM until the cache is written back.                         *)
LEMMA FenceHolds ==
  ASSUME CoreEdge, Fencing, cache.st # "flush_done" PROVE Fencing'
<1>1. mem' = mem
  BY MemHolds DEF MemDone, FenceDone, Fencing
<1> QED BY <1>1 DEF Fencing

(* An operation of the data port stays in MEM while the port works on it.     *)
LEMMA OperationHolds ==
  ASSUME CoreEdge, mem # None, ~Fencing, ~DataDone
  PROVE  mem' = mem /\ ~Fencing'
<1>1. mem' = mem
  BY MemHolds DEF MemDone
<1> QED BY <1>1 DEF Fencing

LEMMA DataPortStep ==
  ASSUME DataPort, NEW f, CoreEdge, DEdge(f) PROVE DataPort'
<1>1. CASE DAccepted(f)
  <2>1. mem # None /\ ~Fencing /\ dst = "IDLE" /\ dq' = mem
    BY <1>1 DEF DAccepted, DAccept
  <2>2. mem' = mem /\ ~Fencing'
    BY <2>1, OperationHolds DEF DataDone
  <2> QED BY <2>1, <2>2 DEF DataPort
<1>2. CASE DTranslated \/ DIssued \/ DHold(f)
  <2>1. CASE dst = "IDLE"
    <3>1. dst' = "IDLE"
      BY <1>2, <2>1 DEF DTranslated, DAnswered, DIssued, DHold, dVars
    <3> QED BY <3>1 DEF DataPort
  <2>2. CASE dst # "IDLE"
    <3>1. ~DataDone /\ dq' = dq
      BY <1>2 DEF DTranslated, DAnswered, DIssued, DHold, DataDone, dVars
    <3>2. mem' = mem /\ ~Fencing' /\ dq = mem /\ mem # None
      BY <2>2, <3>1, OperationHolds DEF DataPort
    <3> QED BY <3>1, <3>2 DEF DataPort
  <2> QED BY <2>1, <2>2
<1>3. CASE DDone
  BY <1>3 DEF DDone, DataPort
<1> QED BY <1>1, <1>2, <1>3 DEF DEdge

(* A port waits for the MMU from the edge that accepts its request to the     *)
(* edge that answers it.                                                      *)
LEMMA FetchWaits ==
  ASSUME NEW f, IEdge(f)
  PROVE  ist' = "MMU_WAIT" <=> IAccept(f) \/ (ist = "MMU_WAIT" /\ ~IAnswered)
BY DEF IEdge, IAccepted, ITranslated, IIssued, IDone, IHold, IAccept, ImemReady,
       IAnswered, iVars

LEMMA DataWaits ==
  ASSUME NEW f, DEdge(f)
  PROVE  /\ dst' = "MMU_WAIT" <=> DAccept(f) \/ (dst = "MMU_WAIT" /\ ~DAnswered)
         /\ DAccept(f) => dq' = mem
         /\ dst = "MMU_WAIT" /\ ~DAnswered => dq' = dq
BY DEF DEdge, DAccepted, DTranslated, DIssued, DDone, DHold, DAccept, DAnswered,
       DataDone, dVars

(* The MMU works for one port from its acceptance to its answer.              *)
LEMMA MmuWorks ==
  ASSUME NEW f, MmuEdge(f)
  PROVE  \/ /\ IAccept(f) /\ ~DAccept(f) /\ mst = "IDLE"
            /\ mst' = "LOOKUP" /\ mside' = "I"
            /\ mreq' = [bare |-> f.bare, canon |-> f.canon, to |-> f.to,
                        access |-> "FETCH", cbo |-> FALSE]
         \/ /\ DAccept(f) /\ ~IAccept(f) /\ mst = "IDLE"
            /\ mst' = "LOOKUP" /\ mside' = "D"
            /\ mreq' = Translation(mem, Access(mem.op))
         \/ /\ ~IAccept(f) /\ ~DAccept(f) /\ mst # "IDLE"
            /\ mst' # "IDLE" /\ UNCHANGED <<mside, mreq>> /\ ~IAnswered /\ ~DAnswered
         \/ /\ ~IAccept(f) /\ ~DAccept(f) /\ mst' = "IDLE"
            /\ mst = "IDLE" \/ IAnswered \/ DAnswered
BY DEF MmuEdge, MmuAccept, MmuBare, MmuHit, MmuMiss, MmuWalk, MmuWalked, MmuRefill,
       MmuTaken, MmuHold, IAccept, DAccept, ImemReady, IAnswered, DAnswered, mmuVars

LEMMA TranslatingStep ==
  ASSUME Translating, NEW f, IEdge(f), DEdge(f), MmuEdge(f) PROVE Translating'
<1> DEFINE I == (ist' = "MMU_WAIT" <=> IAccept(f) \/ (ist = "MMU_WAIT" /\ ~IAnswered))
           D == (dst' = "MMU_WAIT" <=> DAccept(f) \/ (dst = "MMU_WAIT" /\ ~DAnswered))
<1>1. I /\ D
  BY FetchWaits, DataWaits
<1>2. mst = "IDLE" => ist # "MMU_WAIT" /\ dst # "MMU_WAIT"
  BY DEF Translating
<1>3. IAnswered => mst = "RESP" /\ mside = "I" /\ dst # "MMU_WAIT"
  BY DEF IAnswered, Translating
<1>4. DAnswered => mst = "RESP" /\ mside = "D" /\ ist # "MMU_WAIT"
  BY DEF DAnswered, Translating
<1>5. CASE IAccept(f)
  BY <1>1, <1>2, <1>5, MmuWorks DEF Translating
<1>6. CASE DAccept(f)
  <2>1. /\ mst = "IDLE" /\ mst' = "LOOKUP" /\ mside' = "D" /\ ~IAccept(f)
        /\ mreq' = Translation(mem, Access(mem.op))
    BY <1>6, MmuWorks DEF DAccept
  <2>2. dq' = mem
    BY <1>6, DataWaits
  <2>3. ist' # "MMU_WAIT" /\ dst' = "MMU_WAIT"
    BY <1>1, <1>2, <1>6, <2>1
  <2>4. (Translation(dq, Access(dq.op)))' = Translation(mem, Access(mem.op))
    BY <2>2 DEF Translation, Access, IsCbo
  <2> QED BY <2>1, <2>3, <2>4 DEF Translating
<1>7. CASE ~IAccept(f) /\ ~DAccept(f) /\ mst' # "IDLE"
  <2>1. mst # "IDLE" /\ UNCHANGED <<mside, mreq>> /\ ~IAnswered /\ ~DAnswered
    BY <1>7, MmuWorks
  <2>2. (ist' = "MMU_WAIT" <=> ist = "MMU_WAIT") /\ (dst' = "MMU_WAIT" <=> dst = "MMU_WAIT")
    BY <1>1, <1>7, <2>1
  <2>3. dst = "MMU_WAIT" => (Translation(dq, Access(dq.op)))' = Translation(dq, Access(dq.op))
    BY <2>1, DataWaits DEF Translation, Access, IsCbo
  <2> QED BY <1>7, <2>1, <2>2, <2>3 DEF Translating
<1>8. CASE ~IAccept(f) /\ ~DAccept(f) /\ mst' = "IDLE"
  BY <1>1, <1>2, <1>3, <1>4, <1>8, MmuWorks DEF Translating, IAnswered, DAnswered
<1> QED BY <1>5, <1>6, <1>7, <1>8

(* The walker starts when the MMU asks and rests when the MMU has taken its   *)
(* answer.                                                                    *)
LEMMA WalkerMoves ==
  ASSUME Walking, NEW f, MmuEdge(f), PtwEdge
  PROVE  (pst' # "IDLE") <=> (mst' = "PTW_WAIT")
<1>1. CASE pst = "IDLE"
  BY <1>1 DEF Walking, PtwEdge, WalkStart, WalkIssue, WalkError, WalkDown, WalkLeaf,
     WalkUpdated, WalkTaken, WalkHold, MmuEdge, MmuAccept, IAccept, DAccept, ImemReady,
     MmuBare, MmuHit, MmuMiss, MmuWalk, MmuWalked, MmuRefill, MmuTaken, MmuHold,
     IAnswered, DAnswered, mmuVars, ptwVars
<1>2. CASE pst = "RESP"
  BY <1>2 DEF Walking, PtwEdge, WalkStart, WalkIssue, WalkError, WalkDown, WalkLeaf,
     WalkUpdated, WalkTaken, WalkHold, MmuEdge, MmuAccept, IAccept, DAccept, ImemReady,
     MmuBare, MmuHit, MmuMiss, MmuWalk, MmuWalked, MmuRefill, MmuTaken, MmuHold,
     IAnswered, DAnswered, mmuVars
<1>3. CASE pst \notin {"IDLE", "RESP"}
  <2>1. pst' # "IDLE"
    BY <1>3 DEF PtwEdge, WalkStart, WalkIssue, WalkError, WalkDown, WalkLeaf,
       WalkUpdated, WalkTaken, WalkHold, ptwVars
  <2>2. mst' = "PTW_WAIT"
    BY <1>3 DEF Walking, MmuEdge, MmuAccept, IAccept, DAccept, ImemReady, MmuBare,
       MmuHit, MmuMiss, MmuWalk, MmuWalked, MmuRefill, MmuTaken, MmuHold, IAnswered,
       DAnswered, mmuVars
  <2> QED BY <2>1, <2>2
<1> QED BY <1>1, <1>2, <1>3

LEMMA WalkingStep ==
  ASSUME Walking, NEW f, MmuEdge(f), PtwEdge, PendingEdge PROVE Walking'
<1>1. (mst \in {"PTW_REQ", "PTW_WAIT", "REFILL"} => ~mreq.bare)'
  BY DEF Walking, MmuEdge, MmuAccept, MmuBare, MmuHit, MmuMiss, MmuWalk, MmuWalked,
     MmuRefill, MmuTaken, MmuHold, mmuVars
<1>2. (ptwPending => pst \in {"PTE_WAIT", "AD_UPDATE_WAIT"})'
  <2>1. CASE PteIssue
    BY <2>1 DEF Walking, PteIssue, PtwEdge, WalkStart, WalkIssue, WalkError, WalkDown,
       WalkLeaf, WalkUpdated, WalkTaken, WalkHold
  <2>2. CASE ~PteIssue /\ ptwPending /\ ~PteResp
    BY <2>2 DEF Walking, PtwEdge, WalkStart, WalkIssue, WalkError, WalkDown,
       WalkLeaf, WalkUpdated, WalkTaken, WalkHold, ptwVars
  <2> QED BY <2>1, <2>2 DEF PendingEdge
<1> QED BY <1>1, <1>2, WalkerMoves DEF Walking

-----------------------------------------------------------------------------
(* The router and what answers it.                                            *)

(* The router is busy from a request to its answer.                           *)
LEMMA RouterMoves ==
  ASSUME RouterEdge
  PROVE  /\ rst = "IDLE" => (rst' = "IDLE" <=> ~RouterReq)
         /\ rst # "IDLE" => rst' = IF RouterResp THEN "IDLE" ELSE rst
         /\ RouterCacheReq => rst' = "CACHE_WAIT"
         /\ RouterUncachedReq => rst' = "UNCACHED_WAIT"
<1> DEFINE C == RouterCacheReq
           U == RouterUncachedReq
           E == RouterReq /\ dq.op = "AMO" /\ ~Cacheable(dto)
<1>a. /\ C => RouterReq /\ ~U /\ ~E
      /\ U => RouterReq /\ ~C /\ ~E
      /\ rst = "IDLE" => (RouterReq <=> C \/ U \/ E)
  BY DEF RouterCacheReq, RouterUncachedReq
<1>b. rst = "IDLE" => rst' = CASE C -> "CACHE_WAIT" [] U -> "UNCACHED_WAIT"
                               [] E -> "ERR_RESP" [] OTHER -> "IDLE"
  BY DEF RouterEdge, RouterResp, RouterCacheResp, RouterUncachedResp
<1> HIDE DEF C, U, E
<1>1. CASE rst = "IDLE" /\ C
  BY <1>1, <1>a, <1>b DEF C, U
<1>2. CASE rst = "IDLE" /\ U
  BY <1>2, <1>a, <1>b DEF C, U
<1>3. CASE rst = "IDLE" /\ ~C /\ ~U
  BY <1>3, <1>a, <1>b DEF C, U
<1>4. CASE rst # "IDLE"
  BY <1>4 DEF RouterEdge, RouterCacheReq, RouterUncachedReq
<1> QED BY <1>1, <1>2, <1>3, <1>4 DEF C, U

(* The data port enters PHYS_WAIT with a request and leaves it with the       *)
(* answer.                                                                    *)
LEMMA DataAccesses ==
  ASSUME NEW f, DEdge(f)
  PROVE  /\ RouterReq => dst' = "PHYS_WAIT" /\ dq' = dq
         /\ dst = "PHYS_REQ" => dq' = dq /\ dst' \in {"PHYS_REQ", "PHYS_WAIT"}
         /\ dst = "PHYS_WAIT" /\ ~DataDone => dst' = "PHYS_WAIT" /\ dq' = dq
         /\ DataDone => dst' = "IDLE"
         /\ dst \notin {"PHYS_REQ", "PHYS_WAIT"} => dst' # "PHYS_WAIT"
         /\ dst = "IDLE" /\ ~DAccept(f) => dst' = "IDLE"
BY DEF DEdge, DAccepted, DTranslated, DIssued, DDone, DHold, DAccept, DAnswered,
       DataDone, RouterReq, dVars

LEMMA RoutingStep ==
  ASSUME Routing, NEW f, DEdge(f), RouterEdge, UncachedEdge PROVE Routing'
<1>1. (rst # "IDLE" <=> dst = "PHYS_WAIT" /\ ~IsCbo(dq))'
  <2>1. CASE dst = "PHYS_REQ"
    <3>1. rst = "IDLE" /\ dq' = dq
      BY <2>1, DataAccesses DEF Routing
    <3>2. CASE RouterReq
      BY <3>1, <3>2, RouterMoves, DataAccesses DEF RouterReq, IsCbo
    <3>3. CASE IsCbo(dq)
      BY <3>1, <3>3, RouterMoves DEF RouterReq, IsCbo
    <3> QED BY <2>1, <3>2, <3>3 DEF RouterReq
  <2>2. CASE dst = "PHYS_WAIT" /\ IsCbo(dq)
    BY <2>2, RouterMoves, DataAccesses DEF Routing, RouterReq, IsCbo
  <2>3. CASE dst = "PHYS_WAIT" /\ ~IsCbo(dq)
    <3>1. rst # "IDLE" /\ (DataDone <=> RouterResp)
      BY <2>3 DEF Routing, DataDone
    <3>2. CASE RouterResp
      BY <3>1, <3>2, RouterMoves, DataAccesses
    <3>3. CASE ~RouterResp
      BY <2>3, <3>1, <3>3, RouterMoves, DataAccesses DEF IsCbo
    <3> QED BY <3>2, <3>3
  <2>4. CASE dst \notin {"PHYS_REQ", "PHYS_WAIT"}
    BY <2>4, RouterMoves, DataAccesses DEF Routing, RouterReq
  <2> QED BY <2>1, <2>2, <2>3, <2>4
<1>2. (uncached.st # "idle" => rst = "UNCACHED_WAIT")'
  <2>1. CASE RouterUncachedReq
    BY <2>1, RouterMoves
  <2>2. CASE ~RouterUncachedReq /\ uncached.st = "idle"
    BY <2>2 DEF UncachedEdge
  <2>3. CASE ~RouterUncachedReq /\ uncached.st = "resp"
    BY <2>3 DEF UncachedEdge
  <2>4. CASE ~RouterUncachedReq /\ uncached.st \notin {"idle", "resp"}
    <3>1. rst = "UNCACHED_WAIT" /\ ~RouterResp
      BY <2>4 DEF Routing, RouterResp, RouterCacheResp, RouterUncachedResp
    <3> QED BY <3>1, RouterMoves
  <2> QED BY <2>1, <2>2, <2>3, <2>4
<1> QED BY <1>1, <1>2 DEF Routing

-----------------------------------------------------------------------------
(* The shared port of the data cache.                                         *)

(* While a walk reads, the data port is idle or waits for that walk.          *)
LEMMA WalkExcludesData ==
  ASSUME Walking, Alone
  PROVE  /\ ptwPending => dst \in {"IDLE", "MMU_WAIT"}
         /\ PteIssue => dst \in {"IDLE", "MMU_WAIT"} /\ ~Fencing /\ ~ptwPending
BY DEF Walking, Alone, Reading, PteIssue, PteReqReady

LEMMA WalkerWaits ==
  ASSUME Owned, cache.st = "busy", cache.owner = "ptw", PtwEdge, PendingEdge
  PROVE  ptwPending' /\ UNCHANGED <<pst, pmask>>
<1>1. ptwPending /\ pst \in {"PTE_WAIT", "AD_UPDATE_WAIT"} /\ ~PteResp
  BY DEF Owned, PteResp
<1>2. ptwPending'
  BY <1>1 DEF PendingEdge
<1>3. UNCHANGED <<pst, pmask>>
  BY <1>1 DEF PtwEdge, WalkStart, WalkIssue, WalkError, WalkDown, WalkLeaf,
     WalkUpdated, WalkTaken, WalkHold, ptwVars
<1> QED BY <1>2, <1>3

LEMMA CpuWaits ==
  ASSUME Owned, Walking, Alone, Routing, cache.st = "busy", cache.owner # "ptw",
         NEW f, DEdge(f), RouterEdge, PendingEdge
  PROVE  ~ptwPending' /\ rst' = "CACHE_WAIT" /\ dst' = "PHYS_WAIT" /\ dq' = dq
<1>1. ~ptwPending /\ rst = "CACHE_WAIT" /\ dst = "PHYS_WAIT"
  BY DEF Owned
<1>2. ~PteIssue /\ ~RouterResp
  BY <1>1, WalkExcludesData DEF RouterResp, RouterCacheResp, RouterUncachedResp
<1>3. ~DataDone
  BY <1>1, <1>2 DEF DataDone, Routing
<1> QED BY <1>1, <1>2, <1>3, RouterMoves, DataAccesses DEF PendingEdge

LEMMA CboWaits ==
  ASSUME Owned, cache.st = "cbo", NEW f, DEdge(f)
  PROVE  dst' = "PHYS_WAIT" /\ IsCbo(dq')
<1>1. dst = "PHYS_WAIT" /\ IsCbo(dq) /\ ~DataDone
  BY DEF Owned, DataDone, CboDone
<1> QED BY <1>1, DataAccesses DEF IsCbo

(* The cache takes a request of the walker or of the router.                  *)
LEMMA TakenIsOwned ==
  ASSUME Walking, Alone, NEW f, DEdge(f), PtwEdge, PendingEdge, RouterEdge, CacheTakesCpu
  PROVE  Owned'
<1>1. CASE PteIssue
  <2>1. cache'.st = "busy" /\ cache'.owner = "ptw"
        /\ cache'.op = [op |-> IF pst = "PTE_REQ" THEN "READ" ELSE "OR"]
    BY <1>1 DEF CacheTakesCpu, CacheOwner, CacheOp, IdleCache
  <2>2. ptwPending' /\ pst' = IF pst = "PTE_REQ" THEN "PTE_WAIT" ELSE "AD_UPDATE_WAIT"
    BY <1>1 DEF PendingEdge, PteIssue, PtwEdge, WalkStart, WalkIssue, WalkError,
       WalkDown, WalkLeaf, WalkUpdated, WalkTaken, WalkHold
  <2> QED BY <2>1, <2>2 DEF Owned
<1>2. CASE ~PteIssue
  <2>1. RouterCacheReq
    BY <1>2 DEF CacheTakesCpu, CacheReq
  <2>2. cache'.st = "busy" /\ cache'.owner = "cpu" /\ cache'.op = dq
    BY <1>2 DEF CacheTakesCpu, CacheOwner, CacheOp, IdleCache
  <2>3. ~ptwPending' /\ rst' = "CACHE_WAIT" /\ dst' = "PHYS_WAIT" /\ dq' = dq
    BY <1>2, <2>1, WalkExcludesData, RouterMoves, DataAccesses
       DEF PendingEdge, RouterCacheReq, RouterReq
  <2> QED BY <2>2, <2>3 DEF Owned
<1> QED BY <1>1, <1>2

LEMMA OwnedStep ==
  ASSUME IInv, NEW f, CoreEdge, DEdge(f), PtwEdge, PendingEdge, RouterEdge, CacheEdge
  PROVE  Owned'
<1> USE DEF IInv
<1>1. CASE CacheTakesCpu
  BY <1>1, TakenIsOwned
<1>2. CASE CacheTakesFlush
  <2>1. cache'.st = "flush"
    BY <1>2 DEF CacheTakesFlush, IdleCache
  <2>2. Fencing'
    BY <1>2, FenceHolds DEF CacheTakesFlush
  <2> QED BY <2>1, <2>2 DEF Owned
<1>3. CASE CacheTakesCbo
  <2>1. cache'.st = "cbo"
    BY <1>3 DEF CacheTakesCbo, IdleCache
  <2>2. CboReady
    BY <1>3, WalkExcludesData DEF CacheTakesCbo, CboReady, CacheReq, CboReq,
       RouterCacheReq, RouterReq
  <2>3. dst' = "PHYS_WAIT" /\ dq' = dq /\ IsCbo(dq)
    BY <1>3, <2>2 DEF CacheTakesCbo, CboReq, DEdge, DAccepted, DAccept, DTranslated,
       DAnswered, DIssued, DDone, DataDone, DHold
  <2> QED BY <2>1, <2>3 DEF Owned, IsCbo
<1>4. CASE CachePerforms
  <2>1. cache.st = "busy" /\ cache'.st = "resp" /\ cache'.owner = cache.owner
        /\ cache'.op = cache.op
    BY <1>4 DEF CachePerforms, Types, CacheType
  <2> QED BY <2>1, WalkerWaits, CpuWaits DEF Owned
<1>5. CASE CacheMaintains
  <2>1. cache'.st = IF cache.st = "cbo" THEN "cbo_done" ELSE "flush_done"
    BY <1>5 DEF CacheMaintains, IdleCache
  <2> QED BY <1>5, <2>1, CboWaits DEF CacheMaintains, Owned
<1>6. CASE CacheGoesIdle
  BY <1>6 DEF CacheGoesIdle, IdleCache, Owned
<1>7. CASE CacheStays
  <2>1. cache' = cache /\ cache.st \in {"busy", "flush", "cbo", "idle", "flush_done"}
    BY <1>7 DEF CacheStays
  <2>2. CASE cache.st = "busy"
    BY <2>1, <2>2, WalkerWaits, CpuWaits DEF Owned
  <2>3. CASE cache.st = "flush"
    BY <2>1, <2>3, FenceHolds DEF Owned
  <2>4. CASE cache.st = "cbo"
    BY <2>1, <2>4, CboWaits DEF Owned
  <2>5. CASE cache.st \in {"idle", "flush_done"}
    BY <2>1, <2>5 DEF Owned
  <2> QED BY <2>1, <2>2, <2>3, <2>4, <2>5
<1> QED BY <1>1, <1>2, <1>3, <1>4, <1>5, <1>6, <1>7 DEF CacheEdge, CacheEnds

-----------------------------------------------------------------------------
(* A walk has the port for itself.                                            *)

(* A walk starts to read when it is issued, and the MMU waits for it.         *)
LEMMA ReadingBegins ==
  ASSUME Walking, NEW f, MmuEdge(f), PtwEdge, Reading'
  PROVE  (Reading \/ PteIssue) /\ mst \in {"PTW_WAIT", "REFILL"}
<1>1. CASE pst' \in {"PTE_WAIT", "AD_UPDATE_REQ", "AD_UPDATE_WAIT"}
  BY <1>1 DEF Walking, Reading, PteIssue, PtwEdge, WalkStart, WalkIssue, WalkError,
     WalkDown, WalkLeaf, WalkUpdated, WalkTaken, WalkHold, ptwVars
<1>2. CASE pst' = "RESP" /\ presp'.fault = "none"
  BY <1>2 DEF Walking, Reading, PtwEdge, WalkStart, WalkIssue, WalkError,
     WalkDown, WalkLeaf, WalkUpdated, WalkTaken, WalkHold, ptwVars, Fault
<1>3. CASE mst' = "REFILL"
  BY <1>3 DEF Walking, Reading, MmuEdge, MmuAccept, MmuBare, MmuHit, MmuMiss, MmuWalk,
     MmuWalked, MmuRefill, MmuTaken, MmuHold, mmuVars
<1> QED BY <1>1, <1>2, <1>3 DEF Reading

LEMMA AloneStep ==
  ASSUME Walking, Alone, NEW f, IEdge(f), DEdge(f), MmuEdge(f), PtwEdge PROVE Alone'
<1> SUFFICES ASSUME Reading'
             PROVE  dst' = "MMU_WAIT" \/ (dst' = "IDLE" /\ ist' = "MMU_WAIT")
  BY DEF Alone
<1>1. mst \in {"PTW_WAIT", "REFILL"}
  BY ReadingBegins
<1>2. dst = "MMU_WAIT" \/ (dst = "IDLE" /\ ist = "MMU_WAIT")
  BY ReadingBegins DEF Alone, PteIssue, PteReqReady
<1>3. ~IAnswered /\ ~DAnswered /\ ~DAccept(f)
  BY <1>1 DEF IAnswered, DAnswered, DAccept
<1> QED BY <1>2, <1>3, FetchWaits, DataWaits, DataAccesses

(* So the PTE changes under a walk by the walk's own update only, ...         *)
LEMMA PteIsStable ==
  ASSUME Owned, Alone, Reading, CacheEdge, pte' # pte
  PROVE  /\ cache.st = "busy" /\ cache.owner = "ptw" /\ pst = "AD_UPDATE_WAIT"
         /\ pte' = [pte EXCEPT !.ad = @ \cup pmask]
<1>1. CachePerforms /\ cache.st = "busy"
  BY DEF CacheEdge, CacheTakesCpu, CacheTakesFlush, CacheTakesCbo, CacheEnds,
     CacheMaintains, CacheGoesIdle, CacheStays, CachePerforms
<1>2. dst # "PHYS_WAIT"
  BY DEF Alone
<1>3. pte' = Performed(cache.op)
  BY <1>1 DEF CachePerforms
<1>4. cache.owner = "ptw" /\ pst = "AD_UPDATE_WAIT" /\ cache.op.op = "OR"
  <2>1. pst = "PTE_WAIT" /\ cache.op.op = "READ" => pte' = pte
    BY <1>3 DEF Performed
  <2> QED BY <1>1, <1>2, <2>1 DEF Owned
<1> QED BY <1>1, <1>3, <1>4 DEF Performed

(* ... and not on the edge that answers it.                                   *)
LEMMA PteIsKept == ASSUME CacheEdge, cache.st # "busy" PROVE pte' = pte
BY DEF CacheEdge, CacheTakesCpu, CacheTakesFlush, CacheTakesCbo, CacheEnds,
   CachePerforms, CacheMaintains, CacheGoesIdle, CacheStays

(* The request the MMU works on does not change under a walk.                 *)
LEMMA RequestIsKept ==
  ASSUME NEW f, MmuEdge(f), mst \notin {"IDLE", "RESP"}
  PROVE  UNCHANGED <<mside, mreq>>
BY MmuWorks DEF IAccept, DAccept, ImemReady, IAnswered, DAnswered

(* What the walker is handed is the PTE.                                      *)
LEMMA WalkerReads ==
  ASSUME Owned, Image, PteResp, ~cache.err
  PROVE  /\ cache.rdata \in Pte
         /\ pst = "PTE_WAIT" => cache.rdata = pte
         /\ pst = "AD_UPDATE_WAIT" => [cache.rdata EXCEPT !.ad = @ \cup pmask] = pte
BY DEF PteResp, Owned, Image

(* The answer of the cache to the walker.                                     *)
LEMMA AnswerIsImage ==
  ASSUME IInv, PtwEdge, PendingEdge, CacheEdge,
         cache'.st = "resp", cache'.owner = "ptw", ~cache'.err
  PROVE  /\ cache'.rdata \in Pte
         /\ pst' = "PTE_WAIT" => cache'.rdata = pte'
         /\ pst' = "AD_UPDATE_WAIT" => [cache'.rdata EXCEPT !.ad = @ \cup pmask'] = pte'
<1> USE DEF IInv
<1>1. CachePerforms /\ cache.st = "busy"
  <2>1. ~CacheTakesCpu /\ ~CacheTakesFlush /\ ~CacheTakesCbo
    BY DEF CacheTakesCpu, CacheTakesFlush, CacheTakesCbo, IdleCache
  <2>2. ~CacheGoesIdle /\ ~CacheStays
    BY DEF CacheGoesIdle, CacheStays, IdleCache
  <2>3. CacheMaintains => cache'.st \in {"cbo_done", "flush_done"}
    BY DEF CacheMaintains, IdleCache
  <2> QED BY <2>1, <2>2, <2>3 DEF CacheEdge, CacheEnds, CachePerforms
<1>2. cache.owner = "ptw" /\ cache'.rdata = pte /\ pte' = Performed(cache.op)
  BY <1>1 DEF CachePerforms, Types, CacheType
<1>3. UNCHANGED <<pst, pmask>>
  BY <1>1, <1>2, WalkerWaits
<1>4. pte \in Pte
  BY DEF Types, TypeOK
<1>5. pst = "PTE_WAIT" => pte' = pte
  BY <1>1, <1>2 DEF Owned, Performed
<1>6. pst = "AD_UPDATE_WAIT" => pte' = [pte EXCEPT !.ad = @ \cup pmask]
  BY <1>1, <1>2 DEF Owned, Performed
<1> QED BY <1>2, <1>3, <1>4, <1>5, <1>6

(* Setting bits of a PTE takes no permission away.                            *)
LEMMA SettingBits ==
  ASSUME NEW p \in Pte, NEW b, NEW q, q = [p EXCEPT !.ad = @ \cup b]
  PROVE  q.v = p.v /\ q.w = p.w /\ q.ad = p.ad \cup b
<1>1. p \in PteType
  BY PteAssumption
<1> QED BY <1>1 DEF PteType

(* The walker decides on the PTE it has read, which is still the PTE.         *)
LEMMA UpdateIsPermitted ==
  ASSUME IInv, NEW f, MmuEdge(f), PtwEdge, PendingEdge, CacheEdge,
         pst' \in {"AD_UPDATE_REQ", "AD_UPDATE_WAIT"}
  PROVE  Permitted(pte', mreq'.access) /\ Needed(mreq') \subseteq pte'.ad \cup pmask'
<1> USE DEF IInv
<1>1. mst = "PTW_WAIT" /\ pst # "IDLE"
  BY DEF Walking, PtwEdge, WalkStart, WalkIssue, WalkError, WalkDown, WalkLeaf,
     WalkUpdated, WalkTaken, WalkHold, ptwVars
<1>2. mreq' = mreq
  BY <1>1, RequestIsKept
<1>3. pte \in Pte /\ pmask \in SUBSET Bits
  BY DEF Types, TypeOK
<1>4. CASE WalkLeaf
  <2>1. PteResp /\ ~cache.err /\ pst = "PTE_WAIT" /\ cache.st = "resp"
    BY <1>4 DEF WalkLeaf, PteResp
  <2>2. cache.rdata = pte /\ pte' = pte
    BY <2>1, WalkerReads, PteIsKept
  <2>3. Permitted(pte, mreq.access) /\ pmask' = Needed(mreq) \ pte.ad
    BY <1>4, <2>2 DEF WalkLeaf
  <2> QED BY <1>2, <2>2, <2>3
<1>5. CASE ~WalkLeaf
  <2>1. pst \in {"AD_UPDATE_REQ", "AD_UPDATE_WAIT"} /\ pmask' = pmask
    BY <1>1, <1>5 DEF PtwEdge, WalkStart, WalkIssue, WalkError, WalkDown, WalkUpdated,
       WalkTaken, WalkHold, ptwVars
  <2>2. Permitted(pte, mreq.access) /\ Needed(mreq) \subseteq pte.ad \cup pmask
    BY <2>1 DEF Image
  <2>3. pte' = pte \/ pte' = [pte EXCEPT !.ad = @ \cup pmask]
    BY <2>1, PteIsStable DEF Reading
  <2>4. Permitted(pte', mreq.access) /\ pte.ad \subseteq pte'.ad
    BY <1>3, <2>2, <2>3, SettingBits DEF Permitted
  <2> QED BY <1>2, <2>1, <2>2, <2>4
<1> QED BY <1>4, <1>5

(* What the walker answers without a fault: the PTE, which allows the access. *)
LEMMA WalkGrants ==
  ASSUME IInv, NEW f, MmuEdge(f), PtwEdge, CacheEdge,
         pst' = "RESP", presp'.fault = "none"
  PROVE  /\ presp' = Ok(pte'.to, pte') /\ pte' \in Pte /\ ~mreq'.bare
         /\ Permitted(pte', mreq'.access) /\ Needed(mreq') \subseteq pte'.ad
<1> USE DEF IInv
<1>1. WalkLeaf \/ WalkUpdated
  BY DEF PtwEdge, WalkStart, WalkIssue, WalkError, WalkDown, WalkTaken, WalkHold,
     ptwVars, Fault
<1>2. PteResp /\ ~cache.err /\ cache.st = "resp" /\ pst \in {"PTE_WAIT", "AD_UPDATE_WAIT"}
  BY <1>1 DEF WalkLeaf, WalkUpdated, PteResp
<1>3. pte' = pte /\ mreq' = mreq /\ ~mreq.bare
  <2>1. mst = "PTW_WAIT" /\ ~mreq.bare
    BY <1>2 DEF Walking
  <2> QED BY <1>2, <2>1, PteIsKept, RequestIsKept
<1>4. pte \in Pte /\ pte \in PteType /\ pmask \in SUBSET Bits
  BY PteAssumption DEF Types, TypeOK
<1>5. CASE WalkLeaf
  <2>1. cache.rdata = pte /\ pst = "PTE_WAIT"
    BY <1>2, <1>5, WalkerReads DEF WalkLeaf
  <2>2. /\ Permitted(pte, mreq.access) /\ Needed(mreq) \ pte.ad = {}
        /\ presp' = Ok(pte.to, pte)
    BY <1>5, <2>1 DEF WalkLeaf, Fault
  <2> QED BY <1>3, <1>4, <2>2
<1>6. CASE WalkUpdated
  <2>1. cache.rdata \in Pte /\ [cache.rdata EXCEPT !.ad = @ \cup pmask] = pte
        /\ pst = "AD_UPDATE_WAIT"
    BY <1>2, <1>6, WalkerReads DEF WalkUpdated
  <2>2. presp' = Ok(pte.to, pte)
    BY <1>6, <2>1 DEF WalkUpdated
  <2>3. pmask \subseteq pte.ad
    <3>1. pte.ad = cache.rdata.ad \cup pmask
      BY <2>1, SettingBits
    <3> QED BY <3>1
  <2>4. Permitted(pte, mreq.access) /\ Needed(mreq) \subseteq pte.ad \cup pmask
    BY <2>1 DEF Image
  <2> QED BY <1>3, <1>4, <2>2, <2>3, <2>4
<1> QED BY <1>1, <1>5, <1>6

(* What the MMU refills its TLBs with: the walker's answer.                   *)
LEMMA RefillIsImage ==
  ASSUME IInv, NEW f, MmuEdge(f), CacheEdge, mst' = "REFILL"
  PROVE  /\ mresp' = presp /\ presp.fault = "none" /\ pst = "RESP"
         /\ presp.by = pte /\ pte' = pte /\ mreq' = mreq
<1> USE DEF IInv
<1>1. MmuWalked
  BY DEF MmuEdge, MmuAccept, MmuBare, MmuHit, MmuMiss, MmuWalk, MmuWalked,
     MmuRefill, MmuTaken, MmuHold, mmuVars
<1>2. mresp' = presp /\ presp.fault = "none" /\ pst = "RESP" /\ mreq' = mreq
  BY <1>1 DEF MmuWalked
<1>3. pte' = pte
  BY <1>2, PteIsStable DEF Reading
<1> QED BY <1>2, <1>3 DEF Image

LEMMA ImageStep ==
  ASSUME IInv, NEW f, MmuEdge(f), PtwEdge, PendingEdge, CacheEdge PROVE Image'
<1>1. pst' = "RESP" /\ presp'.fault = "none" => presp'.by = pte'
  BY WalkGrants DEF Ok
<1>2. mst' = "REFILL" => mresp'.by = pte' /\ mresp'.fault = "none"
  BY RefillIsImage
<1> QED BY <1>1, <1>2, AnswerIsImage, UpdateIsPermitted DEF Image, Permitted, Needed

(* An answer without a fault rests on an image that allows the access.        *)
LEMMA GrantedStep ==
  ASSUME IInv, NEW f, MmuEdge(f), PtwEdge, CacheEdge PROVE Granted'
<1> USE DEF IInv
<1> DEFINE Grants(a, req) == IF req.bare THEN a.by = None
                             ELSE /\ a.by # None /\ Permitted(a.by, req.access)
                                  /\ Needed(req) \subseteq a.by.ad
<1>1. pst' = "RESP" /\ presp'.fault = "none" => Grants(presp', mreq')
  BY WalkGrants, NoneAssumption DEF Ok
<1>2. mst' \in {"REFILL", "RESP"} /\ mresp'.fault = "none" => Grants(mresp', mreq')
  <2> SUFFICES ASSUME mst' \in {"REFILL", "RESP"}, mresp'.fault = "none"
               PROVE  Grants(mresp', mreq')
    OBVIOUS
  <2>1. mreq' = mreq
    BY DEF MmuEdge, MmuAccept, MmuBare, MmuHit, MmuMiss, MmuWalk, MmuWalked, MmuRefill,
       MmuTaken, MmuHold, mmuVars
  <2>2. CASE MmuBare
    BY <2>1, <2>2 DEF MmuBare, Ok, Fault
  <2>3. CASE MmuHit
    <3>1. PICK p \in tlb[mside] :
             /\ Permitted(p, mreq.access) /\ Needed(mreq) \subseteq p.ad
             /\ mresp' = Ok(p.to, p)
      BY <2>3 DEF MmuHit, Fault
    <3>2. p # None
      BY NoneAssumption DEF Types, TypeOK
    <3> QED BY <2>1, <2>3, <3>1, <3>2 DEF MmuHit, Ok
  <2>4. CASE MmuWalked
    <3>1. pst = "RESP" /\ mresp' = presp
      BY <2>4 DEF MmuWalked
    <3> QED BY <2>1, <3>1 DEF Granted, Allows
  <2>5. CASE MmuRefill
    <3>1. mst = "REFILL" /\ mresp' = mresp
      BY <2>5 DEF MmuRefill
    <3> QED BY <2>1, <3>1 DEF Granted, Allows
  <2>6. MmuBare \/ MmuHit \/ MmuWalked \/ MmuRefill
    BY DEF MmuEdge, MmuAccept, MmuMiss, MmuWalk, MmuTaken, MmuHold, mmuVars
  <2> QED BY <2>2, <2>3, <2>4, <2>5, <2>6
<1> QED BY <1>1, <1>2 DEF Granted, Allows, Permitted, Needed

(* A TLB holds images the PTE has had since the last flush.                   *)
LEMMA HistoryStep ==
  ASSUME IInv, TlbEdge, RecentEdge PROVE History'
<1> USE DEF IInv
<1>1. pte' \in recent'
  BY DEF RecentEdge
<1>2. tlb'["I"] \cup tlb'["D"] \subseteq recent'
  <2>1. CASE Flush
    BY <2>1 DEF TlbEdge, TlbFlush
  <2>2. CASE ~Flush /\ mst = "REFILL"
    <3>1. mresp.by \in recent /\ recent \subseteq recent'
      BY <2>2 DEF Image, History, RecentEdge
    <3> QED BY <2>2, <3>1 DEF TlbEdge, History, TlbIsRecent, Types, TypeOK
  <2>3. CASE ~Flush /\ mst # "REFILL"
    BY <2>3 DEF TlbEdge, RecentEdge, History, TlbIsRecent
  <2> QED BY <2>1, <2>2, <2>3
<1> QED BY <1>1, <1>2 DEF History, TlbIsRecent

-----------------------------------------------------------------------------
(* The types.                                                                 *)
LEMMA CoreTypes ==
  ASSUME Types, CoreEdge
  PROVE  mem' \in MemOps \cup {None} /\ sfence' \in {"none", "ex", "mem", "wb"}
<1>1. mem \in MemOps \cup {None} /\ sfence \in {"none", "ex", "mem", "wb"}
  BY DEF Types, TypeOK
<1>2. CASE mem # None /\ ~MemDone
  BY <1>1, <1>2 DEF CoreEdge
<1>3. CASE sfence = "none" /\ (mem = None \/ MemDone)
  BY <1>1, <1>3 DEF CoreEdge
<1>4. CASE sfence # "none" /\ (mem = None \/ MemDone)
  <2>1. mem' = None /\ sfence' = [ex |-> "mem", mem |-> "wb", wb |-> "none"][sfence]
    BY <1>4 DEF CoreEdge
  <2> QED BY <1>1, <1>4, <2>1
<1> QED BY <1>2, <1>3, <1>4

(* An answer the MMU shows is an Outcome.                                     *)
LEMMA PortTypes ==
  ASSUME IInv, NEW f, IEdge(f), DEdge(f)
  PROVE  /\ ist' \in {"IDLE", "MMU_WAIT", "PHYS_REQ", "PHYS_WAIT", "FAULT_RESP"}
         /\ dst' \in {"IDLE", "MMU_WAIT", "PHYS_REQ", "PHYS_WAIT", "FAULT_RESP"}
         /\ ito' \in Target \cup {None} /\ dto' \in Target \cup {None}
         /\ dq' \in MemOps \cup {None}
<1> USE DEF IInv
<1>1. (IAnswered \/ DAnswered) => mresp.to \in Target \cup {None}
  BY DEF IAnswered, DAnswered, Types, Outcome
<1>2. /\ ist' \in {"IDLE", "MMU_WAIT", "PHYS_REQ", "PHYS_WAIT", "FAULT_RESP"}
      /\ ito' \in Target \cup {None}
  BY <1>1 DEF IEdge, IAccepted, ITranslated, IIssued, IDone, IHold, iVars, Types, TypeOK
<1>3. /\ dst' \in {"IDLE", "MMU_WAIT", "PHYS_REQ", "PHYS_WAIT", "FAULT_RESP"}
      /\ dto' \in Target \cup {None} /\ dq' \in MemOps \cup {None}
  BY <1>1 DEF DEdge, DAccepted, DTranslated, DIssued, DDone, DHold, dVars, Types, TypeOK
<1> QED BY <1>2, <1>3

(* The requests the MMU accepts.                                              *)
LEMMA RequestTypes ==
  ASSUME Types, NEW f \in FetchInput
  PROVE  /\ IAccept(f) => [bare |-> f.bare, canon |-> f.canon, to |-> f.to,
                           access |-> "FETCH", cbo |-> FALSE] \in Request
         /\ DAccept(f) => Translation(mem, Access(mem.op)) \in Request
<1>1. f # None => f \in FetchReq
  BY InputAssumption DEF FetchInput
<1>2. DAccept(f) => mem \in MemOp /\ mem.op # "FENCE"
  BY InputAssumption DEF DAccept, Fencing, Types, TypeOK
<1>3. DAccept(f) => mem.bare \in BOOLEAN /\ mem.canon \in BOOLEAN /\ mem.to \in Target
  BY <1>2 DEF MemOp
<1> QED BY <1>1, <1>3 DEF IAccept, FetchReq, Request, Translation, Access, IsCbo

LEMMA MmuTypes ==
  ASSUME IInv, NEW f \in FetchInput, MmuEdge(f)
  PROVE  /\ mst' \in {"IDLE", "LOOKUP", "PTW_REQ", "PTW_WAIT", "REFILL", "RESP"}
         /\ mside' \in {"I", "D"} /\ (mst' # "IDLE" => mreq' \in Request)
         /\ mresp' \in Outcome \cup {None}
         /\ mst' \in {"REFILL", "RESP"} => mresp' \in Outcome
<1> USE DEF IInv
<1>1. /\ mst' \in {"IDLE", "LOOKUP", "PTW_REQ", "PTW_WAIT", "REFILL", "RESP"}
      /\ mside' \in {"I", "D"}
  BY DEF MmuEdge, MmuAccept, MmuBare, MmuHit, MmuMiss, MmuWalk, MmuWalked, MmuRefill,
     MmuTaken, MmuHold, mmuVars, Types, TypeOK
<1>2. mst' # "IDLE" => mreq' \in Request
  BY MmuWorks, RequestTypes DEF Types
<1>3. mst' \in {"REFILL", "RESP"} => mresp' \in Outcome
  <2>1. CASE MmuBare
    <3>1. mreq.to \in Target
      BY <2>1 DEF MmuBare, Types, Request
    <3> QED BY <2>1, <3>1 DEF MmuBare, Outcome, Ok, Fault
  <2>2. CASE MmuHit
    <3>1. tlb[mside] \subseteq Pte
      BY DEF Types, TypeOK
    <3>2. \A p \in Pte : p.to \in Target
      BY PteAssumption DEF PteType
    <3> QED BY <2>2, <3>1, <3>2 DEF MmuHit, Outcome, Ok, Fault
  <2>3. CASE MmuWalked
    BY <2>3 DEF MmuWalked, Types
  <2>4. CASE ~MmuBare /\ ~MmuHit /\ ~MmuWalked
    BY <2>4 DEF MmuEdge, MmuAccept, MmuMiss, MmuWalk, MmuRefill, MmuTaken, MmuHold,
       mmuVars, Types
  <2> QED BY <2>1, <2>2, <2>3, <2>4
<1>4. mst' \notin {"REFILL", "RESP"} => mresp' \in Outcome \cup {None}
  BY DEF MmuEdge, MmuAccept, MmuBare, MmuHit, MmuMiss, MmuWalk, MmuWalked, MmuRefill,
     MmuTaken, MmuHold, mmuVars, Types, TypeOK
<1> QED BY <1>1, <1>2, <1>3, <1>4

(* A walk goes down from the root to level 0.                                 *)
LEMMA WalkerTypes ==
  ASSUME IInv, NEW f, MmuEdge(f), PtwEdge, CacheEdge
  PROVE  /\ pst' \in {"IDLE", "PTE_REQ", "PTE_WAIT", "AD_UPDATE_REQ", "AD_UPDATE_WAIT",
                      "RESP"}
         /\ level' \in 0 .. Levels - 1 /\ pmask' \subseteq Bits
         /\ presp' \in Outcome \cup {None} /\ (pst' = "RESP" => presp' \in Outcome)
<1> USE DEF IInv
<1>1. pst' \in {"IDLE", "PTE_REQ", "PTE_WAIT", "AD_UPDATE_REQ", "AD_UPDATE_WAIT", "RESP"}
  BY DEF PtwEdge, WalkStart, WalkIssue, WalkError, WalkDown, WalkLeaf, WalkUpdated,
     WalkTaken, WalkHold, ptwVars, Types, TypeOK
<1>2. level' \in 0 .. Levels - 1
  <2>1. level \in 0 .. Levels - 1 /\ Levels \in Nat \ {0}
    BY LevelsAssumption DEF Types, TypeOK
  <2>2. level' = level \/ level' = Levels - 1 \/ (level' = level - 1 /\ level # 0)
    BY DEF PtwEdge, WalkStart, WalkIssue, WalkError, WalkDown, WalkLeaf, WalkUpdated,
       WalkTaken, WalkHold, ptwVars
  <2> QED BY <2>1, <2>2
<1>3. pmask' \subseteq Bits
  <2>1. Needed(mreq) \subseteq Bits
    BY DEF Needed, Bits
  <2> QED BY <2>1 DEF PtwEdge, WalkStart, WalkIssue, WalkError, WalkDown, WalkLeaf,
       WalkUpdated, WalkTaken, WalkHold, ptwVars, Types, TypeOK
<1>4. Fault("page") \in Outcome /\ Fault("access") \in Outcome
  BY DEF Fault, Outcome
<1>5. pst' # "RESP" => presp' \in Outcome \cup {None}
  BY DEF PtwEdge, WalkStart, WalkIssue, WalkError, WalkDown, WalkLeaf, WalkUpdated,
     WalkTaken, WalkHold, ptwVars, Types, TypeOK
<1>6. pst' = "RESP" /\ presp'.fault # "none" => presp' \in Outcome
  <2> SUFFICES ASSUME pst' = "RESP", presp'.fault # "none" PROVE presp' \in Outcome
    OBVIOUS
  <2>1. presp' = Fault("page") \/ presp' = Fault("access")
    BY DEF PtwEdge, WalkStart, WalkIssue, WalkError, WalkDown, WalkLeaf, WalkUpdated,
       WalkTaken, WalkHold, ptwVars, Ok
  <2> QED BY <1>4, <2>1
<1>7. pst' = "RESP" /\ presp'.fault = "none" => presp' \in Outcome
  <2> SUFFICES ASSUME pst' = "RESP", presp'.fault = "none" PROVE presp' \in Outcome
    OBVIOUS
  <2>1. presp' = Ok(pte'.to, pte') /\ pte' \in Pte
    BY WalkGrants
  <2>2. pte'.to \in Target
    BY <2>1, PteAssumption DEF PteType
  <2> QED BY <2>1, <2>2 DEF Ok, Outcome
<1> QED BY <1>1, <1>2, <1>3, <1>5, <1>6, <1>7

(* What a store to the page table writes there is a PTE.                      *)
LEMMA CacheTypes ==
  ASSUME IInv, CacheEdge PROVE cache' \in CacheType /\ pte' \in Pte
<1> USE DEF IInv
<1>1. cache \in CacheType /\ pte \in Pte /\ pmask \in SUBSET Bits
      /\ dq \in MemOps \cup {None}
  BY DEF Types, TypeOK
<1>2. IdleCache \in CacheType
  BY DEF IdleCache, CacheType
<1>3. CASE CacheTakesCpu
  <2>1. CacheOp \in MemOps \cup {[op |-> "READ"], [op |-> "OR"], None}
        /\ CacheOwner \in {"cpu", "ptw", None}
    BY <1>1 DEF CacheOp, CacheOwner
  <2> QED BY <1>1, <1>3, <2>1 DEF CacheTakesCpu, CacheType, IdleCache
<1>4. CASE CacheTakesFlush \/ CacheTakesCbo \/ CacheGoesIdle \/ CacheStays
  BY <1>1, <1>2, <1>4 DEF CacheTakesFlush, CacheTakesCbo, CacheGoesIdle, CacheStays,
     CacheType, IdleCache
<1>5. CASE CachePerforms
  <2>1. PICK err \in MayFail :
          /\ cache' = [cache EXCEPT !.st = "resp", !.err = err,
                         !.rdata = IF err \/ cache.owner = "cpu" THEN None ELSE pte]
          /\ pte' = IF err THEN pte ELSE Performed(cache.op)
    BY <1>5 DEF CachePerforms
  <2>2. err \in BOOLEAN
    BY InputAssumption
  <2>3. cache' \in CacheType
    BY <1>1, <2>1, <2>2 DEF CacheType
  <2>4. [pte EXCEPT !.ad = @ \cup pmask] \in Pte
    BY <1>1, PteAssumption
  <2>5. cache.op.op \in {"STORE", "AMO"} => cache.op.new \in Pte
    <3>1. CASE cache.owner = "ptw"
      BY <1>5, <3>1 DEF CachePerforms, Owned
    <3>2. CASE cache.owner # "ptw"
      <4>1. cache.op \in MemOp
        BY <1>1, <1>5, <3>2, InputAssumption DEF CachePerforms, Owned, DataPort
      <4>2. cache.op.op \in {"STORE", "AMO"} => cache.op.new \in StoredPte
        BY <4>1 DEF MemOp
      <4> QED BY <4>2, PteAssumption
    <3> QED BY <3>1, <3>2
  <2> QED BY <1>1, <2>1, <2>3, <2>4, <2>5 DEF Performed
<1>6. CASE CacheMaintains
  <2>1. PICK err \in MayFail :
          cache' = [IdleCache EXCEPT !.err = err,
                      !.st = IF cache.st = "cbo" THEN "cbo_done" ELSE "flush_done"]
    BY <1>6 DEF CacheMaintains
  <2>2. err \in BOOLEAN
    BY InputAssumption
  <2> QED BY <1>1, <1>6, <2>1, <2>2 DEF CacheMaintains, CacheType, IdleCache
<1> QED BY <1>3, <1>4, <1>5, <1>6 DEF CacheEdge, CacheEnds

LEMMA TypesStep ==
  ASSUME IInv, NEW f \in FetchInput, CoreEdge, IEdge(f), DEdge(f), MmuEdge(f), TlbEdge,
         PtwEdge, PendingEdge, RouterEdge, CacheEdge, RecentEdge
  PROVE  Types'
<1> USE DEF IInv
<1>1. ptwPending' \in BOOLEAN
  BY DEF PendingEdge, PteIssue, PteResp, Types, TypeOK
<1>2. rst' \in {"IDLE", "CACHE_WAIT", "UNCACHED_WAIT", "ERR_RESP"}
  BY DEF RouterEdge, Types, TypeOK
<1>3. tlb' \in [{"I", "D"} -> SUBSET Pte]
  <2>1. mst = "REFILL" => mresp.by \in Pte
    BY DEF Image, Types, TypeOK
  <2> QED BY <2>1 DEF TlbEdge, TlbFlush, Types, TypeOK
<1>4. recent' \subseteq Pte
  BY CacheTypes DEF RecentEdge, Types, TypeOK
<1>5. cache'.st \in {"idle", "busy", "resp", "flush", "flush_done", "cbo", "cbo_done"}
  BY CacheTypes DEF CacheType
<1>6. TypeOK'
  BY <1>1, <1>2, <1>3, <1>4, <1>5, CoreTypes, PortTypes, MmuTypes, WalkerTypes, CacheTypes
     DEF TypeOK
<1>7. cache' \in CacheType
  BY CacheTypes
<1>8. CacheType' = CacheType /\ Request' = Request /\ Outcome' = Outcome
  BY DEF CacheType, Request, Outcome
<1> QED BY <1>6, <1>7, <1>8, MmuTypes, WalkerTypes DEF Types

-----------------------------------------------------------------------------
(* Every clock edge preserves the invariant, part by part.                    *)
LEMMA NextInv == IInv /\ [Next]_vars => IInv'
<1> SUFFICES ASSUME IInv, [Next]_vars PROVE IInv'
  OBVIOUS
<1>1. CASE Next
  <2>1. PICK f \in FetchInput :
          /\ CoreEdge /\ IEdge(f) /\ DEdge(f) /\ MmuEdge(f) /\ TlbEdge /\ PtwEdge
          /\ PendingEdge /\ RouterEdge /\ CacheEdge /\ UncachedEdge /\ RecentEdge
    BY <1>1 DEF Next
  <2>2. Types'
    BY <2>1, TypesStep
  <2>3. DataPort' /\ Translating' /\ Walking' /\ Routing'
    BY <2>1, DataPortStep, TranslatingStep, WalkingStep, RoutingStep DEF IInv
  <2>4. Owned' /\ Alone'
    BY <2>1, OwnedStep, AloneStep DEF IInv
  <2>5. Image' /\ Granted' /\ History'
    BY <2>1, ImageStep, GrantedStep, HistoryStep
  <2> QED BY <2>2, <2>3, <2>4, <2>5 DEF IInv
<1>2. CASE UNCHANGED vars
  <2> USE <1>2 DEF vars, coreVars, iVars, dVars, mmuVars, ptwVars
  <2>1. Types'
    BY DEF IInv, Types, TypeOK, CacheType, Request, Outcome
  <2>2. DataPort' /\ Translating' /\ Walking' /\ Routing' /\ Owned'
    BY DEF IInv, DataPort, Fencing, Translating, Translation, Access, Walking, Routing,
       Owned, IsCbo
  <2>3. Alone' /\ Image' /\ Granted' /\ History'
    BY DEF IInv, Alone, Reading, Image, Granted, Allows, Permitted, Needed, History,
       TlbIsRecent
  <2> QED BY <2>1, <2>2, <2>3 DEF IInv
<1> QED BY <1>1, <1>2

LEMMA Invariance == Spec => []IInv
BY InitInv, NextInv, PTL DEF Spec

-----------------------------------------------------------------------------
(* Every register of the frontend keeps its type, and a walk addresses a level*)
(* of the page table.                                                         *)
THEOREM TypeCorrect == Spec => []TypeOK
<1>1. IInv => TypeOK
  BY DEF IInv, Types
<1> QED BY <1>1, Invariance, PTL

(* A walk is issued when nothing else can be on the port.                     *)
LEMMA IssueFindsPortFree ==
  ASSUME IInv, PteIssue
  PROVE  cache.st \in {"idle", "resp", "flush_done"} /\ ~Fencing /\ ~CboReq /\ ~RouterReq
<1>1. dst \in {"IDLE", "MMU_WAIT"} /\ ~Fencing /\ ~ptwPending
  BY WalkExcludesData DEF IInv
<1>2. cache.st \in {"idle", "busy", "resp", "flush", "flush_done", "cbo", "cbo_done"}
  BY DEF IInv, Types, TypeOK
<1> QED BY <1>1, <1>2 DEF IInv, Owned, CboReq, RouterReq

(* So is an access of the router.                                             *)
LEMMA RouterFindsPortFree ==
  ASSUME IInv, RouterReq
  PROVE  /\ cache.st \in {"idle", "resp", "flush_done"} /\ ~Fencing /\ ~CboReq
         /\ rst = "IDLE" /\ uncached.st = "idle"
<1>1. dst = "PHYS_REQ" /\ ~IsCbo(dq)
  BY DEF RouterReq
<1>2. ~ptwPending
  BY <1>1, WalkExcludesData DEF IInv
<1>3. cache.st \in {"idle", "busy", "resp", "flush", "flush_done", "cbo", "cbo_done"}
  BY DEF IInv, Types, TypeOK
<1> QED BY <1>1, <1>2, <1>3 DEF IInv, Owned, Routing, DataPort, CboReq

(* The walker and the router raise a request for one cycle and look at no     *)
(* ready (ap_hart_memory_frontend.sv, hart_data_router.sv): whoever it is for *)
(* takes it, and the two never ask at once.                                   *)
THEOREM NoLostRequestAlways == Spec => []NoLostRequest
<1>1. IInv => NoLostRequest
  <2> SUFFICES ASSUME IInv PROVE NoLostRequest
    OBVIOUS
  <2>1. RouterCacheReq => RouterReq
    BY DEF RouterCacheReq
  <2>2. RouterUncachedReq => RouterReq
    BY DEF RouterUncachedReq
  <2> QED BY <2>1, <2>2, IssueFindsPortFree, RouterFindsPortFree DEF NoLostRequest, CacheReq
<1> QED BY <1>1, Invariance, PTL

(* The data cache's answer goes to the walker while ptw_pending_q is set and  *)
(* to the router otherwise, and the one it goes to is the one that asked.     *)
THEOREM AnswerReachesItsOwnerAlways == Spec => []AnswerReachesItsOwner
<1>1. IInv => AnswerReachesItsOwner
  BY DEF IInv, Owned, AnswerReachesItsOwner
<1> QED BY <1>1, Invariance, PTL

(* After an SFENCE.VMA the TLBs hold only images of what the PTE has been     *)
(* since, although the flush waits for no walk and a walk for no flush.       *)
THEOREM TlbIsRecentAlways == Spec => []TlbIsRecent
<1>1. IInv => TlbIsRecent
  BY DEF IInv, History
<1> QED BY <1>1, Invariance, PTL

(* A translated store reaches memory under a PTE with W and D set.  An AMO is *)
(* translated as a load (finding FrontendAmo of the README), so a program is  *)
(* considered whose AMOs are bare.                                            *)
THEOREM WriteIsAllowedAlways ==
  ASSUME \A m \in MemOps : m.op = "AMO" => m.bare
  PROVE  Spec => []WriteIsAllowed
<1>1. IInv => WriteIsAllowed
  <2> SUFFICES ASSUME IInv, DAnswered, mresp.fault = "none", mresp.by # None, Writes(dq)
               PROVE  mresp.by.w /\ "D" \in mresp.by.ad
    BY DEF WriteIsAllowed
  <2>1. ~mreq.bare /\ Permitted(mresp.by, mreq.access) /\ Needed(mreq) \subseteq mresp.by.ad
    BY DEF IInv, Granted, Allows, DAnswered
  <2>2. mreq = Translation(dq, Access(dq.op)) /\ dq \in MemOps
    BY DEF IInv, Translating, DAnswered, DataPort, Types, TypeOK
  <2>3. CASE dq.op = "STORE"
    <3>1. mreq.access = "STORE" /\ ~mreq.cbo
      BY <2>2, <2>3 DEF Translation, Access, IsCbo
    <3> QED BY <2>1, <3>1 DEF Permitted, Needed
  <2>4. CASE dq.op = "AMO"
    BY <2>1, <2>2, <2>4 DEF Translation
  <2> QED BY <2>3, <2>4 DEF Writes
<1> QED BY <1>1, Invariance, PTL

=============================================================================
