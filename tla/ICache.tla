------------------------------- MODULE ICache -------------------------------
(***************************************************************************)
(* The blocking, physically tagged instruction cache                       *)
(* (rtl/soc/hart_tile/mem/cache/icache.sv).  One action is one clock edge   *)
(* in one state of its FSM.  Behind it, memory is written by the D-cache    *)
(* and by DMA; nothing tells the cache, so it serves old instructions until *)
(* a FENCE invalidates it.  A line is one value: the word is selected from  *)
(* it by the address and nothing else.                                     *)
(***************************************************************************)
EXTENDS Integers

CONSTANTS
  NSets, NWays,  \* the geometry (SETS_P, WAYS_P)
  Tag,
  Content,       \* what a line may hold
  None

Set == 0 .. NSets - 1
Way == 0 .. NWays - 1
Slot == Set \X Way
Line == [set : Set, tag : Tag]

ASSUME Geometry == NSets \in Nat \ {0} /\ NWays \in Nat \ {0, 1}
ASSUME NoneIsNone == None \notin Tag \cup Line \cup Content

VARIABLES
  state,      \* state_q
  valid,      \* the slots whose valid_q bit is set
  tag, data,  \* tag_q and data_q, per slot
  victim,     \* victim_q, per set
  req,        \* the line of req_addr_q, or None when it is dead
  refillWay,  \* refill_way_q
  resp,       \* response_rdata_q and response_err_q while they are shown
  fence,      \* invalidate_i: a FENCE is waiting in MEM
  mem,        \* the memory behind the line port
  bus,        \* what the line adapter will answer, once memory has been read
  recent      \* ghost: what each line has held since the last invalidation

cacheVars == <<valid, tag, data, victim>>
vars == <<state, valid, tag, data, victim, req, refillWay, resp, fence, mem, bus,
          recent>>

Init ==
  /\ state = "IDLE"
  /\ valid = {} /\ tag = [s \in Slot |-> None] /\ data = [s \in Slot |-> None]
  /\ victim = [s \in Set |-> 0]
  /\ req = None /\ refillWay = 0 /\ resp = None
  /\ fence = FALSE
  /\ mem \in [Line -> Content] /\ bus = None
  /\ recent = [l \in Line |-> {mem[l]}]

-----------------------------------------------------------------------------
(* The lookup loop visits the ways upwards.  It tests for a hit and for an  *)
(* invalid way one after the other and both overwrite lookup_way, so an     *)
(* invalid way above the hit way wins.                                     *)
Holds(s, l) == s \in valid /\ s[1] = l.set /\ tag[s] = l.tag
Cached(l) == \E w \in Way : Holds(<<l.set, w>>, l)

Candidate(l, w) == Holds(<<l.set, w>>, l) \/ <<l.set, w>> \notin valid
LookupWay(l) ==
  IF \E w \in Way : Candidate(l, w)
  THEN CHOOSE w \in Way : Candidate(l, w) /\ \A v \in Way : Candidate(l, v) => v <= w
  ELSE victim[l.set]
LookupSlot(l) == <<l.set, LookupWay(l)>>

\* The way index has $clog2(WAYS_P) bits and WAYS_P is a power of two.
NextWayUnwrapped(w) == w + 1   \* mutant
NextWay(w) == (w + 1) % NWays

-----------------------------------------------------------------------------
\* Mutant: cpu_ready_o does not look at invalidate_i.
FetchDuringFence(l) ==
  /\ state = "IDLE"
  /\ state' = "LOOKUP" /\ req' = l
  /\ UNCHANGED <<cacheVars, refillWay, resp, fence, mem, bus, recent>>

Fetch(l) ==
  /\ state = "IDLE" /\ ~fence
  /\ state' = "LOOKUP" /\ req' = l
  /\ UNCHANGED <<cacheVars, refillWay, resp, fence, mem, bus, recent>>

Hit ==
  /\ state = "LOOKUP" /\ Cached(req)
  /\ LET s == LookupSlot(req)
     IN  /\ resp' = [rdata |-> data[s], err |-> FALSE]
         /\ victim' = [victim EXCEPT ![req.set] = NextWay(s[2])]
  /\ state' = "RESP"
  /\ UNCHANGED <<valid, tag, data, req, refillWay, fence, mem, bus, recent>>

Miss ==
  /\ state = "LOOKUP" /\ ~Cached(req)
  /\ refillWay' = LookupWay(req)
  /\ state' = "REFILL_REQ"
  /\ UNCHANGED <<cacheVars, req, resp, fence, mem, bus, recent>>

Request ==
  /\ state = "REFILL_REQ" /\ state' = "REFILL_WAIT"
  /\ UNCHANGED <<cacheVars, req, refillWay, resp, fence, mem, bus, recent>>

\* Memory is read at some moment of the burst; the answer comes later.
ReadLine ==
  /\ state = "REFILL_WAIT" /\ bus = None
  /\ bus' \in [rdata : {mem[req]}, err : BOOLEAN]
  /\ UNCHANGED <<state, cacheVars, req, refillWay, resp, fence, mem, recent>>

Refill ==
  /\ state = "REFILL_WAIT" /\ bus # None /\ ~bus.err
  /\ LET s == <<req.set, refillWay>>
     IN  /\ data' = [data EXCEPT ![s] = bus.rdata]
         /\ tag' = [tag EXCEPT ![s] = req.tag]
         /\ valid' = valid \cup {s}
         /\ victim' = [victim EXCEPT ![req.set] = NextWay(refillWay)]
  /\ resp' = bus
  /\ bus' = None /\ refillWay' = 0 /\ state' = "RESP"
  /\ UNCHANGED <<req, fence, mem, recent>>

\* Mutant: a failed refill is requested again.
RefillRetry ==
  /\ state = "REFILL_WAIT" /\ bus # None /\ bus.err
  /\ bus' = None /\ state' = "REFILL_REQ"
  /\ UNCHANGED <<cacheVars, req, refillWay, resp, fence, mem, recent>>

\* A failed refill shows a NOP and the error.
RefillError ==
  /\ state = "REFILL_WAIT" /\ bus # None /\ bus.err
  /\ resp' = [rdata |-> None, err |-> TRUE]
  /\ bus' = None /\ refillWay' = 0 /\ state' = "RESP"
  /\ UNCHANGED <<cacheVars, req, fence, mem, recent>>

Respond ==
  /\ state = "RESP" /\ state' = "IDLE"
  /\ req' = None /\ resp' = None
  /\ UNCHANGED <<cacheVars, refillWay, fence, mem, bus, recent>>

-----------------------------------------------------------------------------
(* FENCE.  The core holds the request until the cache and the D-cache have  *)
(* both acknowledged it, however long that takes.                          *)
AskInvalidate ==
  /\ ~fence /\ fence' = TRUE
  /\ UNCHANGED <<state, cacheVars, req, refillWay, resp, mem, bus, recent>>

\* Mutant: the acknowledgement does not wait for a refill in progress.
InvalidateAnyTime(done) ==
  /\ fence
  /\ valid' = {} /\ fence' = ~done
  /\ recent' = [l \in Line |-> {mem[l]}]
  /\ UNCHANGED <<state, tag, data, victim, req, refillWay, resp, mem, bus>>

\* Mutant: one way of each set is invalidated.
InvalidateVictims(done) ==
  /\ fence /\ state = "IDLE"
  /\ valid' = valid \ {<<s, victim[s]>> : s \in Set} /\ fence' = ~done
  /\ recent' = [l \in Line |-> {mem[l]}]
  /\ UNCHANGED <<state, tag, data, victim, req, refillWay, resp, mem, bus>>

\* done: the D-cache acknowledges on the same edge, and the FENCE ends.
Invalidate(done) ==
  /\ fence /\ state = "IDLE"
  /\ valid' = {} /\ fence' = ~done
  /\ recent' = [l \in Line |-> {mem[l]}]
  /\ UNCHANGED <<state, tag, data, victim, req, refillWay, resp, mem, bus>>

-----------------------------------------------------------------------------
MemoryWrite(l, c) ==
  /\ mem' = [mem EXCEPT ![l] = c]
  /\ recent' = [recent EXCEPT ![l] = @ \cup {c}]
  /\ UNCHANGED <<state, cacheVars, req, refillWay, resp, fence, bus>>

CacheStep == Hit \/ Miss \/ Request \/ Refill \/ RefillError \/ Respond

Next ==
  \/ CacheStep \/ ReadLine
  \/ \E l \in Line : Fetch(l)
  \/ AskInvalidate
  \/ \E done \in BOOLEAN : Invalidate(done)
  \/ \E l \in Line, c \in Content : MemoryWrite(l, c)

Spec == Init /\ [][Next]_vars

\* The cache is clocked and the line adapter answers.
FairSpec == Spec /\ WF_vars(CacheStep) /\ WF_vars(ReadLine)

-----------------------------------------------------------------------------
Response == [rdata : Content \cup {None}, err : BOOLEAN]

\* Type invariant: every register holds a value of its width.
TypeOK ==
  /\ state \in {"IDLE", "LOOKUP", "REFILL_REQ", "REFILL_WAIT", "RESP"}
  /\ valid \subseteq Slot
  /\ tag \in [Slot -> Tag \cup {None}] /\ data \in [Slot -> Content \cup {None}]
  /\ victim \in [Set -> Way]
  /\ req \in Line \cup {None} /\ refillWay \in Way
  /\ resp \in Response \cup {None} /\ bus \in Response \cup {None}
  /\ fence \in BOOLEAN
  /\ mem \in [Line -> Content] /\ recent \in [Line -> SUBSET Content]

\* On a hit the way the loop ends with is the way that matched.  The code
\* does not make it so by itself: an invalid way above the match would be read
\* instead (icache.sv:78-87).
HitReadsTheMatch ==
  state = "LOOKUP" /\ Cached(req) => Holds(LookupSlot(req), req)

\* Why: refills take the highest invalid way and only a FENCE invalidates, all
\* ways at once, so in every set the valid ways are the upper ones.
ValidWaysAreUpper ==
  \A s \in valid, w \in Way : w > s[2] => <<s[1], w>> \in valid

\* A fetch answered without an error returns what its line has held in memory
\* since the last acknowledged FENCE: the acknowledgement covers the refill in
\* progress and the lines already there (FENCE.I, icache.sv:89-91).
FetchIsRecent ==
  state = "RESP" /\ ~resp.err => resp.rdata \in recent[req]

\* No two ways of a set hold the same line.
NoDuplicateLine ==
  \A s, t \in valid : s[1] = t[1] /\ tag[s] = tag[t] => s = t

(* The inductive invariant from which the four above follow.  A set has a  *)
(* border: the ways above it are valid and the others are not.             *)
LineOf(s) == [set |-> s[1], tag |-> tag[s]]

RefillStates == {"REFILL_REQ", "REFILL_WAIT"}

Border ==
  \A s \in Set : \E k \in -1 .. NWays - 1 : \A w \in Way : <<s, w>> \in valid <=> w > k

Control ==
  /\ state # "IDLE" => req \in Line
  /\ state = "RESP" => resp \in Response
  /\ bus # None => state = "REFILL_WAIT"
  /\ state \in RefillStates =>
       ~Cached(req) /\ \A w \in Way : w > refillWay => <<req.set, w>> \in valid

Recency ==
  /\ \A l \in Line : mem[l] \in recent[l]
  /\ \A s \in valid : data[s] \in recent[LineOf(s)] /\ tag[s] \in Tag
  /\ bus # None /\ ~bus.err => bus.rdata \in recent[req]
  /\ FetchIsRecent

Inv == TypeOK /\ NoDuplicateLine /\ Border /\ Control /\ Recency

\* Every fetch is answered, whether memory fails or not.
FetchAnswered == state = "LOOKUP" ~> state = "RESP"

\* The D-cache acknowledges a FENCE for one cycle at a time and the FENCE ends
\* only if this cache is idle in that very cycle (ap_hart_memory_frontend.sv:520):
\* while a FENCE waits the cache must become idle and stay so.
FenceMeetsIdle == <>[]fence => <>[](state = "IDLE")
=============================================================================
