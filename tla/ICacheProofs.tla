---------------------------- MODULE ICacheProofs ----------------------------
(***************************************************************************)
(* Theorems about the instruction cache for every geometry, tag and        *)
(* content.  The inductive invariant is Inv of module ICache.              *)
(***************************************************************************)
EXTENDS ICache, TLAPS

LEMMA SlotParts ==
  ASSUME NEW s \in Slot
  PROVE  s = <<s[1], s[2]>> /\ s[1] \in Set /\ s[2] \in Way
BY DEF Slot

LEMMA NextWayIsWay ==
  ASSUME NEW w \in Way PROVE NextWay(w) \in Way
BY Geometry DEF NextWay, Way

(* On a hit the lookup loop ends with the way that matched: the ways above  *)
(* it are valid and hold other lines.                                      *)
LEMMA HitWayMatches ==
  ASSUME TypeOK, NoDuplicateLine, Border, NEW l \in Line, Cached(l)
  PROVE  /\ LookupWay(l) \in Way /\ LookupSlot(l) \in Slot
         /\ Holds(LookupSlot(l), l) /\ LineOf(LookupSlot(l)) = l
<1>1. PICK w \in Way : Holds(<<l.set, w>>, l)
  BY DEF Cached
<1>2. l.set \in Set
  BY DEF Line
<1>3. \A v \in Way : Candidate(l, v) => v <= w
  <2> SUFFICES ASSUME NEW v \in Way, Candidate(l, v) PROVE v <= w
    OBVIOUS
  <2>1. CASE Holds(<<l.set, v>>, l)
    <3>1. <<l.set, v>> = <<l.set, w>>
      BY <1>1, <2>1 DEF Holds, NoDuplicateLine
    <3> QED BY <3>1 DEF Way
  <2>2. CASE <<l.set, v>> \notin valid
    BY <1>1, <1>2, <2>2, Geometry DEF Border, Holds, Way
  <2> QED BY <2>1, <2>2 DEF Candidate
<1>4. Candidate(l, w)
  BY <1>1 DEF Candidate
<1>5. \A u \in Way : Candidate(l, u) /\ (\A v \in Way : Candidate(l, v) => v <= u) => u = w
  BY <1>3, <1>4, Geometry DEF Way
<1>6. LookupWay(l) = w
  BY <1>3, <1>4, <1>5 DEF LookupWay
<1>7. LineOf(<<l.set, w>>) = l
  BY <1>1 DEF Holds, LineOf, Line
<1> QED BY <1>1, <1>2, <1>6, <1>7 DEF LookupSlot, Slot

(* On a miss it ends with a way above which every way is valid: the highest *)
(* invalid one, or the victim of a full set.                               *)
LEMMA MissWayIsTop ==
  ASSUME TypeOK, Border, NEW l \in Line, ~Cached(l)
  PROVE  /\ LookupWay(l) \in Way
         /\ \A w \in Way : w > LookupWay(l) => <<l.set, w>> \in valid
<1>1. l.set \in Set
  BY DEF Line
<1>2. PICK k \in -1 .. NWays - 1 : \A w \in Way : <<l.set, w>> \in valid <=> w > k
  BY <1>1 DEF Border
<1>3. \A w \in Way : Candidate(l, w) <=> w <= k
  BY <1>2, Geometry DEF Candidate, Cached, Way
<1>4. CASE k = -1
  <2>1. LookupWay(l) = victim[l.set]
    BY <1>3, <1>4, Geometry DEF LookupWay, Way
  <2> QED BY <1>1, <1>2, <1>4, <2>1, Geometry DEF TypeOK, Way
<1>5. CASE k # -1
  <2>1. k \in Way
    BY <1>5, Geometry DEF Way
  <2>2. \A u \in Way : (Candidate(l, u) /\ \A v \in Way : Candidate(l, v) => v <= u) <=> u = k
    BY <1>3, <2>1, Geometry DEF Way
  <2>3. LookupWay(l) = k
    BY <1>3, <2>1, <2>2 DEF LookupWay
  <2> QED BY <1>2, <2>1, <2>3
<1> QED BY <1>4, <1>5

(* A slot that holds a line makes the lookup hit.                          *)
LEMMA HeldIsCached ==
  ASSUME TypeOK, NEW l \in Line, ~Cached(l), NEW s \in valid, s[1] = l.set
  PROVE  tag[s] # l.tag
<1>1. s = <<l.set, s[2]>> /\ s[2] \in Way
  BY DEF TypeOK, Slot
<1> QED BY <1>1 DEF Cached, Holds

(* What depends on the valid bits, the tags and the data alone.            *)
LEMMA Frame ==
  ASSUME valid' = valid, tag' = tag
  PROVE  /\ NoDuplicateLine => NoDuplicateLine'
         /\ Border => Border'
         /\ \A l : Cached(l)' <=> Cached(l)
         /\ \A s : LineOf(s)' = LineOf(s)
BY DEF NoDuplicateLine, Border, Cached, Holds, LineOf

-----------------------------------------------------------------------------
LEMMA InitInv == Init => Inv
<1> SUFFICES ASSUME Init PROVE Inv
  OBVIOUS
<1>1. TypeOK
  <2>1. 0 \in Way
    BY Geometry DEF Way
  <2>2. recent \in [Line -> SUBSET Content]
    BY DEF Init
  <2> QED BY <2>1, <2>2 DEF Init, TypeOK
<1>2. Border
  <2>1. NWays - 1 \in -1 .. NWays - 1 /\ \A x \in Set, w \in Way : <<x, w>> \in valid <=> w > NWays - 1
    BY Geometry DEF Init, Way
  <2> QED BY <2>1 DEF Border
<1>3. Recency
  BY DEF Init, Recency, FetchIsRecent
<1> QED
  BY <1>1, <1>2, <1>3
     DEF Init, Inv, NoDuplicateLine, Control, RefillStates

LEMMA FetchInv == \A l \in Line : Inv /\ Fetch(l) => Inv'
<1> SUFFICES ASSUME NEW l \in Line, Inv, Fetch(l) PROVE Inv'
  OBVIOUS
<1>1. TypeOK'
  BY DEF Inv, Fetch, TypeOK, cacheVars
<1>2. NoDuplicateLine' /\ Border'
  BY Frame DEF Inv, Fetch, cacheVars
<1>3. Control'
  BY DEF Inv, Control, Fetch, RefillStates
<1>4. Recency'
  BY Frame DEF Inv, Control, Recency, FetchIsRecent, Fetch, cacheVars
<1> QED BY <1>1, <1>2, <1>3, <1>4 DEF Inv

LEMMA HitInv == Inv /\ Hit => Inv'
<1> SUFFICES ASSUME Inv, Hit PROVE Inv'
  OBVIOUS
<1>0. req \in Line /\ bus = None
  BY DEF Inv, Control, Hit
<1>s. LookupWay(req) \in Way /\ LookupSlot(req) \in valid /\ LineOf(LookupSlot(req)) = req
      /\ LookupSlot(req) \in Slot /\ LookupSlot(req)[2] = LookupWay(req)
  BY <1>0, HitWayMatches DEF Inv, Hit, Holds, LookupSlot
<1>r. /\ data[LookupSlot(req)] \in recent[req] /\ recent[req] \subseteq Content
      /\ resp' = [rdata |-> data[LookupSlot(req)], err |-> FALSE]
  BY <1>0, <1>s DEF Inv, Recency, TypeOK, Hit
<1>t. resp' \in Response
  BY <1>r DEF Response
<1>1. TypeOK'
  BY <1>0, <1>s, <1>t, NextWayIsWay DEF Inv, Hit, TypeOK
<1>2. NoDuplicateLine' /\ Border'
  BY Frame DEF Inv, Hit
<1>3. Control'
  BY <1>0, <1>t DEF Inv, Control, Hit, RefillStates
<1>4. Recency'
  BY <1>0, <1>r, Frame DEF Inv, Recency, FetchIsRecent, Hit
<1> QED BY <1>1, <1>2, <1>3, <1>4 DEF Inv

LEMMA MissInv == Inv /\ Miss => Inv'
<1> SUFFICES ASSUME Inv, Miss PROVE Inv'
  OBVIOUS
<1>0. req \in Line /\ bus = None
  BY DEF Inv, Control, Miss
<1>s. LookupWay(req) \in Way /\ \A w \in Way : w > LookupWay(req) => <<req.set, w>> \in valid
  BY <1>0, MissWayIsTop DEF Inv, Miss
<1>1. TypeOK'
  BY <1>s DEF Inv, Miss, TypeOK, cacheVars
<1>2. NoDuplicateLine' /\ Border'
  BY Frame DEF Inv, Miss, cacheVars
<1>3. Control'
  <2>1. ~Cached(req)'
    BY Frame DEF Miss, cacheVars, Cached, Holds
  <2> QED BY <1>0, <1>s, <2>1 DEF Inv, Control, Miss, RefillStates, cacheVars
<1>4. Recency'
  BY <1>0, Frame DEF Inv, Recency, FetchIsRecent, Miss, cacheVars
<1> QED BY <1>1, <1>2, <1>3, <1>4 DEF Inv

LEMMA RequestInv == Inv /\ Request => Inv'
<1> SUFFICES ASSUME Inv, Request PROVE Inv'
  OBVIOUS
<1>1. TypeOK'
  BY DEF Inv, Request, TypeOK, cacheVars
<1>2. NoDuplicateLine' /\ Border'
  BY Frame DEF Inv, Request, cacheVars
<1>3. Control'
  <2>1. ~Cached(req)'
    BY DEF Inv, Control, RefillStates, Request, cacheVars, Cached, Holds
  <2> QED BY <2>1 DEF Inv, Control, Request, RefillStates, cacheVars
<1>4. Recency'
  BY Frame DEF Inv, Control, Recency, FetchIsRecent, Request, cacheVars
<1> QED BY <1>1, <1>2, <1>3, <1>4 DEF Inv

LEMMA ReadLineInv == Inv /\ ReadLine => Inv'
<1> SUFFICES ASSUME Inv, ReadLine PROVE Inv'
  OBVIOUS
<1>0. req \in Line
  BY DEF Inv, Control, ReadLine
<1>b. PICK e \in BOOLEAN : bus' = [rdata |-> mem[req], err |-> e]
  BY DEF ReadLine
<1>t. bus' \in Response /\ bus'.rdata \in recent[req]
  BY <1>0, <1>b DEF Inv, TypeOK, Response, Recency
<1>1. TypeOK'
  BY <1>t DEF Inv, ReadLine, TypeOK, cacheVars
<1>2. NoDuplicateLine' /\ Border'
  BY Frame DEF Inv, ReadLine, cacheVars
<1>3. Control'
  <2>1. ~Cached(req)'
    BY DEF Inv, Control, RefillStates, ReadLine, cacheVars, Cached, Holds
  <2> QED BY <1>0, <2>1 DEF Inv, Control, ReadLine, RefillStates, cacheVars
<1>4. Recency'
  BY <1>t, Frame DEF Inv, Recency, FetchIsRecent, ReadLine, cacheVars
<1> QED BY <1>1, <1>2, <1>3, <1>4 DEF Inv

LEMMA RefillInv == Inv /\ Refill => Inv'
<1> SUFFICES ASSUME Inv, Refill PROVE Inv'
  OBVIOUS
<1> DEFINE s == <<req.set, refillWay>>
<1>0. /\ req \in Line /\ req.set \in Set /\ req.tag \in Tag /\ refillWay \in Way /\ s \in Slot
      /\ 0 \in Way /\ s[1] = req.set /\ s[2] = refillWay
  BY Geometry DEF Inv, Control, Refill, TypeOK, Line, Slot, Way
<1>m. ~Cached(req) /\ \A w \in Way : w > refillWay => <<req.set, w>> \in valid
  BY DEF Inv, Control, RefillStates, Refill
<1>b. bus \in Response /\ ~bus.err /\ bus.rdata \in recent[req] /\ recent[req] \subseteq Content
  BY <1>0 DEF Inv, Recency, Refill, TypeOK
<1>v. /\ valid' = valid \cup {s}
      /\ tag' = [tag EXCEPT ![s] = req.tag] /\ data' = [data EXCEPT ![s] = bus.rdata]
      /\ victim' = [victim EXCEPT ![req.set] = NextWay(refillWay)]
      /\ resp' = bus /\ bus' = None /\ refillWay' = 0 /\ state' = "RESP"
      /\ UNCHANGED <<req, fence, mem, recent>>
  BY DEF Refill
<1>f. /\ tag'[s] = req.tag /\ data'[s] = bus.rdata
      /\ \A t \in Slot : t # s => tag'[t] = tag[t] /\ data'[t] = data[t]
  BY <1>0, <1>v DEF Inv, TypeOK
<1>1. TypeOK'
  BY <1>0, <1>b, <1>v, NextWayIsWay DEF Inv, TypeOK
<1>2. NoDuplicateLine'
  <2> SUFFICES ASSUME NEW t \in valid', NEW u \in valid', t[1] = u[1], tag'[t] = tag'[u]
               PROVE  t = u
    BY DEF NoDuplicateLine
  <2>1. t \in Slot /\ u \in Slot
    BY <1>0, <1>v DEF Inv, TypeOK
  <2>2. CASE t # s /\ u # s
    BY <1>f, <1>v, <2>1, <2>2 DEF Inv, NoDuplicateLine
  <2>3. CASE t # s /\ u = s
    BY <1>0, <1>f, <1>m, <1>v, <2>1, <2>3, HeldIsCached DEF Inv
  <2>4. CASE t = s /\ u # s
    BY <1>0, <1>f, <1>m, <1>v, <2>1, <2>4, HeldIsCached DEF Inv
  <2> QED BY <2>2, <2>3, <2>4
<1>3. Border'
  <2> SUFFICES ASSUME NEW x \in Set
               PROVE  \E k \in -1 .. NWays - 1 : \A w \in Way : <<x, w>> \in valid' <=> w > k
    BY DEF Border
  <2>1. PICK k \in -1 .. NWays - 1 : \A w \in Way : <<x, w>> \in valid <=> w > k
    BY DEF Inv, Border
  <2>2. CASE x # req.set \/ s \in valid
    <3>1. \A w \in Way : <<x, w>> \in valid' <=> <<x, w>> \in valid
      BY <1>v, <2>2
    <3> QED BY <2>1, <3>1
  <2>3. CASE x = req.set /\ s \notin valid
    <3>0. refillWay \in Way /\ <<x, refillWay>> \notin valid
          /\ \A w \in Way : w > refillWay => <<x, w>> \in valid
      BY <1>0, <1>m, <2>3
    <3>a. ~(refillWay > k)
      BY <2>1, <3>0
    <3>b. ASSUME k > refillWay PROVE FALSE
      <4>1. k \in Way
        BY <3>0, <3>b, Geometry DEF Way
      <4>2. ~(k > k)
        BY Geometry
      <4> QED BY <2>1, <3>0, <3>b, <4>1, <4>2
    <3>1. refillWay = k
      BY <3>0, <3>a, <3>b, Geometry DEF Way
    <3>2. k - 1 \in -1 .. NWays - 1 /\ \A w \in Way : <<x, w>> \in valid' <=> w > k - 1
      BY <1>0, <1>v, <2>1, <2>3, <3>1, Geometry DEF Way
    <3> QED BY <3>2
  <2> QED BY <2>2, <2>3
<1>4. Control'
  BY <1>0, <1>b, <1>v DEF Control, RefillStates
<1>5. Recency'
  <2>1. \A t \in valid' : data'[t] \in recent'[LineOf(t)'] /\ tag'[t] \in Tag
    <3> SUFFICES ASSUME NEW t \in valid'
                 PROVE  data'[t] \in recent[[set |-> t[1], tag |-> tag'[t]]] /\ tag'[t] \in Tag
      BY <1>v DEF LineOf
    <3>1. CASE t = s
      <4>1. [set |-> t[1], tag |-> tag'[t]] = req
        BY <1>0, <1>f, <3>1 DEF Line
      <4> QED BY <1>0, <1>b, <1>f, <3>1, <4>1
    <3>2. CASE t # s
      BY <1>f, <1>v, <3>2 DEF Inv, TypeOK, Recency, LineOf
    <3> QED BY <3>1, <3>2
  <2>2. /\ \A l \in Line : mem'[l] \in recent'[l]
        /\ bus' = None
        /\ resp'.rdata \in recent'[req']
    BY <1>b, <1>v DEF Inv, Recency
  <2> QED BY <2>1, <2>2 DEF Recency, FetchIsRecent
<1> QED BY <1>1, <1>2, <1>3, <1>4, <1>5 DEF Inv

LEMMA RefillErrorInv == Inv /\ RefillError => Inv'
<1> SUFFICES ASSUME Inv, RefillError PROVE Inv'
  OBVIOUS
<1>0. req \in Line /\ 0 \in Way
  BY Geometry DEF Inv, Control, RefillError, Way
<1>t. resp' = [rdata |-> None, err |-> TRUE] /\ resp' \in Response
  BY DEF RefillError, Response
<1>1. TypeOK'
  BY <1>0, <1>t DEF Inv, RefillError, TypeOK, cacheVars
<1>2. NoDuplicateLine' /\ Border'
  BY Frame DEF Inv, RefillError, cacheVars
<1>3. Control'
  BY <1>0, <1>t DEF Inv, Control, RefillError, RefillStates
<1>4. Recency'
  BY <1>t, Frame DEF Inv, Recency, FetchIsRecent, RefillError, cacheVars
<1> QED BY <1>1, <1>2, <1>3, <1>4 DEF Inv

LEMMA RespondInv == Inv /\ Respond => Inv'
<1> SUFFICES ASSUME Inv, Respond PROVE Inv'
  OBVIOUS
<1>1. TypeOK'
  BY DEF Inv, Respond, TypeOK, cacheVars
<1>2. NoDuplicateLine' /\ Border'
  BY Frame DEF Inv, Respond, cacheVars
<1>3. Control'
  BY DEF Inv, Control, Respond, RefillStates
<1>4. Recency'
  BY Frame DEF Inv, Control, Recency, FetchIsRecent, Respond, cacheVars
<1> QED BY <1>1, <1>2, <1>3, <1>4 DEF Inv

LEMMA AskInvalidateInv == Inv /\ AskInvalidate => Inv'
<1> SUFFICES ASSUME Inv, AskInvalidate PROVE Inv'
  OBVIOUS
<1>1. TypeOK'
  BY DEF Inv, AskInvalidate, TypeOK, cacheVars
<1>2. NoDuplicateLine' /\ Border'
  BY Frame DEF Inv, AskInvalidate, cacheVars
<1>3. Control'
  <2>1. Cached(req)' <=> Cached(req)
    BY DEF AskInvalidate, cacheVars, Cached, Holds
  <2> QED BY <2>1 DEF Inv, Control, AskInvalidate, RefillStates, cacheVars
<1>4. Recency'
  BY Frame DEF Inv, Recency, FetchIsRecent, AskInvalidate, cacheVars
<1> QED BY <1>1, <1>2, <1>3, <1>4 DEF Inv

LEMMA InvalidateInv == \A done \in BOOLEAN : Inv /\ Invalidate(done) => Inv'
<1> SUFFICES ASSUME NEW done \in BOOLEAN, Inv, Invalidate(done) PROVE Inv'
  OBVIOUS
<1>1. TypeOK'
  BY DEF Inv, Invalidate, TypeOK
<1>2. NoDuplicateLine'
  BY DEF Invalidate, NoDuplicateLine
<1>3. Border'
  <2>1. NWays - 1 \in -1 .. NWays - 1 /\ \A x \in Set : \A w \in Way : <<x, w>> \in {} <=> w > NWays - 1
    BY Geometry DEF Way
  <2> QED BY <2>1 DEF Border, Invalidate
<1>4. Control'
  BY DEF Inv, Control, Invalidate, RefillStates
<1>5. Recency'
  BY DEF Inv, Control, Recency, FetchIsRecent, Invalidate
<1> QED BY <1>1, <1>2, <1>3, <1>4, <1>5 DEF Inv

LEMMA MemoryWriteInv == \A l \in Line, c \in Content : Inv /\ MemoryWrite(l, c) => Inv'
<1> SUFFICES ASSUME NEW l \in Line, NEW c \in Content, Inv, MemoryWrite(l, c) PROVE Inv'
  OBVIOUS
<1>r. recent' \in [Line -> SUBSET Content] /\ \A x \in Line : recent[x] \subseteq recent'[x]
  BY DEF Inv, TypeOK, MemoryWrite
<1>1. TypeOK'
  BY <1>r DEF Inv, MemoryWrite, TypeOK, cacheVars
<1>2. NoDuplicateLine' /\ Border'
  BY Frame DEF Inv, MemoryWrite, cacheVars
<1>3. Control'
  <2>1. Cached(req)' <=> Cached(req)
    BY DEF MemoryWrite, cacheVars, Cached, Holds
  <2> QED BY <2>1 DEF Inv, Control, MemoryWrite, RefillStates, cacheVars
<1>4. Recency'
  <2>1. \A x \in Line : mem'[x] \in recent'[x]
    BY DEF Inv, TypeOK, Recency, MemoryWrite
  <2>2. \A s \in valid' : data'[s] \in recent'[LineOf(s)'] /\ tag'[s] \in Tag
    <3> SUFFICES ASSUME NEW s \in valid
                 PROVE  data[s] \in recent'[LineOf(s)] /\ tag[s] \in Tag
      BY DEF MemoryWrite, cacheVars, LineOf
    <3>1. LineOf(s) \in Line
      BY DEF Inv, TypeOK, Recency, LineOf, Line, Slot
    <3> QED BY <1>r, <3>1 DEF Inv, Recency
  <2>3. bus' # None /\ ~bus'.err => bus'.rdata \in recent'[req']
    BY <1>r DEF Inv, Control, Recency, MemoryWrite
  <2>4. FetchIsRecent'
    BY <1>r DEF Inv, Control, Recency, FetchIsRecent, MemoryWrite
  <2> QED BY <2>1, <2>2, <2>3, <2>4 DEF Recency
<1> QED BY <1>1, <1>2, <1>3, <1>4 DEF Inv

-----------------------------------------------------------------------------
LEMMA NextInv == Inv /\ [Next]_vars => Inv'
<1> SUFFICES ASSUME Inv, [Next]_vars PROVE Inv'
  OBVIOUS
<1>1. CASE CacheStep
  BY <1>1, HitInv, MissInv, RequestInv, RefillInv, RefillErrorInv, RespondInv DEF CacheStep
<1>2. CASE ReadLine
  BY <1>2, ReadLineInv
<1>3. CASE \E l \in Line : Fetch(l)
  BY <1>3, FetchInv
<1>4. CASE AskInvalidate
  BY <1>4, AskInvalidateInv
<1>5. CASE \E done \in BOOLEAN : Invalidate(done)
  BY <1>5, InvalidateInv
<1>6. CASE \E l \in Line, c \in Content : MemoryWrite(l, c)
  BY <1>6, MemoryWriteInv
<1>7. CASE UNCHANGED vars
  BY <1>7 DEF vars, Inv, TypeOK, NoDuplicateLine, Border, Control, Recency, FetchIsRecent,
              LineOf, Cached, Holds
<1> QED BY <1>1, <1>2, <1>3, <1>4, <1>5, <1>6, <1>7 DEF Next

LEMMA Invariance == Spec => []Inv
<1> QED BY InitInv, NextInv, PTL DEF Spec

\* Every register of the instruction cache keeps a value of its width.
THEOREM TypeCorrect == Spec => []TypeOK
<1>1. Inv => TypeOK
  BY DEF Inv
<1> QED BY <1>1, Invariance, PTL

\* A hit reads the way that matched, although the loop lets an invalid way
\* above it win: the valid ways of a set are always its upper ones.
THEOREM HitReadsTheMatchAlways == Spec => [](HitReadsTheMatch /\ ValidWaysAreUpper)
<1>1. Inv => HitReadsTheMatch
  BY HitWayMatches DEF Inv, Control, HitReadsTheMatch
<1>2. Inv => ValidWaysAreUpper
  <2> SUFFICES ASSUME Inv, NEW s \in valid, NEW w \in Way, w > s[2]
               PROVE  <<s[1], w>> \in valid
    BY DEF ValidWaysAreUpper
  <2>1. s \in Slot /\ s = <<s[1], s[2]>> /\ s[1] \in Set /\ s[2] \in Way
    BY SlotParts DEF Inv, TypeOK
  <2> QED BY <2>1, Geometry DEF Inv, Border, Way
<1> QED BY <1>1, <1>2, Invariance, PTL

\* After a FENCE is acknowledged, no fetch returns what its line held only
\* before it, whatever refill was under way when it was asked for.
THEOREM FetchIsRecentAlways == Spec => []FetchIsRecent
<1>1. Inv => FetchIsRecent
  BY DEF Inv, Recency
<1> QED BY <1>1, Invariance, PTL
=============================================================================
