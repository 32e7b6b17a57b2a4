---------------------------- MODULE IfStageProofs ----------------------------
(* Theorems about the fetch stage, for programs of every size, every pattern  *)
(* of compressed instructions, stalls and redirects, and every memory: the    *)
(* faults it reports are warranted, the instructions it delivers are whole,   *)
(* and they come in program order where the README says that they do.         *)
EXTENDS IfStage, TLAPS

(* A program of 32-bit instructions at word boundaries.                       *)
Norvc == /\ \A a \in Half : ~Odd(a) => ~code[a]
         /\ \A t \in setup.targets : ~Odd(t)

(* The inductive invariant.                                                   *)
\* A response is for the word of resp_pc, the next request is a word further, and
\* a halfword that waits in the buffer is the start of an instruction it ends.
Requested == fetch # None => /\ fetch = WordOf(respPc) /\ pc = Plus(respPc, 2)
                             /\ upper # None => Composing

\* From a redirect to its request the stage is empty and drops what answers.
Redirecting ==
  /\ redirectPc # None => /\ hold = None /\ upper = None /\ ifid = None
                          /\ next = redirectPc /\ (fetch # None => dropResp)
  /\ dropResp => redirectPc # None /\ fetch # None

\* Nothing is requested while a packet is held.
Holding == hold # None => fetch = None /\ ~hold.fault

Booting == booting => /\ fetch = None /\ hold = None /\ upper = None /\ ifid = None
                      /\ redirectPc = None /\ next = 0 /\ pc = 0

\* What is known of every program, ...
Base == TypeOK /\ Requested /\ Redirecting /\ Holding /\ Booting

\* ... of one of 32-bit instructions at word boundaries, ...
Even(a) == a = None \/ ~Odd(a)
Words == Norvc =>
  /\ upper = None
  /\ Even(pc) /\ Even(respPc) /\ Even(redirectPc) /\ Even(next)
  /\ hold # None => ~Odd(hold.pc)
  /\ ifid # None => ~Odd(ifid.pc)
  /\ ~setup.single /\ fetch # None => ifid = None

\* ... and of one without faults.
Halves == Faulty = {} /\ upper # None =>
  /\ Odd(upper.pc) /\ upper.data = upper.pc
  /\ fetch = None => pc = Plus(upper.pc, 1)
  /\ fetch # None => respPc \in {Plus(upper.pc, 1), Plus(upper.pc, 2)}

Unfaulted == Faulty = {} => next # None /\ (ifid # None => ~ifid.fault)

\* The instruction behind a packet, and the first that is not in a packet yet.
After(p) == Plus(p.pc, Length(p.pc))
Coming == IF upper # None THEN upper.pc ELSE IF fetch # None THEN respPc ELSE pc

\* The packets are instructions.
Whole(p) == p.fault \/ WordOf(p.pc) \in Faulty
            \/ p.instr = IF code[p.pc] THEN <<p.pc>> ELSE <<p.pc, Plus(p.pc, 1)>>
Regular == Norvc \/ Faulty = {}
Contents == Regular =>
  /\ ifid # None => Whole(ifid)
  /\ hold # None => Whole(hold) /\ Coming = After(hold)

\* They follow the program.
Orderly == Norvc \/ (setup.single /\ Faulty = {})
Following == Orderly /\ next # None /\ redirectPc = None =>
  /\ ifid # None => ifid.pc = next
  /\ (IF hold # None THEN hold.pc ELSE Coming) = IF ifid = None THEN next ELSE After(ifid)


Inv == Base /\ Words /\ Halves /\ Unfaulted /\ Contents /\ Following /\ FaultIsWarranted

-----------------------------------------------------------------------------
(* Halfword addresses modulo the size of the program.                         *)
LEMMA PlusIsLinear ==
  ASSUME NEW a \in Half, NEW n \in {1, 2}
  PROVE  /\ Plus(a, n) = IF a + n < 2 * NWords THEN a + n ELSE a + n - 2 * NWords
         /\ Plus(a, n) \in Half
<1> DEFINE M == 2 * NWords
<1>1. M \in Nat /\ M >= 2 /\ a \in 0 .. M - 1
  BY Sizes DEF Half
<1>2. a + n < M => (a + n) % M = a + n
  BY <1>1
<1>3. a + n >= M => (a + n) % M = a + n - M
  <2> SUFFICES ASSUME a + n >= M PROVE (a + n) % M = a + n - M
    OBVIOUS
  <2>1. a + n - M \in 0 .. M - 1
    BY <1>1
  <2>2. (a + n) % M = (a + n - M) % M
    BY <1>1
  <2> QED BY <1>1, <2>1, <2>2
<1> QED BY <1>1, <1>2, <1>3 DEF Plus, Half

LEMMA Parity ==
  ASSUME NEW a \in Half
  PROVE  /\ Odd(Plus(a, 1)) <=> ~Odd(a)
         /\ Odd(Plus(a, 2)) <=> Odd(a)
         /\ Plus(Plus(a, 1), 1) = Plus(a, 2) /\ Plus(Plus(a, 1), 2) = Plus(Plus(a, 2), 1)
         /\ Plus(a, 1) \in Half /\ Plus(a, 2) \in Half
<1>1. Plus(a, 1) \in Half /\ Plus(a, 2) \in Half
  BY PlusIsLinear
<1>2. /\ Plus(a, 1) = IF a + 1 < 2 * NWords THEN a + 1 ELSE a + 1 - 2 * NWords
      /\ Plus(a, 2) = IF a + 2 < 2 * NWords THEN a + 2 ELSE a + 2 - 2 * NWords
      /\ \A b \in {Plus(a, 1), Plus(a, 2)} :
           /\ Plus(b, 1) = IF b + 1 < 2 * NWords THEN b + 1 ELSE b + 1 - 2 * NWords
           /\ Plus(b, 2) = IF b + 2 < 2 * NWords THEN b + 2 ELSE b + 2 - 2 * NWords
  BY <1>1, PlusIsLinear
<1>3. NWords \in Nat \ {0} /\ a \in 0 .. 2 * NWords - 1
  BY Sizes DEF Half
<1> QED BY <1>1, <1>2, <1>3 DEF Odd

(* The halfwords of the word an address is in.                                *)
LEMMA WordParts ==
  ASSUME NEW a \in Half
  PROVE  /\ WordOf(a) \in Word /\ 2 * WordOf(a) \in Half /\ 2 * WordOf(a) + 1 \in Half
         /\ ~Odd(a) => 2 * WordOf(a) = a /\ 2 * WordOf(a) + 1 = Plus(a, 1)
         /\ Odd(a) => 2 * WordOf(a) + 1 = a
<1>1. NWords \in Nat \ {0} /\ a \in 0 .. 2 * NWords - 1
  BY Sizes DEF Half
<1>2. Plus(a, 1) = IF a + 1 < 2 * NWords THEN a + 1 ELSE a + 1 - 2 * NWords
  BY PlusIsLinear
<1> QED BY <1>1, <1>2 DEF WordOf, Odd, Half, Word

-----------------------------------------------------------------------------
(* What is made of a response is typed.                                       *)
LEMMA PacketIsTyped ==
  ASSUME NEW a \in Half, NEW x \in Data, NEW y \in Data, NEW b \in BOOLEAN
  PROVE  Packet(a, <<x>>, b) \in PacketType /\ Packet(a, <<x, y>>, b) \in PacketType
<1>1. <<x>> \in [{1} -> Data] /\ <<x, y>> \in [{1, 2} -> Data]
  OBVIOUS
<1> QED BY <1>1 DEF Packet, PacketType

LEMMA ResponseIsTyped ==
  ASSUME TypeOK, fetch # None
  PROVE  Lo \in Data /\ Hi \in Data
<1>1. fetch \in 0 .. NWords - 1 /\ NWords \in Nat
  BY Sizes DEF TypeOK, Word
<1> QED BY <1>1 DEF Lo, Hi, Data, Half

LEMMA PartsAreTyped ==
  ASSUME TypeOK, fetch # None
  PROVE  /\ First \in PacketType \cup {None} /\ Rest \in UpperType \cup {None}
         /\ upper # None => Composed \in PacketType /\ RestComposed \in UpperType
         /\ Packet(respPc, <<NopLo, NopHi>>, TRUE) \in PacketType
<1>1. Lo \in Data /\ Hi \in Data /\ NopLo \in Data /\ NopHi \in Data
  BY ResponseIsTyped DEF Data
<1>2. respPc \in Half /\ Plus(respPc, 1) \in Half
  BY PlusIsLinear DEF TypeOK
<1>3. First \in PacketType \cup {None}
  BY <1>1, <1>2, PacketIsTyped DEF First
<1>4. Rest \in UpperType \cup {None}
  BY <1>1, <1>2 DEF Rest, UpperType
<1>5. upper # None => Composed \in PacketType /\ RestComposed \in UpperType
  <2> SUFFICES ASSUME upper # None PROVE Composed \in PacketType /\ RestComposed \in UpperType
    OBVIOUS
  <2>1. upper.pc \in Half /\ upper.data \in Data
    BY DEF TypeOK, UpperType
  <2>2. Plus(upper.pc, 2) \in Half
    BY <2>1, PlusIsLinear
  <2> QED BY <1>1, <2>1, <2>2, PacketIsTyped DEF Composed, RestComposed, UpperType
<1> QED BY <1>1, <1>2, <1>3, <1>4, <1>5, PacketIsTyped

-----------------------------------------------------------------------------
(* The types.                                                                 *)
LEMMA RedirectIsTyped ==
  ASSUME TypeOK, NEW i \in Input
  PROVE  /\ i.redirect # None => i.redirect \in Half
         /\ RedirectRequest(i) => RequestPc(i) \in Half
<1>1. setup.targets \subseteq Half
  BY Places DEF TypeOK, Setup
<1> QED BY <1>1 DEF Input, TypeOK, RedirectRequest, RequestPc

LEMMA RequestTypes ==
  ASSUME TypeOK, NEW i \in Input, Request(i)
  PROVE  /\ pc' \in Half /\ respPc' \in Half
         /\ fetch' \in Word \cup {None} /\ redirectPc' \in Half \cup {None}
<1>1. pc \in Half /\ respPc \in Half /\ fetch \in Word \cup {None}
  BY DEF TypeOK
<1>2. IssueRedirect(i) => RequestPc(i) \in Half
  BY RedirectIsTyped DEF IssueRedirect
<1>3. \A a \in Half : Plus(a, 1) \in Half /\ Plus(a, 2) \in Half /\ WordOf(a) \in Word
  BY Parity, WordParts
<1>4. upper # None => upper.pc \in Half
  BY DEF TypeOK, UpperType
<1>5. NextPc(i) \in Half
  BY <1>1, <1>2, <1>3, <1>4 DEF NextPc
<1>6. redirectPc' \in Half \cup {None}
  BY RedirectIsTyped DEF Request, TypeOK
<1> QED BY <1>1, <1>2, <1>3, <1>5, <1>6 DEF Request

LEMMA DeliverTypes ==
  ASSUME TypeOK, NEW i \in Input, Deliver(i)
  PROVE  /\ hold' \in PacketType \cup {None} /\ ifid' \in PacketType \cup {None}
         /\ upper' \in UpperType \cup {None}
<1>1. hold \in PacketType \cup {None} /\ ifid \in PacketType \cup {None}
      /\ upper \in UpperType \cup {None}
  BY DEF TypeOK
<1>2. Useful(i) => fetch # None
  BY DEF Useful, Response
<1>3. CASE Squash(i) \/ DeliverHold(i) \/ Bubble(i) \/ Stall(i)
  BY <1>1, <1>3 DEF Squash, DeliverHold, Bubble, Stall, SetUpper
<1>4. CASE DeliverFault(i)
  BY <1>2, <1>4, PartsAreTyped DEF DeliverFault, Fault
<1>5. CASE DeliverComposed(i) \/ HoldComposed(i)
  BY <1>1, <1>2, <1>5, PartsAreTyped DEF DeliverComposed, HoldComposed, Composing, SetUpper
<1>6. CASE DeliverResponse(i) \/ HoldResponse(i)
  BY <1>1, <1>2, <1>6, PartsAreTyped DEF DeliverResponse, HoldResponse, SetUpper
<1>7. CASE DeliverUpper(i)
  <2>1. upper.pc \in Half /\ upper.data \in Data
    BY <1>1, <1>7 DEF DeliverUpper, UpperType
  <2>2. Packet(upper.pc, <<upper.data>>, FALSE) \in PacketType
    BY <2>1, PacketIsTyped
  <2> QED BY <1>1, <1>7, <2>2 DEF DeliverUpper, SetUpper
<1> QED BY <1>3, <1>4, <1>5, <1>6, <1>7 DEF Deliver

LEMMA FollowTypes ==
  ASSUME TypeOK, NEW i \in Input, Possible(i), Follow(i)
  PROVE  next' \in Half \cup {None} /\ redirects' \in 0 .. MaxRedirects
<1>1. next # None => Plus(next, 1) \in Half /\ Plus(next, 2) \in Half
  BY Parity DEF TypeOK
<1>2. next' \in Half \cup {None}
  BY <1>1, RedirectIsTyped DEF Follow, Length, TypeOK
<1>3. redirects' \in 0 .. MaxRedirects
  BY Sizes DEF Follow, Possible, TypeOK
<1> QED BY <1>2, <1>3

LEMMA CycleTypes ==
  ASSUME TypeOK, NEW i \in Input, Cycle(i) PROVE TypeOK'
<1>1. setup' = setup /\ booting' = booting
  BY DEF Cycle
<1>2. dropResp' \in BOOLEAN
  BY DEF Cycle, Drop, TypeOK
<1> QED BY <1>1, <1>2, RequestTypes, DeliverTypes, FollowTypes DEF Cycle, TypeOK

-----------------------------------------------------------------------------
(* The initial states and the end of booting.                                 *)
LEMMA InitInv == Init => Inv
<1> SUFFICES ASSUME Init PROVE Inv
  OBVIOUS
<1>1. 0 \in Half /\ Half # {} /\ ~Odd(0)
  BY Sizes DEF Half, Odd
<1>2. TypeOK
  <2>1. setup \in Setups /\ booting \in BOOLEAN /\ dropResp \in BOOLEAN
    BY DEF Init
  <2>2. redirects \in 0 .. MaxRedirects
    BY Sizes DEF Init
  <2> QED BY <1>1, <2>1, <2>2 DEF Init, TypeOK
<1>3. Base
  BY <1>2 DEF Init, Base, Requested, Redirecting, Holding, Booting
<1>4. next # None
  BY <1>1, NoneAssumption DEF Init
<1>5. Words /\ Halves /\ Unfaulted
  BY <1>1, <1>4 DEF Init, Words, Halves, Unfaulted, Even
<1>6. Contents /\ Following /\ FaultIsWarranted
  BY DEF Init, Contents, Following, FaultIsWarranted, Coming
<1> QED BY <1>3, <1>5, <1>6 DEF Inv

LEMMA BootStep == ASSUME Inv, Boot PROVE Inv'
<1>1. /\ fetch = None /\ hold = None /\ upper = None /\ ifid = None
      /\ redirectPc = None /\ next = 0 /\ pc = 0
  BY DEF Inv, Base, Booting, Boot
<1>2. /\ fetch' = None /\ hold' = None /\ upper' = None /\ ifid' = None
      /\ redirectPc' = None /\ next' = 0 /\ pc' = 0 /\ respPc' = 0
      /\ ~booting' /\ setup' = setup /\ dropResp' = dropResp /\ redirects' = redirects
  BY <1>1 DEF Boot, ghosts
<1>3. 0 \in Half /\ ~Odd(0) /\ 0 # None
  BY Sizes, NoneAssumption DEF Half, Odd
<1>4. TypeOK'
  <2>1. booting' \in BOOLEAN
    BY DEF Boot
  <2> QED BY <1>2, <1>3, <2>1 DEF Inv, Base, TypeOK
<1>5. Base'
  BY <1>1, <1>2, <1>4 DEF Inv, Base, Requested, Redirecting, Holding, Booting
<1>6. Words' /\ Halves' /\ Unfaulted' /\ Contents' /\ Following' /\ FaultIsWarranted'
  BY <1>2, <1>3 DEF Words, Halves, Unfaulted, Contents, Following, FaultIsWarranted,
     Coming, Even
<1> QED BY <1>5, <1>6 DEF Inv

-----------------------------------------------------------------------------
(* From a redirect to its request.                                            *)

(* A stage without packets, that has asked for the target or waits to ask.    *)
LEMMA EmptyStage ==
  ASSUME TypeOK', setup' = setup, ~booting', next' \in Half,
         hold' = None, upper' = None, ifid' = None,
         \/ /\ respPc' = next' /\ fetch' = WordOf(next') /\ pc' = Plus(next', 2)
            /\ redirectPc' = None /\ ~dropResp'
         \/ /\ redirectPc' = next' /\ (dropResp' <=> fetch' # None)
            /\ fetch' # None => fetch' = WordOf(respPc') /\ pc' = Plus(respPc', 2),
         Norvc => ~Odd(next') /\ ~Odd(pc') /\ ~Odd(respPc')
  PROVE  Inv'
<1>1. next' # None /\ WordOf(next') # None
  <2>1. next' \in Half /\ Word \subseteq Half
    BY Sizes DEF Half, Word
  <2> QED BY <2>1, WordParts, NoneAssumption
<1>2. Norvc' <=> Norvc
  BY DEF Norvc, code
<1>3. Base'
  BY <1>1 DEF Base, Requested, Redirecting, Holding, Booting
<1>4. Words' /\ Halves' /\ Unfaulted' /\ Contents' /\ FaultIsWarranted'
  BY <1>1, <1>2 DEF Words, Halves, Unfaulted, Contents, FaultIsWarranted, Even
<1>5. Following'
  BY <1>1 DEF Following, Coming
<1> QED BY <1>3, <1>4, <1>5 DEF Inv

LEMMA RedirectStep ==
  ASSUME Inv, NEW i \in Input, Cycle(i), RedirectRequest(i)
  PROVE  Inv'
<1> DEFINE t == RequestPc(i)
<1>1. TypeOK /\ TypeOK' /\ setup' = setup /\ booting' = booting /\ ~booting
  BY CycleTypes DEF Inv, Base, Cycle
<1>2. t \in Half /\ t # None
  BY <1>1, RedirectIsTyped, NoneAssumption
<1>3. i.redirect = None => /\ hold = None /\ upper = None /\ ifid = None /\ next = t
                           /\ ~Useful(i)
  BY DEF Inv, Base, Redirecting, RedirectRequest, RequestPc, Useful, Response
<1>4. hold' = None /\ upper' = None /\ ifid' = None
  <2>1. CASE i.redirect # None
    <3>1. Squash(i)
      BY <2>1 DEF Cycle, Deliver, DeliverFault, DeliverHold, DeliverComposed, DeliverUpper,
         DeliverResponse, HoldComposed, HoldResponse, Bubble, Stall
    <3> QED BY <3>1 DEF Squash
  <2>2. CASE i.redirect = None
    <3>1. Bubble(i) \/ Stall(i)
      BY <1>3, <2>2 DEF Cycle, Deliver, Squash, DeliverFault, Fault, DeliverHold,
         DeliverComposed, Composing, DeliverUpper, DeliverResponse, HoldComposed, HoldResponse
    <3> QED BY <1>3, <2>2, <3>1 DEF Bubble, Stall, SetUpper
  <2> QED BY <2>1, <2>2
<1>5. next' = t
  BY <1>3 DEF Cycle, Follow, Taken, RequestPc
<1>6. Norvc => ~Odd(t) /\ ~Odd(pc) /\ ~Odd(respPc)
  <2>1. i.redirect # None => i.redirect \in setup.targets
    BY DEF Input
  <2>2. pc # None /\ respPc # None
    BY <1>1, NoneAssumption DEF TypeOK
  <2> QED BY <1>2, <2>1, <2>2 DEF Norvc, RequestPc, RedirectRequest, Inv, Words, Even
<1>7. CASE IssueRedirect(i)
  <2>1. /\ respPc' = t /\ fetch' = WordOf(t) /\ pc' = Plus(t, 2) /\ redirectPc' = None
    BY <1>7 DEF Cycle, Request, NextPc
  <2>2. ~dropResp'
    <3>1. fetch # None => Response(i)
      BY <1>7 DEF IssueRedirect, CanIssue, Response
    <3>2. dropResp => fetch # None
      BY DEF Inv, Base, Redirecting
    <3> QED BY <1>7, <3>1, <3>2 DEF Cycle, Drop
  <2>3. Odd(pc') <=> Odd(t)
    BY <1>2, <2>1, Parity
  <2> QED BY <1>1, <1>2, <1>4, <1>5, <1>6, <2>1, <2>2, <2>3, EmptyStage
<1>8. CASE ~IssueRedirect(i)
  <2>1. ~IssueNext(i)
    BY DEF IssueNext
  <2>2. /\ respPc' = respPc /\ fetch' = IF Response(i) THEN None ELSE fetch
        /\ redirectPc' = t
    BY <1>8, <2>1 DEF Cycle, Request, RedirectRequest, RequestPc
  <2>3. pc' = pc
    BY <1>3, <1>8, <2>1 DEF Cycle, Request, NextPc
  <2>4. dropResp' <=> fetch' # None
    BY <1>8, <2>2 DEF Cycle, Drop, Response, RedirectRequest, Inv, Base, Redirecting
  <2>5. fetch' # None => fetch' = WordOf(respPc') /\ pc' = Plus(respPc', 2)
    BY <2>2, <2>3 DEF Inv, Base, Requested
  <2> QED BY <1>1, <1>2, <1>4, <1>5, <1>6, <2>2, <2>3, <2>4, <2>5, EmptyStage
<1> QED BY <1>7, <1>8

-----------------------------------------------------------------------------
(* An edge without a redirect, of that cycle or pending.                      *)
Flows(i) == Inv /\ i \in Input /\ Cycle(i) /\ ~RedirectRequest(i)

LEMMA FlowFacts ==
  ASSUME NEW i, Flows(i)
  PROVE  /\ i.redirect = None /\ redirectPc = None /\ redirectPc' = None
         /\ ~dropResp /\ ~dropResp' /\ (Useful(i) <=> Response(i)) /\ ~IssueRedirect(i)
         /\ setup' = setup /\ ~booting /\ booting' = booting /\ TypeOK /\ TypeOK'
         /\ Response(i) => fetch # None
<1>1. i.redirect = None /\ redirectPc = None /\ ~IssueRedirect(i) /\ i \in Input
  BY DEF Flows, RedirectRequest, IssueRedirect
<1>2. ~dropResp
  BY <1>1 DEF Flows, Inv, Base, Redirecting
<1>3. ~dropResp' /\ redirectPc' = None
  BY <1>1, <1>2 DEF Flows, Cycle, Drop, Request
<1>4. TypeOK /\ TypeOK'
  BY <1>1, CycleTypes DEF Flows, Inv, Base
<1> QED BY <1>1, <1>2, <1>3, <1>4 DEF Flows, Cycle, Useful, Response

(* What the edge requests.                                                    *)
LEMMA FlowRequests ==
  ASSUME NEW i, Flows(i)
  PROVE  /\ IssueNext(i) =>
              /\ respPc' = pc /\ fetch' = WordOf(pc) /\ pc' = Plus(pc, 2)
              /\ IfIdEn(i) /\ hold = None /\ i.ready /\ i.enable
              /\ fetch # None => Response(i)
              /\ ~(Response(i) /\ IsC(Lo) /\ IsC(Hi))
              /\ Response(i) /\ (Odd(respPc) \/ Composing) => ~IsC(Hi)
         /\ ~IssueNext(i) =>
              /\ respPc' = respPc /\ fetch' = IF Response(i) THEN None ELSE fetch
              /\ pc' = IF upper # None /\ ~Composing /\ IfIdEn(i) THEN Plus(upper.pc, 1)
                       ELSE IF Response(i) /\ Odd(respPc) THEN Plus(respPc, 1) ELSE pc
<1>1. ~IssueRedirect(i) /\ (Useful(i) <=> Response(i)) /\ ~dropResp /\ i.redirect = None
  BY FlowFacts
<1>2. CASE IssueNext(i)
  <2>1. CanIssue(i) /\ PcEn(i) /\ i.ready
    BY <1>2 DEF IssueNext
  <2>2. respPc' = pc /\ fetch' = WordOf(pc) /\ pc' = Plus(pc, 2)
    BY <1>1, <1>2 DEF Flows, Cycle, Request, NextPc
  <2> QED BY <1>2, <2>1, <2>2 DEF CanIssue, PcEn, Response, StartsUpper, UpperPrefetch
<1>3. CASE ~IssueNext(i)
  <2>1. NextPc(i) = IF upper # None /\ ~Composing /\ IfIdEn(i) THEN Plus(upper.pc, 1)
                    ELSE IF Response(i) /\ Odd(respPc) THEN Plus(respPc, 1) ELSE pc
    BY <1>1, <1>3 DEF NextPc
  <2> QED BY <1>1, <1>3, <2>1 DEF Flows, Cycle, Request
<1> QED BY <1>2, <1>3

(* What the edge delivers: the alternatives of Deliver, with what is known of *)
(* the other registers when each is taken.                                    *)
FaultGiven(i) ==
  /\ IfIdEn(i) /\ Response(i) /\ fetch \in Faulty /\ hold = None
  /\ ifid' = Packet(respPc, <<NopLo, NopHi>>, TRUE) /\ hold' = None /\ upper' = None
HeldGiven(i) ==
  /\ IfIdEn(i) /\ hold # None /\ ~Response(i) /\ fetch = None
  /\ ifid' = hold /\ hold' = None /\ upper' = upper
ComposedGiven(i) ==
  /\ IfIdEn(i) /\ hold = None /\ Composing /\ Response(i) /\ fetch \notin Faulty
  /\ ifid' = Composed /\ hold' = None /\ upper' = RestComposed
UpperKept(i) ==
  /\ IfIdEn(i) /\ hold = None /\ Composing /\ ~Response(i)
  /\ ifid' = None /\ hold' = None /\ upper' = upper
UpperGiven(i) ==
  /\ IfIdEn(i) /\ hold = None /\ upper # None /\ ~Composing /\ fetch = None /\ ~Response(i)
  /\ ifid' = Packet(upper.pc, <<upper.data>>, FALSE) /\ hold' = None /\ upper' = None
ResponseGiven(i) ==
  /\ IfIdEn(i) /\ hold = None /\ upper = None /\ Response(i) /\ fetch \notin Faulty
  /\ ifid' = First /\ hold' = None /\ upper' = Rest
ComposedHeld(i) ==
  /\ ~IfIdEn(i) /\ hold = None /\ Composing /\ Response(i)
  /\ ifid' = ifid /\ hold' = Composed /\ upper' = RestComposed
ResponseHeld(i) ==
  /\ ~IfIdEn(i) /\ hold = None /\ upper = None /\ Response(i)
  /\ ifid' = ifid /\ hold' = First /\ upper' = Rest
NothingGiven(i) ==
  /\ IfIdEn(i) /\ ~Response(i) /\ hold = None /\ upper = None
  /\ ifid' = None /\ hold' = None /\ upper' = None
Stalled(i) ==
  /\ ~IfIdEn(i) /\ ~Response(i) /\ ifid' = ifid /\ hold' = hold /\ upper' = upper

LEMMA FlowDelivers ==
  ASSUME NEW i, Flows(i)
  PROVE  \/ FaultGiven(i) \/ HeldGiven(i) \/ ComposedGiven(i) \/ UpperKept(i)
         \/ UpperGiven(i) \/ ResponseGiven(i) \/ ComposedHeld(i) \/ ResponseHeld(i)
         \/ NothingGiven(i) \/ Stalled(i)
<1>1. /\ i.redirect = None /\ ~dropResp /\ (Useful(i) <=> Response(i)) /\ ~IssueRedirect(i)
      /\ Response(i) => fetch # None
  BY FlowFacts
<1>2. /\ hold # None => fetch = None
      /\ upper # None /\ fetch # None => Composing
      /\ Composing => upper # None
  BY DEF Flows, Inv, Base, Holding, Requested, Composing
<1>3. Deliver(i) /\ ~Squash(i)
  BY <1>1 DEF Flows, Cycle, Squash
<1>4. CASE DeliverFault(i)
  BY <1>1, <1>2, <1>4 DEF DeliverFault, Fault, FaultGiven
<1>5. CASE DeliverHold(i)
  BY <1>1, <1>2, <1>5 DEF DeliverHold, SetUpper, HeldGiven
<1>6. CASE DeliverComposed(i)
  BY <1>1, <1>2, <1>6 DEF DeliverComposed, SetUpper, Fault, ComposedGiven
<1>7. CASE DeliverUpper(i)
  BY <1>1, <1>2, <1>7 DEF DeliverUpper, SetUpper, Response, UpperKept, UpperGiven
<1>8. CASE DeliverResponse(i)
  BY <1>1, <1>8 DEF DeliverResponse, SetUpper, Fault, ResponseGiven
<1>9. CASE HoldComposed(i) \/ HoldResponse(i)
  BY <1>1, <1>2, <1>9 DEF HoldComposed, HoldResponse, SetUpper, ComposedHeld, ResponseHeld
<1>10. CASE Bubble(i) \/ Stall(i)
  BY <1>1, <1>2, <1>10 DEF Bubble, Stall, SetUpper, NothingGiven, Stalled
<1> QED BY <1>3, <1>4, <1>5, <1>6, <1>7, <1>8, <1>9, <1>10 DEF Deliver

(* What the buffer is left with from a response starts an instruction that    *)
(* the next word ends, if a next word is requested.                           *)
LEMMA FlowComposing ==
  ASSUME NEW i, Flows(i), fetch' # None, upper' # None PROVE Composing'
<1>1. code' = code /\ upper' # None
  BY FlowFacts DEF code
<1>2. Composing' <=> ~IsC(upper'.data)
  BY <1>1 DEF IsC, Composing
<1>3. CASE IssueNext(i)
  <2>1. /\ ~(Response(i) /\ IsC(Lo) /\ IsC(Hi))
        /\ Response(i) /\ (Odd(respPc) \/ Composing) => ~IsC(Hi)
        /\ IfIdEn(i) /\ hold = None
    BY <1>3, FlowRequests
  <2>2. ComposedGiven(i) => Composing'
    <3>1. ComposedGiven(i) => upper'.data = Hi /\ ~IsC(Hi)
      BY <2>1 DEF ComposedGiven, RestComposed
    <3> QED BY <1>2, <3>1
  <2>3. ResponseGiven(i) => Composing'
    <3>1. Rest # None => Rest.data = Hi /\ (Odd(respPc) \/ IsC(Lo))
      BY DEF Rest
    <3>2. ResponseGiven(i) => upper'.data = Hi /\ ~IsC(Hi)
      BY <1>1, <2>1, <3>1 DEF ResponseGiven
    <3> QED BY <1>2, <3>2
  <2>4. UpperKept(i) => Composing'
    BY <1>2 DEF UpperKept, Composing
  <2>5. UpperKept(i) \/ ComposedGiven(i) \/ ResponseGiven(i)
    BY <1>1, <2>1, FlowDelivers DEF FaultGiven, HeldGiven, UpperGiven, ComposedHeld,
       ResponseHeld, NothingGiven, Stalled
  <2> QED BY <2>2, <2>3, <2>4, <2>5
<1>4. CASE ~IssueNext(i)
  <2>1. fetch # None /\ ~Response(i)
    BY <1>4, FlowRequests
  <2>2. hold = None
    BY <2>1 DEF Flows, Inv, Base, Holding
  <2>3. upper' = upper
    BY <1>1, <2>1, <2>2, FlowDelivers DEF FaultGiven, HeldGiven, ComposedGiven, UpperKept,
       UpperGiven, ResponseGiven, ComposedHeld, ResponseHeld, NothingGiven, Stalled
  <2>4. Composing
    BY <1>1, <2>1, <2>3 DEF Flows, Inv, Base, Requested
  <2> QED BY <1>2, <2>3, <2>4 DEF Composing
<1> QED BY <1>3, <1>4

LEMMA FlowBase == ASSUME NEW i, Flows(i) PROVE Base' /\ FaultIsWarranted'
<1>1. /\ TypeOK' /\ redirectPc' = None /\ ~dropResp' /\ ~booting' /\ setup' = setup
      /\ Response(i) => fetch # None
  BY FlowFacts
<1>2. Requested'
  <2> SUFFICES ASSUME fetch' # None PROVE fetch' = WordOf(respPc') /\ pc' = Plus(respPc', 2)
    BY FlowComposing DEF Requested
  <2>1. CASE IssueNext(i)
    BY <2>1, FlowRequests
  <2>2. CASE ~IssueNext(i)
    <3>1. fetch # None /\ ~Response(i) /\ fetch' = fetch /\ respPc' = respPc
      BY <2>2, FlowRequests
    <3>2. upper # None => Composing
      BY <3>1 DEF Flows, Inv, Base, Requested
    <3>3. pc' = pc
      BY <2>2, <3>1, <3>2, FlowRequests
    <3> QED BY <3>1, <3>3 DEF Flows, Inv, Base, Requested
  <2> QED BY <2>1, <2>2
<1>3. Holding'
  <2> SUFFICES ASSUME hold' # None PROVE fetch' = None /\ ~hold'.fault
    BY DEF Holding
  <2>1. ComposedHeld(i) \/ ResponseHeld(i) \/ Stalled(i)
    BY FlowDelivers DEF FaultGiven, HeldGiven, ComposedGiven, UpperKept,
       UpperGiven, ResponseGiven, NothingGiven
  <2>2. ~IssueNext(i)
    BY <2>1, FlowRequests DEF ComposedHeld, ResponseHeld, Stalled
  <2>3. CASE ComposedHeld(i)
    BY <2>2, <2>3, FlowRequests DEF ComposedHeld, Composed, Packet
  <2>4. CASE ResponseHeld(i)
    <3>1. ~First.fault
      BY <2>4 DEF ResponseHeld, First, Packet
    <3> QED BY <2>2, <2>4, <3>1, FlowRequests DEF ResponseHeld
  <2>5. CASE Stalled(i)
    BY <2>2, <2>5, FlowRequests DEF Stalled, Flows, Inv, Base, Holding
  <2> QED BY <2>1, <2>3, <2>4, <2>5
<1>4. FaultIsWarranted'
  <2> SUFFICES ASSUME ifid' # None, ifid'.fault PROVE WordOf(ifid'.pc) \in Faulty'
    BY DEF FaultIsWarranted, WordOf
  <2>1. Faulty' = Faulty
    BY <1>1 DEF Faulty
  <2>2. CASE FaultGiven(i)
    <3>1. fetch = WordOf(respPc) /\ ifid'.pc = respPc
      BY <1>1, <2>2 DEF FaultGiven, Packet, Flows, Inv, Base, Requested
    <3> QED BY <2>1, <2>2, <3>1 DEF FaultGiven
  <2>3. CASE ifid' = ifid
    BY <2>1, <2>3 DEF Flows, Inv, FaultIsWarranted
  <2>4. CASE ifid' = hold
    BY <2>4 DEF Flows, Inv, Base, Holding
  <2>5. ~First.fault \/ First = None
    BY DEF First, Packet
  <2>6. FaultGiven(i) \/ ifid' = ifid \/ ifid' = hold
    BY <2>5, FlowDelivers DEF HeldGiven, ComposedGiven, UpperKept, UpperGiven, ResponseGiven,
       ComposedHeld, ResponseHeld, NothingGiven, Stalled, Composed, Packet
  <2> QED BY <2>2, <2>3, <2>4, <2>6
<1> QED BY <1>1, <1>2, <1>3, <1>4 DEF Base, Redirecting, Booting

-----------------------------------------------------------------------------
(* The instructions of a response.                                            *)

(* A word of a program of aligned instructions is one of them.                *)
LEMMA AlignedResponse ==
  ASSUME NEW i, Flows(i), Norvc, Response(i)
  PROVE  /\ ~Odd(respPc) /\ ~IsC(Lo) /\ Rest = None
         /\ First = Packet(respPc, <<Lo, Hi>>, FALSE) /\ First # None
         /\ fetch \notin Faulty => Lo = respPc /\ Hi = Plus(respPc, 1)
<1>1. TypeOK /\ fetch # None /\ fetch = WordOf(respPc) /\ respPc \in Half
  BY FlowFacts DEF Flows, Inv, Base, Requested, TypeOK
<1>2. ~Odd(respPc)
  BY <1>1, NoneAssumption DEF Flows, Inv, Words, Even
<1>3. 2 * fetch = respPc /\ 2 * fetch + 1 = Plus(respPc, 1)
  BY <1>1, <1>2, WordParts
<1>4. ~IsC(Lo)
  <2>1. CASE fetch \in Faulty
    BY <2>1 DEF Lo, IsC, Half, NopLo, NopHi
  <2>2. CASE fetch \notin Faulty
    BY <1>1, <1>2, <1>3, <2>2 DEF Lo, IsC, Norvc
  <2> QED BY <2>1, <2>2
<1>5. Rest = None /\ First = Packet(respPc, <<Lo, Hi>>, FALSE)
  BY <1>2, <1>4 DEF Rest, First
<1>6. Lo \in Data /\ Hi \in Data
  BY <1>1, ResponseIsTyped
<1>7. First # None
  BY <1>1, <1>5, <1>6, PacketIsTyped, NoneAssumption
<1> QED BY <1>2, <1>3, <1>4, <1>5, <1>7 DEF Lo, Hi

(* A word without fault.                                                      *)
LEMMA WordResponse ==
  ASSUME NEW i, Flows(i), Faulty = {}, Response(i)
  PROVE  /\ respPc \in Half /\ pc = Plus(respPc, 2)
         /\ Odd(respPc) => Hi = respPc
         /\ ~Odd(respPc) => Lo = respPc /\ Hi = Plus(respPc, 1)
         /\ IsC(Lo) = code[Lo] /\ IsC(Hi) = code[Hi]
<1>1. TypeOK /\ fetch # None /\ fetch = WordOf(respPc) /\ pc = Plus(respPc, 2)
      /\ respPc \in Half
  BY FlowFacts DEF Flows, Inv, Base, Requested, TypeOK
<1>2. Lo = 2 * fetch /\ Hi = 2 * fetch + 1 /\ Lo \in Half /\ Hi \in Half
  BY <1>1, WordParts DEF Lo, Hi
<1> QED BY <1>1, <1>2, WordParts DEF IsC

(* The word that ends an instruction whose first halfword waits.              *)
LEMMA SecondWord ==
  ASSUME NEW i, Flows(i), Faulty = {}, Response(i), upper # None
  PROVE  /\ upper.pc \in Half /\ upper.data = upper.pc /\ ~code[upper.pc] /\ Odd(upper.pc)
         /\ Lo = Plus(upper.pc, 1) /\ Hi = Plus(upper.pc, 2)
         /\ respPc = IF Odd(respPc) THEN Plus(upper.pc, 2) ELSE Plus(upper.pc, 1)
<1>1. fetch # None /\ fetch = WordOf(respPc) /\ upper.pc \in Half
  BY FlowFacts DEF Flows, Inv, Base, Requested, TypeOK, UpperType
<1>2. /\ Odd(upper.pc) /\ upper.data = upper.pc /\ Composing
      /\ respPc \in {Plus(upper.pc, 1), Plus(upper.pc, 2)}
  BY <1>1 DEF Flows, Inv, Base, Requested, Halves
<1>3. ~code[upper.pc]
  BY <1>1, <1>2 DEF Composing, IsC
<1> DEFINE a == Plus(upper.pc, 1)
           b == Plus(upper.pc, 2)
<1>4. a \in Half /\ b \in Half /\ ~Odd(a) /\ Odd(b) /\ Plus(a, 1) = b
  BY <1>1, <1>2, Parity
<1>5. /\ 2 * WordOf(a) = a /\ 2 * WordOf(a) + 1 = b /\ 2 * WordOf(b) + 1 = b
      /\ WordOf(a) \in Word /\ WordOf(b) \in Word
  BY <1>4, WordParts
<1>6. WordOf(a) = WordOf(b)
  BY <1>5 DEF Word
<1>7. Lo = a /\ Hi = b
  BY <1>1, <1>2, <1>5, <1>6 DEF Lo, Hi
<1> QED BY <1>1, <1>2, <1>3, <1>4, <1>7

(* ID/EX takes what IF/ID shows when IF/ID takes the next packet.             *)
LEMMA TakenWhenEnabled ==
  ASSUME NEW i, Flows(i), Orderly, ifid # None PROVE Taken(i) <=> IfIdEn(i)
<1>1. i.redirect = None /\ Possible(i) /\ i \in Input
  BY FlowFacts DEF Flows, Cycle
<1>2. FetchWait(i) => i.stall
  <2>1. CASE setup.single
    BY <1>1, <2>1 DEF Possible, FetchWait, Input
  <2>2. CASE ~setup.single
    <3>1. fetch = None
      BY <2>2 DEF Orderly, Flows, Inv, Words
    <3> QED BY <1>1, <2>2, <3>1 DEF Possible, FetchWait
  <2> QED BY <2>1, <2>2
<1> QED BY <1>1, <1>2 DEF Taken, IfIdEn

(* Where the stage goes on after the packet of a response.                    *)
LEMMA NextWord ==
  ASSUME NEW i, Flows(i), Response(i), upper' = None,
         upper = None \/ Composing
  PROVE  Coming' = IF ~IssueNext(i) /\ Odd(respPc) THEN Plus(respPc, 1) ELSE pc
<1>1. WordOf(pc) # None
  BY FlowFacts, WordParts, NoneAssumption, Sizes DEF TypeOK, Half, Word
<1>2. CASE IssueNext(i)
  BY <1>1, <1>2, FlowRequests DEF Coming
<1>3. CASE ~IssueNext(i)
  BY <1>3, FlowRequests DEF Coming
<1> QED BY <1>2, <1>3

LEMMA FirstOfResponse ==
  ASSUME NEW i, Flows(i), Regular, Response(i), upper = None, upper' = Rest
  PROVE  /\ First # None => /\ First.pc = respPc /\ ~First.fault /\ Whole(First)
                            /\ Coming' = After(First)
         /\ First = None => Coming' = respPc
<1>1. TypeOK /\ fetch # None /\ fetch = WordOf(respPc) /\ pc = Plus(respPc, 2)
      /\ respPc \in Half
  BY FlowFacts DEF Flows, Inv, Base, Requested, TypeOK
<1>2. CASE Norvc
  <2>1. /\ ~Odd(respPc) /\ Rest = None /\ First # None
        /\ First = Packet(respPc, <<Lo, Hi>>, FALSE)
        /\ fetch \notin Faulty => Lo = respPc /\ Hi = Plus(respPc, 1)
    BY <1>2, AlignedResponse
  <2>2. ~code[respPc]
    BY <1>1, <1>2, <2>1 DEF Norvc
  <2>3. Whole(First) /\ First.pc = respPc /\ ~First.fault
    BY <1>1, <2>1, <2>2 DEF Whole, Packet
  <2>4. After(First) = pc
    BY <1>1, <2>2, <2>3 DEF After, Length
  <2>5. Coming' = pc
    BY <2>1, NextWord
  <2> QED BY <2>1, <2>3, <2>4, <2>5
<1>3. CASE Faulty = {}
  <2>1. /\ Odd(respPc) => Hi = respPc
        /\ ~Odd(respPc) => Lo = respPc /\ Hi = Plus(respPc, 1)
        /\ IsC(Lo) = code[Lo] /\ IsC(Hi) = code[Hi]
    BY <1>3, WordResponse
  <2>2. Rest # None => Coming' = Rest.pc
    BY DEF Coming
  <2>3. CASE Odd(respPc) /\ IsC(Hi)
    <3>1. First = Packet(respPc, <<respPc>>, FALSE) /\ Rest = None /\ code[respPc]
      BY <2>1, <2>3 DEF First, Rest
    <3>2. Whole(First) /\ First.pc = respPc /\ ~First.fault /\ After(First) = Plus(respPc, 1)
      BY <3>1 DEF Whole, After, Length, Packet
    <3>3. ~IssueNext(i)
      BY <2>3, FlowRequests
    <3>4. Coming' = Plus(respPc, 1)
      BY <2>3, <3>1, <3>3, NextWord
    <3>5. First # None
      BY <1>1, <3>1, PacketIsTyped, NoneAssumption DEF Data
    <3> QED BY <3>2, <3>4, <3>5
  <2>4. CASE Odd(respPc) /\ ~IsC(Hi)
    <3>1. First = None /\ Rest = [pc |-> respPc, data |-> Hi]
      BY <2>4 DEF First, Rest
    <3>2. Rest # None
      BY <1>1, <3>1, ResponseIsTyped, NoneAssumption DEF UpperType
    <3> QED BY <2>2, <3>1, <3>2
  <2>5. CASE ~Odd(respPc) /\ IsC(Lo)
    <3>1. /\ First = Packet(respPc, <<respPc>>, FALSE) /\ code[respPc]
          /\ Rest = [pc |-> Plus(respPc, 1), data |-> Hi]
      BY <2>1, <2>5 DEF First, Rest
    <3>2. Whole(First) /\ First.pc = respPc /\ ~First.fault /\ After(First) = Plus(respPc, 1)
      BY <3>1 DEF Whole, After, Length, Packet
    <3>3. Rest # None
      BY <1>1, <3>1, ResponseIsTyped, PlusIsLinear, NoneAssumption DEF UpperType
    <3>4. First # None
      BY <1>1, <3>1, PacketIsTyped, NoneAssumption DEF Data
    <3> QED BY <2>2, <3>1, <3>2, <3>3, <3>4
  <2>6. CASE ~Odd(respPc) /\ ~IsC(Lo)
    <3>1. /\ First = Packet(respPc, <<respPc, Plus(respPc, 1)>>, FALSE) /\ ~code[respPc]
          /\ Rest = None
      BY <2>1, <2>6 DEF First, Rest
    <3>2. Whole(First) /\ First.pc = respPc /\ ~First.fault /\ After(First) = Plus(respPc, 2)
      BY <3>1 DEF Whole, After, Length, Packet
    <3>3. Coming' = pc
      BY <2>6, <3>1, NextWord
    <3>4. First # None
      <4>1. respPc \in Data /\ Plus(respPc, 1) \in Data
        BY <1>1, PlusIsLinear DEF Data
      <4>2. First \in PacketType
        BY <1>1, <3>1, <4>1, PacketIsTyped
      <4> QED BY <4>2, NoneAssumption
    <3> QED BY <1>1, <3>2, <3>3, <3>4
  <2> QED BY <2>3, <2>4, <2>5, <2>6
<1> QED BY <1>2, <1>3 DEF Regular

LEMMA ComposedOfResponse ==
  ASSUME NEW i, Flows(i), Regular, Response(i), Composing, upper' = RestComposed
  PROVE  /\ Composed # None /\ Composed.pc = upper.pc /\ ~Composed.fault /\ Whole(Composed)
         /\ Coming' = After(Composed) /\ Faulty = {} /\ upper' # None
<1>1. upper # None /\ TypeOK /\ fetch # None
  BY FlowFacts DEF Composing
<1>2. Faulty = {}
  BY <1>1 DEF Regular, Flows, Inv, Words
<1>3. /\ upper.data = upper.pc /\ ~code[upper.pc]
      /\ Lo = Plus(upper.pc, 1) /\ Hi = Plus(upper.pc, 2)
  BY <1>1, <1>2, SecondWord
<1>4. Composed # None /\ RestComposed # None
  BY <1>1, PartsAreTyped, NoneAssumption
<1>5. /\ Composed.pc = upper.pc /\ ~Composed.fault /\ Whole(Composed)
      /\ After(Composed) = Plus(upper.pc, 2)
  BY <1>3 DEF Composed, Packet, Whole, After, Length
<1>6. Coming' = Plus(upper.pc, 2)
  BY <1>4 DEF Coming, RestComposed
<1> QED BY <1>2, <1>4, <1>5, <1>6

-----------------------------------------------------------------------------
(* Without a response the stage goes on where it was, one packet further when *)
(* the buffer gives one.                                                      *)
LEMMA ComingStays ==
  ASSUME NEW i, Flows(i), ~Response(i), upper' = upper,
         upper # None /\ ~Composing => ~IfIdEn(i) \/ hold # None,
         Faulty = {} \/ upper = None
  PROVE  Coming' = Coming
<1>1. CASE upper # None
  BY <1>1 DEF Coming
<1>2. CASE upper = None
  <2>1. WordOf(pc) # None
    BY FlowFacts, WordParts, NoneAssumption, Sizes DEF TypeOK, Half, Word
  <2>2. CASE IssueNext(i)
    <3>1. fetch = None /\ respPc' = pc /\ fetch' = WordOf(pc)
      BY <2>2, FlowRequests
    <3> QED BY <1>2, <2>1, <3>1 DEF Coming
  <2>3. CASE ~IssueNext(i)
    BY <1>2, <2>3, FlowRequests DEF Coming
  <2> QED BY <2>2, <2>3
<1> QED BY <1>1, <1>2

LEMMA UpperIsInstruction ==
  ASSUME NEW i, Flows(i), Regular, UpperGiven(i)
  PROVE  LET p == Packet(upper.pc, <<upper.data>>, FALSE)
         IN  /\ p # None /\ Whole(p) /\ Coming' = After(p) /\ Faulty = {}
<1>1. upper # None /\ TypeOK /\ hold = None /\ fetch = None /\ ~Response(i)
  BY FlowFacts DEF UpperGiven
<1>2. Faulty = {}
  BY <1>1 DEF Regular, Flows, Inv, Words
<1>3. upper.data = upper.pc /\ pc = Plus(upper.pc, 1) /\ upper.pc \in Half
  BY <1>1, <1>2 DEF Flows, Inv, Halves, TypeOK, UpperType
<1>4. code[upper.pc]
  BY <1>1, <1>3 DEF UpperGiven, Composing, IsC
<1>5. Packet(upper.pc, <<upper.data>>, FALSE) \in PacketType
  BY <1>3, PacketIsTyped DEF Data
<1> DEFINE p == Packet(upper.pc, <<upper.data>>, FALSE)
<1>6. Whole(p) /\ After(p) = Plus(upper.pc, 1)
  BY <1>3, <1>4 DEF Whole, After, Length, Packet
<1>7. Coming' = Plus(upper.pc, 1)
  <2>1. WordOf(pc) # None
    BY <1>1, WordParts, NoneAssumption, Sizes DEF TypeOK, Half, Word
  <2>2. CASE IssueNext(i)
    BY <1>3, <2>1, <2>2, FlowRequests DEF Coming, UpperGiven
  <2>3. CASE ~IssueNext(i)
    BY <1>1, <2>3, FlowRequests DEF Coming, UpperGiven
  <2> QED BY <2>2, <2>3
<1> QED BY <1>2, <1>5, <1>6, <1>7, NoneAssumption

(* The packets are instructions, and the stage goes on behind the held one.   *)
LEMMA FlowContents == ASSUME NEW i, Flows(i) PROVE Contents'
<1>1. code' = code /\ Faulty' = Faulty /\ setup' = setup
  BY FlowFacts DEF code, Faulty
<1>2. Regular' <=> Regular
  BY <1>1 DEF Regular, Norvc
<1> SUFFICES ASSUME Regular
             PROVE  /\ ifid' # None => Whole(ifid')
                    /\ hold' # None => Whole(hold') /\ Coming' = After(hold')
  BY <1>1, <1>2 DEF Contents, Whole, After, Length, WordOf, Plus
<1>3. /\ ifid # None => Whole(ifid)
      /\ hold # None => Whole(hold) /\ Coming = After(hold)
  BY DEF Flows, Inv, Contents
<1>4. CASE FaultGiven(i)
  BY <1>4 DEF FaultGiven, Whole, Packet
<1>5. CASE HeldGiven(i)
  BY <1>3, <1>5 DEF HeldGiven
<1>6. CASE ComposedGiven(i) \/ ComposedHeld(i)
  BY <1>3, <1>6, ComposedOfResponse DEF ComposedGiven, ComposedHeld
<1>7. CASE ResponseGiven(i) \/ ResponseHeld(i)
  BY <1>3, <1>7, FirstOfResponse DEF ResponseGiven, ResponseHeld
<1>8. CASE UpperGiven(i)
  BY <1>8, UpperIsInstruction DEF UpperGiven
<1>9. CASE UpperKept(i) \/ NothingGiven(i)
  BY <1>9 DEF UpperKept, NothingGiven
<1>10. CASE Stalled(i)
  <2>1. Faulty = {} \/ upper = None
    BY DEF Regular, Flows, Inv, Words
  <2>2. Coming' = Coming
    BY <1>10, <2>1, ComingStays DEF Stalled
  <2> QED BY <1>3, <1>10, <2>2 DEF Stalled
<1> QED BY <1>4, <1>5, <1>6, <1>7, <1>8, <1>9, <1>10, FlowDelivers

(* The packets follow the program.                                            *)
LEMMA FlowFollowing == ASSUME NEW i, Flows(i) PROVE Following'
<1>1. /\ code' = code /\ Faulty' = Faulty /\ setup' = setup
      /\ redirectPc = None /\ i.redirect = None
  BY FlowFacts DEF code, Faulty
<1>2. Orderly' <=> Orderly
  BY <1>1 DEF Orderly, Norvc
<1> DEFINE Front == IF ifid = None THEN next ELSE After(ifid)
<1> SUFFICES ASSUME Orderly, next' # None
             PROVE  /\ ifid' # None => ifid'.pc = next'
                    /\ (IF hold' # None THEN hold'.pc ELSE Coming')
                         = IF ifid' = None THEN next' ELSE After(ifid')
  BY <1>1, <1>2 DEF Following, After, Length, Plus
<1>3. Regular /\ (Faulty = {} \/ upper = None)
  BY DEF Orderly, Regular, Flows, Inv, Words
<1>4. next # None
  BY <1>1 DEF Flows, Cycle, Follow
<1>5. /\ ifid # None => ifid.pc = next
      /\ (IF hold # None THEN hold.pc ELSE Coming) = Front
  BY <1>1, <1>4 DEF Flows, Inv, Following
<1>6. next' = IF IfIdEn(i) THEN Front ELSE next
  <2>1. CASE ifid = None
    BY <1>1, <2>1 DEF Flows, Cycle, Follow, Taken
  <2>2. CASE ifid # None
    <3>1. Taken(i) <=> IfIdEn(i)
      BY <2>2, TakenWhenEnabled
    <3> QED BY <1>1, <1>4, <1>5, <2>2, <3>1 DEF Flows, Cycle, Follow, After
  <2> QED BY <2>1, <2>2
<1>7. Response(i) => fetch # None /\ (upper = None \/ Composing)
  BY FlowFacts DEF Flows, Inv, Base, Requested
<1>8. CASE FaultGiven(i)
  <2>1. upper = None /\ Norvc
    BY <1>3, <1>8 DEF FaultGiven, Orderly, Flows, Inv, Words
  <2>2. /\ ~Odd(respPc) /\ respPc \in Half /\ pc = Plus(respPc, 2) /\ ~code[respPc]
    <3>1. ~Odd(respPc) /\ respPc \in Half /\ pc = Plus(respPc, 2)
      BY <1>7, <1>8, <2>1, AlignedResponse, FlowFacts
         DEF FaultGiven, Flows, Inv, Base, Requested, TypeOK
    <3> QED BY <2>1, <3>1 DEF Norvc
  <2>3. Coming = respPc
    BY <1>7, <1>8, <2>1 DEF Coming, FaultGiven
  <2>4. Coming' = pc
    BY <1>8, <2>1, <2>2, NextWord DEF FaultGiven
  <2>5. ifid'.pc = respPc /\ After(ifid') = pc
    BY <1>8, <2>2 DEF FaultGiven, Packet, After, Length
  <2>6. ifid' # None
    BY <1>7, <1>8, FlowFacts, PartsAreTyped, NoneAssumption DEF FaultGiven
  <2> QED BY <1>5, <1>6, <1>8, <2>3, <2>4, <2>5, <2>6 DEF FaultGiven
<1>9. CASE HeldGiven(i)
  <2>1. Coming' = Coming
    BY <1>3, <1>9, ComingStays DEF HeldGiven
  <2>2. Coming = After(hold)
    BY <1>3, <1>9 DEF HeldGiven, Flows, Inv, Contents
  <2> QED BY <1>5, <1>6, <1>9, <2>1, <2>2 DEF HeldGiven
<1>10. CASE ComposedGiven(i)
  <2>1. Coming = upper.pc
    BY <1>10 DEF Coming, ComposedGiven, Composing
  <2> QED BY <1>3, <1>5, <1>6, <1>10, <2>1, ComposedOfResponse DEF ComposedGiven
<1>11. CASE ComposedHeld(i)
  <2>1. Coming = upper.pc
    BY <1>11 DEF Coming, ComposedHeld, Composing
  <2> QED BY <1>3, <1>5, <1>6, <1>11, <2>1, ComposedOfResponse DEF ComposedHeld
<1>12. CASE ResponseGiven(i)
  <2>1. Coming = respPc
    BY <1>7, <1>12 DEF Coming, ResponseGiven
  <2> QED BY <1>3, <1>5, <1>6, <1>12, <2>1, FirstOfResponse DEF ResponseGiven
<1>13. CASE ResponseHeld(i)
  <2>1. Coming = respPc
    BY <1>7, <1>13 DEF Coming, ResponseHeld
  <2> QED BY <1>3, <1>5, <1>6, <1>13, <2>1, FirstOfResponse DEF ResponseHeld
<1>14. CASE UpperGiven(i)
  <2>1. Coming = upper.pc
    BY <1>14 DEF Coming, UpperGiven
  <2>2. ifid'.pc = upper.pc
    BY <1>14 DEF UpperGiven, Packet
  <2> QED BY <1>3, <1>5, <1>6, <1>14, <2>1, <2>2, UpperIsInstruction DEF UpperGiven
<1>15. CASE UpperKept(i) \/ NothingGiven(i)
  <2>1. Coming' = Coming
    BY <1>3, <1>15, ComingStays DEF UpperKept, NothingGiven
  <2> QED BY <1>5, <1>6, <1>15, <2>1 DEF UpperKept, NothingGiven
<1>16. CASE Stalled(i)
  <2>1. Coming' = Coming
    BY <1>3, <1>16, ComingStays DEF Stalled
  <2> QED BY <1>5, <1>6, <1>16, <2>1 DEF Stalled
<1> QED BY <1>8, <1>9, <1>10, <1>11, <1>12, <1>13, <1>14, <1>15, <1>16, FlowDelivers

(* A program of aligned instructions stays aligned.                           *)
LEMMA FlowWords == ASSUME NEW i, Flows(i) PROVE Words'
<1>1. setup' = setup /\ code' = code /\ TypeOK /\ TypeOK' /\ redirectPc' = None
      /\ i.redirect = None
  BY FlowFacts DEF code
<1>2. Norvc' <=> Norvc
  BY <1>1 DEF Norvc
<1> SUFFICES ASSUME Norvc
             PROVE  /\ upper' = None /\ Even(pc') /\ Even(respPc') /\ Even(next')
                    /\ hold' # None => ~Odd(hold'.pc)
                    /\ ifid' # None => ~Odd(ifid'.pc)
                    /\ ~setup.single /\ fetch' # None => ifid' = None
  BY <1>1, <1>2 DEF Words, Even, Odd
<1>3. /\ upper = None /\ ~Composing /\ Even(next)
      /\ hold # None => ~Odd(hold.pc)
      /\ ifid # None => ~Odd(ifid.pc)
      /\ ~setup.single /\ fetch # None => ifid = None
  BY DEF Flows, Inv, Words, Composing
<1>4. ~Odd(pc) /\ ~Odd(respPc)
  BY <1>1, NoneAssumption DEF Flows, Inv, Words, Even, TypeOK
<1>5. Response(i) => Rest = None /\ First = Packet(respPc, <<Lo, Hi>>, FALSE)
  BY AlignedResponse
<1>6. /\ upper' = None
      /\ hold' # None => ~Odd(hold'.pc)
      /\ ifid' # None => ~Odd(ifid'.pc)
  BY <1>3, <1>4, <1>5, FlowDelivers DEF FaultGiven, HeldGiven, ComposedGiven, UpperKept,
     UpperGiven, ResponseGiven, ComposedHeld, ResponseHeld, NothingGiven, Stalled, Packet
<1>7. Even(pc') /\ Even(respPc')
  <2>1. ~Odd(Plus(pc, 2))
    BY <1>1, <1>4, Parity DEF TypeOK
  <2> QED BY <1>3, <1>4, <2>1, FlowRequests DEF Even
<1>8. Even(next')
  <2>1. CASE next = None \/ ~Taken(i) \/ ifid.fault
    BY <1>1, <1>3, <2>1 DEF Flows, Cycle, Follow, Even
  <2>2. CASE next # None /\ Taken(i) /\ ~ifid.fault
    <3>1. next \in Half /\ ~Odd(next)
      BY <1>1, <1>3, <2>2 DEF TypeOK, Even
    <3>2. next' = Plus(next, 2)
      BY <1>1, <2>2, <3>1 DEF Flows, Cycle, Follow, Length, Norvc
    <3> QED BY <3>1, <3>2, Parity DEF Even
  <2> QED BY <2>1, <2>2
<1>9. ASSUME ~setup.single, fetch' # None PROVE ifid' = None
  <2>1. Possible(i)
    BY DEF Flows, Cycle
  <2>2. CASE IssueNext(i)
    <3>1. fetch = None /\ hold = None /\ IfIdEn(i)
      BY <1>9, <2>1, <2>2, FlowRequests DEF Possible
    <3>2. ~Response(i)
      BY <3>1 DEF Response
    <3> QED BY <1>3, <3>1, <3>2, FlowDelivers DEF FaultGiven, HeldGiven, ComposedGiven,
         UpperKept, UpperGiven, ResponseGiven, ComposedHeld, ResponseHeld, NothingGiven, Stalled
  <2>3. CASE ~IssueNext(i)
    <3>1. fetch # None /\ ~Response(i)
      BY <1>9, <2>3, FlowRequests
    <3>2. ~IfIdEn(i) /\ ifid = None
      BY <1>3, <1>9, <3>1 DEF IfIdEn, FetchWait, Response
    <3> QED BY <3>1, <3>2, FlowDelivers DEF FaultGiven, HeldGiven, ComposedGiven,
         UpperKept, UpperGiven, ResponseGiven, ComposedHeld, ResponseHeld, NothingGiven, Stalled
  <2> QED BY <2>2, <2>3
<1> QED BY <1>6, <1>7, <1>8, <1>9

(* What waits in the buffer is an upper halfword, and the word behind it is   *)
(* what is requested.                                                         *)
LEMMA BufferedHalf ==
  ASSUME NEW i, Flows(i), Faulty = {}, Response(i), NEW a \in Half, Odd(a), Hi = a,
         pc = Plus(a, 1) \/ (Odd(respPc) /\ a = respPc),
         upper' = [pc |-> a, data |-> Hi], upper = None \/ Composing
  PROVE  /\ fetch' = None => pc' = Plus(a, 1)
         /\ fetch' # None => respPc' \in {Plus(a, 1), Plus(a, 2)}
<1>1. respPc \in Half /\ pc = Plus(respPc, 2)
  BY WordResponse
<1>2. CASE IssueNext(i)
  <2>1. fetch' # None
    BY <1>2, FlowFacts, FlowRequests, WordParts, NoneAssumption, Sizes
       DEF TypeOK, Half, Word
  <2> QED BY <1>1, <1>2, <2>1, FlowRequests
<1>3. CASE ~IssueNext(i)
  <2>1. fetch' = None /\ pc' = IF Odd(respPc) THEN Plus(respPc, 1) ELSE pc
    BY <1>3, FlowRequests
  <2>2. Odd(respPc) => respPc = a
    BY WordResponse
  <2> QED BY <1>1, <2>1, <2>2, Parity
<1> QED BY <1>2, <1>3

LEMMA FlowHalves == ASSUME NEW i, Flows(i) PROVE Halves' /\ Unfaulted'
<1>1. setup' = setup /\ Faulty' = Faulty /\ i.redirect = None /\ TypeOK
  BY FlowFacts DEF Faulty
<1>2. Unfaulted'
  <2> SUFFICES ASSUME Faulty = {} PROVE next' # None /\ (ifid' # None => ~ifid'.fault)
    BY <1>1 DEF Unfaulted
  <2>1. next # None /\ (ifid # None => ~ifid.fault)
    BY DEF Flows, Inv, Unfaulted
  <2>2. ifid' # None => ~ifid'.fault
    BY <1>1, FlowBase DEF FaultIsWarranted
  <2>3. Taken(i) => ifid # None
    BY DEF Taken
  <2>4. Plus(next, 1) # None /\ Plus(next, 2) # None
    BY <1>1, <2>1, Parity, NoneAssumption DEF TypeOK
  <2> QED BY <1>1, <2>1, <2>2, <2>3, <2>4 DEF Flows, Cycle, Follow, Length
<1>3. Halves'
  <2> SUFFICES ASSUME Faulty = {}, upper' # None
               PROVE  /\ Odd(upper'.pc) /\ upper'.data = upper'.pc
                      /\ fetch' = None => pc' = Plus(upper'.pc, 1)
                      /\ fetch' # None => respPc' \in {Plus(upper'.pc, 1), Plus(upper'.pc, 2)}
    BY <1>1 DEF Halves, Odd, Plus
  <2>1. CASE ComposedGiven(i) \/ ComposedHeld(i)
    <3> DEFINE u == Plus(upper.pc, 2)
    <3>1. Response(i) /\ Composing /\ upper' = RestComposed /\ upper # None
      BY <2>1 DEF ComposedGiven, ComposedHeld, Composing
    <3>2. /\ upper.pc \in Half /\ Odd(upper.pc) /\ Hi = u
          /\ respPc = IF Odd(respPc) THEN u ELSE Plus(upper.pc, 1)
          /\ pc = Plus(respPc, 2)
      BY <3>1, SecondWord, WordResponse
    <3>3. u \in Half /\ Odd(u) /\ Plus(Plus(upper.pc, 1), 2) = Plus(u, 1)
      BY <3>2, Parity
    <3>4. pc = Plus(u, 1) \/ (Odd(respPc) /\ u = respPc)
      BY <3>2, <3>3
    <3>5. upper' = [pc |-> u, data |-> Hi]
      BY <3>1 DEF RestComposed
    <3> QED BY <3>1, <3>2, <3>3, <3>4, <3>5, BufferedHalf
  <2>2. CASE ResponseGiven(i) \/ ResponseHeld(i)
    <3>1. Response(i) /\ upper = None /\ upper' = Rest
      BY <2>2 DEF ResponseGiven, ResponseHeld
    <3>2. /\ respPc \in Half /\ pc = Plus(respPc, 2)
          /\ Odd(respPc) => Hi = respPc
          /\ ~Odd(respPc) => Hi = Plus(respPc, 1)
      BY <3>1, WordResponse
    <3>3. /\ Plus(respPc, 1) \in Half /\ (Odd(Plus(respPc, 1)) <=> ~Odd(respPc))
          /\ Plus(Plus(respPc, 1), 1) = Plus(respPc, 2)
      BY <3>2, Parity
    <3>4. CASE Odd(respPc)
      <4>1. Rest = [pc |-> respPc, data |-> Hi]
        BY <3>1, <3>4 DEF Rest
      <4> QED BY <3>1, <3>2, <3>4, <4>1, BufferedHalf
    <3>5. CASE ~Odd(respPc)
      <4>1. Rest = [pc |-> Plus(respPc, 1), data |-> Hi]
        BY <3>1, <3>5 DEF Rest
      <4> QED BY <3>1, <3>2, <3>3, <3>5, <4>1, BufferedHalf
    <3> QED BY <3>4, <3>5
  <2>3. CASE upper' = upper /\ ~Response(i)
    <3>1. /\ Odd(upper.pc) /\ upper.data = upper.pc
          /\ fetch = None => pc = Plus(upper.pc, 1)
          /\ fetch # None => respPc \in {Plus(upper.pc, 1), Plus(upper.pc, 2)}
      BY <2>3 DEF Flows, Inv, Halves
    <3>2. CASE IssueNext(i)
      <4>1. fetch = None /\ respPc' = pc /\ fetch' = WordOf(pc)
        BY <2>3, <3>2, FlowRequests
      <4>2. fetch' # None
        BY <1>1, <4>1, WordParts, NoneAssumption, Sizes DEF TypeOK, Half, Word
      <4> QED BY <2>3, <3>1, <4>1, <4>2
    <3>3. CASE ~IssueNext(i)
      <4>1. fetch # None => Composing
        BY <2>3 DEF Flows, Inv, Base, Requested
      <4> QED BY <2>3, <3>1, <3>3, <4>1, FlowRequests
    <3> QED BY <3>2, <3>3
  <2> QED BY <2>1, <2>2, <2>3, FlowDelivers DEF FaultGiven, HeldGiven, UpperKept, UpperGiven,
       NothingGiven, Stalled
<1> QED BY <1>2, <1>3

-----------------------------------------------------------------------------
(* The invariant holds.                                                       *)
LEMMA CycleStep == ASSUME Inv, NEW i \in Input, Cycle(i) PROVE Inv'
<1>1. CASE RedirectRequest(i)
  BY <1>1, RedirectStep
<1>2. CASE ~RedirectRequest(i)
  <2>1. Flows(i)
    BY <1>2 DEF Flows
  <2> QED BY <2>1, FlowBase, FlowWords, FlowHalves, FlowContents, FlowFollowing DEF Inv
<1> QED BY <1>1, <1>2

LEMMA NextInv == Inv /\ [Next]_vars => Inv'
<1> SUFFICES ASSUME Inv, [Next]_vars PROVE Inv'
  OBVIOUS
<1>1. CASE Boot
  BY <1>1, BootStep
<1>2. CASE \E i \in Input : Cycle(i)
  BY <1>2, CycleStep
<1>3. CASE UNCHANGED vars
  <2> USE <1>3 DEF vars, ghosts
  <2>1. Base' /\ FaultIsWarranted'
    BY DEF Inv, Base, TypeOK, Requested, Composing, IsC, Redirecting, Holding, Booting,
       FaultIsWarranted, Faulty, code
  <2>2. Words' /\ Halves' /\ Unfaulted'
    BY DEF Inv, Words, Norvc, code, Even, Halves, Unfaulted, Faulty
  <2>3. Contents' /\ Following'
    BY DEF Inv, Contents, Following, Regular, Orderly, Norvc, Whole, After, Length, Coming,
       code, Faulty
  <2> QED BY <2>1, <2>2, <2>3 DEF Inv
<1> QED BY <1>1, <1>2, <1>3 DEF Next

LEMMA Invariance == Spec => []Inv
BY InitInv, NextInv, PTL DEF Spec

(* Every register of the stage holds a value of its width.                    *)
THEOREM TypeCorrect == Spec => []TypeOK
<1>1. Inv => TypeOK
  BY DEF Inv, Base
<1> QED BY <1>1, Invariance, PTL

(* A packet carries a fetch fault only if its word faults (if_stage.sv,       *)
(* fault_resp), in every program and with every memory.                       *)
THEOREM FaultIsWarrantedAlways == Spec => []FaultIsWarranted
<1>1. Inv => FaultIsWarranted
  BY DEF Inv
<1> QED BY <1>1, Invariance, PTL

(* The setups a theorem is about: aligned instructions only, or no faults.    *)
AlignedSetup(s) == /\ \A a \in Half : ~Odd(a) => ~s.code[a]
                   /\ \A t \in s.targets : ~Odd(t)

(* An instruction is made of its own halfwords, when it crosses a word and    *)
(* when ID stalls as they arrive (upper_*_q, hold_*_q), unless compressed     *)
(* instructions and faults meet.                                              *)
THEOREM WholeInstructionAlways ==
  ASSUME \A s \in Setups : AlignedSetup(s) \/ s.faulty = {}
  PROVE  Spec => []WholeInstruction
<1>1. Inv => WholeInstruction
  <2> SUFFICES ASSUME Inv, ifid # None, ~ifid.fault, WordOf(ifid.pc) \notin Faulty
               PROVE  ifid.instr = IF code[ifid.pc] THEN <<ifid.pc>>
                                   ELSE <<ifid.pc, Plus(ifid.pc, 1)>>
    BY DEF WholeInstruction
  <2>1. Regular
    BY DEF Inv, Base, TypeOK, Regular, Norvc, AlignedSetup, code, Faulty
  <2> QED BY <2>1 DEF Inv, Contents, Whole
<1> QED BY <1>1, Invariance, PTL

(* IF/ID shows what the program asks for next: no instruction is lost,        *)
(* repeated or reordered by buffers, stalls and redirects, in the setups the  *)
(* run if_stage_supported is about (the others violate it: if_stage_rvc).     *)
THEOREM InProgramOrderAlways ==
  ASSUME \A s \in Setups : AlignedSetup(s) \/ (s.single /\ s.faulty = {})
  PROVE  Spec => []InProgramOrder
<1>1. Inv => InProgramOrder
  <2> SUFFICES ASSUME Inv, ifid # None, next # None PROVE ifid.pc = next
    BY DEF InProgramOrder
  <2>1. Orderly
    BY DEF Inv, Base, TypeOK, Orderly, Norvc, AlignedSetup, code, Faulty
  <2>2. redirectPc = None
    BY DEF Inv, Base, Redirecting
  <2> QED BY <2>1, <2>2 DEF Inv, Following
<1> QED BY <1>1, Invariance, PTL

=============================================================================
