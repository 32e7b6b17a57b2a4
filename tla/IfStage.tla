------------------------------ MODULE IfStage ------------------------------
(***************************************************************************)
(* The fetch stage (rtl/soc/hart_tile/core/if_stage.sv) under the stalls    *)
(* and redirects of pipeline_control.sv, between an instruction memory and  *)
(* the ID/EX register that consumes its packets.  One step is one clock     *)
(* edge.                                                                   *)
(*                                                                         *)
(* Addresses are halfword numbers modulo the program's size.  Of a halfword *)
(* only its place and whether its low bits look compressed are kept: the    *)
(* data of a packet are the places its halfwords were read from.           *)
(***************************************************************************)
EXTENDS Integers, Sequences

CONSTANTS
  NWords,        \* the size of the program
  Setups,        \* the programs and the memories they are fetched from
  MaxRedirects,  \* bound: redirects in a behaviour
  None

Half == 0 .. 2 * NWords - 1
Word == 0 .. NWords - 1
\* Mutant: the fetch address keeps its halfword bit.
WordOfUnaligned(a) == a
WordOf(a) == a \div 2
Plus(a, n) == (a + n) % (2 * NWords)

\* The data of a fault response is a NOP, 0x00000013.
NopLo == -1
NopHi == -2

\* code: which halfwords look compressed.  targets: where a redirect may go.
\* faulty: the words whose fetch faults.
\* single: the memory answers in the next cycle, and is always ready (the
\* instruction memory of the core's own test bench; not the AP tile's).
Setup == [code : [Half -> BOOLEAN], targets : SUBSET Half, faulty : SUBSET Word,
          single : BOOLEAN]

\* What a packet and the upper buffer hold: an instruction of one or two
\* halfwords, and the upper halfword of a word.
Data == Half \cup {NopLo, NopHi}
PacketType == [pc : Half, instr : [{1} -> Data] \cup [{1, 2} -> Data], fault : BOOLEAN]
UpperType == [pc : Half, data : Data]

ASSUME Sizes == NWords \in Nat \ {0} /\ MaxRedirects \in Nat
ASSUME Places == \A s \in Setups : s \in Setup
ASSUME NoneAssumption == None \notin Half /\ None \notin PacketType /\ None \notin UpperType

VARIABLES
  setup,       \* the program and its memory; never changes
  pc,          \* pc_q
  respPc,      \* resp_pc_q
  booting,     \* boot_init_q
  fetch,       \* the word requested, or None: req_pending_q
  hold,        \* hold_*_q: a packet, or None
  upper,       \* upper_*_q: a halfword and its pc, or None
  redirectPc,  \* redirect_pc_q, or None when redirect_pending_q is clear
  dropResp,    \* drop_resp_q
  ifid,        \* the packet in IF/ID, or None
  next,        \* ghost: the pc of the instruction ID/EX must take next, or
               \* None from a fault it took to the trap that it causes
  redirects    \* redirects so far

ghosts == <<next, redirects>>
vars == <<setup, pc, respPc, booting, fetch, hold, upper, redirectPc, dropResp, ifid,
          next, redirects>>

code == setup.code
Faulty == setup.faulty

Packet(a, instr, fault) == [pc |-> a, instr |-> instr, fault |-> fault]

Init ==
  /\ setup \in Setups
  /\ pc = 0 /\ respPc = 0 /\ booting = TRUE
  /\ fetch = None /\ hold = None /\ upper = None
  /\ redirectPc = None /\ dropResp = FALSE
  /\ ifid = None
  /\ next = 0 /\ redirects = 0

-----------------------------------------------------------------------------
(* The inputs of a cycle: whether fetch is enabled, the back end is stalled *)
(* or replays for a load, where it redirects to and whether ID's predictor  *)
(* (not EX) does, and the two handshake signals of the memory.  The memory   *)
(* of the AP tile serves one request at a time and is not ready in the      *)
(* cycle it answers; when idle it is ready unless the MMU serves the data   *)
(* side, and then the back end waits for that access.                      *)
Input == [enable : BOOLEAN, stall : BOOLEAN, loadUse : BOOLEAN,
          redirect : setup.targets \cup {None}, predicted : BOOLEAN,
          rvalid : BOOLEAN, ready : BOOLEAN]

Possible(i) ==
  /\ i.rvalid => fetch # None
  /\ setup.single => i.ready /\ i.rvalid = (fetch # None)
  /\ ~setup.single => /\ i.ready => fetch = None
                      /\ fetch = None /\ ~i.ready => i.stall
  /\ i.redirect # None => redirects < MaxRedirects
  /\ i.predicted => /\ i.redirect # None /\ i.enable /\ ~i.stall /\ ~i.loadUse
                    /\ ifid # None /\ next # None /\ ~ifid.fault

-----------------------------------------------------------------------------
Response(i) == fetch # None /\ i.rvalid
Useful(i) == Response(i) /\ ~dropResp
Fault(i) == Useful(i) /\ fetch \in Faulty
Lo == IF fetch \in Faulty THEN NopLo ELSE 2 * fetch
Hi == IF fetch \in Faulty THEN NopHi ELSE 2 * fetch + 1
IsC(h) == IF h \in Half THEN code[h] ELSE h = NopHi
Composing == upper # None /\ ~IsC(upper.data)
Odd(a) == a % 2 = 1

FetchWait(i) ==
  \/ fetch # None /\ ~i.rvalid
  \/ i.enable /\ hold = None /\ fetch = None /\ ~i.ready

IfIdEn(i) == ~FetchWait(i) /\ ~i.loadUse /\ ~i.stall
PcEn(i) == i.enable /\ IfIdEn(i)

RedirectRequest(i) == i.redirect # None \/ redirectPc # None
RequestPc(i) == IF i.redirect # None THEN i.redirect ELSE redirectPc

StartsUpper(i) == Response(i) /\ Odd(respPc)
UpperPrefetch(i) ==
  StartsUpper(i) /\ ~IsC(Hi) /\ IfIdEn(i) /\ ~dropResp /\ ~RedirectRequest(i)

\* Mutant: a word of two compressed instructions does not block the next request.
CanIssueOverTwoC(i) ==
  /\ i.enable /\ ~booting /\ hold = None
  /\ fetch # None => i.rvalid
  /\ StartsUpper(i) => UpperPrefetch(i)
  /\ ~(Composing /\ Response(i) /\ (~IfIdEn(i) \/ IsC(Hi)))

CanIssue(i) ==
  /\ i.enable /\ ~booting /\ hold = None
  /\ fetch # None => i.rvalid
  /\ ~(Response(i) /\ IsC(Lo) /\ IsC(Hi))
  /\ StartsUpper(i) => UpperPrefetch(i)
  /\ ~(Composing /\ Response(i) /\ (~IfIdEn(i) \/ IsC(Hi)))

IssueRedirect(i) == CanIssue(i) /\ RedirectRequest(i) /\ i.ready
IssueNext(i) == CanIssue(i) /\ ~RedirectRequest(i) /\ PcEn(i) /\ i.ready

-----------------------------------------------------------------------------
(* Delivery: what the response word and the buffers put in IF/ID.           *)
SetUpper(i, u) == upper' = IF IssueRedirect(i) THEN None ELSE u

\* What a response word starts with, and what of it remains.
First ==
  IF Odd(respPc)
  THEN IF IsC(Hi) THEN Packet(respPc, <<Hi>>, FALSE) ELSE None
  ELSE Packet(respPc, IF IsC(Lo) THEN <<Lo>> ELSE <<Lo, Hi>>, FALSE)
Rest ==
  CASE Odd(respPc) /\ ~IsC(Hi) -> [pc |-> respPc, data |-> Hi]
    [] ~Odd(respPc) /\ IsC(Lo) -> [pc |-> Plus(respPc, 1), data |-> Hi]
    [] OTHER -> None

Composed == Packet(upper.pc, <<upper.data, Lo>>, FALSE)
RestComposed == [pc |-> Plus(upper.pc, 2), data |-> Hi]

Squash(i) ==
  /\ i.redirect # None
  /\ hold' = None /\ upper' = None /\ ifid' = None

\* Mutant: the fault is reported at the pc of the next request.
DeliverFaultAtPc(i) ==
  /\ i.redirect = None /\ IfIdEn(i) /\ Fault(i)
  /\ ifid' = Packet(pc, <<NopLo, NopHi>>, TRUE)
  /\ hold' = None /\ upper' = None
DeliverFault(i) ==
  /\ i.redirect = None /\ IfIdEn(i) /\ Fault(i)
  /\ ifid' = Packet(respPc, <<NopLo, NopHi>>, TRUE)
  /\ hold' = None /\ upper' = None

DeliverHold(i) ==
  /\ i.redirect = None /\ IfIdEn(i) /\ ~Fault(i) /\ hold # None
  /\ ifid' = hold /\ hold' = None /\ SetUpper(i, upper)

DeliverComposed(i) ==
  /\ i.redirect = None /\ IfIdEn(i) /\ ~Fault(i) /\ hold = None
  /\ Composing /\ Useful(i)
  /\ ifid' = Composed /\ SetUpper(i, RestComposed) /\ UNCHANGED hold

DeliverUpper(i) ==
  /\ i.redirect = None /\ IfIdEn(i) /\ ~Fault(i) /\ hold = None
  /\ upper # None /\ ~dropResp /\ ~(Composing /\ Useful(i))
  /\ ifid' = IF Composing THEN None ELSE Packet(upper.pc, <<upper.data>>, FALSE)
  /\ SetUpper(i, IF Composing THEN upper ELSE None)
  /\ UNCHANGED hold

DeliverResponse(i) ==
  /\ i.redirect = None /\ IfIdEn(i) /\ ~Fault(i) /\ hold = None /\ upper = None
  /\ Useful(i)
  /\ ifid' = First /\ SetUpper(i, Rest) /\ UNCHANGED hold

\* ID does not accept: the instruction is kept.
\* Mutant: the first halfword is kept as a compressed instruction.
HoldHalf(i) ==
  /\ i.redirect = None /\ ~IfIdEn(i) /\ Composing /\ Useful(i)
  /\ hold' = Packet(upper.pc, <<upper.data>>, FALSE) /\ SetUpper(i, RestComposed)
  /\ UNCHANGED ifid
HoldComposed(i) ==
  /\ i.redirect = None /\ ~IfIdEn(i) /\ Composing /\ Useful(i)
  /\ hold' = Composed /\ SetUpper(i, RestComposed) /\ UNCHANGED ifid

HoldResponse(i) ==
  /\ i.redirect = None /\ ~IfIdEn(i) /\ ~Composing /\ Useful(i)
  /\ hold' = First /\ SetUpper(i, Rest) /\ UNCHANGED ifid

Bubble(i) ==
  /\ i.redirect = None /\ IfIdEn(i) /\ ~Useful(i) /\ hold = None /\ (upper = None \/ dropResp)
  /\ ifid' = None /\ SetUpper(i, upper) /\ UNCHANGED hold

Stall(i) ==
  /\ i.redirect = None /\ ~IfIdEn(i) /\ ~Useful(i)
  /\ SetUpper(i, upper) /\ UNCHANGED <<hold, ifid>>

Deliver(i) ==
  \/ Squash(i) \/ DeliverFault(i) \/ DeliverHold(i) \/ DeliverComposed(i)
  \/ DeliverUpper(i) \/ DeliverResponse(i) \/ HoldComposed(i) \/ HoldResponse(i)
  \/ Bubble(i) \/ Stall(i)

-----------------------------------------------------------------------------
(* The request lifecycle of the same edge.                                 *)
NextPc(i) ==
  CASE IssueRedirect(i) -> Plus(RequestPc(i), 2)
    [] ~IssueRedirect(i) /\ IssueNext(i) -> Plus(pc, 2)
    [] OTHER ->
         IF /\ i.redirect = None /\ upper # None /\ ~Composing /\ IfIdEn(i) /\ ~dropResp
         THEN Plus(upper.pc, 1)
         ELSE IF i.redirect = None /\ Useful(i) /\ Odd(respPc)
         THEN Plus(respPc, 1)
         ELSE pc

Request(i) ==
  /\ pc' = NextPc(i)
  /\ respPc' = IF IssueRedirect(i) THEN RequestPc(i)
               ELSE IF IssueNext(i) THEN pc ELSE respPc
  /\ fetch' = IF IssueRedirect(i) THEN WordOf(RequestPc(i))
              ELSE IF IssueNext(i) THEN WordOf(pc)
              ELSE IF Response(i) THEN None ELSE fetch
  /\ redirectPc' = IF IssueRedirect(i) THEN None
                   ELSE IF i.redirect # None THEN i.redirect ELSE redirectPc

\* Mutant: every response after the outstanding one is dropped too.
DropForever(i) ==
  dropResp' = (dropResp \/ (i.redirect # None /\ fetch # None /\ ~IssueRedirect(i)))
Drop(i) ==
  dropResp' = IF Response(i) THEN FALSE
              ELSE dropResp \/ (i.redirect # None /\ fetch # None /\ ~IssueRedirect(i))

-----------------------------------------------------------------------------
(* ID/EX takes the packet in IF/ID whenever the back end advances and it is *)
(* neither flushed nor replayed (id_ex_en_i, id_ex_flush_i).               *)
Length(a) == IF code[a] THEN 1 ELSE 2
Taken(i) ==
  /\ ifid # None /\ ~i.stall /\ ~i.loadUse
  /\ i.redirect = None \/ i.predicted

Follow(i) ==
  /\ next' = IF i.redirect # None THEN i.redirect
             ELSE IF ~Taken(i) \/ next = None THEN next
             ELSE IF ifid.fault THEN None ELSE Plus(next, Length(next))
  /\ redirects' = IF i.redirect # None THEN redirects + 1 ELSE redirects

Boot ==
  /\ booting /\ booting' = FALSE
  /\ pc' = 0 /\ respPc' = 0
  /\ UNCHANGED <<setup, fetch, hold, upper, redirectPc, dropResp, ifid, ghosts>>

Cycle(i) ==
  /\ ~booting /\ Possible(i)
  /\ Deliver(i) /\ Request(i) /\ Drop(i) /\ Follow(i)
  /\ UNCHANGED <<setup, booting>>

Next == Boot \/ \E i \in Input : Cycle(i)

Spec == Init /\ [][Next]_vars

\* The clock runs; infinitely often fetch is enabled, nothing stalls or
\* redirects, and the memory accepts or answers.
Smooth == [enable |-> TRUE, stall |-> FALSE, loadUse |-> FALSE, redirect |-> None,
           predicted |-> FALSE, rvalid |-> fetch # None, ready |-> setup.single \/ fetch = None]
FairSpec == Spec /\ WF_vars(Boot) /\ WF_vars(Cycle(Smooth))

-----------------------------------------------------------------------------
\* Type invariant: every register holds a value of its width.
TypeOK ==
  /\ setup \in Setups /\ booting \in BOOLEAN /\ dropResp \in BOOLEAN
  /\ pc \in Half /\ respPc \in Half
  /\ fetch \in Word \cup {None} /\ redirectPc \in Half \cup {None}
  /\ hold \in PacketType \cup {None} /\ ifid \in PacketType \cup {None}
  /\ upper \in UpperType \cup {None}
  /\ next \in Half \cup {None} /\ redirects \in 0 .. MaxRedirects

\* IF/ID shows the instruction that program order asks for: with ID/EX taking it
\* when the back end advances, no instruction is lost, repeated or reordered by
\* buffers, stalls and redirects.
InProgramOrder == ifid # None /\ next # None => ifid.pc = next

\* An instruction whose word does not fault is made of its own halfwords, also
\* when it crosses a word boundary and when ID was stalled as they arrived.
WholeInstruction ==
  ifid # None /\ ~ifid.fault /\ WordOf(ifid.pc) \notin Faulty =>
    ifid.instr = IF code[ifid.pc] THEN <<ifid.pc>> ELSE <<ifid.pc, Plus(ifid.pc, 1)>>

\* A fault is reported at a word that faults.
FaultIsWarranted == ifid # None /\ ifid.fault => WordOf(ifid.pc) \in Faulty

\* A fault response is an instruction packet, not a NOP (if_stage.sv:211).
FaultIsTaken == ifid # None /\ WordOf(ifid.pc) \in Faulty => ifid.fault

\* Fetch faults are precise: the packet that carries one has the pc of the
\* instruction whose fetch faulted.
FaultIsPrecise == ifid # None /\ next # None /\ ifid.fault => ifid.pc = next

\* Without faults, the stage goes on delivering the program after the last redirect.
FetchGoesOn == Faulty = {} => []<>(ifid # None /\ ifid.pc = next)
=============================================================================
