----------------------------- MODULE MCDevices ------------------------------
(* The PLIC with its handlers, the CLINT with the library's timer routines,   *)
(* the caches' AXI adapter, the device path to APB and the two payload paths  *)
(* of the Ethernet subsystem, in one run.  They share nothing that the models *)
(* keep, so that one of them is chosen at the start and the others rest.      *)
EXTENDS Plic, Sequences

CONSTANTS
  None,
  Base,                                                        \* Clint
  Line, Value, Beats,                                          \* LineAdapter
  Form,                                                        \* ApbBridge
  TxFrames, TxBytes, PipeDepth, FifoDepth,                     \* EthPayload
  RxFrames, MaxLen, Capacity, BeatLen, Overruns

VARIABLES system,
  mtime, cmpHi, cmpLo, pc, target, before, hi, lo, start, result,
  client, want, state, line, wdata, rdata, beat, lErr, mem, sent, got,
  uc, ucErr, req, aw, wItem, ar, bAnswer, rAnswer, br, awSeen, wSeen, be, bad, err, accesses,
  faults, tx, launched, left, pipe, fifo, token, phy, txTold, wired, readFailed,
  rxOn, arming, rx, buf, wdma, page, wire, reported

C == INSTANCE Clint
L == INSTANCE LineAdapter WITH err <- lErr
A == INSTANCE ApbBridge WITH w <- wItem, b <- bAnswer, r <- rAnswer
P == INSTANCE EthPayload WITH Beat <- BeatLen

\* Words have more than one value, lines a beat at least; a request is no default
\* value; frames, buffers and beats have a byte at least, and the clock crossing loses none.
BaseAssumption == Base \in Nat \ {0, 1}
BeatsAssumption == Beats \in Nat \ {0} /\ 0 \in Value
FormAssumption == Form \subseteq BOOLEAN /\ None \notin BOOLEAN /\ None \notin A!Request
BytesAssumption == TxBytes \in Nat \ {0}
RxAssumption ==
  /\ Capacity \in Nat \ {0} /\ BeatLen \in Nat \ {0} /\ MaxLen \in Nat
  /\ Overruns = FALSE
ASSUME DevicesAssumption ==
  BaseAssumption /\ BeatsAssumption /\ FormAssumption /\ BytesAssumption /\ RxAssumption

pVars == <<src, pending, inService, enable, threshold, handler, claimed, writes>>
cVars == <<mtime, cmpHi, cmpLo, pc, target, before, hi, lo, start, result>>
lVars == <<client, want, state, line, wdata, rdata, beat, lErr, mem, sent, got>>
aVars == <<uc, ucErr, req, aw, wItem, ar, bAnswer, rAnswer, br, awSeen, wSeen, be, bad, err,
           accesses, faults>>
txVars == <<tx, launched, left, pipe, fifo, token, phy, txTold, wired, readFailed>>
rxVars == <<rxOn, arming, rx, buf, wdma, page, wire, reported>>
eVars == <<txVars, rxVars>>
devicesVars == <<system, pVars, cVars, lVars, aVars, eVars>>

\* The last source outranks the others.
MCPrio == [s \in Sources |-> IF \A t \in Sources : t <= s THEN 2 ELSE 1]

Systems == {"plic", "clint", "line", "bridge", "send", "receive"}
DevicesInit ==
  /\ system \in Systems
  /\ Init /\ C!Init /\ L!Init /\ A!Init /\ P!Init
  /\ system = "line" \/ mem = [l \in Line |-> [i \in 0 .. Beats - 1 |-> 0]]

DevicesNext ==
  \/ system = "plic" /\ Next /\ UNCHANGED <<system, cVars, lVars, aVars, eVars>>
  \/ system = "clint" /\ C!Next /\ UNCHANGED <<system, pVars, lVars, aVars, eVars>>
  \/ system = "line" /\ L!Next /\ UNCHANGED <<system, pVars, cVars, aVars, eVars>>
  \/ system = "bridge" /\ A!Next /\ UNCHANGED <<system, pVars, cVars, lVars, eVars>>
  \/ system = "send" /\ P!TxNext /\ UNCHANGED <<system, pVars, cVars, lVars, aVars, rxVars>>
  \/ system = "receive" /\ P!RxNext /\ UNCHANGED <<system, pVars, cVars, lVars, aVars, txVars>>

\* The fairness of the parts; nothing makes a program call the CLINT routines.
DevicesSpec ==
  /\ DevicesInit /\ [][DevicesNext]_devicesVars
  /\ WF_pVars(system = "plic" /\ Tick)
  /\ \A c \in Context : SF_pVars(system = "plic" /\ Handler(c))
  /\ WF_lVars(system = "line" /\ L!Next)
  /\ WF_lVars(system = "line" /\ L!ClientEdge /\ L!Handshake)
  /\ WF_aVars(system = "bridge" /\ A!Progress)
  /\ WF_txVars(system = "send" /\ P!TxGoing)
  /\ WF_rxVars(system = "receive" /\ P!Clocked)
  /\ WF_rxVars(system = "receive" /\ P!DmaMoves)

-----------------------------------------------------------------------------
(* The 64-bit timer through 32-bit accesses: no early interrupt while the     *)
(* compare register is set, no torn read of the counter.                      *)
TimerCalls == C!NoEarlyTimer /\ C!ReadIsATimeOfTheCall

(* The line adapter implements the line port the caches are modelled against, *)
(* whatever a subordinate does to a burst.                                    *)
ImplementsLinePort == L!ImplementsLinePort

(* A store reaches the words it selects, once and in order, and an error of   *)
(* any of them is reported; a frame reported sent or received is one, whole.  *)
TransfersAreWhole ==
  /\ A!StoreReachesItsWords /\ A!ErrorIsReported
  /\ P!FramesLeaveWhole /\ P!OneFrame

(* Every line transfer, device access and frame comes to its end.             *)
RequestAnswered == L!RequestAnswered /\ A!RequestAnswered /\ P!TxGoesOn /\ P!RxGoesOn
=============================================================================
