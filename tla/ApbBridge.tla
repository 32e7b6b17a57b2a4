----------------------------- MODULE ApbBridge ------------------------------
(***************************************************************************)
(* The device path of a hart: the blocking uncached master                 *)
(* (rtl/soc/hart_tile/mem/axi/ap_uncached_axi_master.sv), the AXI channels *)
(* of the peripheral crossbar, which may delay each item, and the bridge   *)
(* that turns one 64-bit beat into one or two 32-bit APB accesses          *)
(* (rtl/soc/peripherals/apb/ap_axi64_to_apb32.sv).  A lane is a 32-bit     *)
(* half of the doubleword; what a slave answers is left open.              *)
(***************************************************************************)
EXTENDS Sequences, FiniteSets

CONSTANTS
  Form,       \* {TRUE}: only single 64-bit beats reach the bridge; BOOLEAN: the
              \* other bursts a manager could send as well
  None        \* none of the values the registers hold

Lane == {"lo", "hi"}
Request == [we : BOOLEAN, lanes : (SUBSET Lane) \ {{}}, single : Form]

VARIABLES
  uc, ucErr,            \* the master: state_q and err_q
  req,                  \* what the hart asked for
  aw, w, ar,            \* items on the way to the bridge
  b, r,                 \* answers on the way back: None or the error bit
  br,                   \* the bridge: state_q
  awSeen, wSeen, be, bad, err,
  accesses,             \* the APB accesses of this request, in order
  faults                \* the lanes on which pslverr was raised

masterVars == <<uc, ucErr, req>>
toBridge == <<aw, w, ar>>
bridgeVars == <<br, awSeen, wSeen, be, bad, err, accesses, faults>>
vars == <<masterVars, toBridge, b, r, bridgeVars>>

MasterStates == {"IDLE", "WRITE_ADDR", "WRITE_DATA", "WRITE_RESP",
                 "READ_ADDR", "READ_DATA", "RESP"}
Idle == [phase |-> "idle"]
Resp(we) == [phase |-> "resp", we |-> we]
Setup(we, lane) == [phase |-> "setup", we |-> we, lane |-> lane]
BridgeStates ==
  {Idle} \cup {Resp(we) : we \in BOOLEAN}
    \cup [phase : {"setup", "access"}, we : BOOLEAN, lane : Lane]

Init ==
  /\ uc = "IDLE" /\ ucErr = FALSE /\ req = None
  /\ aw = FALSE /\ w = FALSE /\ ar = FALSE /\ b = None /\ r = None
  /\ br = Idle /\ awSeen = FALSE /\ wSeen = FALSE /\ be = {} /\ bad = FALSE
  /\ err = FALSE /\ accesses = <<>> /\ faults = {}

-----------------------------------------------------------------------------
(* The uncached master. *)
HartRequest ==
  /\ uc = "IDLE"
  /\ req' \in Request /\ ucErr' = FALSE
  /\ uc' = IF req'.we THEN "WRITE_ADDR" ELSE "READ_ADDR"
  /\ accesses' = <<>> /\ faults' = {}
  /\ UNCHANGED <<toBridge, b, r, br, awSeen, wSeen, be, bad, err>>

\* One valid/ready handshake of the master.
SendAddress ==
  /\ \/ uc = "WRITE_ADDR" /\ ~aw /\ aw' = TRUE /\ uc' = "WRITE_DATA" /\ UNCHANGED ar
     \/ uc = "READ_ADDR" /\ ~ar /\ ar' = TRUE /\ uc' = "READ_DATA" /\ UNCHANGED aw
  /\ UNCHANGED <<ucErr, req, w, b, r, bridgeVars>>

SendData ==
  /\ uc = "WRITE_DATA" /\ ~w
  /\ w' = TRUE /\ uc' = "WRITE_RESP"
  /\ UNCHANGED <<ucErr, req, aw, ar, b, r, bridgeVars>>

TakeAnswer ==
  /\ \/ uc = "WRITE_RESP" /\ b # None /\ ucErr' = b /\ b' = None /\ UNCHANGED r
     \/ uc = "READ_DATA" /\ r # None /\ ucErr' = r /\ r' = None /\ UNCHANGED b
  /\ uc' = "RESP"
  /\ UNCHANGED <<req, toBridge, bridgeVars>>

AnswerHart ==
  /\ uc = "RESP" /\ uc' = "IDLE"
  /\ UNCHANGED <<ucErr, req, toBridge, b, r, bridgeVars>>

-----------------------------------------------------------------------------
(* The bridge. *)
AwFire == aw /\ ~awSeen /\ ~wSeen
WFire == w /\ ~wSeen /\ (awSeen \/ aw)
ArFire == ar /\ ~awSeen /\ ~wSeen /\ ~aw /\ ~w

FirstLane(lanes) == IF "lo" \in lanes THEN "lo" ELSE "hi"

\* An edge in AXI_IDLE with a write item: the address, the data or both.
AcceptWrite ==
  /\ br = Idle /\ (AwFire \/ WFire)
  /\ aw' = (aw /\ ~AwFire) /\ w' = (w /\ ~WFire)
  /\ awSeen' = (awSeen \/ AwFire) /\ wSeen' = (wSeen \/ WFire)
  /\ be' = IF WFire THEN req.lanes ELSE be
  \* On an edge that fires both, the data item's assignment is the last one.
  /\ bad' = IF AwFire /\ ~WFire THEN ~req.single ELSE bad
  /\ IF awSeen' /\ wSeen'
     THEN LET malformed == bad \/ (AwFire /\ ~req.single) IN
          /\ err' = malformed
          /\ br' = IF malformed THEN Resp(TRUE) ELSE Setup(TRUE, FirstLane(be'))
     ELSE UNCHANGED <<err, br>>
  /\ UNCHANGED <<masterVars, ar, b, r, accesses, faults>>

AcceptRead ==
  /\ br = Idle /\ ArFire
  /\ ar' = FALSE /\ be' = Lane /\ bad' = ~req.single /\ err' = ~req.single
  /\ br' = IF req.single THEN Setup(FALSE, "lo") ELSE Resp(FALSE)
  /\ UNCHANGED <<masterVars, aw, w, b, r, awSeen, wSeen, accesses, faults>>

\* Mutant: an access waits for the error of the one before it to clear.
SetupDoneClean ==
  /\ br.phase = "setup" /\ br' = IF err THEN br ELSE [br EXCEPT !.phase = "access"]
  /\ UNCHANGED <<masterVars, toBridge, b, r, awSeen, wSeen, be, bad, err, accesses, faults>>
SetupDone ==
  /\ br.phase = "setup" /\ br' = [br EXCEPT !.phase = "access"]
  /\ UNCHANGED <<masterVars, toBridge, b, r, awSeen, wSeen, be, bad, err, accesses, faults>>

\* Mutants: the high word is written whether or not a strobe selects it, or again
\* and again; only the last access decides the answer.
GoesHighAlways(we, lane) == lane = "lo"
GoesHighAgain(we, lane) == we => "hi" \in be
GoesHigh(we, lane) == lane = "lo" /\ (we => "hi" \in be)
ErrAfterLast(fault) == fault
ErrAfter(fault) == err \/ fault

Access ==
  /\ br.phase = "access"
  /\ \E fault \in BOOLEAN :
       /\ err' = ErrAfter(fault)
       /\ faults' = IF fault THEN faults \cup {br.lane} ELSE faults
  /\ accesses' = Append(accesses, br.lane)
  /\ br' = IF GoesHigh(br.we, br.lane) THEN Setup(br.we, "hi") ELSE Resp(br.we)
  /\ UNCHANGED <<masterVars, toBridge, b, r, awSeen, wSeen, be, bad>>

AnswerSent(we) ==
  /\ awSeen' = (awSeen /\ ~we) /\ wSeen' = (wSeen /\ ~we) /\ bad' = FALSE

Answer ==
  /\ br.phase = "resp"
  /\ IF br.we THEN b = None /\ b' = err /\ UNCHANGED r
              ELSE r = None /\ r' = err /\ UNCHANGED b
  /\ br' = Idle /\ AnswerSent(br.we)
  /\ UNCHANGED <<masterVars, toBridge, be, err, accesses, faults>>

-----------------------------------------------------------------------------
Progress == \/ SendAddress \/ SendData \/ TakeAnswer \/ AnswerHart
            \/ AcceptWrite \/ AcceptRead \/ SetupDone \/ Access \/ Answer
Next == HartRequest \/ Progress
Spec == Init /\ [][Next]_vars

\* Master, crossbar and bridge are clocked and every APB slave is always ready:
\* a step that stays possible is taken.
FairSpec == Spec /\ WF_vars(Progress)

-----------------------------------------------------------------------------
(* Type invariant: every register of master and bridge holds a value of its    *)
(* width, and a request causes at most one access of each word.                *)
TypeOK ==
  /\ uc \in MasterStates /\ ucErr \in BOOLEAN /\ req \in Request \cup {None}
  /\ {aw, w, ar} \subseteq BOOLEAN /\ {b, r} \subseteq BOOLEAN \cup {None}
  /\ br \in BridgeStates
  /\ {awSeen, wSeen, bad, err} \subseteq BOOLEAN /\ be \subseteq Lane
  /\ accesses \in {<<>>, <<"lo">>, <<"hi">>, <<"lo", "hi">>} /\ faults \subseteq Lane

(* When the hart is answered, a store has accessed exactly the words its       *)
(* strobes select, each once and the low one first, and a malformed burst has  *)
(* reached no device (ap_axi64_to_apb32.sv, need_lo and need_hi).              *)
WordsInOrder(lanes) ==
  (IF "lo" \in lanes THEN <<"lo">> ELSE <<>>) \o (IF "hi" \in lanes THEN <<"hi">> ELSE <<>>)

StoreReachesItsWords ==
  uc = "RESP" /\ req.we =>
    accesses = IF req.single THEN WordsInOrder(req.lanes) ELSE <<>>

(* The hart learns of an error exactly when the burst was malformed or one of  *)
(* the accesses of this request failed: the error of the first word is not     *)
(* lost behind the second, and no error outlives its request (err_q).          *)
ErrorIsReported ==
  uc = "RESP" => (ucErr <=> ~req.single \/ faults # {})

(* Every device access of the hart is answered.                                *)
RequestAnswered == uc \in {"WRITE_ADDR", "READ_ADDR"} ~> uc = "RESP"

(* docs/eriscv-ap-rv64gc-system-spec.md:376-377: "The AXI bridge issues only   *)
(* the 32-bit lanes selected by the RV64 byte enables, so narrow loads do not  *)
(* cause duplicate side-effecting reads."                                      *)
OnlySelectedLanes ==
  \A i \in DOMAIN accesses : accesses[i] \in req.lanes
=============================================================================
