---------------------------- MODULE LineAdapter -----------------------------
(***************************************************************************)
(* The adapter between a cache's line port and AXI4                        *)
(* (rtl/soc/hart_tile/mem/axi/cache_axi4_line_adapter.sv): a line becomes  *)
(* one INCR burst.  One step is one clock edge, taken by the client (the   *)
(* cache that raises line_req_i for one cycle), the adapter and the AXI    *)
(* subordinate together.  The subordinate may stall, answer with an error  *)
(* or a foreign ID on any beat, and end a read burst early or not at all.  *)
(***************************************************************************)
EXTENDS Integers

CONSTANTS
  Line, Value,
  Beats,      \* BEATS_P, at least 1
  None        \* none of the values the registers hold

Beat == 0 .. Beats - 1
LineData == [Beat -> Value]
Zero == [b \in Beat |-> 0]     \* line_rdata_q after a capture
Transaction == [we : BOOLEAN, line : Line, data : LineData]

VARIABLES
  client,     \* "none", "req" while line_req_i is high, "wait" for the answer
  want,       \* what the client asks for
  state,      \* state_q
  line, wdata, rdata, beat, err,   \* line_addr_q .. line_err_q
  mem,        \* the memory of the subordinate
  sent,       \* the subordinate: beats of the burst transferred so far
  got         \* the subordinate: the write beats it holds

vars == <<client, want, state, line, wdata, rdata, beat, err, mem, sent, got>>
registers == <<line, wdata, rdata, beat, err>>
slaveVars == <<mem, sent, got>>

States == {"IDLE", "READ_ADDR", "READ_DATA", "WRITE_ADDR", "WRITE_DATA",
           "WRITE_RESP", "RESP"}

Init ==
  /\ client = "none" /\ want = None
  /\ state = "IDLE"
  /\ line = None /\ wdata = Zero /\ rdata = Zero /\ beat = 0 /\ err = FALSE
  /\ mem \in [Line -> LineData] /\ sent = 0 /\ got = Zero

-----------------------------------------------------------------------------
(* The client raises a request for one cycle and waits for line_resp_valid. *)
(* It may raise the next one on the edge that takes the answer.             *)
Raise ==
  \/ client' = "none" /\ want' = None
  \/ client' = "req" /\ want' \in Transaction

ClientEdge ==
  \/ client = "none" /\ Raise
  \/ client = "req" /\ client' = "wait" /\ UNCHANGED want
  \/ client = "wait" /\ state = "RESP" /\ Raise
  \/ client = "wait" /\ state # "RESP" /\ UNCHANGED <<client, want>>

-----------------------------------------------------------------------------
Capture ==
  /\ state = "IDLE" /\ client = "req"
  /\ line' = want.line /\ wdata' = want.data
  /\ rdata' = Zero /\ err' = FALSE /\ beat' = 0
  /\ state' = IF want.we THEN "WRITE_ADDR" ELSE "READ_ADDR"
  /\ UNCHANGED slaveVars

AddressTaken ==
  /\ \/ state = "READ_ADDR" /\ state' = "READ_DATA"
     \/ state = "WRITE_ADDR" /\ state' = "WRITE_DATA"
  /\ sent' = 0 /\ got' = Zero
  /\ UNCHANGED <<registers, mem>>

LastBeat == beat = Beats - 1

BurstEndOnLast(last) == last   \* mutant: the beat count is not looked at
BurstEnd(last) == last \/ LastBeat

\* Mutant: an error on an earlier beat is forgotten.
BurstErrorLate(ok, last) == ~ok \/ (BurstEnd(last) /\ ~(last /\ LastBeat))
BurstError(ok, last) == err \/ ~ok \/ (BurstEnd(last) /\ ~(last /\ LastBeat))

\* ok: r_id is the adapter's and r_resp is OKAY.
ReadBeat(data, ok, last) ==
  /\ state = "READ_DATA"
  /\ ok /\ sent \in Beat => data = mem[line][sent]
  /\ sent' = sent + 1
  /\ rdata' = [rdata EXCEPT ![beat] = data]
  /\ err' = BurstError(ok, last)
  /\ IF BurstEnd(last)
     THEN state' = "RESP" /\ UNCHANGED beat
     ELSE beat' = beat + 1 /\ UNCHANGED state
  /\ UNCHANGED <<line, wdata, mem, got>>

\* Mutant: one beat too few, without w_last.
WriteBeatShort ==
  /\ state = "WRITE_DATA"
  /\ got' = [got EXCEPT ![sent] = wdata[beat]] /\ sent' = sent + 1
  /\ IF beat + 1 = Beats - 1
     THEN state' = "WRITE_RESP" /\ UNCHANGED beat
     ELSE beat' = beat + 1 /\ UNCHANGED state
  /\ UNCHANGED <<line, wdata, rdata, err, mem>>

WriteBeat ==
  /\ state = "WRITE_DATA"
  /\ got' = [got EXCEPT ![sent] = wdata[beat]] /\ sent' = sent + 1
  /\ IF LastBeat
     THEN state' = "WRITE_RESP" /\ UNCHANGED beat
     ELSE beat' = beat + 1 /\ UNCHANGED state
  /\ UNCHANGED <<line, wdata, rdata, err, mem>>

\* The subordinate answers a whole burst, which it has performed, or reports
\* an error and has performed some of it.
Performed(ok) ==
  IF ok THEN {got}
  ELSE {d \in LineData : \A b \in Beat : d[b] \in {mem[line][b], got[b]}}

WriteAnswer(ok) ==
  /\ state = "WRITE_RESP" /\ sent = Beats
  /\ \E d \in Performed(ok) : mem' = [mem EXCEPT ![line] = d]
  /\ err' = ~ok
  /\ state' = "RESP"
  /\ UNCHANGED <<line, wdata, rdata, beat, sent, got>>

Respond == state = "RESP" /\ state' = "IDLE" /\ UNCHANGED <<registers, slaveVars>>

\* No request, or no handshake on this edge.
Stall == /\ state = "IDLE" => client # "req"
         /\ state # "RESP"
         /\ UNCHANGED <<state, registers, slaveVars>>

Handshake ==
  \/ AddressTaken
  \/ \E data \in Value, ok, last \in BOOLEAN : ReadBeat(data, ok, last)
  \/ WriteBeat
  \/ \E ok \in BOOLEAN : WriteAnswer(ok)

AdapterEdge == Capture \/ Handshake \/ Respond \/ Stall

Next == ClientEdge /\ AdapterEdge

Spec == Init /\ [][Next]_vars

\* The clock runs, and the subordinate does not stall for ever.
FairSpec == Spec /\ WF_vars(Next) /\ WF_vars(ClientEdge /\ Handshake)

-----------------------------------------------------------------------------
(* Type invariant: beat_q addresses a beat of the line.                    *)
TypeOK ==
  /\ client \in {"none", "req", "wait"} /\ want \in Transaction \cup {None}
  /\ state \in States
  /\ line \in Line \cup {None} /\ wdata \in LineData /\ rdata \in LineData
  /\ beat \in Beat /\ err \in BOOLEAN
  /\ mem \in [Line -> LineData] /\ sent \in 0 .. Beats /\ got \in LineData

\* Every pulse on line_req_i is captured and answered: the adapter is idle
\* again when the cache may raise the next one, and a malformed burst ends.
RequestAnswered == client = "req" ~> client = "wait" /\ state = "RESP"

(* The adapter implements the line port the caches are written against: a  *)
(* line reported without an error was transferred beat for beat, whatever  *)
(* the subordinate did to the burst.                                       *)
PortState == CASE state = "IDLE" -> "idle" [] state = "RESP" -> "resp" [] OTHER -> "req"
Writing == state \in {"WRITE_ADDR", "WRITE_DATA", "WRITE_RESP"}
IsWrite == Writing \/ (state = "RESP" /\ want.we)
Bus == [st |-> PortState, we |-> IsWrite,
        line |-> IF state = "IDLE" THEN None ELSE line,
        data |-> IF Writing THEN wdata
                 ELSE IF state = "RESP" /\ ~want.we /\ ~err THEN rdata ELSE None,
        err |-> state = "RESP" /\ err]

Port == INSTANCE LinePort WITH bus <- Bus
ImplementsLinePort == Port!Spec
=============================================================================
