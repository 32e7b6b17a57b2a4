------------------------------ MODULE LinePort ------------------------------
(***************************************************************************)
(* What a cache may expect of its line port (line_req_i .. line_err_o of   *)
(* rtl/soc/hart_tile/mem/cache/dcache.sv and icache.sv): one transaction   *)
(* at a time, performed on the memory at one moment between the request    *)
(* and the answer.  A read answered without an error returned the line; a  *)
(* write answered with one may have changed any part of it.                *)
(***************************************************************************)
CONSTANTS Line, LineData, Beat, None

VARIABLES mem, bus

Idle == [st |-> "idle", we |-> FALSE, line |-> None, data |-> None, err |-> FALSE]

Init == mem \in [Line -> LineData] /\ bus = Idle

Request(l, we, d) ==
  /\ bus.st = "idle"
  /\ bus' = [st |-> "req", we |-> we, line |-> l, data |-> d, err |-> FALSE]
  /\ UNCHANGED mem

\* A line some of whose beats have been replaced.
Mixed(old, new) == {d \in LineData : \A b \in Beat : d[b] \in {old[b], new[b]}}

Read(d, err) ==
  /\ bus.st = "req" /\ ~bus.we
  /\ ~err => d = mem[bus.line]
  /\ bus' = [bus EXCEPT !.st = "resp", !.data = IF err THEN None ELSE d, !.err = err]
  /\ UNCHANGED mem

Write(d, err) ==
  /\ bus.st = "req" /\ bus.we
  /\ IF err THEN d \in Mixed(mem[bus.line], bus.data) ELSE d = bus.data
  /\ mem' = [mem EXCEPT ![bus.line] = d]
  /\ bus' = [bus EXCEPT !.st = "resp", !.data = None, !.err = err]

Answer == bus.st = "resp" /\ bus' = Idle /\ UNCHANGED mem

Next ==
  \/ \E l \in Line : Request(l, FALSE, None) \/ \E d \in LineData : Request(l, TRUE, d)
  \/ \E d \in LineData, err \in BOOLEAN : Read(d, err) \/ Write(d, err)
  \/ Answer

Spec == Init /\ [][Next]_<<mem, bus>>
=============================================================================
