--------------------------- MODULE MemoryContract ---------------------------
(***************************************************************************)
(* What the data cache promises its hart and the software that shares      *)
(* memory with a non-coherent DMA master.  The hart has a `view' of every  *)
(* line it holds a copy of; devices see only `ram'.  A line is `owed' from *)
(* the first store to it until its content has been written to `ram'.     *)
(* Loads, stores, AMOs, LR and SC act on the view; maintenance operations  *)
(* (FENCE and the Zicbom CBOs) are promises about `owed' and the view.     *)
(***************************************************************************)
CONSTANTS
  Line,       \* the cache lines of DDR
  Word,       \* the 64-bit words of a line
  Value,      \* what a word may hold
  AmoOp,      \* the read-modify-write operations
  Alu,        \* Alu[op][old][operand]: the word an AMO writes
  DmaValue,   \* what a DMA master may write; {} without DMA
  None        \* no line, request, answer or operation

VARIABLES
  ram,        \* ram[l]: what DMA masters, the boot path and the I-cache read
  view,       \* view[l]: the hart's copy of l, or None
  owed,       \* lines whose view has not been written back
  resv,       \* the line reserved by LR, or None
  pend,       \* the accepted and unanswered request, or None
  ans,        \* the answer shown to the hart, or None
  mnt         \* the maintenance operation in progress or just done, or None

vars == <<ram, view, owed, resv, pend, ans, mnt>>

LineData == [Word -> Value]
Op == {"LOAD", "STORE", "LR", "SC"} \cup AmoOp
Request == [line : Line, word : Word, op : Op \ {"LOAD", "LR"}, operand : Value]
           \cup [line : Line, word : Word, op : {"LOAD", "LR"}, operand : {None}]
Maintenance == [op : {"CLEAN", "FLUSH", "INVAL"}, line : Line]
               \cup [op : {"FENCE"}, line : {None}]

Init ==
  /\ ram \in [Line -> LineData]
  /\ view = [l \in Line |-> None]
  /\ owed = {} /\ resv = None
  /\ pend = None /\ ans = None /\ mnt = None

-----------------------------------------------------------------------------
Quiet == pend = None /\ (mnt = None \/ mnt.st # "busy")

Accept(r) ==
  /\ Quiet
  /\ pend' = r /\ ans' = None /\ mnt' = None
  /\ UNCHANGED <<ram, view, owed, resv>>

\* A FENCE gives up the reservation; a CBO does not until it finds the line.
Maintain(m) ==
  /\ Quiet
  /\ mnt' = [op |-> m.op, line |-> m.line, st |-> "busy"]
  /\ ans' = None
  /\ resv' = IF m.op = "FENCE" THEN None ELSE resv
  /\ UNCHANGED <<ram, view, owed, pend>>

\* The answer or the completion is withdrawn when nothing follows it.
Withdraw ==
  /\ Quiet
  /\ ans' = None /\ mnt' = None
  /\ UNCHANGED <<ram, view, owed, resv, pend>>

-----------------------------------------------------------------------------
(* Performing the request: only on a held line, and atomically.            *)
Answer(value) ==
  /\ pend # None /\ view[pend.line] # None
  /\ ans' = [rdata |-> value, err |-> FALSE]
  /\ pend' = None
  /\ UNCHANGED <<ram, mnt>>

Old == view[pend.line][pend.word]

Write(value) ==
  /\ view' = [view EXCEPT ![pend.line][pend.word] = value]
  /\ owed' = owed \cup {pend.line}

Load  == Answer(Old) /\ pend.op = "LOAD" /\ UNCHANGED <<view, owed, resv>>
Store == /\ Answer(Old) /\ pend.op = "STORE" /\ Write(pend.operand)
         /\ resv' = IF resv = pend.line THEN None ELSE resv
LoadReserved == /\ Answer(Old) /\ pend.op = "LR" /\ resv' = pend.line
                /\ UNCHANGED <<view, owed>>
StoreConditional ==
  /\ pend # None /\ pend.op = "SC" /\ resv' = None
  /\ \/ resv = pend.line /\ Answer(0) /\ Write(pend.operand)
     \/ resv # pend.line /\ Answer(1) /\ UNCHANGED <<view, owed>>
Amo == /\ Answer(Old) /\ pend.op \in AmoOp
       /\ Write(Alu[pend.op][Old][pend.operand]) /\ resv' = None

\* A request whose line cannot be brought in, or whose victim cannot be
\* written back, is answered with an access fault and changes nothing.
Fault ==
  /\ pend # None
  /\ pend' = None /\ ans' = [rdata |-> 0, err |-> TRUE]
  /\ UNCHANGED <<ram, view, owed, resv, mnt>>

-----------------------------------------------------------------------------
(* Movement of lines, which the hart does not see.                         *)
Fill ==
  /\ pend # None /\ view[pend.line] = None
  /\ view' = [view EXCEPT ![pend.line] = ram[pend.line]]
  /\ UNCHANGED <<ram, owed, resv, pend, ans, mnt>>

Drop(l) ==
  /\ pend # None /\ l \notin owed
  /\ view' = [view EXCEPT ![l] = None]
  /\ UNCHANGED <<ram, owed, resv, pend, ans, mnt>>

WriteBack(l) ==
  /\ l \in owed
  /\ ram' = [ram EXCEPT ![l] = view[l]]
  /\ owed' = owed \ {l}
  /\ UNCHANGED <<view, resv, pend, ans, mnt>>

\* A write-back that fails may have written any words; the line stays owed.
WriteBackFault(l) ==
  /\ l \in owed
  /\ \E d \in LineData : /\ \A w \in Word : d[w] \in {ram[l][w], view[l][w]}
                          /\ ram' = [ram EXCEPT ![l] = d]
  /\ UNCHANGED <<view, owed, resv, pend, ans, mnt>>

-----------------------------------------------------------------------------
Finish(st) == mnt # None /\ mnt.st = "busy" /\ mnt' = [mnt EXCEPT !.st = st]

FenceDone == /\ Finish("ok") /\ mnt.op = "FENCE" /\ owed = {}
             /\ UNCHANGED <<ram, view, owed, resv, pend, ans>>
CleanDone == /\ Finish("ok") /\ mnt.op = "CLEAN" /\ mnt.line \notin owed
             /\ resv' \in {resv, None}
             /\ UNCHANGED <<ram, view, owed, pend, ans>>
FlushDone == /\ Finish("ok") /\ mnt.op = "FLUSH" /\ mnt.line \notin owed
             /\ view' = [view EXCEPT ![mnt.line] = None]
             /\ resv' \in {resv, None}
             /\ UNCHANGED <<ram, owed, pend, ans>>
InvalDone == /\ Finish("ok") /\ mnt.op = "INVAL"
             /\ view' = [view EXCEPT ![mnt.line] = None]
             /\ owed' = owed \ {mnt.line}
             /\ resv' \in {resv, None}
             /\ UNCHANGED <<ram, pend, ans>>
\* A CBO that finds its line dirty gives up the reservation before it finishes.
CboHit == /\ mnt # None /\ mnt.st = "busy" /\ mnt.op # "FENCE" /\ resv' = None
          /\ UNCHANGED <<ram, view, owed, pend, ans, mnt>>
MaintenanceFault == /\ Finish("err") /\ mnt.op # "INVAL"
                    /\ UNCHANGED <<ram, view, owed, resv, pend, ans>>

DmaWrite(l, w, v) ==
  /\ ram' = [ram EXCEPT ![l][w] = v]
  /\ UNCHANGED <<view, owed, resv, pend, ans, mnt>>

Next ==
  \/ \E r \in Request : Accept(r)
  \/ \E m \in Maintenance : Maintain(m)
  \/ Withdraw
  \/ Load \/ Store \/ LoadReserved \/ StoreConditional \/ Amo \/ Fault
  \/ Fill
  \/ \E l \in Line : Drop(l) \/ WriteBack(l) \/ WriteBackFault(l)
  \/ FenceDone \/ CleanDone \/ FlushDone \/ InvalDone
  \/ CboHit \/ MaintenanceFault
  \/ \E l \in Line, w \in Word, v \in DmaValue : DmaWrite(l, w, v)

Spec == Init /\ [][Next]_vars
=============================================================================
