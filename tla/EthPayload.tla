----------------------------- MODULE EthPayload -----------------------------
(* The two payload paths of the Ethernet subsystem, between the ring engine  *)
(* and the MAC (rtl/soc/ethernet/ap_ethernet_subsystem.sv and axis/).        *)
(* Transmission crosses two clocks and is one action per event; reception,   *)
(* in which subsystem and frame buffer read each other's registers, is one   *)
(* step per edge of the root clock.  The paths share nothing.                *)
EXTENDS Naturals, Sequences

CONSTANTS
  TxFrames, TxBytes,     \* bounds: frames sent, bytes of each
  PipeDepth, FifoDepth,  \* bytes between DMA and FIFO, and in it (2048)
  RxFrames, MaxLen,      \* bounds: frames on the wire and their length
  Capacity,              \* bytes of a receive buffer, at most the frame buffer's
  Beat,                  \* bytes of a stream beat (8)
  Overruns               \* may bytes be lost before the frame buffer?

\* All numbers are positive, and one frame fits into the FIFO: the engine's format
\* check (ap_eth_ring_engine.sv:161-165) keeps it within the frame buffer, too.

VARIABLES
  tx,       \* tx_*_q: busy, dma_ok, last_byte_sent, frame_ready, frame_inflight
  launched, left,      \* number of the last frame launched, bytes still to read
  pipe, fifo,          \* its bytes behind the DMA and in the clock crossing
  token,    \* the frame token of the 2-phase crossing
  phy,      \* the frame buffer on the PHY's clock
  txTold,   \* what the engine was last told, "none" while it waits
  wired, readFailed,   \* history: the frames the MAC has accepted; a failed read
  rxOn, arming,        \* RX_EN; the engine's RX side: idle, arm, active
  rx,       \* rx_*_q of the subsystem and its one-cycle pulses
  buf,      \* the frame buffer
  wdma,     \* the write DMA: idle, taken (a descriptor), resp (all data)
  page,     \* what it has written for that descriptor
  wire, reported       \* where the wire stands; the last frame reported good

txVars == <<tx, launched, left, pipe, fifo, token, phy, txTold, wired, readFailed>>
rxVars == <<rxOn, arming, rx, buf, wdma, page, wire, reported>>
vars == <<txVars, rxVars>>

Init ==
  /\ tx = [busy |-> FALSE, ok |-> FALSE, last |-> FALSE, ready |-> FALSE, flight |-> FALSE]
  /\ launched = 0 /\ left = 0 /\ pipe = <<>> /\ fifo = <<>> /\ token = "none"
  /\ phy = [at |-> "wait", held |-> <<>>, sent |-> 0]
  /\ txTold = "nothing" /\ wired = <<>> /\ readFailed = FALSE
  /\ rxOn = FALSE /\ arming = "idle"
  /\ rx = [busy |-> FALSE, desc |-> FALSE, issued |-> FALSE, arm |-> FALSE,
           start |-> FALSE, release |-> FALSE, comp |-> "no"]
  /\ buf = [armed |-> FALSE, capture |-> FALSE, drop |-> FALSE, ready |-> FALSE,
            stream |-> FALSE, dropOut |-> FALSE, bytes |-> <<>>, rd |-> 0]
  /\ wdma = "idle" /\ page = <<>>
  /\ wire = [frame |-> 1, at |-> 0] /\ reported = 0

-----------------------------------------------------------------------------
(* Transmission, root clock.  The descriptor goes to the DMA at once, which  *)
(* has always finished the last one: its status comes with the last byte.    *)
Whole(n) == [i \in 1 .. TxBytes |-> [frame |-> n, at |-> i]]
LaunchReady == ~tx.busy /\ ~tx.ready /\ ~tx.flight /\ token = "none"
Launch ==
  /\ txTold # "none" /\ launched < TxFrames /\ LaunchReady
  /\ launched' = launched + 1 /\ left' = TxBytes /\ txTold' = "none"
  /\ tx' = [tx EXCEPT !.busy = TRUE, !.ok = FALSE, !.last = FALSE]
  /\ UNCHANGED <<pipe, fifo, token, phy, wired, readFailed>>

\* The DMA delivers what it has read, good or not, and says so at the end.
ReadByte ==
  /\ left > 0 /\ Len(pipe) < PipeDepth /\ left' = left - 1
  /\ pipe' = Append(pipe, Whole(launched)[TxBytes - left'])
  /\ \E error \in BOOLEAN :
       LET ended(e) == left' = 0 /\ tx.busy /\ error = e
       IN  /\ error => left' = 0
           /\ tx' = [tx EXCEPT !.busy = @ /\ ~ended(TRUE), !.ok = @ \/ ended(FALSE)]
           /\ txTold' = IF ended(TRUE) THEN "err" ELSE txTold
           /\ readFailed' = (readFailed \/ error)
  /\ UNCHANGED <<launched, fifo, token, phy, wired>>

ByteOut ==
  /\ pipe # <<>> /\ Len(fifo) < FifoDepth
  /\ fifo' = Append(fifo, Head(pipe)) /\ pipe' = Tail(pipe)
  /\ tx' = [tx EXCEPT !.last = @ \/ Head(pipe).at = TxBytes]
  /\ UNCHANGED <<launched, left, token, phy, txTold, wired, readFailed>>

FrameReady ==
  /\ tx.ok /\ tx.last /\ ~tx.ready /\ ~tx.flight /\ tx' = [tx EXCEPT !.ready = TRUE]
  /\ UNCHANGED <<launched, left, pipe, fifo, token, phy, txTold, wired, readFailed>>
Ask ==
  /\ tx.ready /\ token = "none" /\ token' = "asked"
  /\ tx' = [tx EXCEPT !.ready = FALSE, !.flight = TRUE]
  /\ UNCHANGED <<launched, left, pipe, fifo, phy, txTold, wired, readFailed>>

\* The token is back.  The crossing is ready again two clocks after the PHY side
\* has taken the token.
ReturnedAtStart == token # "asked"   \* mutant: the frame has been started
Returned == token = "none"
Complete ==
  /\ tx.flight /\ Returned /\ txTold' = "ok"
  /\ tx' = [tx EXCEPT !.busy = FALSE, !.ok = FALSE, !.last = FALSE, !.flight = FALSE]
  /\ UNCHANGED <<launched, left, pipe, fifo, token, phy, wired, readFailed>>

(* The crossing, and the PHY's clock: a token starts the capture of one frame,*)
(* and is taken when the MAC has accepted its last byte.                      *)
Cross ==
  /\ token \in {"asked", "acked"} /\ token' = IF token = "asked" THEN "shown" ELSE "none"
  /\ UNCHANGED <<tx, launched, left, pipe, fifo, phy, txTold, wired, readFailed>>
Start ==
  /\ phy.at = "wait" /\ token = "shown" /\ phy' = [at |-> "capture", held |-> <<>>, sent |-> 0]
  /\ UNCHANGED <<tx, launched, left, pipe, fifo, token, txTold, wired, readFailed>>
Capture ==
  /\ phy.at = "capture" /\ fifo # <<>> /\ fifo' = Tail(fifo)
  /\ phy' = [phy EXCEPT !.held = Append(@, Head(fifo)),
                        !.at = IF Head(fifo).at = TxBytes THEN "stream" ELSE @]
  /\ UNCHANGED <<tx, launched, left, pipe, token, txTold, wired, readFailed>>
MacAccepts ==
  /\ phy.at = "stream"
  /\ LET done == phy.sent + 1 = Len(phy.held)
     IN  /\ phy' = [phy EXCEPT !.sent = @ + 1, !.at = IF done THEN "done" ELSE @]
         /\ wired' = IF done THEN Append(wired, phy.held) ELSE wired
  /\ UNCHANGED <<tx, launched, left, pipe, fifo, token, txTold, readFailed>>
Ack ==   \* frame_start falls before another token can arrive
  /\ phy.at = "done" /\ token = "shown" /\ token' = "acked"
  /\ phy' = [phy EXCEPT !.at = "wait", !.held = <<>>, !.sent = 0]
  /\ UNCHANGED <<tx, launched, left, pipe, fifo, txTold, wired, readFailed>>

\* The engine need not launch a frame; a clock edge may move nothing.
TxGoing == ReadByte \/ ByteOut \/ FrameReady \/ Ask \/ Complete
           \/ Cross \/ Start \/ Capture \/ MacAccepts \/ Ack
Quiet == UNCHANGED <<tx, launched, left, pipe, fifo, token, phy, txTold, wired, readFailed>>
TxNext == Launch \/ TxGoing \/ Quiet

-----------------------------------------------------------------------------
(* Reception: one edge of the root clock.  The wire comes through a crossing *)
(* whose reader is always ready; when the PHY is the faster one for long, or *)
(* the MAC ignores that the FIFO is full, bytes are lost on the way.         *)
NoByte == [frame |-> 0, at |-> 0, end |-> "no"]
Ends == {"good", "bad"} \cup IF wire.at + 1 < MaxLen THEN {"no"} ELSE {}
FrameGoesOn == wire.at > 0 \/ (rxOn /\ wire.frame <= RxFrames)   \* cfg_rx_enable
Bytes == {NoByte} \cup IF FrameGoesOn
                       THEN [frame : {wire.frame}, at : {wire.at + 1}, end : Ends] ELSE {}
WireAfter(b) == IF b = NoByte THEN wire
                ELSE IF b.end = "no" THEN [wire EXCEPT !.at = @ + 1]
                ELSE [frame |-> wire.frame + 1, at |-> 0]

(* The subsystem.                                                            *)
ArmReady == ~rx.busy /\ ~rx.desc /\ ~rx.issued /\ ~buf.ready
Armed == arming = "arm" /\ ArmReady
Taken(go) == rx.desc /\ wdma = "idle" /\ go
Status(go) == rx.issued /\ wdma = "resp" /\ go
Cancel == ~rxOn /\ ~rx.issued
ReleaseCancelled(go) == Cancel   \* mutant: a written frame stays in the buffer
Release(go) == Cancel \/ Status(go)
RxEdge(go, st) ==
  [busy |-> ~Cancel /\ (Armed \/ (rx.busy /\ ~buf.dropOut /\ ~Status(go))),
   desc |-> ~Cancel /\ \/ rx.desc /\ ~Taken(go)
                       \/ rx.busy /\ buf.ready /\ ~rx.desc /\ ~rx.issued,
   issued |-> Taken(go) \/ (rx.issued /\ ~Status(go)),
   arm |-> Armed,
   start |-> Taken(go),
   release |-> Release(go),
   comp |-> IF Cancel THEN "no" ELSE IF Status(go) THEN st
            ELSE IF buf.dropOut /\ rx.busy THEN "err" ELSE "no"]

(* The frame buffer.  Of what happens on one edge the later part prevails:   *)
(* arming or a byte, the stream to the DMA, the release, RX being off.       *)
ArmBuffer(b) == [b EXCEPT !.armed = TRUE, !.drop = FALSE, !.bytes = <<>>]
Fits == Len(buf.bytes) < Capacity
GoodIfEnded(byte) == byte.end = "good"   \* mutant: a frame too long is good
Good(byte) == byte.end = "good" /\ Fits /\ ~buf.drop
TakeByte(b, byte) ==
  [b EXCEPT !.bytes = IF Fits THEN Append(@, byte) ELSE @, !.drop = @ \/ ~Fits,
            !.armed = @ /\ byte.end = "no", !.capture = byte.end = "no",
            !.ready = Good(byte), !.dropOut = byte.end # "no" /\ ~Good(byte)]
Recorded(byte) ==
  LET b == [buf EXCEPT !.dropOut = FALSE]
  IN  IF rx.arm /\ ~buf.armed /\ ~buf.capture /\ ~buf.ready /\ ~buf.stream THEN ArmBuffer(b)
      ELSE IF /\ byte # NoByte /\ rxOn
              /\ buf.capture \/ (buf.armed /\ ~buf.ready /\ ~buf.stream)
           THEN TakeByte(b, byte)
      ELSE b
BeatMoves(go) == buf.stream /\ wdma = "taken" /\ go
LastBeat == buf.rd + Beat >= Len(buf.bytes)
Streamed(b, go) ==
  IF rx.start /\ buf.ready /\ ~buf.stream THEN [b EXCEPT !.stream = TRUE, !.rd = 0]
  ELSE IF ~BeatMoves(go) THEN b
  ELSE IF LastBeat THEN [b EXCEPT !.stream = FALSE]
  ELSE [b EXCEPT !.rd = @ + Beat]
Released(b) ==
  IF ~rx.release THEN b
  ELSE [b EXCEPT !.ready = FALSE, !.stream = FALSE, !.rd = 0,
                 !.bytes = IF b.ready THEN <<>> ELSE @]
SwitchedOff(b) ==
  IF rxOn \/ buf.stream THEN b
  ELSE [b EXCEPT !.armed = FALSE, !.capture = FALSE, !.drop = FALSE, !.ready = FALSE,
                 !.rd = 0, !.bytes = <<>>]
BufEdge(byte, go) == SwitchedOff(Released(Streamed(Recorded(byte), go)))

(* The write DMA, which takes a descriptor and then as many bytes as it says.*)
BeatBytes == SubSeq(buf.bytes, buf.rd + 1,
                    IF LastBeat THEN Len(buf.bytes) ELSE buf.rd + Beat)
DmaEdge(go) ==
  /\ wdma' = IF Taken(go) THEN "taken" ELSE IF BeatMoves(go) /\ LastBeat THEN "resp"
             ELSE IF wdma = "resp" /\ go THEN "idle" ELSE wdma
  /\ page' = IF Taken(go) THEN <<>> ELSE IF BeatMoves(go) THEN page \o BeatBytes ELSE page

(* The engine's RX side, and software.  Between off and on lies a reset of   *)
(* the rings, far longer than a pulse.                                       *)
Reporting == rxOn /\ arming = "active" /\ rx.comp = "ok"
EngineEdge ==
  /\ CASE arming = "idle" -> arming' \in IF rxOn THEN {"idle", "arm"} ELSE {"idle"}
       [] arming = "arm" -> arming' = IF ~rxOn THEN "idle" ELSE IF ArmReady THEN "active" ELSE "arm"
       [] arming = "active" -> arming' \in IF rx.comp # "no" THEN {"idle"}
                                           ELSE IF rxOn THEN {"active"} ELSE {"active", "idle"}
  /\ reported' = IF Reporting THEN page[1].frame ELSE reported
Switch == rxOn' \in IF rxOn \/ (arming = "idle" /\ ~rx.arm) THEN BOOLEAN ELSE {FALSE}

RxNext ==
  \E go, lost \in BOOLEAN, st \in {"ok", "err"}, byte \in Bytes :
    LET seen == IF lost THEN NoByte ELSE byte
    IN  /\ lost => Overruns /\ byte # NoByte
        /\ st = "err" => Status(go)
        /\ rx' = RxEdge(go, st) /\ buf' = BufEdge(seen, go)
        /\ DmaEdge(go) /\ EngineEdge /\ Switch /\ wire' = WireAfter(byte)

-----------------------------------------------------------------------------
TxSpec == Init /\ [][TxNext /\ UNCHANGED rxVars]_vars
RxSpec == Init /\ [][RxNext /\ UNCHANGED txVars]_vars

\* What fairness may rest on, with TxGoing: both clocks run, memory answers, the
\* MAC sends.  Frames, descriptors and what software does to RX_EN are not owed.
Clocked == /\ RxNext /\ wire' = wire /\ rxOn' = rxOn
           /\ rx' # rx \/ buf' # buf \/ (arming = "arm" /\ arming' # "arm")
DmaMoves == RxNext /\ wire' = wire /\ rxOn' = rxOn /\ (wdma' # wdma \/ page' # page)

TypeOK ==
  /\ token \in {"none", "asked", "shown", "acked"} /\ txTold \in {"nothing", "none", "ok", "err"}
  /\ Len(pipe) <= PipeDepth /\ Len(fifo) <= FifoDepth
  /\ arming \in {"idle", "arm", "active"} /\ wdma \in {"idle", "taken", "resp"}
  /\ Len(buf.bytes) <= Capacity /\ buf.rd < Capacity

\* "TX completion follows full PHY staging and MAC acceptance of the last byte":
\* until a read has failed, when the engine is told of a sent frame the MAC has
\* accepted that frame, whole, and every frame before it, once and in order.
FramesLeaveWhole == txTold = "ok" /\ ~readFailed => wired = [n \in 1 .. launched |-> Whole(n)]

\* What is reported received are consecutive bytes of one frame that ended well,
\* up to its last, later than any reported before: no frame too long for its
\* buffer, none of which a part was read from the next, none twice.
OneFrame ==
  Reporting => /\ page # <<>> /\ page[Len(page)].end = "good" /\ page[1].frame > reported
               /\ \A i \in 1 .. Len(page) - 1 :
                    page[i + 1].frame = page[i].frame /\ page[i + 1].at = page[i].at + 1

\* "it records a complete MAC frame": what is reported begins where a frame does.
WholeFrame == Reporting => page[1].at = 1

\* "TX completion follows ... MAC acceptance": the same after a read has failed.
CompletedIsSent == txTold = "ok" => \E k \in 1 .. Len(wired) : wired[k] = Whole(launched)

\* The DMA never waits for data that have been thrown away.
Orphan == wdma = "taken" /\ ~buf.ready /\ ~buf.stream
NoOrphan == ~Orphan

\* A launched frame is sent or reported bad, until a read has failed; a
\* descriptor finds the path free, and a recorded frame is written, unless RX
\* was switched off on the edge on which the DMA took its descriptor.
TxGoesOn == <>readFailed \/ (txTold = "none" ~> txTold # "none")
RxGoesOn == <>Orphan \/ ((arming = "arm" ~> arming # "arm") /\ (buf.ready ~> ~buf.ready))
=============================================================================
