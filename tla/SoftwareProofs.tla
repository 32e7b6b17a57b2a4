--------------------------- MODULE SoftwareProofs ---------------------------
(* Theorems about the peripherals under their drivers and the bare-metal      *)
(* programs for every value of the constants: SPI (S), timer (T), watchdog    *)
(* (W), UART (U) and programs (B).  They share nothing; each section proves   *)
(* of one of them an inductive invariant and, from it, what its run checks.   *)
EXTENDS MCSoftware, SequenceTheorems, TLAPS

-----------------------------------------------------------------------------
(* The SPI master under the FreeRTOS and the Zephyr driver: as long as a     *)
(* transfer is clean (no other has been started on the wire during it), what *)
(* has been received so far belongs to its own bytes, in order.              *)

Wire == Nat \X Nat
TransferType == [id : Nat, len : Nat, i : Nat, rx : Seq(Wire), clean : BOOLEAN]
Places == [task : {"idle", "send", "wait", "ctrl", "first"},
           irq : {"no", "status", "next", "callback", "ctrl", "first"}]
SpiTypes ==
  /\ sPort \in {"freertos", "zephyr"} /\ sAt \in Places
  /\ sBusy \in BOOLEAN /\ done \in BOOLEAN /\ irqEn \in BOOLEAN /\ latch \in BOOLEAN
       /\ active \in BOOLEAN
  /\ sCur \in Wire /\ rxData \in Wire /\ calls \in Nat
  /\ sJob \in TransferType /\ poll \in TransferType /\ sLast \in TransferType

\* The two contexts do not drive the wire at once, except where the driver lets
\* them: the FreeRTOS driver does not lock its polled transfer.
OneCall ==
  /\ ~(sBusy /\ done)
  /\ latch => sAt.irq = "no"
  /\ sAt.irq \in {"next", "ctrl", "first"} => active
  /\ sAt.irq = "callback" => ~active
  /\ sAt.task \in {"send", "wait"} => ~active /\ sAt.irq \in {"no", "status"}
  /\ sAt.task = "ctrl" => active /\ sAt.irq = "no"
  /\ sPort = "zephyr" /\ sAt.task = "first" => active /\ sAt.irq = "no"
  /\ sPort = "freertos" /\ (~active \/ sAt.task = "ctrl") => ~irqEn /\ ~latch

\* What transfer x has received belongs to its bytes before the current one.
SoFar(x) == /\ x.i \in 1 .. x.len /\ Len(x.rx) = x.i - 1
            /\ \A k \in 1 .. Len(x.rx) : x.rx[k] = <<x.id, k>>
OnWire(x) == IF sBusy THEN sCur = S!ByteOf(x) ELSE rxData = S!ByteOf(x)
\* Where the byte of a clean asynchronous transfer is, and of a polled one.
CleanJob ==
  sJob.clean /\ active =>
    /\ SoFar(sJob)
    /\ \/ /\ sAt.task \in {"ctrl", "first"} /\ sAt.irq = "no" /\ ~sBusy /\ sJob.i = 1
          /\ sPort = "freertos" /\ sAt.task = "first" => ~done /\ ~latch
       \/ sAt.task = "idle" /\ sAt.irq \in {"ctrl", "first"} /\ ~sBusy /\ sJob.i = 1
       \/ sAt.task = "idle" /\ sAt.irq \in {"no", "status"} /\ (sBusy \/ done) /\ OnWire(sJob)
       \/ sAt.task = "idle" /\ sAt.irq = "next" /\ ~sBusy
CleanPoll ==
  poll.clean =>
    /\ sAt.task = "send" => SoFar(poll) /\ ~sBusy
    /\ sAt.task = "wait" => SoFar(poll) /\ OnWire(poll)

\* The inductive invariant.
SpiInv == SpiTypes /\ OneCall /\ CleanJob /\ CleanPoll /\ S!RightAnswer

LEMMA Grows ==
  ASSUME NEW x \in TransferType, SoFar(x), rxData = S!ByteOf(x), rxData \in Wire
  PROVE  /\ S!Received(x) \in TransferType
         /\ S!Received(x).id = x.id /\ S!Received(x).len = x.len /\ S!Received(x).clean = x.clean
         /\ S!Received(x).i = x.i + 1
         /\ x.i < x.len => SoFar(S!Received(x))
         /\ x.i = x.len => S!Received(x).rx = [k \in 1 .. x.len |-> <<x.id, k>>]
<1> DEFINE y == S!Received(x)
           a == Append(x.rx, rxData)
<1>1. /\ x.i \in Nat /\ x.i \in 1 .. x.len /\ x.len \in Nat /\ x.rx \in Seq(Wire)
      /\ Len(x.rx) = x.i - 1 /\ \A k \in 1 .. Len(x.rx) : x.rx[k] = <<x.id, k>>
  BY DEF TransferType, SoFar
<1>2. /\ a \in Seq(Wire) /\ Len(a) = x.i
      /\ \A k \in 1 .. x.i - 1 : a[k] = x.rx[k]
      /\ a[x.i] = <<x.id, x.i>>
  BY <1>1, AppendProperties DEF S!ByteOf
<1>3. \A k \in 1 .. x.i : a[k] = <<x.id, k>>
  <2> SUFFICES ASSUME NEW k \in 1 .. x.i PROVE a[k] = <<x.id, k>>
    OBVIOUS
  <2>1. CASE k = x.i
    BY <1>2, <2>1
  <2>2. CASE k # x.i
    <3>1. k \in 1 .. x.i - 1
      BY <1>1, <2>2
    <3> QED BY <1>1, <1>2, <3>1
  <2> QED BY <2>1, <2>2
<1> HIDE DEF a
<1>4. y = [x EXCEPT !.rx = a, !.i = x.i + 1]
  BY DEF S!Received, a
<1> HIDE DEF y
<1>5. /\ y \in TransferType /\ y.id = x.id /\ y.len = x.len /\ y.clean = x.clean /\ y.i = x.i + 1
      /\ y.rx = a
  <2>1. x \in TransferType /\ x.i + 1 \in Nat /\ a \in Seq(Wire)
    BY <1>1, <1>2
  <2> QED BY <1>4, <2>1 DEF TransferType
<1>6. x.i < x.len => SoFar(y)
  BY <1>1, <1>2, <1>3, <1>5 DEF SoFar
<1>7. x.i = x.len => y.rx = [k \in 1 .. x.len |-> <<x.id, k>>]
  <2> SUFFICES ASSUME x.i = x.len PROVE y.rx = [k \in 1 .. x.len |-> <<x.id, k>>]
    OBVIOUS
  <2>1. a \in [1 .. x.len -> Wire]
    BY <1>2, LenProperties
  <2> QED BY <1>3, <1>5, <2>1
<1> QED BY <1>5, <1>6, <1>7 DEF y

LEMMA ReceivedTyped ==
  ASSUME NEW x \in TransferType, rxData \in Wire
  PROVE  S!Received(x) \in TransferType /\ S!Received(x).clean = x.clean
<1>1. Append(x.rx, rxData) \in Seq(Wire) /\ x.i + 1 \in Nat
  BY AppendProperties DEF TransferType
<1> QED BY <1>1 DEF S!Received, TransferType

LEMMA NewTransfer ==
  ASSUME SpiAssumption, SpiTypes, NEW n \in 1 .. SpiLen
  PROVE  /\ S!Transfer(n) \in TransferType /\ SoFar(S!Transfer(n)) /\ S!Transfer(n).i = 1
         /\ S!Transfer(n).clean => ~sBusy /\ sAt.task = "idle"
<1>1. n \in Nat /\ 1 \in 1 .. n /\ calls + 1 \in Nat /\ <<>> \in Seq(Wire) /\ Len(<<>>) = 0
  BY EmptySeq DEF SpiAssumption, SpiTypes
<1> DEFINE atRest == ~sBusy /\ sAt.task = "idle"
           t == S!Transfer(n)
<1>2. atRest \in BOOLEAN
  OBVIOUS
<1>3. t = [id |-> calls + 1, len |-> n, i |-> 1, rx |-> <<>>, clean |-> atRest]
  BY DEF S!Transfer
<1> HIDE DEF t, atRest
<1>4. t \in TransferType /\ SoFar(t) /\ t.i = 1 /\ t.clean = atRest
  BY <1>1, <1>2, <1>3 DEF TransferType, SoFar
<1> QED BY <1>4 DEF t, atRest

LEMMA ByteTyped == ASSUME NEW x \in TransferType PROVE S!ByteOf(x) \in Wire
  BY DEF TransferType, S!ByteOf, Wire

LEMMA ExchangeKeeps == ASSUME SpiInv, S!Exchange PROVE SpiInv'
<1>1. SpiTypes /\ OneCall /\ CleanJob /\ CleanPoll /\ S!RightAnswer
  BY DEF SpiInv
<1>2. SpiTypes'
  BY <1>1 DEF SpiTypes, S!Exchange, S!count
<1>3. OneCall'
  BY <1>1 DEF OneCall, S!Exchange
<1>4. CleanJob' /\ CleanPoll'
  BY <1>1 DEF CleanJob, CleanPoll, SoFar, OnWire, S!ByteOf, S!Exchange
<1> QED BY <1>1, <1>2, <1>3, <1>4 DEF SpiInv, S!RightAnswer, S!Exchange, S!count

LEMMA RaiseKeeps == ASSUME SpiInv, S!Raise PROVE SpiInv'
<1>1. SpiTypes /\ OneCall /\ CleanJob /\ CleanPoll /\ S!RightAnswer
  BY DEF SpiInv
<1>2. SpiTypes'
  BY <1>1 DEF SpiTypes, S!Raise, S!device, S!count
<1>3. OneCall'
  BY <1>1 DEF SpiTypes, OneCall, S!Raise, S!device
<1>4. CleanJob' /\ CleanPoll'
  BY <1>1 DEF CleanJob, CleanPoll, SoFar, OnWire, S!ByteOf, S!Raise, S!device
<1> QED BY <1>1, <1>2, <1>3, <1>4 DEF SpiInv, S!RightAnswer, S!Raise, S!device, S!count

LEMMA PollStartKeeps ==
  ASSUME SpiAssumption, SpiInv, S!PollStart, sPort' = sPort, done' = done, irqEn' \in BOOLEAN,
         sPort = "freertos" => irqEn' = irqEn
  PROVE  SpiInv'
<1>1. SpiTypes /\ OneCall /\ CleanJob /\ CleanPoll /\ S!RightAnswer
  BY DEF SpiInv
<1>2. PICK n \in 1 .. SpiLen : poll' = S!Transfer(n)
  BY DEF S!PollStart
<1>3. poll' \in TransferType /\ SoFar(poll') /\ (poll'.clean => ~sBusy)
  BY <1>1, <1>2, NewTransfer
<1>4. sAt' \in Places /\ sAt'.task = "send" /\ sAt'.irq = "no" /\ ~active /\ active' = active
  BY <1>1 DEF S!PollStart, S!Goto, SpiTypes, Places
<1>5. SpiTypes'
  BY <1>1, <1>3, <1>4 DEF SpiTypes, S!PollStart
<1>6. OneCall'
  BY <1>1, <1>4 DEF OneCall, S!PollStart, SpiTypes
<1>7. CleanJob' /\ CleanPoll'
  BY <1>3, <1>4 DEF CleanJob, CleanPoll, S!PollStart, SoFar
<1> QED BY <1>1, <1>5, <1>6, <1>7 DEF SpiInv, S!RightAnswer, S!PollStart

LEMMA PollSendKeeps == ASSUME SpiInv, S!PollSend PROVE SpiInv'
<1>1. SpiTypes /\ OneCall /\ CleanJob /\ CleanPoll /\ S!RightAnswer
  BY DEF SpiInv
<1>2. sAt' \in Places /\ sAt'.task = "wait" /\ sAt'.irq = sAt.irq /\ sAt.irq = "no"
  BY <1>1 DEF S!PollSend, S!Runs, S!Goto, SpiTypes, Places
<1>3. ~active /\ active' = active /\ poll' = poll
  BY <1>1 DEF S!PollSend, OneCall
<1>4. S!ByteOf(poll) \in Wire
  BY <1>1, ByteTyped DEF SpiTypes
<1>5. SpiTypes'
  BY <1>1, <1>2, <1>4 DEF SpiTypes, S!PollSend, S!WriteTx, S!count
<1>6. OneCall'
  BY <1>1, <1>2, <1>3 DEF OneCall, S!PollSend, S!WriteTx, SpiTypes
<1>7. CleanJob'
  BY <1>3 DEF CleanJob
<1>8. CleanPoll'
  BY <1>1, <1>2, <1>3 DEF CleanPoll, SoFar, OnWire, S!ByteOf, S!PollSend, S!WriteTx
<1> QED BY <1>1, <1>5, <1>6, <1>7, <1>8 DEF SpiInv, S!RightAnswer, S!PollSend, S!count

LEMMA PollTimeoutKeeps == ASSUME SpiInv, S!PollTimeout PROVE SpiInv'
<1>1. SpiTypes /\ OneCall /\ CleanJob /\ CleanPoll /\ S!RightAnswer
  BY DEF SpiInv
<1>2. sAt' \in Places /\ sAt'.task = "idle" /\ sAt'.irq = sAt.irq
  BY <1>1 DEF S!PollTimeout, S!Goto, SpiTypes, Places
<1>3. ~active /\ active' = active
  BY <1>1 DEF S!PollTimeout, OneCall
<1>4. SpiTypes'
  BY <1>1, <1>2 DEF SpiTypes, S!PollTimeout, S!Deselect, Wire, S!Noise
<1>5. OneCall'
  BY <1>1, <1>2, <1>3 DEF OneCall, S!PollTimeout
<1>6. CleanJob' /\ CleanPoll'
  BY <1>2, <1>3 DEF CleanJob, CleanPoll
<1> QED BY <1>1, <1>4, <1>5, <1>6 DEF SpiInv, S!RightAnswer, S!PollTimeout

LEMMA PollReadKeeps ==
  ASSUME SpiInv, S!PollRead, sPort' = sPort, done' \in BOOLEAN, irqEn' \in BOOLEAN,
         done' => done, irqEn' => irqEn
  PROVE  SpiInv'
<1>1. SpiTypes /\ OneCall /\ CleanJob /\ CleanPoll /\ S!RightAnswer
  BY DEF SpiInv
<1>2. /\ sAt.irq = "no" /\ ~active /\ active' = active /\ ~sBusy /\ sBusy' = sBusy /\ rxData' = rxData
      /\ poll' = S!Received(poll) /\ latch' = latch
  BY <1>1 DEF S!PollRead, S!Runs, OneCall
<1>3. poll \in TransferType /\ poll' \in TransferType /\ poll'.clean = poll.clean
  BY <1>1, <1>2, ReceivedTyped DEF SpiTypes
<1>4. poll.clean => SoFar(poll) /\ rxData = S!ByteOf(poll) /\ rxData \in Wire
  BY <1>1, <1>2 DEF CleanPoll, OnWire, S!PollRead, SpiTypes
<1>5. CASE poll.i = poll.len
  <2>1. sAt' \in Places /\ sAt'.task = "idle" /\ sAt'.irq = sAt.irq /\ sLast' = poll'
    BY <1>1, <1>5 DEF S!PollRead, S!Goto, S!Succeeded, SpiTypes, Places
  <2>2. SpiTypes'
    BY <1>1, <1>2, <1>3, <1>5, <2>1 DEF SpiTypes, S!PollRead, S!Deselect, Wire, S!Noise
  <2>3. OneCall'
    BY <1>1, <1>2, <2>1 DEF OneCall
  <2>4. CleanJob' /\ CleanPoll'
    BY <1>2, <2>1 DEF CleanJob, CleanPoll
  <2>5. S!RightAnswer'
    <3> SUFFICES ASSUME poll.clean PROVE S!RightAnswer'
      BY <1>3, <2>1 DEF S!RightAnswer
    <3>1. /\ S!Received(poll).rx = [k \in 1 .. poll.len |-> <<poll.id, k>>]
          /\ S!Received(poll).id = poll.id /\ S!Received(poll).len = poll.len
      BY <1>3, <1>4, <1>5, Grows
    <3> QED BY <1>2, <2>1, <3>1 DEF S!RightAnswer
  <2> QED BY <2>2, <2>3, <2>4, <2>5 DEF SpiInv
<1>6. CASE poll.i # poll.len
  <2>1. sAt' \in Places /\ sAt'.task = "send" /\ sAt'.irq = sAt.irq /\ sLast' = sLast /\ sCur' = sCur
    BY <1>1, <1>6 DEF S!PollRead, S!Goto, SpiTypes, Places
  <2>2. SpiTypes'
    BY <1>1, <1>2, <1>3, <2>1 DEF SpiTypes, S!PollRead
  <2>3. OneCall'
    BY <1>1, <1>2, <2>1 DEF OneCall
  <2>4. poll.clean => SoFar(poll')
    <3>1. poll.clean => poll.i < poll.len
      BY <1>3, <1>4, <1>6 DEF SoFar, TransferType
    <3> QED BY <1>2, <1>3, <1>4, <3>1, Grows
  <2>5. CleanJob' /\ CleanPoll'
    BY <1>2, <1>3, <2>1, <2>4 DEF CleanJob, CleanPoll, SoFar
  <2> QED BY <1>1, <2>1, <2>2, <2>3, <2>5 DEF SpiInv, S!RightAnswer
<1> QED BY <1>5, <1>6

LEMMA TaskBegins == ASSUME SpiAssumption, SpiInv, S!AsyncStart("task") PROVE SpiInv'
<1>1. SpiTypes /\ OneCall /\ CleanJob /\ CleanPoll /\ S!RightAnswer
  BY DEF SpiInv
<1>2. PICK n \in 1 .. SpiLen : sJob' = S!Transfer(n)
  BY DEF S!AsyncStart
<1>3. sJob' \in TransferType /\ SoFar(sJob') /\ sJob'.i = 1 /\ (sJob'.clean => ~sBusy)
  BY <1>1, <1>2, NewTransfer
<1>4. /\ sAt' \in Places /\ sAt'.task = "ctrl" /\ sAt'.irq = "no" /\ sAt.irq = "no" /\ ~active
           /\ active'
      /\ active' \in BOOLEAN
  BY <1>1 DEF S!AsyncStart, S!Goto, S!Runs, SpiTypes, Places
<1>5. SpiTypes'
  BY <1>1, <1>3, <1>4 DEF SpiTypes, S!AsyncStart, S!SelectSlave
<1>6. OneCall'
  BY <1>1, <1>4 DEF OneCall, S!AsyncStart
<1>7. CleanJob' /\ CleanPoll'
  BY <1>3, <1>4 DEF CleanJob, CleanPoll, S!AsyncStart, SoFar
<1> QED BY <1>1, <1>5, <1>6, <1>7 DEF SpiInv, S!RightAnswer, S!AsyncStart

LEMMA HandlerBegins == ASSUME SpiAssumption, SpiInv, S!AsyncStart("irq") PROVE SpiInv'
<1>1. SpiTypes /\ OneCall /\ CleanJob /\ CleanPoll /\ S!RightAnswer
  BY DEF SpiInv
<1>2. PICK n \in 1 .. SpiLen : sJob' = S!Transfer(n)
  BY DEF S!AsyncStart
<1>3. /\ sJob' \in TransferType /\ SoFar(sJob') /\ sJob'.i = 1
      /\ sJob'.clean => ~sBusy /\ sAt.task = "idle"
  BY <1>1, <1>2, NewTransfer
<1>4. /\ sAt' \in Places /\ sAt'.task = sAt.task /\ sAt'.irq = "ctrl" /\ sAt.irq = "callback"
      /\ ~active /\ active' /\ active' \in BOOLEAN
  BY <1>1 DEF S!AsyncStart, S!Goto, SpiTypes, Places
<1>5. SpiTypes'
  BY <1>1, <1>3, <1>4 DEF SpiTypes, S!AsyncStart, S!SelectSlave
<1>6. OneCall'
  BY <1>1, <1>4 DEF OneCall, S!AsyncStart, SpiTypes
<1>7. CleanJob' /\ CleanPoll'
  BY <1>1, <1>3, <1>4 DEF CleanJob, CleanPoll, S!AsyncStart, SoFar, OneCall
<1> QED BY <1>1, <1>5, <1>6, <1>7 DEF SpiInv, S!RightAnswer, S!AsyncStart

LEMMA TaskEnables == ASSUME SpiInv, S!AsyncCtrl("task") PROVE SpiInv'
<1>1. SpiTypes /\ OneCall /\ CleanJob /\ CleanPoll /\ S!RightAnswer
  BY DEF SpiInv
<1>2. /\ sAt.task = "ctrl" /\ sAt' \in Places /\ sAt'.task = "first" /\ sAt'.irq = "no"
           /\ sAt.irq = "no"
      /\ active /\ active' = active /\ sBusy' = sBusy /\ sJob' = sJob /\ latch' = latch
  BY <1>1 DEF S!AsyncCtrl, S!Goto, SpiTypes, Places, OneCall
<1>3. done' = (done /\ ~(sPort = "freertos")) /\ irqEn' = TRUE /\ sPort' = sPort
  BY DEF S!AsyncCtrl, S!WriteCtrl
<1>4. done' \in BOOLEAN /\ (done' => done) /\ (sPort = "freertos" => ~done')
  BY <1>1, <1>3 DEF SpiTypes
<1>5. SpiTypes'
  BY <1>1, <1>2, <1>3, <1>4 DEF SpiTypes, S!AsyncCtrl, S!count
<1>6. OneCall'
  BY <1>1, <1>2, <1>3, <1>4 DEF OneCall, SpiTypes
<1>7. CleanJob' /\ CleanPoll'
  BY <1>1, <1>2, <1>3, <1>4 DEF CleanJob, CleanPoll, SoFar, OneCall
<1> QED BY <1>1, <1>5, <1>6, <1>7 DEF SpiInv, S!RightAnswer, S!AsyncCtrl, S!count

LEMMA HandlerEnables == ASSUME SpiInv, S!AsyncCtrl("irq") PROVE SpiInv'
<1>1. SpiTypes /\ OneCall /\ CleanJob /\ CleanPoll /\ S!RightAnswer
  BY DEF SpiInv
<1>2. /\ sAt.irq = "ctrl" /\ sAt' \in Places /\ sAt'.task = sAt.task /\ sAt'.irq = "first"
      /\ active /\ active' = active /\ sBusy' = sBusy /\ sJob' = sJob /\ latch' = latch
      /\ sAt.task \notin {"send", "wait", "ctrl"} /\ ~latch
  BY <1>1 DEF S!AsyncCtrl, S!Goto, SpiTypes, Places, OneCall
<1>3. done' = (done /\ ~(sPort = "freertos")) /\ irqEn' = TRUE /\ sPort' = sPort
  BY DEF S!AsyncCtrl, S!WriteCtrl
<1>4. done' \in BOOLEAN /\ (done' => done)
  BY <1>1, <1>3 DEF SpiTypes
<1>5. SpiTypes'
  BY <1>1, <1>2, <1>3, <1>4 DEF SpiTypes, S!AsyncCtrl, S!count
<1>6. OneCall'
  BY <1>1, <1>2, <1>3, <1>4 DEF OneCall, SpiTypes
<1>7. CleanJob' /\ CleanPoll'
  BY <1>1, <1>2 DEF CleanJob, CleanPoll, SoFar
<1> QED BY <1>1, <1>5, <1>6, <1>7 DEF SpiInv, S!RightAnswer, S!AsyncCtrl, S!count

LEMMA TaskSends == ASSUME SpiInv, S!AsyncSend("task") PROVE SpiInv'
<1>1. SpiTypes /\ OneCall /\ CleanJob /\ CleanPoll /\ S!RightAnswer
  BY DEF SpiInv
<1>2. /\ sAt.task = "first" /\ sAt' \in Places /\ sAt'.task = "idle" /\ sAt'.irq = "no"
           /\ sAt.irq = "no"
      /\ active' = active /\ sJob' = sJob /\ latch' = latch /\ sPort' = sPort /\ irqEn' = irqEn
  BY <1>1 DEF S!AsyncSend, S!Runs, S!Goto, SpiTypes, Places
<1>3. <<sJob.id, 1>> \in Wire
  BY <1>1 DEF SpiTypes, TransferType, Wire
<1>4. IF sBusy THEN sBusy' = sBusy /\ done' = done /\ sCur' = sCur
               ELSE sBusy' = TRUE /\ done' = FALSE /\ sCur' = <<sJob.id, 1>>
  BY DEF S!AsyncSend, S!WriteTx
<1>5. SpiTypes'
  BY <1>1, <1>2, <1>3, <1>4 DEF SpiTypes, S!AsyncSend, S!count
<1>6. OneCall'
  BY <1>1, <1>2, <1>4 DEF OneCall, SpiTypes
<1>7. CleanJob' /\ CleanPoll'
  BY <1>1, <1>2, <1>4 DEF CleanJob, CleanPoll, SoFar, OnWire, S!ByteOf
<1> QED BY <1>1, <1>5, <1>6, <1>7 DEF SpiInv, S!RightAnswer, S!AsyncSend, S!count

LEMMA HandlerSends == ASSUME SpiInv, S!AsyncSend("irq") PROVE SpiInv'
<1>1. SpiTypes /\ OneCall /\ CleanJob /\ CleanPoll /\ S!RightAnswer
  BY DEF SpiInv
<1>2. /\ sAt.irq = "first" /\ sAt' \in Places /\ sAt'.task = sAt.task /\ sAt'.irq = "no"
      /\ active /\ active' = active /\ sJob' = sJob /\ latch' = latch /\ sPort' = sPort
           /\ irqEn' = irqEn
      /\ sAt.task \notin {"send", "wait", "ctrl"}
      /\ ~(sPort = "zephyr" /\ sAt.task = "first")
  BY <1>1 DEF S!AsyncSend, S!Goto, SpiTypes, Places, OneCall
<1>3. <<sJob.id, 1>> \in Wire
  BY <1>1 DEF SpiTypes, TransferType, Wire
<1>4. IF sBusy THEN sBusy' = sBusy /\ done' = done /\ sCur' = sCur
               ELSE sBusy' = TRUE /\ done' = FALSE /\ sCur' = <<sJob.id, 1>>
  BY DEF S!AsyncSend, S!WriteTx
<1>5. SpiTypes'
  BY <1>1, <1>2, <1>3, <1>4 DEF SpiTypes, S!AsyncSend, S!count
<1>6. OneCall'
  BY <1>1, <1>2, <1>4 DEF OneCall, SpiTypes
<1>7. CleanJob' /\ CleanPoll'
  BY <1>1, <1>2, <1>4 DEF CleanJob, CleanPoll, SoFar, OnWire, S!ByteOf
<1> QED BY <1>1, <1>5, <1>6, <1>7 DEF SpiInv, S!RightAnswer, S!AsyncSend, S!count

LEMMA EnterKeeps == ASSUME SpiInv, S!Enter PROVE SpiInv'
<1>1. SpiTypes /\ OneCall /\ CleanJob /\ CleanPoll /\ S!RightAnswer
  BY DEF SpiInv
<1>2. /\ latch /\ latch' = FALSE /\ sAt.irq = "no" /\ sAt' \in Places /\ sAt'.task = sAt.task
      /\ sAt'.irq = "status" /\ ~S!Locked
  BY <1>1 DEF S!Enter, S!Goto, SpiTypes, Places
<1>3. /\ sPort' = sPort /\ sBusy' = sBusy /\ done' = done /\ irqEn' = irqEn /\ sCur' = sCur
      /\ rxData' = rxData /\ active' = active /\ sJob' = sJob /\ poll' = poll /\ calls' = calls
      /\ sLast' = sLast
  BY DEF S!Enter, S!device, S!count
<1>4. SpiTypes'
  BY <1>1, <1>2, <1>3 DEF SpiTypes
<1>5. OneCall'
  BY <1>1, <1>2, <1>3 DEF OneCall, S!Locked, SpiTypes
<1>6. CleanJob'
  BY <1>1, <1>2, <1>3 DEF CleanJob, SoFar, OnWire, S!ByteOf, OneCall, S!Locked, SpiTypes
<1>7. CleanPoll'
  BY <1>1, <1>2, <1>3 DEF CleanPoll, SoFar, OnWire, S!ByteOf
<1> QED BY <1>1, <1>3, <1>4, <1>5, <1>6, <1>7 DEF SpiInv, S!RightAnswer

LEMMA IgnoreKeeps ==
  ASSUME SpiInv, sAt.irq = "status", S!Ignore, ~done \/ ~active, done' \in BOOLEAN, irqEn' \in BOOLEAN,
         done' => done, irqEn' => irqEn, ~done => done' = done
  PROVE  SpiInv'
<1>1. SpiTypes /\ OneCall /\ CleanJob /\ CleanPoll /\ S!RightAnswer
  BY DEF SpiInv
<1>2. /\ sAt' \in Places /\ sAt'.task = sAt.task /\ sAt'.irq = "no"
      /\ sPort' = sPort /\ sBusy' = sBusy /\ sCur' = sCur /\ latch' = latch
      /\ rxData' = rxData /\ active' = active /\ sJob' = sJob /\ poll' = poll /\ calls' = calls
      /\ sLast' = sLast
  BY <1>1 DEF S!Ignore, S!Goto, SpiTypes, Places, S!count
<1>3. SpiTypes'
  BY <1>1, <1>2 DEF SpiTypes
<1>4. OneCall'
  BY <1>1, <1>2 DEF OneCall
<1>5. CleanJob'
  BY <1>1, <1>2 DEF CleanJob, SoFar, OnWire, S!ByteOf, SpiTypes
<1>6. CleanPoll'
  BY <1>1, <1>2 DEF CleanPoll, SoFar, OnWire, S!ByteOf
<1> QED BY <1>1, <1>2, <1>3, <1>4, <1>5, <1>6 DEF SpiInv, S!RightAnswer

LEMMA TakeByteKeeps ==
  ASSUME SpiInv, sAt.irq = "status", done, active, S!TakeByte, done' = FALSE, irqEn' \in BOOLEAN,
         sPort = "freertos" => (irqEn' => sJob.i < sJob.len)
  PROVE  SpiInv'
<1>1. SpiTypes /\ OneCall /\ CleanJob /\ CleanPoll /\ S!RightAnswer
  BY DEF SpiInv
<1>2. /\ sPort' = sPort /\ sBusy' = sBusy /\ latch' = latch /\ rxData' = rxData /\ poll' = poll
      /\ calls' = calls /\ sJob' = S!Received(sJob)
  BY DEF S!TakeByte
<1>3. ~sBusy /\ ~latch /\ sAt.task \in {"idle", "first"} /\ (sAt.task = "first" => sPort = "freertos")
  BY <1>1 DEF OneCall, SpiTypes, Places
<1>4. sJob \in TransferType /\ sJob' \in TransferType /\ sJob'.clean = sJob.clean
  BY <1>1, <1>2, ReceivedTyped DEF SpiTypes
<1>5. sJob.clean => SoFar(sJob) /\ rxData = S!ByteOf(sJob) /\ rxData \in Wire /\ sAt.task = "idle"
  BY <1>1, <1>3 DEF CleanJob, OnWire, SpiTypes
<1>6. CASE sJob.i < sJob.len
  <2>1. /\ sAt' \in Places /\ sAt'.task = sAt.task /\ sAt'.irq = "next" /\ sLast' = sLast
             /\ sCur' = sCur
        /\ active' = active
    BY <1>1, <1>6 DEF S!TakeByte, S!Goto, SpiTypes, Places
  <2>2. SpiTypes'
    BY <1>1, <1>2, <1>4, <2>1 DEF SpiTypes
  <2>3. OneCall'
    BY <1>1, <1>2, <1>3, <2>1 DEF OneCall
  <2>4. sJob.clean => SoFar(sJob')
    BY <1>2, <1>4, <1>5, <1>6, Grows
  <2>5. CleanJob'
    BY <1>2, <1>3, <1>4, <1>5, <2>1, <2>4 DEF CleanJob, SoFar
  <2>6. CleanPoll'
    BY <1>3, <2>1 DEF CleanPoll
  <2> QED BY <1>1, <2>1, <2>2, <2>3, <2>5, <2>6 DEF SpiInv, S!RightAnswer
<1>7. CASE ~(sJob.i < sJob.len)
  <2>1. /\ sAt' \in Places /\ sAt'.task = sAt.task /\ sAt'.irq = "callback" /\ sLast' = sJob'
        /\ active' = FALSE /\ sCur' = IF sBusy THEN S!Noise ELSE sCur
    BY <1>1, <1>7 DEF S!TakeByte, S!Goto, S!Deselect, S!Succeeded, SpiTypes, Places
  <2>2. SpiTypes'
    BY <1>1, <1>2, <1>4, <2>1 DEF SpiTypes, S!Noise, Wire
  <2>3. OneCall'
    BY <1>1, <1>2, <1>3, <1>7, <2>1 DEF OneCall
  <2>4. CleanJob' /\ CleanPoll'
    BY <1>3, <2>1 DEF CleanJob, CleanPoll
  <2>5. S!RightAnswer'
    <3> SUFFICES ASSUME sJob.clean PROVE S!RightAnswer'
      BY <1>4, <2>1 DEF S!RightAnswer
    <3>1. sJob.i = sJob.len
      BY <1>4, <1>5, <1>7 DEF SoFar, TransferType
    <3>2. /\ S!Received(sJob).rx = [k \in 1 .. sJob.len |-> <<sJob.id, k>>]
          /\ S!Received(sJob).id = sJob.id /\ S!Received(sJob).len = sJob.len
      BY <1>4, <1>5, <3>1, Grows
    <3> QED BY <1>2, <2>1, <3>2 DEF S!RightAnswer
  <2> QED BY <2>2, <2>3, <2>4, <2>5 DEF SpiInv
<1> QED BY <1>6, <1>7

LEMMA NextByteKeeps == ASSUME SpiInv, S!NextByte PROVE SpiInv'
<1>1. SpiTypes /\ OneCall /\ CleanJob /\ CleanPoll /\ S!RightAnswer
  BY DEF SpiInv
<1>2. /\ sAt.irq = "next" /\ sAt' \in Places /\ sAt'.task = sAt.task /\ sAt'.irq = "no"
      /\ active /\ active' = active /\ sJob' = sJob /\ latch' = latch /\ sPort' = sPort
           /\ irqEn' = irqEn
      /\ sAt.task \notin {"send", "wait", "ctrl"}
      /\ ~(sPort = "zephyr" /\ sAt.task = "first")
  BY <1>1 DEF S!NextByte, S!Goto, SpiTypes, Places, OneCall
<1>3. S!ByteOf(sJob) \in Wire
  BY <1>1, ByteTyped DEF SpiTypes
<1>4. IF sBusy THEN sBusy' = sBusy /\ done' = done /\ sCur' = sCur
               ELSE sBusy' = TRUE /\ done' = FALSE /\ sCur' = S!ByteOf(sJob)
  BY DEF S!NextByte, S!WriteTx
<1>5. SpiTypes'
  BY <1>1, <1>2, <1>3, <1>4 DEF SpiTypes, S!NextByte, S!count
<1>6. OneCall'
  BY <1>1, <1>2, <1>4 DEF OneCall, SpiTypes
<1>7. CleanJob' /\ CleanPoll'
  BY <1>1, <1>2, <1>4 DEF CleanJob, CleanPoll, SoFar, OnWire, S!ByteOf
<1> QED BY <1>1, <1>5, <1>6, <1>7 DEF SpiInv, S!RightAnswer, S!NextByte, S!count

LEMMA CallbackEndsKeeps == ASSUME SpiInv, S!CallbackEnds PROVE SpiInv'
<1>1. SpiTypes /\ OneCall /\ CleanJob /\ CleanPoll /\ S!RightAnswer
  BY DEF SpiInv
<1>2. /\ sAt.irq = "callback" /\ ~active /\ sAt' \in Places /\ sAt'.task = sAt.task /\ sAt'.irq = "no"
      /\ sAt.task \notin {"send", "wait"}
  BY <1>1 DEF S!CallbackEnds, S!Goto, SpiTypes, Places, OneCall
<1>3. SpiTypes'
  BY <1>1, <1>2 DEF SpiTypes, S!CallbackEnds, S!device, S!count
<1>4. OneCall'
  BY <1>1, <1>2 DEF OneCall, S!CallbackEnds, S!device
<1>5. CleanJob' /\ CleanPoll'
  BY <1>2 DEF CleanJob, CleanPoll, S!CallbackEnds
<1> QED BY <1>1, <1>3, <1>4, <1>5 DEF SpiInv, S!RightAnswer, S!CallbackEnds, S!count

LEMMA SpiStart == ASSUME SpiAssumption, S!Init PROVE SpiInv
<1>1. <<>> \in Seq(Wire) /\ <<0, 0>> \in Wire
  BY EmptySeq DEF Wire
<1>2. S!NoTransfer \in TransferType /\ S!NoTransfer.len = 0 /\ S!NoTransfer.rx = <<>>
  BY <1>1 DEF S!NoTransfer, TransferType
<1>3. SpiTypes
  BY <1>1, <1>2 DEF S!Init, SpiTypes, Places, SpiAssumption, S!Noise
<1>4. [k \in 1 .. 0 |-> <<sLast.id, k>>] = <<>>
  OBVIOUS
<1>5. S!RightAnswer
  BY <1>2, <1>4 DEF S!Init, S!RightAnswer
<1> QED BY <1>3, <1>5 DEF S!Init, SpiInv, OneCall, CleanJob, CleanPoll

LEMMA TransferBufKeeps == ASSUME SpiAssumption, SpiInv, S!TransferBuf PROVE SpiInv'
<1>1. done \in BOOLEAN /\ irqEn \in BOOLEAN
  BY DEF SpiInv, SpiTypes
<1>2. CASE S!PollStart /\ UNCHANGED <<done, irqEn>>
  BY <1>1, <1>2, PollStartKeeps DEF S!TransferBuf
<1>3. CASE S!PollRead /\ S!WriteCtrl(FALSE, TRUE)
  <2>1. irqEn' = FALSE /\ done' = FALSE /\ sPort' = sPort
    BY <1>3 DEF S!WriteCtrl, S!TransferBuf
  <2> QED BY <1>3, <2>1, PollReadKeeps
<1> QED BY <1>2, <1>3 DEF S!TransferBuf

LEMMA TransceiveKeeps == ASSUME SpiAssumption, SpiInv, S!Transceive PROVE SpiInv'
<1>1. done \in BOOLEAN /\ irqEn \in BOOLEAN /\ sPort' = sPort /\ sPort # "freertos"
  BY DEF SpiInv, SpiTypes, S!Transceive
<1>2. CASE S!PollStart /\ S!WriteCtrl(FALSE, FALSE)
  <2>1. irqEn' = FALSE /\ done' = done
    BY <1>1, <1>2 DEF S!WriteCtrl
  <2> QED BY <1>1, <1>2, <2>1, PollStartKeeps
<1>3. CASE S!PollRead /\ UNCHANGED <<done, irqEn>>
  BY <1>1, <1>3, PollReadKeeps
<1> QED BY <1>2, <1>3 DEF S!Transceive

LEMMA IrqHandlerKeeps == ASSUME SpiInv, S!IrqHandler PROVE SpiInv'
<1>1. done \in BOOLEAN /\ irqEn \in BOOLEAN /\ sAt.irq = "status"
  BY DEF SpiInv, SpiTypes, S!IrqHandler
<1>2. CASE ~done /\ S!Ignore /\ UNCHANGED <<done, irqEn>>
  BY <1>1, <1>2, IgnoreKeeps
<1>3. CASE done /\ ~active /\ S!Ignore /\ S!WriteCtrl(FALSE, TRUE)
  <2>1. irqEn' = FALSE /\ done' = FALSE
    BY <1>3 DEF S!WriteCtrl
  <2> QED BY <1>1, <1>3, <2>1, IgnoreKeeps
<1>4. CASE done /\ active /\ S!TakeByte /\ S!WriteCtrl(sJob.i < sJob.len, TRUE)
  <2>1. irqEn' = (sJob.i < sJob.len) /\ done' = FALSE
    BY <1>4 DEF S!WriteCtrl
  <2>2. sJob.i \in Nat /\ sJob.len \in Nat
    BY DEF SpiInv, SpiTypes, TransferType
  <2>3. irqEn' \in BOOLEAN
    BY <2>1, <2>2
  <2> QED BY <1>1, <1>4, <2>1, <2>3, TakeByteKeeps
<1> QED BY <1>2, <1>3, <1>4 DEF S!IrqHandler

LEMMA IsrKeeps == ASSUME SpiInv, S!Isr PROVE SpiInv'
<1>1. done \in BOOLEAN /\ irqEn \in BOOLEAN /\ sAt.irq = "status" /\ sPort # "freertos"
  BY DEF SpiInv, SpiTypes, S!Isr
<1>2. CASE (~done \/ ~active) /\ S!Ignore /\ UNCHANGED <<done, irqEn>>
  BY <1>1, <1>2, IgnoreKeeps
<1>3. CASE done /\ active /\ S!TakeByte /\ S!WriteCtrl(TRUE, TRUE)
  <2>1. irqEn' = TRUE /\ done' = FALSE
    BY <1>3 DEF S!WriteCtrl
  <2> QED BY <1>1, <1>3, <2>1, TakeByteKeeps
<1> QED BY <1>2, <1>3 DEF S!Isr

LEMMA SpiStep == ASSUME SpiAssumption, SpiInv, [S!Next]_(S!vars) PROVE SpiInv'
<1>1. CASE UNCHANGED S!vars
  BY <1>1 DEF S!vars, S!device, S!count, SpiInv, SpiTypes, OneCall, CleanJob, CleanPoll,
     S!RightAnswer, SoFar, OnWire, S!ByteOf
<1> QED BY <1>1, ExchangeKeeps, RaiseKeeps, PollSendKeeps, PollTimeoutKeeps, TransferBufKeeps,
        TransceiveKeeps, TaskBegins, TaskEnables, TaskSends, HandlerBegins, HandlerEnables,
        HandlerSends, EnterKeeps, IrqHandlerKeeps, IsrKeeps, NextByteKeeps, CallbackEndsKeeps
        DEF S!Next, S!Task, S!Handler, S!Start

\* Neither driver hands a transfer the bytes of another, or its own out of order.
THEOREM SpiAlways == ASSUME SpiAssumption PROVE S!Spec => []S!RightAnswer
<1>1. SpiInv => S!RightAnswer
  BY DEF SpiInv
<1> QED BY <1>1, SpiStart, SpiStep, PTL DEF S!Spec

-----------------------------------------------------------------------------
(* The APB timer under library and RTOS drivers, for any intervals up to the *)
(* value where the model's counter stops. The invariant relates COUNT,       *)
(* COMPARE and STATUS to the edges since COUNT was cleared.                  *)

TimerSteps == {"init", "clear", "idle", "count", "ctrl", "waiting", "stop", "status"}
HandlerSteps == {"no", "first", "second", "notify", "callback"}
TimerRegs == [en : BOOLEAN, irq : BOOLEAN, count : 0 .. MaxCount, compare : 0 .. MaxCount,
              expired : BOOLEAN]
TimerTypes ==
  /\ tAt \in TimerSteps /\ tIrqAt \in HandlerSteps
  /\ reg \in TimerRegs /\ want \in [compare : 0 .. MaxCount, irq : BOOLEAN]
  /\ elapsed \in 0 .. MaxCount /\ clean \in BOOLEAN /\ reports \in {0, 1}
\* The counter is never ahead of the edges, and STATUS, once cleared, is only
\* set by an interval that has passed.
CountIsBehind == reg.compare = want.compare /\ reg.count <= elapsed
CleanMeansDue == tAt # "count" /\ clean /\ reg.expired => elapsed >= want.compare
IrqWhileWaiting ==
  /\ reg.irq \/ tIrqAt # "no" => tAt = "waiting"
  /\ reg.irq => want.irq
\* The FreeRTOS driver stops the timer before it clears STATUS, so that every
\* interval starts clean.
StoppedIsClear ==
  tPort = "freertos" =>
    /\ clean
    /\ tAt \in {"init", "idle", "count", "ctrl"} => ~reg.en /\ ~reg.expired
    /\ tAt = "status" \/ tIrqAt \in {"second", "notify"} => ~reg.en /\ ~reg.irq
    /\ tIrqAt = "notify" => ~reg.expired
\* The inductive invariant.
TimerInv == TimerTypes /\ CountIsBehind /\ CleanMeansDue /\ IrqWhileWaiting /\ StoppedIsClear

LEMMA TimerStart == ASSUME IntervalAssumption, T!Init PROVE TimerInv
BY DEF IntervalAssumption, T!Init, TimerInv, TimerTypes, TimerSteps, HandlerSteps, TimerRegs,
       CountIsBehind, CleanMeansDue, IrqWhileWaiting, StoppedIsClear

\* What a clock edge makes of the registers when nothing is stored to them.
LEMMA EdgeOfRegs ==
  ASSUME IntervalAssumption, TimerInv
  PROVE  /\ T!Clocked \in TimerRegs
         /\ T!Clocked.en = reg.en /\ T!Clocked.irq = reg.irq /\ T!Clocked.compare = reg.compare
         /\ T!Clocked.count <= T!AtMost(elapsed + 1)
         /\ T!Clocked.expired => reg.expired \/ (reg.en /\ elapsed >= reg.compare)
         /\ T!AtMost(elapsed + 1) \in 0 .. MaxCount /\ T!AtMost(elapsed + 1) >= elapsed
<1> DEFINE n == IF reg.en THEN T!AtMost(reg.count + 1) ELSE reg.count
           x == reg.expired \/ (reg.en /\ reg.compare # 0 /\ reg.count >= reg.compare)
<1>1. reg \in TimerRegs /\ elapsed \in 0 .. MaxCount /\ reg.count <= elapsed /\ MaxCount \in Nat
  BY DEF IntervalAssumption, TimerInv, TimerTypes, CountIsBehind
<1>2. reg.count \in 0 .. MaxCount /\ reg.compare \in 0 .. MaxCount /\ reg.expired \in BOOLEAN
        /\ reg.en \in BOOLEAN
  BY <1>1 DEF TimerRegs
<1>3. n \in 0 .. MaxCount /\ n <= T!AtMost(elapsed + 1)
  BY <1>1, <1>2 DEF T!AtMost
<1>4. x \in BOOLEAN /\ (x => reg.expired \/ (reg.en /\ elapsed >= reg.compare))
  BY <1>1, <1>2
<1>5. T!Clocked = [reg EXCEPT !.count = n, !.expired = x]
  BY DEF T!Clocked
<1> HIDE DEF n, x
<1>6. /\ T!Clocked \in TimerRegs
      /\ T!Clocked.en = reg.en /\ T!Clocked.irq = reg.irq /\ T!Clocked.compare = reg.compare
      /\ T!Clocked.count = n /\ T!Clocked.expired = x
  BY <1>1, <1>3, <1>4, <1>5 DEF TimerRegs
<1>7. T!AtMost(elapsed + 1) \in 0 .. MaxCount /\ T!AtMost(elapsed + 1) >= elapsed
  BY <1>1 DEF T!AtMost
<1> QED BY <1>3, <1>4, <1>6, <1>7

\* The five stores: the fields they change, and what every edge keeps.
Edged == /\ reg' \in TimerRegs /\ elapsed' \in 0 .. MaxCount /\ elapsed' >= elapsed /\ clean' = clean
         /\ reg'.count <= elapsed'
LEMMA EdgeIs ==
  ASSUME IntervalAssumption, TimerInv, T!Edge
  PROVE  /\ Edged /\ reg'.en = reg.en /\ reg'.irq = reg.irq /\ reg'.compare = reg.compare
         /\ reg'.expired => reg.expired \/ (reg.en /\ elapsed >= reg.compare)
BY EdgeOfRegs DEF T!Edge, T!Passes, Edged

LEMMA StoreCompareIs ==
  ASSUME IntervalAssumption, TimerInv, NEW m \in 0 .. MaxCount, T!StoreCompare(m)
  PROVE  /\ Edged /\ reg'.en = reg.en /\ reg'.irq = reg.irq /\ reg'.compare = m
         /\ reg'.expired => reg.expired \/ (reg.en /\ elapsed >= reg.compare)
<1>1. reg' = [T!Clocked EXCEPT !.compare = m]
  BY DEF T!StoreCompare
<1>2. T!Clocked \in TimerRegs
  BY EdgeOfRegs
<1>3. /\ reg' \in TimerRegs /\ reg'.en = T!Clocked.en /\ reg'.irq = T!Clocked.irq /\ reg'.compare = m
      /\ reg'.count = T!Clocked.count /\ reg'.expired = T!Clocked.expired
  BY <1>1, <1>2 DEF TimerRegs
<1> QED BY <1>3, EdgeOfRegs DEF T!StoreCompare, T!Passes, Edged

LEMMA StoreCtrlIs ==
  ASSUME IntervalAssumption, TimerInv, NEW e \in BOOLEAN, NEW q \in BOOLEAN, T!StoreCtrl(e, q)
  PROVE  /\ Edged /\ reg'.en = e /\ reg'.irq = q /\ reg'.compare = reg.compare
         /\ reg'.expired => reg.expired \/ (reg.en /\ elapsed >= reg.compare)
<1>1. reg' = [T!Clocked EXCEPT !.en = e, !.irq = q]
  BY DEF T!StoreCtrl
<1>2. T!Clocked \in TimerRegs
  BY EdgeOfRegs
<1>3. /\ reg' \in TimerRegs /\ reg'.en = e /\ reg'.irq = q /\ reg'.compare = T!Clocked.compare
      /\ reg'.count = T!Clocked.count /\ reg'.expired = T!Clocked.expired
  BY <1>1, <1>2 DEF TimerRegs
<1> QED BY <1>3, EdgeOfRegs DEF T!StoreCtrl, T!Passes, Edged

LEMMA StoreStatusIs ==
  ASSUME IntervalAssumption, TimerInv, T!StoreStatus
  PROVE  /\ Edged /\ reg'.en = reg.en /\ reg'.irq = reg.irq /\ reg'.compare = reg.compare
         /\ ~reg'.expired
<1>1. reg' = [T!Clocked EXCEPT !.expired = FALSE]
  BY DEF T!StoreStatus
<1>2. T!Clocked \in TimerRegs
  BY EdgeOfRegs
<1>3. /\ reg' \in TimerRegs /\ reg'.en = T!Clocked.en /\ reg'.irq = T!Clocked.irq
      /\ reg'.compare = T!Clocked.compare /\ reg'.count = T!Clocked.count /\ reg'.expired = FALSE
  BY <1>1, <1>2 DEF TimerRegs
<1> QED BY <1>3, EdgeOfRegs DEF T!StoreStatus, T!Passes, Edged

LEMMA StoreCount0Is ==
  ASSUME IntervalAssumption, TimerInv, T!StoreCount0
  PROVE  /\ reg' \in TimerRegs /\ elapsed' = 0 /\ elapsed' \in 0 .. MaxCount /\ reg'.count = 0
         /\ reg'.en = reg.en /\ reg'.irq = reg.irq /\ reg'.compare = reg.compare
         /\ clean' \in BOOLEAN /\ (clean' <=> ~reg'.expired)
         /\ reg'.expired => reg.expired \/ (reg.en /\ elapsed >= reg.compare)
<1>1. reg' = [T!Clocked EXCEPT !.count = 0] /\ elapsed' = 0 /\ clean' = ~T!Clocked.expired
  BY DEF T!StoreCount0
<1>2. T!Clocked \in TimerRegs /\ 0 \in 0 .. MaxCount
  BY EdgeOfRegs DEF IntervalAssumption
<1>3. /\ reg' \in TimerRegs /\ reg'.en = T!Clocked.en /\ reg'.irq = T!Clocked.irq
      /\ reg'.compare = T!Clocked.compare /\ reg'.count = 0 /\ reg'.expired = T!Clocked.expired
  BY <1>1, <1>2 DEF TimerRegs
<1> QED BY <1>1, <1>2, <1>3, EdgeOfRegs

\* Between two stores to COUNT an expiry stays due.
LEMMA DueKeeps ==
  ASSUME IntervalAssumption, TimerInv, Edged, reg'.compare = reg.compare,
         want'.compare = want.compare, tAt # "count" \/ tAt' = "count",
         reg'.expired => reg.expired \/ (reg.en /\ elapsed >= reg.compare)
  PROVE  CountIsBehind' /\ CleanMeansDue'
<1>1. /\ elapsed \in Nat /\ elapsed' \in Nat /\ elapsed' >= elapsed /\ want.compare \in Nat
      /\ reg.compare = want.compare /\ clean' = clean
  BY DEF TimerInv, TimerTypes, Edged, CountIsBehind, IntervalAssumption
<1>2. CountIsBehind'
  BY <1>1 DEF CountIsBehind, Edged
<1>3. CASE tAt' = "count"
  BY <1>2, <1>3 DEF CleanMeansDue
<1>4. CASE tAt # "count"
  <2> SUFFICES ASSUME clean, reg'.expired PROVE elapsed' >= want'.compare
    BY <1>1, <1>2 DEF CleanMeansDue
  <2>1. elapsed >= want.compare
    BY <1>1, <1>4 DEF TimerInv, CleanMeansDue
  <2> QED BY <1>1, <2>1
<1> QED BY <1>3, <1>4

LEMMA ClearedKeeps ==
  ASSUME IntervalAssumption, TimerInv, T!StoreCount0, UNCHANGED want
  PROVE  CountIsBehind' /\ CleanMeansDue'
<1>1. reg.compare = want.compare
  BY DEF TimerInv, CountIsBehind
<1> QED BY <1>1, StoreCount0Is DEF CountIsBehind, CleanMeansDue

LEMMA ClockKeeps == ASSUME IntervalAssumption, TimerInv, T!Clock PROVE TimerInv'
<1>1. T!Edge /\ UNCHANGED <<tPort, tAt, tIrqAt, want, reports>>
  BY DEF T!Clock
<1>2. TimerTypes'
  BY <1>1, EdgeIs DEF TimerInv, TimerTypes, Edged
<1>3. CountIsBehind' /\ CleanMeansDue'
  BY <1>1, EdgeIs, DueKeeps
<1>4. IrqWhileWaiting'
  BY <1>1, EdgeIs DEF TimerInv, IrqWhileWaiting
<1>5. StoppedIsClear'
  BY <1>1, EdgeIs DEF TimerInv, StoppedIsClear, Edged
<1> QED BY <1>2, <1>3, <1>4, <1>5 DEF TimerInv

LEMMA ZephyrInitKeeps == ASSUME IntervalAssumption, TimerInv, T!ZephyrInit PROVE TimerInv'
<1>1. tPort = "zephyr" /\ UNCHANGED <<tPort, tIrqAt, want, reports>> /\ tIrqAt = "no"
  BY DEF T!ZephyrInit, T!From
<1>2. CASE T!From("init", "clear") /\ T!StoreCtrl(FALSE, FALSE)
  <2>1. tAt = "init" /\ tAt' = "clear"
    BY <1>2 DEF T!From
  <2>2. /\ Edged /\ ~reg'.irq /\ reg'.compare = reg.compare
        /\ reg'.expired => reg.expired \/ (reg.en /\ elapsed >= reg.compare)
    BY <1>2, StoreCtrlIs
  <2>3. TimerTypes'
    BY <1>1, <2>1, <2>2 DEF TimerInv, TimerTypes, Edged, TimerSteps
  <2>4. CountIsBehind' /\ CleanMeansDue'
    BY <1>1, <2>1, <2>2, DueKeeps
  <2>5. IrqWhileWaiting'
    BY <1>1, <2>1, <2>2 DEF TimerInv, IrqWhileWaiting
  <2>6. StoppedIsClear'
    BY <1>1, <2>1, <2>2 DEF TimerInv, StoppedIsClear
  <2> QED BY <2>3, <2>4, <2>5, <2>6 DEF TimerInv
<1>3. CASE T!From("clear", "idle") /\ T!StoreStatus
  <2>1. tAt = "clear" /\ tAt' = "idle"
    BY <1>3 DEF T!From
  <2>2. Edged /\ reg'.irq = reg.irq /\ reg'.compare = reg.compare /\ ~reg'.expired
    BY <1>3, StoreStatusIs
  <2>3. TimerTypes'
    BY <1>1, <2>1, <2>2 DEF TimerInv, TimerTypes, Edged, TimerSteps
  <2>4. CountIsBehind' /\ CleanMeansDue'
    BY <1>1, <2>1, <2>2, DueKeeps
  <2>5. IrqWhileWaiting'
    BY <1>1, <2>1, <2>2 DEF TimerInv, IrqWhileWaiting
  <2>6. StoppedIsClear'
    BY <1>1, <2>1, <2>2 DEF TimerInv, StoppedIsClear
  <2> QED BY <2>3, <2>4, <2>5, <2>6 DEF TimerInv
<1> QED BY <1>2, <1>3 DEF T!ZephyrInit

LEMMA ResetKeeps == ASSUME IntervalAssumption, TimerInv, T!Reset PROVE TimerInv'
<1>1. tAt = "init" /\ tAt' = "idle" /\ tIrqAt = "no" /\ T!Edge
        /\ UNCHANGED <<tPort, tIrqAt, want, reports>>
  BY DEF T!Reset, T!From
<1>2. TimerTypes'
  BY <1>1, EdgeIs DEF TimerInv, TimerTypes, Edged, TimerSteps
<1>3. CountIsBehind' /\ CleanMeansDue'
  BY <1>1, EdgeIs, DueKeeps
<1>4. IrqWhileWaiting'
  BY <1>1, EdgeIs DEF TimerInv, IrqWhileWaiting
<1>5. StoppedIsClear'
  BY <1>1, EdgeIs DEF TimerInv, StoppedIsClear, Edged
<1> QED BY <1>2, <1>3, <1>4, <1>5 DEF TimerInv

LEMMA TimerStartKeeps == ASSUME IntervalAssumption, TimerInv, T!Start PROVE TimerInv'
<1>1. tAt = "idle" /\ tAt' = "count" /\ tIrqAt = "no" /\ UNCHANGED <<tPort, tIrqAt, reports>>
  BY DEF T!Start, T!From
<1>2. PICK n \in Intervals, irq \in BOOLEAN : want' = [compare |-> n, irq |-> irq] /\ T!StoreCompare(n)
  BY DEF T!Start
<1>3. n \in 0 .. MaxCount /\ want'.compare = n /\ want' \in [compare : 0 .. MaxCount, irq : BOOLEAN]
  BY <1>2 DEF IntervalAssumption
<1>4. /\ Edged /\ reg'.en = reg.en /\ reg'.irq = reg.irq /\ reg'.compare = n
      /\ reg'.expired => reg.expired \/ (reg.en /\ elapsed >= reg.compare)
  BY <1>2, <1>3, StoreCompareIs
<1>5. TimerTypes'
  BY <1>1, <1>3, <1>4 DEF TimerInv, TimerTypes, Edged, TimerSteps
<1>6. CountIsBehind' /\ CleanMeansDue'
  BY <1>1, <1>3, <1>4 DEF CountIsBehind, CleanMeansDue, Edged
<1>7. IrqWhileWaiting'
  BY <1>1, <1>4 DEF TimerInv, IrqWhileWaiting
<1>8. StoppedIsClear'
  BY <1>1, <1>4 DEF TimerInv, StoppedIsClear, Edged
<1> QED BY <1>5, <1>6, <1>7, <1>8 DEF TimerInv

LEMMA StartCountKeeps == ASSUME IntervalAssumption, TimerInv, T!StartCount PROVE TimerInv'
<1>1. /\ tAt = "count" /\ tAt' = "ctrl" /\ tIrqAt = "no" /\ T!StoreCount0
      /\ UNCHANGED <<tPort, tIrqAt, want, reports>>
  BY DEF T!StartCount, T!From
<1>2. TimerTypes'
  BY <1>1, StoreCount0Is DEF TimerInv, TimerTypes, TimerSteps
<1>3. CountIsBehind' /\ CleanMeansDue'
  BY <1>1, ClearedKeeps
<1>4. IrqWhileWaiting'
  BY <1>1, StoreCount0Is DEF TimerInv, IrqWhileWaiting
<1>5. StoppedIsClear'
  BY <1>1, StoreCount0Is DEF TimerInv, StoppedIsClear
<1> QED BY <1>2, <1>3, <1>4, <1>5 DEF TimerInv

LEMMA StartCtrlKeeps == ASSUME IntervalAssumption, TimerInv, T!StartCtrl PROVE TimerInv'
<1>1. /\ tAt = "ctrl" /\ tAt' = "waiting" /\ tIrqAt = "no" /\ T!StoreCtrl(TRUE, want.irq)
      /\ UNCHANGED <<tPort, tIrqAt, want, reports>> /\ want.irq \in BOOLEAN
  BY DEF T!StartCtrl, T!From, TimerInv, TimerTypes
<1>2. /\ Edged /\ reg'.irq = want.irq /\ reg'.compare = reg.compare
      /\ reg'.expired => reg.expired \/ (reg.en /\ elapsed >= reg.compare)
  BY <1>1, StoreCtrlIs
<1>3. TimerTypes'
  BY <1>1, <1>2 DEF TimerInv, TimerTypes, Edged, TimerSteps
<1>4. CountIsBehind' /\ CleanMeansDue'
  BY <1>1, <1>2, DueKeeps
<1>5. IrqWhileWaiting'
  BY <1>1, <1>2 DEF TimerInv, IrqWhileWaiting
<1>6. StoppedIsClear'
  BY <1>1, <1>2 DEF TimerInv, StoppedIsClear, Edged
<1> QED BY <1>3, <1>4, <1>5, <1>6 DEF TimerInv

LEMMA PollExpiredKeeps == ASSUME IntervalAssumption, TimerInv, T!PollExpired PROVE TimerInv'
<1>1. /\ tAt = "waiting" /\ tAt' = (IF tPort = "library" THEN "idle" ELSE "stop") /\ tIrqAt = "no"
           /\ T!Edge
      /\ UNCHANGED <<tPort, tIrqAt, want>> /\ ~want.irq /\ tPort # "zephyr" /\ reports' = 1 - reports
  BY DEF T!PollExpired, T!From, T!Report
<1>2. TimerTypes'
  BY <1>1, EdgeIs DEF TimerInv, TimerTypes, Edged, TimerSteps
<1>3. CountIsBehind' /\ CleanMeansDue'
  BY <1>1, EdgeIs, DueKeeps
<1>4. ~reg.irq
  BY <1>1 DEF TimerInv, IrqWhileWaiting
<1>5. IrqWhileWaiting'
  BY <1>1, <1>4, EdgeIs DEF IrqWhileWaiting
<1>6. StoppedIsClear'
  BY <1>1, EdgeIs DEF TimerInv, StoppedIsClear, Edged
<1> QED BY <1>2, <1>3, <1>5, <1>6 DEF TimerInv

LEMMA StopTimerKeeps == ASSUME IntervalAssumption, TimerInv, T!StopTimer PROVE TimerInv'
<1>1. tPort = "freertos" /\ UNCHANGED <<tPort, want, tIrqAt, reports>> /\ tIrqAt = "no"
  BY DEF T!StopTimer, T!From
<1>2. CASE T!From("stop", "status") /\ T!StopCtrl
  <2>1. tAt = "stop" /\ tAt' = "status"
    BY <1>2 DEF T!From
  <2>2. /\ Edged /\ ~reg'.en /\ ~reg'.irq /\ reg'.compare = reg.compare
        /\ reg'.expired => reg.expired \/ (reg.en /\ elapsed >= reg.compare)
    BY <1>2, StoreCtrlIs DEF T!StopCtrl
  <2>3. TimerTypes'
    BY <1>1, <2>1, <2>2 DEF TimerInv, TimerTypes, Edged, TimerSteps
  <2>4. CountIsBehind' /\ CleanMeansDue'
    BY <1>1, <2>1, <2>2, DueKeeps
  <2>5. IrqWhileWaiting'
    BY <1>1, <2>1, <2>2 DEF TimerInv, IrqWhileWaiting
  <2>6. StoppedIsClear'
    BY <1>1, <2>1, <2>2 DEF TimerInv, StoppedIsClear, Edged
  <2> QED BY <2>3, <2>4, <2>5, <2>6 DEF TimerInv
<1>3. CASE T!From("status", "idle") /\ T!StopStatus
  <2>1. tAt = "status" /\ tAt' = "idle"
    BY <1>3 DEF T!From
  <2>2. /\ Edged /\ reg'.en = reg.en /\ reg'.irq = reg.irq /\ reg'.compare = reg.compare
        /\ ~reg'.expired
    BY <1>3, StoreStatusIs DEF T!StopStatus
  <2>3. TimerTypes'
    BY <1>1, <2>1, <2>2 DEF TimerInv, TimerTypes, Edged, TimerSteps
  <2>4. CountIsBehind' /\ CleanMeansDue'
    BY <1>1, <2>1, <2>2, DueKeeps
  <2>5. IrqWhileWaiting'
    BY <1>1, <2>1, <2>2 DEF TimerInv, IrqWhileWaiting
  <2>6. StoppedIsClear'
    BY <1>1, <2>1, <2>2 DEF TimerInv, StoppedIsClear, Edged
  <2> QED BY <2>3, <2>4, <2>5, <2>6 DEF TimerInv
<1> QED BY <1>2, <1>3 DEF T!StopTimer

LEMMA CounterStopKeeps == ASSUME IntervalAssumption, TimerInv, T!CounterStop PROVE TimerInv'
<1>1. /\ tPort = "zephyr" /\ tAt = "waiting" /\ tAt' = "idle" /\ tIrqAt = "no"
      /\ UNCHANGED <<tPort, tIrqAt, want, reports>>
  BY DEF T!CounterStop, T!From
<1>2. /\ Edged /\ ~reg'.irq /\ reg'.compare = reg.compare
      /\ reg'.expired => reg.expired \/ (reg.en /\ elapsed >= reg.compare)
  BY StoreCtrlIs DEF T!CounterStop, T!StopCtrl
<1>3. TimerTypes'
  BY <1>1, <1>2 DEF TimerInv, TimerTypes, Edged, TimerSteps
<1>4. CountIsBehind' /\ CleanMeansDue'
  BY <1>1, <1>2, DueKeeps
<1>5. IrqWhileWaiting'
  BY <1>1, <1>2 DEF TimerInv, IrqWhileWaiting
<1>6. StoppedIsClear'
  BY <1>1, <1>2 DEF TimerInv, StoppedIsClear
<1> QED BY <1>3, <1>4, <1>5, <1>6 DEF TimerInv

LEMMA CounterStartKeeps == ASSUME IntervalAssumption, TimerInv, T!CounterStart PROVE TimerInv'
<1>1. /\ tPort = "zephyr" /\ tAt = "idle" /\ tAt' = "waiting" /\ tIrqAt = "no"
      /\ UNCHANGED <<tPort, tIrqAt, reports>> /\ T!StoreCtrl(TRUE, reg.irq)
  BY DEF T!CounterStart, T!From
<1>2. /\ want' \in [compare : 0 .. MaxCount, irq : BOOLEAN] /\ want'.compare = want.compare
  BY DEF T!CounterStart, TimerInv, TimerTypes
<1>3. reg.irq \in BOOLEAN /\ ~reg.irq
  BY <1>1 DEF TimerInv, TimerTypes, TimerRegs, IrqWhileWaiting
<1>4. /\ Edged /\ reg'.irq = reg.irq /\ reg'.compare = reg.compare
      /\ reg'.expired => reg.expired \/ (reg.en /\ elapsed >= reg.compare)
  BY <1>1, <1>3, StoreCtrlIs
<1>5. TimerTypes'
  BY <1>1, <1>2, <1>4 DEF TimerInv, TimerTypes, Edged, TimerSteps
<1>6. CountIsBehind' /\ CleanMeansDue'
  BY <1>1, <1>2, <1>4, DueKeeps
<1>7. IrqWhileWaiting'
  BY <1>1, <1>3, <1>4 DEF TimerInv, IrqWhileWaiting
<1>8. StoppedIsClear'
  BY <1>1, <1>3, <1>4 DEF TimerInv, StoppedIsClear
<1> QED BY <1>5, <1>6, <1>7, <1>8 DEF TimerInv

LEMMA TimerIrqEnterKeeps == ASSUME IntervalAssumption, TimerInv, T!IrqEnter PROVE TimerInv'
<1>1. /\ tIrqAt = "no" /\ tIrqAt' = "first" /\ T!Edge /\ UNCHANGED <<tPort, want, tAt>>
      /\ reports' = 1 - reports /\ reg.irq
  BY DEF T!IrqEnter, T!Handles, T!Report, T!Line
<1>2. tAt = "waiting"
  BY <1>1 DEF TimerInv, IrqWhileWaiting
<1>3. TimerTypes'
  <2>1. reports' \in {0, 1} /\ tIrqAt' \in HandlerSteps
    BY <1>1 DEF TimerInv, TimerTypes, HandlerSteps
  <2>2. Edged
    BY <1>1, EdgeIs
  <2> QED BY <1>1, <2>1, <2>2 DEF TimerInv, TimerTypes, Edged
<1>4. CountIsBehind' /\ CleanMeansDue'
  BY <1>1, EdgeIs, DueKeeps
<1>5. IrqWhileWaiting'
  BY <1>1, <1>2, EdgeIs DEF TimerInv, IrqWhileWaiting
<1>6. StoppedIsClear'
  BY <1>1, <1>2, EdgeIs DEF TimerInv, StoppedIsClear, Edged
<1> QED BY <1>3, <1>4, <1>5, <1>6 DEF TimerInv

LEMMA FreertosIsrKeeps == ASSUME IntervalAssumption, TimerInv, T!FreertosIsr PROVE TimerInv'
<1>1. tPort = "freertos" /\ UNCHANGED <<tPort, want, reports>>
  BY DEF T!FreertosIsr, T!Handles
<1>2. tIrqAt # "no" => tAt = "waiting"
  BY DEF TimerInv, IrqWhileWaiting
<1>3. CASE T!Handles("first", "second") /\ T!StopCtrl /\ UNCHANGED tAt
  <2>1. tIrqAt = "first" /\ tIrqAt' = "second" /\ tAt = "waiting" /\ tAt' = "waiting"
    BY <1>2, <1>3 DEF T!Handles
  <2>2. /\ Edged /\ ~reg'.en /\ ~reg'.irq /\ reg'.compare = reg.compare
        /\ reg'.expired => reg.expired \/ (reg.en /\ elapsed >= reg.compare)
    BY <1>3, StoreCtrlIs DEF T!StopCtrl
  <2>3. TimerTypes'
    BY <1>1, <2>1, <2>2 DEF TimerInv, TimerTypes, Edged, HandlerSteps
  <2>4. CountIsBehind' /\ CleanMeansDue'
    BY <1>1, <2>1, <2>2, DueKeeps
  <2>5. IrqWhileWaiting'
    BY <1>1, <2>1, <2>2 DEF TimerInv, IrqWhileWaiting
  <2>6. StoppedIsClear'
    BY <1>1, <2>1, <2>2 DEF TimerInv, StoppedIsClear, Edged
  <2> QED BY <2>3, <2>4, <2>5, <2>6 DEF TimerInv
<1>4. CASE T!Handles("second", "notify") /\ T!StopStatus /\ UNCHANGED tAt
  <2>1. tIrqAt = "second" /\ tIrqAt' = "notify" /\ tAt = "waiting" /\ tAt' = "waiting"
    BY <1>2, <1>4 DEF T!Handles
  <2>2. /\ Edged /\ reg'.en = reg.en /\ reg'.irq = reg.irq /\ reg'.compare = reg.compare
        /\ ~reg'.expired
    BY <1>4, StoreStatusIs DEF T!StopStatus
  <2>3. TimerTypes'
    BY <1>1, <2>1, <2>2 DEF TimerInv, TimerTypes, Edged, HandlerSteps
  <2>4. CountIsBehind' /\ CleanMeansDue'
    BY <1>1, <2>1, <2>2, DueKeeps
  <2>5. IrqWhileWaiting'
    BY <1>1, <2>1, <2>2 DEF TimerInv, IrqWhileWaiting
  <2>6. StoppedIsClear'
    BY <1>1, <2>1, <2>2 DEF TimerInv, StoppedIsClear, Edged
  <2> QED BY <2>3, <2>4, <2>5, <2>6 DEF TimerInv
<1>5. CASE T!Handles("notify", "no") /\ T!Edge /\ tAt' = "idle"
  <2>1. tIrqAt = "notify" /\ tIrqAt' = "no" /\ tAt = "waiting" /\ tAt' = "idle"
    BY <1>2, <1>5 DEF T!Handles
  <2>2. ~reg.irq
    BY <1>1, <2>1 DEF TimerInv, StoppedIsClear
  <2>3. TimerTypes'
    BY <1>1, <1>5, <2>1, EdgeIs DEF TimerInv, TimerTypes, Edged, HandlerSteps, TimerSteps
  <2>4. CountIsBehind' /\ CleanMeansDue'
    BY <1>1, <1>5, <2>1, EdgeIs, DueKeeps
  <2>5. IrqWhileWaiting'
    BY <1>1, <1>5, <2>1, <2>2, EdgeIs DEF TimerInv, IrqWhileWaiting
  <2>6. StoppedIsClear'
    BY <1>1, <1>5, <2>1, <2>2, EdgeIs DEF TimerInv, StoppedIsClear, Edged
  <2> QED BY <2>3, <2>4, <2>5, <2>6 DEF TimerInv
<1> QED BY <1>3, <1>4, <1>5 DEF T!FreertosIsr

LEMMA ZephyrIsrKeeps == ASSUME IntervalAssumption, TimerInv, T!ZephyrIsr PROVE TimerInv'
<1>1. tPort = "zephyr" /\ UNCHANGED <<tPort, want, reports, tAt>>
  BY DEF T!ZephyrIsr, T!Handles
<1>2. tIrqAt # "no" => tAt = "waiting"
  BY DEF TimerInv, IrqWhileWaiting
<1>3. CASE T!Handles("first", "second") /\ T!StoreStatus
  <2>1. tIrqAt = "first" /\ tIrqAt' = "second" /\ tAt = "waiting"
    BY <1>2, <1>3 DEF T!Handles
  <2>2. /\ Edged /\ reg'.irq = reg.irq /\ reg'.compare = reg.compare /\ ~reg'.expired
    BY <1>3, StoreStatusIs
  <2>3. TimerTypes'
    BY <1>1, <2>1, <2>2 DEF TimerInv, TimerTypes, Edged, HandlerSteps
  <2>4. CountIsBehind' /\ CleanMeansDue'
    BY <1>1, <2>1, <2>2, DueKeeps
  <2>5. IrqWhileWaiting'
    BY <1>1, <2>1, <2>2 DEF TimerInv, IrqWhileWaiting
  <2>6. StoppedIsClear'
    BY <1>1, <2>1, <2>2 DEF TimerInv, StoppedIsClear
  <2> QED BY <2>3, <2>4, <2>5, <2>6 DEF TimerInv
<1>4. CASE T!Handles("second", "callback") /\ T!StoreCount0
  <2>1. tIrqAt = "second" /\ tIrqAt' = "callback" /\ tAt = "waiting"
    BY <1>2, <1>4 DEF T!Handles
  <2>2. TimerTypes'
    BY <1>1, <1>4, <2>1, StoreCount0Is DEF TimerInv, TimerTypes, HandlerSteps
  <2>3. CountIsBehind' /\ CleanMeansDue'
    BY <1>1, <1>4, ClearedKeeps
  <2>4. IrqWhileWaiting'
    BY <1>1, <1>4, <2>1, StoreCount0Is DEF TimerInv, IrqWhileWaiting
  <2>5. StoppedIsClear'
    BY <1>1, <1>4, <2>1, StoreCount0Is DEF TimerInv, StoppedIsClear
  <2> QED BY <2>2, <2>3, <2>4, <2>5 DEF TimerInv
<1>5. CASE T!Handles("callback", "no") /\ T!Edge
  <2>1. tIrqAt = "callback" /\ tIrqAt' = "no" /\ tAt = "waiting"
    BY <1>2, <1>5 DEF T!Handles
  <2>2. TimerTypes'
    BY <1>1, <1>5, <2>1, EdgeIs DEF TimerInv, TimerTypes, Edged, HandlerSteps
  <2>3. CountIsBehind' /\ CleanMeansDue'
    BY <1>1, <1>5, <2>1, EdgeIs, DueKeeps
  <2>4. IrqWhileWaiting'
    BY <1>1, <1>5, <2>1, EdgeIs DEF TimerInv, IrqWhileWaiting
  <2>5. StoppedIsClear'
    BY <1>1, <1>5, <2>1, EdgeIs DEF TimerInv, StoppedIsClear
  <2> QED BY <2>2, <2>3, <2>4, <2>5 DEF TimerInv
<1> QED BY <1>3, <1>4, <1>5 DEF T!ZephyrIsr

LEMMA TimerStep == ASSUME IntervalAssumption, TimerInv, [T!Next]_(T!vars) PROVE TimerInv'
<1>1. CASE UNCHANGED T!vars
  BY <1>1 DEF T!vars, TimerInv, TimerTypes, CountIsBehind, CleanMeansDue, IrqWhileWaiting,
     StoppedIsClear
<1> QED BY <1>1, ClockKeeps, ZephyrInitKeeps, ResetKeeps, TimerStartKeeps, StartCountKeeps,
           StartCtrlKeeps, PollExpiredKeeps, StopTimerKeeps, CounterStopKeeps, CounterStartKeeps,
           TimerIrqEnterKeeps, FreertosIsrKeeps, ZephyrIsrKeeps DEF T!Next, T!Call, T!Isr

LEMMA ReportIsDue ==
  ASSUME IntervalAssumption, TimerInv, [T!Next]_(T!vars), T!Early PROVE tPort # "freertos" /\ ~clean
<1>1. reports' # reports
  BY DEF T!Early
<1>2. T!PollExpired \/ T!IrqEnter
  BY <1>1 DEF T!Next, T!vars, T!Clock, T!Start, T!CounterStop, T!CounterStart, T!Call, T!Isr,
     T!ZephyrInit, T!Reset, T!StartCount, T!StartCtrl, T!StopTimer, T!FreertosIsr, T!ZephyrIsr
<1>3. tAt = "waiting" /\ reg.expired
  BY <1>2 DEF T!PollExpired, T!From, T!IrqEnter, T!Line, TimerInv, IrqWhileWaiting
<1>4. elapsed \in Nat /\ want.compare \in Nat /\ elapsed < want.compare
  BY DEF TimerInv, TimerTypes, IntervalAssumption, T!Early
<1>5. ~clean
  BY <1>3, <1>4 DEF TimerInv, CleanMeansDue
<1> QED BY <1>5 DEF TimerInv, StoppedIsClear

\* No driver reports the end of an interval before as many edges have passed,
\* unless STATUS was not clear at its start.
THEOREM TimerAlways == ASSUME IntervalAssumption PROVE T!Spec => T!ExpiryIsDue
<1>1. T!Init => TimerInv
  BY TimerStart
<1>2. TimerInv /\ [T!Next]_(T!vars) => TimerInv'
  BY TimerStep
<1>3. TimerInv /\ [T!Next]_(T!vars) => [T!Early => tPort # "freertos" /\ ~clean]_(T!vars)
  BY ReportIsDue
<1> QED BY <1>1, <1>2, <1>3, PTL DEF T!Spec, T!ExpiryIsDue

-----------------------------------------------------------------------------
(* The watchdog, for any width of its registers and every time-out of at     *)
(* least two cycles that they can hold: without that bound the product of    *)
(* the Zephyr driver wraps and the reset comes early.                        *)

WatchRegs == [en : BOOLEAN, irq : BOOLEAN, windowed : BOOLEAN, timeout : Nat, window : Nat, pre : Nat,
              count : Nat, pend : BOOLEAN, locked : BOOLEAN]
WatchDriver == [installed : BOOLEAN, running : BOOLEAN, callback : BOOLEAN]
Asked == [time : 0 .. Longest, pre : Nat, window : Nat]
WatchTypes ==
  /\ wReg \in WatchRegs /\ drv \in WatchDriver /\ ask \in Asked
  /\ since \in 0 .. Longest /\ warned \in BOOLEAN /\ steady \in BOOLEAN /\ fired \in BOOLEAN
\* The warning threshold as the hardware counts it.
AskedPre == IF wPort = "zephyr" THEN W!Cycles(ask.pre) ELSE ask.pre
PreStored == wAt = "idle" \/ (wAt = "window" /\ wPort = "library")
\* The registers hold what was asked for: while they can be written, and as
\* long as a running count has seen no change.
Programmed ==
  /\ ~wReg.locked \/ (steady /\ wReg.en) => wReg.timeout = ask.time
  /\ (~wReg.locked /\ PreStored) \/ (steady /\ wReg.en) => wReg.pre = AskedPre
\* What Zephyr's driver knows of the registers.
ZephyrKeeps ==
  wPort = "zephyr" =>
    /\ ~wReg.locked /\ wReg.en = drv.running /\ (wReg.en => steady)
    /\ drv.running => drv.installed /\ wAt = "idle" /\ wReg.irq = drv.callback
    /\ drv.installed /\ drv.callback => 0 < AskedPre /\ AskedPre < ask.time
    /\ wAt \in {"idle", "zpre"}
\* The register still lacks what has not passed of the time-out, and the
\* warning threshold lies ahead until the warning was raised.
CountsDown ==
  steady /\ wReg.en =>
    /\ since >= ask.time \/ wReg.count + since >= ask.time
    /\ W!AsksWarning => warned \/ wReg.count > wReg.pre
\* The inductive invariant.
WatchInv == WatchTypes /\ Programmed /\ ZephyrKeeps /\ CountsDown

LEMMA Products ==
  ASSUME NEW a \in Nat, NEW b \in Nat, NEW c \in Nat \ {0}, a < b
  PROVE  a * c \in Nat /\ a * c < b * c /\ (a > 0 => a * c > 0) /\ b <= b * c
OBVIOUS

LEMMA CyclesIs ==
  ASSUME WatchdogAssumption, NEW n \in Nat, n * PerMs < Width PROVE W!Cycles(n) = n * PerMs
<1>1. n * PerMs \in Nat /\ Width \in Nat /\ Width > 0
  BY DEF WatchdogAssumption
<1> DEFINE m == n * PerMs
<1>2. m \in Nat /\ m < Width
  BY <1>1
<1> HIDE DEF m
<1>3. m % Width = m
  BY <1>1, <1>2
<1> QED BY <1>3 DEF m, W!Cycles

LEMMA CyclesTyped == ASSUME WatchdogAssumption, NEW n \in Nat PROVE W!Cycles(n) \in Nat
<1> DEFINE m == n * PerMs
<1>1. m \in Nat /\ Width \in Nat /\ Width > 0
  BY DEF WatchdogAssumption
<1> HIDE DEF m
<1>2. m % Width \in Nat
  BY <1>1
<1> QED BY <1>2 DEF W!Cycles, m

LEMMA WatchStart == ASSUME WatchdogAssumption, W!Init PROVE WatchInv
<1>1. Width - 1 \in Nat /\ Width - 1 \in 0 .. Longest /\ 0 \in 0 .. Longest /\ 0 * PerMs = 0
        /\ 0 * PerMs < Width
  BY DEF WatchdogAssumption
<1>2. W!Cycles(0) = 0
  BY <1>1, CyclesIs
<1>3. WatchTypes
  BY <1>1 DEF W!Init, WatchTypes, WatchRegs, WatchDriver, Asked
<1>4. Programmed
  BY <1>2 DEF W!Init, Programmed, AskedPre
<1>5. ZephyrKeeps
  BY DEF W!Init, ZephyrKeeps
<1>6. CountsDown
  BY DEF W!Init, CountsDown
<1> QED BY <1>3, <1>4, <1>5, <1>6 DEF WatchInv

LEMMA ClockedIs ==
  ASSUME WatchInv
  PROVE  /\ W!Clocked \in WatchRegs /\ W!Hit \in BOOLEAN
         /\ W!Clocked.en = wReg.en /\ W!Clocked.irq = wReg.irq /\ W!Clocked.windowed = wReg.windowed
         /\ W!Clocked.timeout = wReg.timeout /\ W!Clocked.window = wReg.window
              /\ W!Clocked.pre = wReg.pre
         /\ W!Clocked.count = (IF wReg.en /\ wReg.count > 0 THEN wReg.count - 1 ELSE wReg.count)
         /\ W!Clocked.locked = wReg.locked
<1> DEFINE n == IF wReg.en /\ wReg.count > 0 THEN wReg.count - 1 ELSE wReg.count
           x == wReg.pend \/ W!Hit
<1>1. wReg \in WatchRegs
  BY DEF WatchInv, WatchTypes
<1>2. n \in Nat /\ x \in BOOLEAN /\ W!Hit \in BOOLEAN
  BY <1>1 DEF WatchRegs, W!Hit
<1>3. W!Clocked = [wReg EXCEPT !.count = n, !.pend = x]
  BY DEF W!Clocked
<1> HIDE DEF n, x
<1>4. /\ W!Clocked \in WatchRegs
      /\ W!Clocked.en = wReg.en /\ W!Clocked.irq = wReg.irq /\ W!Clocked.windowed = wReg.windowed
      /\ W!Clocked.timeout = wReg.timeout /\ W!Clocked.window = wReg.window /\ W!Clocked.pre = wReg.pre
      /\ W!Clocked.count = n /\ W!Clocked.locked = wReg.locked
  BY <1>1, <1>2, <1>3 DEF WatchRegs
<1> QED BY <1>2, <1>4 DEF n

LEMMA PassesIs ==
  ASSUME WatchdogAssumption, WatchInv, W!Passes
  PROVE  since' \in 0 .. Longest /\ warned' \in BOOLEAN
BY ClockedIs DEF WatchInv, WatchTypes, W!Passes, W!AtMost, WatchdogAssumption

\* A count that runs on: one edge nearer, one edge more.
LEMMA CountGoesOn ==
  ASSUME WatchdogAssumption, WatchInv, W!Passes,
         steady' /\ wReg'.en => /\ steady /\ wReg.en /\ wReg'.irq = wReg.irq /\ wReg'.pre = wReg.pre
                                /\ wReg'.count = W!Clocked.count
                                /\ UNCHANGED <<wPort, ask>> /\ drv'.callback = drv.callback
  PROVE  CountsDown'
<1> SUFFICES ASSUME steady', wReg'.en
             PROVE  /\ since' >= ask'.time \/ wReg'.count + since' >= ask'.time
                    /\ W!AsksWarning' => warned' \/ wReg'.count > wReg'.pre
  BY DEF CountsDown
<1>1. /\ steady /\ wReg.en /\ wReg'.irq = wReg.irq /\ wReg'.pre = wReg.pre
           /\ wReg'.count = W!Clocked.count
      /\ UNCHANGED <<wPort, ask>> /\ drv'.callback = drv.callback
  OBVIOUS
<1>2. /\ wReg.count \in Nat /\ wReg.pre \in Nat /\ since \in 0 .. Longest /\ ask.time \in 0 .. Longest
           /\ Longest \in Nat
      /\ warned \in BOOLEAN /\ W!Hit \in BOOLEAN
  BY ClockedIs DEF WatchInv, WatchTypes, WatchRegs, Asked, WatchdogAssumption
<1>3. wReg'.count = IF wReg.count > 0 THEN wReg.count - 1 ELSE wReg.count
  BY <1>1, ClockedIs
<1>4. since' = (IF since + 1 < Longest THEN since + 1 ELSE Longest) /\ warned' = (warned \/ W!Hit)
  BY DEF W!Passes, W!AtMost
<1>5. since >= ask.time \/ wReg.count + since >= ask.time
  BY <1>1 DEF WatchInv, CountsDown
<1>6. since' >= ask'.time \/ wReg'.count + since' >= ask'.time
  BY <1>1, <1>2, <1>3, <1>4, <1>5
<1>7. W!AsksWarning' <=> W!AsksWarning
  BY <1>1 DEF W!AsksWarning
<1>8. ASSUME W!AsksWarning PROVE warned' \/ wReg'.count > wReg'.pre
  <2>1. warned \/ wReg.count > wReg.pre
    BY <1>1, <1>8 DEF WatchInv, CountsDown
  <2>2. wReg.timeout = ask.time /\ wReg.pre = AskedPre
    BY <1>1 DEF WatchInv, Programmed
  <2>3. wReg.irq /\ wReg.pre # 0 /\ wReg.pre < wReg.timeout
    <3>1. CASE wPort = "zephyr"
      <4>1. drv.running /\ drv.installed /\ drv.callback /\ wReg.irq /\ 0 < AskedPre
              /\ AskedPre < ask.time
        BY <1>1, <1>8, <3>1 DEF WatchInv, ZephyrKeeps, W!AsksWarning
      <4> QED BY <1>2, <2>2, <4>1
    <3>2. CASE wPort # "zephyr"
      BY <1>8, <2>2, <3>2 DEF W!AsksWarning, AskedPre
    <3> QED BY <3>1, <3>2
  <2>4. CASE wReg.count = wReg.pre + 1
    <3>1. W!Hit
      BY <1>1, <2>3, <2>4 DEF W!Hit
    <3> QED BY <1>4, <3>1
  <2>5. CASE wReg.count # wReg.pre + 1
    BY <1>1, <1>2, <1>3, <1>4, <2>1, <2>5
  <2> QED BY <2>4, <2>5
<1> QED BY <1>6, <1>7, <1>8

\* A count that is loaded while the registers hold what was asked for.
LEMMA CountLoaded ==
  ASSUME WatchdogAssumption, WatchInv, W!Loaded, wReg'.count = wReg.timeout, wReg'.pre = wReg.pre,
         wReg.timeout = ask.time, wReg.pre = AskedPre, UNCHANGED <<wPort, ask>>,
         wPort = "zephyr" => drv.installed /\ drv'.callback = drv.callback
  PROVE  CountsDown' /\ since' \in 0 .. Longest /\ warned' \in BOOLEAN
<1>1. since' = 0 /\ warned' = FALSE /\ Longest \in Nat /\ wReg.timeout \in Nat /\ wReg.pre \in Nat
  BY DEF W!Loaded, WatchdogAssumption, WatchInv, WatchTypes, WatchRegs
<1>2. ASSUME W!AsksWarning' PROVE wReg.timeout > wReg.pre
  <2>1. CASE wPort = "zephyr"
    <3>1. drv.installed /\ drv.callback
      BY <1>2, <2>1 DEF W!AsksWarning
    <3>2. AskedPre < ask.time
      BY <2>1, <3>1 DEF WatchInv, ZephyrKeeps
    <3> QED BY <1>1, <3>2
  <2>2. CASE wPort # "zephyr"
    <3>1. ask.pre < ask.time /\ AskedPre = ask.pre
      BY <1>2, <2>2 DEF W!AsksWarning, AskedPre
    <3> QED BY <1>1, <3>1
  <2> QED BY <2>1, <2>2
<1>3. CountsDown'
  BY <1>1, <1>2 DEF CountsDown
<1>4. 0 \in 0 .. Longest /\ FALSE \in BOOLEAN
  BY <1>1
<1> QED BY <1>1, <1>3, <1>4

\* What a step that leaves the configuration alone keeps.
LEMMA RestKeeps ==
  ASSUME WatchdogAssumption, WatchInv,
         wReg'.timeout = wReg.timeout, wReg'.pre = wReg.pre, wReg'.irq = wReg.irq, wReg'.en = wReg.en,
         wReg.locked => wReg'.locked, wPort = "zephyr" => wReg'.locked = wReg.locked,
         steady' => steady, steady /\ wReg.en => steady' \/ wPort # "zephyr",
         UNCHANGED <<wPort, drv, ask, wAt>>
  PROVE  Programmed' /\ ZephyrKeeps'
<1>1. AskedPre' = AskedPre /\ PreStored' = PreStored
  BY DEF AskedPre, PreStored, W!Cycles
<1>2. Programmed'
  BY <1>1 DEF WatchInv, Programmed
<1>3. ZephyrKeeps'
  BY <1>1 DEF WatchInv, ZephyrKeeps
<1> QED BY <1>2, <1>3

\* A store to a configuration register.
LEMMA StoreConfigIs ==
  ASSUME WatchdogAssumption, WatchInv, NEW x \in WatchRegs, W!StoreConfig(x),
         x.en = wReg.en, x.irq = wReg.irq, x.locked = wReg.locked
  PROVE  /\ wReg' \in WatchRegs /\ since' \in 0 .. Longest /\ warned' \in BOOLEAN
         /\ steady' \in BOOLEAN /\ fired' \in BOOLEAN
         /\ wReg'.en = wReg.en /\ wReg'.irq = wReg.irq /\ wReg'.locked = wReg.locked
         /\ ~(steady' /\ wReg'.en) /\ CountsDown'
         /\ ~wReg.locked => wReg' = x
<1>1. W!Passes /\ wReg' = (IF wReg.locked THEN W!Clocked ELSE x) /\ steady' = (steady /\ ~wReg.en)
  BY DEF W!StoreConfig
<1>2. fired' \in BOOLEAN
  BY DEF W!StoreConfig, W!Edge, W!Expired, WatchInv, WatchTypes, WatchRegs
<1>3. wReg' \in WatchRegs /\ wReg'.en = wReg.en /\ wReg'.irq = wReg.irq /\ wReg'.locked = wReg.locked
  BY <1>1, ClockedIs
<1>4. steady' \in BOOLEAN /\ ~(steady' /\ wReg'.en)
  BY <1>1, <1>3 DEF WatchInv, WatchTypes, WatchRegs
<1>5. CountsDown'
  BY <1>4 DEF CountsDown
<1> QED BY <1>1, <1>2, <1>3, <1>4, <1>5, PassesIs

LEMMA FiredTyped == ASSUME WatchInv, W!Edge PROVE fired' \in BOOLEAN
BY DEF W!Edge, W!Expired, WatchInv, WatchTypes, WatchRegs

\* What every edge at which nothing is stored keeps.
LEMMA QuietKeeps ==
  ASSUME WatchdogAssumption, WatchInv, W!Edge, W!Passes, wReg' = W!Clocked, UNCHANGED <<wPort, drv,
           wAt, ask, steady>>
  PROVE  WatchInv'
<1>1. WatchTypes'
  BY ClockedIs, PassesIs, FiredTyped DEF WatchInv, WatchTypes
<1>2. Programmed' /\ ZephyrKeeps'
  BY ClockedIs, RestKeeps
<1>3. CountsDown'
  BY ClockedIs, CountGoesOn
<1> QED BY <1>1, <1>2, <1>3 DEF WatchInv

LEMMA WatchClockKeeps == ASSUME WatchdogAssumption, WatchInv, W!Clock PROVE WatchInv'
BY QuietKeeps DEF W!Clock, W!rest

LEMMA StoreStatusKeeps ==
  ASSUME WatchdogAssumption, WatchInv, W!StoreStatus, UNCHANGED <<wPort, drv, wAt, ask>> PROVE WatchInv'
<1>1. W!Edge /\ W!Passes /\ steady' = steady
  BY DEF W!StoreStatus
<1>2. CASE wReg.locked
  BY <1>1, <1>2, QuietKeeps DEF W!StoreStatus
<1>3. CASE ~wReg.locked
  <2>1. wReg' = [W!Clocked EXCEPT !.pend = W!Hit]
    BY <1>3 DEF W!StoreStatus
  <2>2. /\ wReg' \in WatchRegs /\ wReg'.en = W!Clocked.en /\ wReg'.irq = W!Clocked.irq
        /\ wReg'.timeout = W!Clocked.timeout /\ wReg'.pre = W!Clocked.pre
             /\ wReg'.count = W!Clocked.count
        /\ wReg'.locked = W!Clocked.locked
    BY <2>1, ClockedIs DEF WatchRegs
  <2>3. WatchTypes'
    BY <1>1, <2>2, PassesIs, FiredTyped DEF WatchInv, WatchTypes
  <2>4. Programmed' /\ ZephyrKeeps'
    BY <1>1, <2>2, ClockedIs, RestKeeps
  <2>5. CountsDown'
    BY <1>1, <2>2, ClockedIs, CountGoesOn
  <2> QED BY <2>3, <2>4, <2>5 DEF WatchInv
<1> QED BY <1>2, <1>3

LEMMA StoreFeedKeepsInv ==
  ASSUME WatchdogAssumption, WatchInv, W!StoreFeed, UNCHANGED <<wPort, drv, wAt, ask>> PROVE WatchInv'
<1>1. W!Edge /\ steady' = steady
  BY DEF W!StoreFeed
<1>2. CASE ~W!WindowOk
  BY <1>1, <1>2, QuietKeeps DEF W!StoreFeed
<1>3. CASE W!WindowOk
  <2> DEFINE n == IF wReg.en THEN wReg.timeout ELSE W!Clocked.count
  <2>1. wReg' = [W!Clocked EXCEPT !.count = n, !.pend = FALSE]
    BY <1>3 DEF W!StoreFeed
  <2>2. n \in Nat
    BY ClockedIs DEF WatchInv, WatchTypes, WatchRegs
  <2> HIDE DEF n
  <2>3. /\ wReg' \in WatchRegs /\ wReg'.en = W!Clocked.en /\ wReg'.irq = W!Clocked.irq
        /\ wReg'.timeout = W!Clocked.timeout /\ wReg'.pre = W!Clocked.pre /\ wReg'.count = n
        /\ wReg'.locked = W!Clocked.locked
    BY <2>1, <2>2, ClockedIs DEF WatchRegs
  <2>4. Programmed' /\ ZephyrKeeps'
    BY <1>1, <2>3, ClockedIs, RestKeeps
  <2>5. CASE ~wReg.en
    <3>1. W!Passes
      BY <1>3, <2>5 DEF W!StoreFeed
    <3>2. WatchTypes'
      BY <1>1, <2>3, <3>1, PassesIs, FiredTyped DEF WatchInv, WatchTypes
    <3>3. CountsDown'
      BY <2>3, <2>5, ClockedIs DEF CountsDown
    <3> QED BY <2>4, <3>2, <3>3 DEF WatchInv
  <2>6. CASE wReg.en
    <3>1. W!Loaded /\ wReg'.count = wReg.timeout
      BY <1>3, <2>3, <2>6 DEF W!StoreFeed, n
    <3>2. since' \in 0 .. Longest /\ warned' \in BOOLEAN
      <4>1. since' = 0 /\ warned' = FALSE /\ 0 \in 0 .. Longest
        BY <3>1 DEF W!Loaded, WatchdogAssumption
      <4> QED BY <4>1
    <3>3. WatchTypes'
      BY <1>1, <2>3, <3>2, FiredTyped DEF WatchInv, WatchTypes
    <3>4. CountsDown'
      <4>1. CASE ~steady
        BY <1>1, <4>1 DEF CountsDown
      <4>2. CASE steady
        <5>1. wReg.timeout = ask.time /\ wReg.pre = AskedPre
          BY <2>6, <4>2 DEF WatchInv, Programmed
        <5>2. wPort = "zephyr" => drv.installed
          BY <2>6 DEF WatchInv, ZephyrKeeps
        <5> QED BY <2>3, <3>1, <5>1, <5>2, ClockedIs, CountLoaded
      <4> QED BY <4>1, <4>2
    <3> QED BY <2>4, <3>3, <3>4 DEF WatchInv
  <2> QED BY <2>5, <2>6
<1> QED BY <1>2, <1>3

LEMMA StoreCtrlLoads ==
  ASSUME WatchdogAssumption, WatchInv, NEW q \in BOOLEAN, W!StoreCtrl(TRUE, q), ~wReg.locked, ~wReg.en,
         wAt = "idle", UNCHANGED <<wPort, wAt, ask>>, drv' \in WatchDriver,
         wPort = "zephyr" => /\ q = drv.callback /\ drv.installed
                             /\ drv' = [drv EXCEPT !.running = TRUE]
  PROVE  WatchInv'
<1>1. W!Edge /\ W!Loaded /\ steady' = TRUE
        /\ wReg' = [W!Clocked EXCEPT !.en = TRUE, !.irq = q, !.count = wReg.timeout]
  BY DEF W!StoreCtrl
<1>2. wReg.timeout \in Nat
  BY DEF WatchInv, WatchTypes, WatchRegs
<1>3. /\ wReg' \in WatchRegs /\ wReg'.en = TRUE /\ wReg'.irq = q /\ wReg'.timeout = W!Clocked.timeout
      /\ wReg'.pre = W!Clocked.pre /\ wReg'.count = wReg.timeout /\ wReg'.locked = W!Clocked.locked
  BY <1>1, <1>2, ClockedIs DEF WatchRegs
<1>4. wReg.timeout = ask.time /\ wReg.pre = AskedPre
  BY DEF WatchInv, Programmed, PreStored
<1>5. wPort = "zephyr" => drv'.callback = drv.callback /\ drv'.installed = drv.installed /\ drv'.running
  BY DEF WatchInv, WatchTypes, WatchDriver
<1>6. CountsDown' /\ since' \in 0 .. Longest /\ warned' \in BOOLEAN
  BY <1>1, <1>3, <1>4, <1>5, ClockedIs, CountLoaded
<1>7. WatchTypes'
  BY <1>1, <1>3, <1>6, FiredTyped DEF WatchInv, WatchTypes
<1>8. AskedPre' = AskedPre
  BY DEF AskedPre, W!Cycles
<1>9. Programmed'
  BY <1>3, <1>4, <1>8, ClockedIs DEF Programmed
<1>10. ZephyrKeeps'
  BY <1>1, <1>3, <1>5, <1>8, ClockedIs DEF WatchInv, ZephyrKeeps
<1> QED BY <1>6, <1>7, <1>9, <1>10 DEF WatchInv

LEMMA StoreCtrlWrites ==
  ASSUME WatchdogAssumption, WatchInv, NEW e \in BOOLEAN, NEW q \in BOOLEAN, W!StoreCtrl(e, q),
         ~wReg.locked, ~(e /\ ~wReg.en)
  PROVE  /\ W!Edge /\ W!Passes /\ wReg' \in WatchRegs /\ wReg'.en = e /\ wReg'.irq = q
         /\ wReg'.timeout = wReg.timeout /\ wReg'.pre = wReg.pre /\ wReg'.count = W!Clocked.count
         /\ wReg'.locked = wReg.locked /\ (steady' <=> (steady /\ q = wReg.irq)) /\ steady' \in BOOLEAN
<1>1. /\ W!Edge /\ W!Passes /\ steady' = (steady /\ q = wReg.irq)
      /\ wReg' = [W!Clocked EXCEPT !.en = e, !.irq = q, !.pend = @ /\ e]
  BY DEF W!StoreCtrl
<1>2. /\ wReg' \in WatchRegs /\ wReg'.en = e /\ wReg'.irq = q /\ wReg'.timeout = W!Clocked.timeout
      /\ wReg'.pre = W!Clocked.pre /\ wReg'.count = W!Clocked.count /\ wReg'.locked = W!Clocked.locked
  BY <1>1, ClockedIs DEF WatchRegs
<1> QED BY <1>1, <1>2, ClockedIs DEF WatchInv, WatchTypes, WatchRegs

LEMMA EnableKeeps == ASSUME WatchdogAssumption, WatchInv, W!Enable PROVE WatchInv'
<1>1. /\ wPort # "zephyr" /\ UNCHANGED <<wPort, drv, ask, wAt>> /\ wAt = "idle"
  BY DEF W!Enable, W!Plain, W!rest, W!From
<1>2. PICK q \in BOOLEAN : W!StoreCtrl(TRUE, q)
  BY DEF W!Enable
<1>3. CASE wReg.locked
  BY <1>1, <1>2, <1>3, QuietKeeps DEF W!StoreCtrl
<1>4. CASE ~wReg.locked /\ ~wReg.en
  BY <1>1, <1>2, <1>4, StoreCtrlLoads DEF WatchInv, WatchTypes
<1>5. CASE ~wReg.locked /\ wReg.en
  <2>1. /\ W!Edge /\ W!Passes /\ wReg' \in WatchRegs /\ wReg'.en = TRUE /\ wReg'.irq = q
        /\ wReg'.timeout = wReg.timeout /\ wReg'.pre = wReg.pre /\ wReg'.count = W!Clocked.count
        /\ wReg'.locked = wReg.locked /\ (steady' <=> (steady /\ q = wReg.irq)) /\ steady' \in BOOLEAN
    BY <1>2, <1>5, StoreCtrlWrites
  <2>2. WatchTypes'
    BY <1>1, <2>1, PassesIs, FiredTyped DEF WatchInv, WatchTypes
  <2>3. AskedPre' = AskedPre
    BY <1>1 DEF AskedPre, W!Cycles
  <2>4. Programmed'
    BY <1>1, <1>5, <2>1, <2>3 DEF WatchInv, Programmed, PreStored
  <2>5. ZephyrKeeps'
    BY <1>1 DEF ZephyrKeeps
  <2>6. CountsDown'
    BY <1>1, <1>5, <2>1, CountGoesOn
  <2> QED BY <2>2, <2>4, <2>5, <2>6 DEF WatchInv
<1> QED BY <1>3, <1>4, <1>5 DEF WatchInv, WatchTypes, WatchRegs

LEMMA DisableKeeps == ASSUME WatchdogAssumption, WatchInv, W!Disable PROVE WatchInv'
<1>1. /\ wPort # "zephyr" /\ UNCHANGED <<wPort, drv, ask, wAt>> /\ wAt = "idle"
           /\ W!StoreCtrl(FALSE, FALSE)
  BY DEF W!Disable, W!Plain, W!rest, W!From
<1>2. CASE wReg.locked
  BY <1>1, <1>2, QuietKeeps DEF W!StoreCtrl
<1>3. CASE ~wReg.locked
  <2>1. /\ W!Edge /\ W!Passes /\ wReg' \in WatchRegs /\ ~wReg'.en
        /\ wReg'.timeout = wReg.timeout /\ wReg'.pre = wReg.pre
        /\ wReg'.locked = wReg.locked /\ steady' \in BOOLEAN
    BY <1>1, <1>3, StoreCtrlWrites
  <2>2. WatchTypes'
    BY <1>1, <2>1, PassesIs, FiredTyped DEF WatchInv, WatchTypes
  <2>3. AskedPre' = AskedPre
    BY <1>1 DEF AskedPre, W!Cycles
  <2>4. Programmed'
    BY <1>1, <1>3, <2>1, <2>3 DEF WatchInv, Programmed, PreStored
  <2>5. ZephyrKeeps' /\ CountsDown'
    BY <1>1, <2>1 DEF ZephyrKeeps, CountsDown
  <2> QED BY <2>2, <2>4, <2>5 DEF WatchInv
<1> QED BY <1>2, <1>3

LEMMA WatchSetupKeeps == ASSUME WatchdogAssumption, WatchInv, W!Setup PROVE WatchInv'
<1>1. /\ wPort = "zephyr" /\ UNCHANGED <<wPort, ask, wAt>> /\ wAt = "idle"
           /\ W!StoreCtrl(TRUE, drv.callback)
      /\ drv.installed /\ ~drv.running /\ drv' = [drv EXCEPT !.running = TRUE]
  BY DEF W!Setup, W!From
<1>2. ~wReg.locked /\ ~wReg.en /\ drv.callback \in BOOLEAN /\ drv' \in WatchDriver
  BY <1>1 DEF WatchInv, WatchTypes, WatchDriver, ZephyrKeeps
<1> QED BY <1>1, <1>2, StoreCtrlLoads

LEMMA ZephyrDisableKeeps == ASSUME WatchdogAssumption, WatchInv, W!ZephyrDisable PROVE WatchInv'
<1>1. /\ wPort = "zephyr" /\ UNCHANGED <<wPort, ask, wAt>> /\ wAt = "idle" /\ W!StoreCtrl(FALSE, FALSE)
      /\ drv' = [drv EXCEPT !.running = FALSE, !.installed = FALSE]
  BY DEF W!ZephyrDisable, W!From
<1>2. ~wReg.locked /\ drv' \in WatchDriver /\ ~drv'.running /\ ~drv'.installed
  BY <1>1 DEF WatchInv, WatchTypes, WatchDriver, ZephyrKeeps
<1>3. /\ W!Edge /\ W!Passes /\ wReg' \in WatchRegs /\ ~wReg'.en
      /\ wReg'.timeout = wReg.timeout /\ wReg'.pre = wReg.pre
      /\ wReg'.locked = wReg.locked /\ steady' \in BOOLEAN
  BY <1>1, <1>2, StoreCtrlWrites
<1>4. WatchTypes'
  BY <1>1, <1>2, <1>3, PassesIs, FiredTyped DEF WatchInv, WatchTypes
<1>5. AskedPre' = AskedPre
  BY <1>1 DEF AskedPre, W!Cycles
<1>6. Programmed'
  BY <1>1, <1>2, <1>3, <1>5 DEF WatchInv, Programmed, PreStored
<1>7. ZephyrKeeps'
  BY <1>1, <1>2, <1>3 DEF ZephyrKeeps, WatchInv, WatchTypes, WatchRegs, WatchDriver
<1>8. CountsDown'
  BY <1>3 DEF CountsDown
<1> QED BY <1>4, <1>6, <1>7, <1>8 DEF WatchInv

LEMMA LockKeeps == ASSUME WatchdogAssumption, WatchInv, W!Lock PROVE WatchInv'
<1>1. /\ wPort # "zephyr" /\ UNCHANGED <<wPort, drv, ask, wAt, steady>> /\ W!Edge /\ W!Passes
      /\ wReg' = [W!Clocked EXCEPT !.locked = TRUE]
  BY DEF W!Lock, W!Plain, W!rest, W!From, W!StoreLock
<1>2. /\ wReg' \in WatchRegs /\ wReg'.en = W!Clocked.en /\ wReg'.irq = W!Clocked.irq /\ wReg'.locked
      /\ wReg'.timeout = W!Clocked.timeout /\ wReg'.pre = W!Clocked.pre /\ wReg'.count = W!Clocked.count
  BY <1>1, ClockedIs DEF WatchRegs
<1>3. WatchTypes'
  BY <1>1, <1>2, PassesIs, FiredTyped DEF WatchInv, WatchTypes
<1>4. Programmed' /\ ZephyrKeeps'
  BY <1>1, <1>2, ClockedIs, RestKeeps
<1>5. CountsDown'
  BY <1>1, <1>2, ClockedIs, CountGoesOn
<1> QED BY <1>3, <1>4, <1>5 DEF WatchInv

\* The three stores of a configuration, each at its place in the call.
LEMMA NewTimeout ==
  ASSUME WatchdogAssumption, WatchInv, NEW t \in Nat
  PROVE  LET x == [W!Clocked EXCEPT !.timeout = t]
         IN  /\ x \in WatchRegs /\ x.en = wReg.en /\ x.irq = wReg.irq /\ x.locked = wReg.locked
             /\ x.timeout = t
BY ClockedIs DEF WatchRegs

LEMMA NewPretimeout ==
  ASSUME WatchdogAssumption, WatchInv, NEW t \in Nat
  PROVE  LET x == [W!Clocked EXCEPT !.pre = t]
         IN  /\ x \in WatchRegs /\ x.en = wReg.en /\ x.irq = wReg.irq /\ x.locked = wReg.locked
             /\ x.timeout = wReg.timeout /\ x.pre = t
BY ClockedIs DEF WatchRegs

LEMMA NewWindow ==
  ASSUME WatchdogAssumption, WatchInv, NEW t \in Nat
  PROVE  LET x == [W!Clocked EXCEPT !.window = t]
         IN  /\ x \in WatchRegs /\ x.en = wReg.en /\ x.irq = wReg.irq /\ x.locked = wReg.locked
             /\ x.timeout = wReg.timeout /\ x.pre = wReg.pre
BY ClockedIs DEF WatchRegs

LEMMA TimesFit ==
  ASSUME WatchdogAssumption, NEW t \in Times
  PROVE  /\ t \in Nat /\ t >= 2 /\ t * PerMs \in 0 .. Longest /\ t \in 0 .. Longest
         /\ W!Cycles(t) = t * PerMs
         /\ t \div 2 \in Nat /\ 0 < W!Cycles(t \div 2) /\ W!Cycles(t \div 2) < t * PerMs
<1> DEFINE h == t \div 2
           c == t * PerMs
           g == h * PerMs
<1>1. /\ t \in Nat /\ t >= 2 /\ c < Width /\ PerMs \in Nat \ {0} /\ Width \in Nat /\ Longest \in Nat
      /\ Width - 1 <= Longest
  BY DEF WatchdogAssumption
<1>2. h \in Nat /\ 0 < h /\ h < t
  BY <1>1
<1> HIDE DEF h
<1>3. c \in Nat /\ g \in Nat /\ g < c /\ g > 0 /\ t <= c
  BY <1>1, <1>2, Products
<1>4. W!Cycles(t) = c
  BY <1>1, CyclesIs
<1>5. g < Width
  <2> HIDE DEF c, g
  <2> QED BY <1>1, <1>3
<1>6. W!Cycles(h) = g
  BY <1>2, <1>5, CyclesIs
<1>7. c \in 0 .. Longest /\ t \in 0 .. Longest
  <2> HIDE DEF c, g
  <2> QED BY <1>1, <1>3
<1> QED BY <1>1, <1>2, <1>3, <1>4, <1>6, <1>7 DEF h

LEMMA SetTimeoutKeeps == ASSUME WatchdogAssumption, WatchInv, W!SetTimeout PROVE WatchInv'
<1>1. /\ wPort # "zephyr" /\ UNCHANGED <<wPort, drv>> /\ wAt = "idle"
      /\ wAt' = IF wPort = "library" THEN "pre" ELSE "window"
  BY DEF W!SetTimeout, W!Plain, W!rest, W!From
<1>2. PICK t \in Times, p \in Pres, v \in Pres :
        ask' = [time |-> t, pre |-> p, window |-> v] /\ W!StoreTimeout(t)
  BY DEF W!SetTimeout
<1>3. t \in Nat /\ t \in 0 .. Longest /\ p \in Nat /\ v \in Nat
  BY TimesFit DEF WatchdogAssumption
<1> DEFINE x == [W!Clocked EXCEPT !.timeout = t]
<1>4. /\ x \in WatchRegs /\ x.en = wReg.en /\ x.irq = wReg.irq /\ x.locked = wReg.locked
           /\ x.timeout = t
  BY <1>3, NewTimeout
<1>5. W!StoreConfig(x)
  BY <1>2 DEF W!StoreTimeout
<1> HIDE DEF x
<1>6. /\ wReg' \in WatchRegs /\ since' \in 0 .. Longest /\ warned' \in BOOLEAN
      /\ steady' \in BOOLEAN /\ fired' \in BOOLEAN /\ wReg'.locked = wReg.locked
      /\ ~(steady' /\ wReg'.en) /\ CountsDown' /\ (~wReg.locked => wReg' = x)
  BY <1>4, <1>5, StoreConfigIs
<1>7. ask' \in Asked /\ ask'.time = t
  BY <1>2, <1>3 DEF Asked
<1>8. WatchTypes'
  BY <1>1, <1>6, <1>7 DEF WatchInv, WatchTypes
<1>9. ~PreStored'
  BY <1>1 DEF PreStored
<1>10. Programmed'
  BY <1>4, <1>6, <1>7, <1>9 DEF Programmed
<1>11. ZephyrKeeps'
  BY <1>1 DEF ZephyrKeeps
<1> QED BY <1>6, <1>8, <1>10, <1>11 DEF WatchInv

LEMMA SetPretimeoutKeeps == ASSUME WatchdogAssumption, WatchInv, W!SetPretimeout PROVE WatchInv'
<1>1. wPort # "zephyr" /\ UNCHANGED <<wPort, drv, ask>>
  BY DEF W!SetPretimeout, W!Plain, W!rest
<1>2. ask.pre \in Nat
  BY DEF WatchInv, WatchTypes, Asked
<1> DEFINE x == [W!Clocked EXCEPT !.pre = ask.pre]
<1>3. /\ x \in WatchRegs /\ x.en = wReg.en /\ x.irq = wReg.irq /\ x.locked = wReg.locked
      /\ x.timeout = wReg.timeout /\ x.pre = ask.pre
  BY <1>2, NewPretimeout
<1>4. W!StoreConfig(x)
  BY DEF W!SetPretimeout, W!StorePretimeout
<1> HIDE DEF x
<1>5. /\ wReg' \in WatchRegs /\ since' \in 0 .. Longest /\ warned' \in BOOLEAN
      /\ steady' \in BOOLEAN /\ fired' \in BOOLEAN /\ wReg'.locked = wReg.locked
      /\ ~(steady' /\ wReg'.en) /\ CountsDown' /\ (~wReg.locked => wReg' = x)
  BY <1>3, <1>4, StoreConfigIs
<1>6. WatchTypes'
  BY <1>1, <1>5 DEF WatchInv, WatchTypes
<1>7. AskedPre' = ask.pre
  BY <1>1 DEF AskedPre
<1>8. Programmed'
  BY <1>1, <1>3, <1>5, <1>7 DEF WatchInv, Programmed
<1>9. ZephyrKeeps'
  BY <1>1 DEF ZephyrKeeps
<1> QED BY <1>5, <1>6, <1>8, <1>9 DEF WatchInv

LEMMA SetWindowKeeps == ASSUME WatchdogAssumption, WatchInv, W!SetWindow PROVE WatchInv'
<1>1. /\ wPort # "zephyr" /\ UNCHANGED <<wPort, drv, ask>> /\ wAt = "window"
      /\ wAt' = IF wPort = "library" THEN "idle" ELSE "pre"
  BY DEF W!SetWindow, W!Plain, W!rest, W!From
<1>2. ask.window \in Nat
  BY DEF WatchInv, WatchTypes, Asked
<1> DEFINE x == [W!Clocked EXCEPT !.window = ask.window]
<1>3. /\ x \in WatchRegs /\ x.en = wReg.en /\ x.irq = wReg.irq /\ x.locked = wReg.locked
      /\ x.timeout = wReg.timeout /\ x.pre = wReg.pre
  BY <1>2, NewWindow
<1>4. W!StoreConfig(x)
  BY DEF W!SetWindow, W!StoreWindow
<1> HIDE DEF x
<1>5. /\ wReg' \in WatchRegs /\ since' \in 0 .. Longest /\ warned' \in BOOLEAN
      /\ steady' \in BOOLEAN /\ fired' \in BOOLEAN /\ wReg'.locked = wReg.locked
      /\ ~(steady' /\ wReg'.en) /\ CountsDown' /\ (~wReg.locked => wReg' = x)
  BY <1>3, <1>4, StoreConfigIs
<1>6. WatchTypes'
  BY <1>1, <1>5 DEF WatchInv, WatchTypes
<1>7. AskedPre' = AskedPre /\ (PreStored' => PreStored)
  BY <1>1 DEF AskedPre, PreStored
<1>8. Programmed'
  BY <1>1, <1>3, <1>5, <1>7 DEF WatchInv, Programmed
<1>9. ZephyrKeeps'
  BY <1>1 DEF ZephyrKeeps
<1> QED BY <1>5, <1>6, <1>8, <1>9 DEF WatchInv

LEMMA FeedKeeps == ASSUME WatchdogAssumption, WatchInv, W!Feed PROVE WatchInv'
BY StoreFeedKeepsInv DEF W!Feed, W!Plain, W!rest, W!From

LEMMA ClearPretimeoutKeeps == ASSUME WatchdogAssumption, WatchInv, W!ClearPretimeout PROVE WatchInv'
BY StoreStatusKeeps DEF W!ClearPretimeout, W!Plain, W!rest, W!From

LEMMA InstallKeeps == ASSUME WatchdogAssumption, WatchInv, W!Install PROVE WatchInv'
<1>1. wPort = "zephyr" /\ wPort' = wPort /\ wAt = "idle" /\ wAt' = "zpre" /\ ~drv.running
  BY DEF W!Install, W!From
<1>2. PICK max \in Times, cb \in BOOLEAN :
        /\ drv' = [drv EXCEPT !.callback = cb, !.installed = TRUE]
        /\ ask' = [time |-> max * PerMs, pre |-> IF cb THEN max \div 2 ELSE 0, window |-> 0]
        /\ W!StoreTimeout(W!Cycles(max))
  BY DEF W!Install
<1> DEFINE c == max * PerMs
           h == max \div 2
           x == [W!Clocked EXCEPT !.timeout = W!Cycles(max)]
<1>3. /\ c \in 0 .. Longest /\ c \in Nat /\ W!Cycles(max) = c /\ h \in Nat
      /\ 0 < W!Cycles(h) /\ W!Cycles(h) < c
  BY TimesFit DEF WatchdogAssumption
<1>4. ask' = [time |-> c, pre |-> IF cb THEN h ELSE 0, window |-> 0]
  BY <1>2
<1>5. W!StoreConfig(x)
  BY <1>2 DEF W!StoreTimeout
<1>6. /\ x \in WatchRegs /\ x.en = wReg.en /\ x.irq = wReg.irq /\ x.locked = wReg.locked
           /\ x.timeout = c
  BY <1>3, NewTimeout
<1> HIDE DEF c, h, x
<1>7. /\ wReg' \in WatchRegs /\ since' \in 0 .. Longest /\ warned' \in BOOLEAN
      /\ steady' \in BOOLEAN /\ fired' \in BOOLEAN /\ wReg'.locked = wReg.locked /\ wReg'.en = wReg.en
      /\ ~(steady' /\ wReg'.en) /\ CountsDown' /\ (~wReg.locked => wReg' = x)
  BY <1>5, <1>6, StoreConfigIs
<1>8. drv' \in WatchDriver /\ ~drv'.running /\ (drv'.callback => cb)
  BY <1>1, <1>2 DEF WatchInv, WatchTypes, WatchDriver
<1>9. ask' \in Asked /\ ask'.time = c /\ (cb => ask'.pre = h)
  BY <1>3, <1>4 DEF Asked
<1>10. WatchTypes'
  BY <1>7, <1>8, <1>9 DEF WatchTypes
<1>11. cb => AskedPre' = W!Cycles(h)
  BY <1>1, <1>9 DEF AskedPre, W!Cycles
<1>12. Programmed'
  BY <1>1, <1>6, <1>7, <1>9 DEF Programmed, PreStored
<1>13. ~wReg.locked /\ ~wReg.en
  BY <1>1 DEF WatchInv, ZephyrKeeps
<1>14. ZephyrKeeps'
  <2>1. wReg'.en = FALSE /\ drv'.running = FALSE
    BY <1>7, <1>8, <1>13 DEF WatchRegs, WatchDriver
  <2>2. drv'.callback => 0 < AskedPre' /\ AskedPre' < ask'.time
    BY <1>3, <1>8, <1>9, <1>11
  <2> QED BY <1>1, <1>7, <1>13, <2>1, <2>2 DEF ZephyrKeeps
<1> QED BY <1>7, <1>10, <1>12, <1>14 DEF WatchInv

LEMMA InstallPreKeeps == ASSUME WatchdogAssumption, WatchInv, W!InstallPre PROVE WatchInv'
<1>1. /\ wPort = "zephyr" /\ UNCHANGED <<wPort, drv, ask>> /\ wAt = "zpre" /\ wAt' = "idle"
  BY DEF W!InstallPre, W!rest, W!From
<1>2. W!Cycles(ask.pre) \in Nat
  BY CyclesTyped DEF WatchInv, WatchTypes, Asked
<1> DEFINE x == [W!Clocked EXCEPT !.pre = W!Cycles(ask.pre)]
<1>3. /\ x \in WatchRegs /\ x.en = wReg.en /\ x.irq = wReg.irq /\ x.locked = wReg.locked
      /\ x.timeout = wReg.timeout /\ x.pre = W!Cycles(ask.pre)
  BY <1>2, NewPretimeout
<1>4. W!StoreConfig(x)
  BY DEF W!InstallPre, W!StorePretimeout
<1> HIDE DEF x
<1>5. /\ wReg' \in WatchRegs /\ since' \in 0 .. Longest /\ warned' \in BOOLEAN
      /\ steady' \in BOOLEAN /\ fired' \in BOOLEAN /\ wReg'.locked = wReg.locked /\ wReg'.en = wReg.en
      /\ ~(steady' /\ wReg'.en) /\ CountsDown' /\ (~wReg.locked => wReg' = x)
  BY <1>3, <1>4, StoreConfigIs
<1>6. WatchTypes'
  BY <1>1, <1>5 DEF WatchInv, WatchTypes
<1>7. AskedPre' = AskedPre /\ AskedPre = W!Cycles(ask.pre)
  BY <1>1 DEF AskedPre, W!Cycles
<1>8. Programmed'
  BY <1>1, <1>3, <1>5, <1>7 DEF WatchInv, Programmed
<1>9. ~drv.running /\ ~wReg.en /\ ~wReg.locked
  BY <1>1 DEF WatchInv, ZephyrKeeps
<1>10. ZephyrKeeps'
  BY <1>1, <1>5, <1>7, <1>9 DEF WatchInv, ZephyrKeeps
<1> QED BY <1>5, <1>6, <1>8, <1>10 DEF WatchInv

LEMMA ZephyrFeedKeeps == ASSUME WatchdogAssumption, WatchInv, W!ZephyrFeed PROVE WatchInv'
BY StoreFeedKeepsInv DEF W!ZephyrFeed, W!rest, W!From

LEMMA WatchIsrKeeps == ASSUME WatchdogAssumption, WatchInv, W!Isr PROVE WatchInv'
<1>1. UNCHANGED <<wPort, drv, wAt, ask>>
  BY DEF W!Isr
<1>2. CASE W!StoreStatus
  BY <1>1, <1>2, StoreStatusKeeps
<1>3. CASE W!Edge /\ W!Passes /\ wReg' = W!Clocked /\ UNCHANGED steady
  BY <1>1, <1>3, QuietKeeps
<1> QED BY <1>2, <1>3 DEF W!Isr

LEMMA WatchStep == ASSUME WatchdogAssumption, WatchInv, [W!Next]_(W!vars) PROVE WatchInv'
<1>1. CASE UNCHANGED W!vars
  <2>1. WatchTypes'
    BY <1>1 DEF W!vars, WatchInv, WatchTypes
  <2>2. AskedPre' = AskedPre
    BY <1>1 DEF W!vars, AskedPre, W!Cycles
  <2>3. Programmed' /\ ZephyrKeeps'
    BY <1>1, <2>2 DEF W!vars, WatchInv, Programmed, PreStored, ZephyrKeeps
  <2>4. CountsDown'
    BY <1>1 DEF W!vars, WatchInv, CountsDown, W!AsksWarning
  <2> QED BY <2>1, <2>3, <2>4 DEF WatchInv
<1> QED BY <1>1, WatchClockKeeps, SetTimeoutKeeps, SetPretimeoutKeeps, SetWindowKeeps, EnableKeeps,
        DisableKeeps, FeedKeeps, LockKeeps, ClearPretimeoutKeeps, InstallKeeps, InstallPreKeeps,
        WatchSetupKeeps, ZephyrDisableKeeps, ZephyrFeedKeeps, WatchIsrKeeps DEF W!Next

LEMMA FiresWhenDue ==
  ASSUME WatchdogAssumption, WatchInv, [W!Next]_(W!vars), fired', ~fired
  PROVE  IF steady THEN since >= ask.time /\ (W!AsksWarning => warned) ELSE wPort # "zephyr"
<1>1. W!Edge
  <2>1. W!Next
    BY DEF W!vars
  <2>2. CASE W!Clock \/ W!Isr
    BY <2>2 DEF W!Clock, W!Isr, W!StoreStatus
  <2>3. CASE W!SetTimeout \/ W!SetPretimeout \/ W!SetWindow \/ W!Install \/ W!InstallPre
    BY <2>3 DEF W!SetTimeout, W!SetPretimeout, W!SetWindow, W!Install, W!InstallPre, W!StoreTimeout,
       W!StorePretimeout, W!StoreWindow, W!StoreConfig
  <2>4. CASE W!Enable \/ W!Disable \/ W!Setup \/ W!ZephyrDisable
    BY <2>4 DEF W!Enable, W!Disable, W!Setup, W!ZephyrDisable, W!StoreCtrl
  <2>5. CASE W!Feed \/ W!Lock \/ W!ClearPretimeout \/ W!ZephyrFeed
    BY <2>5 DEF W!Feed, W!Lock, W!ClearPretimeout, W!ZephyrFeed, W!StoreFeed, W!StoreLock, W!StoreStatus
  <2> QED BY <2>1, <2>2, <2>3, <2>4, <2>5 DEF W!Next
<1>2. wReg.en /\ wReg.count = 0
  BY <1>1 DEF W!Edge, W!Expired
<1>3. since \in Nat /\ ask.time \in Nat /\ wReg.pre \in Nat
  BY DEF WatchInv, WatchTypes, Asked, WatchRegs, WatchdogAssumption
<1>4. CASE steady
  BY <1>2, <1>3, <1>4 DEF WatchInv, CountsDown
<1>5. CASE ~steady
  BY <1>2, <1>5 DEF WatchInv, ZephyrKeeps
<1> QED BY <1>4, <1>5

\* A watchdog that nobody has changed since it was loaded resets the system when
\* its time-out has passed, after the warning that was asked for.
THEOREM WatchdogAlways == ASSUME WatchdogAssumption PROVE W!Spec => W!ResetIsDue
<1>1. W!Init => WatchInv
  BY WatchStart
<1>2. WatchInv /\ [W!Next]_(W!vars) => WatchInv'
  BY WatchStep
<1>3. WatchInv /\ [W!Next]_(W!vars)
      => [fired' /\ ~fired => IF steady THEN since >= ask.time /\ (W!AsksWarning => warned)
                              ELSE wPort # "zephyr"]_(W!vars)
  BY FiresWhenDue
<1> QED BY <1>1, <1>2, <1>3, PTL DEF W!Spec, W!ResetIsDue

-----------------------------------------------------------------------------
(* The UART under the interrupt-driven library, the polled routines and      *)
(* Zephyr's console, for rings and FIFOs of any size. The invariant numbers  *)
(* the bytes: shifter, FIFO and queue hold consecutive ones up to the last   *)
(* accepted, and receive ring and FIFO increasing ones, as many as have      *)
(* arrived and are not counted elsewhere.                                    *)

RingSlot == 0 .. BufSize - 1
RingType == [buf : [RingSlot -> Nat], head : RingSlot, tail : RingSlot]
UartTypes ==
  /\ txFifo \in Seq(Nat) /\ shift \in Nat /\ rxFifo \in Seq(Nat) /\ console \in Seq(Nat)
  /\ uTx \in RingType /\ uRx \in RingType
  /\ asked \in Nat /\ sent \in Nat /\ arrived \in Nat /\ lost \in Nat /\ taken \in Nat /\ got \in Nat
  /\ rxDropped \in Nat

\* Who uses what.
RingOwners ==
  /\ svc # "no" => uPort = "async"
  /\ uIrqAt # "no" => uPort = "async" \/ (uPort = "zephyr" /\ hooked)
  /\ hooked => uPort = "zephyr" /\ task = "idle"
  /\ uPort # "async" => uTx.head = uTx.tail /\ uRx.head = uRx.tail
  /\ ~hooked => console = <<>>
  /\ Len(console) <= BufSize
  /\ task = "write" => uPort # "async" /\ U!TxReady
  /\ task = "start" => /\ svc = "no" /\ uIrqAt = "no" /\ en = {}
                       /\ uTx = U!Ring /\ uRx = U!Ring /\ rxDropped = 0

SlotAt(r, j) == (r.tail + j) % BufSize
Reached == sent + (IF shift = 0 THEN 0 ELSE 1) + Len(txFifo)
\* The byte on the wire is the next to be counted as sent, and the FIFO
\* follows.
InDevice ==
  /\ shift # 0 => shift = sent + 1
  /\ shift = 0 => txFifo = <<>>
  /\ \A i \in 1 .. Len(txFifo) : txFifo[i] = sent + 1 + i
\* Ring and console hold the rest, up to the last accepted byte.
InQueue ==
  /\ asked = Reached + U!Count(uTx) + Len(console)
  /\ \A j \in 0 .. U!Count(uTx) - 1 : uTx.buf[SlotAt(uTx, j)] = Reached + 1 + j
  /\ \A i \in 1 .. Len(console) : console[i] = Reached + i

\* What has arrived and has not been returned, in the ring and in the FIFO.
Skipped == taken + lost + rxDropped
Waiting == U!Count(uRx) + Len(rxFifo)
RxAt(i) == IF i <= U!Count(uRx) THEN uRx.buf[SlotAt(uRx, i - 1)] ELSE rxFifo[i - U!Count(uRx)]
InReceiver ==
  /\ arrived = Skipped + Waiting /\ got <= Skipped
  /\ \A i \in 1 .. Waiting : /\ got < RxAt(i) /\ RxAt(i) <= Skipped + i
                             /\ \A h \in 1 .. i - 1 : RxAt(h) < RxAt(i)

\* The inductive invariant.
UartInv == UartTypes /\ RingOwners /\ InDevice /\ InQueue /\ InReceiver

LEMMA Remainder ==
  ASSUME NEW n \in Nat \ {0}, NEW k \in 0 .. 2 * n - 1
  PROVE  k % n = IF k < n THEN k ELSE k - n
<1>1. k < n => k % n = k
  OBVIOUS
<1>2. k >= n => k % n = k - n
  <2> SUFFICES ASSUME k >= n PROVE k % n = k - n
    OBVIOUS
  <2>1. k - n \in 0 .. n - 1
    OBVIOUS
  <2>2. k % n = (k - n) % n
    OBVIOUS
  <2> QED BY <2>1, <2>2
<1> QED BY <1>1, <1>2

\* The numbers of a ring, without remainders.
Wrap(k) == IF k < BufSize THEN k ELSE k - BufSize
Gap(h, t) == IF h >= t THEN h - t ELSE h + BufSize - t

LEMMA Wraps == ASSUME UartAssumption, NEW k \in 0 .. 2 * BufSize - 1 PROVE k % BufSize = Wrap(k)
BY Remainder DEF UartAssumption, Wrap

LEMMA Gaps ==
  ASSUME UartAssumption, NEW h \in RingSlot, NEW t \in RingSlot
  PROVE  (h + BufSize - t) % BufSize = Gap(h, t) /\ Gap(h, t) \in RingSlot
<1> DEFINE k == h + BufSize - t
<1>1. BufSize \in Nat \ {0} /\ h \in 0 .. BufSize - 1 /\ t \in 0 .. BufSize - 1
  BY DEF UartAssumption, RingSlot
<1>2. k \in 0 .. 2 * BufSize - 1 /\ Wrap(k) = Gap(h, t) /\ Gap(h, t) \in 0 .. BufSize - 1
  BY <1>1 DEF Wrap, Gap
<1> HIDE DEF k
<1>3. k % BufSize = Wrap(k)
  BY <1>2, Wraps
<1> QED BY <1>2, <1>3 DEF k, RingSlot

LEMMA SlotSteps ==
  ASSUME UartAssumption, NEW t \in RingSlot, NEW j \in 0 .. BufSize
  PROVE  (t + j) % BufSize = Wrap(t + j) /\ Wrap(t + j) \in RingSlot
<1> DEFINE k == t + j
<1>1. BufSize \in Nat \ {0} /\ t \in 0 .. BufSize - 1
  BY DEF UartAssumption, RingSlot
<1>2. k \in 0 .. 2 * BufSize - 1 /\ Wrap(k) \in 0 .. BufSize - 1
  BY <1>1 DEF Wrap
<1> HIDE DEF k
<1>3. k % BufSize = Wrap(k)
  BY <1>2, Wraps
<1> QED BY <1>2, <1>3 DEF k, RingSlot

LEMMA GapShrinks ==
  ASSUME UartAssumption, NEW h \in RingSlot, NEW t \in RingSlot, t # h
  PROVE  /\ Gap(h, t) > 0 /\ Gap(h, Wrap(t + 1)) = Gap(h, t) - 1
         /\ \A j \in 0 .. Gap(h, t) - 2 : Wrap(Wrap(t + 1) + j) = Wrap(t + (j + 1))
BY DEF UartAssumption, RingSlot, Wrap, Gap

LEMMA GapGrows ==
  ASSUME UartAssumption, NEW h \in RingSlot, NEW t \in RingSlot, NEW n \in 0 .. BufSize - 1 - Gap(h, t)
  PROVE  /\ Gap(Wrap(h + n), t) = Gap(h, t) + n
         /\ \A j \in 0 .. Gap(h, t) - 1 : Gap(Wrap(t + j), h) >= n /\ Wrap(t + j) # h
         /\ \A m \in 0 .. n - 1 : Gap(Wrap(t + (Gap(h, t) + m)), h) = m
         /\ Wrap(t + Gap(h, t)) = h
<1>1. BufSize \in Nat \ {0} /\ h \in 0 .. BufSize - 1 /\ t \in 0 .. BufSize - 1
  BY DEF UartAssumption, RingSlot
<1>2. Gap(h, t) \in 0 .. BufSize - 1 /\ n \in Nat
  BY <1>1 DEF Gap
<1>3. Gap(Wrap(h + n), t) = Gap(h, t) + n
  BY <1>1, <1>2 DEF Wrap, Gap
<1>4. \A j \in 0 .. Gap(h, t) - 1 : Gap(Wrap(t + j), h) >= n /\ Wrap(t + j) # h
  BY <1>1, <1>2 DEF Wrap, Gap
<1>5. \A m \in 0 .. n - 1 : Gap(Wrap(t + (Gap(h, t) + m)), h) = m
  BY <1>1, <1>2 DEF Wrap, Gap
<1>6. Wrap(t + Gap(h, t)) = h
  BY <1>1, <1>2 DEF Wrap, Gap
<1> QED BY <1>3, <1>4, <1>5, <1>6

LEMMA RoomForOne ==
  ASSUME UartAssumption, NEW h \in RingSlot, NEW t \in RingSlot, Wrap(h + 1) # t
  PROVE  1 \in 0 .. BufSize - 1 - Gap(h, t)
BY DEF UartAssumption, RingSlot, Wrap, Gap

LEMMA RingNumbers ==
  ASSUME UartAssumption, NEW r, r.head \in RingSlot, r.tail \in RingSlot
  PROVE  /\ U!Count(r) = Gap(r.head, r.tail) /\ U!Count(r) \in RingSlot
         /\ \A j \in RingSlot : SlotAt(r, j) = Wrap(r.tail + j) /\ SlotAt(r, j) \in RingSlot
         /\ U!NextSlot(r.tail) = Wrap(r.tail + 1) /\ U!NextSlot(r.tail) \in RingSlot
         /\ U!NextSlot(r.head) = Wrap(r.head + 1) /\ U!NextSlot(r.head) \in RingSlot
         /\ BufSize \in Nat \ {0}
<1>1. BufSize \in Nat \ {0} /\ 1 \in 0 .. BufSize /\ \A j \in RingSlot : j \in 0 .. BufSize
  BY DEF UartAssumption, RingSlot
<1>2. U!Count(r) = Gap(r.head, r.tail) /\ U!Count(r) \in RingSlot
  BY Gaps DEF U!Count
<1>3. \A j \in RingSlot : SlotAt(r, j) = Wrap(r.tail + j) /\ SlotAt(r, j) \in RingSlot
  BY <1>1, SlotSteps DEF SlotAt
<1>4. U!NextSlot(r.tail) = Wrap(r.tail + 1) /\ U!NextSlot(r.tail) \in RingSlot
  BY <1>1, SlotSteps DEF U!NextSlot
<1>5. U!NextSlot(r.head) = Wrap(r.head + 1) /\ U!NextSlot(r.head) \in RingSlot
  BY <1>1, SlotSteps DEF U!NextSlot
<1> QED BY <1>1, <1>2, <1>3, <1>4, <1>5

\* Taking the oldest byte.
LEMMA RingTakes ==
  ASSUME UartAssumption, NEW r \in RingType, r.tail # r.head, NEW s,
         s = [r EXCEPT !.tail = U!NextSlot(@)]
  PROVE  /\ s \in RingType /\ s.buf = r.buf /\ U!Count(r) > 0 /\ U!Count(s) = U!Count(r) - 1
         /\ SlotAt(r, 0) = r.tail
         /\ \A j \in 0 .. U!Count(s) - 1 : SlotAt(s, j) = SlotAt(r, j + 1)
<1>1. r.head \in RingSlot /\ r.tail \in RingSlot
  BY DEF RingType
<1>2. /\ U!Count(r) = Gap(r.head, r.tail) /\ U!Count(r) \in RingSlot
      /\ \A j \in RingSlot : SlotAt(r, j) = Wrap(r.tail + j)
      /\ U!NextSlot(r.tail) = Wrap(r.tail + 1) /\ U!NextSlot(r.tail) \in RingSlot
           /\ BufSize \in Nat \ {0}
  BY <1>1, RingNumbers
<1>3. s \in RingType /\ s.buf = r.buf /\ s.head = r.head /\ s.tail = Wrap(r.tail + 1)
  BY <1>2 DEF RingType
<1>4. /\ U!Count(s) = Gap(s.head, s.tail) /\ U!Count(s) \in RingSlot
      /\ \A j \in RingSlot : SlotAt(s, j) = Wrap(s.tail + j)
  BY <1>1, <1>2, <1>3, RingNumbers
<1>5. /\ U!Count(r) > 0 /\ U!Count(s) = U!Count(r) - 1
      /\ \A j \in 0 .. U!Count(r) - 2 : Wrap(Wrap(r.tail + 1) + j) = Wrap(r.tail + (j + 1))
  BY <1>1, <1>2, <1>3, <1>4, GapShrinks
<1>6. SlotAt(r, 0) = r.tail
  BY <1>1, <1>2 DEF RingSlot, Wrap
<1>7. ASSUME NEW j \in 0 .. U!Count(s) - 1 PROVE SlotAt(s, j) = SlotAt(r, j + 1)
  <2>1. j \in RingSlot /\ j + 1 \in RingSlot /\ j \in 0 .. U!Count(r) - 2
    BY <1>2, <1>4, <1>5 DEF RingSlot
  <2>2. SlotAt(s, j) = Wrap(Wrap(r.tail + 1) + j)
    BY <1>3, <1>4, <2>1
  <2>3. SlotAt(r, j + 1) = Wrap(r.tail + (j + 1))
    BY <1>2, <2>1
  <2> QED BY <1>5, <2>1, <2>2, <2>3
<1> QED BY <1>3, <1>5, <1>6, <1>7

\* Filling the free slots in order.
LEMMA RingFills ==
  ASSUME UartAssumption, NEW r \in RingType, NEW b \in Nat, NEW n \in 0 .. U!Free(r), NEW s,
         s = U!PutAll(r, b, n)
  PROVE  /\ s \in RingType /\ U!Count(s) = U!Count(r) + n
         /\ \A j \in 0 .. U!Count(r) - 1 : s.buf[SlotAt(s, j)] = r.buf[SlotAt(r, j)]
         /\ \A m \in 0 .. n - 1 : s.buf[SlotAt(s, U!Count(r) + m)] = b + m
<1> DEFINE place(i) == (i + BufSize - r.head) % BufSize
           f == [i \in RingSlot |-> IF place(i) < n THEN b + place(i) ELSE r.buf[i]]
           h == (r.head + n) % BufSize
<1>1. /\ r.head \in RingSlot /\ r.tail \in RingSlot /\ r.buf \in [RingSlot -> Nat]
  BY DEF RingType
<1>2. /\ U!Count(r) = Gap(r.head, r.tail) /\ U!Count(r) \in RingSlot
      /\ \A j \in RingSlot : SlotAt(r, j) = Wrap(r.tail + j) /\ SlotAt(r, j) \in RingSlot
      /\ BufSize \in Nat \ {0}
  BY <1>1, RingNumbers
<1>3. n \in 0 .. BufSize - 1 - Gap(r.head, r.tail) /\ n \in Nat /\ n \in 0 .. BufSize
  BY <1>2 DEF U!Free, RingSlot
<1>4. \A i \in RingSlot : place(i) = Gap(i, r.head) /\ place(i) \in Nat
  <2> TAKE i \in RingSlot
  <2>1. (i + BufSize - r.head) % BufSize = Gap(i, r.head) /\ Gap(i, r.head) \in RingSlot
    BY <1>1, Gaps
  <2> QED BY <1>2, <2>1 DEF RingSlot
<1>5. h = Wrap(r.head + n) /\ h \in RingSlot
  BY <1>1, <1>3, SlotSteps
<1>6. s = [r EXCEPT !.head = h, !.buf = f]
  <2>1. DOMAIN r.buf = RingSlot
    BY <1>1
  <2> QED BY <2>1 DEF U!PutAll
<1>7. f \in [RingSlot -> Nat]
  <2> HIDE DEF place
  <2> QED BY <1>1, <1>3, <1>4
<1>8. \A i \in RingSlot : f[i] = IF place(i) < n THEN b + place(i) ELSE r.buf[i]
  OBVIOUS
<1> HIDE DEF place, f, h
<1>9. s \in RingType /\ s.buf = f /\ s.head = h /\ s.tail = r.tail
  BY <1>1, <1>5, <1>6, <1>7 DEF RingType
<1>10. /\ U!Count(s) = Gap(h, r.tail)
       /\ \A j \in RingSlot : SlotAt(s, j) = Wrap(r.tail + j)
  BY <1>1, <1>5, <1>9, RingNumbers
<1>11. /\ U!Count(s) = U!Count(r) + n
       /\ \A j \in 0 .. U!Count(r) - 1 : Gap(Wrap(r.tail + j), r.head) >= n
       /\ \A m \in 0 .. n - 1 : Gap(Wrap(r.tail + (U!Count(r) + m)), r.head) = m
  BY <1>1, <1>2, <1>3, <1>5, <1>10, GapGrows
<1>12. ASSUME NEW j \in 0 .. U!Count(r) - 1 PROVE s.buf[SlotAt(s, j)] = r.buf[SlotAt(r, j)]
  <2>1. j \in RingSlot
    BY <1>2 DEF RingSlot
  <2>2. SlotAt(s, j) = SlotAt(r, j) /\ SlotAt(r, j) = Wrap(r.tail + j) /\ SlotAt(r, j) \in RingSlot
    BY <1>2, <1>10, <2>1
  <2>3. place(SlotAt(r, j)) >= n /\ place(SlotAt(r, j)) \in Nat
    BY <1>4, <1>11, <2>2
  <2> QED BY <1>3, <1>8, <1>9, <2>2, <2>3
<1>13. ASSUME NEW m \in 0 .. n - 1 PROVE s.buf[SlotAt(s, U!Count(r) + m)] = b + m
  <2> DEFINE i == SlotAt(s, U!Count(r) + m)
  <2>1. U!Count(r) + m \in RingSlot
    BY <1>2, <1>3 DEF RingSlot
  <2>2. i = Wrap(r.tail + (U!Count(r) + m)) /\ i \in RingSlot
    BY <1>2, <1>10, <2>1
  <2> HIDE DEF i
  <2>3. place(i) = m
    BY <1>4, <1>11, <2>2
  <2> QED BY <1>3, <1>8, <1>9, <2>2, <2>3 DEF i
<1> QED BY <1>9, <1>11, <1>12, <1>13

LEMMA RingPuts ==
  ASSUME UartAssumption, NEW r \in RingType, NEW b \in Nat, ~U!Full(r), NEW s, s = U!Put(r, b)
  PROVE  /\ s \in RingType /\ U!Count(s) = U!Count(r) + 1
         /\ \A j \in 0 .. U!Count(r) - 1 : s.buf[SlotAt(s, j)] = r.buf[SlotAt(r, j)]
         /\ s.buf[SlotAt(s, U!Count(r))] = b
<1>1. r.head \in RingSlot /\ r.tail \in RingSlot /\ r.buf \in [RingSlot -> Nat]
  BY DEF RingType
<1>2. /\ U!Count(r) = Gap(r.head, r.tail) /\ U!Count(r) \in RingSlot
      /\ \A j \in RingSlot : SlotAt(r, j) = Wrap(r.tail + j) /\ SlotAt(r, j) \in RingSlot
      /\ U!NextSlot(r.head) = Wrap(r.head + 1) /\ U!NextSlot(r.head) \in RingSlot
      /\ BufSize \in Nat \ {0}
  BY <1>1, RingNumbers
<1>3. 1 \in 0 .. BufSize - 1 - Gap(r.head, r.tail)
  <2>1. Wrap(r.head + 1) # r.tail
    BY <1>2 DEF U!Full
  <2> QED BY <1>1, <2>1, RoomForOne
<1> DEFINE f == [r.buf EXCEPT ![r.head] = b]
<1>4. s = [r EXCEPT !.head = U!NextSlot(r.head), !.buf = f]
  BY DEF U!Put
<1>5. f \in [RingSlot -> Nat] /\ f[r.head] = b /\ \A i \in RingSlot : i # r.head => f[i] = r.buf[i]
  BY <1>1
<1> HIDE DEF f
<1>6. s \in RingType /\ s.buf = f /\ s.head = Wrap(r.head + 1) /\ s.tail = r.tail
  BY <1>1, <1>2, <1>4, <1>5 DEF RingType
<1>7. /\ U!Count(s) = Gap(Wrap(r.head + 1), r.tail)
      /\ \A j \in RingSlot : SlotAt(s, j) = Wrap(r.tail + j)
  BY <1>1, <1>2, <1>6, RingNumbers
<1>8. /\ U!Count(s) = U!Count(r) + 1 /\ Wrap(r.tail + U!Count(r)) = r.head
      /\ \A j \in 0 .. U!Count(r) - 1 : Wrap(r.tail + j) # r.head
  BY <1>1, <1>2, <1>3, <1>7, GapGrows
<1>9. ASSUME NEW j \in 0 .. U!Count(r) - 1 PROVE s.buf[SlotAt(s, j)] = r.buf[SlotAt(r, j)]
  <2>1. j \in RingSlot
    BY <1>2 DEF RingSlot
  <2>2. SlotAt(s, j) = SlotAt(r, j) /\ SlotAt(r, j) \in RingSlot /\ SlotAt(r, j) # r.head
    BY <1>2, <1>7, <1>8, <2>1
  <2> QED BY <1>5, <1>6, <2>2
<1>10. s.buf[SlotAt(s, U!Count(r))] = b
  BY <1>2, <1>5, <1>6, <1>7, <1>8
<1> QED BY <1>6, <1>8, <1>9, <1>10

LEMMA UartStart == ASSUME UartAssumption, U!Init PROVE UartInv
<1>1. BufSize \in Nat \ {0} /\ <<>> \in Seq(Nat) /\ Len(<<>>) = 0 /\ 0 \in RingSlot
  BY EmptySeq DEF UartAssumption, RingSlot
<1>2. U!Ring \in RingType /\ U!Ring.head = 0 /\ U!Ring.tail = 0
  BY <1>1 DEF U!Ring, RingType, RingSlot
<1>3. U!Count(U!Ring) = 0
  BY <1>1, <1>2, RingNumbers DEF Gap
<1>4. UartTypes
  BY <1>1, <1>2 DEF U!Init, UartTypes
<1>5. RingOwners
  BY <1>1, <1>2 DEF U!Init, RingOwners
<1>6. InDevice /\ InQueue
  BY <1>1, <1>3 DEF U!Init, InDevice, InQueue, Reached
<1>7. InReceiver
  BY <1>1, <1>3 DEF U!Init, InReceiver, Skipped, Waiting
<1> QED BY <1>4, <1>5, <1>6, <1>7 DEF UartInv

LEMMA CountTyped ==
  ASSUME UartAssumption, UartTypes
  PROVE  /\ U!Count(uTx) \in RingSlot /\ U!Count(uRx) \in RingSlot /\ U!Count(uTx) \in Nat
              /\ U!Count(uRx) \in Nat
         /\ uTx.head = uTx.tail <=> U!Count(uTx) = 0
         /\ uRx.head = uRx.tail <=> U!Count(uRx) = 0
         /\ Reached \in Nat /\ Skipped \in Nat /\ Waiting \in Nat
         /\ Len(txFifo) \in Nat /\ Len(rxFifo) \in Nat /\ Len(console) \in Nat
<1>1. /\ uTx.head \in RingSlot /\ uTx.tail \in RingSlot /\ uRx.head \in RingSlot
           /\ uRx.tail \in RingSlot
      /\ BufSize \in Nat \ {0}
  BY DEF UartTypes, RingType, UartAssumption
<1>2. U!Count(uTx) = Gap(uTx.head, uTx.tail) /\ U!Count(uTx) \in RingSlot
  BY <1>1, RingNumbers
<1>3. U!Count(uRx) = Gap(uRx.head, uRx.tail) /\ U!Count(uRx) \in RingSlot
  BY <1>1, RingNumbers
<1>4. \A h, t \in RingSlot : h = t <=> Gap(h, t) = 0
  BY <1>1 DEF Gap, RingSlot
<1>5. Len(txFifo) \in Nat /\ Len(rxFifo) \in Nat /\ Len(console) \in Nat
  BY LenProperties DEF UartTypes
<1>6. U!Count(uTx) \in Nat /\ U!Count(uRx) \in Nat
  BY <1>2, <1>3 DEF RingSlot
<1>7. Reached \in Nat /\ Skipped \in Nat /\ Waiting \in Nat
  BY <1>5, <1>6 DEF Reached, Skipped, Waiting, UartTypes
<1>8. uTx.head = uTx.tail <=> U!Count(uTx) = 0
  BY <1>1, <1>2, <1>4
<1>9. uRx.head = uRx.tail <=> U!Count(uRx) = 0
  BY <1>1, <1>3, <1>4
<1> QED BY <1>2, <1>3, <1>5, <1>6, <1>7, <1>8, <1>9

\* A step that moves nothing on its way out, and one that moves nothing on its
\* way in.
LEMMA OutRests ==
  ASSUME UartInv, UNCHANGED <<txFifo, shift, uTx, console, asked, sent>> PROVE InDevice' /\ InQueue'
<1>1. Reached' = Reached /\ U!Count(uTx)' = U!Count(uTx) /\ \A j : SlotAt(uTx, j)' = SlotAt(uTx, j)
  BY DEF Reached, U!Count, SlotAt
<1>2. InDevice'
  BY DEF UartInv, InDevice
<1>3. InQueue'
  BY <1>1 DEF UartInv, InQueue
<1> QED BY <1>2, <1>3

LEMMA InRests ==
  ASSUME UartInv, UNCHANGED <<uRx, rxFifo, rxDropped, arrived, lost, taken, got>> PROVE InReceiver'
<1>1. /\ Skipped' = Skipped /\ Waiting' = Waiting /\ U!Count(uRx)' = U!Count(uRx)
      /\ \A i : RxAt(i)' = RxAt(i)
  BY DEF Skipped, Waiting, U!Count, RxAt, SlotAt
<1> QED BY <1>1 DEF UartInv, InReceiver

LEMMA WriteTxIs ==
  ASSUME UartAssumption, UartTypes, InDevice, U!TxReady, NEW b, b = Reached + 1, U!WriteTx(b),
           sent' = sent
  PROVE  InDevice' /\ Reached' = Reached + 1 /\ txFifo' \in Seq(Nat) /\ shift' \in Nat
<1>1. Reached \in Nat /\ Len(txFifo) \in Nat /\ b \in Nat /\ sent \in Nat /\ shift \in Nat
        /\ txFifo \in Seq(Nat)
  BY CountTyped DEF UartTypes
<1>2. CASE ~U!TxBusy
  <2>1. shift = 0 /\ txFifo = <<>> /\ shift' = b /\ txFifo' = txFifo
    BY <1>2 DEF U!TxBusy, U!WriteTx
  <2>2. b = sent + 1 /\ Len(txFifo) = 0 /\ b # 0
    BY <1>1, <2>1 DEF Reached
  <2> QED BY <1>1, <2>1, <2>2 DEF InDevice, Reached
<1>3. CASE U!TxBusy
  <2>1. shift # 0 /\ shift' = shift /\ txFifo' = Append(txFifo, b)
    BY <1>3 DEF U!TxBusy, U!WriteTx, InDevice
  <2>2. b = sent + 1 + Len(txFifo) + 1
    BY <1>1, <2>1 DEF Reached
  <2>3. /\ txFifo' \in Seq(Nat) /\ Len(txFifo') = Len(txFifo) + 1
        /\ \A i \in 1 .. Len(txFifo) : txFifo'[i] = txFifo[i]
        /\ txFifo'[Len(txFifo) + 1] = b
    BY <1>1, <2>1, AppendProperties
  <2>4. ASSUME NEW i \in 1 .. Len(txFifo') PROVE txFifo'[i] = sent' + 1 + i
    <3>1. CASE i = Len(txFifo) + 1
      BY <1>1, <2>2, <2>3, <3>1
    <3>2. CASE i # Len(txFifo) + 1
      <4>1. i \in 1 .. Len(txFifo)
        BY <1>1, <2>3, <3>2
      <4> QED BY <2>3, <4>1 DEF InDevice
    <3> QED BY <3>1, <3>2
  <2>5. InDevice'
    BY <2>1, <2>4 DEF InDevice
  <2>6. Reached' = Reached + 1
    BY <1>1, <2>1, <2>3 DEF Reached
  <2> QED BY <1>1, <2>1, <2>3, <2>5, <2>6
<1> QED BY <1>2, <1>3

LEMMA ShiftOutIs ==
  ASSUME UartAssumption, UartTypes, InDevice, U!ShiftOut
  PROVE  /\ InDevice' /\ Reached' = Reached /\ sent' = sent + 1 /\ sent' \in Nat
         /\ txFifo' \in Seq(Nat) /\ shift' \in Nat /\ (U!TxReady => U!TxReady')
<1>1. /\ Len(txFifo) \in Nat /\ sent \in Nat /\ txFifo \in Seq(Nat) /\ TxDepth \in Nat
      /\ shift # 0 /\ shift = sent + 1 /\ sent' = sent + 1
  BY CountTyped DEF UartTypes, U!ShiftOut, InDevice, UartAssumption
<1>2. CASE txFifo = <<>>
  <2>1. shift' = 0 /\ txFifo' = <<>> /\ Len(txFifo) = 0 /\ <<>> \in Seq(Nat)
    BY <1>2, EmptySeq DEF U!ShiftOut
  <2>2. Reached' = Reached
    BY <1>1, <1>2, <2>1 DEF Reached
  <2> QED BY <1>1, <1>2, <2>1, <2>2 DEF InDevice, U!TxReady
<1>3. CASE txFifo # <<>>
  <2>1. shift' = Head(txFifo) /\ txFifo' = Tail(txFifo)
    BY <1>3 DEF U!ShiftOut
  <2>2. /\ txFifo' \in Seq(Nat) /\ Len(txFifo') = Len(txFifo) - 1
        /\ \A i \in 1 .. Len(txFifo') : txFifo'[i] = txFifo[i + 1]
    BY <1>1, <1>3, <2>1, HeadTailProperties
  <2>3. Len(txFifo) > 0 /\ Head(txFifo) = txFifo[1]
    BY <1>1, <1>3, EmptySeq
  <2>4. shift' = sent + 2
    BY <1>1, <2>1, <2>3 DEF InDevice
  <2>5. ASSUME NEW i \in 1 .. Len(txFifo') PROVE txFifo'[i] = sent' + 1 + i
    <3>1. i + 1 \in 1 .. Len(txFifo)
      BY <1>1, <2>2
    <3> QED BY <1>1, <2>2, <3>1 DEF InDevice
  <2>6. InDevice'
    BY <1>1, <2>4, <2>5 DEF InDevice
  <2>7. Reached' = Reached
    <3>1. Reached = sent + 1 + Len(txFifo)
      BY <1>1 DEF Reached
    <3>2. shift' # 0
      BY <1>1, <2>4
    <3>3. Reached' = sent' + 1 + Len(txFifo')
      BY <3>2 DEF Reached
    <3> QED BY <1>1, <2>2, <3>1, <3>3
  <2>8. U!TxReady => U!TxReady'
    BY <1>1, <2>2 DEF U!TxReady
  <2> QED BY <1>1, <2>2, <2>4, <2>6, <2>7, <2>8
<1> QED BY <1>2, <1>3

LEMMA RxAtTyped ==
  ASSUME UartAssumption, UartTypes, NEW i \in 1 .. Waiting PROVE RxAt(i) \in Nat
<1>1. /\ U!Count(uRx) \in RingSlot /\ U!Count(uRx) \in Nat /\ Len(rxFifo) \in Nat
           /\ BufSize \in Nat \ {0}
  BY CountTyped DEF UartAssumption
<1>2. CASE i <= U!Count(uRx)
  <2>1. i - 1 \in RingSlot
    BY <1>1, <1>2 DEF RingSlot
  <2>2. SlotAt(uRx, i - 1) \in RingSlot /\ uRx.buf \in [RingSlot -> Nat]
    BY <2>1, RingNumbers DEF UartTypes, RingType
  <2> QED BY <1>2, <2>2 DEF RxAt
<1>3. CASE ~(i <= U!Count(uRx))
  <2>1. i - U!Count(uRx) \in 1 .. Len(rxFifo)
    BY <1>1, <1>3 DEF Waiting
  <2>2. rxFifo[i - U!Count(uRx)] \in Nat
    BY <2>1, ElementOfSeq DEF UartTypes
  <2> QED BY <1>3, <2>2 DEF RxAt
<1> QED BY <1>2, <1>3

\* One of the waiting bytes is gone: returned, as the first, or dropped.
LEMMA InLosesOne ==
  ASSUME UartAssumption, UartInv, NEW d \in 1 .. Waiting, Waiting' = Waiting - 1,
         Skipped' = Skipped + 1, arrived' = arrived,
         got' = got \/ (d = 1 /\ got' = RxAt(1)),
         \A i \in 1 .. Waiting - 1 : RxAt(i)' = IF i < d THEN RxAt(i) ELSE RxAt(i + 1)
  PROVE  InReceiver'
<1>1. Waiting \in Nat /\ Skipped \in Nat /\ arrived \in Nat /\ got \in Nat
  BY CountTyped DEF UartInv, UartTypes
<1>2. /\ arrived = Skipped + Waiting /\ got <= Skipped
      /\ \A i \in 1 .. Waiting : /\ got < RxAt(i) /\ RxAt(i) <= Skipped + i
                                 /\ \A h \in 1 .. i - 1 : RxAt(h) < RxAt(i)
  BY DEF UartInv, InReceiver
<1>3. \A i \in 1 .. Waiting : RxAt(i) \in Nat
  BY RxAtTyped DEF UartInv
<1>4. arrived' = Skipped' + Waiting' /\ got' <= Skipped'
  BY <1>1, <1>2, <1>3
<1>5. ASSUME NEW i \in 1 .. Waiting'
      PROVE  /\ got' < RxAt(i)' /\ RxAt(i)' <= Skipped' + i
             /\ \A h \in 1 .. i - 1 : RxAt(h)' < RxAt(i)'
  <2> DEFINE to(n) == IF n < d THEN n ELSE n + 1
  <2>1. i \in 1 .. Waiting - 1 /\ \A n \in 1 .. i : n \in 1 .. Waiting - 1
    BY <1>1
  <2>2. \A n \in 1 .. i : RxAt(n)' = RxAt(to(n)) /\ to(n) \in 1 .. Waiting
    BY <1>1, <2>1
  <2>3. RxAt(i)' <= Skipped' + i
    BY <1>1, <1>2, <1>3, <2>1, <2>2
  <2>4. got' < RxAt(i)'
    BY <1>1, <1>2, <1>3, <2>1, <2>2
  <2>5. ASSUME NEW h \in 1 .. i - 1 PROVE RxAt(h)' < RxAt(i)'
    <3>1. to(h) \in 1 .. to(i) - 1 /\ h \in 1 .. i /\ i \in 1 .. i
      BY <1>1, <2>1
    <3> HIDE DEF to
    <3> QED BY <1>2, <2>2, <3>1
  <2> QED BY <2>3, <2>4, <2>5
<1> QED BY <1>4, <1>5 DEF InReceiver

\* The queue when nothing but the device has moved, and when a byte has left it.
LEMMA QueueRests ==
  ASSUME UartInv, Reached' = Reached, UNCHANGED <<uTx, console, asked>> PROVE InQueue'
<1>1. U!Count(uTx)' = U!Count(uTx) /\ \A j : SlotAt(uTx, j)' = SlotAt(uTx, j)
  BY DEF U!Count, SlotAt
<1> QED BY <1>1 DEF UartInv, InQueue

LEMMA ShiftOutKeeps == ASSUME UartAssumption, UartInv, U!ShiftOut PROVE UartInv'
<1>1. UNCHANGED <<uPort, rxFifo, en, uTx, uRx, rxDropped, console, task, uIrqAt, svc, hooked, asked,
                  arrived, lost, taken, got>>
  BY DEF U!ShiftOut, U!rings, U!cpu, U!input, U!output
<1>2. /\ InDevice' /\ Reached' = Reached /\ sent' \in Nat
      /\ txFifo' \in Seq(Nat) /\ shift' \in Nat /\ (U!TxReady => U!TxReady')
  BY ShiftOutIs DEF UartInv
<1>3. UartTypes'
  BY <1>1, <1>2 DEF UartInv, UartTypes
<1>4. RingOwners'
  BY <1>1, <1>2 DEF UartInv, RingOwners, U!Ring
<1>5. InQueue'
  BY <1>1, <1>2, QueueRests
<1>6. InReceiver'
  BY <1>1, InRests
<1> QED BY <1>2, <1>3, <1>4, <1>5, <1>6 DEF UartInv

LEMMA InGrows ==
  ASSUME UartAssumption, UartInv, NEW n \in Nat, n = Waiting + 1, Waiting' = n,
         arrived' = arrived + 1, Skipped' = Skipped, got' = got, RxAt(n)' = arrived + 1,
         \A i \in 1 .. Waiting : RxAt(i)' = RxAt(i)
  PROVE  InReceiver'
<1>1. Waiting \in Nat /\ Skipped \in Nat /\ arrived \in Nat /\ got \in Nat
  BY CountTyped DEF UartInv, UartTypes
<1>2. /\ arrived = Skipped + Waiting /\ got <= Skipped
      /\ \A i \in 1 .. Waiting : /\ got < RxAt(i) /\ RxAt(i) <= Skipped + i
                                 /\ \A h \in 1 .. i - 1 : RxAt(h) < RxAt(i)
  BY DEF UartInv, InReceiver
<1>3. \A i \in 1 .. Waiting : RxAt(i) \in Nat
  BY RxAtTyped DEF UartInv
<1>4. arrived' = Skipped' + Waiting' /\ got' <= Skipped'
  BY <1>1, <1>2
<1>5. ASSUME NEW i \in 1 .. Waiting'
      PROVE  /\ got' < RxAt(i)' /\ RxAt(i)' <= Skipped' + i
             /\ \A h \in 1 .. i - 1 : RxAt(h)' < RxAt(i)'
  <2>1. CASE i \in 1 .. Waiting
    <3>1. \A h \in 1 .. i - 1 : h \in 1 .. Waiting
      BY <1>1, <2>1
    <3> QED BY <1>2, <2>1, <3>1
  <2>2. CASE i = Waiting + 1
    <3>1. RxAt(i)' = Skipped + i
      BY <1>1, <1>2, <2>2
    <3>2. \A h \in 1 .. i - 1 : h \in 1 .. Waiting /\ RxAt(h)' = RxAt(h) /\ RxAt(h) <= Skipped + h
      BY <1>1, <1>2, <2>2
    <3>3. \A h \in 1 .. i - 1 : RxAt(h)' < RxAt(i)'
      BY <1>1, <1>3, <2>2, <3>1, <3>2
    <3>4. got' < RxAt(i)'
      BY <1>1, <1>2, <2>2, <3>1
    <3> QED BY <1>1, <2>2, <3>1, <3>3, <3>4
  <2> QED BY <1>1, <2>1, <2>2
<1> QED BY <1>4, <1>5 DEF InReceiver

LEMMA ByteArrivesKeeps == ASSUME UartAssumption, UartInv, U!ByteArrives PROVE UartInv'
<1>1. /\ UNCHANGED <<uPort, txFifo, shift, en, uTx, uRx, rxDropped, console, task, uIrqAt, svc, hooked,
           asked,
                     sent, taken, got>>
      /\ arrived' = arrived + 1
  BY DEF U!ByteArrives, U!rings, U!cpu, U!output
<1>2. /\ U!Count(uRx) \in Nat /\ Len(rxFifo) \in Nat /\ arrived \in Nat /\ lost \in Nat
           /\ rxFifo \in Seq(Nat)
      /\ Skipped \in Nat /\ Waiting \in Nat /\ taken \in Nat /\ rxDropped \in Nat
  BY CountTyped DEF UartInv, UartTypes
<1>3. /\ U!Count(uRx)' = U!Count(uRx) /\ \A j : SlotAt(uRx, j)' = SlotAt(uRx, j)
  BY <1>1 DEF U!Count, SlotAt
<1>4. InDevice' /\ InQueue'
  BY <1>1, OutRests
<1>5. RingOwners'
  BY <1>1 DEF UartInv, RingOwners, U!Ring, U!TxReady
<1>6. arrived' \in Nat /\ lost + 1 \in Nat
  BY <1>1, <1>2
<1>7. UartTypes /\ UNCHANGED <<txFifo, shift, uTx, uRx, rxDropped, console, asked, sent, taken, got>>
  BY <1>1 DEF UartInv
<1>8. CASE Len(rxFifo) < RxDepth
  <2>1. rxFifo' = Append(rxFifo, arrived + 1) /\ lost' = lost
    BY <1>8 DEF U!ByteArrives
  <2>2. /\ rxFifo' \in Seq(Nat) /\ Len(rxFifo') = Len(rxFifo) + 1
        /\ \A i \in 1 .. Len(rxFifo) : rxFifo'[i] = rxFifo[i]
        /\ rxFifo'[Len(rxFifo) + 1] = arrived + 1
    BY <1>2, <2>1, AppendProperties
  <2>3. Waiting' = Waiting + 1 /\ Skipped' = Skipped
    BY <1>1, <1>2, <1>3, <2>1, <2>2 DEF Waiting, Skipped
  <2>4. PICK k \in Nat : k = Waiting + 1
    BY <1>2
  <2>5. RxAt(k)' = arrived + 1
    <3>1. k \in Nat /\ ~(k <= U!Count(uRx)) /\ k - U!Count(uRx) = Len(rxFifo) + 1
      BY <1>2, <2>4 DEF Waiting
    <3>2. RxAt(k)' = rxFifo'[k - U!Count(uRx)]
      BY <1>3, <3>1 DEF RxAt
    <3> QED BY <2>2, <3>1, <3>2
  <2>6. ASSUME NEW i \in 1 .. Waiting PROVE RxAt(i)' = RxAt(i)
    <3>1. CASE i <= U!Count(uRx)
      BY <1>1, <1>3, <3>1 DEF RxAt
    <3>2. CASE ~(i <= U!Count(uRx))
      <4>1. i - U!Count(uRx) \in 1 .. Len(rxFifo)
        BY <1>2, <3>2 DEF Waiting
      <4> QED BY <1>3, <2>2, <3>2, <4>1 DEF RxAt
    <3> QED BY <3>1, <3>2
  <2>7. InReceiver'
    BY <1>1, <2>3, <2>4, <2>5, <2>6, InGrows
  <2> QED BY <1>4, <1>5, <1>6, <1>7, <2>1, <2>2, <2>7 DEF UartInv, UartTypes
<1>9. CASE ~(Len(rxFifo) < RxDepth)
  <2>1. rxFifo' = rxFifo /\ lost' = lost + 1
    BY <1>9 DEF U!ByteArrives
  <2>2. Waiting' = Waiting /\ Skipped' = Skipped + 1 /\ \A i : RxAt(i)' = RxAt(i)
    BY <1>1, <1>2, <1>3, <2>1 DEF Waiting, Skipped, RxAt
  <2>3. \A i \in 1 .. Waiting : RxAt(i) \in Nat
    BY RxAtTyped DEF UartInv
  <2>4. arrived' = Skipped' + Waiting' /\ got' <= Skipped'
    BY <1>1, <1>2, <2>2 DEF UartInv, UartTypes, InReceiver
  <2>5. InReceiver'
    BY <1>1, <1>2, <2>2, <2>3, <2>4 DEF UartInv, InReceiver
  <2> QED BY <1>4, <1>5, <1>6, <1>7, <2>1, <2>5 DEF UartInv, UartTypes
<1> QED BY <1>8, <1>9

\* A step that moves no byte.
LEMMA StillKeeps ==
  ASSUME UartInv, RingOwners',
         UNCHANGED <<txFifo, shift, rxFifo, uTx, uRx, rxDropped, console, asked, sent, arrived, lost,
           taken, got>>
  PROVE  UartInv'
<1>1. UartTypes'
  BY DEF UartInv, UartTypes
<1>2. InDevice' /\ InQueue'
  BY OutRests
<1>3. InReceiver'
  BY InRests
<1> QED BY <1>1, <1>2, <1>3 DEF UartInv

LEMMA AsyncInitKeeps == ASSUME UartAssumption, UartInv, U!AsyncInit PROVE UartInv'
<1>1. /\ uPort = "async" /\ task = "start" /\ task' = "idle" /\ uTx' = U!Ring /\ uRx' = U!Ring
           /\ rxDropped' = 0
      /\ UNCHANGED <<uPort, txFifo, shift, rxFifo, console, uIrqAt, svc, hooked, asked, sent,
                     arrived, lost, taken, got>>
  BY DEF U!AsyncInit, U!input, U!output
<1>2. UNCHANGED <<uTx, uRx, rxDropped>>
  BY <1>1 DEF UartInv, RingOwners, U!Ring
<1>3. RingOwners'
  BY <1>1, <1>2 DEF UartInv, RingOwners
<1> QED BY <1>1, <1>2, <1>3, StillKeeps

LEMMA IrqEnterKeeps == ASSUME UartAssumption, UartInv, U!IrqEnter PROVE UartInv'
<1>1. /\ uPort = "async" /\ uIrqAt' = "rx" /\ en # {}
      /\ UNCHANGED <<uPort, txFifo, shift, rxFifo, uTx, uRx, rxDropped, console, task, svc, hooked,
           asked, sent,
                     arrived, lost, taken, got>>
  BY DEF U!IrqEnter, U!Line, U!line, U!rings, U!input, U!output
<1>2. task # "start"
  BY <1>1 DEF UartInv, RingOwners
<1>3. RingOwners'
  BY <1>1, <1>2 DEF UartInv, RingOwners, U!TxReady
<1> QED BY <1>1, <1>3, StillKeeps

LEMMA IrqEndKeeps == ASSUME UartAssumption, UartInv, U!IrqEnd PROVE UartInv'
<1>1. /\ uPort = "async" /\ uIrqAt = "err" /\ uIrqAt' = "no"
      /\ UNCHANGED <<uPort, txFifo, shift, rxFifo, en, uTx, uRx, rxDropped, console, task, svc, hooked,
           asked, sent,
                     arrived, lost, taken, got>>
  BY DEF U!IrqEnd, U!rings, U!input, U!output
<1>2. RingOwners'
  BY <1>1 DEF UartInv, RingOwners, U!TxReady, U!Ring
<1> QED BY <1>1, <1>2, StillKeeps

LEMMA StartsKeep == ASSUME UartAssumption, UartInv, U!UartInit \/ U!ZephyrInit PROVE UartInv'
<1>1. /\ uPort # "async" /\ task' = "idle"
      /\ UNCHANGED <<uPort, txFifo, shift, rxFifo, en, uTx, uRx, rxDropped, console, uIrqAt, svc,
           hooked, asked, sent,
                     arrived, lost, taken, got>>
  BY DEF U!UartInit, U!ZephyrInit, U!polledRest, U!rings, U!input, U!output
<1>2. RingOwners'
  BY <1>1 DEF UartInv, RingOwners
<1> QED BY <1>1, <1>2, StillKeeps

LEMMA ConsoleInitKeeps == ASSUME UartAssumption, UartInv, U!ConsoleInit PROVE UartInv'
<1>1. /\ uPort = "zephyr" /\ task = "idle" /\ hooked'
      /\ UNCHANGED <<uPort, txFifo, shift, rxFifo, en, uTx, uRx, rxDropped, console, uIrqAt, svc, task,
           asked, sent,
                     arrived, lost, taken, got>>
  BY DEF U!ConsoleInit, U!line, U!rings, U!input, U!output
<1>2. RingOwners'
  BY <1>1 DEF UartInv, RingOwners
<1> QED BY <1>1, <1>2, StillKeeps

LEMMA UartIsrKeeps == ASSUME UartAssumption, UartInv, U!Isr PROVE UartInv'
<1>1. /\ uPort = "zephyr" /\ en # {}
      /\ UNCHANGED <<uPort, txFifo, shift, rxFifo, uTx, uRx, rxDropped, console, svc, task, hooked,
           asked, sent,
                     arrived, lost, taken, got>>
      /\ hooked \/ uIrqAt' = uIrqAt
  BY DEF U!Isr, U!IrqIsPending, U!Line, U!line, U!rings, U!input, U!output
<1>2. task # "start"
  BY <1>1 DEF UartInv, RingOwners
<1>3. RingOwners'
  BY <1>1, <1>2 DEF UartInv, RingOwners, U!TxReady
<1> QED BY <1>1, <1>3, StillKeeps

LEMMA ErrCheckKeeps == ASSUME UartAssumption, UartInv, U!ErrCheck PROVE UartInv'
<1>1. /\ uPort = "zephyr" /\ uIrqAt = "err" /\ uIrqAt' = "no"
      /\ UNCHANGED <<uPort, txFifo, shift, rxFifo, en, uTx, uRx, rxDropped, console, svc, task, hooked,
           asked, sent,
                     arrived, lost, taken, got>>
  BY DEF U!ErrCheck, U!rings, U!input, U!output
<1>2. RingOwners'
  BY <1>1 DEF UartInv, RingOwners, U!TxReady, U!Ring
<1> QED BY <1>1, <1>2, StillKeeps

\* The library accepts bytes into its ring.
LEMMA AsyncWriteKeeps == ASSUME UartAssumption, UartInv, U!AsyncWrite PROVE UartInv'
<1>1. /\ uPort = "async" /\ task' = "masked" /\ svc' = "loop"
      /\ UNCHANGED <<uPort, txFifo, shift, rxFifo, uRx, rxDropped, console, uIrqAt, hooked, sent,
                     arrived, lost, taken, got>>
  BY DEF U!AsyncWrite, U!line, U!input, U!output
<1>2. PICK n \in 1 .. Bytes - asked :
        /\ uTx' = U!PutAll(uTx, asked + 1, IF n < U!Free(uTx) THEN n ELSE U!Free(uTx))
        /\ asked' = asked + (IF n < U!Free(uTx) THEN n ELSE U!Free(uTx))
  BY DEF U!AsyncWrite
<1> DEFINE put == IF n < U!Free(uTx) THEN n ELSE U!Free(uTx)
<1>3. /\ uTx \in RingType /\ asked \in Nat /\ asked + 1 \in Nat /\ U!Count(uTx) \in 0 .. BufSize - 1
           /\ BufSize \in Nat
      /\ U!Count(uTx) \in Nat /\ Reached \in Nat
  BY CountTyped DEF UartInv, UartTypes, UartAssumption, RingSlot
<1>4. U!Free(uTx) = BufSize - 1 - U!Count(uTx)
  BY DEF U!Free
<1>5. n \in Nat
  BY <1>3 DEF UartAssumption
<1>6. put \in 0 .. U!Free(uTx) /\ put \in Nat
  BY <1>3, <1>4, <1>5
<1>7. uTx' = U!PutAll(uTx, asked + 1, put) /\ asked' = asked + put
  BY <1>2
<1> HIDE DEF put
<1>8. /\ uTx' \in RingType /\ U!Count(uTx') = U!Count(uTx) + put
      /\ \A j \in 0 .. U!Count(uTx) - 1 : uTx'.buf[SlotAt(uTx', j)] = uTx.buf[SlotAt(uTx, j)]
      /\ \A m \in 0 .. put - 1 : uTx'.buf[SlotAt(uTx', U!Count(uTx) + m)] = asked + 1 + m
  <2>1. uTx \in RingType /\ asked + 1 \in Nat /\ put \in 0 .. U!Free(uTx)
    BY <1>3, <1>6
  <2> QED BY <1>7, <2>1, RingFills
<1>9. /\ U!Count(uTx)' = U!Count(uTx') /\ \A j : SlotAt(uTx, j)' = SlotAt(uTx', j)
  BY DEF U!Count, SlotAt
<1>10. Reached' = Reached /\ InDevice'
  BY <1>1 DEF UartInv, InDevice, Reached
<1>11. /\ console = <<>> /\ Len(console) = 0
  BY <1>1, EmptySeq DEF UartInv, RingOwners
<1>12. asked = Reached + U!Count(uTx)
  BY <1>3, <1>11 DEF UartInv, InQueue
<1>13. ASSUME NEW j \in 0 .. U!Count(uTx') - 1 PROVE uTx'.buf[SlotAt(uTx', j)] = Reached + 1 + j
  <2>1. CASE j < U!Count(uTx)
    <3>1. j \in 0 .. U!Count(uTx) - 1
      BY <1>3, <2>1
    <3>2. uTx.buf[SlotAt(uTx, j)] = Reached + 1 + j
      BY <3>1 DEF UartInv, InQueue
    <3> QED BY <1>8, <3>1, <3>2
  <2>2. CASE ~(j < U!Count(uTx))
    <3>1. PICK m \in 0 .. put - 1 : j = U!Count(uTx) + m
      <4>1. j - U!Count(uTx) \in 0 .. put - 1 /\ j = U!Count(uTx) + (j - U!Count(uTx))
        BY <1>3, <1>6, <1>8, <2>2
      <4> QED BY <4>1
    <3> QED BY <1>3, <1>6, <1>8, <1>12, <3>1
  <2> QED BY <2>1, <2>2
<1>14. asked' = Reached' + U!Count(uTx)' + Len(console')
  <2>1. asked' = Reached + U!Count(uTx) + put
    BY <1>7, <1>12
  <2>2. U!Count(uTx)' = U!Count(uTx) + put /\ Len(console') = 0
    BY <1>1, <1>8, <1>9, <1>11
  <2> QED BY <1>3, <1>6, <1>10, <2>1, <2>2
<1>15. InQueue'
  <2>1. \A i \in 1 .. Len(console') : console'[i] = Reached' + i
    BY <1>1, <1>11
  <2>2. \A j \in 0 .. U!Count(uTx)' - 1 : uTx'.buf[SlotAt(uTx, j)'] = Reached' + 1 + j
    BY <1>9, <1>10, <1>13
  <2> QED BY <1>14, <2>1, <2>2 DEF InQueue
<1>16. UartTypes'
  BY <1>1, <1>3, <1>6, <1>7, <1>8 DEF UartInv, UartTypes
<1>17. RingOwners'
  BY <1>1 DEF UartInv, RingOwners
<1>18. InReceiver'
  BY <1>1, InRests
<1> QED BY <1>10, <1>15, <1>16, <1>17, <1>18 DEF UartInv

\* uart_getc of the library takes the oldest byte of its ring.
LEMMA AsyncGetcKeeps == ASSUME UartAssumption, UartInv, U!AsyncGetc PROVE UartInv' /\ got' = RxAt(1)
<1>1. /\ uPort = "async" /\ task = "idle" /\ uRx.tail # uRx.head
           /\ uRx' = [uRx EXCEPT !.tail = U!NextSlot(@)]
      /\ got' = uRx.buf[uRx.tail] /\ taken' = taken + 1
      /\ UNCHANGED <<uPort, txFifo, shift, rxFifo, en, uTx, rxDropped, console, task, uIrqAt, svc,
           hooked, asked,
                     sent, arrived, lost>>
  BY DEF U!AsyncGetc, U!line, U!cpu, U!input
<1>2. /\ uRx \in RingType /\ U!Count(uRx) \in Nat /\ Len(rxFifo) \in Nat /\ Waiting \in Nat
      /\ taken \in Nat /\ lost \in Nat /\ rxDropped \in Nat
  BY CountTyped DEF UartInv, UartTypes
<1>3. /\ uRx' \in RingType /\ uRx'.buf = uRx.buf /\ U!Count(uRx) > 0 /\ U!Count(uRx') = U!Count(uRx) - 1
      /\ SlotAt(uRx, 0) = uRx.tail
      /\ \A j \in 0 .. U!Count(uRx') - 1 : SlotAt(uRx', j) = SlotAt(uRx, j + 1)
  BY <1>1, <1>2, RingTakes
<1>4. U!Count(uRx)' = U!Count(uRx') /\ \A j : SlotAt(uRx, j)' = SlotAt(uRx', j)
  BY DEF U!Count, SlotAt
<1>5. Waiting' = Waiting - 1 /\ Skipped' = Skipped + 1 /\ 1 \in 1 .. Waiting
  <2>1. Waiting = U!Count(uRx) + Len(rxFifo) /\ Waiting' = U!Count(uRx') + Len(rxFifo)
    BY <1>1, <1>4 DEF Waiting
  <2>2. Skipped' = Skipped + 1
    BY <1>1, <1>2 DEF Skipped
  <2> QED BY <1>2, <1>3, <2>1, <2>2
<1>6. got' = RxAt(1)
  BY <1>1, <1>2, <1>3 DEF RxAt
<1>7. ASSUME NEW i \in 1 .. Waiting - 1 PROVE RxAt(i)' = RxAt(i + 1)
  <2>1. CASE i <= U!Count(uRx) - 1
    <3>1. i - 1 \in 0 .. U!Count(uRx') - 1 /\ (i - 1) + 1 = (i + 1) - 1 /\ i + 1 <= U!Count(uRx)
            /\ i \in Nat
      BY <1>2, <1>3, <2>1
    <3>2. RxAt(i)' = uRx'.buf[SlotAt(uRx', i - 1)]
      BY <1>3, <1>4, <2>1 DEF RxAt
    <3>3. SlotAt(uRx', i - 1) = SlotAt(uRx, (i + 1) - 1)
      BY <1>3, <3>1
    <3>4. RxAt(i + 1) = uRx.buf[SlotAt(uRx, (i + 1) - 1)]
      BY <3>1 DEF RxAt
    <3> QED BY <1>3, <3>2, <3>3, <3>4
  <2>2. CASE ~(i <= U!Count(uRx) - 1)
    <3>1. /\ i - U!Count(uRx') = (i + 1) - U!Count(uRx) /\ ~(i + 1 <= U!Count(uRx))
               /\ ~(i <= U!Count(uRx'))
      BY <1>2, <1>3, <2>2
    <3>2. RxAt(i)' = rxFifo'[i - U!Count(uRx')]
      BY <1>4, <3>1 DEF RxAt
    <3>3. RxAt(i + 1) = rxFifo[(i + 1) - U!Count(uRx)]
      BY <3>1 DEF RxAt
    <3> QED BY <1>1, <3>1, <3>2, <3>3
  <2> QED BY <2>1, <2>2
<1>8. \A i \in 1 .. Waiting - 1 : RxAt(i)' = IF i < 1 THEN RxAt(i) ELSE RxAt(i + 1)
  BY <1>7
<1>9. InReceiver'
  BY <1>1, <1>5, <1>6, <1>8, InLosesOne
<1>10. InDevice' /\ InQueue'
  BY <1>1, OutRests
<1>11. got' \in Nat
  <2>1. RxAt(1) \in Nat
    BY <1>5, RxAtTyped DEF UartInv
  <2> QED BY <1>6, <2>1
<1>12. UartTypes'
  <2>1. taken' \in Nat /\ got' \in Nat /\ uRx' \in RingType
    BY <1>1, <1>2, <1>3, <1>11
  <2> QED BY <1>1, <2>1 DEF UartInv, UartTypes
<1>13. RingOwners'
  BY <1>1 DEF UartInv, RingOwners, U!TxReady
<1> QED BY <1>6, <1>9, <1>10, <1>12, <1>13 DEF UartInv

\* uart_tx_service moves the oldest byte of the ring to the device.
LEMMA TxServiceKeeps == ASSUME UartAssumption, UartInv, U!TxServiceStep PROVE UartInv'
<1>1. UNCHANGED <<uPort, rxFifo, uRx, rxDropped, console, hooked, asked, sent, arrived, lost, taken,
        got>>
  BY DEF U!TxServiceStep, U!input, U!output
<1>2. InReceiver'
  BY <1>1, InRests
<1>3. svc # "no" /\ uPort = "async" /\ task # "start" /\ console = <<>> /\ ~hooked
  BY DEF UartInv, RingOwners, U!TxServiceStep, U!TxService
<1>4. CASE svc = "loop" /\ uTx.tail # uTx.head /\ U!TxReady /\ U!WriteTx(uTx.buf[uTx.tail])
           /\ uTx' = [uTx EXCEPT !.tail = U!NextSlot(@)] /\ UNCHANGED <<en, task, uIrqAt, svc>>
  <2> DEFINE b == uTx.buf[uTx.tail]
  <2>1. /\ uTx \in RingType /\ U!Count(uTx) \in Nat /\ Reached \in Nat /\ Len(console) = 0
    BY <1>3, CountTyped, EmptySeq DEF UartInv, UartTypes
  <2>2. /\ uTx' \in RingType /\ uTx'.buf = uTx.buf /\ U!Count(uTx) > 0
             /\ U!Count(uTx') = U!Count(uTx) - 1
        /\ SlotAt(uTx, 0) = uTx.tail
        /\ \A j \in 0 .. U!Count(uTx') - 1 : SlotAt(uTx', j) = SlotAt(uTx, j + 1)
    BY <1>4, <2>1, RingTakes
  <2>3. U!Count(uTx)' = U!Count(uTx') /\ \A j : SlotAt(uTx, j)' = SlotAt(uTx', j)
    BY DEF U!Count, SlotAt
  <2>4. asked = Reached + U!Count(uTx)
          /\ \A j \in 0 .. U!Count(uTx) - 1 : uTx.buf[SlotAt(uTx, j)] = Reached + 1 + j
    BY <2>1 DEF UartInv, InQueue
  <2>5. b = Reached + 1
    <3>1. 0 \in 0 .. U!Count(uTx) - 1
      BY <2>1, <2>2
    <3> QED BY <2>1, <2>2, <2>4, <3>1
  <2>6. U!WriteTx(b) /\ U!TxReady
    BY <1>4
  <2> HIDE DEF b
  <2>7. InDevice' /\ Reached' = Reached + 1 /\ txFifo' \in Seq(Nat) /\ shift' \in Nat
    BY <1>1, <2>5, <2>6, WriteTxIs DEF UartInv
  <2>8. ASSUME NEW j \in 0 .. U!Count(uTx') - 1 PROVE uTx'.buf[SlotAt(uTx', j)] = Reached' + 1 + j
    <3>1. j + 1 \in 0 .. U!Count(uTx) - 1 /\ j \in Nat
      BY <2>1, <2>2
    <3>2. uTx.buf[SlotAt(uTx, j + 1)] = Reached + 1 + (j + 1)
      BY <2>4, <3>1
    <3> QED BY <2>1, <2>2, <2>7, <3>1, <3>2
  <2>9. asked' = Reached' + U!Count(uTx)' + Len(console)'
          /\ \A i \in 1 .. Len(console') : console'[i] = Reached' + i
    BY <1>1, <1>3, <2>1, <2>2, <2>3, <2>4, <2>7
  <2>10. InQueue'
    BY <2>3, <2>8, <2>9 DEF InQueue
  <2>11. UartTypes'
    BY <1>1, <2>2, <2>7 DEF UartInv, UartTypes
  <2>12. RingOwners'
    BY <1>1, <1>3, <1>4 DEF UartInv, RingOwners
  <2> QED BY <1>2, <2>7, <2>10, <2>11, <2>12 DEF UartInv
<1>5. ASSUME UNCHANGED <<txFifo, shift, uTx>>,
             (svc' = "ctrl" /\ UNCHANGED <<task, uIrqAt>>) \/ (svc' = "no" /\ U!Returned)
      PROVE  UartInv'
  <2>1. task' # "start" /\ (task' = "write" => task = "write") /\ U!TxReady' = U!TxReady
    BY <1>3, <1>5 DEF U!Returned, U!TxReady
  <2>2. RingOwners'
    BY <1>1, <1>3, <1>5, <2>1 DEF UartInv, RingOwners
  <2> QED BY <1>1, <1>5, <2>2, StillKeeps
<1>6. U!TxService
  BY DEF U!TxServiceStep
<1>7. CASE svc = "loop" /\ ~(uTx.tail # uTx.head /\ U!TxReady) /\ svc' = "ctrl"
           /\ UNCHANGED <<txFifo, shift, en, uTx, task, uIrqAt>>
  BY <1>5, <1>7
<1>8. CASE svc = "ctrl" /\ svc' = "no" /\ U!Returned /\ en' = U!TxIrqFor
             /\ UNCHANGED <<txFifo, shift, uTx>>
  BY <1>5, <1>8
<1> QED BY <1>4, <1>6, <1>7, <1>8, Zenon DEF U!TxService

LEMMA InRestsInPlace ==
  ASSUME UartAssumption, UartInv, Waiting' = Waiting, Skipped' = Skipped, UNCHANGED <<arrived, got>>,
         \A i \in 1 .. Waiting : RxAt(i)' = RxAt(i)
  PROVE  InReceiver'
<1>1. Waiting \in Nat
  BY CountTyped DEF UartInv
<1>2. ASSUME NEW i \in 1 .. Waiting'
      PROVE  /\ got' < RxAt(i)' /\ RxAt(i)' <= Skipped' + i
             /\ \A h \in 1 .. i - 1 : RxAt(h)' < RxAt(i)'
  <2>1. i \in 1 .. Waiting /\ \A h \in 1 .. i - 1 : h \in 1 .. Waiting
    BY <1>1
  <2> QED BY <2>1 DEF UartInv, InReceiver
<1>3. arrived' = Skipped' + Waiting' /\ got' <= Skipped'
  BY DEF UartInv, InReceiver
<1> QED BY <1>2, <1>3 DEF InReceiver

\* uart_rx_service moves a byte from the FIFO to the ring, or drops it.
LEMMA RxServiceKeeps == ASSUME UartAssumption, UartInv, U!RxService PROVE UartInv'
<1>1. /\ uPort = "async" /\ uIrqAt = "rx" /\ task # "start"
      /\ UNCHANGED <<uPort, txFifo, shift, en, uTx, console, task, hooked, asked, sent, arrived, lost,
           taken, got>>
  BY DEF U!RxService, UartInv, RingOwners, U!input, U!output
<1>2. /\ uRx \in RingType /\ U!Count(uRx) \in Nat /\ Len(rxFifo) \in Nat /\ Waiting \in Nat
           /\ rxFifo \in Seq(Nat)
      /\ taken \in Nat /\ lost \in Nat /\ rxDropped \in Nat
  BY CountTyped DEF UartInv, UartTypes
<1>3. InDevice' /\ InQueue'
  BY <1>1, OutRests
<1>4. U!Count(uRx)' = U!Count(uRx') /\ \A j : SlotAt(uRx, j)' = SlotAt(uRx', j)
  BY DEF U!Count, SlotAt
<1>5. CASE ~("rx" \in cause /\ rxFifo # <<>>)
  <2>1. UNCHANGED <<rxFifo, uRx, rxDropped>>
    BY <1>5 DEF U!RxService
  <2>2. RingOwners'
    BY <1>1, <2>1 DEF UartInv, RingOwners, U!TxReady
  <2> QED BY <1>1, <2>1, <2>2, StillKeeps
<1>6. CASE "rx" \in cause /\ rxFifo # <<>>
  <2>1. /\ rxFifo' = Tail(rxFifo) /\ UNCHANGED <<uIrqAt, svc>>
        /\ uRx' = IF U!Full(uRx) THEN uRx ELSE U!Put(uRx, Head(rxFifo))
        /\ rxDropped' = IF U!Full(uRx) THEN rxDropped + 1 ELSE rxDropped
    BY <1>6 DEF U!RxService
  <2>2. /\ rxFifo' \in Seq(Nat) /\ Len(rxFifo') = Len(rxFifo) - 1
        /\ \A i \in 1 .. Len(rxFifo') : rxFifo'[i] = rxFifo[i + 1]
    BY <1>2, <1>6, <2>1, HeadTailProperties
  <2>3. Len(rxFifo) > 0 /\ Head(rxFifo) = rxFifo[1] /\ Head(rxFifo) \in Nat
    BY <1>2, <1>6, EmptySeq, HeadTailProperties
  <2>4. RingOwners'
    BY <1>1, <2>1 DEF UartInv, RingOwners, U!TxReady
  <2>5. Skipped = taken + lost + rxDropped /\ Skipped' = taken + lost + rxDropped'
    BY <1>1 DEF Skipped
  <2>6. Waiting = U!Count(uRx) + Len(rxFifo) /\ Waiting' = U!Count(uRx') + Len(rxFifo')
    BY <1>4 DEF Waiting
  <2>7. CASE U!Full(uRx)
    <3>1. uRx' = uRx /\ rxDropped' = rxDropped + 1
      BY <2>1, <2>7
    <3>2. PICK d \in Nat : d = U!Count(uRx) + 1
      BY <1>2
    <3>3. d \in 1 .. Waiting /\ Waiting' = Waiting - 1 /\ Skipped' = Skipped + 1
      <4>1. Skipped' = Skipped + 1
        BY <1>2, <2>5, <3>1
      <4>2. d \in 1 .. Waiting
        BY <1>2, <2>3, <2>6, <3>2
      <4>3. Waiting' = Waiting - 1
        BY <1>2, <2>2, <2>6, <3>1
      <4> QED BY <4>1, <4>2, <4>3
    <3>4. ASSUME NEW i \in 1 .. Waiting - 1 PROVE RxAt(i)' = IF i < d THEN RxAt(i) ELSE RxAt(i + 1)
      <4>1. CASE i <= U!Count(uRx)
        BY <1>2, <1>4, <3>1, <3>2, <4>1 DEF RxAt
      <4>2. CASE ~(i <= U!Count(uRx))
        <5>1. /\ i - U!Count(uRx) \in 1 .. Len(rxFifo') /\ ~(i + 1 <= U!Count(uRx)) /\ ~(i < d)
              /\ (i + 1) - U!Count(uRx) = (i - U!Count(uRx)) + 1
          <6>1. i \in Int /\ i <= U!Count(uRx) + Len(rxFifo) - 1
            BY <1>2, <2>6
          <6>2. i - U!Count(uRx) \in 1 .. Len(rxFifo) - 1
            BY <1>2, <4>2, <6>1
          <6>3. i - U!Count(uRx) \in 1 .. Len(rxFifo')
            BY <2>2, <6>2
          <6> QED BY <1>2, <3>2, <4>2, <6>1, <6>3
        <5>2. RxAt(i)' = rxFifo'[i - U!Count(uRx)]
          BY <1>4, <3>1, <4>2 DEF RxAt
        <5>3. RxAt(i + 1) = rxFifo[(i + 1) - U!Count(uRx)]
          BY <5>1 DEF RxAt
        <5> QED BY <2>2, <5>1, <5>2, <5>3
      <4> QED BY <4>1, <4>2
    <3>5. InReceiver'
      BY <1>1, <3>3, <3>4, InLosesOne
    <3>6. UartTypes'
      BY <1>1, <1>2, <2>2, <3>1 DEF UartInv, UartTypes
    <3> QED BY <1>3, <2>4, <3>5, <3>6 DEF UartInv
  <2>8. CASE ~U!Full(uRx)
    <3>1. uRx' = U!Put(uRx, Head(rxFifo)) /\ rxDropped' = rxDropped
      BY <2>1, <2>8
    <3>2. /\ uRx' \in RingType /\ U!Count(uRx') = U!Count(uRx) + 1
          /\ \A j \in 0 .. U!Count(uRx) - 1 : uRx'.buf[SlotAt(uRx', j)] = uRx.buf[SlotAt(uRx, j)]
          /\ uRx'.buf[SlotAt(uRx', U!Count(uRx))] = Head(rxFifo)
      BY <1>2, <2>3, <2>8, <3>1, RingPuts
    <3>3. Waiting' = Waiting /\ Skipped' = Skipped
      BY <1>2, <2>2, <2>5, <2>6, <3>1, <3>2
    <3>4. ASSUME NEW i \in 1 .. Waiting PROVE RxAt(i)' = RxAt(i)
      <4>1. CASE i <= U!Count(uRx)
        <5>1. i - 1 \in 0 .. U!Count(uRx) - 1 /\ i <= U!Count(uRx')
          BY <1>2, <3>2, <4>1
        <5>2. RxAt(i)' = uRx'.buf[SlotAt(uRx', i - 1)]
          BY <1>4, <5>1 DEF RxAt
        <5>3. RxAt(i) = uRx.buf[SlotAt(uRx, i - 1)]
          BY <4>1 DEF RxAt
        <5> QED BY <3>2, <5>1, <5>2, <5>3
      <4>2. CASE i = U!Count(uRx) + 1
        <5>1. i - 1 = U!Count(uRx) /\ i - U!Count(uRx) = 1 /\ i <= U!Count(uRx') /\ ~(i <= U!Count(uRx))
          BY <1>2, <3>2, <4>2
        <5>2. RxAt(i)' = uRx'.buf[SlotAt(uRx', U!Count(uRx))]
          BY <1>4, <5>1 DEF RxAt
        <5>3. RxAt(i) = rxFifo[1]
          BY <5>1 DEF RxAt
        <5> QED BY <2>3, <3>2, <5>2, <5>3
      <4>3. CASE i > U!Count(uRx) + 1
        <5>1. /\ ~(i <= U!Count(uRx)) /\ ~(i <= U!Count(uRx'))
                   /\ i - U!Count(uRx') \in 1 .. Len(rxFifo')
              /\ (i - U!Count(uRx')) + 1 = i - U!Count(uRx)
          <6>1. i \in Int /\ U!Count(uRx') = U!Count(uRx) + 1 /\ i <= U!Count(uRx) + Len(rxFifo)
            BY <2>6, <3>2
          <6>2. i - U!Count(uRx') \in 1 .. Len(rxFifo) - 1
            BY <1>2, <4>3, <6>1
          <6>3. i - U!Count(uRx') \in 1 .. Len(rxFifo')
            BY <2>2, <6>2
          <6>4. ~(i <= U!Count(uRx)) /\ ~(i <= U!Count(uRx'))
            BY <1>2, <4>3, <6>1
          <6>5. (i - U!Count(uRx')) + 1 = i - U!Count(uRx)
            BY <1>2, <6>1
          <6> QED BY <6>3, <6>4, <6>5
        <5>2. RxAt(i)' = rxFifo'[i - U!Count(uRx')]
          BY <1>4, <5>1 DEF RxAt
        <5>3. RxAt(i) = rxFifo[i - U!Count(uRx)]
          BY <5>1 DEF RxAt
        <5> QED BY <2>2, <5>1, <5>2, <5>3
      <4> QED BY <1>2, <4>1, <4>2, <4>3
    <3>5. InReceiver'
      BY <1>1, <3>3, <3>4, InRestsInPlace
    <3>6. UartTypes'
      BY <1>1, <1>2, <2>2, <3>1, <3>2 DEF UartInv, UartTypes
    <3> QED BY <1>3, <2>4, <3>5, <3>6 DEF UartInv
  <2> QED BY <2>7, <2>8
<1> QED BY <1>5, <1>6

\* Without the rings everything that is on its way is in the device.
LEMMA NoRings ==
  ASSUME UartAssumption, UartInv, uPort # "async"
  PROVE  /\ U!Count(uTx) = 0 /\ U!Count(uRx) = 0 /\ asked = Reached + Len(console)
         /\ Waiting = Len(rxFifo) /\ \A i \in 1 .. Waiting : RxAt(i) = rxFifo[i]
<1>1. U!Count(uTx) = 0 /\ U!Count(uRx) = 0 /\ Reached \in Nat /\ Len(console) \in Nat
        /\ Len(rxFifo) \in Nat
  BY CountTyped DEF UartInv, RingOwners
<1>2. asked = Reached + Len(console) /\ Waiting = Len(rxFifo)
  BY <1>1 DEF UartInv, InQueue, Waiting
<1>3. \A i \in 1 .. Waiting : RxAt(i) = rxFifo[i]
  BY <1>1, <1>2 DEF RxAt
<1> QED BY <1>1, <1>2, <1>3

\* The queue of a driver without a ring.
LEMMA QueueOfConsole ==
  ASSUME UartAssumption, UartInv, uPort # "async", uTx' = uTx,
         asked' = Reached' + Len(console'), \A i \in 1 .. Len(console') : console'[i] = Reached' + i,
         Reached' \in Nat, Len(console') \in Nat
  PROVE  InQueue'
<1>1. U!Count(uTx)' = 0 /\ 0 .. 0 - 1 = {}
  <2>1. U!Count(uTx) = 0
    BY NoRings
  <2> QED BY <2>1 DEF U!Count
<1>2. \A j \in 0 .. U!Count(uTx)' - 1 : uTx'.buf[SlotAt(uTx, j)'] = Reached' + 1 + j
  BY <1>1
<1>3. asked' = Reached' + U!Count(uTx)' + Len(console')
  BY <1>1
<1> QED BY <1>2, <1>3 DEF InQueue

LEMMA PolledOutKeeps ==
  ASSUME UartAssumption, UartInv, uPort # "async", ~hooked, U!PolledOut, UNCHANGED U!polledRest
  PROVE  UartInv'
<1>1. UNCHANGED <<uPort, rxFifo, en, uTx, uRx, rxDropped, console, uIrqAt, svc, hooked, sent, arrived,
        lost, taken, got>>
  BY DEF U!polledRest, U!rings, U!input, U!output
<1>2. task # "start" /\ task' # "start" /\ svc = "no" /\ console = <<>>
  BY DEF UartInv, RingOwners, U!PolledOut
<1>3. CASE UNCHANGED <<txFifo, shift, asked>> /\ (task' = "write" => U!TxReady)
  <2>1. RingOwners'
    BY <1>1, <1>2, <1>3 DEF UartInv, RingOwners, U!TxReady
  <2> QED BY <1>1, <1>3, <2>1, StillKeeps
<1>4. CASE task = "write" /\ task' = "busy" /\ U!WriteTx(asked + 1) /\ asked' = asked + 1
  <2>1. U!TxReady /\ asked = Reached + Len(console) /\ Len(console) = 0 /\ Reached \in Nat
    BY <1>2, <1>4, NoRings, CountTyped, EmptySeq DEF UartInv, RingOwners
  <2>2. PICK b \in Nat : b = Reached + 1
    BY <2>1
  <2>3. U!WriteTx(b) /\ asked' = b
    BY <1>4, <2>1, <2>2
  <2>4. InDevice' /\ Reached' = Reached + 1 /\ txFifo' \in Seq(Nat) /\ shift' \in Nat
    BY <1>1, <2>1, <2>2, <2>3, WriteTxIs DEF UartInv
  <2>5. InQueue'
    BY <1>1, <1>2, <2>1, <2>2, <2>3, <2>4, QueueOfConsole
  <2>6. InReceiver'
    BY <1>1, InRests
  <2>7. UartTypes'
    BY <1>1, <2>3, <2>4 DEF UartInv, UartTypes
  <2>8. RingOwners'
    BY <1>1, <1>2, <1>4 DEF UartInv, RingOwners
  <2> QED BY <2>4, <2>5, <2>6, <2>7, <2>8 DEF UartInv
<1> QED BY <1>3, <1>4 DEF U!PolledOut

LEMMA PolledInKeeps ==
  ASSUME UartAssumption, UartInv, uPort # "async", U!PolledIn PROVE UartInv' /\ got' = RxAt(1)
<1>1. /\ task = "idle" /\ rxFifo # <<>> /\ got' = Head(rxFifo) /\ taken' = taken + 1
           /\ rxFifo' = Tail(rxFifo)
      /\ UNCHANGED <<uPort, txFifo, shift, en, uTx, uRx, rxDropped, console, task, uIrqAt, svc, hooked,
           asked, sent,
                     arrived, lost>>
  BY DEF U!PolledIn, U!rings, U!cpu, U!input
<1>2. /\ U!Count(uRx) = 0 /\ Waiting = Len(rxFifo) /\ \A i \in 1 .. Waiting : RxAt(i) = rxFifo[i]
  BY NoRings
<1>3. /\ rxFifo \in Seq(Nat) /\ Len(rxFifo) \in Nat /\ taken \in Nat /\ lost \in Nat
           /\ rxDropped \in Nat
  BY CountTyped DEF UartInv, UartTypes
<1>4. /\ rxFifo' \in Seq(Nat) /\ Len(rxFifo') = Len(rxFifo) - 1
      /\ \A i \in 1 .. Len(rxFifo') : rxFifo'[i] = rxFifo[i + 1]
  BY <1>1, <1>3, HeadTailProperties
<1>5. Len(rxFifo) > 0 /\ Head(rxFifo) = rxFifo[1] /\ Head(rxFifo) \in Nat
  BY <1>1, <1>3, EmptySeq, HeadTailProperties
<1>6. U!Count(uRx)' = 0 /\ Waiting' = Waiting - 1 /\ Skipped' = Skipped + 1
  <2>1. U!Count(uRx)' = 0
    BY <1>1, <1>2 DEF U!Count
  <2>2. Waiting' = Len(rxFifo')
    BY <1>4, <2>1, <1>3 DEF Waiting
  <2>3. Skipped' = Skipped + 1
    BY <1>1, <1>3 DEF Skipped
  <2> QED BY <1>2, <1>4, <2>1, <2>2, <2>3
<1>7. 1 \in 1 .. Waiting /\ got' = RxAt(1)
  <2>1. 1 \in 1 .. Waiting
    BY <1>2, <1>3, <1>5
  <2> QED BY <1>1, <1>2, <1>5, <2>1
<1>8. ASSUME NEW i \in 1 .. Waiting - 1 PROVE RxAt(i)' = IF i < 1 THEN RxAt(i) ELSE RxAt(i + 1)
  <2>1. /\ i \in 1 .. Len(rxFifo') /\ i + 1 \in 1 .. Waiting /\ ~(i < 1) /\ ~(i <= 0) /\ i - 0 = i
    BY <1>2, <1>3, <1>4
  <2>2. RxAt(i)' = rxFifo'[i]
    BY <1>6, <2>1 DEF RxAt
  <2> QED BY <1>2, <1>4, <2>1, <2>2
<1>9. InReceiver'
  BY <1>1, <1>6, <1>7, <1>8, InLosesOne
<1>10. InDevice' /\ InQueue'
  BY <1>1, OutRests
<1>11. UartTypes'
  BY <1>1, <1>3, <1>4, <1>5 DEF UartInv, UartTypes
<1>12. RingOwners'
  BY <1>1 DEF UartInv, RingOwners, U!TxReady
<1> QED BY <1>7, <1>9, <1>10, <1>11, <1>12 DEF UartInv

\* The console accepts bytes into its ring buffer.
LEMMA ConsoleOutKeeps == ASSUME UartAssumption, UartInv, U!ConsoleOut PROVE UartInv'
<1>1. /\ uPort = "zephyr" /\ hooked /\ task = "idle"
      /\ UNCHANGED <<uPort, txFifo, shift, rxFifo, uTx, uRx, rxDropped, task, uIrqAt, svc, hooked, sent,
                     arrived, lost, taken, got>>
  BY DEF U!ConsoleOut, U!line, U!cpu, U!input, U!output
<1>2. PICK n \in {1, 2} :
        /\ asked' = asked + (IF n <= U!Room THEN n ELSE U!Room)
        /\ console' = console \o [k \in 1 .. (IF n <= U!Room THEN n ELSE U!Room) |-> asked + k]
  BY DEF U!ConsoleOut
<1>3. /\ Len(console) \in Nat /\ Len(console) <= BufSize /\ BufSize \in Nat /\ asked \in Nat
           /\ Reached \in Nat
      /\ console \in Seq(Nat)
  BY CountTyped DEF UartInv, UartTypes, RingOwners, UartAssumption
<1>4. PICK put \in Nat : put = (IF n <= U!Room THEN n ELSE U!Room)
  <2>1. n \in Nat /\ U!Room \in Nat
    BY <1>3 DEF U!Room
  <2>2. (IF n <= U!Room THEN n ELSE U!Room) \in Nat
    BY <2>1
  <2> QED BY <2>2
<1>5. PICK new : new = [k \in 1 .. put |-> asked + k]
  OBVIOUS
<1>6. new \in Seq(Nat) /\ Len(new) = put /\ \A k \in 1 .. put : new[k] = asked + k
  <2>1. \A k \in 1 .. put : asked + k \in Nat
    BY <1>3
  <2> QED BY <1>5, <2>1, IsASeq
<1>7. asked' = asked + put /\ console' = console \o new /\ Len(console) + put <= BufSize
  BY <1>2, <1>3, <1>4, <1>5 DEF U!Room
<1>8. /\ console' \in Seq(Nat) /\ Len(console') = Len(console) + put
      /\ \A i \in 1 .. Len(console) + put :
           console'[i] = IF i <= Len(console) THEN console[i] ELSE new[i - Len(console)]
  BY <1>3, <1>6, <1>7, ConcatProperties
<1>9. Reached' = Reached /\ InDevice'
  BY <1>1 DEF UartInv, InDevice, Reached
<1>10. uPort # "async" /\ asked = Reached + Len(console)
  BY <1>1, NoRings
<1>11. ASSUME NEW i \in 1 .. Len(console') PROVE console'[i] = Reached' + i
  <2>1. CASE i <= Len(console)
    <3>1. i \in 1 .. Len(console)
      BY <1>3, <2>1
    <3> QED BY <1>8, <1>9, <2>1, <3>1 DEF UartInv, InQueue
  <2>2. CASE ~(i <= Len(console))
    <3>1. i - Len(console) \in 1 .. put
      BY <1>3, <1>8, <2>2
    <3>2. console'[i] = asked + (i - Len(console))
      BY <1>6, <1>8, <2>2, <3>1
    <3> QED BY <1>3, <1>9, <1>10, <3>2
  <2> QED BY <2>1, <2>2
<1>12. asked' = Reached' + Len(console') /\ Reached' \in Nat /\ Len(console') \in Nat
  BY <1>3, <1>7, <1>8, <1>9, <1>10
<1>13. InQueue'
  BY <1>1, <1>10, <1>11, <1>12, QueueOfConsole
<1>14. InReceiver'
  BY <1>1, InRests
<1>15. UartTypes'
  BY <1>1, <1>3, <1>7, <1>8 DEF UartInv, UartTypes
<1>16. RingOwners'
  BY <1>1, <1>7, <1>8 DEF UartInv, RingOwners
<1> QED BY <1>9, <1>13, <1>14, <1>15, <1>16 DEF UartInv

\* The drain moves the console's oldest byte to the device.
LEMMA TxDrainKeeps == ASSUME UartAssumption, UartInv, U!TxDrain PROVE UartInv'
<1>1. /\ uPort = "zephyr" /\ uPort # "async" /\ uIrqAt = "drain" /\ hooked /\ task = "idle"
      /\ UNCHANGED <<uPort, rxFifo, uTx, uRx, rxDropped, task, svc, hooked, asked, sent, arrived, lost,
           taken, got>>
  BY DEF U!TxDrain, UartInv, RingOwners, U!input, U!output
<1>2. CASE UNCHANGED <<txFifo, shift, console>> /\ uIrqAt' = "err"
  <2>1. RingOwners'
    BY <1>1, <1>2 DEF UartInv, RingOwners, U!TxReady
  <2> QED BY <1>1, <1>2, <2>1, StillKeeps
<1>3. CASE U!TxReady /\ console # <<>> /\ console' = Tail(console) /\ U!WriteTx(Head(console))
             /\ uIrqAt' = uIrqAt
  <2>1. console \in Seq(Nat) /\ Len(console) \in Nat /\ Reached \in Nat
          /\ asked = Reached + Len(console)
    BY <1>1, CountTyped, NoRings DEF UartInv, UartTypes
  <2>2. /\ console' \in Seq(Nat) /\ Len(console') = Len(console) - 1
        /\ \A i \in 1 .. Len(console') : console'[i] = console[i + 1]
    BY <1>3, <2>1, HeadTailProperties
  <2>3. Len(console) > 0 /\ Head(console) = console[1]
    BY <1>3, <2>1, EmptySeq
  <2>4. PICK b : b = Head(console)
    OBVIOUS
  <2>5. b = Reached + 1 /\ U!WriteTx(b)
    <3>1. 1 \in 1 .. Len(console)
      BY <2>1, <2>3
    <3> QED BY <1>3, <2>3, <2>4, <3>1 DEF UartInv, InQueue
  <2>6. InDevice' /\ Reached' = Reached + 1 /\ txFifo' \in Seq(Nat) /\ shift' \in Nat
    BY <1>1, <1>3, <2>5, WriteTxIs DEF UartInv
  <2>7. ASSUME NEW i \in 1 .. Len(console') PROVE console'[i] = Reached' + i
    <3>1. i + 1 \in 1 .. Len(console)
      BY <2>1, <2>2
    <3>2. console[i + 1] = Reached + (i + 1)
      BY <3>1 DEF UartInv, InQueue
    <3> QED BY <2>1, <2>2, <2>6, <3>2
  <2>8. asked' = Reached' + Len(console') /\ Reached' \in Nat /\ Len(console') \in Nat
    BY <1>1, <2>1, <2>2, <2>3, <2>6
  <2>9. InQueue'
    BY <1>1, <2>7, <2>8, QueueOfConsole
  <2>10. InReceiver'
    BY <1>1, InRests
  <2>11. UartTypes'
    BY <1>1, <2>2, <2>6 DEF UartInv, UartTypes
  <2>12. RingOwners'
    <3>1. Len(console') <= BufSize
      BY <2>1, <2>2 DEF UartInv, RingOwners, UartAssumption
    <3> QED BY <1>1, <1>3, <3>1 DEF UartInv, RingOwners
  <2> QED BY <2>6, <2>9, <2>10, <2>11, <2>12 DEF UartInv
<1>4. U!IrqTxReady => U!TxReady
  BY DEF U!IrqTxReady
<1> QED BY <1>2, <1>3, <1>4 DEF U!TxDrain, U!FifoFill

\* Every step keeps the invariant, shifts out the next byte if it shifts one
\* out, and returns the first of the waiting bytes if it returns one.
LEMMA UartStep ==
  ASSUME UartAssumption, UartInv, [U!Next]_(U!vars)
  PROVE  /\ UartInv' /\ (sent' # sent => sent' = sent + 1)
         /\ taken' # taken => got' = RxAt(1) /\ Waiting > 0 /\ taken' = taken + 1
              /\ UNCHANGED <<lost, rxDropped>>
<1>1. CASE UNCHANGED U!vars
  <2>1. UNCHANGED <<uPort, txFifo, shift, rxFifo, en, uTx, uRx, rxDropped, console, task, uIrqAt, svc,
          hooked, asked, sent,
                    arrived, lost, taken, got>>
    BY <1>1 DEF U!vars, U!line, U!rings, U!cpu, U!input, U!output
  <2>2. RingOwners'
    BY <2>1 DEF UartInv, RingOwners, U!TxReady, U!Ring
  <2> QED BY <2>1, <2>2, StillKeeps
<1>2. CASE U!ShiftOut
  <2>1. taken' = taken /\ sent' = sent + 1
    BY <1>2, ShiftOutIs DEF U!ShiftOut, U!output, UartInv
  <2> QED BY <1>2, <2>1, ShiftOutKeeps
<1>3. CASE U!AsyncGetc \/ U!Getc \/ U!PollIn
  <2>1. sent' = sent /\ taken' = taken + 1 /\ UNCHANGED <<lost, rxDropped>>
    BY <1>3 DEF U!AsyncGetc, U!Getc, U!PollIn, U!PolledIn, U!input, U!rings
  <2>2. UartInv' /\ got' = RxAt(1)
    BY <1>3, AsyncGetcKeeps, PolledInKeeps DEF U!Getc, U!PollIn
  <2>3. Waiting > 0
    <3>1. U!Count(uRx) \in Nat /\ Len(rxFifo) \in Nat
      BY CountTyped DEF UartInv
    <3>2. uRx.tail # uRx.head \/ rxFifo # <<>>
      BY <1>3 DEF U!AsyncGetc, U!Getc, U!PollIn, U!PolledIn
    <3>3. U!Count(uRx) # 0 \/ Len(rxFifo) # 0
      BY <3>2, CountTyped, EmptySeq DEF UartInv, UartTypes
    <3> QED BY <3>1, <3>3 DEF Waiting
  <2> QED BY <2>1, <2>2, <2>3
<1>4. CASE U!AsyncInit \/ U!AsyncWrite \/ U!ConsoleInit \/ U!ConsoleOut \/ U!UartInit \/ U!ZephyrInit
  <2>1. sent' = sent /\ taken' = taken
    BY <1>4 DEF U!AsyncInit, U!AsyncWrite, U!ConsoleInit, U!ConsoleOut, U!UartInit, U!ZephyrInit,
       U!polledRest, U!output
  <2> QED BY <1>4, <2>1, AsyncInitKeeps, AsyncWriteKeeps, ConsoleInitKeeps, ConsoleOutKeeps, StartsKeep
<1>5. CASE U!Putc \/ U!PollOut
  <2>1. sent' = sent /\ taken' = taken
    BY <1>5 DEF U!Putc, U!PollOut, U!polledRest, U!output
  <2>2. uPort # "async" /\ ~hooked /\ U!PolledOut /\ UNCHANGED U!polledRest
    BY <1>5 DEF U!Putc, U!PollOut, UartInv, RingOwners
  <2> QED BY <2>1, <2>2, PolledOutKeeps
<1>6. CASE U!ByteArrives \/ U!TxServiceStep \/ U!Handler
  <2>1. sent' = sent /\ taken' = taken
    BY <1>6 DEF U!ByteArrives, U!TxServiceStep, U!Handler, U!IrqEnter, U!RxService, U!IrqEnd, U!Isr,
       U!TxDrain, U!ErrCheck, U!output
  <2> QED BY <1>6, <2>1, ByteArrivesKeeps, TxServiceKeeps, IrqEnterKeeps, RxServiceKeeps,
             IrqEndKeeps, UartIsrKeeps, TxDrainKeeps, ErrCheckKeeps DEF U!Handler
<1> QED BY <1>1, <1>2, <1>3, <1>4, <1>5, <1>6 DEF U!Next, U!Foreground

\* The numbering holds in every state.
THEOREM UartAlways == ASSUME UartAssumption PROVE U!Spec => []UartInv
<1>1. UartInv /\ [U!Next]_(U!vars) => UartInv'
  BY UartStep
<1> QED BY <1>1, UartStart, PTL DEF U!Spec

\* tx_pending of the library and uart_console_tx_busy do not forget the device.
THEOREM UartDoneMeansSent == ASSUME UartAssumption PROVE U!Spec => []U!DoneMeansSent
<1>1. UartInv => U!DoneMeansSent
  <2> SUFFICES ASSUME UartInv, ~U!Pending PROVE sent = asked
    BY DEF U!DoneMeansSent
  <2>1. uTx.tail = uTx.head /\ console = <<>> /\ shift = 0 /\ txFifo = <<>>
    BY DEF U!Pending, U!TxBusy
  <2>2. U!Count(uTx) = 0 /\ Len(console) = 0 /\ Len(txFifo) = 0 /\ sent \in Nat
    BY <2>1, CountTyped, EmptySeq DEF UartInv, UartTypes
  <2>3. Reached = sent
    BY <2>1, <2>2 DEF Reached
  <2> QED BY <2>2, <2>3 DEF UartInv, InQueue
<1> QED BY <1>1, UartAlways, PTL

\* Neither handler nor foreground loses, repeats or swaps a byte unnoticed.
THEOREM UartBytesInOrder == ASSUME UartAssumption PROVE U!Spec => U!TxInOrder /\ U!RxInOrder
<1>1. UartInv /\ [U!Next]_(U!vars) => [sent' # sent => sent' = sent + 1]_(U!vars)
  BY UartStep
<1>2. UartInv /\ [U!Next]_(U!vars) => [taken' # taken => got' > got
        /\ got' <= taken' + lost + rxDropped]_(U!vars)
  <2> SUFFICES ASSUME UartInv, [U!Next]_(U!vars), taken' # taken
               PROVE  got' > got /\ got' <= taken' + lost + rxDropped
    OBVIOUS
  <2>1. got' = RxAt(1) /\ Waiting > 0 /\ taken' = taken + 1
    BY UartStep
  <2>2. Waiting \in Nat /\ got \in Nat /\ taken \in Nat /\ lost \in Nat /\ rxDropped \in Nat
    BY CountTyped DEF UartInv, UartTypes
  <2>3. 1 \in 1 .. Waiting
    BY <2>1, <2>2
  <2>4. got < RxAt(1) /\ RxAt(1) <= Skipped + 1 /\ RxAt(1) \in Nat
    BY <2>3, RxAtTyped DEF UartInv, InReceiver
  <2> QED BY <2>1, <2>2, <2>4 DEF Skipped
<1> QED BY <1>1, <1>2, UartAlways, PTL DEF U!Spec, U!TxInOrder, U!RxInOrder

-----------------------------------------------------------------------------
(* The bare-metal programs over the DMA engine and the timer, for every set  *)
(* of programs and number of ticks: STATUS as main, handler and client read  *)
(* it is what has become of the data.                                        *)

(* Where a call of dma_start stands, and where each program may.             *)
InDmaStart == {"main", "start", "busy?", "clear", "go"}
BarePlaces ==
  /\ bApp \in B!TimerApps => bPc \in {"main", "remember", "test", "wfi", "show"}
  /\ bApp \in B!SleepApps => bPc \in InDmaStart \cup {"returned", "test", "wfi", "waited", "end"}
  /\ bApp \in B!PollApps => bPc \in InDmaStart \cup {"returned", "wait", "waited", "end"}
  /\ bApp = "client" => bPc \in InDmaStart \cup {"returned", "wait", "waited"}
BareTypes ==
  /\ bApp \in B!PollApps \cup B!SleepApps \cup B!TimerApps \cup {"client"} /\ BarePlaces
  /\ dma \in [busy : BOOLEAN, done : BOOLEAN, error : BOOLEAN, irqEn : BOOLEAN]
  /\ bJob \in [left : Nat, moved : Nat, error : BOOLEAN]

(* The engine: STATUS tells the truth about the transfer, and no program      *)
(* starts one over another.                                                  *)
EngineTruth ==
  /\ dma.busy => /\ ~dma.done /\ ~dma.error /\ ~bJob.error /\ bJob.left > 0
                 /\ bJob.left + bJob.moved = B!Segments(bApp)
  /\ dma.done => B!Complete /\ ~bJob.error
  /\ dma.error => bJob.error
  /\ bPc \in {"clear", "go"} \/ (bApp # "client" /\ bPc \in InDmaStart) => ~dma.busy
  /\ bPc = "go" => ~dma.done /\ ~dma.error

(* Whoever polls: STATUS is cleared by dma_start, the client or nobody.      *)
PollTruth ==
  bApp \notin B!SleepApps =>
    /\ ~dma.irqEn /\ bIrqAt \notin {"status", "clear", "hook"}
    /\ ~dma.busy /\ ~dma.error /\ "cleared" \notin late /\ bPc # "go"
       => ~bJob.error /\ (bJob.moved = 0 \/ B!Complete)
    /\ bApp \in B!PollApps /\ bPc \notin InDmaStart => dma.busy \/ dma.done \/ dma.error
    /\ bPc = "waited" => \/ ret = "OK" /\ ~dma.busy /\ ~dma.error
                         \/ ret = "EIO" /\ bJob.error
                         \/ ret = "ETIMEOUT" /\ "gave up" \in late

(* Whoever sleeps: the handler has read STATUS before it clears it.          *)
SaysSo(s) == \/ s = "done" /\ B!Complete /\ ~bJob.error
             \/ s = "error" /\ bJob.error
SleepTruth ==
  bApp \in B!SleepApps =>
    /\ bIrqAt \in {"status", "clear", "hook"} \/ hook # "none" => ~dma.busy /\ bPc \notin InDmaStart
    /\ bPc \in InDmaStart => ~dma.done /\ ~dma.error
    /\ bIrqAt = "status" => dma.done \/ dma.error
    /\ bIrqAt \in {"clear", "hook"} => SaysSo(seen)
    /\ hook # "none" => SaysSo(hook)
    /\ bPc = "waited" => hook # "none"
VerdictTruth ==
  /\ bResult # "none" => bPc = "end"
  /\ bResult = "pass" => B!Complete /\ ~bJob.error
  /\ bResult = "fail" => bJob.error \/ "gave up" \in late
  /\ "overrun" \notin late /\ (bApp # "client" => "cleared" \notin late)
BareInv == BareTypes /\ EngineTruth /\ PollTruth /\ SleepTruth /\ VerdictTruth

LEMMA BareStart == ASSUME BareAssumption, B!Init PROVE BareInv
BY DEF B!Init, BareAssumption, BareInv, BareTypes, BarePlaces, InDmaStart, EngineTruth, PollTruth,
       SleepTruth, SaysSo, VerdictTruth, B!PollApps, B!SleepApps, B!TimerApps

(* A step that leaves program, engine and history alone, and the handler too *)
(* or where STATUS is not its business.                                      *)
LEMMA AsideKeeps ==
  ASSUME BareInv, UNCHANGED <<bApp, bPc, ret, bResult, dma, bJob, seen, hook, late>>,
         bIrqAt' = bIrqAt \/ bIrqAt' \notin {"status", "clear", "hook"}
  PROVE  BareInv'
<1>1. BareTypes'
  BY DEF BareInv, BareTypes, BarePlaces
<1>2. EngineTruth' /\ (B!Complete' <=> B!Complete)
  BY DEF BareInv, EngineTruth, B!Complete, B!Segments
<1>3. PollTruth'
  BY <1>2 DEF BareInv, PollTruth
<1>4. SleepTruth' /\ VerdictTruth'
  BY <1>2 DEF BareInv, SleepTruth, SaysSo, VerdictTruth
<1> QED BY <1>1, <1>2, <1>3, <1>4 DEF BareInv

(* A segment is moved, or the transfer ends in an error: what is read of     *)
(* STATUS afterwards is what has become of the data.                         *)
LEMMA SegmentKeeps == ASSUME BareInv, B!MoveSegment PROVE BareInv'
<1>1. UNCHANGED <<bApp, bPc, ret, bResult, bIrqAt, seen, hook, late>> /\ dma.busy
  BY DEF B!MoveSegment, B!prog, B!irq
<1>2. /\ ~dma.done /\ ~dma.error /\ ~bJob.error /\ bJob.left \in Nat /\ bJob.moved \in Nat
      /\ bJob.left > 0 /\ bJob.left + bJob.moved = B!Segments(bApp)
      /\ B!Segments(bApp)' = B!Segments(bApp)
      /\ ~B!Complete
  BY <1>1 DEF BareInv, BareTypes, EngineTruth, B!Complete, B!Segments
<1>3. /\ dma' \in [busy : BOOLEAN, done : BOOLEAN, error : BOOLEAN, irqEn : BOOLEAN]
      /\ bJob' \in [left : Nat, moved : Nat, error : BOOLEAN] /\ dma'.irqEn = dma.irqEn
      /\ \/ dma' = dma /\ bJob'.left > 0 /\ bJob'.left + bJob'.moved = B!Segments(bApp)
            /\ ~bJob'.error
         \/ /\ ~dma'.busy /\ dma'.done /\ ~dma'.error
            /\ bJob'.moved = B!Segments(bApp) /\ ~bJob'.error
         \/ ~dma'.busy /\ ~dma'.done /\ dma'.error /\ bJob'.error
  <2>1. CASE bJob.left > 1 /\ bJob' = [bJob EXCEPT !.left = @ - 1, !.moved = @ + 1] /\ UNCHANGED dma
    <3>1. bJob' = [left |-> bJob.left - 1, moved |-> bJob.moved + 1, error |-> FALSE]
      BY <1>2, <2>1 DEF BareInv, BareTypes
    <3>2. bJob'.left = bJob.left - 1 /\ bJob'.moved = bJob.moved + 1 /\ ~bJob'.error
      BY <3>1
    <3>3. bJob' \in [left : Nat, moved : Nat, error : BOOLEAN]
      <4>1. bJob.left - 1 \in Nat /\ bJob.moved + 1 \in Nat
        BY <1>2, <2>1
      <4> QED BY <3>1, <4>1
    <3>4. bJob'.left > 0 /\ bJob'.left + bJob'.moved = B!Segments(bApp)
      BY <1>2, <2>1, <3>2
    <3> QED BY <2>1, <3>2, <3>3, <3>4 DEF BareInv, BareTypes
  <2>2. CASE /\ bJob.left = 1 /\ bJob' = [bJob EXCEPT !.left = 0, !.moved = @ + 1]
             /\ dma' = [dma EXCEPT !.busy = FALSE, !.done = TRUE]
    <3>1. bJob' = [left |-> 0, moved |-> bJob.moved + 1, error |-> FALSE]
      BY <1>2, <2>2 DEF BareInv, BareTypes
    <3>2. dma' = [busy |-> FALSE, done |-> TRUE, error |-> FALSE, irqEn |-> dma.irqEn]
      BY <1>2, <2>2 DEF BareInv, BareTypes
    <3>3. bJob' \in [left : Nat, moved : Nat, error : BOOLEAN] /\ ~bJob'.error
      BY <1>2, <3>1
    <3>4. bJob'.moved = B!Segments(bApp)
      BY <1>2, <2>2, <3>1
    <3>5. dma' \in [busy : BOOLEAN, done : BOOLEAN, error : BOOLEAN, irqEn : BOOLEAN]
      BY <3>2 DEF BareInv, BareTypes
    <3> QED BY <3>2, <3>3, <3>4, <3>5
  <2>3. CASE bJob' = [bJob EXCEPT !.error = TRUE]
               /\ dma' = [dma EXCEPT !.busy = FALSE, !.error = TRUE]
    <3>1. dma' = [busy |-> FALSE, done |-> FALSE, error |-> TRUE, irqEn |-> dma.irqEn]
      BY <1>2, <2>3 DEF BareInv, BareTypes
    <3>2. bJob' = [left |-> bJob.left, moved |-> bJob.moved, error |-> TRUE]
      BY <1>2, <2>3 DEF BareInv, BareTypes
    <3> QED BY <1>2, <3>1, <3>2 DEF BareInv, BareTypes
  <2> QED BY <2>1, <2>2, <2>3 DEF B!MoveSegment
<1>4. BareTypes'
  BY <1>1, <1>3 DEF BareInv, BareTypes, BarePlaces
<1>5. EngineTruth'
  BY <1>1, <1>2, <1>3 DEF BareInv, EngineTruth, B!Complete
<1>6. PollTruth'
  BY <1>1, <1>2, <1>3 DEF BareInv, PollTruth, B!Complete
<1>7. SleepTruth'
  BY <1>1 DEF BareInv, EngineTruth, SleepTruth, B!SleepApps
<1>8. VerdictTruth'
  BY <1>1, <1>2, <1>3 DEF BareInv, VerdictTruth, B!Complete
<1> QED BY <1>4, <1>5, <1>6, <1>7, <1>8 DEF BareInv

(* A start: nothing is under way, and what is said of transfers is of this.  *)
LEMMA DmaStartKeeps == ASSUME BareInv, B!StartGo PROVE BareInv'
<1>1. /\ bPc = "go" /\ bPc' = "returned" /\ ret' = "OK" /\ bIrqAt = "no" /\ ~dma.busy
      /\ UNCHANGED <<bApp, bResult, bIrqAt, seen, hook>> /\ late' = {}
  BY DEF B!StartGo, B!Driver, B!Goto, B!Runs, B!irq, BareInv, EngineTruth
<1>2. /\ dma'.busy /\ dma'.irqEn = (bApp \in B!SleepApps)
      /\ dma'.done = dma.done /\ dma'.error = dma.error
      /\ bJob' = [left |-> B!Segments(bApp), moved |-> 0, error |-> FALSE]
  BY DEF B!StartGo, BareInv, BareTypes
<1>3. B!Segments(bApp)' = B!Segments(bApp) /\ B!Segments(bApp) \in {1, 2}
  BY <1>1 DEF B!Segments
<1>4. dma' \in [busy : BOOLEAN, done : BOOLEAN, error : BOOLEAN, irqEn : BOOLEAN]
  <2>1. dma' = [dma EXCEPT !.busy = TRUE, !.irqEn = bApp \in B!SleepApps]
    BY DEF B!StartGo
  <2>2. dma' = [busy |-> TRUE, done |-> dma.done, error |-> dma.error,
          irqEn |-> bApp \in B!SleepApps]
    BY <2>1 DEF BareInv, BareTypes
  <2> QED BY <2>2 DEF BareInv, BareTypes
<1>5. ~dma.done /\ ~dma.error
  BY <1>1 DEF BareInv, EngineTruth
<1>6. BareTypes'
  BY <1>4, <1>1, <1>2, <1>3 DEF BareInv, BareTypes, BarePlaces, InDmaStart
<1>7. EngineTruth'
  BY <1>1, <1>2, <1>3, <1>5 DEF BareInv, BareTypes, EngineTruth, InDmaStart
<1>8. PollTruth' /\ VerdictTruth'
  BY <1>1, <1>2, <1>3 DEF BareInv, PollTruth, VerdictTruth
<1>9. SleepTruth'
  BY <1>1 DEF BareInv, SleepTruth, InDmaStart
<1> QED BY <1>6, <1>7, <1>8, <1>9 DEF BareInv

(* The handler reads STATUS before it clears it, and only who sleeps lets it *)
(* get there.                                                                *)
LEMMA DmaIrqKeeps == ASSUME BareInv, B!ExternalIrq PROVE BareInv'
<1>1. UNCHANGED <<bApp, bPc, ret, bResult, bJob, late>>
  BY DEF B!ExternalIrq, B!Handler, B!prog
<1>2. B!Complete' <=> B!Complete
  BY <1>1 DEF B!Complete, B!Segments
<1>3. CASE bIrqAt = "claim" /\ ~B!DmaLine
  BY <1>1, <1>3, AsideKeeps DEF B!ExternalIrq
<1>4. CASE bIrqAt = "claim" /\ B!DmaLine
  <2>1. UNCHANGED <<dma, seen, hook>> /\ bIrqAt' = "status" /\ (dma.done \/ dma.error) /\ dma.irqEn
    BY <1>4 DEF B!ExternalIrq, B!DmaLine
  <2>2. bApp \in B!SleepApps
    BY <2>1 DEF BareInv, PollTruth
  <2>3. SleepTruth'
    BY <1>1, <1>2, <1>4, <2>1, <2>2 DEF BareInv, SleepTruth, SaysSo, EngineTruth
  <2> QED BY <1>1, <1>2, <2>1, <2>2, <2>3 DEF BareInv, BareTypes, BarePlaces, EngineTruth,
             PollTruth, VerdictTruth
<1>5. CASE bIrqAt = "status"
  <2>1. /\ UNCHANGED <<dma, hook>> /\ bIrqAt' = "clear" /\ bApp \in B!SleepApps
        /\ seen' = IF dma.error THEN "error" ELSE IF dma.done THEN "done" ELSE "none"
    BY <1>5 DEF B!ExternalIrq, BareInv, PollTruth
  <2> QED BY <1>1, <1>2, <1>5, <2>1
          DEF BareInv, BareTypes, BarePlaces, EngineTruth, PollTruth, SleepTruth, SaysSo,
            VerdictTruth
<1>6. CASE bIrqAt = "clear"
  <2>1. /\ UNCHANGED <<seen, hook>> /\ bIrqAt' = "hook" /\ bApp \in B!SleepApps
        /\ dma' = [dma EXCEPT !.done = FALSE, !.error = FALSE]
    BY <1>6 DEF B!ExternalIrq, B!ClearStatus, BareInv, PollTruth
  <2>2. dma'.busy = dma.busy /\ ~dma'.done /\ ~dma'.error
    BY <2>1 DEF BareInv, BareTypes
  <2>3. BareTypes' /\ EngineTruth'
    BY <1>1, <2>1, <2>2 DEF BareInv, BareTypes, BarePlaces, EngineTruth
  <2> QED BY <1>1, <1>2, <1>6, <2>1, <2>2, <2>3 DEF BareInv, PollTruth, SleepTruth, SaysSo,
             VerdictTruth
<1>7. CASE bIrqAt = "hook"
  <2>1. UNCHANGED <<dma, seen>> /\ bIrqAt' = "no" /\ bApp \in B!SleepApps /\ hook' = seen
    BY <1>7 DEF B!ExternalIrq, BareInv, PollTruth
  <2> QED BY <1>1, <1>2, <1>7, <2>1
          DEF BareInv, BareTypes, BarePlaces, EngineTruth, PollTruth, SleepTruth, SaysSo,
            VerdictTruth
<1> QED BY <1>3, <1>4, <1>5, <1>6, <1>7 DEF B!ExternalIrq

(* A step of main or of the client changes the transfer only by dma_start,   *)
(* and what it has read of STATUS is still so when it acts on it.            *)
LEMMA ProgramKeeps == ASSUME BareInv, B!Main \/ B!Client PROVE BareInv'
<1>1. CASE B!StartGo
  BY <1>1, DmaStartKeeps
<1> USE DEF BareInv, BareTypes, BarePlaces, InDmaStart, EngineTruth, PollTruth, SleepTruth,
            SaysSo, VerdictTruth, B!Complete, B!PollApps, B!SleepApps, B!TimerApps, B!Goto, B!irq
<1>2. CASE B!Client
  BY <1>2 DEF B!Client, B!Driver, B!ClearStatus
<1>3. CASE B!StartCheck
  BY <1>3 DEF B!StartCheck, B!Driver
<1>4. CASE B!StartBusy
  BY <1>4 DEF B!StartBusy, B!Driver
<1>5. CASE B!StartClear
  BY <1>5 DEF B!StartClear, B!ClearStatus, B!Driver
<1>6. CASE B!Wait
  BY <1>6 DEF B!Wait, B!Driver
<1>7. CASE B!DmaMain
  BY <1>7 DEF B!DmaMain, B!Rest
<1>8. CASE B!DmaStarted
  BY <1>8 DEF B!DmaStarted, B!Rest
<1>9. CASE B!Test
  BY <1>9 DEF B!Test, B!Rest
<1>10. CASE B!Wfi
  BY <1>10 DEF B!Wfi, B!Rest
<1>11. CASE B!Judge
  BY <1>11 DEF B!Judge, B!Rest
<1>12. CASE B!TimerMain \/ B!Remember \/ B!Show
  BY <1>12 DEF B!TimerMain, B!Remember, B!Show, B!Rest
<1> QED BY <1>1, <1>2, <1>3, <1>4, <1>5, <1>6, <1>7, <1>8, <1>9, <1>10, <1>11, <1>12 DEF B!Main

LEMMA BareStep == ASSUME BareInv, [B!Next]_(B!vars) PROVE BareInv'
<1>1. CASE UNCHANGED B!vars
  BY <1>1, AsideKeeps DEF B!vars, B!prog, B!irq
<1>2. CASE B!MoveSegment
  BY <1>2, SegmentKeeps
<1>3. CASE B!TimerFires \/ B!ByteArrives
  BY <1>3, AsideKeeps DEF B!TimerFires, B!ByteArrives, B!prog, B!irq
<1>4. CASE B!Main \/ B!Client
  BY <1>4, ProgramKeeps
<1>5. CASE B!TrapEnter
  BY <1>5, AsideKeeps DEF B!TrapEnter, B!prog
<1>6. CASE B!TimerIrq
  BY <1>6, AsideKeeps DEF B!TimerIrq, B!Handler, B!prog
<1>7. CASE B!ExternalIrq
  BY <1>7, DmaIrqKeeps
<1> QED BY <1>1, <1>2, <1>3, <1>4, <1>5, <1>6, <1>7 DEF B!Next, B!Trap

\* Polled, slept on or tested by the client: a program says "pass" only of a
\* transfer that is complete, and "fail" only for cause.
THEOREM BareAlways == ASSUME BareAssumption PROVE B!Spec => []B!VerdictIsTrue
<1>1. BareInv => B!VerdictIsTrue
  BY DEF BareInv, PollTruth, VerdictTruth, B!VerdictIsTrue
<1> QED BY <1>1, BareStart, BareStep, PTL DEF B!Spec

-----------------------------------------------------------------------------
(* The run's specification, in which any of the parts may be the one that    *)
(* steps, implements the specification of each of them.                      *)

\* What the parts' steps are in terms of all variables.
LEMMA PartsStep ==
  ASSUME [Next]_vars
  PROVE  [S!Next]_(S!vars) /\ [T!Next]_(T!vars) /\ [W!Next]_(W!vars) /\ [U!Next]_(U!vars)
         /\ [B!Next]_(B!vars)
<1>1. (S!Next \/ UNCHANGED sVars) /\ (T!Next \/ UNCHANGED tVars)
      /\ (W!Next \/ UNCHANGED wVars) /\ (U!Next \/ UNCHANGED uVars)
      /\ (B!Next \/ UNCHANGED bVars)
  BY DEF Next, vars
<1>2. [S!Next]_(S!vars)
  BY <1>1 DEF sVars, S!vars, S!device, S!count
<1>3. [T!Next]_(T!vars)
  BY <1>1 DEF tVars, T!vars
<1>4. [W!Next]_(W!vars)
  BY <1>1 DEF wVars, W!vars
<1>5. [U!Next]_(U!vars)
  BY <1>1 DEF uVars, U!vars, U!line, U!rings, U!cpu, U!input, U!output
<1>6. [B!Next]_(B!vars)
  BY <1>1 DEF bVars, B!vars, B!prog, B!irq, B!clint
<1> QED BY <1>2, <1>3, <1>4, <1>5, <1>6

\* The composition keeps the promise of every part.
THEOREM Parts == Spec => S!Spec /\ T!Spec /\ W!Spec /\ U!Spec /\ B!Spec
<1>1. Init => S!Init /\ T!Init /\ W!Init /\ U!Init /\ B!Init
  BY DEF Init
<1>2. [Next]_vars
      => [S!Next]_(S!vars) /\ [T!Next]_(T!vars) /\ [W!Next]_(W!vars) /\ [U!Next]_(U!vars)
         /\ [B!Next]_(B!vars)
  BY PartsStep
<1>3. Spec => Init /\ [][Next]_vars
  BY PTL DEF Spec
<1> QED BY <1>1, <1>2, <1>3, PTL DEF S!Spec, T!Spec, W!Spec, U!Spec, B!Spec

\* Neither SPI driver hands a transfer the bytes of another, or its own out of
\* order.
THEOREM RightAnswerAlways == Spec => []RightAnswer
<1>1. S!Spec => []S!RightAnswer
  BY SpiAlways, SoftwareAssumption
<1> QED BY <1>1, Parts, PTL DEF RightAnswer

\* No timer driver reports early unless STATUS was not clear at the start, and a
\* watchdog nobody has changed since it was loaded resets when it is due, warned.
THEOREM ExpiryIsDueAlways == Spec => ExpiryIsDue
<1>1. (T!Spec => T!ExpiryIsDue) /\ (W!Spec => W!ResetIsDue)
  BY TimerAlways, WatchdogAlways, SoftwareAssumption
<1> QED BY <1>1, Parts, PTL DEF ExpiryIsDue

\* tx_pending of the library and uart_console_tx_busy do not forget the device.
THEOREM DoneMeansSentAlways == Spec => []DoneMeansSent
<1>1. U!Spec => []U!DoneMeansSent
  BY UartDoneMeansSent, SoftwareAssumption
<1> QED BY <1>1, Parts, PTL DEF DoneMeansSent

\* Neither handler nor foreground loses, repeats or swaps a byte unnoticed.
THEOREM UartInOrderAlways == Spec => UartInOrder
<1>1. U!Spec => U!TxInOrder /\ U!RxInOrder
  BY UartBytesInOrder, SoftwareAssumption
<1> QED BY <1>1, Parts, PTL DEF UartInOrder

\* No program over the DMA engine reports "pass" of a transfer that is not
\* complete, or fails one without an error or an exhausted wait.
THEOREM BareVerdictAlways == Spec => []B!VerdictIsTrue
<1>1. B!Spec => []B!VerdictIsTrue
  BY BareAlways, SoftwareAssumption
<1> QED BY <1>1, Parts, PTL
=============================================================================
