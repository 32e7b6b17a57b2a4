# eRISCV-AP in TLA+

eRISCV-AP is a RV64GC application-processor SoC in SystemVerilog with its boot
ROM, a bare-metal library, FreeRTOS and Zephyr ports and a Linux driver. This
directory holds TLA+ specifications of its protocols and of the software that
drives them, TLC instances of them, and TLAPS proofs. Paths below are relative
to the repository's root; `rtl/soc` is shortened to `soc` where it is clear.

1. [Inventory](#1-inventory) – the parts of the system and what makes them correct
2. [Modules](#2-modules) – which module models which part, and how
3. [Runs](#3-runs) – what is model-checked, under which bounds and fairness
4. [Theorems](#4-theorems) – what is proved, and along which argument
5. [Divergences](#5-divergences) – where the code and its documentation disagree
6. [Further work](#6-further-work)
7. [Not modelled](#7-not-modelled)

Conventions. For a circuit one action is one clock edge of the component in one
state of its FSM; where several FSMs read each other's registers on the same
edge (`LineAdapter`, `MemoryFrontend`, `IfStage`) one step is an edge of all of
them, a conjunction of one relation per FSM. For software one action is one
register access, or one access to memory that another context shares, with the
local computation that surrounds it. A register `foo_q` is a variable or a field
named after it; a register that is dead, one that is written again before it is
read, holds its reset value, so that states that differ in nothing the circuit
can observe are one state. Inputs are chosen with `\E`. Operators whose comment
says *mutant* are plausible wrong versions of the definition that follows them:
each property of a passing run has one that violates it, which shows that the
property can fail. `PROJECT.json` names the pairs; properties that conjoin
several parts have further mutants, for the other parts, in their modules.

## 1. Inventory

About 16k lines of the RTL under `rtl/` are the project's own; `rtl/vendor`
(100k lines) is PULP AXI, CVFPU and the Forencich Ethernet MAC and DMA. The
project's own C under `sw/` is about 7k lines, of which a fifth are test vectors.

### 1.1 Memory side of the hart tile (`soc/hart_tile/mem`, `soc/hart_tile/core/mmu`)

| Component | State | Operations | Interacts with |
|---|---|---|---|
| L1 data cache, `cache/dcache.sv` | valid, dirty, tag, data and victim arrays; the captured request; LR reservation; FENCE walk position; 15-state FSM | load, store, LR, SC, AMO, CBO clean/flush/inval, FENCE walk; eviction, refill | one CPU port shared by the router and the page-table walker; a CBO port; a flush port; the line port |
| L1 instruction cache, `cache/icache.sv` | valid, tag, data, victim; captured fetch; 5-state FSM | fetch, refill, invalidate all | fetch port; FENCE; a line port of its own |
| Line adapter, `axi/cache_axi4_line_adapter.sv` | captured line, beat counter, error; 7-state FSM | one line as one INCR burst | line port, AXI4 |
| Frontend, `ap_hart_memory_frontend.sv`, with `cache/dcache_cpu_router.sv` | FSMs of the fetch port, the data port and the router; `ptw_pending_q` | translate, route, FENCE and CBO handshakes | core, MMU, caches, boot ROM, uncached master |
| MMU, `mmu/sv39_mmu_ctrl.sv`, `sv39_ptw.sv`, `sv39_pte_check.sv`, `sv39_tlb.sv` | one translation at a time; two TLBs; walk level; A/D mask | lookup, walk, A/D update by atomic OR, refill, flush | both ports of the frontend; the data-cache port |
| Uncached master, `axi/ap_uncached_axi_master.sv` | captured request; 7-state FSM | a device load or store | router, peripheral AXI |

Hard here: walker and router raise requests that last one cycle and look at no
ready; fetch translation, data access and FENCE wait on each other; every line
transfer may fail between two steps; translations are cached while software
rewrites the page table; DMA masters write memory behind a non-coherent cache.
Correct means: the hart sees one memory, maintenance operations do what DMA
drivers rely on, errors reach whoever asked, no translation outlives an
`SFENCE.VMA`, no write passes a page that forbids it, and nothing waits for ever.

### 1.2 Core (`soc/hart_tile/core`)

| Component | State | Hard behaviour |
|---|---|---|
| `if_stage.sv`, `pipeline_control.sv` | PC, outstanding request, hold buffer, upper-halfword buffer, pending redirect, drop flag, IF/ID | a stream of 16- and 32-bit instructions cut out of 32-bit words, under stalls, redirects and faults that hit any buffer state |
| `mem_stage.sv`, `wb_stage.sv` | the operation in MEM and its answer | FENCE and CBO completion, precise traps |
| `id_stage.sv`, `ex_stage.sv`, `forwarding_unit.sv`, `branch_predictor.sv`, `muldiv_unit.sv`, `fpu_adapter.sv` | ID/EX, EX/MEM | forwarding under replay, load-use stalls, multi-cycle units |
| `trap_control.sv`, `csr_file.sv`, `riscv_core.sv` | CSRs, privilege, debug mode | priority and delegation of interrupts, traps against outstanding memory operations |

Correct means: every instruction is executed once, in program order and whole;
faults and traps are precise.

### 1.3 Peripherals (`soc/peripherals`, `rtl/peripherals/watchdog`) and their drivers

| Component | State | Operations | Hard behaviour |
|---|---|---|---|
| `apb/ap_axi64_to_apb32.sv` | address/data seen, byte enables, error; 4-state FSM | one AXI beat | AW and W in any order, one beat becomes two accesses, two errors become one |
| `plic.sv` with `sw/lib/trap.c` | pending, in service, enables, thresholds | claim, complete, configure | two contexts claim the same sources; a level that comes back during its service |
| `clint.sv` with `sw/include/eriscv_mcu.h` | mtime, mtimecmp, msip | read, set | 64-bit values in 32-bit halves beside a running counter |
| `uart/uart_apb.sv`; `sw/lib/uart.c`, FreeRTOS `drivers/uart.c`, Zephyr `drivers/uart.c` and `console/uart_irq_console.c` | two FIFOs, shifter, enables; software rings | init, write, getc, putc, service, poll_out, poll_in, irq callbacks | the watermark interrupt is the only thing that moves the ring on; FIFO limits; busy flags |
| `spi/spi_apb.sv`; FreeRTOS and Zephyr `drivers/spi.c` | shift state, DONE, latched interrupt; transfer in progress | polled and asynchronous transfers, time-out | late bytes, late interrupts, chained transfers |
| `timer/timer_apb.sv`; `eriscv_mcu.h`, FreeRTOS and Zephyr `drivers/timer.c` | COUNT, COMPARE, CTRL, sticky STATUS | start, stop, poll, handlers | an expiry bit that outlives its interval |
| `watchdog_apb.sv`; `eriscv_mcu.h`, FreeRTOS and Zephyr `drivers/wdt.c` | counter, warning, window, lock | configure, enable, feed, lock, callback | reset neither early nor never, whatever is reconfigured; warning before reset |
| `axi/ap_axi_periph_xbar.sv`, `apb/ap_apb_interconnect.sv`, `gpio`, `flash` | decode; one register; burst counters | | little |

### 1.4 Programs (`sw/lib`, `sw/examples`, `sw/rtos`)

The library has a DMA driver (`dma.c`), trap dispatch (`trap.c`) and inline device
routines; eight examples are built around interrupts, WFI and DMA. The FreeRTOS
demo, its user-mode variant with PMP-isolated tasks, and two Zephyr applications
exercise queues, notifications, semaphores, time-outs and the drivers. Hard: the
order of hand-overs between preemptible tasks, unprotected shared marks, WFI
against the interrupt it waits for, devices that answer after a time-out. Correct
means: a program reports success exactly when what it tests has worked, and it
always comes to a report.

### 1.5 Ethernet (`soc/ethernet`, `sw/linux/eriscv_ap_eth`)

The ring engine (`axi/ap_eth_ring_engine.sv`) walks a TX and an RX descriptor ring
in DDR through one AXI port; `apb/ap_eth_dma_regs.sv` holds heads, tails and
interrupt status; `ap_ethernet_subsystem.sv` couples descriptors to the vendored
payload DMA and to the frame buffers; the Linux driver owns the other end of the
rings. Hard: doorbells that race a fetch, disabling RX during TX, completions
that fail, NAPI against the interrupt status, stop and reset with transfers in
flight. Correct means: frames go out and come in once and in order, a buffer is
reused only when the hardware has finished with it, no completion is forgotten.

The payload paths run between the ring engine and the MAC. Transmission goes from
the read DMA through a byte serialiser and a FIFO into the PHY's clock, where
`axis/ap_eth_tx_frame_buffer.sv` stages a whole frame when a token has crossed and
returns the token when the MAC has taken the last byte. Reception comes out of a FIFO
that is never held up into `axis/ap_eth_rx_frame_buffer.sv`, which the subsystem arms,
writes to memory and releases. Hard: two clocks, pulses that meet each other, a wire
that does not wait, read errors, RX_EN at any moment. Correct means: what is reported
sent has left whole, what is reported received is one whole frame, nothing hangs.

### 1.6 Debug and boot (`soc/debug`, `soc/boot`)

JTAG DTM, a toggle-handshake clock crossing (`dmi_cdc.sv`), the debug module,
system-bus access, and three boot sources behind an arbiter with the boot ROM
(`sw/ap_bootrom/boot.S`).

`PROJECT.json` lists every component with its status and every hazard with its
source line and the properties that cover it.

## 2. Modules

```
MemoryContract <--implements-- DCache ----line port----> LinePort <--implements-- LineAdapter
                                 |  CPU, CBO and flush ports
                ICache ------ MemoryFrontend ------ ApbBridge ---- Plic, Clint (with their software)
                                 |  fetch port                       |  APB registers
                              IfStage                              Uart, Spi, Timer, Watchdog (with drivers)
Linux driver + ring engine: EthRing ---- payload paths: EthPayload   |
Programs over library and kernels: Baremetal, Rtos + RtosPrograms ---+
```

A component that uses another one is modelled against the other's port; the
component behind the port has a module of its own. Two of the ports are abstract
specifications that the detailed module implements.

### DCache and MemoryContract
`DCache` is `dcache.sv` with the line memory behind it. `state`, `valid`, `dirty`,
`tag`, `data`, `victim`, `refillWay`, `flushAt`, `resv` are the registers; `req`
and `cbo` are the captured requests, `bus` the line transaction in flight, `mem`
what is behind the port. Actions: `AcceptCpu`, `AcceptCbo`, `AcceptFlush`,
`GoIdle` (the three FSM states that accept, with the back-to-back acceptance in
RESP and FLUSH_DONE); `LookupHit` (one disjunct per kind of access) and
`LookupMiss`; `AwaitLine` (the *_REQ states); `MissFault`, `VictimWritten`,
`Install`; `CboLookup`, `CboWritten`; `FlushScan`, `FlushWritten`. `ServeLine` is the
memory, which may answer on the edge of the request or any time later, with or
without an error; a write that fails may have written any subset of the words.
`DmaWrite` writes memory behind the cache. The comparison of the walk with
`1'(WAYS_P - 1)` is kept as it is (`LastFlushWay`), not as intended.

`MemoryContract` says what the hart and a DMA driver may rely on: a *view* of each
line the hart holds a copy of, the memory `ram` that devices see, and the lines
`owed`, those stored to and not yet written back. Accesses are atomic on the view;
a FENCE may report success only when nothing is owed, a CLEAN or FLUSH only when
its line is not; a failed access changes nothing; a failed write-back leaves the
line owed. `DCache!ImplementsContract` is the refinement: a line enters the view
when memory has *served* the read, and stops being owed when memory has served the
write, both of which happen before the cache samples the answer.

Abstracted: a word is one value (byte enables merge inside it), addresses are
(set, tag, word), AMOs are a constant table `Alu`.

### ICache
`icache.sv` the same way, with the FENCE that waits for its FSM (`AskInvalidate`,
`Invalidate`) and a memory that changes behind it. `recent[l]` is a history
variable: what memory has held at `l` since the last acknowledged invalidation. The
lookup is the code's loop: the last way that matches *or is invalid* wins
(`LookupSlot`), which is right only because of the order in which ways fill.

### LineAdapter and LinePort
`LinePort` is the port both caches are written against: one transaction at a time,
performed as a whole or failed. `LineAdapter` is the FSM of
`cache_axi4_line_adapter.sv` together with a client that pulses `line_req_i` and a
subordinate that may stall, send `last` early or never, use a foreign ID, or answer
any beat with an error. A subordinate does not transfer more beats than were asked
for. `ImplementsLinePort` is the refinement.

### MemoryFrontend
The frontend's fetch and data FSMs, the router, the MMU controller, the walker with
its A/D update, the TLBs, and the MEM stage that drives them, all on one clock. The
D-cache appears as its port (`cache`, the acceptance rules of `DCache`), the I-cache
or boot ROM as `imem`, the uncached master as `uncached`. There is one page; its
leaf PTE is in cacheable memory and software stores to it. A TLB is the set of
images of that PTE it may hold; `MmuMiss` is always possible since any entry may
have been replaced. `recent` is a history variable as in `ICache`: the values of the
PTE since the last `SFENCE.VMA`, whose way through EX, MEM and WB with fetch stopped
is in `sfence`. Privilege, SUM and MXR, superpage alignment, ASIDs and the replacement
order are not here.

### IfStage
`if_stage.sv` with the enables and flushes of `pipeline_control.sv` and the ID/EX register
that takes its packets. One step is a clock edge with the inputs of that cycle
(`Input`): fetch enable, back-end stall, load-use replay, redirect and the memory's
handshake. The data of a packet are the *addresses* its halfwords were read from, so
that a property can say an instruction is whole; of a halfword only whether its low
bits look compressed is kept, since that is all the stage looks at. `next` is a ghost: the pc
program order asks for. The environment (`setup`) is a program, the targets of its
redirects, its faulting words, and one of two memories: one that answers every
request in the next cycle, as the core's test bench does, and one that serves one
request at a time and takes as long as it likes, as the AP tile's frontend does.

### ApbBridge
The uncached master, the five AXI channels as one-place delays, and
`ap_axi64_to_apb32.sv`. A *lane* is one 32-bit half of the doubleword. `accesses` and
`faults` record what reached the devices for the current request. A slave is always
ready (`pready` is tied high in every slave of the repository) and may raise `pslverr`.
The two-event edge of AXI_IDLE keeps the code's order of assignments, the last of which
decides `bad`.

### Plic
`plic.sv`: gateway, priority selection, claim, completion, enable and threshold writes,
with level-triggered devices and the M and S handlers of `sw/lib/trap.c`, the first of
which preempts the second between any two of its steps. Priorities are constants;
completions of a source the context has not claimed are not modelled.

### Clint
`mtime`, `mtimecmp` and `mtip`, and the routines `clint_set_mtimecmp` (three stores) and
`clint_read_mtime` (three loads and a retry) with the counter running between any two
accesses. A 64-bit value is two words of `Base` values.

Msip and software writes of `mtime` are not modelled.

### EthRing
Everything between the network stack and the wire. *Software*: process context
(`pc`: probe, remove, open, stop, `start_xmit`), NAPI (`napi.at`) and the interrupt
handler (`irqAt`) of one hart; a context is preempted by those above it between any two register
accesses, except under `tx_lock`, which `Masked` states. *Ring engine*: `CompleteTx`,
`CompleteRx`, `StartFetch`, `StayIdle` are what ST_IDLE decides, `IdleTo` the assignment at the
end of the clocked block by which a disabled RX overrides it; a fetch with its checks is one step
(`Launched`, `Armed`, `Abandoned`), a completion two (`StatusWritten`, `HeadMoved`), between
which software sees the one and not the other. *Payload paths*: `TxPayload`, `FrameArrives`,
`RxPayload`, `Disarmed`. `dangling` is a transfer whose buffers have been freed. Frames are
numbered; `sent`, `arrived`, `taken`, `delivered` are histories. Allocation failures are real steps:
`start_xmit` that finds no memory returns BUSY and the frame stays with the stack, a
failed mapping drops it, and `RxNotPosted` is a receive turn that can post no buffer.
Left out: errors of a descriptor fetch, errors of the payload transfers
(to the driver a failed received frame is a dropped one and a failed sent one is a
statistic; `EthPayload` has them), statistics, addresses.

### EthPayload
`ap_ethernet_subsystem.sv` and the four files of `axis/` between the engine's launch, arm and
completion signals and the MAC. A byte is the number of its frame and its place in it. *Transmission*
is one action per event, since its two sides share no clock: `Launch`, `ReadByte` (the DMA, which may
end with an error), `ByteOut` (the serialiser, one byte at a time), `FrameReady`, `Ask`, the 2-phase
crossing of the token (`Cross`, both ways), `Start`, `Capture`, `MacAccepts` and `Ack` on the PHY's
clock, `Complete` when the crossing is ready again. *Reception* is one step per edge of the root clock,
because subsystem and frame buffer read each other's registers and pulses: `RxEdge` (the registers
`rx_*_q`), `BufEdge` (the clocked block of the frame buffer, whose parts keep the order in which they
override each other), `DmaEdge`, `EngineEdge`, and software that switches RX_EN. `page` is what the DMA has
written, `wired` what the MAC has accepted. The FIFO in front of the frame buffer is drained on every
edge, so that it appears only as bytes that may be lost (`Overruns`). The MAC begins no
frame while RX is off. Between RX off and on lies a reset of the rings, and so no arming pulse.
`EthRing` and this module meet at the engine: a completion here is a completion there, a frame there
is the bytes of one here.

### Uart
`uart_apb.sv` with the library's interrupt-driven routines (FreeRTOS has a copy of them), its polled
routines, or Zephyr's driver with `uart_irq_console.c` on top; `port` chooses. Bytes are
numbered in the order in which they were asked for (`asked`), left (`sent`), arrived and
were returned (`taken`); `lost` counts what a full FIFO dropped. FIFO depths, ring size and watermarks are constants.
The foreground and the handler take one register access per step. A polled `putc` waits for
TX_BUSY after its store, and would wait for ever if it were preempted for longer than a byte
time at that point, which single-threaded polled use excludes; using polled
and interrupt-driven calls on one UART loses bytes. Both uses are outside the model.

### Spi
`spi_apb.sv`, the PLIC's latch, and both drivers: `PollSend`/`PollTimeout` (a time-out leaves its byte on the way), `Start` from
a task or from the callback, `IrqHandler`, `Isr`. `last.clean` says that a transfer began on a device
at rest, the premise of `RightAnswer`: the first transfer after a given-up one may see the old byte in the code too.
`start_async` and `transceive` take no lock; a second task is excluded.

### Timer
`timer_apb.sv` under the library, FreeRTOS and Zephyr. `elapsed` counts the interval in progress, `reports` how
often its end has been reported. `clean` says that STATUS was clear when it began. As found: Zephyr's handler
clears STATUS before COUNT, so that its callback comes twice per period; `counter_stop` leaves STATUS;
`counter_start` after it resumes without the interrupt; an interval of zero never ends.

### Watchdog
`watchdog_apb.sv` under the library's calls (in the order of `wdt_smoke`), FreeRTOS's three-store configuration, and
Zephyr's driver with its handler. Registers wrap at `Width`; `ask` is what the software asked for, not reduced;
`since`, `warned` and `steady` are the history of the count that is running. The reset ends the behaviour
(`fired`); the cause bits that survive it, and the debugger's freeze, are left out. As found: LOCK also blocks
STATUS, so that a pending warning of a locked watchdog is cleared only by a feed, and a handler that relies on STATUS runs again and again.

### Baremetal
The DMA driver (`StartCheck` to `StartGo`, `Wait`, `ClearStatus`), trap entry and handlers, WFI, and eight examples,
one of which is chosen at the start, or a `client` that makes any sequence of DMA calls. The
DMA engine is not in the repository's SoC: it is external, known from how the software uses it.
CLINT and UART appear as the programs meet them: `TimerFires` is `mtime >= mtimecmp` of `clint.sv`,
with an interval longer than the handler, and `ByteArrives` the push into the RX FIFO of `uart_apb.sv`; `Clint` and `Uart` have the details.

### Rtos and RtosPrograms
`RtosPrograms` gives each task of the four programs as a sequence of operations with the code's time-outs and
checks; `Rtos` gives the operations their meaning: kernel objects, priorities, ticks, devices, PMP regions
and `task_done_bits |= bit` as a load and a store. The kernels are external: preemption by priority, and any order among equals at a
tick or a yield. A bounded wait (the 10000 and 100000 polls of the FreeRTOS trigger, the smoke tests, the 100 sleeps in which Zephyr's
`main` waits for a quiet console with `tx_irq_count` above zero) may run out at any poll that finds nothing (`GiveUp`), and `Late` notes whether a device was
still at work then: a failure without one would violate `VerdictIsTrue`. `Shifted` ends a polled SPI byte, which raises no interrupt. A Zephyr thread that fails ends by itself while `main` goes on; the model ends at the first failure. As found: in the
user-mode demo a tick between the give and the exit of a task lets user3 judge too early; its README calls
Task 0 "scheduled first", but FreeRTOS starts the task created last among equals; and "invalid arguments also trigger
fail-stop" does not hold of a notify with a bad index, which returns.

### Composition, MC modules and proof modules
`MCDCache`, `MCICache`, `MCIfStage`, `MCMemoryFrontend` and `MCEthRing` give constants their values. `MCDevices` and
`MCSoftware` put several components into one run: the variables of each are disjoint, one component (`system`) is
chosen at the start and runs under its own fairness, and the others rest in an initial state. They
are a way of checking several modules together and say nothing of interactions between them; those components interact through interrupts and registers only, which each module has on its own side.
Both keep the sizes as CONSTANTS under named assumptions, and `Devices.cfg` and `Software.cfg` give the values, so that the theorems speak of the very
specifications the runs check. `DCacheProofs`, `ICacheProofs`, `MemoryFrontendProofs`, `IfStageProofs`, `EthRingProofs`, `DevicesProofs` and `SoftwareProofs`
hold the theorems.

## 3. Runs

| Run | Instance | Distinct states | What it shows |
|---|---|---|---|
| `dcache_contract` | 1 set, 2 ways, 3 tags (symmetric), 1 word of 1 bit, AMOADD, DMA | 273k | `ImplementsContract`: loads, stores, AMOs, LR/SC, CBOs and FENCE keep the contract with failing transfers and DMA writes at any moment; `NoDuplicateLine` |
| `dcache_progress` | the same geometry, no DMA, no AMO, no LR | 286k | `CleanMatchesMemory`, `FenceCleansAll`; `OperationsEnd` (accesses and maintenance) under fairness |
| `icache_fetch` | 1 set, 2 ways, 3 tags, 2 contents | 295k | `HitReadsTheMatch`, `FetchIsRecent`; every fetch is answered and a waiting FENCE meets an idle cache |
| `if_stage_supported` | 4 words, at most 2 redirects | 37k | `InProgramOrder`, `WholeInstruction`, `FaultIsWarranted`, `FetchGoesOn` for all RVC mixes from single-cycle memory and `.option norvc` programs (with and without a faulting word) from slow memory |
| `if_stage_rvc` | 3 words, no redirect | violated | compressed programs from slow memory: 5.1 |
| `frontend_ports` | 2-level walks, a page that software makes read-only, failing memories | 136k | `NoLostRequest`, `AnswerReachesItsOwner`, `TlbIsRecent`, `WriteIsAllowed`; `FetchAnswered` and `OperationEnds` under fairness |
| `frontend_amo` | translated AMOs | violated | 5.2 |
| `devices` | one of PLIC (3 sources, 1 register write), CLINT (words of 3 values), line adapter (2 lines, 2 beats), bridge (well-formed and malformed bursts), transmit path (3 frames of 3 bytes), receive path (3 frames of up to 3 bytes, buffers of 2) | 52k | `ServedByItsClaimer`, `ClaimMeansRaised`, `RaiseServed`; `TimerCalls`; `ImplementsLinePort`; `TransfersAreWhole`; `RequestAnswered` |
| `eth_ring` | rings of 3 and 4, budget 1, five loads | 145k | `RingsLive`, `SlotFree`, `NoStaleFrame`, `FramesInOrder`; `RxTaken`, `QueueWoken` under fairness |
| `eth_stop` | the same | violated | 5.3 |
| `software` | one of UART, SPI, timer, watchdog, bare-metal programs, RTOS programs | 93k | `UartInOrder`, `DoneMeansSent`, `UartServed`; `RightAnswer`, `CallbackComes`; `ExpiryIsDue`; `VerdictIsTrue`, `VerdictComes` |
| `eth_payload` | receive path: 4 frames of up to 4 bytes, buffers of 3, beats of 2 | violated | 5.4 |

`tlc -config <cfg> <module>` in this directory runs one; `PROJECT.json` gives the pairs.
Each takes about a minute or less. The other configurations belong to section 5, where they reproduce divergences.

### Why the bounds are enough
* **Caches.** Sets interact only in the FENCE walk, and that the walk misses no line on its way from set to set is proved for every number of sets
  (`FenceCleansAllAlways`). One set with two ways and three tags has hits, evictions of
  clean and dirty victims, and a third line that forces the second eviction. Two ways is
  also the configuration of the SoC (see 5.6). One word suffices for the contract since a line moves
  as a whole; that a failed write-back may leave it half written makes no difference to it is
  proved (`ImplementsContractAlways` holds for every set of words).
* **IfStage.** A word has two halfwords and at most three packets are in flight (a response, hold or
  upper, IF/ID), so four words let the first packet meet the wrapped-around last one;
  two redirects allow one to overtake another that is still pending.
* **Frontend.** One page suffices for a property of one translation; the effect of other
  pages on it is replacement, which is always possible. Two levels give a non-leaf and
  a leaf read; the third level of Sv39 repeats the first. The data port does translated stores, uncached
  loads and AMOs, CBOs, FENCEs, and the store that makes the page read-only.
* **Devices.** Three sources give a tie and an outranking one; one register write can mask a
  source within a handler. Three values per word of the CLINT allow a carry between any two accesses, a guard value
  and one below it; `mtime` stops at its last value, so its wrap-around after 2^64 ticks is out of scope. Two beats separate first from last.
* **EthRing.** A ring of three has two usable slots and wraps within four frames; the RX ring of four keeps room
  to pass over two frames whose buffers could not be replaced. Budget 1 ends a poll both with and without budget left. The loads (frames to send, frames that
  arrive, opens, failures) are chosen so that each stresses something: (4,0,1,0) the full TX ring, (1,1,1,2) both directions,
  (0,2,1,2) failed allocations in reception, (3,0,2,0) and (0,1,2,1) stop, restart and rebind. The counts bound the environment only; nothing the driver does is cut off.
* **EthPayload.** Three frames of three bytes and a FIFO of four: the next frame may be behind the one that is
  staged, and two do not fit. Frames of one to three bytes and buffers of two give frames that fit, that just fit and that do not, and
  the third meets a buffer that has been used, released and armed again. Beats of one byte let the last beat be another than the first.
* **Uart.** Depth 2, a ring of 3 (two usable) and watermark 1 let every buffer be full, empty and wrapped within five bytes.
* **Spi.** Transfers of 0 to 2 bytes (first and last differ), four calls, two time-outs: a second time-out while the first byte is still under way.
* **Timer.** Intervals 0, 2 and 3, so that one may be started with a count beyond the next compare.
* **Watchdog.** Time-outs 2 and 3, thresholds 0 and 1, 2 cycles per millisecond, registers modulo 8: nothing wraps in the passing run, and
  `WatchdogEdge.cfg` adds the values at which it does (5.5). `Longest` saturates a history counter above every time-out.
* **Programs.** The examples' loops are finite or periodic; `Ticks = 4` keeps tick counts modulo 4, and no more than two intervals
  pass between two looks at the count. Counts of polls are not kept, as a wait may end at any of them. `Handoffs = 2` of the Zephyr demo's 4 rounds: each round is the same.

### Fairness
Only what the circuit guarantees by being clocked, and what the environment must promise:

* caches: weak fairness of the cache's own step, and of the line memory's answer (the
  AXI fabric answers; errors are allowed). Nothing is assumed of the CPU side.
* `LineAdapter`: the subordinate does not stall for ever. `ApbBridge`: every slave is
  always ready. `MemoryFrontend`: the clock runs, and what is behind the three ports is
  infinitely often not busy; which port goes first is left open.
* `IfStage`: cycles without stall or redirect, in which the memory accepts or answers, keep coming.
* `Plic`: the hart executes a handler to its end. Strong fairness for the handlers
  because preemption by M interrupts the S handler again and again. `RaiseServed` is
  stated for sources whose superiors in priority fall silent: fixed priorities starve.
* `EthRing`: the engine is clocked, a payload transfer that has begun ends, the hart takes interrupts, and
  poll and calls that have begun go on. Frames, calls, failures and time-outs are not owed.
* `EthPayload`: both clocks run, memory answers the DMA, the MAC sends. Frames and descriptors are not owed, nor is RX ever switched on.
* `Uart`, `Spi`, `Timer`, `Watchdog`: the device is clocked; handlers and calls that have begun go on. That somebody makes a call is never assumed.
* `Baremetal`: the DMA engine, the timer, the program and its handlers go on; no byte need arrive.
* `Rtos`: ticks, devices and handlers go on, and long time-outs expire; strong fairness of the tasks, since interrupts
  disable their steps again and again and yet leave them time.

Deadlock is checked in every run but `software`, where a program that has reported, and a system that the watchdog has reset, stops.

## 4. Theorems

Proved for every value of the constants that the modules' assumptions allow.

| Theorem | Statement |
|---|---|
| `DCacheProofs!TypeCorrect` | `Spec => []TypeOK` |
| `DCacheProofs!NoDuplicateLineAlways` | `Spec => []NoDuplicateLine` |
| `DCacheProofs!CleanMatchesMemoryAlways` | `DmaValue = {}` gives `Spec => []CleanMatchesMemory` |
| `DCacheProofs!FenceCleansAllAlways` | `NWays = 2` gives `Spec => []FenceCleansAll` |
| `DCacheProofs!ImplementsContractAlways` | `NWays = 2` gives `Spec => ImplementsContract` |
| `ICacheProofs!TypeCorrect` | `Spec => []TypeOK` |
| `ICacheProofs!HitReadsTheMatchAlways` | `Spec => []HitReadsTheMatch` |
| `ICacheProofs!FetchIsRecentAlways` | `Spec => []FetchIsRecent` |
| `DevicesProofs!TypeCorrect` | the PLIC's `Spec => []TypeOK` |
| `DevicesProofs!ServedByItsClaimerAlways` | the PLIC's `Spec => []ServedByItsClaimer` |
| `DevicesProofs!ClaimMeansRaisedAlways` | the PLIC's `Spec => []ClaimMeansRaised` |
| `DevicesProofs!TimerCallsAlways` | `DevicesSpec => []TimerCalls` |
| `DevicesProofs!LineTypeCorrect` | the line adapter's `Spec => []TypeOK` |
| `DevicesProofs!ImplementsLinePortAlways` | `DevicesSpec => ImplementsLinePort` |
| `DevicesProofs!TransfersAreWholeAlways` | `DevicesSpec => []TransfersAreWhole` |
| `SoftwareProofs!RightAnswerAlways` | `Spec => []RightAnswer` |
| `SoftwareProofs!ExpiryIsDueAlways` | `Spec => ExpiryIsDue` |
| `SoftwareProofs!DoneMeansSentAlways` | `Spec => []DoneMeansSent` |
| `SoftwareProofs!UartInOrderAlways` | `Spec => UartInOrder` |
| `SoftwareProofs!BareVerdictAlways` | `Spec => []B!VerdictIsTrue`, the bare-metal half of `VerdictIsTrue` |
| `MemoryFrontendProofs!TypeCorrect` | `Spec => []TypeOK` |
| `MemoryFrontendProofs!NoLostRequestAlways` | `Spec => []NoLostRequest` |
| `MemoryFrontendProofs!AnswerReachesItsOwnerAlways` | `Spec => []AnswerReachesItsOwner` |
| `MemoryFrontendProofs!TlbIsRecentAlways` | `Spec => []TlbIsRecent` |
| `MemoryFrontendProofs!WriteIsAllowedAlways` | no AMO is translated gives `Spec => []WriteIsAllowed` |
| `IfStageProofs!TypeCorrect` | `Spec => []TypeOK` |
| `IfStageProofs!FaultIsWarrantedAlways` | `Spec => []FaultIsWarranted` |
| `IfStageProofs!WholeInstructionAlways` | every setup is aligned or free of faults gives `Spec => []WholeInstruction` |
| `IfStageProofs!InProgramOrderAlways` | every setup is aligned, or single-cycle and free of faults, gives `Spec => []InProgramOrder` |
| `EthRingProofs!TypeCorrect` | `Spec => []TypeOK` |
| `EthRingProofs!RingsLiveAlways` | `Spec => []RingsLive` |
| `EthRingProofs!NoStaleFrameAlways` | `Spec => []NoStaleFrame` |
| `EthRingProofs!FramesInOrderAlways` | `Spec => FramesInOrder` |
| `EthRingProofs!SlotFreeAlways` | `WriteFails = {FALSE}` gives `Spec => []SlotFree` |

**Assumptions.** `DCache`: at least one set and two ways (with one way the walk's
way counter has no bit), zero is a value, AMO names are distinct from the other
operations and `Alu` is total, `None` is none of the data and no record of an operation. Two theorems
add that there are two ways, as in the SoC; with more the code does not have the property (5.6). One
adds that no DMA master writes memory; with one, stale clean lines are what maintenance is for.
`ICache`: the same about the geometry and `None`. Nothing bounds sets, tags, words or values.
`Plic`: sources are finitely many positive numbers, each with a priority up to `MaxPriority`.
`MemoryFrontend`: any operations, fetches and PTEs, with the PTEs closed under setting A and D; at least one level; a memory
may fail or not. `IfStage`: any setups; `None` is no packet. `EthRing`: rings of two slots or more, as a ring keeps one slot free; a session has at most `RxN - 2` receive
turns that post no buffer. The first of them switches DMA off and at most two more polls follow, so that the driver's rings of 64 never come near it.

The parts of `MCDevices` (`DevicesAssumption`): a 32-bit word has two values or more (`BaseAssumption`; with one the guard value of the high word is
the value itself); a line has at least one beat, and zero is a value (`BeatsAssumption`); a request is single or not, and `None` is no request
(`FormAssumption`); a frame has a byte (`BytesAssumption`); a receive buffer and a beat hold a byte, and no byte is lost before the frame buffer, which a root clock
of at least the wire's byte rate ensures (`RxAssumption`; with lost bytes `OneFrame` is false, 5.5). The parts of `MCSoftware` (`SoftwareAssumption`):
the library's rings have a slot, the sizes of FIFOs are numbers (`UartAssumption`); the SPI drivers are the two there are (`SpiAssumption`); the model's
counter reaches every interval (`IntervalAssumption`); every time-out of the watchdog is two cycles or more and fits into its registers after the Zephyr
driver's multiplication (`WatchdogAssumption`; outside of this the reset comes early or without its warning, 5.5); the bare-metal programs are among those the model
has (`BareAssumption`). TLC evaluates all of them in the two runs. Nothing bounds frames, transfers, intervals, rings or the number of calls.

Three theorems have a hypothesis about the inputs, which excludes what section 5 shows to be false of the code: `WriteIsAllowedAlways`
translated AMOs (5.2), `InProgramOrderAlways` compressed code from a memory that takes its time (5.1) or that faults, `SlotFreeAlways`
a failing write of a completion (5.5). `WholeInstructionAlways` excludes compressed programs with faulting words:
when the second half of an instruction faults while ID is stalled, the hold branch loses the fault (5.5) and completes the instruction with half a NOP. Aligned programs
may fault and may be fetched from any memory.

**Data cache.** `NoDuplicateLine` is not inductive: a refill installs the requested line
without looking for it again. It is preserved because the line was absent at the lookup,
several states earlier, and nothing brings it in meanwhile. The invariant `Inv` says so:
`Control` states, per FSM state, which registers are live, that a line being refilled is
not cached and the way it goes to is not dirty, and that a slot being written back is valid
and dirty; `BusControl` states that the transaction in flight is the one the FSM waits for.
`Inv == TypeOK /\ NoDuplicateLine /\ Control /\ BusControl` holds initially and each action
preserves it; the proof has a lemma per action and in it a step per conjunct.

`CleanMatchesMemory` adds `Carried`, about the answer on its way: until the cache samples it, what memory
took is what the slot holds, and what memory gave is what memory holds. For `FenceCleansAll`, `Walk` bounds the
dirty slots during the walk: they are at its position or ahead of it, in the order set by set, way by way.
The walk moves by one slot (`Advanced`), so none is left behind.

**The contract.** `DCacheProofs` shows for each action that it is a step of `MemoryContract` or leaves
everything the contract speaks of as it was. The view and the debt are defined through the lookup; `BySlot` restates both
slot by slot, which is where `NoDuplicateLine` is used: a change of one slot changes the view of one line.
A load, store or AMO happens at the lookup that hits (`LookupHitStep`), a line enters the view and leaves
the debt when memory serves it (`ServeLineStep`), and the later `Install`, `VictimWritten`, `CboWritten` and
`FlushWritten` change neither. That FENCE reports success only without debt comes from `FenceInv`; a
CLEAN or FLUSH from `Control`. `Shown` says that answers and errors appear only in the states that end an operation.

**Line adapter.** `Handshaken` relates the adapter to its client: it is idle exactly while the client does not wait,
and holds what the client wants. `Transferred` says that the beats before the counter have been transferred
in place. At the response the whole line has been, or the error is set: the port's two outcomes.

**PLIC.** `Holding` says that a handler holds a source exactly from its claim to its completion; `Gate`, that what is pending is
raised and not in service, which is why a second context cannot claim what the first one holds. The priority network picks a candidate
because priorities and IDs are numbers, and a set of numbers has a least element (`Least`, from well-founded induction in the library).

**Composed runs.** `Parts` of `DevicesProofs` and of `SoftwareProofs` proves that a behaviour of the composition is one of every part: a step of one leaves the others
as they were. What is proved of a part (`ClintAlways`, `LineAlways`, `BridgeAlways`, `PayloadAlways`; `SpiAlways`, `TimerAlways`,
`WatchdogAlways`, `UartAlways`, `BareAlways`) therefore holds of the run's specification. The following paragraphs are about these invariants.

**CLINT.** `TimerCalls` is about three 32-bit stores and three loads with the clock running between them. `ClintInv` says what the compare register and the local variables
hold at each of them: the high word is at its largest from the first store to the last, with the low word of the old value and then of the new one; the high word that was read
is not above the clock's, and the pair that was read is a time of the call if the high word is unchanged. `TimesAreOrdered` reduces the order of times to that of their words.

**Bridge to APB.** `BridgeInv` follows one request through the master's states: its address and data wait in the channels, then the bridge serves its words in order
(`WordBeingDone`: what has been accessed is what lies before the current word), then the answer is on its way and bears the error of any word. A malformed burst
makes no access and is answered with an error.

**Ethernet payload.** In transmission one frame is in one of six `Stages`: none, being read into the FIFO, staged behind the token, being captured by the PHY's side, streamed, gone.
Each says where the frame's bytes are, as consecutive runs that join (`IsRun`), and in which flags the system clock and the PHY's clock know of it; `FramesLeaveWhole` needs both, because each
side knows the other only through the token. `TxInv` promises nothing after a failed read (5.5). In reception `RxInv` says that at most one descriptor is under way
(`OnePath`), that nothing is left of the last frame when the buffer is armed (`ArmedIsFresh`: otherwise a stale descriptor would report the next frame's buffer), that the buffer records consecutive bytes
of one frame (`Recording`) and that the page holds a prefix of them (`Transfer`). Of a frame that begins in the middle it says no more: that is 5.4.

**SPI.** `RightAnswer` is about two contexts, task and handler, on one shifter. `OneCall` says that they do not drive it together, except for the polled transfer of FreeRTOS's
driver, which takes no lock. `CleanJob` and `CleanPoll` say where the current byte of a transfer is, on the wire or in RXDATA, as long as no other transfer has been started during it, and
`SoFar` that what has been received are its earlier bytes.

**Timer and watchdog.** `TimerInv` relates COUNT, COMPARE and the sticky STATUS to the edges since the start: the count is not ahead of them, and STATUS that was clear at the start is only set by
an interval that has passed. `StoppedIsClear` is the order of stores in FreeRTOS's driver, which makes every interval of its own start clean. In `WatchInv`, `Programmed` says that the registers hold what was asked for,
also in the middle of a call that stores several, `ZephyrKeeps` what the Zephyr driver's flags know of them, and `CountsDown` that count and elapsed time add up to the time-out and the warning lies
ahead until it is raised.

**UART.** The bytes are numbered. Shifter, FIFO and ring or console buffer hold consecutive numbers from the last one sent to the last one accepted (`InDevice`, `InQueue`), wherever the handler
has interrupted the foreground; receive ring and FIFO hold increasing numbers, as many as have arrived and are neither returned nor counted as lost (`InReceiver`). `DoneMeansSent` follows since nothing
pending leaves no place for a number. The rings wrap around: `Wraps` and `Gaps` replace the remainders by a case distinction once, `RingTakes`, `RingFills` and `RingPuts` say what a move does.

**Bare-metal programs.** `EngineTruth`: STATUS says what has become of the transfer and no program starts one over another. `PollTruth` and `SleepTruth` carry this to what main, the handler and
its hook have read: the handler reads STATUS before it clears it, and only a program that sleeps has interrupts of the engine. The invariant is needed because `VerdictIsTrue` compares a verdict with a
register that was read several steps earlier and may have been cleared since.

**Memory frontend.** `Translating`, `Walking` and `Routing` tie each FSM to the one that waits for it, `Owned` the shared port of the data cache
to the walker or the router: what is in flight belongs to the one that waits for it. `NoLostRequest` follows from these: both never ask
at the same time, since the walker works for the data port or, for a fetch, when the data port has begun nothing of its own. `TlbIsRecent` is the
one that needs an argument in time. The flush of SFENCE.VMA waits for no walk, and the PTE may be stored to at any moment when the data port is free. It holds because from the read of a PTE
to the refill (`Reading`) the data port does nothing else (`Alone`), so that what the walker carries is still what memory holds (`Image`).
`Granted` says that an answer that permits an access rests on a PTE that permits it, with the A and D bits it needs; `WriteIsAllowed` is what it means for stores.

**Fetch stage.** `Base` relates the registers in every program: a response is for the word of `resp_pc` and the next request is a word further, a redirect that is pending
drops what answers, nothing is requested while a packet is held. `Following` says what comes next:
the packet in IF/ID is the instruction execution waits for, and the hold register, or else the buffered halfword, the response
or the next request (`Coming`), continues behind it. `Contents` says that packets are instructions of the program. They need `Words`
(in an aligned program all addresses are even and the halfword buffer is empty) or `Halves` (in one without faults the buffered halfword is the one before the response).

**Ethernet rings.** No index is ever compared in the proof except by how far it is ahead of another in its ring (`Ahead`), written without a remainder;
`RingNext` moves it by one. `TxWindow` orders the TX ring: hardware head, tail register, producer, and what lies between head and producer is posted, owned by the hardware and
not completed. `RxWindow` orders the RX ring: consumer, what is completed, tail register, producer, with a gap behind the producer as long as the number of allocations that failed.
`TxOrder` and `RxOrder` say that frames are numbered upwards along the rings and that a frame on its way into memory (`Capturing`) is newer than all that lie there.
`Attached` is when the registers speak of the rings the driver has, `Served` when a poll may run; `Places`, `Polls` and `Engine` say which of the steps of open, stop, poll and hardware can meet.
The one thing that outlives a session is a fetch that the stop gave up waiting for: `Engine` and `TxWindow` keep its ring live and its descriptor valid, which is why `RingsLive` holds even after a stop
that timed out and after the driver was removed. (The payload transfer behind it is another matter, 5.3.) Most steps touch one ring or none; `TxFrame` and `RxFrame` prove once that what is said of a ring
survives them. `SlotFree` adds `Books`: outside clean and producer the driver holds no frame, each slot the head has passed has a status, and the queue is awake only
while the ring has room. It needs that completions are written.

**Instruction cache.** `HitReadsTheMatch` concerns the lookup loop, in which an invalid way
above the match would win. It needs that the valid ways of each set are the upper ones, but
a bare statement of that does not survive a refill. `Border` gives each set the number of
its highest invalid way; `Control` adds that the refill way is exactly at the border.
A refill lowers the border by one, an invalidation raises it to the top.
`FetchIsRecent` needs `Recency`: each valid line, and each answer on its way from memory,
was in memory since the last invalidation, which is preserved by an invalidation only because
it waits for IDLE (no refill in flight).
`Inv == TypeOK /\ NoDuplicateLine /\ Border /\ Control /\ Recency`.

**Model-checked only.** Liveness: it needs fairness and ENABLED, which are out of the prover's reach. Of the safety properties, the half of `VerdictIsTrue` that is about the RTOS programs: `Rtos` has no parameter but the choice among
four programs, whose text `RtosPrograms` fixes (with 2 of the Zephyr demo's 4 equal rounds), so that the run `software` visits all there is of them.

## 5. Divergences

### 5.1 Compressed code from memory that takes its time (`if_stage_rvc`)
While a fetch is outstanding `pipeline_control.sv:48-51` holds IF/ID
(`if_id_en_o` contains `imem_wait_i`), but `backend_advance_o` (line 54) and
`id_ex_flush_o` do not contain it: ID/EX takes the packet in IF/ID again on every
cycle of the wait. A 32-bit stream clears IF/ID before it waits; an instruction
delivered from the upper-halfword buffer is still there. `if_stage.sv:8-9` calls it
"the next sequential instruction without issuing a new IMEM request". The counterexample
executes it twice. The core's test bench answers every fetch in the next cycle, and
boot ROM and payload are assembled with `.option norvc`, so neither meets it.

### 5.2 Translated AMOs (`frontend_amo`)
The frontend asks the MMU for a STORE only if `data_we` or a CBO is set
(`ap_hart_memory_frontend.sv:169`), and the decoder marks AMO and SC with `mem_load` only.
They are checked as loads: W is not required and D is not set, against
`sv39_pte_check.sv:88`, "Sv39 permits hardware to set A on every leaf access and D on stores."

### 5.3 Stop with a transfer in flight (`eth_stop`)
`ap_eth_stop` disables RX, waits for STATUS to be zero, resets the rings and frees the buffers. Disabling RX clears
`rx_active_q` and with it the receive part of STATUS (`ap_eth_ring_engine.sv:443-449`), while a payload write that was already
issued goes on. `soc/ethernet/README.md:47` says "Use `RING_RESET` only after `STATUS` is zero", which the driver
does; STATUS does not say what the sentence needs. The counterexample writes into a freed buffer.

### 5.4 Arming in the middle of a frame (`eth_payload`)
An armed receive buffer takes the next byte that arrives as the first of a frame (`ap_eth_rx_frame_buffer.sv:90`); it does not look for the end
of a frame that is already passing, although "it records a complete MAC frame" (line 5). It is armed again when the last frame has been written, its
descriptor completed and the next one fetched; the wire leaves it 20 byte times. The counterexample reports the last byte of a frame as a good
frame: the verdict of the CRC, which the MAC gives with the last byte, is that of the whole. `OneFrame`, part of `TransfersAreWhole`, is what does hold.

### 5.5 Reproducible with the extra instances
These are not among the runs; each command finds the violation in seconds, the one with failing writes in about a minute.

* `tlc -config ApbBridgeLanes.cfg ApbBridge` (`OnlySelectedLanes`). On a read `ap_axi64_to_apb32.sv:170` selects both words; the system
  specification (`docs/eriscv-ap-rv64gc-system-spec.md:376-377`) says "The AXI bridge issues
  only the 32-bit lanes selected by the RV64 byte enables, so narrow loads do not cause
  duplicate side-effecting reads." A `lw` of the PLIC threshold claims an interrupt, one of
  the UART's TXDATA pops RXDATA.
* `tlc -config IfStageFaultStall.cfg MCIfStage` (`FaultIsTaken`). `if_stage.sv:211` says "A fault
  response is an instruction packet, not a synthetic NOP." The branch for it asks for
  `if_id_en_i`; a fault that arrives while ID is stalled takes the hold branch (313-343),
  which keeps no fault flag, and the NOP is executed.
* `tlc -config IfStageFaultCross.cfg MCIfStage` (`FaultIsPrecise`). An instruction that starts in the
  upper halfword and continues in a faulting word reports the fault with the pc of the word's request, not
  its own; the specification (lines 40-41) asks for precise faults.
* `tlc -config FrontendFence.cfg MCMemoryFrontend` (`FailureIsReported`). `mem_stage.sv:110` leaves FENCE
  out of the trap decision, so the error of a failed write-back ends in the MEM stage; the
  specification (367-368) says "A failed dirty write-back must be reported and must not silently discard data."
* `tlc -config DCacheReservation.cfg MCDCache` (`ReservedLineIsCached`). The specification (339-340) says an
  eviction clears the reservation; `dcache.sv:439-471` does not. An SC after the line was evicted and refilled
  succeeds. `MemoryContract` shows what it means: the SC still acts on the value LR saw *of this
  hart's view*, and a DMA write in between is overwritten.
* `EthRing.cfg` with `TxDrained` among its invariants. `eriscv_ap_eth.c:254`: "active TX drains through the PHY staging path". Disabling RX in ST_IDLE
  overrides the state chosen for a TX fetch or completion on the same edge; a frame handed to the ring may be left when `hw_stop` ends.
* `EthRing.cfg` with `WriteFails = {TRUE, FALSE}` (`SlotFree`). A completion whose write fails advances the head all the same
  (`ap_eth_ring_engine.sv:423`). The driver judges room by the head and reclaims by the status words: it fills a slot that still holds a frame. `QueueWoken` holds.
* `tlc -config EthOrphan.cfg EthPayload` (`NoOrphan`). RX is switched off on the edge on which the DMA takes the write descriptor: `rx_desc_issued_q` is set, the frame is
  released (`ap_ethernet_subsystem.sv:344`), and the DMA waits for its data. `rx_arm_ready` stays low, and the engine, which serves both
  directions, waits in ST_RX_ARM when RX is on again. `soc/ethernet/README.md:47-49` has the driver disable, reset and program new rings.
* `tlc -config EthReadFail.cfg EthPayload` (`CompletedIsSent`). A read error completes the descriptor (`ap_ethernet_subsystem.sv:288`) while the bytes
  stay on their way to the FIFO. The next frame's token sends the old frame, and every later completion speaks of the frame before its own, against "TX completion follows full PHY staging
  and MAC acceptance of the last byte" (`soc/ethernet/README.md:35-36`). Two frames that do not fit into the FIFO together stop transmission.
* Lost bytes: `EthPayload.cfg` with `Overruns = TRUE` and `OneFrame`. The wire does not wait for the FIFO (`mac_rx_ready` is read nowhere); frames with bytes missing are reported
  good, and no register shows the "RX overrun condition" of `ap_eth_axis8_cdc.sv:6-8`. A root clock of at least the wire's byte rate avoids it.
* `tlc -config TimerLibrary.cfg Timer` (`IntervalElapsed`). `eriscv_mcu_timer_start` (`eriscv_mcu.h:262`) does not clear the sticky expiry bit, which `timer_expired` returns. The second and third
  interval of `timer_apb_poll`, a "three-stage countdown" (`sw/README.md:43`), end at once.
* `tlc -config BaremetalEcho.cfg Baremetal` (`Echo`). `examples/irq_timer_uart/main.c:67` enables "UART RX interrupt" at the PLIC; nothing enables it in the
  UART, whose `CTRL` has TX and RX only, so that no byte is echoed.
* `tlc -config BaremetalWake.cfg Baremetal` (`DmaWakes`). "DMA source-5 PLIC interrupt wakes WFI" (`sw/README.md:49`). The interrupt may come between the test of
  the flag and WFI; nothing wakes the hart then.
* `tlc -config RtosLost.cfg Rtos` (`EveryMarkSeen`). "Each task records completion" (`sw/rtos/freertos/README.md:8`), and the consumer reports "only after all four
  completion records exist". `task_done_bits |= bit` (`main.c:72`) is not atomic: a tick between the load of one task and its store loses what another
  has recorded, and the consumer polls for ever. `VerdictComes` allows for it by `flaws`.
* `tlc -config WatchdogEdge.cfg Watchdog` (`ResetIsDue`). `wdt_cycles` of Zephyr's driver multiplies modulo 2^32, which at 100 MHz is a time-out above 42,949 ms: the reset
  comes early. A time-out of 1 ms has a pre-timeout of `1 / 2u` = 0, which is none: the reset comes without the callback that was installed.
* `tlc -config WatchdogWindow.cfg Watchdog` (`FedInWindow`). "WINDOW mode enforces minimal feed interval" (`watchdog_apb.sv:6`) once `CTRL.WINDOW` is set; `wdt_enable` of the library and of
  FreeRTOS stores `CTRL` without it and there is no other call, so a window that was programmed has no effect.

### 5.6 The FENCE walk and more than two ways
`dcache.sv:564`, `585` and `610` compare the way counter with `1'(WAYS_P - 1)`. With the default
`WAYS_P = 2`, which nothing overrides, this is the last way. With `WAYS_P = 4` the walk would leave each
set after way 1, against "Clean all dirty lines" (line 38). The model keeps the expression.

## 6. Further work

The order in which a next stage would be taken:

1. `Tlb` and `PteCheck`: ASID and global matching, superpages, duplicates; `PteCheck` against a reference definition.
2. `Pipeline`: traps, interrupts and debug entry against outstanding memory operations.
3. `Debug`: the toggle handshake of `dmi_cdc.sv` and the debug module, once an SoC instantiates `sys_ctrl`.

Theorems: every safety property of the passing runs but the RTOS half of `VerdictIsTrue` is proved, some under the hypotheses of section 4; those modules would come next
with their own.

## 7. Not modelled

* Data paths: ALU, multiplier and divider, FPU, branch prediction, load formatting, decoder. They
  carry no protocol; what they do to the fetch stage are inputs of `IfStage`.
* Traps and CSRs beyond the SFENCE.VMA path of `MemoryFrontend`: the priorities are combinational.
* Address decoders and the vendored AXI crossbars, which appear as delays; the BPI flash controller, which the caches meet as memory that takes its time.
* GPIO: registers with nothing between two accesses. Examples that only compute or print, the benchmark and the FFT vectors.
* Debug transport, debug module, system-bus access and boot sources: `soc/sys_ctrl.sv`, which contains them, is instantiated
  nowhere in the repository, and the FPGA top ties `debug_halt_req_i` to zero; a model would have no environment to be checked in.
  The boot ROM, which the cluster does instantiate, is a fetch target of `MemoryFrontend`.
* Clock gating, reset synchronisers and metastability, which are below the level of a clock edge.
* The FreeRTOS and Zephyr kernels and `rtl/vendor`: third-party code that appears as its use requires.
