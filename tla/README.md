# A TLA+ development for FPGA80186

FPGA80186 is an Intel 80186 system in SystemVerilog: a CPU core with its
integrated peripherals, a cache, an SDRAM controller, a disk kept in SDRAM and
the PC-like devices MS-DOS needs; and Python programs that generate its BIOS and
boot sector and build its disks. This directory holds TLA+ modules translated
from that source, TLC configurations that check them on small instances, and
proofs checked by TLAPS. Paths below are relative to `src/modules/` unless they
say otherwise.

Contents: 1 the system and its parts; 2 how the models are built; 3 modules and
code; 4 the runs; 5 fairness; 6 the proofs; 7 where the code and its comments
disagree; 8 what is not modelled; 9 the plan.

## 1. The system

The hardware runs on one clock. Concurrency is of hardware's kind: each module
reads what was registered before an edge and writes its own registers at it, so
what can go wrong is a handshake that is one clock early or late, a value that
is stale by one clock, two masters in an order nobody drove in a test bench. In
the software above it concurrency is interrupts, and devices that run on while
the BIOS polls; between the tools it is the order in which they are run.

| part | state it keeps | operations | talks to |
|---|---|---|---|
| execution unit `execUnit.sv` | sequencer state, instruction registers, prediction, interrupt latches | fetch on a slow and a fast path, execute, retire, redirect, take an interrupt, string engine | queue bytes and data requests of the BIU; `intr`/`iack` |
| branch predictor `bpred.sv` | a tagged table | predict, train | a hint for the execution unit |
| BIU `biu.sv`, `prefetch_queue.sv` | T-state, current cycle, fetch pointer, six bytes | data cycle, split word, prefetch, redirect, queue push and pop | execution unit above, memory and I/O below |
| bus arbitration `cpu_top.sv` | who owns the bus | hand over between CPU and DMA with a dead cycle | execution unit, DMA, BIU |
| DMA `dma.sv` | two channels, transfer engine | fetch, deposit, count, terminate, register writes | the BIU through the arbitration |
| interrupt controller `interrupt_controller.sv` | masks, priorities, latches, in-service bits | latch, resolve, acknowledge, EOI, register writes | timers, DMA, keyboard; the execution unit |
| timers `timer.sv`, `pit8253.sv` | counts, limits, control bits | count, alternate, stop, reload | interrupt controller |
| PCB, chip selects, I/O decode | registers, a strobe per access | decode, single-shot strobes, EOI shim | all peripherals |
| cache `cache.sv` | tags, valid bits, data, write queue, fill in progress | hit, critical-word-first fill, queue and drain a store, snoop | BIU above, SDRAM arbiter below, disk and loader as foreign writers |
| SDRAM arbiter `sdram_arbiter.sv` | registered grant, rotation, served flags | grant, answer, rotate | cache, disk, loader; controller |
| SDRAM controller `sdram_controller.sv` | state, open row, refresh counter | initialise, open, read, write, close, refresh | the SDRAM chip |
| storage `storage.sv` | task file, buffer, transfer engine | read and write sectors in SDRAM | arbiter port, I/O decode |
| keyboard `keyboard_controller.sv` | PS/2 receiver, FIFO, output latch | frame, translate, present, acknowledge | I/O decode, interrupt pin 0 |
| JTAG loader `jtag_loader.sv` | word assembly, clock-domain toggle | write memory, hold the CPU | arbiter port, reset |
| blitter, framebuffer, video, DAC, CRTC | pixel counters, palette, rectangle walk | draw, scan out | framebuffer port shared with the CPU |
| BIOS `tools/gen_bios.py` | the BIOS data area: key ring, shift state, tick count, cursor, mode | INT 08h and 09h from the timer and the keyboard; INT 10h, 13h, 16h, 19h, 1Ah for programs | keyboard, storage, CRTC; the program |
| boot sector and test kernel `tools/gen_disk.py` | buffers for FAT and root, the kernel's segment | read FAT and root, follow a chain, check the tail, write a sector | INT 13h and INT 10h |
| disk tools `fat12.py`, `mkdisk.py`, `addfile.py`, `img2hex.py` in `tools/` | an image file, a generated geometry file | build a volume, rebuild it at another size, replace a file, read the geometry | each other through files; the ROM's geometry |
| assembler `tools/asm86.py` | image, position, labels, holes | emit, label, move, resolve | called by `gen_bios.py` and `gen_disk.py` |

What makes each part correct, and where it is hard:

* **Arbiter.** Every request is answered once, within one turn per other
  requester; the access shown to the controller does not change under it. Hard:
  requests come and go in every interleaving while a transfer is in progress.
* **Controller.** The port sees a memory; the chip sees a legal command
  sequence and its refreshes in time. Hard: the open-row shortcut against
  refresh and row changes, and the read pipeline.
* **Cache.** A valid line is the program's memory, with the queued stores on
  top of it; a read returns a value the word had while it was asked for; a store
  the CPU saw finished has happened. Hard: fills, drains, foreign writes and a
  registered lookup that is one clock old.
* **BIU.** The queue holds the bytes that follow the instruction pointer after
  any redirect; an access is done exactly when it is reported done. Hard:
  redirects at every T-state, words at odd addresses, the one-bit handshake.
* **Arbitration and DMA.** Nobody's request is taken for another's; the DMA
  gets the bus. Hard: the hand-over with request lines still up.
* **Execution unit.** Instructions start in program order on their own bytes;
  an interrupt returns to the next one; a repeated string instruction can be
  left and taken up again. Hard: speculation, early redirects and overlapped
  retirement together with interrupts at every boundary.
* **Interrupt controller.** Services nest by urgency, each is ended by its own
  EOI, nothing asked for is lost or blocked. Hard: vector and acknowledge are
  given in different clocks.
* **Keyboard and BIOS.** Keys come out of INT 16h in the order and the case they
  went in; a program that hooks INT 09h and chains sees the byte the BIOS sees; a
  waiting program wakes; the clock's two words belong together; the screen is a
  terminal. Hard: four buffers in a row, handlers between any two instructions
  of a service that has enabled interrupts, an HLT that may come too late.
* **Storage and INT 13h.** A call moves the sectors it names and nothing else,
  whatever an earlier command left in the device. Hard: a buffer with two users,
  an index that several events reset, the end of the device inside a call.
* **Disk tools and boot.** A volume reads back as the files put in, after any
  sequence of edits; a machine boots what was built for it, and does not run
  half a kernel. Hard: entries of twelve bits that share bytes, three places
  where the geometry of a disk is kept, memory that survives a reset.
* **Assembler.** The processor reads the instruction that was asked for. Hard:
  short forms, sign extension, jumps to labels that come later.
* **Timers, loader, blitter, peripheral decode.** Not modelled (section 8).

## 2. How the models are built

One step is one clock of the parts in the module, taken by all of them
together; names of registers and signals are the code's. Combinational signals
are operators, registers are variables, and an action is a whole clocked block
under one state of its machine, so that everything the block writes in that
clock is in the action. `ExecUnit` is the exception: one of its steps is one
clock of the sequencer, and a byte that arrives in the queue or an interrupt
request is a step of its own, just before or just after.

For the software above the hardware a step is what nothing else can come into.
INT clears IF, so a service of the BIOS that never sets it again is one step
for the program and the handlers (INT 10h in `Screen`); it is taken apart where
it shares something with a device that runs on (`DiskService`) or enables
interrupts itself (INT 16h in `Typing`). A disk tool reads a file, works in
memory and writes the file at the end, so a run of one is a step.

Data are cut down to what the properties tell apart: a few addresses, words of
two values, one byte lane where lanes play no part; sectors of a few words, a
FAT of 32-byte sectors, a screen of a few cells. Control is not cut: guards,
early returns and the order of assignments are the code's. A register whose
value nothing reads again is given one fixed value, which only makes equal
states equal. A few variables are history, for the properties to speak of
(`turns`, `seen`, `nextInstr`, `moved`, `shadow`, `nest`, `owed`, `due`,
`ticked`, `before`, `files`, `placed`); the code's
actions never read them. Operators placed just before the one they resemble,
such as `scanPosFixed` before `scanPos` or `Put12Nibble` before `Put12`, are the code with one plausible
mistake; the runs are repeated with them to see that each property can fail.

## 3. Modules and code

* **PortService** is the abstract specification of what the arbiter promises a
  requester: one answer per request, at most `NREQ - 1` answers to others
  first. **SdramArbiter** is `sdram_arbiter.sv`: `eligible`, `pick` (as
  `scanPos`/`winner`), the registered grant `active`/`cur`, `served`, `rotate`.
  Its environment is the contract in the file's header: a request is raised,
  held until ready, dropped. It is checked and proved to implement PortService.
* **SharedMemory** is the abstract memory the requesters see: each request takes
  effect once, at one instant between being raised and being answered.
  **SdramController** is `sdram_controller.sv` with the chip of
  `src/sim/sdram_model.sv`: one action per state, `Tick` the refresh counter
  that runs in all of them. **SdramSystem** wires arbiter and controller as
  `memory_controller.sv` does, and is checked to implement SharedMemory.
* **Cache** is `cache.sv` between the T-states of the bus unit (`BusClock`), the
  abstract memory SharedMemory and a foreign master (`ExtClock`).
  `CacheClock` is the clocked blocks: lookup register, data, tags and valid
  bits, write queue, acknowledgement, and the machine S_IDLE, S_FILL, S_WRITE.
  The replaced way of a full set is any way, which covers the pseudo-LRU tree.
  `view` is the memory as the program has written it.
* **Biu** is `biu.sv` and `prefetch_queue.sv`; **CpuBus** adds the two masters
  (`EuClock`, `DmaClock`), the arbitration of `cpu_top.sv` (`dma_owns`,
  `arb_gap`, `biu_hold_req`) and a memory.
* **ExecUnit** is the sequencer of `execUnit.sv`, one action per state and, in
  S_FETCH_OP and S_RETIRE, per branch: `FetchWhole` and `RetireOverlapped` are
  `fast_take`, the other `Fetch...` actions the byte-at-a-time path. Which
  instruction the bytes spell is chosen when they are looked at, so every
  program is run; the instructions kept apart are those the sequencer treats
  differently. A prediction is any address or none: the predictor is a hint.
* **InterruptController** is `interrupt_controller.sv`; **Interrupts** adds the
  core's three clocks of taking a vector (take, acknowledge, enter) and a
  program with handlers that serve their device, send one EOI and return.
* **Typing** goes from the key switch to the program: keys, the PS/2 frames, the
  receiver's `brk`, `fifo`, output latch `obuf`/`obf` and hold-off
  (`keyboard_controller.sv`); the interrupt chain with a program's handler in
  front of it or not, INT 09h and the ring at 40:1E (`Int09`, `RingPut`); INT 16h
  instruction by instruction where it matters (`LookForKey`, `EnableInterrupts`,
  `Sleep`, `TakeKey`, `FreeEntry`); INT 08h and INT 1Ah (`Tick`, `ReadClock...`).
* **Terminal** is the abstract specification of the text services: lines, a
  place, operations that know of no offsets. **Screen** is INT 10h: `put_char`,
  `scroll_up` with its frame of loop counters, the mode set, the cursor register.
  It is checked to implement Terminal.
* **Storage** is `storage.sv`: the four registers, the sector buffer, the engine.
  **Geometry** is the conversion of sector numbers, as INT 13h and as the boot
  sector do it. **DiskService** is INT 13h on top of both, with a program that
  uses the ports between calls.
* **Bios** puts the three services under one program. They share no variable, so
  a behaviour uses one of them, chosen at the start: the composition adds no
  interleaving between them, because the code has none (a service runs with
  interrupts off, and INT 09h and 08h touch neither screen nor disk).
* **FatEntries** is the twelve-bit arithmetic: the builder's packing, addfile's
  `get` and `put`, the boot sector's `fat_next`. **Volume** is the disk tools:
  `Build` (fat12.py, mkdisk.py), `Replace` (addfile.py), `Listing` (mkdisk.py's
  reader), and MS-DOS deleting files, as the environment.
* **Boot** is the way from the tools to a running kernel: `GenDisk`, `ChangeFile`,
  `Img2Hex` and `GenBios` on the host, loads and resets of the board, then INT
  19h, the boot sector and the kernel's check of itself, one action per loop.
* **Assembler** is `asm86.py`: calls emit bytes and leave holes, `Resolve` fills
  them; the processor's own reading of the bytes (`DecodedAt`) is the reference.
* **Toolchain** holds the three programs-in-Python parts, again one per behaviour;
  **MCToolchain** gives the constants a `.cfg` cannot write.
* **SdramArbiterProofs**, **SdramSystemProofs**, **CacheProofs**, **CpuBusProofs**,
  **ExecUnitProofs**, **InterruptsProofs**, **BiosProofs** and **ToolchainProofs**
  hold the theorems (section 6). BiosProofs covers Typing, Screen, Storage,
  DiskService and Bios; ToolchainProofs covers Assembler, FatEntries, Geometry,
  Volume and Toolchain.

How they compose: SdramSystem contains SdramArbiter and SdramController and
implements SharedMemory; Cache runs above SharedMemory and keeps the port
contract SdramArbiter assumes (`KeepsPortContract`); CpuBus shows that the
queue carries the right bytes, which is why ExecUnit keeps only the address of
its head; Interrupts takes the moment of acceptance from ExecUnit's
`FetchInterrupt`, `Halt` and `IntPrep`; Typing takes from Interrupts that a pin
gets its handler and that a handler ends its own service (`TopPinServed`,
`ServicesAccounted`); Storage's requests are one port of the arbiter; Boot reads
sectors as DiskService's `TransferExact` says they are read.

## 4. The runs

| run | question | bounds, and why they are enough |
|---|---|---|
| `SdramArbiter` | the inductive invariant, `BoundedWait`, `HeldAccess`, refinement of PortService | three ports, the number in the design |
| `SdramSystem` | chip protocol, refresh deadline, refinement of SharedMemory, every request answered | two ports, two rows of one column: row hit, row miss, refresh between. Refresh period 16 clocks instead of 175, longer than an access as in the design; the deadline of 29 is the least for that period: with 28 TLC finds a refresh that is late |
| `CacheFills` | `ReadsAreFresh`, `StoresLand` | two lines of two words for one way, a queue of two: every fill evicts, drains and fills compete |
| `CacheSnoop` | coherence, no line in two ways, the port contract, termination, with another master writing | one line, two ways, a queue of one that is often full |
| `CpuBusStream` | `InstructionStream`, data requests answered | eight addresses that wrap; redirects to an even, an odd and the wrapping address in any clock; pops of none to all |
| `CpuBusData` | `DoneIsTrue`, `WritesOnlyWhatIsAsked`, `DmaServed` | bytes and words at an even and an odd address that wrap, two values, both masters |
| `ExecUnit` | `BytesInOrder`, `ProgramOrder`, `ReturnsToNext`, `RepCounted`, `NmiServed` | two addresses tell a right one from a wrong one; three queue bytes are a prefix, an opcode and a second byte, the longest instruction kept; a repeat count of two leaves and resumes in the middle; one interrupt at a time. Three addresses were run without liveness, and the proofs need no bound |
| `Interrupts` | `ServicesAccounted`, `UrgencyRespected`, `TopPinServed` | a timer, a DMA channel and a pin: the three kinds of source; two priorities, so that one handler can interrupt another and ties occur; two handlers deep |
| `Bios` | `KeysInOrder`, `ChainSeesOneByte`, `ReaderServed`, `ClockNotTorn`, `ImplementsTerminal`, `TransferExact` | a modifier, a plain and an extended key and three movements: the FIFO of two and the ring of two (one key) both fill and overflow; tick words of three values carry and wrap; a screen of 3 by 2 wraps and scrolls; a device of five sectors of two words under calls of one or two sectors that start on it, at its end and past it, two calls with the ports used between. 273 592 states |
| `Toolchain` | `ReadsBack`, `NoLostClusters`, `SystemFilesFirst`, `KernelWhole`, `StepsBoot`, `BootDecides`, `Disassembles` | volumes of 17 and 30 sectors of 32 bytes, with clusters of one sector on the first and of two on the second, so that a rebuild changes the chains; files of none to three sectors, four programs in a row; kernels of three sectors that cross a head, three geometries; programs of three calls with gaps on both sides of a short jump's reach. 154 106 states |
| `ScreenScroll` | a finding, section 7 | a screen of 2 by 2, BL 0 and 1 |
| `InterruptPulse` | a finding, section 7 | two timers, a channel, a pin |

Types are not checked by a run of their own: they are part of the inductive
invariants (`IInv`, `SequencerTypes`, `Ranged`), and a wrong type in the other
modules ends a run with an evaluation error.

Five more configurations are kept beside these: `CacheSnoopAnswer`,
`CpuBusEnter`, `ExecUnitShadow`, `DiskAlias` and `VolumeReserved`. Each ends in a
counterexample that section 7 describes.

What the less obvious properties say:

* `BoundedWait`: "Nobody waits longer than one turn per other requester"
  (sdram_arbiter.sv:16). `HeldAccess`: the grant is steady for a transfer.
* `Coherent`: every valid word of the cache is the program's word, through
  fills, evictions, queued stores and foreign writes.
* `StoresLand`: the program's memory changes where and when somebody stores and
  at no other time, so a drain, a fill or an eviction moves nothing.
* `InstructionStream`: after redirects at any T-state the queue is the bytes
  that follow `ip` and the fetch pointer is where they stop.
* `BytesInOrder`: a byte is taken for the instruction at `ip_next` only when the
  head of the queue is that address, the hazard execUnit.sv:496-500 names.
* `ProgramOrder` compares the address at which an instruction starts with
  `nextInstr`, kept by a history that follows the program and not the
  sequencer's registers: mispredictions, redirects, interrupts, IRET and
  restarted string instructions lose and repeat nothing.
* `ReturnsToNext`: the address pushed on interrupt entry is the next
  instruction to execute, the first prefix of an unfinished REP, the one after
  a HLT, never the middle of a prefixed instruction.
* `RepCounted`: elements moved and CX add up to the count loaded, however often
  the string instruction was left.
* `ServicesAccounted`: there are as many in-service bits as handlers that still
  owe an EOI, although the acknowledge may be given for another source than the
  vector was taken for. So an EOI never hits nothing and nothing stays blocked.
* `UrgencyRespected`: a handler that has not ended its service is interrupted
  by a more urgent source only.
* `KeysInOrder`: unless a full buffer dropped something, the ring holds the
  oldest of the keys that are due and INT 16h returns the oldest of all, in the
  case they were pressed in; when nothing is on its way the ring holds all of
  them and 40:17 the modifiers that are down.
* `ReaderServed`: a program in INT 16h gets a key that is in the ring, also one
  that came between the STI and the HLT. The guarantee is the next tick's, not
  the keyboard's: with a tick handler that does not wake the processor it fails.
* `TransferExact`: after any call of INT 13h memory and disk are what they were
  before it, but for the sectors named, up to the first the device does not have.
* `ImplementsTerminal`: in text mode the place of the abstract terminal is where
  the CRTC's cursor register points, so the BIOS may forget it on no path.
* `StepsBoot`: the tools agree on a geometry only if they are run in their
  order; if the ROM was built after img2hex read the image that is on the board,
  the machine boots it. `KernelWhole` holds in every other order too: a kernel
  that announces itself is all there.
* `Disassembles`: every instruction asked for is what the processor reads at its
  place, and `resolve` refuses nothing but a short jump the program wrote itself.

Deadlock is not checked in `ExecUnit`, where CLI followed by HLT stops the
processor, as it should, nor in `Toolchain` (and `DiskAlias`, `VolumeReserved`),
where the number of edits and calls is bounded and a part may end. It is checked
in all other runs.

## 5. Fairness

A clock that goes on is the only fairness most runs need: `WF_vars` of the whole
clock. Beyond it:

* SdramArbiter, `WF_vars(Answer)`: the controller answers an access it is shown.
  SdramSystem composes the real controller and needs the clock only; its
  `EveryRequestAnswered` discharges the assumption.
* Cache, `WF_vars` of performing the cache's request: SdramSystem's
  `EveryRequestAnswered`.
* CpuBus, `SF_vars(Clock(TRUE))`: READY comes again and again
  (memory_controller.sv:374-384 and io_decode answer every cycle).
* ExecUnit, `WF_vars` of the sequencer and of a byte arriving while the queue has
  room: CpuBus's stream. A sequencer step beyond the bound on nested interrupts
  is not demanded.
* Interrupts: the core enters a handler it has taken the vector of; handlers do
  their work; the program does not keep interrupts off for ever, and when they
  are on again and again one of those clocks is an instruction boundary
  (`SF_vars(Accept)`). The last is an assumption on programs: one that only ever
  enables interrupts for the length of one overlapped instruction would not
  meet it.
* Bios, for the keyboard's part: the processor does not stop inside a service or
  a handler, a handler whose request stands with interrupts enabled starts, and
  the timer goes on. Weak fairness is enough for the tick: its request latches
  (interrupt_controller.sv), and a sleeping program has interrupts enabled and
  keeps them so. Nobody has to press a key or call a service. The hold-off of
  the receiver needs no fairness for `ReaderServed`; that it outlasts the two
  reads of a chained handler is a fact of the board (one millisecond against
  some hundred clocks) and a guard of `HoldEnds`.
* Toolchain: the processor executes the boot sector (`WF` of `MachineStep`).
  Nobody has to run a tool.

## 6. The proofs

Every proof module extends the module it is about and uses only the assumptions
on its constants, named where a theorem adds one. Every inductive invariant was
an invariant of a TLC run before it was proved; the sizes of those runs are
given below. Twenty-two of the 24 invariants and eight of the 16 action and
temporal properties the passing runs check are proved; the rest is listed at
the end.

**SdramArbiterProofs**, for every number of ports (`NREQ \in Nat \ {0}`).
`BoundedWait` alone is not inductive: how long a port has waited says nothing
of how long it still may. `IInv` adds `GrantStandsForARequest` (a registered
grant belongs to a port that still asks) and `WaitBudget` (answers already let
past, plus turns still ahead of the port in the scan from `rotate`, fit in one
round). Arithmetic modulo the number of ports is in lemmas about `distFrom` and
`after`. `ArbiterInvariant` is `Spec => []IInv`; `ArbiterBoundedWait` and
`ArbiterHeldAccess` follow, and `ArbiterImplementsPortService` proves that the
initial states and every clock map to PortService's.

**SdramSystemProofs**, for every number of ports, geometry of the chip, latency
and refresh period. `ControllerAssumptions` are types; `DeadlineAssumption` says
that the refresh period leaves eleven clocks and the latency under the deadline,
which is what the comment at sdram_controller.sv:58-67 calls its margin; TLC
shows that one clock less is too few.

* `Disciplined`: the row register stands for the row the chip has open *once the
  command in the register has reached it* (`RowTracked`); the chip's own state
  is one clock behind. `SdramChipProtocol` follows.
* `InTime`: the clocks since the last refresh never get ahead of the counter,
  and from the clock a refresh falls due each state has a bound on what is left
  of the way to it (`WayToRefresh`). `SdramRefreshDeadline` follows.
* `RInv` (237 383 states) adds, for the refinement, that the access in progress
  is the one shown by the arbiter (`AccessHeld`) and that the word read moves
  through the chip's pipeline in step with the controller's count
  (`WordOnItsWay`). `SdramImplementsSharedMemory` maps each clock to SharedMemory's:
  a request takes effect in the clock of its ready.

**CacheProofs**, for every number of sets and ways, words in a line and places in
the write queue, and every memory.

* `CacheInv` (81 632 states, and 36 302 with another master): the registered
  lookup shows the arrays as they are, or the gap and write flags say that it
  does not (`LookupTrue`); the port's request is what the state machine is doing
  (`PortTrue`); a fill that no snoop has poisoned has copied the memory as far as
  its count (`FillTrue`). With these `CacheOneWayPerTag` and `CacheCoherent` are
  inductive, whatever another master writes, and `CacheKeepsPortContract` is the
  contract SdramSystem's ports are modelled with.
* `CacheReadsAreFresh` and `CacheStoresLand` assume that no other master writes
  (`ExtTags = {}`): `ReadTrue` adds that a fill's first word answers the read the
  fill was started for. With another master that is false, and so is the
  property: it is the disagreement `CacheSnoopAnswer.cfg` shows (section 7).

**CpuBusProofs**, for every address space, set of jump targets and number of
bytes taken at once, with and without DMA.

* `StreamInv` (3 151 states) adds `FetchInStep`: a fetch under way that no
  redirect has discarded is at the word of the fetch pointer, and the queue has
  room for it. `CpuBusInstructionStream` follows.
* `AccessInv` (244 701 states, and 695 with ENTER): the cycle on the bus belongs
  to the access its master asked for (`Wanted`, `FirstCycle`, `SecondCycle`), the
  half already done stays done (`FirstHalfTrue`), and the whole is done when it
  is reported (`WholeTrue`). `CpuBusDoneIsTrue` and `CpuBusWritesOnlyWhatIsAsked`.

**ExecUnitProofs**, for every address space, queue length and repeat count. The
properties speak of the states where something is decided; `IInv` carries their
facts through the states between:

* `Aligned`: what the head of the queue is the address of. While an instruction
  is in the machine that is `ip_next`, or the predicted target if a prediction
  is outstanding, or the jump target after an early redirect, which happens for
  an unconditional jump only.
* `Accounted`: for each state, how `nextInstr` is reached from the registers:
  the instruction's own first byte for an unfinished REP, `ip_next` or the jump
  target at retirement, `int_ret_ip` on interrupt entry, the frame for IRET.
* `Settled`: what a state takes for granted (no jump before S_EXEC, prefixes
  only while fetching, a frame on the stack under an IRET).
* `Counted`: which copy of CX the account of the string engine is in.

`StepKeepsIInv` has one step per action and under it one per conjunct.
`SequencerTypes`, `SequencerBytesInOrder`, `SequencerProgramOrder`,
`SequencerReturnsToNext` and `SequencerRepCounted` follow from
`SequencerInvariant`.

**InterruptsProofs**, for every set of sources, priorities and depth of nesting.
An in-service bit may have been marked for another, more urgent source than the
vector of its handler, so bits and handlers cannot be compared by name.
`InterruptsInv` (284 028 states) says that there is an increasing matching of the
handlers that still owe an EOI to the bits in the order they were marked, with
each handler's priority between its bit's and the next bit's (`Matched`), and that
the bits themselves are strictly ordered by urgency (`Nested`).
`InterruptsServicesAccounted` counts along the matching,
`InterruptsUrgencyRespected` compares along it.

**BiosProofs**, in three parts and one theorem about the whole. `BiosIsItsParts`:
a behaviour of the composition is a behaviour of each service, or leaves it
alone, so what is proved of a service holds under Bios.

*The keyboard and the clock*, for every keyboard, FIFO, ring and word size.

* `TypingChainSeesOneByte`: `Chained` says that a handler starts with a byte in
  the latch, that its read empties the latch and starts the hold-off, and that
  while this lasts nothing is loaded.
* `TypingClockNotTorn`: the two words are one count (`Together`, with the
  arithmetic of the carry in lemmas of its own), and between the two reads of
  INT 1Ah interrupts are off and the word already read is still the low word
  (`Undisturbed`).
* `TypingKeysInOrder`: `KeysInv` (2 576 644 states) relates the two ends of the
  way. The ring holds the oldest keys due (`Ringed`). The bytes behind it, in the
  latch unless INT 09h has had them, in the FIFO, and those the frames on the
  wire will still become (`Comes`), lead from the modifiers of 40:17 and the
  number of keys in the ring to the modifiers that are down and all keys due
  (`Flow`). `Leads` is that run, stated by the modifiers and the count between
  every two bytes instead of by recursion; its lemmas add a byte at the back
  (`LeadsFurther`, a frame received), take one off the front (`LeadsOn`, INT 09h)
  and drop the oldest key (`LeadsWithoutFirst`, INT 16h). The ring's arithmetic
  modulo its size is in `RingGrows` and `RingShrinks`.

*The screen*, for every size of screen, scroll and text, with BL = 0 as the BIOS's
own calls have it (the run `ScreenScroll` shows that the condition is needed).

* The scroll is two nested loops with their counters in a stack frame, written as
  recursive functions in the model. `FrameTurn` says what one turn does to the
  frame, `CountIs` what the counters are after any number of turns, `CopyPhaseIs`
  and `BlankPhaseIs` what the two phases leave in the buffer. Together they are
  `ScrollsExactly`: every cell of the window is the one so many rows below, or
  blank, and no cell outside it changes.
* `ScreenImplementsTerminal` maps every step to a step of Terminal. `ScreenInv`
  says that the cursor the BIOS keeps is on the screen and that the cursor
  register is where it points (`PlaceIs`); the `View...` lemmas say what the text
  on the screen becomes when a character is put, a window is scrolled, the mode
  is set.

*The disk*, for every device, geometry and caller.

* `StorageRanged`: `Ranged` says which sector and which word an engine under way
  is at; it has to speak of the register software writes as well as of the copy
  the transfer uses, because the range is checked on the one and the address
  formed from the other. `StorageDiskApart` and the action property
  `StorageWritesInside` assume that the window of the disk fits into the address
  (`WindowFits`), the condition the board's own parameters break (section 7).
* `DiskTransferExact` assumes `WindowFits` and `NumbersFit`: the BIOS computes
  sector numbers in sixteen bits, and a number that goes round is another
  sector. `TransferInv` (86 588 states) says what memory and disk are at each
  place of a call: the sectors before the present one are where they belong, the
  present one is in the buffer as far as the index, the rest is as it was.

**ToolchainProofs**. What a recursive *function* computes can be proved for every
input: the library's induction schemes take an operator, but `Induction` states
induction for a set, `Recursion` that the step of a recursive definition has a
function, and from these follows what the model's CHOOSE picks. The modules
proved here are written with recursive functions for that reason.

*The assembler*, for every program, set of labels and bound.

* `AssemblerDisassembles`: what `resolve` returns decodes, by the processor's own
  reading, as the instructions asked for. There is a lemma for each class of
  instruction (`ReadsMov` to `ReadsOffset`): its bytes decode as it, whatever
  follows them. `AsmInv` (2 170 000 states, with two labels and four items) says
  that the instructions put so far stand one behind the other (`LaidOut`), that
  the holes are those of the instructions that refer to a label (`Holed`), and
  that a label `jcc_far` makes up is the place behind its own jump (`Skips`).
* `resolve` then fills the holes one by one. No hole lies in another instruction
  (`HoleClear`), so a filling keeps what the others read; by induction over the
  holes every reference reads as the way to its label (`ResolveReads`), and the
  only ones refused are short jumps the program wrote itself (`ResolveRefuses`).

*The disk tools*, for every size of sector, FAT limit, names, lengths and sizes of
volumes, on the condition `NumbersBelowMarks`: no volume that Fat12 accepts has a
cluster whose number ends a chain. Toolchain assumes it, of gen_disk's size too
(`BelowMarks(TOTAL)`), so TLC evaluates it for the run's constants;
`VolumeReserved` (section 7) has constants that break it, as fat12.py's own do.

* `VolumeInv` says that the volume is `Good`: its table of files is kept (`Kept`:
  each file has a chain of different clusters, ending in an end mark where the
  file does, no two files share one, every other cluster is free, and the sectors
  of a chain are the file's in order), both copies of the FAT have it, and the
  directory lists the files, with no entry in use behind one never used
  (`Listed`). What is read back, `NoLostClusters` and `SystemFilesFirst` follow
  from it (`GoodReads`, `GoodClusters`). TLC checked `VolumeInv` (154 106 states)
  with the tables a volume itself names: the whole chain from each entry, and the
  body that `files` gives its name.
* The builder: `BuiltFirst` and `BuiltNext` say that the files taken so far are
  kept and in a row of clusters from 2 on; by induction over the order the image
  is good (`BuildGood`), its packed FAT being the table (`PackMap`). `SizeFatFits`
  says that the loop of Fat12 that grows the FAT ends after one growth, with a
  FAT that has an entry for each cluster, which is why `SizeFat` has no loop.
* A file given back leaves the others kept (`FreeGives`), and a file written to
  free clusters is kept beside them (`LinkedGives`, `PlacedIs`, `WriteGood`). The
  two together are addfile's replacement (`ReplaceIs`), the first alone MS-DOS's
  deletion (`DeleteGood`); a rebuild is a read and a build. `FormatKeeps`,
  `ReplacedKeeps`, `RebuildKeeps` and `DosDeleteKeeps` are the four steps of
  `VolumeInvariant`.
* `ToolchainVolumes` is the same for the composition that the run checks, where
  gen_disk builds its padded volumes and addfile changes them between boots
  (`GenDiskKeeps`, `BootKeeps`); `ToolsInv` adds that a geometry which reaches
  gen_disk is one of numbers. `ToolchainDisassembles` carries the assembler's
  theorem over.

*The FAT and the geometry*, for every FAT and geometry.

* An entry that is put is the entry got (`FatPutThenGet`), every other entry is
  unchanged, the neighbour in the shared byte included (`FatPutKeepsOthers`), the
  builder's bytes read as its entries (`FatPackThenGet`), and the boot sector's
  shifts give what the tools read (`FatNextIsGet`).
* `GeometryRoundTrip`: INT 13h gets back the sector number the boot sector took
  apart, if the cylinder fits into its byte. It is what `StepsBoot` rests on
  where the geometries agree.

Only model-checked:

* Liveness, which is outside what the prover does: `EveryRequestAnswered`,
  `AccessesFinish`, `EuAnswered`, `DmaServed`, `NmiServed`, `TopPinServed`,
  `ReaderServed`, `BootDecides`.
* Boot. `KernelWhole` is not true of every value of the constants: of a kernel in
  pieces, head and tail may lie on sectors that two geometries number alike and
  the middle on others, and the kernel's check of itself looks at its ends. The
  run's volumes keep the kernel in one piece, as `SystemFilesFirst` lets the tools
  keep it. `StepsBoot` needs the sizes and the layout of the volume to suit the
  boot sector, conditions on every constant of Boot and Volume at once, and that
  a kernel that ran under another geometry wrote its sector outside the kernel:
  what the one geometry makes of the other's numbers in general is arithmetic
  that TLC does for two of them.
* `ReadsAreFresh` and `StoresLand` with another master, as said above.

## 7. Where the code and its comments disagree

Two of these are runs that end in a violation; `PROJECT.json` quotes the lines.

* `ScreenScroll` (`ScrollExact`). The loop counters of INT 10h AH=06 are bytes
  in a stack frame (gen_bios.py:661-673), but the assembler makes word
  instructions of every CMP, INC and DEC of a memory operand (asm86.py:323-398).
  The counter of rows at [BP+1] is compared and decremented together with the
  saved BL at [BP+2]: a program that calls with BL other than zero has rows
  outside its window moved and blanked. The BIOS's own scroll passes BL = 0.
* `InterruptPulse` (`PulseNeverLost`). A timer or DMA pulse in the clock in which
  another vector is taken is consumed by the acknowledge of that vector, one
  clock later, although interrupt_controller.sv:41-42 says a pulse is never lost.

The others have a configuration here that is no run of `PROJECT.json`; `tlc
-config X.cfg M` shows the counterexample:

* `CacheSnoopAnswer.cfg`, module Cache, `ReadsAreFresh`. A hit is recorded in T2
  and answered in T3. If a foreign write invalidates the line between the two, T3
  answers the read and starts a fill for it as well (cache.sv:371); the first
  word of that fill then answers whatever read comes next, with the word of
  another address. cache.sv:51-53 calls the snoop no more than "a performance
  blip".
* `CpuBusEnter.cfg`, module CpuBus, `EuAnswered`. ENTER with a nesting level of
  two or more reads a display word in S_MEM_RD2 and pushes it in S_PUSH
  (execUnit.sv:2507) with no state between that drops the request; the BIU never
  sees a new request and the CPU waits for ever. The test bench uses level 0.
* `ExecUnitShadow.cfg`, module ExecUnit, `SegmentShadow`. A segment load shadows
  the next instruction from interrupts (execUnit.sv:2566-2567), but the flag for
  it is cleared in S_FETCH_OP even when the queue is empty (execUnit.sv:1455), so
  an interrupt can be taken between loading SS and loading SP.
* `DiskAlias.cfg`, module DiskService, `DiskApart`. The board sets DISK_SECTORS to
  32768 (FPGA80186.qsf:324) with the disk from 1 MB on, and storage.sv:158-159
  forms the address in 24 bits: the last 2048 sectors are conventional memory.
  storage.sv:23-26 says the two "cannot collide however wrong the software gets".
  An image made by mkdisk.py for the whole device has such sectors.
* `VolumeReserved.cfg`, module Volume, `ReadsBack`. fat12.py:53-58 keeps cluster
  numbers off the values from FF0h up by a limit of 4084 clusters, but the
  numbers start at 2 and reach FF5h. A file with a cluster from FF0h on is read
  back, by mkdisk.py and by the boot sector, as if it ended there. The model has
  a smaller limit in the same relation; Fat12 with 4084 clusters does it too.

Noticed on the way and not given a configuration:

* A prefetch cycle can start between a DMA fetch and its deposit
  (cpu_top.sv:163), although dma.sv:34-36 calls the pair atomic; nothing depends
  on it.
* A store that hits is queued in T2 and again in T3 when the queue makes it wait
  (cache.sv:374-376); writing the same word twice is harmless.
* A DMA channel without synchronisation can keep the execution unit off the bus
  for as long as it runs (dma.sv:37-38 promises no bound).
* A repeated string instruction directly after a segment load can be interrupted
  before its first element: S_STR_CHECK does not look at the shadow.
* The shadow that lets STI; HLT sleep without missing a request exists only
  for segment loads; after STI an interrupt may be taken before the HLT, which
  then sleeps until the next one (execUnit.sv:2584-2590).
* A pit8253 reload of N gives a period of N - 1 ticks, and zero 65535, where the
  comment at pit8253.sv:117-118 says 65536.
* The keyboard's header announces an eight-byte FIFO (keyboard_controller.sv:22);
  it has 32 entries. B_EXTEND, the prefix flag of INT 09h, is written and never
  read.
* INT 10h AH=02 takes any row and column, so text can be put outside the buffer;
  setting mode 13h leaves the hardware cursor where it was.
* INT 16h relies on the tick: after its STI an interrupt may come before the HLT
  (execUnit.sv shadows segment loads only), and the key is then found one tick
  late. The tick count does not restart at midnight.
* The boot sector takes one sector per cluster and one sector of FAT for granted
  (the root directory is loaded over the rest), although gen_disk.py:14-16 says
  nothing is hard-coded; fat12.py's docstring says it refuses other cluster
  sizes, and it takes 1 to 64.
* mkdisk.py:169 rounds the cylinders down, so a size it accepts can need a
  256th cylinder that CH cannot name; gen_disk.py:402 says the sector the kernel
  overwrites is past everything the image uses, and it is inside PADDING.BIN.
* addfile.py cuts long names where fat12.py refuses them; some small volumes make
  `Fat12.image()` run past the FAT it has sized and raise IndexError (`Packs`).
* `Asm.org` may go back over code without a word, and gen_bios.py never compares
  the end of the code with the place of the reset vector.
* img2hex.py leaves the geometry file of the last image in place when an image
  has no BIOS parameter block, and the next ROM is built with it.

## 8. What is not modelled

`PROJECT.json` lists every component. In short:

* Peripherals: DMA channel registers, `timer.sv`, `pit8253.sv`, `pcb.sv`,
  `io_decode.sv`, `jtag_loader.sv`, `blitter.sv`, and the length table of
  `decode_len.sv`. The models above them take an I/O access as one strobe, a load
  as one step and the timer as something that asks again.
* Left out: `ALU.sv` and `regfile.sv` (combinational arithmetic and an array,
  driven exhaustively by their test benches); video output, DAC, CRTC and font
  (counters and tables without a protocol); clock, reset and PLL (analogue);
  chip selects (comparators); the top level's wiring; `scancodes.py`,
  `screen_dump.py` and the output formats (tables and layout).
* Inside modelled parts of the hardware: the chip's tRP/tRCD/tRC as timings; the
  cache's next-line prefetch (off in the design) and counters; ROM, video memory
  and I/O as regions; status codes; what ordinary instructions compute; far
  transfers and divide errors; the predictor's table; bits, parity and idle
  timeout of a PS/2 frame; storage's unknown commands and ROM backend.
* Inside modelled parts of the software: the tick handler's profiling ring, the
  equipment and memory size calls, messages; string, port and stack instructions
  of the assembler; time stamps and labels of a volume. DOS appears only as a
  program that deletes files.
* Assumed of the environment: the CPU's reset outlasts a fill in progress
  (`BusRelease` in Cache; the loader holds reset for many JTAG clocks); software
  changes priorities and clears in-service bits only with nothing in service; a
  device holds its pin until its handler serves it, as the header of
  `interrupt_controller.sv` asks; a program on the disk's ports waits for BUSY,
  as the BIOS does; a program that hooks INT 09h reads the port once and chains.

## 9. The plan

1. The last two invariants: `StepsBoot`, from `ToolchainVolumes` and
   `GeometryRoundTrip`, under assumptions on the layout; `KernelWhole`, for
   kernels in one piece, from what `AddFileIs` says of the clusters of a new file.
2. `Pit8253` and `Timer`: period and alternation as a function of the reload,
   races of control writes with expiry, under Typing's tick.
3. `IoDecode` and `Pcb`: one strobe per bus cycle whatever READY does, which
   Typing and Storage assume.
4. `Dma` channel registers against the transfer engine; `JtagLoader`'s
   clock-domain handshake, which would discharge Cache's assumption on reset;
   `Blitter` with the CPU stealing the port.
5. Frames of the keyboard bit by bit, with the idle timeout.
