# A verification project for coverage-vp

coverage-vp is a RISC-V virtual prototype with a concolic testing engine.  A
guest program runs on an instruction set simulator (ISS) inside a SystemC
simulation.  Some of its inputs are symbolic; the branches it takes on symbolic
values are recorded; after each run an SMT solver is asked for inputs that take
a branch not taken before, and the simulation is restarted with them.  While
the guest runs, executed lines and basic blocks are recorded and written out as
gcov-like JSON.

This directory holds TLA+ modules that model that system from the instruction
decoder and the CSRs to the solver's caches and the threads of the devices, TLC
configurations that check them on small instances, and proofs, checked by TLAPS,
that hold for every instance.
Paths of sources below are relative to `src/vp/src`.  `PROJECT.json` maps every
definition to the lines it models.

## 1. The system

| Part | Source | State | Operations |
|---|---|---|---|
| Exploration loop | `symex/symbolic_explore.cpp` | `paths_found`, `errors_found`, test case directory | start of a run, end of a run, error report, time budget, end |
| Execution tree | `symex/clover/trace.cpp`, `branch.cpp` | `Branch` objects: condition, children, `wasNegated` | `add`, `reset`, `getRandomPath`, `findNewPath` |
| Input stores, test cases | `symex/clover/context.cpp`, `testcase.cpp` | `next_run`, `last_run`, files | `getSymbolic…`, `setupNewValues`, `toFile`, `fromFile` |
| Concolic values | `symex/clover/concolic.cpp`, `bitvector.cpp`, `memory.cpp` | concrete and symbolic half | arithmetic, load, store |
| Expressions | `symex/clover/klee/lib/Expr` | expressions, constraints | builders, simplification, evaluation |
| Solver chain | `symex/clover/klee/lib/Solver` | two caches | `evaluate`, `getValue`, `getInitialValues` |
| Decoder | `core/common/instr.cpp` | none | decode, expand |
| ISS | `core/rv32/iss.cpp`, `csr.h` | registers, CSRs, privilege, status | `exec_step`, `run_step`, traps, interrupts, MRET, WFI |
| Memory path | `core/rv32/mem.h`, `core/common/mmu.h`, `platform/common/bus.h` | TLB, page tables | translate, load, store |
| Coverage | `core/rv32/coverage.cpp`, `basic_block.cpp` | functions, lines, blocks | `init`, `cover`, `visit` |
| Loader, system calls | `core/common/elf_loader.h`, `core/rv32/syscall.cpp` | image, heap, files | load, every call |
| Debugger | `core/common/gdb-mc` | packet, mutex, run and stop events, breakpoints | `dispatch`, `run`, handlers, `run_threads`, runners |
| Interrupt controllers | `platform/common/fe310_plic.h`, `fu540_plic.cpp` | priorities, pending, enabled, threshold, claim | trigger, `run`, register callbacks |
| Timers | `core/common/clint.h`, `real_clint.cpp`, `timer.cpp` | `mtime`, `mtimecmp`, a timer thread | register callbacks, `run`, `interrupt` |
| UART, SLIP | `platform/common/abstract_uart.cpp`, `uart.cpp`, `slip.cpp` | FIFOs, semaphores, two threads, send buffer | register callbacks, `transmit`, `receive`, destructors |
| GPIO | `platform/hifive/gpio.cpp`, `gpio/gpio-server.cpp` | pins, edge interrupts, a server thread | register callbacks, `synchronousChange`, requests, `quit` |
| SPI, CAN | `platform/hifive/spi.h`, `can.cpp` | queues, buffers, a listener thread | bytes, frames |
| Register maps | `util/tlm_map.h`, `memory_map.h` | registers, windows | dispatch of a transaction |

How they interact.  `explore_paths` starts SystemC simulations one after the
other; the ISS computes on concolic values, calls `Trace::add` on symbolic
branches, the stores when the guest makes a value symbolic, and
`Coverage::cover` after every instruction.  After a run `findNewPath` turns a
prefix of the trace into a query, which the constraint manager simplifies and the
solver chain answers.  Devices are SystemC modules: their callbacks run in the
thread of the hart that accesses them, which may be ahead of simulated time by
the global quantum, and their own threads run when the hart synchronises.
Devices signal the hart through the PLIC or the CLINT, which set bits of `mip`
and notify `wfi_event`.  UART, GPIO, CAN, the GDB server and the timer of the
host-time CLINT have threads of the operating system, which reach SystemC
through `AsyncEvent` or share variables with it.

What is hard here: the life of a path and its inputs over many runs; a symbolic
half that means something else than the concrete one for some inputs only; caches
whose entries outlive the question they answered; nested traps, delegation, and
registers that are views of one another; interrupts that become deliverable
between two looks at them; threads that share FIFOs and flags, and destructors
that end them; timers re-armed by what they wake.  `PROJECT.json` lists these
hazards at the lines where they bite.

## 2. Modules

| Module | Models | Notes |
|---|---|---|
| `Exploration` | exploration loop, execution tree, stores, error reports | detailed specification |
| `PathCoverage` | what an exploration promises | abstract specification |
| `ExplorationRefinement` | refinement mapping | `Exploration` implements `PathCoverage` |
| `TestcaseReplay` | test case files, `run_test` | composes with `Exploration` |
| `MCExploration` | small guest programs | constants for TLC |
| `ISS` | execution of instructions on concolic registers and memory | beside the concrete machines of all inputs |
| `Clover` | concolic values, concolic memory, path queries | used by `ISS` and `SolverChain` |
| `KleeExpr`, `KleeBuilder` | expressions, simplifying constructors, chain of builders | pure |
| `KleeConstraints` | constraint manager | pure |
| `KleeZ3` | translation to Z3 | pure |
| `KleeFastCex` | value ranges and propagation of the fast counterexample solver | pure |
| `SolverChain` | independence, the two caches, staging, Z3 with timeouts | |
| `Decode` | decoder, expansion of compressed instructions, fetch | |
| `CsrFile` | every CSR, its masks and access checks, CSR instructions | |
| `Hart` | privileged machine: traps, interrupts, delegation, MRET, WFI | any guest, any peripheral |
| `VirtualMemory` | memory interface, MMU, TLB, page walk, bus decoding | |
| `Coverage` | coverage records | |
| `RegisterMaps` | `LocalRouter`, register banks and ranges | |
| `GuestSystem` | ELF loader, system calls | |
| `GDBServer`, `LibGdb` | server, handlers, run control, debug memory; packet parser | three kinds of threads |
| `FE310PLIC` | PLIC with the hart's MEIP and the guest's handler | |
| `FU540PLIC` | PLIC of the FU540 | two harts, two levels |
| `CLINT`, `RealCLINT` | timers in simulated time and on the host's clock | |
| `AbstractUART`, `SLIP` | UART with its threads; encoder and decoder | |
| `GPIO` | port and server | two threads |
| `SpiCan` | SPI with the CAN controller behind it | two threads |
| `ExplorationProofs`, `CompletenessProofs` | | theorems about `Exploration`, the second module on top of the first |
| `CoverageProofs`, `GDBServerProofs` | | theorems about one module each |
| `CLINTProofs` | | theorems about `CLINT` and `RealCLINT` |
| `HartProofs` | | theorems about `Hart` and `VirtualMemory` |
| `CoreProofs` | | theorems about `CsrFile`, `GuestSystem` and `RegisterMaps` |
| `DeviceProofs` | | theorems about `AbstractUART`, `FE310PLIC`, `FU540PLIC` and `GPIO` |
| `MC…` | instances for TLC | |

`MCCore`, `MCDevices`, `MCPeripherals` and `MCGDBServer` put components that do
not share state side by side: a variable `which`, chosen in the first state,
says which one takes the steps of a behaviour, and each property is that of its
module.  What such a run shows is what a run per component would show.

How state and actions correspond to the code:

- **Exploration.**  A guest is a function from program points to segments, each
  the instructions up to the next event the explorer sees (symbolic branch,
  branch on a concretized value, error, exit, EBREAK).  A condition is the set of
  assignments that satisfy it; what expressions stand for such a set is the
  business of the modules below `ISS`.  A `Branch` object is named by its path
  from the root, so `tree` is a function on sequences of directions.  The choice
  of `getRandomPath` and the values that the solver returns are nondeterministic.
- **TestcaseReplay.**  The lines of a file are records; a second process reads
  them and runs the guest once.
- **ISS.**  A step is one `run_step`, with one operator per group of opcodes.
  Every opcode for which `exec_step` still has a live case is there; those inside
  `#if 0` end in the unknown opcode, as in the code.  EBREAK raises no trap: the
  instruction ends and the hart stops behind it.  ECALL traps, unless the platform
  emulates system calls and `a7` is not zero; such a call goes on in `GuestSystem`.
  `ref` holds, for every assignment of the symbolic bytes,
  the concrete machine that executes the same instructions by the manual's rules:
  the reference the concolic values are compared with.  `lost` records that an
  address was concretized without a constraint.
- **KleeExpr to KleeZ3.**  Each `create`, each method of a builder and each case
  of the translation is an operator.  Widths are those of the instance, the
  arithmetic is modulo 2^width.
- **SolverChain.**  A layer maps a question and the state of the caches to the
  set of its outcomes.  Z3 may time out, or return its least or greatest model.  A
  failed assertion is an outcome (`aborted`), and there is one: `FastCexSolver` computes
  the range above a bound without a look at overflow (the XXX at
  `FastCexSolver.cpp:724`), and takes apart an empty range when the bound is the
  greatest value and the value a concatenation (`FastCexSolver.cpp:161`).
  `AbortsOnlyOnSettled` says that nothing else fails: a conjunct of the question then
  has the same value for every input.
- **Decode.**  A 32-bit instruction is the record of its fields; an encoding of
  `instr.cpp` with its mask is a pattern over the fields.
- **CsrFile.**  A register is the set of its bits that are one.  A step is a CSR
  instruction, MRET, or a change of `mip` by a device, followed by the trap or
  interrupt that `run_step` takes.
- **Hart.**  `c` is the machine (pc, privilege, CSRs, `mstatus` by field).  An
  action is a `run_step`: an instruction, then the look at the pending
  interrupts.  `frame` remembers what the last trap to machine mode interrupted.
- **VirtualMemory.**  Addresses are pages; `fresh` and `flagsFresh` record that
  nothing has changed that the TLB could have missed (tables, `mstatus`).  An entry of
  the TLB holds a page modulo `PhysicalPages`: `~PGMASK` is 32 bits wide, so a hit drops
  the two uppermost bits of a 34-bit address that a walk returns (`mmu.h:141`), and
  `TranslationExact` says so.  `Debugger` says whether GDB translates addresses too, the
  only loads that are translated as loads.
- **Coverage.**  Both walks of `init`, one instruction per step, then `cover`.  The
  records are functions on the names of functions and on lines; a walk creates
  those of an instruction's sources at once.  `opcode` is what `init_basic_blocks` sees
  of an instruction: it looks at the raw word, where a compressed jump or branch is none
  (the TODO at `coverage.cpp:117`).  Such a jump makes no leaders, and blocks that it
  separates in the program are one block in the records.  The properties are exact about
  this: the leaders are those of the jumps found, and they are those of the program, and
  a block is entered at its start, when no jump is compressed.
- **GDBServer.**  The thread of `dispatch`, the SystemC thread `run` and the
  runners are processes; SystemC threads interleave only where one of them waits.
- **LibGdb.**  Parsers yield sets of results; characters are codes, and every
  combinator of mpc the grammar uses is external.  The texts are spelled from commands
  by `Spellings`, a definition of its own, and then edited.  A signal of a vCont action
  that has not two digits fails an assertion (`parser2.c:217`).  Encodings leave out
  counts whose character is `#` or `$`, as the protocol does, and `*`, which
  `gdb_decode_runlen` takes for another run (`util.c:68`).
- **FE310PLIC, FU540PLIC.**  `run` is the thread of the controller, which wakes up
  a clock cycle after a trigger; in between the guest may do anything.  `missed`
  remembers a register write that made an interrupt deliverable, for which the
  code notifies nobody.
- **CLINT.**  A hart at kernel time `now` has advanced by `offset`; its accesses
  carry that offset.  Registers of 64 bits are written in halves.
- **RealCLINT.**  A write of `mtimecmp` is two steps of the SystemC thread,
  before and after `pthread_join`; the timer's thread sleeps in pieces and is
  cancelled at its sleep only.
- **AbstractUART.**  A critical section is one step.  The two destructors are
  steps as well, because the threads outlive the derived class.
- **SLIP.**  The guest returns what it receives, so decoder meets encoder.
- **GPIO.**  `server.state` is read and written in separate steps by both threads,
  because nothing locks it.
- **SpiCan.**  A step of the guest is one byte through the SPI.  The listener
  looks for a free buffer, fills it, and sets its bit of `status` in separate steps, and
  `readRxBuf` reads `status` and writes it back in two, so that either change may be
  lost.  `unread` and `raced` remember which buffers hold a frame nobody has read, and
  that the two have overlapped.  `sendTxBuf` drops the flag of an extended identifier,
  and what goes out has its lower 11 bits; the listener stores extended identifiers as
  standard ones.  `FramesIntact` claims identifiers of standard frames only.

Where a module's `TypeOK` is not a property of a run, it documents the state.

Definitions that are introduced as mutants in their comments are variants with
a plausible bug; replacing the definition they vary makes a property fail.

## 3. Runs

| Run | Instance | Checks |
|---|---|---|
| `exploration` | 41 deterministic guests; 7 more that concretize, repeat a name, hit EBREAK, or run under a time budget and solver timeouts; 2 names, 3 values | runs follow the solver's path; no path is executed twice; none is missed; every error has a test case that reproduces it; `ImplementsPathCoverage`, which includes that the exploration ends |
| `concolic` | programs of up to 4 instructions, 2 symbolic bytes, words of 8 bits | concrete halves are RISC-V; symbolic halves mean the same for all 16 inputs; Z3 is told the same; path constraints and flipped queries are exact |
| `solver` | 5 paths, 7 conditions, among them comparisons with the greatest value, 2 values; any two calls | answers are exact also when they come from a cache filled before a timeout; an assertion fails only for a comparison that no input decides otherwise |
| `core` | all 49152 compressed words and every opcode, funct3, funct7; page tables of 2 levels; images of 3 instructions; small register maps and images | decoding and expansion; Sv32; basic blocks and coverage; register accesses are memory accesses; the loaded image |
| `csr` | 3 instructions from reset, then any one | views change only their level's fields; set and clear are exact; counters are guarded |
| `hart` | timer and external interrupt, illegal instructions, ECALL, 3 CSR writes to status, enable, vector and delegation registers | the machine frame survives; MRET resumes; WFI is notified |
| `gdb` | 16 kinds of requests, 3 per behaviour, 2 connections, 1 damaged packet; commands of all 8 kinds with arguments, each with any of 12 characters inserted or any one dropped, and runs of 4 to 16 | packets and replies match; the hart is stopped unless GDB waits; every request is answered; the parser reads what was written, and takes it for the command it spells |
| `devices` | PLIC: 2 interrupts, 3 triggers, 4 writes; RealCLINT: 3 writes of `mtimecmp`; UART: FIFO of 2, 3 bytes sent; GPIO: 2 pins, 2 requests, 2 writes | no interrupt forgotten, each one served; no timer interrupt lost or early; bytes are written; inputs follow; the server ends |
| `peripherals` | CLINT: 1 hart, time up to 5; FU540 PLIC: 2 harts, 3 interrupts; SLIP: packets of 4; CAN: 3 frames arrive for 2 buffers, extended ones among them, up to 5 operations; UART: FIFO of 2, 3 keys, 2 bytes, 2 configurations | timer on time and not spurious; claims are exclusive; packets, frames and bytes come through in order; watermarks are signalled |

Three runs are expected to find a violation.  Each checks what a comment of the
repository says against what the code does:

| Run | Disagreement |
|---|---|
| `uart_destructor` | a receive thread that waits for room in the FIFO is not unblocked, and the destructor joins it for ever |
| `slip_payload` | a packet with ESC followed by ESC_END is decoded to another packet than RFC 1055 says |
| `tlb` | without a debugger, a TLB entry outlives the clearing of `mstatus.sum`, and the TLB is more than an "optimization only" |

More disagreements were met while modelling.  The models follow the code; the
properties leave these cases out, as their comments say:

- `explore_paths` returns the status of a failed simulation, which is printed as
  the number of unique paths (`symbolic_explore.cpp:173`);
- a guest that polls the claim register can fail the assertion of the completion
  (`fe310_plic.h:192`): `CompletionAssertion` with `GuestPolls = TRUE`;
- MRET enters the reserved mode 2, and a trap delegated twice there fails an
  assertion of `prepare_trap` (`iss.cpp:1868`): `aborted = "assertion"` is reachable
  in `Hart`;
- the lines never refer to their blocks, as `add_func` records them in a copy
  (`coverage.cpp:196`);
- the decoder accepts MUL, the atomic and the floating-point instructions, which
  `exec_step` then rejects as unknown, because their cases are compiled out;
- loads are translated with the access type of a store (`mem.h:210`);
- with two harts, which no platform has, `AllStop` of `GDBServer` fails; a vCont
  for a terminated hart is never answered (`gdb_server.cpp:181`);
- reading the registers or the memory, or writing the memory, after an H command for
  a thread the server does not know ends the simulation: `getRegisters`, `readMemory`
  and `writeMemory` do not catch what `get_threads` throws (`handler.cpp:77`, `122`,
  `147`), while `readRegister` does;
- a compressed jump starts no basic block (`coverage.cpp:117`);
- a TLB hit and a walk differ in the bits above the 32nd of a physical address
  (`mmu.h:141`);
- the assertion on an empty range fails for comparisons with the greatest value
  (`FastCexSolver.cpp:724`);
- a run of 14 characters is not decoded (`util.c:68`);
- `status` of the CAN controller is changed by two threads without a lock
  (`can.cpp:472`), and a frame may be read twice or be overwritten;
- extended CAN identifiers are lost in both directions (`can.cpp:392`, `469`);
- `write_memory` of the debug interface converts only the first half of its text
  (`debug_memory.cpp:89`);
- the FU540 PLIC reads the priority of the neighbouring interrupt
  (`fu540_plic.cpp:212`);
- negative answers of system calls fail an assertion of `write_register`
  (`iss.cpp:1669`), and every platform passes a null pointer where calls need the
  guest's memory;
- a CAN frame of length zero never ends the loading of its buffer (`can.cpp:376`).

**Bounds.**  The guests of `exploration` have up to four branches over two
variables with three values, which includes infeasible branches, errors in the
middle of a tree and conditions that share variables; `SYMEX_ERREXIT`, which ends
the process at the first error, is unset (`ErrExit = FALSE`).  In `concolic` a
byte has two bits, so that all 16 inputs can be tried and shifts, sign extension
and carries still cross bytes; any two ALU instructions meet before a branch,
because the builders rewrite pairs of operations.  The paths of `solver` join and
separate arrays, and one of them compares with the greatest value; and two calls suffice to fill a cache and to use it, with a
timeout in between.  One edit of a command reaches texts that are cut short, run on or
differ in one separator, and the runs pass every count character from the first to the
one after `*`.  Five operations of the guest receive a frame into a buffer that was read
while another one arrived, and read it again.  Three CSR instructions configure a delegation, enable it and
enter the lower mode, and the fourth, any one, is judged in every state reached.
Two interrupts suffice for priorities and for one interrupt arriving while
another is served; three triggers let an interrupt come back while it is claimed.
More bytes than the FIFOs hold are typed (`peripherals`) and sent (`devices`).
The SLIP packets end before, at and after multiples of the growth unit.  The CLINT
lets a hart be ahead of the kernel by a whole tick, and comparands lie before, at
and after the clock.  In `RealCLINT` a sleep takes up to three pieces, and every
write may find the thread before, in and after its sleep.  Images of three
instructions hold loops, jumps into and out of functions, compressed ones and inlined
instructions.  In `hart` three CSR writes reach every pair of delegation registers
together with an enable bit; writes of `mip` and the `epc` registers are left to
the proofs.  All bounds are guards named by constants (`Max…`).

**Deadlock** is not checked where the bounded guest stops writing, the
exploration returns, the text is parsed, or the simulation ends: all of these are
ends of the system.

**Fairness.**  `Exploration` has weak fairness of `Next`: the loop is sequential
and the guests terminate.  `FE310PLIC`: of the controller's thread, because a
notified SystemC thread runs, and of the guest that takes its interrupt, claims
and completes; not of triggers or register writes.  `AbstractUART`, `RealCLINT`
and `GPIO`: of the threads, which the operating system schedules, of SystemC
methods that have been notified, and of a destructor that has begun; not of the
guest or of clients.  `GDBServer`: of the server's threads and runners, and of GDB
reading replies; not of requests.  The other modules have none; what they promise
is stated as safety: that the timer is not late, that a waiting hart has been
notified.

## 4. Proofs

TLAPS checks the theorems for every value of the constants that satisfies the
assumptions named in the module and in the theorem, with no bound on guests,
interrupts, packets or steps.  `MCCore` evaluates the assumptions on images, page
tables and register layouts (`ProgramsWellFormed`, `TablesProper`, `MapsApart`) for its
instance, so they are known to be satisfied by it.

- **`ExplorationProofs`.**  `TypeCorrect`, `TreeIsWellFormed` and
  `TreeOnlyGrows` hold for all guests.  `RunsFollowTheirGoal` and
  `ExecutedPathsUnique` hold for the deterministic ones (`Deterministic`: control
  depends only on traced branches, and no name is made symbolic twice), however the
  solver, the random choices and the budget behave.  That no path is executed twice
  is far from inductive.  `DetInv` adds: every node above another has a condition;
  the tree agrees with the program; before a run, the goal is a path outside the
  tree and `next_run` an assignment that satisfies the query for it; during a run,
  either the guest is still on the way (`Heading`: the values it holds and the
  values it will be given make up such an assignment) or the goal is behind it and
  the store used up (`Arrived`); executed paths are leaves of the tree, and the goal
  is not a prefix of any.  The end of a run past its goal is therefore a new leaf.
- **`CompletenessProofs`.**  `ExplorationIsComplete`: when the loop ends because no
  branch is left, every input takes an executed path.  `CompleteInv` says that a leaf of the tree has been executed, or is where the current run is; that a side
  which a negated node lacks is one that no input takes, or the goal of the current
  run; and that the tree is of bounded depth.  At the end no node is left to negate,
  so the path of an input, followed down the tree, arrives at a leaf that has been
  executed.  `ExplorationCovers` is the
  refinement of `PathCoverage` but for its fairness: `Init` implies the abstract one
  and each step is an abstract step or a stutter.  It is stated for
  `ErrExit = FALSE` and guests that end on some input: with `SYMEX_ERREXIT` the
  process ends at the first error, which `PathCoverage` does not promise to survive.
  The theorem takes the feasible paths from `FeasiblePaths`; `PathsAreTaken` of
  `ExplorationRefinement`, which TLC evaluates, says that those the run computes by
  executing the guests on every input are the same.
- **`HartProofs`.**  `MachineStateTyped`, `MachineFrameSurvives`,
  `TrapsNeverLowerPrivilege`, `NoLostWakeup` and `MretResumesInterrupted`.  The
  conjunction `HartInv` of the invariants among them is inductive; the lemmas say what
  `prepare_trap`, `compute_pending_interrupts`, `switch_to_trap_handler` and
  `return_from_trap_handler` return.
- **`CLINTProofs`.**  `TimerNeverLate` for any number of harts.  `LateInv` says
  that for each comparand without its interrupt `irq_event` is pending, not later than
  the tick of the comparand or the write that set it, and that `mtime` is ahead of the
  kernel by no more than the quantum.  `TimerAlwaysOnTime` adds that the
  timer is not early and needs one hart, which is what the platforms instantiate
  (`CLINT<1>` in `test32_main.cpp:151` and `symex_main.cpp:105`): a second hart that
  reads `mtime` ahead of the kernel moves it forward for the first.  `NeverSpurious`
  rests on what the halves written so far and still to come add up to.  RealCLINT:
  `TimerAlwaysExact`; `ClintInv` adds that `mtime` is not ahead of the host's clock,
  that a thread is created with time to sleep, and that it is cancelled only while the
  write that replaces it waits.
- **`DeviceProofs`.**  UART: `FifosAlwaysSound` and `WatermarkAlwaysSignalled`, for
  FIFOs of any depth.  The semaphores are counts of tokens: every byte to send has
  one, in the semaphore, owed by the guest's write or taken by `transmit`, and the
  destructor adds one only when `stop` is set (`TxTokens`); every place of the receive
  queue is free, taken or about to be (`RxTokens`).  What a thread holds, joined to the
  queues, is the sequence of bytes that went in (`TxOrder`, `RxOrder`).  FE310 PLIC: `ControllerAndHartAgree`, `NoInterruptIsLost`, and
  `CompletionAssertionHolds` for guests that do not poll; `PlicInv` joins them with the
  fact that a guest in its handler has been signalled, and a lemma gives the least
  element of a set of interrupt numbers, which `hart_get_next_pending_interrupt` relies
  on.  FU540 PLIC: `AlwaysClaimedOnce`, for any number of harts.  GPIO: `InputsAlwaysFollow`; `GpioInv` says how far the snapshot of
  `server.state` that the SystemC thread works on may lag behind.
- **`CoverageProofs`.**  `BlocksAlwaysExact`, `BlocksAlwaysEnteredAtLeader` and
  `AssertionNeverFails`, for images of any size that are `WellFormed`: functions do not
  overlap and hold all instructions, without gaps and with at least one source each, and
  a jump goes to an instruction of its function, to the start of one, or out of the
  image.  `CovInv` says by phase how far `init` has come.  In the first walk the leaders
  are those of the functions and instructions behind it and the targets of their jumps,
  and a jump just passed is in `prev_wasjump`; in the second, everything before
  `block_prev` is in a block and no leader lies between it and `addr`; in a run, each block is
  cut at leaders, a marked block holds an executed entry of the program, and an executed
  instruction is in a marked block.  The step that matters is `Execute`: a successor of an
  instruction is in the same block or an entry, and when no jump is compressed the entries
  are the leaders, which are in no block but at its start.
- **`HartProofs`, the MMU.**  `TranslationAlwaysSound`, for TLBs, fan-outs and ports of any
  size, and tables that are complete at the root and in memory (`Proper`).  As long as
  `fresh` holds, `CacheInv` says that what the TLB holds is the page Sv32 defines for
  this mode and kind of access, modulo `PhysicalPages`, that a cached translation of a store is that of an
  earlier store, and that pages stored to are dirty; a walk preserves it
  because the flags it sets change neither leaves nor permissions.  What happens once
  the guest has changed tables or `mstatus` is the subject of the run `tlb`.
- **`CoreProofs`.**  CSRs: `LevelsAlwaysIsolated` and `AccessesAlwaysExact`, for any
  guest, any operands and any number of instructions.  The invariant is only that there
  is a register for every slot and that the mode is one of four; the work is in lemmas
  that say, address by address, what a read returns and a write changes, and that the
  masks of a level lie within the fields that level owns.  Loader:
  `ImageAlwaysLoaded`, for every image.  Register maps: `MappedAlwaysMemory`, for every
  layout that keeps registers, window and range apart (`Apart`).  `BytesInv` ties each byte of a register, of the window and of the range to
  the byte the guest last wrote, and says that masked bytes are zero.
- **`GDBServerProofs`.**  `ExchangeAlwaysSound`, for any number of harts, damaged
  packets and connections.  The mutex alone does not show it, since one thread locks
  and the other unlocks: `HandInv` says where a packet is for each pair of program
  counters, and `TokenInv` that of the messages that must be answered there is at most
  one between GDB and the server, none while GDB waits for nothing, and that it and the
  saved reply belong to the request GDB waits for.  `RunControlAlwaysSound`, for one
  hart (with two `AllStop` is false) and requests that name threads of the server
  (`SensibleRequests`): `HartInv` gives the state of the hart for each place of
  `run_threads`, and `vContInv` that until the hart has stopped no thread has been
  matched, so that an action remains that runs it and the assertion at the end of
  `vCont` holds.

Only model-checked:

- liveness (`DeliverableIsServed`, `BytesAreWritten`, `QuitEnds`, `RequestsAnswered`, the
  end of an exploration as part of `ImplementsPathCoverage`), because the prover handles
  neither fairness nor `ENABLED`;
- `FunctionBlocksExact` of `Coverage`, which counts the blocks recorded for a function:
  the records are made with `SelectSeq`, which needs induction over sequences;
  `CoverageProofs` shows in its place, of the ranges, that those and only those with an
  executed instruction count as executed;
- what the recursive operators, functions and folds of the expression modules, the
  solver chain, the decoder, the parser of packets and the replay of test cases compute,
  because induction over data is out of the prover's reach (the runs `concolic` and
  `solver`, decoding in `core`, `PacketsMean`, `TestcasesExact`);
- `PacketsIntact` of `SLIP` and `FramesIntact` of `SpiCan`, which have no proofs yet.

Conversely `TreeWellFormed`, `TreeGrows`, `TrapsKeepPrivilege`, `EipMatchesHart`,
`CompletionAssertion` and `TimerNotLate` for several harts are stated by theorems alone.

## 5. What is not modelled

- The SystemC kernel, Z3, the DWARF library, mpc and the operating system are
  external: modelled from how the code uses them.
- KLEE's query parser, printers, logging and validating solvers, array optimizer
  and statistics, because clover's chain does not reach them.  Of what it does
  reach, options that are off by default are left out.  `mustBeTrue` is modelled
  although clover does not call it, since it makes the partial entries of the
  validity cache that `evaluate` must cope with.  The propagation of the fast
  counterexample solver hardly ever decides a path query: clover's conditions
  compare 32-bit words, and the propagation gives up on most of them.
- The floating-point and atomic instructions, SRET, URET and SFENCE.VMA are
  compiled out of the source (`iss.cpp:642-1292`, `1308-1326`, `1332-1380`,
  `mem.h:245-277`); so nothing takes the bus lock.  `ISS::eval` has no caller.
- The OLED display, the 16550 UART, which no platform instantiates, and register
  files with constant answers: sequential, with no state another part depends on.
- The platforms' constructors; from them the models take one hart each and the
  address maps.  On the symex platform the memory overlaps the CLINT.
- The parsers of test case lines and of command line options, symbol tables of
  ELF files, terminal settings: text and I/O.
- Errors of host system calls, which throw and end the process.
- Clocks that are set back (`RealCLINT`), products beyond 2^64 (`CLINT`).
- A composition of `Hart` with the interrupt controllers: `Hart` takes any sequence
  of changes of `mip`, which includes those the controllers make.
