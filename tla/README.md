# A TLA+ model of the fault tolerant CV32E40P

This directory holds a formal model of the processor in `src/rtl`: the CV32E40P (RI5CY), a
32-bit in-order RISC-V core with a four-stage pipeline (IF, ID, EX, WB), the PULP extensions
(hardware loops, post-increment accesses, packed SIMD) and the fault tolerance additions of this
repository: triplicated units with majority voters (`*_ft.sv`, `cv32e40p_voter.sv`) and a
Hamming-coded register file. It also holds models of the programs in `src/example_tb` and `src/sbst*` that
run on the core. Every module is translated from the SystemVerilog, C or assembly source; TLC checks it on
small instances, and TLAPS proves the most important invariants for every value of the constants.

In the hardware models a step is a rising clock edge (or a single event upset); in `Firmware` it is an
instruction, in `InterruptTest` a clock in which the program may complete a statement. Combinational signals are operators of
the registers and of the inputs `i` of the cycle, and keep the names of the source; registers are VARIABLES.
Mutants of a definition, one or more per module, stand just before it with a comment `Mutant:`; no
specification uses them.

## 1. Inventory

| Component (`src/rtl/cv32e40p_…`) | State | Operations | Hard behaviour | Correct when |
|---|---|---|---|---|
| fetch FIFO (`fifo`) | memory, two pointers, count | push, pop, flush, flush but first | simultaneous operations, pointer wrap | it is a bounded queue |
| prefetch controller (`prefetch_controller`) | outstanding and flush counts, `BRANCH_WAIT`, saved address, delayed flush | request, branch, hardware loop jump, response | responses of an abandoned path arriving later; a loop jump before the loop's last word has come | the fetch stage gets the words of the program, once each, in order |
| OBI interface (`obi_interface`) | `TRANSPARENT`/`REGISTERED`, registered address phase | request, grant | the request must not change while it waits | OBI's A channel rules hold |
| prefetch buffer (`prefetch_buffer`) | composition of the three | fetch | all of these at once | no response finds the FIFO full, fetching never stops |
| aligner (`aligner`) | FSM, saved half word, PC, pending loop jump | cut words into instructions | 16/32-bit mixes, stalls, branches to odd half words, loop jumps during a stall | instructions and PCs are those of the program |
| triplication (`aligner_ft`, `voter`, and the other `*_ft`) | three replicas | vote every output | replicas share inputs but are never reloaded | one upset replica changes nothing, and comes back into line |
| IF stage (`if_stage`) | IF/ID register | hand over an instruction | ready/valid with both neighbours | see aligner |
| load/store unit (`load_store_unit`) | transaction count, control of the response, first half of a misaligned load | request, response, split accesses | EX and WB in lock step around two outstanding transactions | accesses are atomic, in order, exactly once |
| register file (`register_file_ft`, `_encoder`, `_decoder`, `_ff`) | 32 words of 38 bits | write on two ports, read on three | upset bits accumulate until the next write | single upsets are corrected, double ones reported |
| ID stage (`id_stage`) | ID/EX register | operand selection, forwarding, second transaction of a misaligned access | stalls, hazards | operands are the newest values |
| controller (`controller`, `controller_ft`) | FSM of 16 states, debug FSM, sticky flags | decode, branch, trap, return, debug entry, sleep, loop jump | interrupts, debug requests, exceptions, stalls and branches in one cycle | every instruction takes effect once; the saved PC is the next to execute |
| interrupt controller, sleep unit (`int_controller`, `sleep_unit`) | registered interrupt lines; busy and fetch-enable flags | prioritise, wake, gate the clock | raw line wakes, registered line is taken | no wake-up is lost |
| loop registers (`hwloop_regs`) | start, end, counter of two loops | set, decrement | set and decrement at once | bodies run `counter` times |
| EX stage and APU dispatcher (`ex_stage`, `apu_disp`) | EX/WB register, in-flight and waiting operation, memorised result | dispatch, write back | port contention, out-of-step results | each operation writes its register once |
| ALU, divider, multiplier, bit counters (`alu`, `alu_div`, `mult`, `popcnt`, `ff_one`) | divider FSM and operands, MULH FSM and carry | arithmetic | multi-cycle operations stalled half-way | results are those of the reference definition |
| CSRs (`cs_registers`) | trap, debug and counter registers | access, trap entry, return | several updates in a cycle | a trap and its return are inverse |
| decoders (`decoder`, `compressed_decoder`) | none | decode | – | expansion is the documented instruction |
| core, top (`core`, `top`) | none | wiring | – | – |
| interrupt test (`example_tb/core/interrupt`) | 12 global variables, two registers of the test bench | four tests, 19 handlers | main and handlers share variables and a read-modify-write of `mstatus`; acknowledgements travel through two registers | every line is served once, in order of priority; main returns 0 |
| interrupt generator (`example_tb/core/cv32e40p_random_interrupt_generator.sv`) | mode, lines, two processes | random and software-defined words | mode changes seen a clock late | – (environment of the interrupt test) |
| hardware loop test, self-test, start-up, trap handler (`example_tb/core/hwlp_test`, `custom`, `src/sbst_example`, `src/sbst`) | registers, CSRs, loop registers | nested loops, several hundred CSR accesses, exceptions | stale loop counters, illegal CSRs trapped between loops, MIE/MPIE over many traps | main returns, with success, interrupts stay off |

The components interact by signals only. Fetch: instruction memory → OBI interface → FIFO (or straight
through) → aligner → IF/ID register, with `fetch_ready`, `if_valid`, `branch_i` and `hwlp_jump_i` going
the other way. Data: ID/EX → load/store unit → data memory → EX/WB and the register file, with
`lsu_ready_ex`, `lsu_ready_wb` holding EX and WB. The controller halts IF and ID, selects the next PC and
signals loop jumps; it is the environment of the front end (`PrefetchBuffer`, `IfStage`) and the centre of `Core`.
Programs and core interact through interrupt lines, traps, CSRs and loop instructions.

Left aside: vendored code (FPnew, common cells), the wrapper of the FPU, simulation models, tracers and
memories of the test bench, assembly test patterns, synthesis and fault simulation flow. `PROJECT.json` lists every part.

## 2. Modules

### Fetch

* `BoundedQueue` – what a FIFO promises. `Fifo` – `cv32e40p_fifo` (memory, pointers, count).
  `FifoQueue` – a FIFO alone, shown to implement `BoundedQueue`; the history variable `port` holds the
  inputs of the last cycle, so that the queue must do what the inputs ask for and no push may be ignored.
* `PrefetchController`, `ObiInterface` – one module for each RTL module: registers, outputs as
  operators, the next value of the registers as one action.
* `PrefetchBuffer` – extends `Fifo` and `PrefetchController`, instantiates `ObiInterface`, and closes them with an instruction
  memory that grants and answers in order whenever it likes and a fetch stage that branches and signals loop
  jumps whenever the controller may. One action for each kind of cycle: `Branch`, `HwlpJump`, `Fetch`.
* `FetchStream` – what the prefetch buffer promises: the words from the last branch target on, each
  once, with at most one change of successor for a loop. A change of flow happens only when the fetch stage
  asks for it (`asked`), to the target it gives. In `PrefetchBuffer` the history variables `asked`, `next`, `after`
  follow the inputs and the handshake alone (`FollowPath`): a wrong or stale target, a lost, repeated or dropped
  word differs from them. `IfStage` builds on this promise.

### Instruction stream

* `Voter` – `cv32e40p_voter`: value and accusations. `Aligner` – registers as a record, outputs and
  the next registers as functions of the record and the inputs, so that a replica is an index.
* `IfStage` – three aligners, a voter for every output (`aligner_ft`), the fetch handshake and
  IF/ID. The prefetch buffer is replaced by its promise, `FetchStream`; `Upset(r)` changes one
  register of a replica to any value. Actions `Run`, `Branch`, `HwlpJump`, `Upset`.
* `InstructionStream` – what ID is promised: instructions of 16 or 32 bits, in program order. Where the program
  goes on is the history variable `path` of `IfStage` (branch and loop targets, and what ID has got), not `pc_if`.

A half word stands for its content; the only thing the aligner looks at is whether a 32-bit
instruction starts there (low bits 11), the set `wide`. Addresses count half words and wrap.

### Data

* `DataAccess` – loads and stores of the program: address, size, sign or NaN extension, effect on
  a byte memory. `AtomicMemory` – accesses performed at once, in order.
* `LoadStoreUnit` – `cv32e40p_load_store_unit` with its part of ID/EX (`id_stage`), EX/WB
  (`ex_stage`) and the data memory. `LoadStore` – any program of accesses and other instructions, any
  grants and answers; refinement and liveness.

### Execution

* `ApuDispatcher` – `cv32e40p_apu_disp`: the in-flight and the waiting operation, dependencies, stall.
* `ExecuteStage` – from the operands an instruction reads in ID to the register file: ID/EX and EX/WB
  (`id_stage`, `ex_stage`), both write ports, memorised results, the FSMs of divider and MULH, stall and
  forwarding logic (`controller.sv:1336-1410`). A value is the register it belongs to and whether it is that
  register's newest one, so that a stale operand shows without any arithmetic. `Cycle(i)` is one clock; the input
  record `i` holds memory grant and response, FPU, divider and flush. `Execute` – the specification, its
  fairness and properties.

### Control

* `SequentialMachine` – what a program may rely on: one instruction at a time, hardware loops, traps, debug
  mode, single step.
* `Controller` – `cv32e40p_controller`: each state of the FSM is an operator that gives the outputs and the next
  state of a cycle as a record; `ControllerCycle` assigns the registers. `SleepUnit`, `HwloopRegs` – as named.
* `Core` – composes them with an abstract fetch stage (any delay, one fetch outstanding), ID/EX and WB reduced
  to the kind of their instruction, the CSRs the controller writes, interrupt and debug lines. Actions are cycles
  of the ungated clock; `Clocked` those the sleep unit lets through. Shown to implement `SequentialMachine`.

### Programs

* `InterruptController` – the registered lines, the encoder. `InterruptGenerator` – the test bench's generator.
  `Matrices` – operands, expected product and inner loop of the multiplication of test 5.
* `InterruptTest` – the program of `interrupt.c` with its handlers, on a core reduced to `mstatus`, `mie` and
  `mcause`, with generator and controller clocked at every step. One action per statement that touches shared
  state; a loop over words of random bits is one action that picks any word. `pc`, `hpc`, `ra` are the
  places in main, in the handler, and the return address of `mstatus_enable/disable`.
* `FirmwarePrograms` – programs as sequences of instructions. `Firmware` – the machine they run on: traps,
  the handler of `vectors.S`, hardware loops, CSR accesses, `_exit`. Instructions whose data no branch,
  loop or trap depends on are `plain`.

### Register file

* `Hamming` – the code, as in `register_file_encoder` and `register_file_decoder`. `RegisterFileFt` – the
  file with encoders at the write ports, decoders at the read ports and upsets of stored bits.
* `RegisterFile` – what the readers are promised: the word last written, port B before port A, or, after two upsets
  of a register, any value. Which word that is, is a history variable of the write ports (`newest`).

### Proofs

`FifoProofs`, `PrefetchProofs`, `IfStageProofs`, `LoadStoreProofs`, `ExecuteProofs`, `CoreProofs`,
`RegisterFileFtProofs`, `InterruptTestProofs`: each extends the module of its specification; section 5.

## 3. Runs

| Run | Instance | Shows |
|---|---|---|
| `fifo` | depth 4, two words | `PointersAgree`, refinement of `BoundedQueue` |
| `prefetch` | depth 2 (the core's), 4 words of program, loops on | nothing overflows, flush counts are exact, HWLP_END is requested before the jump, OBI stability, `FetchStream` is implemented |
| `prefetch_live` | the same, with fairness | fetching never stops |
| `loadstore` | two words of memory, two registers, eight accesses of every alignment class | counts exact, request stable, accesses finish, `AtomicMemory` is implemented |
| `ifstage` | two words (four half words), two programs | voters accuse only the replica hit, `InstructionStream` is implemented under upsets |
| `execute` | one register and x0, 16 instructions, FPU of 1, 2 and more cycles | every operand is the newest value, nothing leaves twice or waits for ever |
| `core` | nested loops and a program with every system instruction, handlers, debug ROM, trigger | `SequentialMachine` is implemented, loop jumps announced in time, sleep and wake-up |
| `core_csr_loop` | a loop ending in a CSR access | violation: the loop never counts down (finding below) |
| `core_trigger` | a load, then a write to `tdata1`, and debug requests | violation: the write takes effect after debug entry (finding below) |
| `interrupt_test` | three random words, random masks over five lines | no test fails, no request is lost or served twice, main returns |
| `firmware` | two test patterns, loop counts cut to 5 | all programs return with interrupts off |
| `registers` | two registers, three data words, two upset bits | single upsets corrected, double ones reported, `RegisterFile` is implemented |

**Finding** (`core_csr_loop`). `corev_hw_loop.rst:31-32` says the counter "is decremented every time the last
instruction of the loop body is executed", and nothing in its list of constraints excludes CSR instructions. When the last
instruction accesses a status CSR the controller jumps and asks for the decrement in `FLUSH_WB`
(`controller.sv:1069-1081`), but `hwlp_valid` (`id_stage.sv:1377`) needs `instr_valid_i`, which was cleared when the
instruction left ID: the loop never ends.

**Finding** (`core_trigger`). `debug.rst:115` says that outside debug mode "writes to Trigger registers are ignored"
(`control_status_registers.rst:763` likewise). `tmatch_control_we` (`cs_registers.sv:1262`) looks at the mode in the cycle of
the write, and debug entry does not wait for EX (`controller.sv:1207-1240`): a write of the program that waits in EX behind a
load is done once debug mode is on. The stalls of `Core` are more than those of the RTL; the property counts only
a write that an access in WB holds.

Met on the way, without a run: `hwlp.h:34` takes the distance to the end as `4*n_instructions`, while the core takes
END to be the address behind the last instruction (`corev_hw_loop.rst:30-31`); the inner loops of HWLP_TEST4 and 6 so have two
instructions, fewer than the three the documentation requires, and the results the unused `HWLP_TEST_INTERRUPT` macros
expect assume another body. `fails` in `src/sbst/main.c:10` is used uninitialised. `_sbrk` (`syscalls.c:264-265`) adds its increment twice.

### Bounds, and why they suffice

* FIFO depth 2 is the depth of the core; the standalone FIFO has depth 4 so that pointers wrap with all
  fill levels. Word contents matter only by identity: two data values and addresses as words.
* Four program words: a loop, its end, the word behind it and a branch target are different, and
  with two outstanding transactions every in-flight combination occurs. Larger address spaces add
  nothing since addresses are only incremented and compared; the proofs hold for all of them.
* Aligner: the program wraps after four half words. `{0, 2, 3}` and `{0, 3}` meet every state of the FSM
  with both widths, also across words. A replica is hit once between branches (`REPEATED = FALSE`) because
  one hit already reaches any value of one register; the proof covers repeated hits.
* Load/store: two words so that a misaligned access touches both; bytes are all different and
  of both signs, so that a wrong lane or extension shows. Eight accesses cover word, half word and
  byte, inside and across a word, with and without post-increment, for loads and stores.
* Register file: data words are all zeros, all ones and one that mixes both; every pair of the 38 bits is upset.
* Execution: dependencies are between a register and itself, and the only other one that matters is x0, which is
  never written; `r1` meets every pair of producer and consumer at every distance, since programs are any sequence.
* Core: outer loop of 3 rounds around an inner of 2, so that the inner counter is used up, set again and left at 0;
  one word per instruction. `stepie` is FALSE and `ebreakm` TRUE; interrupts and debug requests may come in any cycle.
* Interrupt test: `RandomBits` takes one line that does not exist and one of each part of the priority order;
  test 2 uses all nineteen. Three random words (`MaxWords`) show one word behind another, and behind a handler of the former.
  At most one clock in any number completes a statement, so that every delay between statements occurs.
* Firmware: `PatternBound = 2` repetitions of the pattern loops, in place of 32, show the second round starting from what the
  first left. `LoopBound = 5` cuts the counts (up to 1024); loops compare counts with 0 and 1 only.
* There are no unbounded counters. `seq` alternates between 0 and 1 to make two equal outputs two steps.

### Fairness

`prefetch_live`, `loadstore`, `execute`, `interrupt_test` and `firmware` use it. The clock ticks for ever, so that a cycle happens; the
memories are required not to withhold a grant or a response for ever, which OBI demands of them, and
the other stages not to stall for ever. Nothing else is assumed: branches, jumps and the issue of
accesses are free choices. Weak fairness is enough because the wished cycle stays enabled until it happens.
In `execute` the same is assumed of grant, response, the FPU and the divider, and that not every cycle flushes ID. In
`interrupt_test` and `firmware` the processor goes on: the program or its handler eventually completes the statement it is at.
The generator owes nothing: it may never raise a random word.

## 4. Properties

Each module has one type invariant. The others:

* `ImplementsQueue` – the FIFO is a bounded queue, through push, pop, flush and flush-but-first
  in any combination. `PointersAgree` – write pointer = read pointer + count.
* `OutstandingCounted` – the controller's count is what memory and OBI interface still owe: the clock gate
  (`busy_o`) and all flushing rely on it. `RoomForResponses` – words kept, plus responses that will be kept,
  fit the FIFO, although requests go out with a full FIFO on a jump.
* `FlushesBounded` – only outstanding responses are scheduled for flushing, also with a delayed flush.
  `HwlpEndRequested` – when a loop jump can be signalled the loop's last word was requested.
* `RequestStable` – OBI: a waiting request is neither retracted nor changed. On the data side
  the bus is driven unregistered from EX; documented in `docs/source/load_store_unit.rst`.
* `KeepsFetching`, `AccessesFinish` – no leaked count, no circular wait between EX and WB.
* `ImplementsStream` (prefetch buffer) – every word accepted is the next one of the path that the fetch stage's own branches
  and loop jumps describe: right target, also when it is saved (`BRANCH_WAIT`), none lost, repeated or left over.
  `ImplementsStream` (IF stage) – instructions and PCs likewise, with one replica corrupted.
* `AccusesOnlyUpset` – the replicas of the aligner have no resynchronisation, and a second upset is
  only masked when the first has disappeared: every branch makes it disappear. Between branches a
  replica may stay wrong for ever, so the property is as strong as the code.
* `PipelineCounted` – `cnt_q` is exact, a load in WB always has a response to come, and a second
  outstanding transaction is always that of the access EX still holds.
* `ImplementsMemory` – loads and stores are atomic, in order, exactly once, whatever the alignment.
* `OperandsCurrent`, `JumpTargetCurrent` – no instruction leaves ID with a stale operand, whichever of register file, EX,
  WB or memorised FPU result it comes from. `AccessLeavesOnce` – `ex_valid` and `ex_ready` depend on different conditions;
  an access must not be handed over twice or dropped. `FeedbackIsOwn` – the ALU write port is also the feedback path of
  split accesses and MULH; an FPU result may not take it then. `InstructionsIssue` – the stalls are not circular.
* `ImplementsMachine` – whatever stalls, flushes, interrupts, debug requests, single steps and loop jumps coincide, no
  instruction is skipped or repeated, loops run their count, and the saved PCs are the next to execute.
  `LoopJumpWellTimed` – the aligner takes the loop's target one hand-over after `hwlp_jump_o`; it is announced exactly
  then. `AsleepOnlyWhenIdle` – the clock stops with nothing outstanding. `WakesAtOnce` – no wake-up is lost, also of a line that
  falls again at once.
* `NeverFails` – no assertion of the interrupt test fails: lines are served one at a time in the order of priority and
  exactly the masked ones are left. `ServedOnce` – an acknowledged request has left generator and controller before the handler
  returns; in random mode a word is served once. `Returns` – main does not wait for a request that was served before it looked.
* `InterruptsOff` – hundreds of traps, returns and writes of `mstatus` never set MIE. `Completes` – every program
  reaches `_exit`, reporting success (but `sbst`, whose report depends on an uninitialised variable).
* `FaultReported`, `ImplementsRegisters` – the register file corrects one upset per register, reports two.

## 5. Proofs

Checked by TLAPS, without assumptions other than the `ASSUME`s of the modules: a power-of-two FIFO depth,
non-empty address spaces, a program whose jumps, loops and handlers lie in memory (`ControllerAssumption`),
well-typed constant sets. A theorem that needs more states it as a hypothesis.

* `FifoProofs` – `TypeOK` for every depth; `PointersAgree` and `ImplementsQueue` if `DEPTH = POINTERS`, that is for powers
  of two. `cv32e40p_prefetch_buffer.sv:59` states the restriction and the core keeps it (depth 2), although the
  comment at `cv32e40p_fifo.sv:18` allows any depth: with depth 3 flush-but-first sets the write pointer to 3, one past the
  memory, a word is lost, and TLC refutes `ImplementsQueue`. The invariant is restated as a
  wrap (`WriteAhead`), which the solver can carry through a cycle; `WrapIsModulus` turns it into the remainder.
  For the refinement the contents are the values of the slots `Slot(k)` from the read pointer on: `PushAppends`,
  `TransferStep`, `FlushStep` and `FlushButFirstStep` show that a cycle changes them as the queue changes
  when asked for the same.
* `PrefetchProofs` – `TypeOK`, `OutstandingCounted`, `RoomForResponses`, `FlushesBounded`,
  `HwlpEndRequested`, `RequestStable`, for every depth, address space and both settings of `PULP_OBI` and
  `COREV_PULP`. None is inductive by itself: room for responses depends on the exact outstanding and
  flush counts, these on the type of every counter and on where a loop jump can be pending. `IInv`
  joins them; lemmas say what one cycle does to the controller's counts, the memory's and the FIFO's, and
  `CountersStep` combines them by the kind of cycle.
  `ImplementsStream` needs what the words are. `FlyingStep` and `HeldStep` say how a cycle moves the requests in flight and
  the words in the FIFO, `BranchStep`, `JumpStep` and `PlainStep` how the words ahead move (`WordsFrom`: those in
  the FIFO, then those in flight that no flush count covers). `Path`: each word ahead follows the one before it, except the
  target of a loop jump, which follows HWLP_END; in `BRANCH_WAIT` no other word is ahead. `OnPath` ties this to the history:
  the first word ahead, or the address requested next when there is none, is `next`, and the one behind it `after`.
* `LoadStoreProofs` – `TypeOK`, `PipelineCounted`, `RequestStable` for every memory and access set. Lemma
  `CountedStep` contains the argument for the lock step: with one transaction outstanding EX can
  leave only while a response comes, hence a second one keeps its access in EX.
  `ImplementsMemory` needs to know what the transactions of the access in EX have done. `Transfers`: the bytes of a store whose
  transaction is granted are in memory, the words a load has read are in front of its response or in `rdata_q`. `Places` and
  `Distance` say where the bytes of an access lie when it crosses a word or the end of memory, `StoreWrites` that the byte
  enables of the two transactions cover exactly those bytes, `Assembles` that the load port puts the two words together
  again. The program's memory then changes only when a store enters EX (`MemoryOfStep`).
* `IfStageProofs` – `TypeOK` and `AccusesOnlyUpset` for every program and address space and for repeated
  hits. The strengthening: replicas outside `upset` agree on every register, except
  the saved loop target, which may differ while no jump is pending. `AgreeStep` shows that this is a
  bisimulation, `BranchAgrees` that a branch leads any two states into it, `VoterMasks` that voting
  needs no more.
  `ImplementsStream` adds `InStep`: the aligner's registers hold the half words the prefetch buffer has handed over and ID has not
  taken, in every replica that is healthy. `OnPath`: the voted PC is `path`. `CycleIsStream` shows that a healthy stage hands over the program's instructions,
  `UpsetIsHidden` that the voted outputs are those of the healthy replicas.

* `ExecuteProofs` – `TypeOK`, `OperandsCurrent`, `JumpTargetCurrent`, `AccessLeavesOnce` and `FeedbackIsOwn`, for every set of
  registers and instructions. The strengthening `IInv` has two parts. *Structure*: which results can be on their way
  together (one in EX, one load in WB, one in flight in the FPU, one memorised) and which port each will use. *Currency*:
  a register that the register file does not hold in its newest value has that value in exactly one of these places, and
  what is in them is their instruction's own. `OperandsCurrent` then follows because the stalls cover every place from
  which ID cannot forward. The second slot of the dispatcher (`addr_waiting`) turns out never to be used in this core.
  An FPU result of two cycles that meets a load at the write port is lost there and asked for once more by EX, so the
  invariant cannot say that a result in flight belongs to an instruction that has left EX; it names the repetition.
* `CoreProofs` – `AsleepOnlyWhenIdle` and `WakesAtOnce` for every program. `Drained`: EX is empty from `FLUSH_WB` on and
  the core is in `RESET` only until fetching is enabled; `Transitions` lists what the states have in common and
  which of them lead to the sleep states; only those two let the controller report idle. `SleepStep` splits by whether
  the clock runs: while it stands, nothing changes but the busy flag, so the sleep unit's stale flag stays true to the state.
  `TypeOK` is proved for a program memory in which every address has a successor (the core's memory wraps at 2^32; the program of
  the run ends, and TLC shows that it is not left). `OutputType` says that every state of the FSM gives well-typed
  outputs and never counts down a loop whose counter is 0; `ClockedType` that the registers follow.

  `LoopJumpWellTimed` is proved for every program that keeps the documented constraints on hardware loops
  (`LoopsAdmissible`, from `corev_hw_loop.rst:52-80`; TLC confirms them of the programs in `MCCore`) and whose execution
  stays in its memory (`[]TypeOK`: TLC shows it of those programs, `TypeCorrect` of an endless memory, which
  `LoopJumpsInEndlessMemory` puts together). It is not inductive: whether the jump is announced in time depends
  on where IF is in every state the core can enter a body from. `LoopInv` says so: in `DECODE` IF is behind the
  instruction in ID or at its target (`FetchInDecode`); in `DECODE_HWLOOP` it is at most one instruction ahead, at the
  start of a loop that ends in ID, and holds the target of a loop that ends with the next instruction exactly once that was
  announced (`FetchInLoop`); everywhere else no target is pending and ID is empty, except on the way into debug mode
  (`TargetPending`, `IdEmpty`), and no branch is awaited (`BranchInEx`). `LoopsSetUp` ties the loop registers to the set-up
  instructions of the program, so that `LoopGeometry` can turn the constraints into facts on the registers: bodies apart or
  properly nested, no jump in them, no loop set up within its own last instructions (`SetUpAhead`). One lemma per control state follows;
  the states in which IF is halted share `HeldLoopInv`. The constraints left out were not needed: that a body is entered at its
  start only, and that it holds no `fence`.

  `CoreImplementsMachine` is the refinement: under the mapping in `Core` (`NextPc`, and for each CSR what EX has as good as
  written) every cycle is one step of `SequentialMachine` or none. The program has to satisfy `LoopsAdmissible` and
  `CsrNotLast` (no loop ends with a CSR access that flushes, the finding `core_csr_loop`), its execution to stay in its memory, and
  no write of it to `tdata1` to be in EX when debug mode is entered (`NoTriggerWrite`, the finding `core_trigger`; only
  `DbgTakenMachine` uses it). Both hold of the program of the run: TLC checks the first two, and only its debugger writes
  `tdata1`, whose `dret` waits for EX. `ImplementsMachineInEndlessMemory` has assumptions on the program alone.
  What `LoopInv` says of IF is half of what is needed; `MachineInv` says why the controller is where it is. A flag
  set in one state is used two or three later, when ID has been emptied: `IllegalKept` (`illegal_insn_q` still belongs to the
  instruction in ID), `Flushing` and `Returning` (which instructions flush, and that IF is right behind those without
  effect on the PC), `EnteringDebug` (the reason for which debug mode is entered is still there, so that `DBG_FLUSH` chooses the
  PC of ID or IF rightly), `Stepping` (after a step nothing is decoded), `Awake`. `CsrWrites` and `ExEmpty` are about the
  writes on their way through EX: a trap never saves over one, and ID reads none too early. Again one lemma per control
  state (`IdleMachine` to `DecodeHwloopMachine`); `IssuedMachine` is the one in which an instruction takes effect, `Waits` that in
  which none does, `LeavesForTrap`, `TakesInterrupt` and `RequestsDebug` are shared by the decoding states.
* `RegisterFileFtProofs` – `TypeOK`, `FaultReported` (up to two upsets) and `ImplementsRegisters`, for every set of registers
  and of words. `IInv`: a stored word is the code of `newest` with the hit bits turned over. A code passes its parity
  checks (`EncodePasses`), and turning a bit over turns the checks of its groups over (`FailingFlip`); so the syndrome of
  a stored word depends on the hits only. One hit gives the number of its position, which is what the decoder turns back;
  two give a syndrome other than 0 because the positions differ. With three the code is blind, hence the hypothesis.

* `InterruptTestProofs` – `TypeOK`, `NeverFails` and `ServedOnce` for every set of random masks and words (`Words` names
  lines that exist: `GeneratorAssumption`) and every timing. `Serves` is the loop invariant of tests 2 and 3: the pending word
  is what `Remaining` leaves of the raised lines when the loop has come to `i`, and the generator's register follows it.
  `Pipeline` says that what is between that register and the core is the register's word or nothing, except while the
  statements of the handler between its write and `mret` give each stage its clock. So the line taken is the first that
  remains (`TakesExpected`, which rests on `EncoderPicks`: the encoder looks at the lines in the order of `IRQ_ID_PRIORITY`).
  `RandomPhase`: in test 5 every word drawn is served but for the one on the lines, and the generator has seen the standard mode
  when the handler returns. That the inner loop computes `res_expected` is no theorem but a closed formula,
  `ProductsExpected`, which TLC evaluates in the run.

Only model-checked: `KeepsFetching`, `AccessesFinish`, `InstructionsIssue`, `Returns` and `Completes`, since liveness under fairness is out of
the prover's reach; `Firmware`, whose program is fixed, so that TLC visits all its states.

## 6. Not modelled

*Front end.* `instr_valid_id_o` and the fields of IF/ID other than instruction and PC in `IfStage`; `req_i` there (the fetch
stage always requests: the controller halts IF whenever it lowers `instr_req_o`). The expansion of compressed instructions.

*Data.* `data_atop`, `data_load_event` (`cv.elw`) and PMP errors, which the core ties off; FPU = 1 in
`LoadStoreUnit` (it is in `ExecuteStage`).

*Execution.* Arithmetic: ALU, the iterations of the divider, the partial products of the multiplier, bit counters. They are functions of
32-bit data, without control beyond the FSMs modelled; equivalence checking is the better tool. FPU flags.

*Core.* The states for `cv.elw`, `uret`, cause codes, 16-bit instructions (the end of a loop is counted in words), counters.
The fetch stage of `Core` is abstract; it is not composed with `PrefetchBuffer`.

*Fault tolerance.* The upset model covers flip-flops of one replica, not the voters or the inputs shared by the replicas.
The other wrappers (`*_ft.sv`) repeat the construction of `aligner_ft` on units with other state. Faults reported by the
voters go nowhere (`core.sv:109-113`).

*Programs.* Interrupt test: PC_TRIG (its test is commented out), `RANDOM_MEM_STALL` (any stall is allowed), variables of test 3
nothing reads afterwards are cleared, the wait of 100 to 200 cycles is any wait of at least one, sums stay below 2^32.
A statement is taken to last a clock or more, and so is loading the saved registers at the end of a handler.
Firmware: data; FPU = 0, no PMP, no user mode, COREV_PULP = 1, DEBUG_TRIGGER_EN = 1; `lp.*` is taken to assemble to the core's own
loop instructions; loop variables of main are taken to survive the trap handler, which saves no register
(`vectors.S:101-137`). Left out of the self-test: ALU, multiplier and vector patterns (`main.c:43-1355`); loops of one or of compressed
instructions (2269-2381), which the documentation leaves undefined; the sweep over all registers (2383-2571), which overwrites `sp`;
an array read with an index from another array (2614).
The handler returns four bytes behind a trap (`vectors.S:135`). All instructions that trap in these programs have four bytes:
`ecall`, illegal CSR accesses, and `ebreak`, as the hardware loop test is built without compressed instructions
(`example_tb/core/Makefile:290`). `Completes` so says nothing of a compressed instruction that traps.

Reset is the initial state only. Scan, clock gating of the register file, performance counters, simulation-only code: not modelled.

## 7. What could follow

1. `Core` over `PrefetchBuffer` and `IfStage` in place of its abstract fetch stage.
2. Triplicated FSMs (`controller_ft`, `mult_ft`, `alu_ft`): which of them come back into line after an upset.
