-------------------------------- MODULE Core --------------------------------
(***************************************************************************)
(* The core around the controller: IF and ID pipeline registers, EX, the   *)
(* CSRs a trap changes, the hardware loops and the sleep unit.  A step is  *)
(* a cycle of the free running clock; the other units move only while the  *)
(* sleep unit lets their clock through.                                    *)
(* The prefetch buffer is what IfStage shows it to be: the instructions in *)
(* the order of the control flow, after a delay.  So is the load/store     *)
(* unit, whose access stays in WB until its response.                      *)
(***************************************************************************)
EXTENDS Controller, SleepUnit

CONSTANTS
  irq_level,   \* levels the interrupt line takes
  debug_line   \* levels the debug request takes

ASSUME LevelsAssumption == irq_level \subseteq BOOLEAN /\ debug_line \subseteq BOOLEAN

VARIABLES
  boot,           \* boot_addr_i
  outstanding,    \* the prefetch buffer awaits a response of the memory
  executed,       \* the instruction that took effect last
  stepped         \* an instruction was stepped over and debug mode is due

pipelineVars == <<pc_if, loop_target, pc_id, instr_valid_id, ex, wb, outstanding>>
csrVars == <<irq_q, mie, mpie, mepc, dpc, step, tmatch_control_exec_q>>
ghostVars == <<executed, stepped>>

vars == <<controllerVars, debug_req_q, irq_i, pipelineVars, csrVars, hwlpVars,
          sleepVars, ghostVars, boot>>

NoInsn == [pc |-> None, taken |-> FALSE, value |-> 0]

Init ==
  /\ ControllerInit /\ HwloopInit /\ SleepInit
  /\ irq_i \in irq_level /\ irq_q = FALSE
  /\ mie = FALSE /\ mpie = FALSE /\ mepc = 0 /\ dpc = 0 /\ step = FALSE
  /\ tmatch_control_exec_q = FALSE
  /\ pc_if = 0 /\ loop_target = None /\ outstanding = FALSE
  /\ pc_id = 0 /\ instr_valid_id = FALSE /\ ex = NoInsn /\ wb = FALSE
  /\ boot \in boot_addr
  /\ executed = None /\ stepped = FALSE

-----------------------------------------------------------------------------
\* IF and ID

clear_instr_valid(i, c) == id_ready(i) \/ c.halt_id \/ branch_taken_ex

\* The instruction in ID goes on to EX.
issue(i, c) == c.is_decoding /\ ~c.halt_id /\ id_ready(i)

if_valid(i, c) == i.fetch_valid /\ id_ready(i) /\ ~c.halt_if /\ c.pc_set = None

\* The prefetch buffer is always fetching, unless it fills up while IF is halted.
FetchCycle(i, c) ==
  LET target == IF hwlp_jump(c) THEN c.hwlp_targ ELSE loop_target
  IN  /\ pc_if' = IF c.pc_set # None THEN c.pc_set
                  ELSE IF ~if_valid(i, c) THEN pc_if
                  ELSE IF target # None THEN target ELSE pc_if + 1
      /\ loop_target' = IF c.pc_set # None \/ if_valid(i, c) THEN None ELSE target
      /\ pc_id' = IF if_valid(i, c) THEN pc_if ELSE pc_id
      /\ instr_valid_id' = (if_valid(i, c) \/ (instr_valid_id /\ ~clear_instr_valid(i, c)))
      /\ outstanding' \in IF ~c.instr_req THEN {FALSE, outstanding}
                         ELSE IF c.halt_if THEN BOOLEAN ELSE {TRUE}

\* EX and WB; an instruction without effect passes EX as a bubble.  What it
\* needs is known in ID: the outcome of a branch, what it writes to a CSR.
ExecuteCycle(i, c) ==
  /\ ex' = IF issue(i, c) /\ ~illegal_insn
             THEN [pc |-> pc_id, taken |-> i.taken,
                   value |-> IF insn = "skip" THEN mepc + 1 ELSE 0]
           ELSE IF ex_ready(i) THEN NoInsn ELSE ex
  /\ wb' = IF i.ready THEN ex.pc # None /\ Op(ex.pc) = "mem" ELSE wb

lsu_busy == wb \/ (ex.pc # None /\ Op(ex.pc) = "mem")
\* FPU = 0: there is no dispatcher.
apu_busy == FALSE

\* The write enables of ID hold unless it does not decode, halted or not.
LoopCycle(i, c) ==
  HwloopCycle(c.is_decoding /\ id_ready(i) /\ insn = "setup", Program[pc_id],
              c.hwlp_dec_cnt, instr_valid_id /\ clear_instr_valid(i, c))

\* CSRs: the instruction in EX writes one, a trap has priority.
Writes(csr) == ex.pc # None /\ Op(ex.pc) = csr

CsrCycle(c) ==
  LET trap == c.save # None /\ c.to = "machine"
  IN  /\ irq_q' = irq_i
      /\ mie' = IF trap THEN FALSE ELSE IF c.mret THEN mpie ELSE mie \/ Writes("mie")
      /\ mpie' = IF trap THEN mie ELSE mpie \/ c.mret
      /\ mepc' = IF trap THEN c.save ELSE IF Writes("skip") THEN ex.value ELSE mepc
      /\ dpc' = IF c.save # None /\ c.to = "debug" THEN c.save ELSE dpc
      /\ step' = IF Writes("dcsr") THEN ex.taken ELSE step
      /\ tmatch_control_exec_q' = IF Writes("tdata1") /\ debug_mode_q THEN ex.taken
                                  ELSE tmatch_control_exec_q

-----------------------------------------------------------------------------
\* What happens to the machine in this cycle.
Executes(i, c) ==
  \/ issue(i, c) /\ ~illegal_insn /\ insn \notin {"ecall", "ebreak", "mret", "dret"}
  \/ c.mret
  \/ debug_mode_q /\ ~c.debug_mode

Traps(c) == c.save # None /\ ctrl_fsm_cs = "FLUSH_EX"

Observe(i, c) ==
  /\ executed' = IF Executes(i, c) THEN pc_id ELSE executed
  /\ stepped' = \/ step /\ ~debug_mode_q /\ (Executes(i, c) \/ Traps(c))
                \/ stepped /\ ctrl_fsm_cs \notin {"DBG_TAKEN_ID", "DBG_TAKEN_IF"}

ClockedVars == <<controllerVars, pipelineVars, csrVars, hwlpVars, ghostVars>>

Clocked(i, c) ==
  /\ ControllerCycle(i, c) /\ FetchCycle(i, c) /\ ExecuteCycle(i, c)
  /\ LoopCycle(i, c) /\ CsrCycle(c) /\ Observe(i, c)

Cycle(i) ==
  LET c == Controls(i, fetch_enable_q, boot)
  IN  /\ IF clock_en(wake_from_sleep(i)) THEN Clocked(i, c) ELSE UNCHANGED ClockedVars
      /\ SleepCycle(i.fetch_enable, outstanding, c.busy, lsu_busy, apu_busy)
      /\ DebugRequestCycle(i)
      /\ irq_i' \in irq_level
      /\ UNCHANGED boot

\* EX and WB are ready unless they hold something, and only then is there a
\* hazard; in the other states IF is halted or there is nothing yet.
Inputs ==
  LET busy == ex.pc # None \/ wb
  IN  [ready : IF busy THEN BOOLEAN ELSE {TRUE},
       hazard : IF busy THEN BOOLEAN ELSE {FALSE},
       fetch_valid : IF ctrl_fsm_cs \in {"DECODE", "DECODE_HWLOOP", "FIRST_FETCH"}
                       THEN BOOLEAN ELSE {FALSE},
       taken : IF insn \in {"branch", "dcsr", "tdata1"} THEN BOOLEAN ELSE {FALSE},
       debug_req : debug_line,
       fetch_enable : {TRUE, fetch_enable_q}]

Next == \E i \in Inputs : Cycle(i)

Spec == Init /\ [][Next]_vars

-----------------------------------------------------------------------------
Value == Addr \cup {None}

TypeOK ==
  /\ ctrl_fsm_cs \in States
  /\ {jump_done_q, debug_mode_q, illegal_insn_q, debug_req_entry_q,
      debug_force_wakeup_q, debug_req_q, hwlp_end_4_id_q, irq_i, irq_q, mie, mpie,
      step, tmatch_control_exec_q, instr_valid_id, wb, outstanding, fetch_enable_q, core_busy_q,
      stepped} \subseteq BOOLEAN
  /\ {pc_if, pc_id, mepc, dpc, boot} \subseteq Addr
  /\ {loop_target, executed} \subseteq Value
  /\ ex \in [pc : Value, taken : BOOLEAN, value : Addr]
  /\ hwlp_counter \in [Loop -> Nat]
  /\ hwlp_start \in [Loop -> Addr] /\ hwlp_end \in [Loop -> Addr]

\* The programs hardware loops are specified for (docs/source/corev_hw_loop.rst:52-80):
\* a body has three instructions at least, none of them goes elsewhere or sets up the
\* same loop, and two bodies are apart, or loop 0 ends two instructions before loop 1.
Setups == {a \in Addr : Op(a) = "setup"}

LoopsAdmissible ==
  \A a \in Setups :
    LET n == Program[a] IN
    /\ COREV_PULP
    /\ n.start + 3 <= n.end
    /\ \A b \in Addr : n.start <= b /\ b < n.end =>
         Op(b) \notin {"jump", "branch", "wfi", "fencei", "mret", "dret"}
    /\ \A b \in Setups :
         LET m == Program[b] IN
         /\ m.loop = n.loop => ~(n.start <= b /\ b < n.end)
         /\ n.loop = 0 /\ m.loop = 1 =>
              \/ n.end <= m.start \/ m.end <= n.start
              \/ m.start <= n.start /\ n.end + 2 <= m.end

\* Besides, the loop does not end with an access to a CSR that flushes the pipeline:
\* the core would not count it (LastInstructionCounts).
CsrNotLast ==
  \A a \in Setups, b \in Addr :
    Program[a].end = b + 1 => Op(b) \notin {"csr", "mie", "skip", "dcsr"}

\* The machine of the programmer's view: the instruction it executes next.
NextPc ==
  LET traps == illegal_insn_q \/ insn \in {"ecall", "ebreak"}
      xret  == insn \in {"mret", "dret"}
      stays == \/ debug_mode_q \/ trigger_match \/ debug_req_entry_q
               \/ insn = "ebreak" /\ ebrk_force_debug_mode
  IN  IF ctrl_fsm_cs \in {"RESET", "BOOT_SET"} THEN boot
      ELSE IF branch_taken_ex THEN Program[ex.pc].target
      ELSE IF instr_valid_id THEN pc_id
      ELSE CASE ctrl_fsm_cs = "FLUSH_EX" /\ (traps \/ xret) -> pc_id
             [] ctrl_fsm_cs = "FLUSH_WB" /\ traps -> handler
             [] ctrl_fsm_cs = "FLUSH_WB" /\ ~traps /\ xret -> pc_id
             [] ctrl_fsm_cs = "XRET_JUMP" ->
                  IF insn = "mret" /\ ~debug_mode_q THEN mepc ELSE pc_id
             [] ctrl_fsm_cs \in {"DBG_FLUSH", "DBG_TAKEN_ID"} /\ stays -> pc_id
             [] OTHER -> pc_if

\* What it sees of the CSRs: the instruction in EX has as good as written one.
Mie == mie \/ Writes("mie")
Mepc == IF Writes("skip") THEN ex.value ELSE mepc
Step == IF Writes("dcsr") THEN ex.taken ELSE step
Trigger == IF Writes("tdata1") /\ debug_mode_q THEN ex.taken ELSE tmatch_control_exec_q

Machine == INSTANCE SequentialMachine WITH
  pc <- NextPc, mie <- Mie, mepc <- Mepc, step <- Step, trigger <- Trigger,
  debug <- debug_mode_q, start <- hwlp_start, end <- hwlp_end, count <- hwlp_counter,
  irq <- irq_q, haltreq <- debug_req_q

\* Stalls, flushes, interrupts, debug requests and loop jumps, in whatever
\* cycle they fall, never make the core skip or repeat an instruction, count a
\* loop wrongly or save a wrong return address (cv32e40p_controller.sv).
ImplementsMachine == Machine!Spec

\* The controller tells the aligner of a loop jump exactly when the last
\* instruction of the body is the next one to enter ID and no other jump of a
\* loop is under way (cv32e40p_aligner.sv takes the target after one hand-over).
LoopJumpWellTimed ==
  ctrl_fsm_cs = "DECODE_HWLOOP" =>
    \A i \in Inputs :
      hwlp_jump(DecodeHwloop(i)) => pc_if = pc_id + 1 /\ loop_target = None

\* The clock stops only in WFI, with nothing fetched or loaded on its way: a
\* response that arrived then would be lost (cv32e40p_sleep_unit.sv).
AsleepOnlyWhenIdle ==
  fetch_enable_q /\ ~core_busy_q /\ ctrl_fsm_cs # "RESET" =>
    /\ ctrl_fsm_cs = "SLEEP"
    /\ ~outstanding /\ ~wb /\ ex.pc = None

\* An interrupt line or a debug request that is there while the core sleeps
\* wakes it in that cycle, also when the line falls again at once.
WakesAtOnce ==
  [][ctrl_fsm_cs = "SLEEP" /\ (irq_i \/ debug_req_q) => ctrl_fsm_cs' # "SLEEP"]_vars

\* Outside debug mode nothing changes the trigger: what a program writes to tdata1 is
\* ignored (docs/source/debug.rst:115), here a write that an access in WB holds in EX
\* (cv32e40p_cs_registers.sv:1262).
TriggerWritesIgnored == [][~debug_mode_q /\ wb' => Trigger' = Trigger]_vars

\* A loop counts down every time the last instruction of its body, a CSR
\* access here, was executed and the loop goes round (FLUSH_WB).
LastInstructionCounts ==
  [][ctrl_fsm_cs = "FLUSH_WB" /\ csr_status =>
       \A k \in Loop :
         hwlp_end_eq_pc(k) /\ hwlp_counter[k] > 1 => hwlp_counter'[k] = hwlp_counter[k] - 1]_vars
=============================================================================
