----------------------------- MODULE Controller -----------------------------
(***************************************************************************)
(* cv32e40p_controller: the FSM that decides in every cycle whether the    *)
(* instruction in ID is decoded, where fetching goes on, which address a   *)
(* trap saves and when a hardware loop jumps.  An instruction is one word, *)
(* an address counts words.  Controls(i) are the outputs and next states   *)
(* of the cycle; its inputs come from the pipeline (Core):                 *)
(*   ready     EX and WB end what they do                                  *)
(*   hazard    the instruction in ID has to wait (load, jump register)     *)
(*   debug_req debug request                                               *)
(* PULP_SECURE = 0, COREV_CLUSTER = 0, no PMP.                             *)
(***************************************************************************)
EXTENDS HwloopRegs

CONSTANTS
  COREV_PULP, Program, boot_addr, IrqHandler, ExcHandler, DebugHalt, DebugException,
  tdata2, ebreakm, stepie, None

Addr == DOMAIN Program
Op(a) == Program[a].op

\* The program memory has the word at the reset value of the address registers, and
\* jumps, loops and handlers are in it.
ASSUME ControllerAssumption ==
  /\ {COREV_PULP, ebreakm, stepie} \subseteq BOOLEAN
  /\ Addr \subseteq Nat /\ 0 \in Addr /\ None \notin Addr
  /\ boot_addr \cup {IrqHandler, ExcHandler, DebugHalt, DebugException} \subseteq Addr
  /\ \A a \in Addr :
       /\ {Program[a].target, Program[a].start, Program[a].end} \subseteq Addr
       /\ Program[a].loop \in Loop /\ Program[a].count \in Nat

VARIABLES
  ctrl_fsm_cs, jump_done_q, debug_mode_q, illegal_insn_q, debug_req_entry_q,
  debug_force_wakeup_q, debug_req_q, hwlp_end_4_id_q,
  irq_i, irq_q,                          \* interrupt line, registered
  mie, mpie, mepc, dpc, step,            \* CSRs: mstatus, mepc, dpc, dcsr.step
  tmatch_control_exec_q,                 \* tdata1: the trigger is armed
  pc_if,            \* address of the instruction IF hands over next
  loop_target,      \* where IF goes on after it, None for the next address
  pc_id, instr_valid_id,
  ex,               \* instruction in EX: [pc, taken, value], pc = None if none
  wb                \* a load or store waits for its response in WB

controllerVars == <<ctrl_fsm_cs, jump_done_q, debug_mode_q, illegal_insn_q,
                    debug_req_entry_q, debug_force_wakeup_q, hwlp_end_4_id_q>>

States == {"RESET", "BOOT_SET", "WAIT_SLEEP", "SLEEP", "FIRST_FETCH", "DECODE",
           "DECODE_HWLOOP", "FLUSH_EX", "FLUSH_WB", "XRET_JUMP", "DBG_WAIT_BRANCH",
           "DBG_TAKEN_ID", "DBG_TAKEN_IF", "DBG_FLUSH"}

ControllerInit ==
  /\ ctrl_fsm_cs = "RESET"
  /\ jump_done_q = FALSE /\ debug_mode_q = FALSE /\ illegal_insn_q = FALSE
  /\ debug_req_entry_q = FALSE /\ debug_force_wakeup_q = FALSE
  /\ debug_req_q = FALSE /\ hwlp_end_4_id_q = FALSE

-----------------------------------------------------------------------------
\* Signals of other units and of the decoder.

branch_in_ex == ex.pc # None /\ Op(ex.pc) = "branch"
branch_taken_ex == branch_in_ex /\ ex.taken

ex_ready(i) == i.ready \/ branch_in_ex
id_ready(i) == ex_ready(i) /\ ~i.hazard

insn == Op(pc_id)
illegal_insn == insn = "illegal" \/ (insn \in {"dret", "dcsr"} /\ ~debug_mode_q)
csr_status == insn \in {"csr", "mie", "skip", "dcsr"}

\* The interrupt line is locally enabled (mie CSR).
irq_req_ctrl == irq_q /\ mie /\ (step => stepie)

debug_req_pending(i) == i.debug_req \/ debug_req_q
trigger_match == tmatch_control_exec_q /\ pc_id = tdata2
ebrk_force_debug_mode == ebreakm
debug_single_step == step

wfi_active(i) ==
  /\ insn = "wfi"
  /\ ~(debug_mode_q \/ debug_req_pending(i) \/ debug_single_step \/ trigger_match)

\* Mutant: the registered interrupt, which needs the clock, wakes the core.
wake_from_sleep_clocked(i) == irq_q \/ debug_req_pending(i) \/ debug_mode_q

wake_from_sleep(i) == irq_i \/ debug_req_pending(i) \/ debug_mode_q

\* Hardware loops: ID holds the last instruction of k's body, or the one before.
hwlp_end_eq_pc(k) == COREV_PULP /\ hwlp_end[k] = pc_id + 1
hwlp_end_eq_pc_plus4(k) == COREV_PULP /\ hwlp_end[k] = pc_id + 2

InBody(k) == hwlp_start[k] <= pc_id /\ pc_id + 1 <= hwlp_end[k]

is_hwlp_body == COREV_PULP /\ \E k \in Loop : InBody(k) /\ hwlp_counter[k] > 1

hwlp_targ_addr == IF InBody(1) /\ ~InBody(0) THEN hwlp_start[1] ELSE hwlp_start[0]

-----------------------------------------------------------------------------
\* Outputs of a cycle: pc_set is the new PC or None; save the PC a trap to `to'
\* keeps, or None.

Default ==
  [ns |-> ctrl_fsm_cs, pc_set |-> None, instr_req |-> TRUE, busy |-> TRUE,
   halt_if |-> FALSE, halt_id |-> FALSE, is_decoding |-> FALSE,
   jump_done |-> jump_done_q, illegal_insn |-> illegal_insn_q,
   debug_mode |-> debug_mode_q, debug_req_entry |-> debug_req_entry_q,
   debug_force_wakeup |-> debug_force_wakeup_q,
   save |-> None, to |-> "none", mret |-> FALSE,
   hwlp_dec_cnt |-> {}, hwlp_end_4_id |-> FALSE, hwlp_targ |-> hwlp_targ_addr]

Halted == [Default EXCEPT !.halt_if = TRUE, !.halt_id = TRUE]

TakeIrq(pc) ==
  [Halted EXCEPT !.pc_set = IrqHandler, !.save = pc, !.to = "machine"]

DebugRequest ==
  [Halted EXCEPT !.is_decoding = ~COREV_PULP, !.ns = "DBG_FLUSH",
                 !.debug_req_entry = TRUE]

Decoding == [Default EXCEPT !.is_decoding = TRUE]

\* The instruction leaves ID and is awaited before it takes effect.
Flush(i, c) ==
  [c EXCEPT !.halt_if = TRUE,
            !.ns = IF id_ready(i) THEN "FLUSH_EX" ELSE ctrl_fsm_cs]

Ebreak(i, c) ==
  IF debug_mode_q \/ ebrk_force_debug_mode
    THEN [c EXCEPT !.halt_if = TRUE, !.ns = "DBG_FLUSH"]
    ELSE Flush(i, c)

Jump(i, c) ==
  IF ~i.hazard /\ ~jump_done_q
    THEN [c EXCEPT !.pc_set = Program[pc_id].target, !.jump_done = TRUE] ELSE c

\* In DECODE the core may meet the end of a body only after a return or a flush.
LoopInDecode(c) ==
  LET ending(n) == {k \in Loop : hwlp_end_eq_pc(k) /\ (n = 1 <=> hwlp_counter[k] = 1)
                                                   /\ hwlp_counter[k] >= n}
      jumping   == IF is_hwlp_body /\ ~jump_done_q THEN ending(2) ELSE {}
  IN  [c EXCEPT
        !.ns = IF is_hwlp_body /\ \A k \in Loop : ~hwlp_end_eq_pc_plus4(k)
                 THEN "DECODE_HWLOOP" ELSE "DECODE",
        !.pc_set = IF jumping # {} THEN hwlp_targ_addr ELSE None,
        !.jump_done = jump_done_q \/ jumping # {},
        !.hwlp_dec_cnt = jumping \cup ending(1)]

\* Mutant: a loop that has ended is counted down once more.
LoopAhead_counts_ended(c) ==
  LET ahead == {k \in Loop : hwlp_end_eq_pc_plus4(k)}
      jump  == {k \in ahead : hwlp_counter[k] > 1}
      last  == IF 0 \in ahead THEN 0 ELSE 1
  IN  [c EXCEPT
        !.ns = IF ahead = {} \/ last \in jump \/ is_hwlp_body
                 THEN "DECODE_HWLOOP" ELSE "DECODE",
        !.hwlp_end_4_id = jump # {},
        !.hwlp_targ = IF jump = {} THEN @
                      ELSE hwlp_start[IF 0 \in jump THEN 0 ELSE 1],
        !.hwlp_dec_cnt = {k \in Loop : hwlp_end_eq_pc(k)}]

\* In DECODE_HWLOOP the jump is announced one instruction ahead.
LoopAhead(c) ==
  LET ahead == {k \in Loop : hwlp_end_eq_pc_plus4(k)}
      jump  == {k \in ahead : hwlp_counter[k] > 1}
      last  == IF 0 \in ahead THEN 0 ELSE 1  \* loop 0 decides when both end
  IN  [c EXCEPT
        !.ns = IF ahead = {} \/ last \in jump \/ is_hwlp_body
                 THEN "DECODE_HWLOOP" ELSE "DECODE",
        !.hwlp_end_4_id = jump # {},
        !.hwlp_targ = IF jump = {} THEN @
                      ELSE hwlp_start[IF 0 \in jump THEN 0 ELSE 1],
        !.hwlp_dec_cnt = {k \in Loop : hwlp_end_eq_pc(k) /\ hwlp_counter[k] # 0}]

\* dcsr.step: nothing follows the instruction in ID.
SingleStep(i, c) ==
  IF ~debug_single_step \/ debug_mode_q THEN c
  ELSE [c EXCEPT
         !.halt_if = TRUE,
         !.ns = IF ~id_ready(i) THEN @
                ELSE IF illegal_insn \/ insn \in {"ecall", "mret"}
                          \/ (insn = "ebreak" /\ ~ebrk_force_debug_mode)
                  THEN "FLUSH_EX"
                ELSE IF insn = "branch" THEN "DBG_WAIT_BRANCH"
                ELSE "DBG_FLUSH"]

DecodeInsn(i) ==
  LET c == [Decoding EXCEPT !.illegal_insn = FALSE]
  IN  IF illegal_insn THEN Flush(i, [c EXCEPT !.illegal_insn = TRUE])
      ELSE IF insn = "jump" THEN Jump(i, c)
      ELSE IF insn = "ebreak" THEN Ebreak(i, c)
      ELSE IF wfi_active(i) \/ insn \in {"ecall", "fencei", "mret", "dret"} \/ csr_status
        THEN Flush(i, c)
      ELSE LoopInDecode(c)

DecodeInsnInLoop(i) ==
  IF illegal_insn
    THEN [Decoding EXCEPT !.halt_if = TRUE, !.halt_id = TRUE, !.ns = "FLUSH_EX",
                          !.illegal_insn = TRUE]
  ELSE IF insn = "ebreak" THEN Ebreak(i, Decoding)
  ELSE IF insn = "ecall" \/ csr_status THEN Flush(i, Decoding)
  ELSE LoopAhead(Decoding)

Decode(i) ==
  IF branch_taken_ex THEN [Default EXCEPT !.pc_set = Program[ex.pc].target]
  ELSE IF ~instr_valid_id THEN Default
  ELSE IF (debug_req_pending(i) \/ trigger_match) /\ ~debug_mode_q
    THEN [DebugRequest EXCEPT !.illegal_insn = FALSE]
  ELSE IF irq_req_ctrl /\ ~debug_mode_q
    THEN [TakeIrq(pc_id) EXCEPT !.illegal_insn = FALSE]
  ELSE SingleStep(i, DecodeInsn(i))

DecodeHwloop(i) ==
  IF ~COREV_PULP \/ ~instr_valid_id THEN Default
  ELSE IF (debug_req_pending(i) \/ trigger_match) /\ ~debug_mode_q THEN DebugRequest
  ELSE IF irq_req_ctrl /\ ~debug_mode_q THEN [TakeIrq(pc_id) EXCEPT !.ns = "DECODE"]
  ELSE SingleStep(i, DecodeInsnInLoop(i))

-----------------------------------------------------------------------------
\* The other states.

Asleep == [Halted EXCEPT !.instr_req = FALSE]

WakeForDebug(c) == [c EXCEPT !.ns = "DBG_TAKEN_IF", !.debug_force_wakeup = TRUE]

BootSet(i, boot) ==
  LET c == [Default EXCEPT !.pc_set = boot]
  IN  IF debug_req_pending(i) THEN WakeForDebug(c) ELSE [c EXCEPT !.ns = "FIRST_FETCH"]

Sleep(i) ==
  IF ~wake_from_sleep(i) THEN [Asleep EXCEPT !.busy = FALSE]
  ELSE IF debug_req_pending(i) THEN WakeForDebug(Asleep)
  ELSE [Asleep EXCEPT !.ns = "FIRST_FETCH"]

FirstFetch(i) ==
  IF irq_req_ctrl /\ ~(debug_req_pending(i) \/ debug_mode_q)
    THEN [TakeIrq(pc_if) EXCEPT !.ns = "DECODE"]
    ELSE [Default EXCEPT !.ns = "DECODE"]

\* The exception handler, and where it is taken from debug mode.
handler == IF debug_mode_q /\ insn # "ebreak" THEN DebugException ELSE ExcHandler

FlushEx(i) ==
  IF ~i.ready THEN Halted
  ELSE LET c == [Halted EXCEPT !.ns = "FLUSH_WB"]
       IN  IF illegal_insn_q \/ insn = "ecall"
             THEN IF debug_mode_q THEN c
                  ELSE [c EXCEPT !.save = pc_id, !.to = "machine"]
           ELSE IF insn = "ebreak" THEN [c EXCEPT !.save = pc_id, !.to = "machine"]
           ELSE c

FlushWb(i) ==
  LET c      == [Halted EXCEPT !.ns = "DECODE"]
      ending == {k \in Loop : hwlp_end_eq_pc(k) /\ hwlp_counter[k] > 1}
  IN  IF illegal_insn_q \/ insn \in {"ecall", "ebreak"}
        THEN [c EXCEPT !.pc_set = handler,
                       !.illegal_insn = FALSE,
                       !.ns = IF debug_single_step /\ ~debug_mode_q
                                THEN "DBG_TAKEN_IF" ELSE @]
      ELSE IF insn \in {"mret", "dret"}
        THEN [c EXCEPT !.ns = "XRET_JUMP", !.mret = insn = "mret" /\ ~debug_mode_q]
      ELSE IF csr_status /\ ending # {}
        THEN [c EXCEPT !.pc_set = hwlp_targ_addr, !.hwlp_dec_cnt = ending]
      ELSE IF insn = "wfi"
        THEN IF debug_req_pending(i) THEN WakeForDebug(c)
             ELSE [c EXCEPT !.ns = "WAIT_SLEEP"]
      ELSE IF insn = "fencei" THEN [c EXCEPT !.pc_set = pc_id + 1]
      ELSE c

XretJump ==
  [Default EXCEPT
    !.ns = IF debug_single_step /\ ~debug_mode_q THEN "DBG_TAKEN_IF" ELSE "DECODE",
    !.pc_set = IF insn = "dret" THEN dpc
               ELSE IF debug_mode_q THEN DebugException ELSE mepc,
    !.debug_mode = debug_mode_q /\ insn # "dret"]

DbgWaitBranch ==
  [Default EXCEPT !.halt_if = TRUE, !.ns = "DBG_FLUSH",
                  !.pc_set = IF branch_taken_ex THEN Program[ex.pc].target ELSE None]

DbgFlush ==
  [Halted EXCEPT
    !.ns = IF \/ debug_mode_q \/ trigger_match \/ debug_req_entry_q
              \/ (insn = "ebreak" /\ ebrk_force_debug_mode)
             THEN "DBG_TAKEN_ID" ELSE "DBG_TAKEN_IF"]

EnterDebug ==
  [Default EXCEPT !.pc_set = DebugHalt, !.ns = "DECODE", !.debug_mode = TRUE]

DbgTakenId ==
  [EnterDebug EXCEPT !.debug_req_entry = FALSE,
                     !.save = IF debug_mode_q THEN None ELSE pc_id, !.to = "debug"]

\* Mutant: dpc gets the stepped instruction instead of the next one.
DbgTakenIf_saves_id ==
  [EnterDebug EXCEPT !.debug_force_wakeup = FALSE, !.save = pc_id, !.to = "debug"]

DbgTakenIf ==
  [EnterDebug EXCEPT !.debug_force_wakeup = FALSE, !.save = pc_if, !.to = "debug"]

Controls(i, fetch_enable, boot) ==
  CASE ctrl_fsm_cs = "RESET" ->
         [Default EXCEPT !.instr_req = FALSE,
                         !.ns = IF fetch_enable THEN "BOOT_SET" ELSE "RESET"]
    [] ctrl_fsm_cs = "BOOT_SET" -> BootSet(i, boot)
    [] ctrl_fsm_cs = "WAIT_SLEEP" -> [Asleep EXCEPT !.busy = FALSE, !.ns = "SLEEP"]
    [] ctrl_fsm_cs = "SLEEP" -> Sleep(i)
    [] ctrl_fsm_cs = "FIRST_FETCH" -> FirstFetch(i)
    [] ctrl_fsm_cs = "DECODE" -> Decode(i)
    [] ctrl_fsm_cs = "DECODE_HWLOOP" -> DecodeHwloop(i)
    [] ctrl_fsm_cs = "FLUSH_EX" -> FlushEx(i)
    [] ctrl_fsm_cs = "FLUSH_WB" -> FlushWb(i)
    [] ctrl_fsm_cs = "XRET_JUMP" -> XretJump
    [] ctrl_fsm_cs = "DBG_WAIT_BRANCH" -> DbgWaitBranch
    [] ctrl_fsm_cs = "DBG_TAKEN_ID" -> DbgTakenId
    [] ctrl_fsm_cs = "DBG_TAKEN_IF" -> DbgTakenIf
    [] ctrl_fsm_cs = "DBG_FLUSH" -> DbgFlush

\* Mutant: the jump is announced as long as ID is stalled.
hwlp_jump_level(c) == c.hwlp_end_4_id

\* hwlp_jump_o: one pulse.
hwlp_jump(c) == c.hwlp_end_4_id /\ ~hwlp_end_4_id_q

\* Registers on the gated clock.
ControllerCycle(i, c) ==
  /\ ctrl_fsm_cs' = c.ns
  /\ jump_done_q' = (c.jump_done /\ ~id_ready(i))
  /\ debug_mode_q' = c.debug_mode
  /\ illegal_insn_q' = c.illegal_insn
  /\ debug_req_entry_q' = c.debug_req_entry
  /\ debug_force_wakeup_q' = c.debug_force_wakeup
  /\ hwlp_end_4_id_q' = c.hwlp_end_4_id

\* The sticky debug request is on the free running clock.
DebugRequestCycle(i) ==
  debug_req_q' = (i.debug_req \/ (debug_req_q /\ ~debug_mode_q))
=============================================================================
