----------------------------- MODULE CoreProofs -----------------------------
(***************************************************************************)
(* Proofs about the core: when its clock stops and what starts it again,   *)
(* the types of its registers, the loop counters among them, that hardware *)
(* loops jump in time, and that it implements the sequential machine.      *)
(***************************************************************************)
EXTENDS Core, TLAPS

-----------------------------------------------------------------------------
(* When the clock stops.                                                   *)

\* EX is empty from the state on in which an instruction flushed the pipeline, and
\* only the sleep states let the controller be idle.
Drained ==
  /\ ctrl_fsm_cs \in States
  /\ fetch_enable_q \in BOOLEAN /\ core_busy_q \in BOOLEAN
  /\ ctrl_fsm_cs # "RESET" => fetch_enable_q
  /\ ctrl_fsm_cs \in {"FLUSH_WB", "WAIT_SLEEP", "SLEEP"} => ex.pc = None

SleepInv == Drained /\ AsleepOnlyWhenIdle

\* The states the FSM goes to while it decodes.
Onward == States \ {"RESET", "BOOT_SET", "WAIT_SLEEP", "SLEEP", "FLUSH_WB"}
Running(c) == c.busy = TRUE /\ c.ns \in Onward

LEMMA RunningDefault ==
  ASSUME ctrl_fsm_cs \in Onward
  PROVE  /\ Running(Default) /\ Running(Decoding) /\ Running(DebugRequest)
         /\ \A pc : Running(TakeIrq(pc))
BY DEF Running, Default, Decoding, DebugRequest, TakeIrq, Halted, Onward, States

LEMMA RunningDecode ==
  ASSUME ctrl_fsm_cs \in {"DECODE", "DECODE_HWLOOP"}, NEW i
  PROVE  Running(Decode(i)) /\ Running(DecodeHwloop(i))
<1>1. Running(DecodeInsn(i))
  BY DEF Running, DecodeInsn, Default, Decoding, Flush, Jump, Ebreak, LoopInDecode, Onward, States
<1>2. Running(DecodeInsnInLoop(i))
  BY DEF Running, DecodeInsnInLoop, Default, Decoding, Flush, Ebreak, LoopAhead, Onward, States
<1>3. Running(SingleStep(i, DecodeInsn(i)))
  BY <1>1 DEF Running, SingleStep, DecodeInsn, Default, Decoding, Flush, Jump, Ebreak, LoopInDecode,
              Onward, States
<1>4. Running(SingleStep(i, DecodeInsnInLoop(i)))
  BY <1>2 DEF Running, SingleStep, DecodeInsnInLoop, Default, Decoding, Flush, Ebreak, LoopAhead,
              Onward, States
<1>5. Running(Decode(i))
  <2>1. \A t : Running([Default EXCEPT !.pc_set = t])
    BY RunningDefault DEF Running, Default, Onward, States
  <2>2. Running([DebugRequest EXCEPT !.illegal_insn = FALSE])
    BY RunningDefault DEF Running, DebugRequest, Halted, Default, Onward, States
  <2>3. Running([TakeIrq(pc_id) EXCEPT !.illegal_insn = FALSE])
    BY RunningDefault DEF Running, TakeIrq, Halted, Default, Onward, States
  <2>4. Running(Default)
    BY RunningDefault DEF Onward, States
  <2> QED BY <1>3, <2>1, <2>2, <2>3, <2>4 DEF Decode
<1>6. Running(DecodeHwloop(i))
  <2>1. Running([TakeIrq(pc_id) EXCEPT !.ns = "DECODE"])
    BY DEF Running, TakeIrq, Halted, Default, Onward, States
  <2>2. Running(DebugRequest) /\ Running(Default)
    BY RunningDefault DEF Onward, States
  <2> QED BY <1>4, <2>1, <2>2 DEF DecodeHwloop
<1> QED BY <1>5, <1>6

\* What the sleep states have in common, and how the core gets there.
LEMMA Transitions ==
  ASSUME ctrl_fsm_cs \in States, NEW i, NEW b,
         NEW c, c = Controls(i, fetch_enable_q, b)
  PROVE  /\ c.ns \in States
         /\ c.ns = "RESET" => ctrl_fsm_cs = "RESET"
         /\ ctrl_fsm_cs = "RESET" /\ c.ns # "RESET" => fetch_enable_q
         /\ c.ns = "FLUSH_WB" => ctrl_fsm_cs = "FLUSH_EX" /\ i.ready
         /\ c.ns = "WAIT_SLEEP" => ctrl_fsm_cs = "FLUSH_WB"
         /\ c.ns = "SLEEP" => ctrl_fsm_cs \in {"WAIT_SLEEP", "SLEEP"}
         /\ c.busy \/ ctrl_fsm_cs \in {"WAIT_SLEEP", "SLEEP"}
         /\ ctrl_fsm_cs = "WAIT_SLEEP" => c.ns = "SLEEP"
         /\ ctrl_fsm_cs = "SLEEP" /\ ~c.busy => c.ns = "SLEEP"
         /\ ctrl_fsm_cs = "SLEEP" /\ wake_from_sleep(i) => c.ns # "SLEEP"
         /\ ctrl_fsm_cs \in {"WAIT_SLEEP", "SLEEP"} => ~c.instr_req
         /\ ctrl_fsm_cs \in {"FLUSH_EX", "FLUSH_WB", "WAIT_SLEEP", "SLEEP"} => ~c.is_decoding
<1>1. CASE ctrl_fsm_cs = "RESET"
  BY <1>1 DEF Controls, Default, States
<1>2. CASE ctrl_fsm_cs = "BOOT_SET"
  BY <1>2 DEF Controls, BootSet, WakeForDebug, Default, States
<1>3. CASE ctrl_fsm_cs = "WAIT_SLEEP"
  BY <1>3 DEF Controls, Asleep, Halted, Default, States
<1>4. CASE ctrl_fsm_cs = "SLEEP"
  BY <1>4 DEF Controls, Sleep, WakeForDebug, Asleep, Halted, Default, States
<1>5. CASE ctrl_fsm_cs = "FIRST_FETCH"
  BY <1>5 DEF Controls, FirstFetch, TakeIrq, Halted, Default, States
<1>6. CASE ctrl_fsm_cs \in {"DECODE", "DECODE_HWLOOP"}
  <2>1. Running(c)
    BY <1>6, RunningDecode DEF Controls
  <2> QED BY <1>6, <2>1 DEF Running, Onward, States
<1>7. CASE ctrl_fsm_cs = "FLUSH_EX"
  BY <1>7 DEF Controls, FlushEx, Halted, Default, States
<1>8. CASE ctrl_fsm_cs = "FLUSH_WB"
  BY <1>8 DEF Controls, FlushWb, WakeForDebug, Halted, Default, States
<1>9. CASE ctrl_fsm_cs = "XRET_JUMP"
  BY <1>9 DEF Controls, XretJump, Default, States
<1>10. CASE ctrl_fsm_cs = "DBG_WAIT_BRANCH"
  BY <1>10 DEF Controls, DbgWaitBranch, Default, States
<1>11. CASE ctrl_fsm_cs = "DBG_TAKEN_ID"
  BY <1>11 DEF Controls, DbgTakenId, EnterDebug, Default, States
<1>12. CASE ctrl_fsm_cs = "DBG_TAKEN_IF"
  BY <1>12 DEF Controls, DbgTakenIf, EnterDebug, Default, States
<1>13. CASE ctrl_fsm_cs = "DBG_FLUSH"
  BY <1>13 DEF Controls, DbgFlush, Halted, Default, States
<1> QED BY <1>1, <1>2, <1>3, <1>4, <1>5, <1>6, <1>7, <1>8, <1>9, <1>10, <1>11, <1>12, <1>13
        DEF States

\* One cycle of the free running clock.
LEMMA SleepStep ==
  ASSUME SleepInv, NEW i \in Inputs, Cycle(i)
  PROVE  SleepInv'
<1> DEFINE c == Controls(i, fetch_enable_q, boot)
           clocked == clock_en(wake_from_sleep(i))
<1> USE DEF SleepInv, Drained
<1>1. /\ IF clocked THEN Clocked(i, c) ELSE UNCHANGED ClockedVars
      /\ SleepCycle(i.fetch_enable, outstanding, c.busy, lsu_busy, apu_busy)
  BY DEF Cycle
<1>2. i.fetch_enable \in {TRUE, fetch_enable_q}
  BY DEF Inputs
<1>3. fetch_enable_q' \in BOOLEAN /\ core_busy_q' \in BOOLEAN /\ (fetch_enable_q => fetch_enable_q')
  BY <1>1, <1>2 DEF SleepCycle, core_busy
<1>4. ~core_busy_q' => ~outstanding /\ ~c.busy /\ ~wb /\ (ex.pc # None => Op(ex.pc) # "mem")
  BY <1>1 DEF SleepCycle, core_busy, lsu_busy
<1>5. CASE ~clocked
  <2>1. UNCHANGED ClockedVars
    BY <1>1, <1>5
  <2>2. /\ ctrl_fsm_cs' = ctrl_fsm_cs /\ ex' = ex /\ outstanding' = outstanding /\ wb' = wb
    BY <2>1 DEF ClockedVars, controllerVars, pipelineVars
  <2>3. ctrl_fsm_cs # "RESET" => ~core_busy_q
    BY <1>5 DEF clock_en
  <2> QED BY <1>3, <2>2, <2>3 DEF AsleepOnlyWhenIdle
<1>6. CASE clocked
  <2>1. /\ ctrl_fsm_cs' = c.ns
        /\ ex' = IF issue(i, c) /\ ~illegal_insn
                   THEN [pc |-> pc_id, taken |-> i.taken,
                         value |-> IF insn = "skip" THEN mepc + 1 ELSE 0]
                 ELSE IF ex_ready(i) THEN NoInsn ELSE ex
        /\ outstanding' \in IF ~c.instr_req THEN {FALSE, outstanding}
                            ELSE IF c.halt_if THEN BOOLEAN ELSE {TRUE}
        /\ wb' = IF i.ready THEN ex.pc # None /\ Op(ex.pc) = "mem" ELSE wb
    BY <1>1, <1>6 DEF Clocked, ControllerCycle, ExecuteCycle, FetchCycle
  <2> HIDE DEF c
  <2>2. /\ c.ns \in States
        /\ c.ns = "RESET" => ctrl_fsm_cs = "RESET"
        /\ ctrl_fsm_cs = "RESET" /\ c.ns # "RESET" => fetch_enable_q
        /\ c.ns = "FLUSH_WB" => ctrl_fsm_cs = "FLUSH_EX" /\ i.ready
        /\ c.ns = "WAIT_SLEEP" => ctrl_fsm_cs = "FLUSH_WB"
        /\ c.ns = "SLEEP" => ctrl_fsm_cs \in {"WAIT_SLEEP", "SLEEP"}
        /\ c.busy \/ ctrl_fsm_cs \in {"WAIT_SLEEP", "SLEEP"}
        /\ ctrl_fsm_cs = "WAIT_SLEEP" => c.ns = "SLEEP"
        /\ ctrl_fsm_cs = "SLEEP" /\ ~c.busy => c.ns = "SLEEP"
        /\ ctrl_fsm_cs \in {"WAIT_SLEEP", "SLEEP"} => ~c.instr_req
        /\ ctrl_fsm_cs \in {"FLUSH_EX", "FLUSH_WB", "WAIT_SLEEP", "SLEEP"} => ~c.is_decoding
    BY Transitions DEF c
  <2>3. ctrl_fsm_cs \in {"FLUSH_WB", "WAIT_SLEEP", "SLEEP"} => ex'.pc = None
    BY <2>1, <2>2 DEF issue, NoInsn
  <2>4. ctrl_fsm_cs = "FLUSH_EX" /\ i.ready => ex'.pc = None
    BY <2>1, <2>2 DEF issue, ex_ready, NoInsn
  <2>5. Drained'
    BY <1>3, <2>1, <2>2, <2>3, <2>4 DEF Drained
  <2>6. AsleepOnlyWhenIdle'
    <3> SUFFICES ASSUME fetch_enable_q', ~core_busy_q', ctrl_fsm_cs' # "RESET"
                 PROVE  ctrl_fsm_cs' = "SLEEP" /\ ~outstanding' /\ ~wb' /\ ex'.pc = None
      BY DEF AsleepOnlyWhenIdle
    <3>1. ctrl_fsm_cs \in {"WAIT_SLEEP", "SLEEP"} /\ ctrl_fsm_cs' = "SLEEP"
      BY <1>4, <2>1, <2>2 DEF c
    <3>2. ~outstanding' /\ ~wb'
      BY <1>4, <2>1, <2>2, <3>1
    <3> QED BY <2>3, <3>1, <3>2
  <2> QED BY <2>5, <2>6
<1> QED BY <1>5, <1>6

THEOREM SleepInvariant == Spec => []SleepInv
<1>1. Init => SleepInv
  BY DEF Init, ControllerInit, SleepInit, SleepInv, Drained, States, AsleepOnlyWhenIdle
<1>2. SleepInv /\ [Next]_vars => SleepInv'
  <2>1. CASE UNCHANGED vars
    BY <2>1 DEF vars, controllerVars, pipelineVars, sleepVars, SleepInv, Drained,
                AsleepOnlyWhenIdle
  <2> QED BY <2>1, SleepStep DEF Next
<1> QED BY <1>1, <1>2, PTL DEF Spec

\* The clock stops only in WFI, with no fetch, load or store on its way and nothing in
\* EX, whatever program runs and however long memory takes.
THEOREM SleepsOnlyWhenIdle == Spec => []AsleepOnlyWhenIdle
BY SleepInvariant, PTL DEF SleepInv

\* An interrupt line or a debug request ends the sleep in the cycle in which it is
\* there, although the clock of the controller is stopped.
THEOREM WakesInThatCycle == Spec => WakesAtOnce
<1>1. SleepInv /\ [Next]_vars =>
        [ctrl_fsm_cs = "SLEEP" /\ (irq_i \/ debug_req_q) => ctrl_fsm_cs' # "SLEEP"]_vars
  <2> SUFFICES ASSUME SleepInv, NEW i \in Inputs, Cycle(i),
                      ctrl_fsm_cs = "SLEEP", irq_i \/ debug_req_q
               PROVE  ctrl_fsm_cs' # "SLEEP"
    BY DEF Next
  <2>1. wake_from_sleep(i)
    BY DEF wake_from_sleep, debug_req_pending
  <2>2. clock_en(wake_from_sleep(i))
    BY <2>1 DEF clock_en, SleepInv, Drained
  <2>3. ctrl_fsm_cs' = Controls(i, fetch_enable_q, boot).ns
    BY <2>2 DEF Cycle, Clocked, ControllerCycle
  <2> QED BY <2>1, <2>3, Transitions DEF SleepInv, Drained
<1> QED BY <1>1, SleepInvariant, PTL DEF Spec, WakesAtOnce

-----------------------------------------------------------------------------
(* The types.                                                              *)

\* Outputs of the controller: addresses are in memory, a loop counts down only if its
\* counter is not 0.
Counting == {k \in Loop : hwlp_counter[k] > 0}

Outputs ==
  [ns : States, pc_set : Value, instr_req : BOOLEAN, busy : BOOLEAN,
   halt_if : BOOLEAN, halt_id : BOOLEAN, is_decoding : BOOLEAN,
   jump_done : BOOLEAN, illegal_insn : BOOLEAN,
   debug_mode : BOOLEAN, debug_req_entry : BOOLEAN, debug_force_wakeup : BOOLEAN,
   save : Value, to : {"none", "machine", "debug"}, mret : BOOLEAN,
   hwlp_dec_cnt : SUBSET Counting, hwlp_end_4_id : BOOLEAN, hwlp_targ : Addr]

LEMMA TargetType ==
  ASSUME TypeOK
  PROVE  hwlp_targ_addr \in Addr
BY DEF TypeOK, hwlp_targ_addr, Loop

LEMMA DefaultType ==
  ASSUME TypeOK
  PROVE  /\ Default \in Outputs /\ Halted \in Outputs /\ Asleep \in Outputs
         /\ Decoding \in Outputs /\ DebugRequest \in Outputs
         /\ \A pc \in Addr : TakeIrq(pc) \in Outputs
<1>1. Default \in Outputs
  BY TargetType DEF Outputs, Default, TypeOK, Value
<1> USE ControllerAssumption DEF Value
<1>2. Halted \in Outputs
  BY <1>1 DEF Halted, Outputs
<1>3. Asleep \in Outputs /\ \A pc \in Addr : TakeIrq(pc) \in Outputs
  BY <1>2 DEF Asleep, TakeIrq, Outputs
<1>4. Decoding \in Outputs
  BY <1>1 DEF Decoding, Outputs
<1>5. DebugRequest \in Outputs
  BY ZenonT(60), <1>2 DEF DebugRequest, Outputs, States
<1> QED BY <1>1, <1>2, <1>3, <1>4, <1>5

\* A state, an address and a flag in the right place make outputs of outputs.
LEMMA Updates ==
  /\ \A c \in Outputs, s \in States : [c EXCEPT !.ns = s] \in Outputs
  /\ \A c \in Outputs, s \in States, m \in BOOLEAN :
       /\ [c EXCEPT !.instr_req = m, !.ns = s] \in Outputs
       /\ [c EXCEPT !.busy = m, !.ns = s] \in Outputs
       /\ [c EXCEPT !.ns = s, !.mret = m] \in Outputs
       /\ [c EXCEPT !.ns = s, !.debug_force_wakeup = m] \in Outputs
  /\ \A c \in Outputs, m \in BOOLEAN : [c EXCEPT !.illegal_insn = m] \in Outputs
  /\ \A c \in Outputs, m \in BOOLEAN : [c EXCEPT !.busy = m] \in Outputs
  /\ \A c \in Outputs, a \in Value : [c EXCEPT !.pc_set = a] \in Outputs
  /\ \A c \in Outputs, a \in Value, d \in SUBSET Counting :
       [c EXCEPT !.pc_set = a, !.hwlp_dec_cnt = d] \in Outputs
  /\ \A c \in Outputs, a \in Value, s \in States, m \in BOOLEAN :
       /\ [c EXCEPT !.pc_set = a, !.illegal_insn = m, !.ns = s] \in Outputs
       /\ [c EXCEPT !.ns = s, !.pc_set = a, !.debug_mode = m] \in Outputs
       /\ [c EXCEPT !.pc_set = a, !.ns = s, !.debug_mode = m] \in Outputs
       /\ [c EXCEPT !.halt_if = m, !.ns = s, !.pc_set = a] \in Outputs
  /\ \A c \in Outputs, a \in Value : [c EXCEPT !.save = a, !.to = "machine"] \in Outputs
  /\ \A c \in Outputs, a \in Value, m \in BOOLEAN :
       /\ [c EXCEPT !.debug_force_wakeup = m, !.save = a, !.to = "debug"] \in Outputs
       /\ [c EXCEPT !.debug_req_entry = m, !.save = a, !.to = "debug"] \in Outputs
<1>1. \A c \in Outputs, s \in States : [c EXCEPT !.ns = s] \in Outputs
  BY DEF Outputs
<1>2. \A c \in Outputs, s \in States, m \in BOOLEAN :
        /\ [c EXCEPT !.instr_req = m, !.ns = s] \in Outputs
        /\ [c EXCEPT !.busy = m, !.ns = s] \in Outputs
        /\ [c EXCEPT !.ns = s, !.mret = m] \in Outputs
        /\ [c EXCEPT !.ns = s, !.debug_force_wakeup = m] \in Outputs
  <2> TAKE c \in Outputs, s \in States, m \in BOOLEAN
  <2>1. [c EXCEPT !.instr_req = m, !.ns = s] \in Outputs
    BY DEF Outputs
  <2>2. [c EXCEPT !.busy = m, !.ns = s] \in Outputs
    BY DEF Outputs
  <2>3. [c EXCEPT !.ns = s, !.mret = m] \in Outputs
    BY DEF Outputs
  <2>4. [c EXCEPT !.ns = s, !.debug_force_wakeup = m] \in Outputs
    BY DEF Outputs
  <2> QED BY <2>1, <2>2, <2>3, <2>4
<1>3. \A c \in Outputs, m \in BOOLEAN : [c EXCEPT !.illegal_insn = m] \in Outputs
  BY DEF Outputs
<1>4. \A c \in Outputs, m \in BOOLEAN : [c EXCEPT !.busy = m] \in Outputs
  BY DEF Outputs
<1>5. \A c \in Outputs, a \in Value : [c EXCEPT !.pc_set = a] \in Outputs
  BY DEF Outputs
<1>6. \A c \in Outputs, a \in Value, d \in SUBSET Counting :
        [c EXCEPT !.pc_set = a, !.hwlp_dec_cnt = d] \in Outputs
  BY DEF Outputs
<1>7. \A c \in Outputs, a \in Value, s \in States, m \in BOOLEAN :
        /\ [c EXCEPT !.pc_set = a, !.illegal_insn = m, !.ns = s] \in Outputs
        /\ [c EXCEPT !.ns = s, !.pc_set = a, !.debug_mode = m] \in Outputs
        /\ [c EXCEPT !.pc_set = a, !.ns = s, !.debug_mode = m] \in Outputs
        /\ [c EXCEPT !.halt_if = m, !.ns = s, !.pc_set = a] \in Outputs
  <2> TAKE c \in Outputs, a \in Value, s \in States, m \in BOOLEAN
  <2>1. [c EXCEPT !.pc_set = a, !.illegal_insn = m, !.ns = s] \in Outputs
    BY DEF Outputs
  <2>2. [c EXCEPT !.ns = s, !.pc_set = a, !.debug_mode = m] \in Outputs
    BY DEF Outputs
  <2>3. [c EXCEPT !.pc_set = a, !.ns = s, !.debug_mode = m] \in Outputs
    BY DEF Outputs
  <2>4. [c EXCEPT !.halt_if = m, !.ns = s, !.pc_set = a] \in Outputs
    BY DEF Outputs
  <2> QED BY <2>1, <2>2, <2>3, <2>4
<1>8. \A c \in Outputs, a \in Value : [c EXCEPT !.save = a, !.to = "machine"] \in Outputs
  BY DEF Outputs
<1>9. \A c \in Outputs, a \in Value, m \in BOOLEAN :
        /\ [c EXCEPT !.debug_force_wakeup = m, !.save = a, !.to = "debug"] \in Outputs
        /\ [c EXCEPT !.debug_req_entry = m, !.save = a, !.to = "debug"] \in Outputs
  <2> TAKE c \in Outputs, a \in Value, m \in BOOLEAN
  <2>1. [c EXCEPT !.debug_force_wakeup = m, !.save = a, !.to = "debug"] \in Outputs
    BY DEF Outputs
  <2>2. [c EXCEPT !.debug_req_entry = m, !.save = a, !.to = "debug"] \in Outputs
    BY DEF Outputs
  <2> QED BY <2>1, <2>2
<1> QED BY <1>1, <1>2, <1>3, <1>4, <1>5, <1>6, <1>7, <1>8, <1>9

\* Decoding, in and out of a loop.
LEMMA DecodeType ==
  ASSUME TypeOK, NEW i
  PROVE  DecodeInsn(i) \in Outputs /\ DecodeInsnInLoop(i) \in Outputs
<1>1. /\ ctrl_fsm_cs \in States /\ pc_id \in Addr /\ jump_done_q \in BOOLEAN
      /\ hwlp_start \in [Loop -> Addr] /\ hwlp_counter \in [Loop -> Nat]
  BY DEF TypeOK
<1>2. {"DECODE", "DECODE_HWLOOP", "FLUSH_EX", "DBG_FLUSH"} \subseteq States
  BY DEF States
<1>3. /\ Program[pc_id].target \in Value /\ hwlp_targ_addr \in Value
      /\ \A k \in Loop : hwlp_start[k] \in Addr
  BY <1>1, TargetType, ControllerAssumption DEF Value
<1>4. ASSUME NEW c \in Outputs
      PROVE  Flush(i, c) \in Outputs
  <2>1. \A s \in States : [c EXCEPT !.halt_if = TRUE, !.ns = s] \in Outputs
    BY DEF Outputs
  <2>2. (IF id_ready(i) THEN "FLUSH_EX" ELSE ctrl_fsm_cs) \in States
    BY <1>1, <1>2
  <2> QED BY <2>1, <2>2, Zenon DEF Flush
<1>5. ASSUME NEW c \in Outputs
      PROVE  Ebreak(i, c) \in Outputs
  <2>1. [c EXCEPT !.halt_if = TRUE, !.ns = "DBG_FLUSH"] \in Outputs
    BY <1>2 DEF Outputs
  <2> QED BY <1>4, <2>1, Zenon DEF Ebreak
<1>6. ASSUME NEW c \in Outputs
      PROVE  Jump(i, c) \in Outputs
  <2>1. \A a \in Value : [c EXCEPT !.pc_set = a, !.jump_done = TRUE] \in Outputs
    BY DEF Outputs
  <2> QED BY <1>3, <2>1, Zenon DEF Jump
<1>7. ASSUME NEW c \in Outputs
      PROVE  LoopInDecode(c) \in Outputs
  <2> DEFINE ending(n) == {k \in Loop : hwlp_end_eq_pc(k) /\ (n = 1 <=> hwlp_counter[k] = 1)
                                                         /\ hwlp_counter[k] >= n}
             jumping   == IF is_hwlp_body /\ ~jump_done_q THEN ending(2) ELSE {}
             ns        == IF is_hwlp_body /\ \A k \in Loop : ~hwlp_end_eq_pc_plus4(k)
                            THEN "DECODE_HWLOOP" ELSE "DECODE"
             pc_set    == IF jumping # {} THEN hwlp_targ_addr ELSE None
             done      == jump_done_q \/ jumping # {}
             cnt       == jumping \cup ending(1)
  <2>1. \A s \in States, a \in Value, b \in BOOLEAN, d \in SUBSET Counting :
          [c EXCEPT !.ns = s, !.pc_set = a, !.jump_done = b, !.hwlp_dec_cnt = d] \in Outputs
    BY DEF Outputs
  <2>2. ns \in States /\ done \in BOOLEAN
    BY <1>2
  <2>3. pc_set \in Value
    BY <1>3 DEF Value
  <2>4. cnt \in SUBSET Counting
    BY <1>1 DEF Counting
  <2>5. LoopInDecode(c) =
          [c EXCEPT !.ns = ns, !.pc_set = pc_set, !.jump_done = done, !.hwlp_dec_cnt = cnt]
    BY DEF LoopInDecode
  <2> HIDE DEF ns, pc_set, done, cnt
  <2>6. [c EXCEPT !.ns = ns, !.pc_set = pc_set, !.jump_done = done, !.hwlp_dec_cnt = cnt]
          \in Outputs
    BY <2>1, <2>2, <2>3, <2>4, Zenon
  <2> QED BY <2>5, <2>6, Zenon
<1>8. ASSUME NEW c \in Outputs
      PROVE  LoopAhead(c) \in Outputs
  <2> DEFINE ahead == {k \in Loop : hwlp_end_eq_pc_plus4(k)}
             jump  == {k \in ahead : hwlp_counter[k] > 1}
             last  == IF 0 \in ahead THEN 0 ELSE 1
             ns    == IF ahead = {} \/ last \in jump \/ is_hwlp_body
                        THEN "DECODE_HWLOOP" ELSE "DECODE"
             end4  == jump # {}
             targ  == IF jump = {} THEN c.hwlp_targ ELSE hwlp_start[IF 0 \in jump THEN 0 ELSE 1]
             cnt   == {k \in Loop : hwlp_end_eq_pc(k) /\ hwlp_counter[k] # 0}
  <2>1. \A s \in States, b \in BOOLEAN, a \in Addr, d \in SUBSET Counting :
          [c EXCEPT !.ns = s, !.hwlp_end_4_id = b, !.hwlp_targ = a, !.hwlp_dec_cnt = d] \in Outputs
    BY DEF Outputs
  <2>2. ns \in States /\ end4 \in BOOLEAN
    BY <1>2
  <2>3. c.hwlp_targ \in Addr
    BY DEF Outputs
  <2>4. targ \in Addr
    BY <1>3, <2>3 DEF Loop
  <2>5. cnt \in SUBSET Counting
    BY <1>1 DEF Counting
  <2>6. LoopAhead(c) =
          [c EXCEPT !.ns = ns, !.hwlp_end_4_id = end4, !.hwlp_targ = targ, !.hwlp_dec_cnt = cnt]
    BY DEF LoopAhead
  <2> HIDE DEF ns, end4, targ, cnt
  <2>7. [c EXCEPT !.ns = ns, !.hwlp_end_4_id = end4, !.hwlp_targ = targ, !.hwlp_dec_cnt = cnt]
          \in Outputs
    BY <2>1, <2>2, <2>4, <2>5, Zenon
  <2> QED BY <2>6, <2>7, Zenon
<1>9. DecodeInsn(i) \in Outputs
  <2>1. [Decoding EXCEPT !.illegal_insn = FALSE] \in Outputs
    BY ZenonT(60), DefaultType DEF Outputs
  <2>2. [[Decoding EXCEPT !.illegal_insn = FALSE] EXCEPT !.illegal_insn = TRUE] \in Outputs
    BY <2>1 DEF Outputs
  <2> QED BY <1>4, <1>5, <1>6, <1>7, <2>1, <2>2 DEF DecodeInsn
<1>10. DecodeInsnInLoop(i) \in Outputs
  <2>1. [Decoding EXCEPT !.halt_if = TRUE, !.halt_id = TRUE, !.ns = "FLUSH_EX",
                         !.illegal_insn = TRUE] \in Outputs
    BY ZenonT(60), <1>2, DefaultType DEF Outputs
  <2> QED BY <1>4, <1>5, <1>8, <2>1, DefaultType DEF DecodeInsnInLoop
<1> QED BY <1>9, <1>10

LEMMA SingleStepType ==
  ASSUME TypeOK, NEW i, NEW c \in Outputs
  PROVE  SingleStep(i, c) \in Outputs
<1> DEFINE ns == IF ~id_ready(i) THEN c.ns
                 ELSE IF illegal_insn \/ insn \in {"ecall", "mret"}
                           \/ (insn = "ebreak" /\ ~ebrk_force_debug_mode)
                   THEN "FLUSH_EX"
                 ELSE IF insn = "branch" THEN "DBG_WAIT_BRANCH"
                 ELSE "DBG_FLUSH"
<1>1. \A s \in States : [c EXCEPT !.halt_if = TRUE, !.ns = s] \in Outputs
  BY DEF Outputs
<1>2. ns \in States
  BY DEF Outputs, States
<1>3. SingleStep(i, c) = IF ~debug_single_step \/ debug_mode_q THEN c
                         ELSE [c EXCEPT !.halt_if = TRUE, !.ns = ns]
  BY DEF SingleStep
<1> HIDE DEF ns
<1> QED BY <1>1, <1>2, <1>3, Zenon

\* The whole FSM, in a program memory without an end.
LEMMA OutputType ==
  ASSUME TypeOK, \A a \in Addr : a + 1 \in Addr, NEW i, NEW f, NEW b \in Addr
  PROVE  Controls(i, f, b) \in Outputs
<1>1. /\ ctrl_fsm_cs \in States /\ debug_mode_q \in BOOLEAN
      /\ {pc_id, pc_if, mepc, dpc} \subseteq Addr /\ ex.pc \in Value
      /\ hwlp_counter \in [Loop -> Nat]
  BY DEF TypeOK
<1>2. /\ {pc_id, pc_if, mepc, dpc, b, pc_id + 1, DebugException, DebugHalt, handler} \subseteq Value
      /\ None \in Value /\ hwlp_targ_addr \in Value /\ pc_id \in Addr /\ pc_if \in Addr
  BY <1>1, TargetType, ControllerAssumption DEF Value, handler
<1>3. branch_taken_ex => Program[ex.pc].target \in Value
  BY <1>1, ControllerAssumption DEF Value, branch_taken_ex, branch_in_ex
<1>4. /\ {"RESET", "BOOT_SET", "SLEEP", "WAIT_SLEEP", "FIRST_FETCH", "DECODE"} \subseteq States
      /\ {"FLUSH_WB", "XRET_JUMP", "DBG_FLUSH", "DBG_TAKEN_ID", "DBG_TAKEN_IF"} \subseteq States
  BY DEF States
<1>5. TRUE \in BOOLEAN /\ FALSE \in BOOLEAN
  OBVIOUS
<1>6. \A c \in Outputs : WakeForDebug(c) \in Outputs
  BY <1>4, <1>5, Updates, Zenon DEF WakeForDebug
<1>7. CASE ctrl_fsm_cs = "RESET"
  <2>1. (IF f THEN "BOOT_SET" ELSE "RESET") \in States
    BY <1>4
  <2>2. [Default EXCEPT !.instr_req = FALSE, !.ns = IF f THEN "BOOT_SET" ELSE "RESET"]
          \in Outputs
    BY <1>5, <2>1, DefaultType, Updates, Zenon
  <2> QED BY <1>7, <2>2 DEF Controls
<1>8. CASE ctrl_fsm_cs = "BOOT_SET"
  <2>1. [Default EXCEPT !.pc_set = b] \in Outputs
    BY <1>2, DefaultType, Updates
  <2>2. BootSet(i, b) \in Outputs
    BY <1>4, <1>6, <2>1, Updates, Zenon DEF BootSet
  <2> QED BY <1>8, <2>2 DEF Controls
<1>9. CASE ctrl_fsm_cs = "WAIT_SLEEP"
  <2>1. [Asleep EXCEPT !.busy = FALSE, !.ns = "SLEEP"] \in Outputs
    BY <1>4, <1>5, DefaultType, Updates, Zenon
  <2> QED BY <1>9, <2>1 DEF Controls
<1>10. CASE ctrl_fsm_cs = "SLEEP"
  <2>1. Sleep(i) \in Outputs
    BY <1>4, <1>5, <1>6, DefaultType, Updates, Zenon DEF Sleep
  <2> QED BY <1>10, <2>1 DEF Controls
<1>11. CASE ctrl_fsm_cs = "FIRST_FETCH"
  <2>1. FirstFetch(i) \in Outputs
    BY <1>2, <1>4, DefaultType, Updates, Zenon DEF FirstFetch
  <2> QED BY <1>11, <2>1 DEF Controls
<1>12. CASE ctrl_fsm_cs \in {"DECODE", "DECODE_HWLOOP"}
  <2>1. SingleStep(i, DecodeInsn(i)) \in Outputs /\ SingleStep(i, DecodeInsnInLoop(i)) \in Outputs
    BY DecodeType, SingleStepType
  <2>2. Decode(i) \in Outputs
    BY <1>2, <1>3, <1>5, <2>1, DefaultType, Updates, Zenon DEF Decode
  <2>3. DecodeHwloop(i) \in Outputs
    BY <1>2, <1>4, <2>1, DefaultType, Updates, Zenon DEF DecodeHwloop
  <2> QED BY <1>12, <2>2, <2>3 DEF Controls
<1>13. CASE ctrl_fsm_cs = "FLUSH_EX"
  <2> DEFINE c == [Halted EXCEPT !.ns = "FLUSH_WB"]
  <2>1. c \in Outputs
    BY <1>4, DefaultType, Updates
  <2>2. [c EXCEPT !.save = pc_id, !.to = "machine"] \in Outputs
    BY <1>2, <2>1, Updates, Zenon
  <2>3. FlushEx(i) \in Outputs
    BY <2>1, <2>2, DefaultType, Zenon DEF FlushEx
  <2> QED BY <1>13, <2>3 DEF Controls
<1>14. CASE ctrl_fsm_cs = "FLUSH_WB"
  <2> DEFINE c      == [Halted EXCEPT !.ns = "DECODE"]
             ending == {k \in Loop : hwlp_end_eq_pc(k) /\ hwlp_counter[k] > 1}
             ns     == IF debug_single_step /\ ~debug_mode_q THEN "DBG_TAKEN_IF" ELSE c.ns
             mret   == insn = "mret" /\ ~debug_mode_q
  <2>1. c \in Outputs
    BY <1>4, DefaultType, Updates
  <2>2. ending \in SUBSET Counting /\ mret \in BOOLEAN
    BY <1>1 DEF Counting
  <2>3. FlushWb(i) =
          IF illegal_insn_q \/ insn \in {"ecall", "ebreak"}
            THEN [c EXCEPT !.pc_set = handler, !.illegal_insn = FALSE, !.ns = ns]
          ELSE IF insn \in {"mret", "dret"}
            THEN [c EXCEPT !.ns = "XRET_JUMP", !.mret = mret]
          ELSE IF csr_status /\ ending # {}
            THEN [c EXCEPT !.pc_set = hwlp_targ_addr, !.hwlp_dec_cnt = ending]
          ELSE IF insn = "wfi"
            THEN IF debug_req_pending(i) THEN WakeForDebug(c)
                 ELSE [c EXCEPT !.ns = "WAIT_SLEEP"]
          ELSE IF insn = "fencei" THEN [c EXCEPT !.pc_set = pc_id + 1]
          ELSE c
    BY Zenon DEF FlushWb
  <2> HIDE DEF c
  <2>4. ns \in States
    BY <1>4, <2>1 DEF Outputs
  <2> HIDE DEF ending, mret, ns
  <2>5. /\ [c EXCEPT !.pc_set = handler, !.illegal_insn = FALSE, !.ns = ns] \in Outputs
        /\ [c EXCEPT !.ns = "XRET_JUMP", !.mret = mret] \in Outputs
        /\ [c EXCEPT !.pc_set = hwlp_targ_addr, !.hwlp_dec_cnt = ending] \in Outputs
    BY <1>2, <1>4, <1>5, <2>1, <2>2, <2>4, Updates, Zenon
  <2>6. /\ [c EXCEPT !.ns = "WAIT_SLEEP"] \in Outputs /\ WakeForDebug(c) \in Outputs
        /\ [c EXCEPT !.pc_set = pc_id + 1] \in Outputs
    BY <1>2, <1>4, <1>6, <2>1, Updates, Zenon
  <2>7. FlushWb(i) \in Outputs
    BY <2>1, <2>3, <2>5, <2>6, Zenon
  <2> QED BY <1>14, <2>7 DEF Controls
<1>15. CASE ctrl_fsm_cs = "XRET_JUMP"
  <2>1. (IF debug_single_step /\ ~debug_mode_q THEN "DBG_TAKEN_IF" ELSE "DECODE") \in States
    BY <1>4
  <2>2. (IF insn = "dret" THEN dpc ELSE IF debug_mode_q THEN DebugException ELSE mepc) \in Value
    BY <1>2
  <2>3. (debug_mode_q /\ insn # "dret") \in BOOLEAN
    OBVIOUS
  <2>4. XretJump \in Outputs
    BY <2>1, <2>2, <2>3, DefaultType, Updates, Zenon DEF XretJump
  <2> QED BY <1>15, <2>4 DEF Controls
<1>16. CASE ctrl_fsm_cs = "DBG_WAIT_BRANCH"
  <2>1. (IF branch_taken_ex THEN Program[ex.pc].target ELSE None) \in Value
    BY <1>2, <1>3
  <2>2. DbgWaitBranch \in Outputs
    BY <1>4, <2>1, DefaultType, Updates, Zenon DEF DbgWaitBranch
  <2> QED BY <1>16, <2>2 DEF Controls
<1>17. CASE ctrl_fsm_cs \in {"DBG_TAKEN_ID", "DBG_TAKEN_IF"}
  <2>1. EnterDebug \in Outputs
    BY <1>2, <1>4, <1>5, DefaultType, Updates, Zenon DEF EnterDebug
  <2>2. (IF debug_mode_q THEN None ELSE pc_id) \in Value
    BY <1>2
  <2>3. DbgTakenId \in Outputs
    BY <1>5, <2>1, <2>2, Updates, Zenon DEF DbgTakenId
  <2>4. DbgTakenIf \in Outputs
    BY <1>2, <1>5, <2>1, Updates, Zenon DEF DbgTakenIf
  <2> QED BY <1>17, <2>3, <2>4 DEF Controls
<1>18. CASE ctrl_fsm_cs = "DBG_FLUSH"
  <2>1. DbgFlush \in Outputs
    BY <1>4, DefaultType, Updates DEF DbgFlush
  <2> QED BY <1>18, <2>1 DEF Controls
<1> QED BY <1>1, <1>7, <1>8, <1>9, <1>10, <1>11, <1>12, <1>13, <1>14, <1>15, <1>16, <1>17, <1>18
        DEF States

\* The registers of a cycle in which the clock runs.
LEMMA ClockedType ==
  ASSUME TypeOK, \A a \in Addr : a + 1 \in Addr, NEW i \in Inputs, NEW c \in Outputs,
         Clocked(i, c)
  PROVE  /\ ctrl_fsm_cs' \in States
         /\ {jump_done_q', debug_mode_q', illegal_insn_q', debug_req_entry_q',
             debug_force_wakeup_q', hwlp_end_4_id_q'} \subseteq BOOLEAN
         /\ {irq_q', mie', mpie', step', tmatch_control_exec_q'} \subseteq BOOLEAN
         /\ {instr_valid_id', wb', outstanding', stepped'} \subseteq BOOLEAN
         /\ {pc_if', pc_id', mepc', dpc'} \subseteq Addr
         /\ {loop_target', executed'} \subseteq Value
         /\ ex' \in [pc : Value, taken : BOOLEAN, value : Addr]
         /\ hwlp_counter' \in [Loop -> Nat]
         /\ hwlp_start' \in [Loop -> Addr] /\ hwlp_end' \in [Loop -> Addr]
<1>1. /\ {jump_done_q, debug_mode_q, hwlp_end_4_id_q, irq_i, mie, mpie, step,
          tmatch_control_exec_q, instr_valid_id, wb, outstanding, stepped} \subseteq BOOLEAN
      /\ pc_if \in Addr /\ pc_id \in Addr /\ mepc \in Addr /\ dpc \in Addr
      /\ loop_target \in Value /\ executed \in Value
      /\ ex \in [pc : Value, taken : BOOLEAN, value : Addr]
      /\ hwlp_counter \in [Loop -> Nat]
      /\ hwlp_start \in [Loop -> Addr] /\ hwlp_end \in [Loop -> Addr]
  BY DEF TypeOK
<1>2. /\ c.ns \in States /\ c.pc_set \in Value /\ c.save \in Value /\ c.hwlp_targ \in Addr
      /\ c.hwlp_dec_cnt \subseteq Counting
      /\ {c.jump_done, c.illegal_insn, c.debug_mode, c.debug_req_entry, c.debug_force_wakeup,
          c.hwlp_end_4_id, c.mret} \subseteq BOOLEAN
  BY DEF Outputs
<1>3. i.taken \in BOOLEAN
  BY DEF Inputs
<1>4. /\ ctrl_fsm_cs' \in States
      /\ {jump_done_q', debug_mode_q', illegal_insn_q', debug_req_entry_q',
          debug_force_wakeup_q', hwlp_end_4_id_q'} \subseteq BOOLEAN
  BY <1>2 DEF Clocked, ControllerCycle
<1>5. {irq_q', mie', mpie', step', tmatch_control_exec_q'} \subseteq BOOLEAN
  BY <1>1, <1>2 DEF Clocked, CsrCycle
<1>6. mepc' \in Addr /\ dpc' \in Addr
  BY <1>1, <1>2 DEF Clocked, CsrCycle, Value
<1>7. instr_valid_id' \in BOOLEAN /\ outstanding' \in BOOLEAN
  BY <1>1 DEF Clocked, FetchCycle
<1>8. pc_if' \in Addr /\ pc_id' \in Addr /\ loop_target' \in Value
  BY <1>1, <1>2 DEF Clocked, FetchCycle, Value
<1>9. wb' \in BOOLEAN /\ stepped' \in BOOLEAN /\ executed' \in Value
  BY <1>1 DEF Clocked, ExecuteCycle, Observe, Value
<1>10. ex' \in [pc : Value, taken : BOOLEAN, value : Addr]
  <2>1. (IF insn = "skip" THEN mepc + 1 ELSE 0) \in Addr
    BY <1>1, ControllerAssumption
  <2> QED BY <1>1, <1>3, <2>1, ControllerAssumption
          DEF Clocked, ExecuteCycle, NoInsn, Value
<1>11. /\ hwlp_start' \in [Loop -> Addr] /\ hwlp_end' \in [Loop -> Addr]
       /\ hwlp_counter' \in [Loop -> Nat]
  <2>1. /\ Program[pc_id].start \in Addr /\ Program[pc_id].end \in Addr
        /\ Program[pc_id].loop \in Loop /\ Program[pc_id].count \in Nat
    BY <1>1, ControllerAssumption
  <2>2. \A k \in c.hwlp_dec_cnt : k \in Loop /\ hwlp_counter[k] - 1 \in Nat
    BY <1>1, <1>2 DEF Counting
  <2> QED BY <1>1, <2>1, <2>2 DEF Clocked, LoopCycle, HwloopCycle
<1> QED BY <1>4, <1>5, <1>6, <1>7, <1>8, <1>9, <1>10, <1>11

\* Every register keeps its type, in a program memory in which each address has a
\* successor: the core fetches whatever follows (pc_if, pc_id of if_stage).
THEOREM TypeCorrect ==
  ASSUME \A a \in Addr : a + 1 \in Addr
  PROVE  Spec => []TypeOK
<1>1. Init => TypeOK
  <2> HAVE Init
  <2>1. /\ ctrl_fsm_cs \in States
        /\ {jump_done_q, debug_mode_q, illegal_insn_q, debug_req_entry_q,
            debug_force_wakeup_q, debug_req_q, hwlp_end_4_id_q} \subseteq BOOLEAN
    BY DEF Init, ControllerInit, States
  <2>2. {irq_i, irq_q, mie, mpie, step, tmatch_control_exec_q, instr_valid_id, wb, outstanding,
         fetch_enable_q, core_busy_q, stepped} \subseteq BOOLEAN
    BY LevelsAssumption DEF Init, SleepInit
  <2>3. /\ {pc_if, pc_id, mepc, dpc, boot} \subseteq Addr
        /\ {loop_target, executed} \subseteq Value
    BY ControllerAssumption DEF Init, Value
  <2>4. ex \in [pc : Value, taken : BOOLEAN, value : Addr]
    BY ControllerAssumption DEF Init, NoInsn, Value
  <2>5. /\ hwlp_counter \in [Loop -> Nat]
        /\ hwlp_start \in [Loop -> Addr] /\ hwlp_end \in [Loop -> Addr]
    BY ControllerAssumption DEF Init, HwloopInit
  <2> QED BY <2>1, <2>2, <2>3, <2>4, <2>5 DEF TypeOK
<1>2. TypeOK /\ [Next]_vars => TypeOK'
  <2>1. CASE UNCHANGED vars
    BY <2>1 DEF vars, controllerVars, pipelineVars, csrVars, hwlpVars, sleepVars,
                ghostVars, TypeOK
  <2>2. ASSUME TypeOK, NEW i \in Inputs, Cycle(i)
        PROVE  TypeOK'
    <3> DEFINE c == Controls(i, fetch_enable_q, boot)
               clocked == clock_en(wake_from_sleep(i))
    <3>1. c \in Outputs
      BY OutputType, <2>2 DEF TypeOK
    <3>2. /\ IF clocked THEN Clocked(i, c) ELSE UNCHANGED ClockedVars
          /\ SleepCycle(i.fetch_enable, outstanding, c.busy, lsu_busy, apu_busy)
          /\ DebugRequestCycle(i) /\ irq_i' \in irq_level /\ boot' = boot
      BY <2>2 DEF Cycle
    <3>3. fetch_enable_q' \in BOOLEAN /\ core_busy_q' \in BOOLEAN /\ debug_req_q' \in BOOLEAN
      BY <3>2 DEF SleepCycle, core_busy, DebugRequestCycle
    <3>4. irq_i' \in BOOLEAN /\ boot' \in Addr
      BY <2>2, <3>2, LevelsAssumption DEF TypeOK
    <3> HIDE DEF c
    <3>5. CASE clocked
      <4>1. Clocked(i, c)
        BY <3>2, <3>5
      <4> QED BY <2>2, <3>1, <3>3, <3>4, <4>1, ClockedType DEF TypeOK
    <3>6. CASE ~clocked
      <4>1. UNCHANGED ClockedVars
        BY <3>2, <3>6
      <4> QED BY <2>2, <3>3, <3>4, <4>1
              DEF ClockedVars, controllerVars, pipelineVars, csrVars, hwlpVars, ghostVars, TypeOK
    <3> QED BY <3>5, <3>6
  <2> QED BY <2>1, <2>2 DEF Next
<1> QED BY <1>1, <1>2, PTL DEF Spec

-----------------------------------------------------------------------------
(* When a hardware loop jumps.  While a loop runs, IF is an instruction    *)
(* ahead of ID and the controller announces the jump to the start of the   *)
(* body an instruction before its end.  That this comes in time depends on *)
(* where IF is in every state, which LoopInv records, and on the           *)
(* constraints the documentation puts on loop bodies.                      *)

\* A loop's registers are those of reset or what a set-up instruction wrote.
LoopsSetUp ==
  \A k \in Loop :
    \/ hwlp_start[k] = 0 /\ hwlp_end[k] = 0 /\ hwlp_counter[k] = 0
    \/ \E a \in Setups : /\ Program[a].loop = k
                         /\ hwlp_start[k] = Program[a].start
                         /\ hwlp_end[k] = Program[a].end

\* k goes round once more at the end of its body; a is its last instruction.
Last(k, a) == hwlp_end[k] = a + 1 /\ hwlp_counter[k] > 1

\* a is in the body of a loop that still has to run to its end.
InLoop(a) ==
  \E k \in Loop : /\ hwlp_start[k] <= a /\ a < hwlp_end[k]
                  /\ \/ hwlp_counter[k] > 1
                     \/ hwlp_counter[k] = 1 /\ a + 1 < hwlp_end[k]

\* Of the instructions allowed in a body, those that ID passes on to EX without a flush.
Plain == ~illegal_insn /\ insn \notin {"ebreak", "ecall"} /\ ~csr_status

\* In DECODE, IF goes on behind the instruction in ID, or at its target.
FetchInDecode ==
  ctrl_fsm_cs = "DECODE" /\ instr_valid_id =>
    pc_if = IF jump_done_q THEN Program[pc_id].target ELSE pc_id + 1

\* jump_done_q: ID holds a jump that IF has followed already.
JumpOnce ==
  ctrl_fsm_cs = "DECODE" /\ instr_valid_id /\ jump_done_q => insn = "jump"

\* In DECODE_HWLOOP execution is in a body, and IF is at most one instruction ahead of
\* ID: it goes on at the start of a loop that ends in ID, and keeps the start of the
\* loop that ends with the next instruction once the controller has announced it.
FetchInLoop ==
  ctrl_fsm_cs = "DECODE_HWLOOP" =>
    /\ InLoop(IF instr_valid_id THEN pc_id ELSE pc_if)
    /\ instr_valid_id =>
         /\ \A k \in Loop :
              /\ Last(k, pc_id) => pc_if = hwlp_start[k]
              /\ Last(k, pc_id + 1) => IF hwlp_end_4_id_q THEN loop_target = hwlp_start[k] /\ Plain
                                       ELSE loop_target = None
         /\ (\A k \in Loop : ~Last(k, pc_id)) => pc_if = pc_id + 1 /\ ~jump_done_q
         /\ (\A k \in Loop : ~Last(k, pc_id + 1)) => loop_target = None
    /\ ~instr_valid_id =>
         /\ \A k \in Loop : Last(k, pc_if) => loop_target = hwlp_start[k]
         /\ (\A k \in Loop : ~Last(k, pc_if)) => loop_target = None

\* A jump of a loop is under way only in its body, or until debug mode discards it.
TargetPending ==
  loop_target # None =>
    ctrl_fsm_cs \in {"DECODE_HWLOOP", "DBG_FLUSH", "DBG_TAKEN_ID", "DBG_TAKEN_IF"}

\* ID holds an instruction only where it is decoded, or awaited by a debug entry.
IdEmpty == ctrl_fsm_cs \notin {"DECODE", "DECODE_HWLOOP", "DBG_FLUSH"} => ~instr_valid_id

\* Nothing but a debug entry waits for a branch: no other state sees one in EX.
BranchInEx == branch_in_ex => ctrl_fsm_cs \in {"DECODE", "DBG_WAIT_BRANCH"}

\* The inductive invariant of the hardware loops.
LoopInv ==
  /\ LoopsSetUp /\ FetchInDecode /\ JumpOnce /\ FetchInLoop /\ TargetPending /\ IdEmpty
  /\ BranchInEx

\* The bodies [s[k], e[k]) do not overlap unless loop 0 is nested in loop 1.
Apart(s, e) ==
  \/ e[0] = 0 \/ e[1] = 0
  \/ e[0] <= s[1] \/ e[1] <= s[0]
  \/ s[1] <= s[0] /\ e[0] + 2 <= e[1]

\* What the constraints on programs make of the loop registers.
Geometry ==
  /\ \A k \in Loop : IF hwlp_end[k] = 0 THEN hwlp_counter[k] = 0
                     ELSE COREV_PULP /\ hwlp_start[k] + 3 <= hwlp_end[k]
  /\ \A k \in Loop, a \in Addr : hwlp_start[k] <= a /\ a < hwlp_end[k] =>
       /\ Op(a) \notin {"jump", "branch", "wfi", "fencei", "mret", "dret"}
       /\ Op(a) = "setup" => Program[a].loop # k
  /\ Apart(hwlp_start, hwlp_end)

\* Loops set up by an admissible program have admissible bodies (hwloop_regs).
LEMMA LoopGeometry ==
  ASSUME LoopsAdmissible, TypeOK, LoopsSetUp
  PROVE  Geometry
<1> DEFINE body(k, a) == hwlp_start[k] <= a /\ a < hwlp_end[k]
           from(k, a) == /\ Program[a].loop = k /\ hwlp_start[k] = Program[a].start
                         /\ hwlp_end[k] = Program[a].end
<1>1. /\ hwlp_start \in [Loop -> Nat] /\ hwlp_end \in [Loop -> Nat]
      /\ \A a \in Addr : Program[a].start \in Nat /\ Program[a].end \in Nat
      /\ Addr \subseteq Nat /\ Setups \subseteq Addr
  BY ControllerAssumption DEF TypeOK, Setups
<1>2. \A k \in Loop : \/ hwlp_start[k] = 0 /\ hwlp_end[k] = 0 /\ hwlp_counter[k] = 0
                      \/ \E a \in Setups : from(k, a)
  BY DEF LoopsSetUp
<1>3. \A k \in Loop : IF hwlp_end[k] = 0 THEN hwlp_counter[k] = 0
                      ELSE COREV_PULP /\ hwlp_start[k] + 3 <= hwlp_end[k]
  <2> TAKE k \in Loop
  <2>1. ASSUME NEW a \in Setups, from(k, a)
        PROVE  COREV_PULP /\ hwlp_start[k] + 3 <= hwlp_end[k] /\ hwlp_end[k] # 0
    BY <1>1, <2>1 DEF LoopsAdmissible
  <2> QED BY <1>2, <2>1
<1>4. ASSUME NEW k \in Loop, NEW a \in Addr, body(k, a)
      PROVE  /\ Op(a) \notin {"jump", "branch", "wfi", "fencei", "mret", "dret"}
             /\ Op(a) = "setup" => Program[a].loop # k
  <2>6. hwlp_end[k] # 0
    BY <1>1, <1>4
  <2>1. PICK b \in Setups : from(k, b)
    BY <1>2, <2>6
  <2>2. Op(a) = "setup" => a \in Setups
    BY DEF Setups
  <2>3. /\ Program[b].start <= a /\ a < Program[b].end /\ Program[b].loop = k
        /\ hwlp_end[k] = Program[b].end
    BY <1>4, <2>1
  <2>4. Op(a) \notin {"jump", "branch", "wfi", "fencei", "mret", "dret"}
    BY <2>3 DEF LoopsAdmissible
  <2>5. a \in Setups => Program[a].loop # k
    BY <2>3 DEF LoopsAdmissible
  <2> QED BY <2>2, <2>3, <2>4, <2>5
<1>5. Apart(hwlp_start, hwlp_end)
  <2> SUFFICES ASSUME NEW a \in Setups, NEW b \in Setups, from(0, a), from(1, b)
               PROVE  \/ hwlp_end[0] <= hwlp_start[1] \/ hwlp_end[1] <= hwlp_start[0]
                      \/ hwlp_start[1] <= hwlp_start[0] /\ hwlp_end[0] + 2 <= hwlp_end[1]
    BY <1>2 DEF Loop, Apart
  <2> QED BY <1>1 DEF LoopsAdmissible
<1> QED BY <1>3, <1>4, <1>5 DEF Geometry

\* A loop is not set up at the end of its own body or just before.
LEMMA SetUpAhead ==
  ASSUME LoopsAdmissible, NEW a \in Setups
  PROVE  Program[a].end \notin {a + 1, a + 2, a + 3}
<1>1. /\ a \in Nat /\ Program[a].start \in Nat /\ Program[a].end \in Nat
      /\ a \in Addr
  BY ControllerAssumption DEF Setups
<1>2. Program[a].start + 3 <= Program[a].end
  BY DEF LoopsAdmissible
<1>3. ~(Program[a].start <= a /\ a < Program[a].end)
  BY DEF LoopsAdmissible
<1> QED BY <1>1, <1>2, <1>3

\* A cycle of hwloop_regs keeps a loop, or counts down one that ends in ID, or sets one
\* up that ends neither here nor at the next two instructions and is not being executed.
LEMMA Registers ==
  ASSUME TypeOK, LoopsAdmissible, LoopsSetUp, Geometry, NEW i, NEW c, LoopCycle(i, c),
         \A k \in c.hwlp_dec_cnt : k \in Loop /\ hwlp_end[k] = pc_id + 1
  PROVE  /\ LoopsSetUp'
         /\ \A k \in Loop :
              \/ /\ hwlp_start'[k] = hwlp_start[k] /\ hwlp_end'[k] = hwlp_end[k]
                 /\ hwlp_counter'[k] =
                      IF k \in c.hwlp_dec_cnt /\ instr_valid_id /\ clear_instr_valid(i, c)
                        THEN hwlp_counter[k] - 1 ELSE hwlp_counter[k]
              \/ /\ c.is_decoding /\ id_ready(i) /\ insn = "setup"
                 /\ hwlp_end'[k] \notin {pc_id + 1, pc_id + 2, pc_id + 3}
                 /\ ~(hwlp_start[k] <= pc_id /\ pc_id < hwlp_end[k])
<1> DEFINE we == c.is_decoding /\ id_ready(i) /\ insn = "setup"
           n == Program[pc_id]
<1>1. /\ pc_id \in Addr /\ n.loop \in Loop
      /\ hwlp_start \in [Loop -> Addr] /\ hwlp_end \in [Loop -> Addr]
  BY ControllerAssumption DEF TypeOK
<1>2. /\ hwlp_start' = IF we THEN [hwlp_start EXCEPT ![n.loop] = n.start] ELSE hwlp_start
      /\ hwlp_end' = IF we THEN [hwlp_end EXCEPT ![n.loop] = n.end] ELSE hwlp_end
      /\ hwlp_counter' = [k \in Loop |->
           IF we /\ k = n.loop THEN n.count
           ELSE IF k \in c.hwlp_dec_cnt /\ instr_valid_id /\ clear_instr_valid(i, c)
             THEN hwlp_counter[k] - 1 ELSE hwlp_counter[k]]
  BY DEF LoopCycle, HwloopCycle
<1>3. we => pc_id \in Setups
  BY <1>1 DEF Setups, insn
<1>4. ASSUME NEW k \in Loop, ~(we /\ k = n.loop)
      PROVE  /\ hwlp_start'[k] = hwlp_start[k] /\ hwlp_end'[k] = hwlp_end[k]
             /\ hwlp_counter'[k] =
                  IF k \in c.hwlp_dec_cnt /\ instr_valid_id /\ clear_instr_valid(i, c)
                    THEN hwlp_counter[k] - 1 ELSE hwlp_counter[k]
  BY <1>1, <1>2, <1>4
<1>5. ASSUME we
      PROVE  hwlp_start'[n.loop] = n.start /\ hwlp_end'[n.loop] = n.end
  BY <1>1, <1>2, <1>5
<1>6. ASSUME we
      PROVE  n.end \notin {pc_id + 1, pc_id + 2, pc_id + 3}
  BY <1>3, <1>6, SetUpAhead
<1>7. ASSUME we
      PROVE  ~(hwlp_start[n.loop] <= pc_id /\ pc_id < hwlp_end[n.loop])
  BY <1>1, <1>7 DEF Geometry, insn
<1> HIDE DEF n, we
<1>8. LoopsSetUp'
  <2> SUFFICES ASSUME NEW k \in Loop
               PROVE  \/ hwlp_start'[k] = 0 /\ hwlp_end'[k] = 0 /\ hwlp_counter'[k] = 0
                      \/ \E a \in Setups : /\ Program[a].loop = k
                                           /\ hwlp_start'[k] = Program[a].start
                                           /\ hwlp_end'[k] = Program[a].end
    BY DEF LoopsSetUp, Setups
  <2>1. CASE we /\ k = n.loop
    BY <1>3, <1>5, <2>1 DEF n
  <2>2. CASE ~(we /\ k = n.loop)
    <3>1. k \in c.hwlp_dec_cnt => hwlp_end[k] # 0
      BY <1>1, ControllerAssumption
    <3> QED BY <1>4, <2>2, <3>1 DEF LoopsSetUp
  <2> QED BY <2>1, <2>2
<1>9. ASSUME NEW k \in Loop, we, k = n.loop
      PROVE  /\ hwlp_end'[k] \notin {pc_id + 1, pc_id + 2, pc_id + 3}
             /\ ~(hwlp_start[k] <= pc_id /\ pc_id < hwlp_end[k])
  BY <1>5, <1>6, <1>7, <1>9
<1> QED BY <1>4, <1>8, <1>9 DEF we

\* The states in which IF hands nothing over.
Held == States \ {"DECODE", "DECODE_HWLOOP", "FIRST_FETCH"}

\* What those states do: they neither decode nor announce a jump.
LEMMA HeldControls ==
  ASSUME ctrl_fsm_cs \in Held, NEW i, NEW f, NEW b, NEW c, c = Controls(i, f, b)
  PROVE  /\ c.is_decoding = FALSE /\ c.hwlp_end_4_id = FALSE
         /\ ctrl_fsm_cs = "DBG_FLUSH" => c.halt_id = TRUE
         /\ \A k \in c.hwlp_dec_cnt : ctrl_fsm_cs = "FLUSH_WB" /\ k \in Loop /\ hwlp_end_eq_pc(k)
         /\ c.ns # "DECODE_HWLOOP"
         /\ ctrl_fsm_cs = "DBG_FLUSH" => c.ns \in {"DBG_TAKEN_ID", "DBG_TAKEN_IF"}
         /\ ctrl_fsm_cs \in {"DBG_TAKEN_ID", "DBG_TAKEN_IF"} => c.pc_set = DebugHalt
<1>1. CASE ctrl_fsm_cs = "RESET"
  BY <1>1 DEF Controls, Default
<1>2. CASE ctrl_fsm_cs = "BOOT_SET"
  BY <1>2 DEF Controls, BootSet, WakeForDebug, Default
<1>3. CASE ctrl_fsm_cs = "WAIT_SLEEP"
  BY <1>3 DEF Controls, Asleep, Halted, Default
<1>4. CASE ctrl_fsm_cs = "SLEEP"
  BY <1>4 DEF Controls, Sleep, WakeForDebug, Asleep, Halted, Default
<1>5. CASE ctrl_fsm_cs = "FLUSH_EX"
  BY <1>5 DEF Controls, FlushEx, Halted, Default
<1>6. CASE ctrl_fsm_cs = "FLUSH_WB"
  BY <1>6 DEF Controls, FlushWb, WakeForDebug, Halted, Default
<1>7. CASE ctrl_fsm_cs = "XRET_JUMP"
  BY <1>7 DEF Controls, XretJump, Default
<1>8. CASE ctrl_fsm_cs = "DBG_WAIT_BRANCH"
  BY <1>8 DEF Controls, DbgWaitBranch, Default
<1>9. CASE ctrl_fsm_cs = "DBG_TAKEN_ID"
  BY <1>9 DEF Controls, DbgTakenId, EnterDebug, Default
<1>10. CASE ctrl_fsm_cs = "DBG_TAKEN_IF"
  BY <1>10 DEF Controls, DbgTakenIf, EnterDebug, Default
<1>11. CASE ctrl_fsm_cs = "DBG_FLUSH"
  BY <1>11 DEF Controls, DbgFlush, Halted, Default
<1> QED BY <1>1, <1>2, <1>3, <1>4, <1>5, <1>6, <1>7, <1>8, <1>9, <1>10, <1>11 DEF Held, States

\* A cycle of such a state: nothing moves to ID and nothing is issued from it.
LEMMA HeldLoopInv ==
  ASSUME TypeOK, LoopsAdmissible, LoopInv, ctrl_fsm_cs \in Held, NEW i \in Inputs, NEW f, NEW b,
         NEW c, c = Controls(i, f, b), Clocked(i, c)
  PROVE  LoopInv'
<1>1. /\ i.fetch_valid = FALSE
      /\ c.is_decoding = FALSE /\ c.hwlp_end_4_id = FALSE
      /\ ctrl_fsm_cs = "DBG_FLUSH" => c.halt_id = TRUE
      /\ ctrl_fsm_cs' = c.ns /\ c.ns # "DECODE_HWLOOP"
  <2>1. i.fetch_valid = FALSE
    BY DEF Inputs, Held
  <2>2. ctrl_fsm_cs' = c.ns
    BY DEF Clocked, ControllerCycle
  <2> QED BY <2>1, <2>2, HeldControls
<1>2. ~if_valid(i, c) /\ ~issue(i, c) /\ ~hwlp_jump(c)
  BY <1>1 DEF if_valid, issue, hwlp_jump
<1>3. instr_valid_id => ctrl_fsm_cs = "DBG_FLUSH"
  BY DEF IdEmpty, Held, States, LoopInv
<1>4. instr_valid_id' = FALSE
  BY <1>1, <1>2, <1>3 DEF Clocked, FetchCycle, clear_instr_valid, TypeOK
<1>5. loop_target' = IF c.pc_set # None THEN None ELSE loop_target
  BY <1>2 DEF Clocked, FetchCycle
<1>6. ex' = IF ex_ready(i) THEN NoInsn ELSE ex
  BY <1>2 DEF Clocked, ExecuteCycle
<1>7. LoopsSetUp'
  <2>1. Geometry
    BY LoopGeometry DEF LoopInv
  <2>2. \A k \in c.hwlp_dec_cnt : k \in Loop /\ hwlp_end[k] = pc_id + 1
    BY HeldControls DEF hwlp_end_eq_pc
  <2> QED BY <2>1, <2>2, Registers DEF LoopInv, Clocked
<1>8. FetchInDecode' /\ JumpOnce' /\ FetchInLoop' /\ IdEmpty'
  BY <1>1, <1>4 DEF FetchInDecode, JumpOnce, FetchInLoop, IdEmpty
<1>9. TargetPending'
  <2>1. DebugHalt # None
    BY ControllerAssumption
  <2> QED BY ZenonT(60), <1>1, <1>5, <2>1, HeldControls DEF TargetPending, LoopInv, Held, States
<1>10. BranchInEx'
  <2>1. branch_in_ex => ex_ready(i)
    BY DEF ex_ready
  <2> QED BY <1>6, <2>1 DEF BranchInEx, branch_in_ex, NoInsn
<1> QED BY <1>7, <1>8, <1>9, <1>10 DEF LoopInv

\* A cycle in which IF hands an instruction over: it follows the jump of a loop.
LEMMA HandOver ==
  ASSUME NEW i, NEW c, Clocked(i, c), if_valid(i, c)
  PROVE  /\ pc_id' = pc_if
         /\ pc_if' = LET target == IF hwlp_jump(c) THEN c.hwlp_targ ELSE loop_target
                     IN IF target # None THEN target ELSE pc_if + 1
         /\ loop_target' = None
         /\ instr_valid_id' = TRUE
         /\ jump_done_q' = FALSE
         /\ id_ready(i) /\ ~c.halt_if /\ c.pc_set = None
<1>1. id_ready(i) /\ ~c.halt_if /\ c.pc_set = None
  BY DEF if_valid
<1>2. /\ pc_id' = pc_if
      /\ pc_if' = LET target == IF hwlp_jump(c) THEN c.hwlp_targ ELSE loop_target
                  IN IF target # None THEN target ELSE pc_if + 1
      /\ loop_target' = None
  BY <1>1 DEF Clocked, FetchCycle
<1>3. instr_valid_id' = TRUE
  BY DEF Clocked, FetchCycle
<1>4. jump_done_q' = FALSE
  BY <1>1 DEF Clocked, ControllerCycle
<1> QED BY <1>1, <1>2, <1>3, <1>4

\* A cycle in which it does not: a loop's target is kept until it does.
LEMMA NoHandOver ==
  ASSUME NEW i, NEW c, Clocked(i, c), ~if_valid(i, c)
  PROVE  /\ pc_id' = pc_id
         /\ pc_if' = IF c.pc_set # None THEN c.pc_set ELSE pc_if
         /\ loop_target' = LET target == IF hwlp_jump(c) THEN c.hwlp_targ ELSE loop_target
                           IN IF c.pc_set # None THEN None ELSE target
         /\ instr_valid_id' <=> instr_valid_id /\ ~clear_instr_valid(i, c)
         /\ jump_done_q' <=> c.jump_done /\ ~id_ready(i)
<1>2. /\ pc_id' = pc_id
      /\ pc_if' = IF c.pc_set # None THEN c.pc_set ELSE pc_if
      /\ loop_target' = LET target == IF hwlp_jump(c) THEN c.hwlp_targ ELSE loop_target
                        IN IF c.pc_set # None THEN None ELSE target
  BY DEF Clocked, FetchCycle
<1>3. instr_valid_id' <=> instr_valid_id /\ ~clear_instr_valid(i, c)
  BY DEF Clocked, FetchCycle
<1>4. jump_done_q' <=> c.jump_done /\ ~id_ready(i)
  BY DEF Clocked, ControllerCycle
<1> QED BY <1>2, <1>3, <1>4

\* ... while ID decodes, with no jump of a loop under way.
LEMMA Decoded ==
  ASSUME NEW i, NEW c, Clocked(i, c), ~hwlp_jump(c), c.halt_id = FALSE, ~branch_taken_ex,
         loop_target = None, instr_valid_id
  PROVE  /\ if_valid(i, c) => /\ pc_id' = pc_if /\ instr_valid_id' /\ pc_if' = pc_if + 1
                              /\ ~jump_done_q'
                              /\ id_ready(i) /\ ~c.halt_if /\ c.pc_set = None
         /\ ~if_valid(i, c) => /\ pc_id' = pc_id
                               /\ pc_if' = IF c.pc_set # None THEN c.pc_set ELSE pc_if
                               /\ instr_valid_id' <=> ~id_ready(i)
                               /\ jump_done_q' <=> c.jump_done /\ ~id_ready(i)
         /\ loop_target' = None
<1>1. ASSUME if_valid(i, c)
      PROVE  /\ pc_id' = pc_if /\ instr_valid_id' /\ pc_if' = pc_if + 1
             /\ ~jump_done_q'
             /\ id_ready(i) /\ ~c.halt_if /\ c.pc_set = None
             /\ loop_target' = None
  BY <1>1, HandOver
<1>2. ASSUME ~if_valid(i, c)
      PROVE  /\ pc_id' = pc_id
             /\ pc_if' = IF c.pc_set # None THEN c.pc_set ELSE pc_if
             /\ instr_valid_id' <=> ~id_ready(i)
             /\ jump_done_q' <=> c.jump_done /\ ~id_ready(i)
             /\ loop_target' = None
  <2>1. clear_instr_valid(i, c) <=> id_ready(i)
    BY DEF clear_instr_valid
  <2> QED BY <2>1, <1>2, NoHandOver
<1> QED BY <1>1, <1>2

\* A cycle that decodes nothing and goes on in DECODE: ID is empty, or emptied by a
\* taken branch or an interrupt.
LEMMA DecodeNext ==
  ASSUME TypeOK, LoopsAdmissible, LoopInv, ctrl_fsm_cs \in {"FIRST_FETCH", "DECODE"},
         NEW i \in Inputs, NEW c, Clocked(i, c),
         c.ns = "DECODE", c.hwlp_end_4_id = FALSE, c.is_decoding = FALSE,
         c.hwlp_dec_cnt = {},
         \/ ~instr_valid_id
         \/ c.pc_set # None /\ (branch_taken_ex \/ c.halt_id)
  PROVE  LoopInv'
<1>1. ~hwlp_jump(c) /\ ~issue(i, c)
  BY DEF hwlp_jump, issue
<1>2. loop_target = None
  BY DEF LoopInv, TargetPending
<1>3. ASSUME if_valid(i, c)
      PROVE  /\ pc_id' = pc_if /\ pc_if' = pc_if + 1 /\ jump_done_q' = FALSE
             /\ loop_target' = None
  BY <1>1, <1>2, <1>3, HandOver
<1>6. ASSUME ~if_valid(i, c)
      PROVE  ~instr_valid_id' /\ loop_target' = None
  BY <1>1, <1>2, <1>6, NoHandOver DEF clear_instr_valid
<1>7. ctrl_fsm_cs' = "DECODE"
  BY DEF Clocked, ControllerCycle
<1>4. FetchInDecode' /\ JumpOnce' /\ FetchInLoop' /\ IdEmpty' /\ TargetPending' /\ BranchInEx'
  BY <1>3, <1>6, <1>7 DEF FetchInDecode, JumpOnce, FetchInLoop, IdEmpty, TargetPending, BranchInEx
<1>5. LoopsSetUp'
  <2>1. Geometry
    BY LoopGeometry DEF LoopInv
  <2> QED BY <2>1, Registers DEF LoopInv, Clocked
<1> QED BY <1>4, <1>5 DEF LoopInv

\* A cycle of FIRST_FETCH.
LEMMA FirstFetchLoopInv ==
  ASSUME TypeOK, LoopsAdmissible, LoopInv, ctrl_fsm_cs = "FIRST_FETCH", NEW i \in Inputs,
         Clocked(i, FirstFetch(i))
  PROVE  LoopInv'
<1> DEFINE c == FirstFetch(i)
<1>1. /\ c.ns = "DECODE" /\ c.hwlp_end_4_id = FALSE /\ c.is_decoding = FALSE
      /\ c.hwlp_dec_cnt = {}
  BY DEF FirstFetch, TakeIrq, Halted, Default
<1>2. ~instr_valid_id
  BY DEF LoopInv, IdEmpty
<1> HIDE DEF c
<1> QED BY <1>1, <1>2, DecodeNext DEF c

\* dcsr.step changes nothing of what ID does, ...
LEMMA SingleSteps ==
  ASSUME NEW i, NEW d, d \in Outputs, NEW c, c = SingleStep(i, d)
  PROVE  /\ c.pc_set = d.pc_set /\ c.hwlp_end_4_id = d.hwlp_end_4_id /\ c.halt_id = d.halt_id
         /\ c.is_decoding = d.is_decoding /\ c.hwlp_dec_cnt = d.hwlp_dec_cnt
         /\ c.jump_done = d.jump_done /\ c.hwlp_targ = d.hwlp_targ
BY DEF SingleStep, Outputs

\* ... lets nothing follow it, ...
LEMMA SingleStepHalts ==
  ASSUME NEW i, NEW d, d \in Outputs, NEW c, c = SingleStep(i, d)
  PROVE  c = d \/ c.halt_if = TRUE
BY DEF SingleStep, Outputs

\* ... and leaves DECODE or DECODE_HWLOOP once ID is ready: ...
LEMMA SingleStepNext ==
  ASSUME NEW i, NEW d, d \in Outputs, NEW c, c = SingleStep(i, d)
  PROVE  c.ns = d.ns \/ (id_ready(i) /\ c.ns \in {"FLUSH_EX", "DBG_WAIT_BRANCH", "DBG_FLUSH"}
                             /\ c.halt_if = TRUE)
BY DEF SingleStep, Outputs

\* ... for the outcome of a branch, ...
LEMMA SingleStepBranch ==
  ASSUME NEW i, NEW d, d \in Outputs, NEW c, c = SingleStep(i, d),
         id_ready(i), ~illegal_insn, insn = "branch"
  PROVE  c.ns \in {d.ns, "DBG_WAIT_BRANCH"}
BY DEF SingleStep, Outputs

\* ... or for debug mode.
LEMMA SingleStepPlain ==
  ASSUME NEW i, NEW d, d \in Outputs, NEW c, c = SingleStep(i, d),
         Plain, insn \notin {"mret", "branch"}
  PROVE  c.ns \in {d.ns, "DBG_FLUSH"}
BY DEF SingleStep, Outputs, Plain

\* Loops whose body ends with the instruction in ID, and that go round again.
Jumping == {k \in Loop : hwlp_end_eq_pc(k) /\ hwlp_counter[k] > 1}

\* The instructions with which DECODE looks at the loops.
Looks(i) == ~illegal_insn /\ insn \notin {"jump", "ebreak", "ecall", "fencei", "mret", "dret"}
            /\ ~csr_status /\ ~wfi_active(i)

\* What decoding in DECODE does: jumps once, flushes, or looks at the loops.
LEMMA DecodeInsnMoves ==
  ASSUME TypeOK, ctrl_fsm_cs = "DECODE", NEW i \in Inputs, NEW c,
         c = DecodeInsn(i)
  PROVE  /\ c.is_decoding = TRUE /\ c.halt_id = FALSE /\ c.hwlp_end_4_id = FALSE
         /\ \A k \in c.hwlp_dec_cnt : k \in Loop /\ hwlp_end_eq_pc(k)
         /\ insn = "jump" =>
              /\ c.ns = "DECODE"
              /\ c.pc_set = IF ~i.hazard /\ ~jump_done_q THEN Program[pc_id].target ELSE None
              /\ c.jump_done = (jump_done_q \/ ~i.hazard)
         /\ insn # "jump" /\ ~Looks(i) =>
              /\ c.pc_set = None /\ c.jump_done = jump_done_q /\ c.halt_if = TRUE
              /\ c.ns = "FLUSH_EX" => id_ready(i)
              /\ c.ns \in {"FLUSH_EX", "DECODE", "DBG_FLUSH"}
         /\ Looks(i) =>
              LET jumping == IF is_hwlp_body /\ ~jump_done_q THEN Jumping ELSE {} IN
              /\ c.pc_set = IF jumping # {} THEN hwlp_targ_addr ELSE None
              /\ c.jump_done = (jump_done_q \/ jumping # {})
              /\ c.ns = IF is_hwlp_body /\ \A k \in Loop : ~hwlp_end_eq_pc_plus4(k)
                        THEN "DECODE_HWLOOP" ELSE "DECODE"
              /\ \A k \in Jumping : jumping # {} => k \in c.hwlp_dec_cnt
              /\ \A k \in c.hwlp_dec_cnt : hwlp_counter[k] = 1 \/ k \in jumping
<1> DEFINE c0 == [Decoding EXCEPT !.illegal_insn = FALSE]
<1>1. /\ hwlp_counter \in [Loop -> Nat] /\ jump_done_q \in BOOLEAN /\ i = i
  BY DEF TypeOK
<1>5. i.hazard \in BOOLEAN
  BY DEF Inputs
<1>6. /\ c0.ns = "DECODE" /\ c0.pc_set = None /\ c0.jump_done = jump_done_q
      /\ c0.is_decoding = TRUE /\ c0.halt_id = FALSE /\ c0.hwlp_end_4_id = FALSE
      /\ c0.hwlp_dec_cnt = {}
  BY DEF Decoding, Default
<1>2. CASE insn = "jump"
  <2>1. c = Jump(i, c0) /\ ~Looks(i)
    BY <1>2 DEF DecodeInsn, illegal_insn, Looks
  <2>2. CASE ~i.hazard /\ ~jump_done_q
    <3>1. c = [c0 EXCEPT !.pc_set = Program[pc_id].target, !.jump_done = TRUE]
      BY <2>1, <2>2 DEF Jump
    <3> QED BY ZenonT(60), <1>1, <1>2, <1>5, <2>1, <2>2, <3>1 DEF Decoding, Default
  <2>3. CASE ~(~i.hazard /\ ~jump_done_q)
    <3>1. c = c0
      BY <2>1, <2>3 DEF Jump
    <3>2. c.jump_done = (jump_done_q \/ ~i.hazard)
      BY <1>1, <1>5, <1>6, <2>3, <3>1
    <3> HIDE DEF c0
    <3> QED BY <1>2, <1>6, <2>1, <2>3, <3>1, <3>2
  <2> QED BY <2>2, <2>3
<1>3. CASE insn # "jump" /\ ~Looks(i)
  <2>1. c \in {Flush(i, [c0 EXCEPT !.illegal_insn = TRUE]), Ebreak(i, c0), Flush(i, c0)}
    BY <1>3 DEF DecodeInsn, Looks
  <2> DEFINE out(d) == /\ d.is_decoding = TRUE /\ d.halt_id = FALSE /\ d.hwlp_end_4_id = FALSE
                       /\ d.hwlp_dec_cnt = {} /\ d.pc_set = None /\ d.jump_done = jump_done_q
                       /\ d.halt_if = TRUE /\ (d.ns = "FLUSH_EX" => id_ready(i))
                       /\ d.ns \in {"FLUSH_EX", "DECODE", "DBG_FLUSH"}
  <2>2. out(Flush(i, [c0 EXCEPT !.illegal_insn = TRUE])) /\ out(Flush(i, c0))
    BY DEF Flush, Decoding, Default
  <2>3. out(Ebreak(i, c0))
    BY <2>2 DEF Ebreak, Decoding, Default
  <2>4. out(c)
    BY <2>1, <2>2, <2>3
  <2> QED BY <1>3, <2>4
<1>4. CASE Looks(i)
  <2>1. c = LoopInDecode(c0)
    BY <1>4 DEF DecodeInsn, Looks
  <2> DEFINE ending(n) == {k \in Loop : hwlp_end_eq_pc(k) /\ (n = 1 <=> hwlp_counter[k] = 1)
                                                   /\ hwlp_counter[k] >= n}
             jumping == IF is_hwlp_body /\ ~jump_done_q THEN Jumping ELSE {}
  <2>2. ending(2) = Jumping
    BY <1>1 DEF Jumping
  <2>3. \A k \in ending(1) : k \in Loop /\ hwlp_end_eq_pc(k) /\ hwlp_counter[k] = 1
    OBVIOUS
  <2>4. jumping \subseteq Jumping /\ \A k \in Jumping : k \in Loop /\ hwlp_end_eq_pc(k)
    BY DEF Jumping
  <2>5. c = [c0 EXCEPT
        !.ns = IF is_hwlp_body /\ \A k \in Loop : ~hwlp_end_eq_pc_plus4(k)
                 THEN "DECODE_HWLOOP" ELSE "DECODE",
        !.pc_set = IF jumping # {} THEN hwlp_targ_addr ELSE None,
        !.jump_done = jump_done_q \/ jumping # {},
        !.hwlp_dec_cnt = jumping \cup ending(1)]
    BY <2>1, <2>2 DEF LoopInDecode
  <2> HIDE DEF jumping, ending
  <2>6. /\ c.is_decoding = TRUE /\ c.halt_id = FALSE /\ c.hwlp_end_4_id = FALSE
        /\ c.ns = IF is_hwlp_body /\ \A k \in Loop : ~hwlp_end_eq_pc_plus4(k)
                 THEN "DECODE_HWLOOP" ELSE "DECODE"
        /\ c.pc_set = IF jumping # {} THEN hwlp_targ_addr ELSE None
        /\ c.jump_done = (jump_done_q \/ jumping # {})
        /\ c.hwlp_dec_cnt = jumping \cup ending(1)
    BY <2>5 DEF Decoding, Default
  <2>7. insn # "jump"
    BY <1>4 DEF Looks
  <2>8. jumping # {} => jumping = Jumping
    BY DEF jumping
  <2> QED BY <1>4, <2>3, <2>4, <2>6, <2>7, <2>8 DEF jumping
<1> QED BY <1>2, <1>3, <1>4

\* In admissible bodies no two loops end together or one instruction apart, a loop does
\* not end with the first instruction of a body, and loop 1 not inside the body of loop 0.
LEMMA BodiesApart ==
  ASSUME NEW s \in [Loop -> Nat], NEW e \in [Loop -> Nat], Apart(s, e),
         \A k \in Loop : e[k] # 0 => s[k] + 3 <= e[k]
  PROVE  /\ \A k, m \in Loop, a \in Nat : e[k] = a + 1 => e[m] # a + 2 /\ (e[m] = a + 1 => k = m)
         /\ \A k, m \in Loop : e[k] # 0 => e[m] # s[k] + 1
         /\ \A a \in Nat : e[1] = a + 1 => ~(s[0] <= a /\ a + 1 <= e[0])
<1>1. s[0] \in Nat /\ s[1] \in Nat /\ e[0] \in Nat /\ e[1] \in Nat
  BY DEF Loop
<1>2. /\ e[0] # 0 => s[0] + 3 <= e[0]
      /\ e[1] # 0 => s[1] + 3 <= e[1]
  BY DEF Loop
<1>3. \/ e[0] = 0 \/ e[1] = 0
      \/ e[0] <= s[1] \/ e[1] <= s[0]
      \/ s[1] <= s[0] /\ e[0] + 2 <= e[1]
  BY DEF Apart
<1>4. ASSUME NEW a \in Nat
      PROVE  /\ e[0] = a + 1 => e[1] \notin {a + 1, a + 2} /\ e[0] # a + 2
             /\ e[1] = a + 1 => e[0] \notin {a + 1, a + 2} /\ e[1] # a + 2
             /\ e[1] = a + 1 => ~(s[0] <= a /\ a + 1 <= e[0])
  BY <1>1, <1>2, <1>3
<1>5. /\ e[0] # 0 => e[0] # s[0] + 1 /\ e[1] # s[0] + 1
      /\ e[1] # 0 => e[0] # s[1] + 1 /\ e[1] # s[1] + 1
  BY <1>1, <1>2, <1>3
<1>6. \A k \in Loop : k = 0 \/ k = 1
  BY DEF Loop
<1>7. \A k, m \in Loop, a \in Nat : e[k] = a + 1 => e[m] # a + 2 /\ (e[m] = a + 1 => k = m)
  BY <1>4, <1>6
<1>8. \A k, m \in Loop : e[k] # 0 => e[m] # s[k] + 1
  BY <1>5, <1>6
<1> QED BY <1>4, <1>7, <1>8

\* A loop that ends in ID jumps to its own start (hwlp_targ_addr).
LEMMA JumpTarget ==
  ASSUME TypeOK, Geometry, NEW k \in Loop, hwlp_end_eq_pc(k)
  PROVE  hwlp_targ_addr = hwlp_start[k]
<1>1. /\ hwlp_start \in [Loop -> Nat] /\ hwlp_end \in [Loop -> Nat] /\ pc_id \in Nat
  BY ControllerAssumption DEF TypeOK
<1>2. hwlp_end[k] = pc_id + 1
  BY DEF hwlp_end_eq_pc
<1>3. /\ Apart(hwlp_start, hwlp_end)
      /\ \A m \in Loop : hwlp_end[m] # 0 => hwlp_start[m] + 3 <= hwlp_end[m]
  BY DEF Geometry
<1>4. hwlp_end[1] = pc_id + 1 => ~(hwlp_start[0] <= pc_id /\ pc_id + 1 <= hwlp_end[0])
  BY <1>1, <1>3, BodiesApart
<1>5. hwlp_start[k] <= pc_id
  BY <1>1, <1>2, <1>3
<1>6. CASE k = 0
  BY <1>1, <1>2, <1>5, <1>6 DEF hwlp_targ_addr, InBody
<1>7. CASE k = 1
  BY <1>1, <1>2, <1>4, <1>5, <1>7 DEF hwlp_targ_addr, InBody
<1> QED BY <1>6, <1>7 DEF Loop

\* The same of the next state.
LEMMA LoopGeometryNext ==
  ASSUME LoopsAdmissible
  PROVE  (TypeOK /\ LoopsSetUp => Geometry)'
<1>1. TypeOK /\ LoopsSetUp => Geometry
  BY LoopGeometry
<1> QED BY <1>1, PTL

\* A cycle of DECODE in which ID decodes.
LEMMA DecodingLoopInv ==
  ASSUME TypeOK, TypeOK', LoopsAdmissible, LoopInv, ctrl_fsm_cs = "DECODE", NEW i \in Inputs,
         instr_valid_id, ~branch_taken_ex, DecodeInsn(i) \in Outputs,
         NEW c, c = SingleStep(i, DecodeInsn(i)), Clocked(i, c)
  PROVE  LoopInv'
<1> DEFINE d == DecodeInsn(i)
           jumping == IF is_hwlp_body /\ ~jump_done_q THEN Jumping ELSE {}
<1>1. /\ pc_id \in Nat /\ pc_if \in Nat /\ jump_done_q \in BOOLEAN /\ instr_valid_id = TRUE
      /\ pc_id \in Addr /\ None \notin Addr /\ Program[pc_id].target \in Addr
      /\ hwlp_start \in [Loop -> Nat] /\ hwlp_end \in [Loop -> Nat]
      /\ hwlp_start \in [Loop -> Addr]
      /\ hwlp_counter \in [Loop -> Nat]
      /\ hwlp_start' \in [Loop -> Nat] /\ hwlp_end' \in [Loop -> Nat]
      /\ hwlp_counter' \in [Loop -> Nat]
  BY ControllerAssumption DEF TypeOK
<1>2. Geometry /\ LoopsSetUp
  BY LoopGeometry DEF LoopInv
<1>3. /\ loop_target = None
      /\ pc_if = IF jump_done_q THEN Program[pc_id].target ELSE pc_id + 1
      /\ jump_done_q => insn = "jump"
  BY DEF LoopInv, TargetPending, FetchInDecode, JumpOnce
<1>4. /\ c.is_decoding = TRUE /\ c.halt_id = FALSE /\ c.hwlp_end_4_id = FALSE
      /\ \A k \in c.hwlp_dec_cnt : k \in Loop /\ hwlp_end_eq_pc(k)
      /\ c.pc_set = d.pc_set /\ c.jump_done = d.jump_done
      /\ c.ns = d.ns \/ (id_ready(i) /\ c.ns \in {"FLUSH_EX", "DBG_WAIT_BRANCH", "DBG_FLUSH"}
                             /\ c.halt_if = TRUE)
      /\ c.hwlp_dec_cnt = d.hwlp_dec_cnt
      /\ d.halt_if = TRUE => c.halt_if = TRUE
  <2>1. /\ d.is_decoding = TRUE /\ d.halt_id = FALSE /\ d.hwlp_end_4_id = FALSE
        /\ \A k \in d.hwlp_dec_cnt : k \in Loop /\ hwlp_end_eq_pc(k)
    BY DecodeInsnMoves
  <2> HIDE DEF d
  <2>2. /\ d \in Outputs /\ c = SingleStep(i, d)
    BY DEF d
  <2>3. /\ c.ns = d.ns \/ (id_ready(i) /\ c.ns \in {"FLUSH_EX", "DBG_WAIT_BRANCH", "DBG_FLUSH"}
                             /\ c.halt_if = TRUE)
        /\ c.pc_set = d.pc_set /\ c.hwlp_end_4_id = d.hwlp_end_4_id /\ c.halt_id = d.halt_id
        /\ c.is_decoding = d.is_decoding /\ c.hwlp_dec_cnt = d.hwlp_dec_cnt
        /\ c.jump_done = d.jump_done
        /\ d.halt_if = TRUE => c.halt_if = TRUE
    <3>1. c = d \/ c.halt_if = TRUE
      BY <2>2, SingleStepHalts
    <3>2. c.ns = d.ns \/ (id_ready(i) /\ c.ns \in {"FLUSH_EX", "DBG_WAIT_BRANCH", "DBG_FLUSH"}
                             /\ c.halt_if = TRUE)
      BY <2>2, SingleStepNext
    <3>3. /\ c.pc_set = d.pc_set /\ c.hwlp_end_4_id = d.hwlp_end_4_id /\ c.halt_id = d.halt_id
          /\ c.is_decoding = d.is_decoding /\ c.hwlp_dec_cnt = d.hwlp_dec_cnt
          /\ c.jump_done = d.jump_done
      BY <2>2, SingleSteps
    <3> QED BY <3>1, <3>2, <3>3
  <2> QED BY <2>1, <2>3
<1>5. /\ insn = "jump" =>
              /\ d.ns = "DECODE"
              /\ d.pc_set = IF ~i.hazard /\ ~jump_done_q THEN Program[pc_id].target ELSE None
              /\ d.jump_done = (jump_done_q \/ ~i.hazard)
      /\ insn # "jump" /\ ~Looks(i) =>
              /\ d.pc_set = None /\ d.jump_done = jump_done_q /\ d.halt_if = TRUE
              /\ d.ns = "FLUSH_EX" => id_ready(i)
              /\ d.ns \in {"FLUSH_EX", "DECODE", "DBG_FLUSH"}
      /\ Looks(i) =>
              /\ d.pc_set = IF jumping # {} THEN hwlp_targ_addr ELSE None
              /\ d.jump_done = (jump_done_q \/ jumping # {})
              /\ d.ns = IF is_hwlp_body /\ \A k \in Loop : ~hwlp_end_eq_pc_plus4(k)
                        THEN "DECODE_HWLOOP" ELSE "DECODE"
              /\ \A k \in Jumping : jumping # {} => k \in d.hwlp_dec_cnt
              /\ \A k \in d.hwlp_dec_cnt : hwlp_counter[k] = 1 \/ k \in jumping
  BY DecodeInsnMoves
<1>6. Looks(i) => insn # "jump" /\ ~jump_done_q
  BY <1>3 DEF Looks
<1> HIDE DEF d
<1>7. /\ if_valid(i, c) => /\ pc_id' = pc_if /\ instr_valid_id' /\ pc_if' = pc_if + 1
                           /\ ~jump_done_q'
                           /\ id_ready(i) /\ ~c.halt_if /\ c.pc_set = None
      /\ ~if_valid(i, c) => /\ pc_id' = pc_id
                            /\ pc_if' = IF c.pc_set # None THEN c.pc_set ELSE pc_if
                            /\ instr_valid_id' <=> ~id_ready(i)
                            /\ jump_done_q' <=> c.jump_done /\ ~id_ready(i)
      /\ loop_target' = None
      /\ ctrl_fsm_cs' = c.ns
  <2>1. ~hwlp_jump(c)
    BY <1>4 DEF hwlp_jump
  <2>2. ctrl_fsm_cs' = c.ns
    BY DEF Clocked, ControllerCycle
  <2> QED BY <1>3, <1>4, <2>1, <2>2, Decoded
<1>8. LoopsSetUp' /\ Geometry'
      /\ \A k \in Loop :
              \/ /\ hwlp_start'[k] = hwlp_start[k] /\ hwlp_end'[k] = hwlp_end[k]
                 /\ hwlp_counter'[k] = IF k \in c.hwlp_dec_cnt /\ id_ready(i)
                        THEN hwlp_counter[k] - 1 ELSE hwlp_counter[k]
              \/ /\ id_ready(i) /\ insn = "setup"
                 /\ hwlp_end'[k] \notin {pc_id + 1, pc_id + 2, pc_id + 3}
                 /\ ~(hwlp_start[k] <= pc_id /\ pc_id < hwlp_end[k])
  <2>1. LoopCycle(i, c)
    BY DEF Clocked
  <2>2. \A k \in c.hwlp_dec_cnt : k \in Loop /\ hwlp_end[k] = pc_id + 1
    BY <1>4 DEF hwlp_end_eq_pc
  <2>3. clear_instr_valid(i, c) <=> id_ready(i)
    BY <1>4 DEF clear_instr_valid
  <2>4. LoopsSetUp'
    BY <1>2, <2>1, <2>2, Registers
  <2>5. Geometry'
    BY <2>4, LoopGeometryNext
  <2>7. \A k \in Loop :
              \/ /\ hwlp_start'[k] = hwlp_start[k] /\ hwlp_end'[k] = hwlp_end[k]
                 /\ hwlp_counter'[k] =
                      IF k \in c.hwlp_dec_cnt /\ instr_valid_id /\ clear_instr_valid(i, c)
                        THEN hwlp_counter[k] - 1 ELSE hwlp_counter[k]
              \/ /\ c.is_decoding /\ id_ready(i) /\ insn = "setup"
                 /\ hwlp_end'[k] \notin {pc_id + 1, pc_id + 2, pc_id + 3}
                 /\ ~(hwlp_start[k] <= pc_id /\ pc_id < hwlp_end[k])
    BY <1>2, <2>1, <2>2, Registers
  <2> QED BY <2>3, <2>4, <2>5, <2>7
<1>9. /\ c.ns \in {"DECODE", "DECODE_HWLOOP", "FLUSH_EX", "DBG_WAIT_BRANCH", "DBG_FLUSH"}
      /\ c.ns \in {"FLUSH_EX", "DBG_WAIT_BRANCH"} => id_ready(i) /\ c.halt_if = TRUE
      /\ c.ns \in {"DECODE", "DECODE_HWLOOP"} => c.ns = d.ns
  BY <1>4, <1>5
<1>10. IdEmpty' /\ TargetPending'
  BY <1>7, <1>9 DEF IdEmpty, TargetPending
<1>11. BranchInEx'
  <2>1. insn = "branch" /\ Looks(i) => ~is_hwlp_body
    BY <1>1, <1>2 DEF Geometry, is_hwlp_body, InBody, insn
  <2>2. ex' = IF issue(i, c) /\ ~illegal_insn
                THEN [pc |-> pc_id, taken |-> i.taken,
                      value |-> IF insn = "skip" THEN mepc + 1 ELSE 0]
              ELSE IF ex_ready(i) THEN NoInsn ELSE ex
    BY DEF Clocked, ExecuteCycle
  <2>3. branch_in_ex' => insn = "branch" /\ issue(i, c) /\ ~illegal_insn
    BY <2>2 DEF branch_in_ex, ex_ready, NoInsn, insn
  <2>4. insn = "branch" /\ ~illegal_insn => Looks(i)
    BY DEF Looks, csr_status, wfi_active
  <2>5. issue(i, c) => id_ready(i)
    BY DEF issue
  <2>6. insn = "branch" /\ issue(i, c) /\ ~illegal_insn => c.ns \in {"DECODE", "DBG_WAIT_BRANCH"}
    <3> SUFFICES ASSUME insn = "branch", issue(i, c), ~illegal_insn
                 PROVE  c.ns \in {"DECODE", "DBG_WAIT_BRANCH"}
      OBVIOUS
    <3>1. d.ns = "DECODE"
      BY <1>5, <2>1, <2>4
    <3>2. c.ns \in {d.ns, "DBG_WAIT_BRANCH"}
      BY <2>5, SingleStepBranch DEF d
    <3> QED BY <3>1, <3>2
  <2> QED BY <1>7, <2>3, <2>6 DEF BranchInEx
<1>12. CASE c.ns \notin {"DECODE", "DECODE_HWLOOP"}
  BY <1>7, <1>8, <1>10, <1>11, <1>12
     DEF LoopInv, FetchInDecode, JumpOnce, FetchInLoop
<1>13. CASE c.ns = "DECODE"
  <2>1. Looks(i) => jumping = {}
    <3> SUFFICES ASSUME Looks(i), NEW k \in Loop, is_hwlp_body, hwlp_end_eq_pc(k)
                 PROVE  FALSE
      BY DEF Jumping
    <3>1. PICK m \in Loop : hwlp_end_eq_pc_plus4(m)
      BY <1>5, <1>9, <1>13
    <3>2. hwlp_end[k] = pc_id + 1 /\ hwlp_end[m] = pc_id + 2
      BY <3>1 DEF hwlp_end_eq_pc, hwlp_end_eq_pc_plus4
    <3>3. Apart(hwlp_start, hwlp_end) /\ \A n \in Loop : hwlp_end[n] # 0 => hwlp_start[n] + 3 <= hwlp_end[n]
      BY <1>2 DEF Geometry
    <3> QED BY <1>1, <3>2, <3>3, BodiesApart
  <2>2. insn # "jump" => c.pc_set = None /\ c.jump_done = FALSE
    BY <1>1, <1>3, <1>4, <1>5, <1>6, <2>1
  <2>3. FetchInDecode' /\ JumpOnce'
    <3>1. CASE if_valid(i, c)
      BY <1>7, <3>1 DEF FetchInDecode, JumpOnce
    <3>2. CASE ~if_valid(i, c) /\ insn # "jump"
      BY <1>3, <1>7, <2>2, <3>2 DEF FetchInDecode, JumpOnce
    <3>3. CASE ~if_valid(i, c) /\ insn = "jump"
      BY <1>1, <1>3, <1>4, <1>5, <1>7, <3>3 DEF FetchInDecode, JumpOnce, insn
    <3> QED BY <3>1, <3>2, <3>3
  <2>4. FetchInLoop'
    BY <1>7, <1>13 DEF FetchInLoop
  <2> QED BY <1>8, <1>10, <1>11, <2>3, <2>4 DEF LoopInv
<1>14. CASE c.ns = "DECODE_HWLOOP"
  <2>1. /\ Looks(i) /\ is_hwlp_body /\ \A k \in Loop : ~hwlp_end_eq_pc_plus4(k)
        /\ insn # "jump" /\ jump_done_q = FALSE /\ pc_if = pc_id + 1
    BY <1>1, <1>3, <1>5, <1>6, <1>9, <1>14
  <2>2. jumping = Jumping
    BY <2>1
  <2>3. COREV_PULP
    BY <2>1 DEF is_hwlp_body
  <2>4. /\ c.pc_set = IF Jumping # {} THEN hwlp_targ_addr ELSE None
        /\ c.jump_done <=> Jumping # {}
        /\ \A k \in Jumping : k \in c.hwlp_dec_cnt
        /\ \A k \in c.hwlp_dec_cnt : hwlp_counter[k] = 1 \/ k \in Jumping
    BY <1>4, <1>5, <2>1, <2>2
  <2>5. PICK b \in Loop : InBody(b) /\ hwlp_counter[b] > 1
    BY <2>1 DEF is_hwlp_body
  <2>6. \A k \in Loop : (k \in Jumping <=> Last(k, pc_id))
    BY <2>3 DEF Jumping, Last, hwlp_end_eq_pc
  <2>7. \A k \in Loop : hwlp_end[k] # pc_id + 2
    BY <2>1, <2>3 DEF hwlp_end_eq_pc_plus4
  <2>8. \A k \in Jumping : hwlp_targ_addr = hwlp_start[k]
    BY <1>2, JumpTarget DEF Jumping
  <2>9. CASE ~id_ready(i)
    <3>1. /\ ~if_valid(i, c) /\ pc_id' = pc_id /\ instr_valid_id'
          /\ pc_if' = IF c.pc_set # None THEN c.pc_set ELSE pc_if
          /\ jump_done_q' <=> Jumping # {}
          /\ loop_target' = None
      BY <1>7, <2>4, <2>9
    <3>2. \A k \in Loop : /\ hwlp_start'[k] = hwlp_start[k] /\ hwlp_end'[k] = hwlp_end[k]
                          /\ hwlp_counter'[k] = hwlp_counter[k]
      BY <1>8, <2>9
    <3>3. \A k \in Loop : ~Last(k, pc_id + 1)'
      BY <1>1, <2>7, <3>1, <3>2 DEF Last
    <3>4. \A k \in Loop : Last(k, pc_id)' => pc_if' = hwlp_start'[k]
      <4> SUFFICES ASSUME NEW k \in Loop, Last(k, pc_id)'
                   PROVE  pc_if' = hwlp_start'[k]
        OBVIOUS
      <4>1. Last(k, pc_id)
        BY <3>1, <3>2 DEF Last
      <4>2. hwlp_start[k] \in Addr
        BY <1>1
      <4> QED BY <1>1, <2>4, <2>6, <2>8, <3>1, <3>2, <4>1, <4>2
    <3>5. (\A k \in Loop : ~Last(k, pc_id)') => pc_if' = pc_id' + 1 /\ ~jump_done_q'
      <4>1. \A k \in Loop : Last(k, pc_id) => Last(k, pc_id)'
        BY <3>1, <3>2 DEF Last
      <4>2. Jumping \subseteq Loop
        BY DEF Jumping
      <4> QED BY <2>1, <2>4, <2>6, <3>1, <4>1, <4>2
    <3>6. InLoop(pc_id)'
      BY <1>1, <2>5, <3>1, <3>2 DEF InLoop, InBody
    <3>7. FetchInLoop'
      BY <3>1, <3>3, <3>4, <3>5, <3>6 DEF FetchInLoop
    <3> QED BY <1>7, <1>8, <1>10, <1>11, <1>14, <3>7 DEF LoopInv, FetchInDecode, JumpOnce
  <2>10. CASE id_ready(i)
    <3>1. hwlp_start'[b] = hwlp_start[b] /\ hwlp_end'[b] = hwlp_end[b]
      BY <1>1, <1>8, <2>5 DEF InBody
    <3>2. \A k \in Loop : hwlp_end'[k] # pc_id + 2
      BY <1>8, <2>7
    <3>3. ASSUME Jumping = {}
          PROVE  /\ b \notin c.hwlp_dec_cnt /\ hwlp_counter'[b] > 1
                 /\ hwlp_start'[b] <= pc_id + 1 /\ pc_id + 1 < hwlp_end'[b]
      <4>1. b \notin c.hwlp_dec_cnt
        BY <1>1, <2>4, <2>5, <3>3
      <4>2. hwlp_counter'[b] = hwlp_counter[b]
        BY <1>1, <1>8, <2>5, <4>1 DEF InBody
      <4>3. hwlp_end[b] # pc_id + 1
        BY <2>3, <2>5, <3>3 DEF Jumping, hwlp_end_eq_pc
      <4> QED BY <1>1, <2>5, <3>1, <4>1, <4>2, <4>3 DEF InBody
    <3>4. CASE if_valid(i, c)
      <4>1. /\ Jumping = {} /\ pc_id' = pc_id + 1 /\ instr_valid_id' /\ pc_if' = pc_id' + 1
            /\ ~jump_done_q' /\ loop_target' = None /\ ~hwlp_end_4_id_q'
        <5>1. hwlp_end_4_id_q' = FALSE
          BY <1>4 DEF Clocked, ControllerCycle
        <5>2. hwlp_targ_addr # None
          BY <1>1, TargetType
        <5> QED BY <1>7, <2>1, <2>4, <3>4, <5>1, <5>2
      <4>2. InLoop(pc_id)'
        BY <3>3, <4>1 DEF InLoop
      <4>3. \A k \in Loop : ~Last(k, pc_id)'
        BY <1>1, <3>2, <4>1 DEF Last
      <4>4. FetchInLoop'
        BY <4>1, <4>2, <4>3 DEF FetchInLoop
      <4> QED BY <1>7, <1>8, <1>10, <1>11, <1>14, <4>4 DEF LoopInv, FetchInDecode, JumpOnce
    <3>5. CASE ~if_valid(i, c)
      <4>1. /\ pc_if' = IF c.pc_set # None THEN c.pc_set ELSE pc_id + 1
            /\ ~instr_valid_id' /\ loop_target' = None
        BY <1>7, <2>1, <2>10, <3>5
      <4>2. CASE Jumping = {}
        <5>1. pc_if' = pc_id + 1
          BY <2>4, <4>1, <4>2
        <5>2. InLoop(pc_if)'
          BY <3>3, <4>2, <5>1 DEF InLoop
        <5>3. \A k \in Loop : ~Last(k, pc_if)'
          BY <1>1, <3>2, <5>1 DEF Last
        <5>4. FetchInLoop'
          BY <4>1, <5>2, <5>3 DEF FetchInLoop
        <5> QED BY <1>7, <1>8, <1>10, <1>11, <1>14, <5>4 DEF LoopInv, FetchInDecode, JumpOnce
      <4>3. CASE Jumping # {}
        <5>1. PICK k \in Loop : k \in Jumping /\ Last(k, pc_id)
          BY <2>6, <4>3 DEF Jumping
        <5>2. pc_if' = hwlp_start[k]
          BY <1>1, <2>4, <2>8, <4>1, <5>1
        <5>3. /\ hwlp_start[k] + 3 <= hwlp_end[k] /\ hwlp_end[k] = pc_id + 1 /\ hwlp_counter[k] > 1
          BY <1>1, <1>2, <5>1 DEF Geometry, Last
        <5>4. /\ hwlp_start'[k] = hwlp_start[k] /\ hwlp_end'[k] = hwlp_end[k]
              /\ hwlp_counter'[k] = hwlp_counter[k] - 1
          BY <1>1, <1>8, <2>4, <2>10, <5>1, <5>3
        <5>5. InLoop(pc_if)'
          BY <1>1, <5>2, <5>3, <5>4 DEF InLoop
        <5>6. \A m \in Loop : ~Last(m, pc_if)'
          <6>1. /\ Apart(hwlp_start', hwlp_end')
                /\ \A m \in Loop : hwlp_end'[m] # 0 => hwlp_start'[m] + 3 <= hwlp_end'[m]
            BY <1>8 DEF Geometry, Apart
          <6>2. hwlp_end'[k] # 0
            BY <1>1, <5>3, <5>4
          <6>3. \A m \in Loop : hwlp_end'[m] # hwlp_start'[k] + 1
            BY <1>1, <6>1, <6>2, BodiesApart
          <6> QED BY <5>2, <5>4, <6>3 DEF Last
        <5>7. FetchInLoop'
          BY <4>1, <5>5, <5>6 DEF FetchInLoop
        <5> QED BY <1>7, <1>8, <1>10, <1>11, <1>14, <5>7 DEF LoopInv, FetchInDecode, JumpOnce
      <4> QED BY <4>2, <4>3
    <3> QED BY <3>4, <3>5
  <2> QED BY <2>9, <2>10
<1> QED BY <1>9, <1>12, <1>13, <1>14

\* A cycle of DECODE.
LEMMA DecodeLoopInv ==
  ASSUME TypeOK, TypeOK', LoopsAdmissible, LoopInv, ctrl_fsm_cs = "DECODE", NEW i \in Inputs,
         NEW c, c = Decode(i), Clocked(i, c)
  PROVE  LoopInv'
<1>1. CASE branch_taken_ex
  <2>1. c = [Default EXCEPT !.pc_set = Program[ex.pc].target]
    BY <1>1 DEF Decode
  <2>2. Program[ex.pc].target # None
    BY <1>1, ControllerAssumption DEF branch_taken_ex, branch_in_ex, TypeOK, Value
  <2>3. /\ c.ns = "DECODE" /\ c.hwlp_end_4_id = FALSE /\ c.is_decoding = FALSE
        /\ c.hwlp_dec_cnt = {} /\ c.pc_set # None
    BY <2>1, <2>2 DEF Default
  <2> QED BY <1>1, <2>3, DecodeNext
<1>2. CASE ~branch_taken_ex /\ ~instr_valid_id
  <2>1. c = Default
    BY <1>2 DEF Decode
  <2>2. /\ c.ns = "DECODE" /\ c.hwlp_end_4_id = FALSE /\ c.is_decoding = FALSE
        /\ c.hwlp_dec_cnt = {}
    BY <2>1 DEF Default
  <2> QED BY <1>2, <2>2, DecodeNext
<1>3. CASE /\ ~branch_taken_ex /\ instr_valid_id
           /\ (debug_req_pending(i) \/ trigger_match) /\ ~debug_mode_q
  <2>1. c = [DebugRequest EXCEPT !.illegal_insn = FALSE]
    BY <1>3 DEF Decode
  <2>2. /\ c.ns = "DBG_FLUSH" /\ c.hwlp_end_4_id = FALSE /\ c.halt_id = TRUE /\ c.halt_if = TRUE
        /\ c.hwlp_dec_cnt = {} /\ c.pc_set = None
    BY <2>1 DEF DebugRequest, Halted, Default
  <2>3. ~if_valid(i, c) /\ ~issue(i, c) /\ ~hwlp_jump(c)
    BY <2>2 DEF if_valid, issue, hwlp_jump
  <2>4. ctrl_fsm_cs' = "DBG_FLUSH" /\ ~branch_in_ex'
    <3>1. ex' = IF ex_ready(i) THEN NoInsn ELSE ex
      BY <2>3 DEF Clocked, ExecuteCycle
    <3>2. ~branch_in_ex'
      BY <3>1 DEF branch_in_ex, ex_ready, NoInsn
    <3>3. ctrl_fsm_cs' = "DBG_FLUSH"
      BY <2>2 DEF Clocked, ControllerCycle
    <3> QED BY <3>2, <3>3
  <2>5. LoopsSetUp'
    <3>1. Geometry
      BY LoopGeometry DEF LoopInv
    <3> QED BY <2>2, <3>1, Registers DEF LoopInv, Clocked
  <2> QED BY <2>4, <2>5
          DEF LoopInv, FetchInDecode, JumpOnce, FetchInLoop, TargetPending, IdEmpty, BranchInEx
<1>4. CASE /\ ~branch_taken_ex /\ instr_valid_id
           /\ ~((debug_req_pending(i) \/ trigger_match) /\ ~debug_mode_q)
           /\ irq_req_ctrl /\ ~debug_mode_q
  <2>1. c = [TakeIrq(pc_id) EXCEPT !.illegal_insn = FALSE]
    BY <1>4 DEF Decode
  <2>2. /\ c.ns = "DECODE" /\ c.hwlp_end_4_id = FALSE /\ c.is_decoding = FALSE
        /\ c.hwlp_dec_cnt = {} /\ c.halt_id = TRUE /\ c.pc_set = IrqHandler
    BY <2>1 DEF TakeIrq, Halted, Default
  <2>3. IrqHandler # None
    BY ControllerAssumption
  <2> QED BY <2>2, <2>3, DecodeNext
<1>5. CASE /\ ~branch_taken_ex /\ instr_valid_id
           /\ ~((debug_req_pending(i) \/ trigger_match) /\ ~debug_mode_q)
           /\ ~(irq_req_ctrl /\ ~debug_mode_q)
  <2>1. c = SingleStep(i, DecodeInsn(i))
    BY <1>5 DEF Decode
  <2> QED BY <1>5, <2>1, DecodeType, DecodingLoopInv
<1> QED BY <1>1, <1>2, <1>3, <1>4, <1>5

\* Loops that go round once more, with the last instruction of the body next.
Ahead == {k \in Loop : Last(k, pc_id + 1)}

\* In DECODE_HWLOOP the controller announces the start of the loop that ends with the
\* next instruction, counts the one that ends in ID, and leaves when no loop is left.
LEMMA LoopAheadMoves ==
  ASSUME TypeOK, Geometry, COREV_PULP, ctrl_fsm_cs = "DECODE_HWLOOP", NEW c, c = LoopAhead(Decoding)
  PROVE  /\ c.is_decoding = TRUE /\ c.pc_set = None /\ c.jump_done = jump_done_q
         /\ c.halt_id = FALSE
         /\ c.hwlp_dec_cnt = {k \in Loop : hwlp_end[k] = pc_id + 1 /\ hwlp_counter[k] # 0}
         /\ c.hwlp_end_4_id = (Ahead # {})
         /\ \A k \in Ahead : c.hwlp_targ = hwlp_start[k]
         /\ c.ns \in {"DECODE", "DECODE_HWLOOP"}
         /\ c.ns = "DECODE" => Ahead = {} /\ ~is_hwlp_body
         /\ c.ns = "DECODE_HWLOOP" =>
              (\A k \in Loop : hwlp_end[k] # pc_id + 2) \/ Ahead # {} \/ is_hwlp_body
<1> DEFINE ahead == {k \in Loop : hwlp_end_eq_pc_plus4(k)}
           jump  == {k \in ahead : hwlp_counter[k] > 1}
           last  == IF 0 \in ahead THEN 0 ELSE 1
<1>1. /\ hwlp_start \in [Loop -> Nat] /\ hwlp_end \in [Loop -> Nat] /\ pc_id \in Nat
      /\ hwlp_counter \in [Loop -> Nat]
  BY ControllerAssumption DEF TypeOK
<1>2. jump = Ahead
  BY <1>1 DEF Ahead, Last, hwlp_end_eq_pc_plus4
<1>3. \A k \in ahead : k \in Loop /\ hwlp_end[k] = pc_id + 2
  BY DEF hwlp_end_eq_pc_plus4
<1>4. /\ Apart(hwlp_start, hwlp_end)
      /\ \A m \in Loop : hwlp_end[m] # 0 => hwlp_start[m] + 3 <= hwlp_end[m]
  BY DEF Geometry
<1>5. \A k, m \in ahead : k = m
  <2>1. \A k, m \in Loop, a \in Nat : hwlp_end[k] = a + 1 /\ hwlp_end[m] = a + 1 => k = m
    BY <1>1, <1>4, BodiesApart
  <2>2. pc_id + 1 \in Nat /\ pc_id + 2 = (pc_id + 1) + 1
    BY <1>1
  <2> QED BY <1>3, <2>1, <2>2
<1>6. Ahead \subseteq ahead
  BY <1>2
<1>7. Ahead # {} => is_hwlp_body
  <2> SUFFICES ASSUME NEW k \in Ahead
               PROVE  is_hwlp_body
    OBVIOUS
  <2>1. k \in Loop /\ hwlp_end[k] = pc_id + 2 /\ hwlp_counter[k] > 1
    BY <1>1 DEF Ahead, Last
  <2>2. hwlp_start[k] <= pc_id
    BY <1>1, <1>4, <2>1
  <2> QED BY <1>1, <2>1, <2>2 DEF is_hwlp_body, InBody
<1>8. c = [Decoding EXCEPT
        !.ns = IF ahead = {} \/ last \in Ahead \/ is_hwlp_body
                 THEN "DECODE_HWLOOP" ELSE "DECODE",
        !.hwlp_end_4_id = Ahead # {},
        !.hwlp_targ = IF Ahead = {} THEN @
                      ELSE hwlp_start[IF 0 \in Ahead THEN 0 ELSE 1],
        !.hwlp_dec_cnt = {k \in Loop : hwlp_end_eq_pc(k) /\ hwlp_counter[k] # 0}]
  BY <1>2 DEF LoopAhead
<1>9. {k \in Loop : hwlp_end_eq_pc(k) /\ hwlp_counter[k] # 0}
        = {k \in Loop : hwlp_end[k] = pc_id + 1 /\ hwlp_counter[k] # 0}
  BY DEF hwlp_end_eq_pc
<1>10. Ahead = {} => last \notin Ahead
  OBVIOUS
<1>11. last \in Ahead => Ahead # {}
  OBVIOUS
<1>12. \A k \in Ahead : k = IF 0 \in Ahead THEN 0 ELSE 1
  BY <1>5, <1>6 DEF Ahead, Loop
<1>13. ahead = {} => \A k \in Loop : hwlp_end[k] # pc_id + 2
  BY DEF hwlp_end_eq_pc_plus4
<1> HIDE DEF ahead, jump, last
<1>14. /\ c.is_decoding = TRUE /\ c.pc_set = None /\ c.jump_done = jump_done_q
       /\ c.halt_id = FALSE
       /\ c.hwlp_dec_cnt = {k \in Loop : hwlp_end[k] = pc_id + 1 /\ hwlp_counter[k] # 0}
       /\ c.hwlp_end_4_id = (Ahead # {})
  BY ZenonT(60), <1>8, <1>9 DEF Decoding, Default
<1>15. Ahead # {} => c.hwlp_targ = hwlp_start[IF 0 \in Ahead THEN 0 ELSE 1]
  BY <1>8 DEF Decoding, Default
<1>16. c.ns = IF ahead = {} \/ last \in Ahead \/ is_hwlp_body
                 THEN "DECODE_HWLOOP" ELSE "DECODE"
  BY ZenonT(60), <1>8 DEF Decoding, Default
<1>17. \A k \in Ahead : c.hwlp_targ = hwlp_start[k]
  BY <1>12, <1>15
<1> QED BY <1>7, <1>11, <1>13, <1>14, <1>16, <1>17

\* The instructions it flushes for instead: no jump is announced and nothing follows.
LEMMA DecodeInLoopMoves ==
  ASSUME TypeOK, Geometry, COREV_PULP, ctrl_fsm_cs = "DECODE_HWLOOP", NEW i \in Inputs,
         NEW c, c = DecodeInsnInLoop(i), ~Plain
  PROVE  /\ c.is_decoding = TRUE /\ c.pc_set = None /\ c.hwlp_end_4_id = FALSE
         /\ c.hwlp_dec_cnt = {} /\ c.halt_if = TRUE /\ c.jump_done = jump_done_q
         /\ c.ns \in {"FLUSH_EX", "DBG_FLUSH", "DECODE_HWLOOP"}
         /\ c.ns = "FLUSH_EX" => id_ready(i) \/ c.halt_id = TRUE
         /\ c.ns = "DECODE_HWLOOP" => ~id_ready(i) /\ c.halt_id = FALSE
<1> DEFINE out(d) == /\ d.is_decoding = TRUE /\ d.pc_set = None /\ d.hwlp_end_4_id = FALSE
         /\ d.hwlp_dec_cnt = {} /\ d.halt_if = TRUE /\ d.jump_done = jump_done_q
         /\ d.ns \in {"FLUSH_EX", "DBG_FLUSH", "DECODE_HWLOOP"}
         /\ (d.ns = "FLUSH_EX" => id_ready(i) \/ d.halt_id = TRUE)
         /\ (d.ns = "DECODE_HWLOOP" => ~id_ready(i) /\ d.halt_id = FALSE)
<1>1. c \in {[Decoding EXCEPT !.halt_if = TRUE, !.halt_id = TRUE, !.ns = "FLUSH_EX",
                          !.illegal_insn = TRUE], Ebreak(i, Decoding), Flush(i, Decoding)}
  BY DEF DecodeInsnInLoop, Plain
<1>2. out([Decoding EXCEPT !.halt_if = TRUE, !.halt_id = TRUE, !.ns = "FLUSH_EX",
                          !.illegal_insn = TRUE])
  BY DEF Decoding, Default
<1>3. out(Flush(i, Decoding))
  BY DEF Flush, Decoding, Default
<1>4. out(Ebreak(i, Decoding))
  BY <1>3 DEF Ebreak, Decoding, Default
<1>5. out(c)
  BY <1>1, <1>2, <1>3, <1>4
<1> QED BY <1>5

\* A cycle of DECODE_HWLOOP in which ID decodes: IF goes on where the loops say.
LEMMA InLoopLoopInv ==
  ASSUME TypeOK, TypeOK', LoopsAdmissible, LoopInv, ctrl_fsm_cs = "DECODE_HWLOOP",
         NEW i \in Inputs, instr_valid_id, COREV_PULP,
         NEW c, c = SingleStep(i, DecodeInsnInLoop(i)), Clocked(i, c)
  PROVE  LoopInv'
<1> DEFINE d == DecodeInsnInLoop(i)
           t == IF hwlp_jump(c) THEN c.hwlp_targ ELSE loop_target
<1>1. /\ pc_id \in Nat /\ pc_if \in Nat /\ jump_done_q \in BOOLEAN /\ instr_valid_id = TRUE
      /\ pc_id \in Addr /\ None \notin Addr
      /\ hwlp_start \in [Loop -> Nat] /\ hwlp_end \in [Loop -> Nat]
      /\ hwlp_start \in [Loop -> Addr]
      /\ hwlp_counter \in [Loop -> Nat]
      /\ hwlp_start' \in [Loop -> Nat] /\ hwlp_end' \in [Loop -> Nat]
      /\ hwlp_counter' \in [Loop -> Nat]
      /\ d \in Outputs
  BY ControllerAssumption, DecodeType DEF TypeOK
<1>2. /\ Geometry /\ LoopsSetUp
      /\ Apart(hwlp_start, hwlp_end)
      /\ \A m \in Loop : hwlp_end[m] # 0 => hwlp_start[m] + 3 <= hwlp_end[m]
  BY LoopGeometry DEF LoopInv, Geometry
<1>3. /\ InLoop(pc_id)
      /\ \A k \in Loop :
           /\ Last(k, pc_id) => pc_if = hwlp_start[k]
           /\ Last(k, pc_id + 1) => IF hwlp_end_4_id_q THEN loop_target = hwlp_start[k] /\ Plain
                                    ELSE loop_target = None
      /\ (\A k \in Loop : ~Last(k, pc_id)) => pc_if = pc_id + 1 /\ ~jump_done_q
      /\ (\A k \in Loop : ~Last(k, pc_id + 1)) => loop_target = None
  BY DEF LoopInv, FetchInLoop
<1>4. insn \notin {"jump", "branch", "wfi", "fencei", "mret", "dret"}
  BY <1>1, <1>2, <1>3 DEF InLoop, Geometry, insn
<1>5. ~branch_in_ex /\ ~branch_taken_ex
  BY DEF LoopInv, BranchInEx, branch_taken_ex
<1>6. BranchInEx'
  <2>1. ex' = IF issue(i, c) /\ ~illegal_insn
                THEN [pc |-> pc_id, taken |-> i.taken,
                      value |-> IF insn = "skip" THEN mepc + 1 ELSE 0]
              ELSE IF ex_ready(i) THEN NoInsn ELSE ex
    BY DEF Clocked, ExecuteCycle
  <2>2. ~branch_in_ex'
    BY <1>4, <1>5, <2>1 DEF branch_in_ex, NoInsn, insn
  <2> QED BY <2>2 DEF BranchInEx
<1>7. /\ c.pc_set = d.pc_set /\ c.hwlp_end_4_id = d.hwlp_end_4_id /\ c.halt_id = d.halt_id
      /\ c.is_decoding = d.is_decoding /\ c.hwlp_dec_cnt = d.hwlp_dec_cnt
      /\ c.jump_done = d.jump_done /\ c.hwlp_targ = d.hwlp_targ
  BY <1>1, SingleSteps
<1>8. c = d \/ c.halt_if = TRUE
  BY <1>1, SingleStepHalts
<1>9. c.ns = d.ns \/ (id_ready(i) /\ c.ns \in {"FLUSH_EX", "DBG_WAIT_BRANCH", "DBG_FLUSH"}
                             /\ c.halt_if = TRUE)
  BY <1>1, SingleStepNext
<1>10. /\ ctrl_fsm_cs' = c.ns /\ hwlp_end_4_id_q' = c.hwlp_end_4_id
  BY DEF Clocked, ControllerCycle
<1>11. CASE ~Plain
  <2>1. /\ d.pc_set = None /\ d.hwlp_end_4_id = FALSE
        /\ d.hwlp_dec_cnt = {} /\ d.halt_if = TRUE /\ d.jump_done = jump_done_q
        /\ d.ns \in {"FLUSH_EX", "DBG_FLUSH", "DECODE_HWLOOP"}
        /\ d.ns = "FLUSH_EX" => id_ready(i) \/ d.halt_id = TRUE
        /\ d.ns = "DECODE_HWLOOP" => ~id_ready(i) /\ d.halt_id = FALSE
    BY <1>2, <1>11, DecodeInLoopMoves
  <2> HIDE DEF d
  <2>2. ~if_valid(i, c) /\ ~hwlp_jump(c)
    BY <1>7, <1>8, <2>1 DEF if_valid, hwlp_jump
  <2>3. loop_target = None
    BY <1>3, <1>11
  <2>4. /\ pc_id' = pc_id /\ pc_if' = pc_if /\ loop_target' = None
        /\ instr_valid_id' <=> ~clear_instr_valid(i, c)
        /\ jump_done_q' <=> jump_done_q /\ ~id_ready(i)
    BY <1>1, <1>7, <2>1, <2>2, <2>3, NoHandOver
  <2>5. instr_valid_id' => ~id_ready(i) /\ c.halt_id # TRUE
    BY <2>4 DEF clear_instr_valid
  <2>6. insn # "setup"
    BY <1>11 DEF Plain, illegal_insn, csr_status
  <2>7. /\ LoopsSetUp'
        /\ \A k \in Loop : /\ hwlp_start'[k] = hwlp_start[k] /\ hwlp_end'[k] = hwlp_end[k]
                           /\ hwlp_counter'[k] = hwlp_counter[k]
    <3>1. \A k \in c.hwlp_dec_cnt : k \in Loop /\ hwlp_end[k] = pc_id + 1
      BY <1>7, <2>1
    <3> QED BY <1>2, <1>7, <2>1, <2>6, <3>1, Registers DEF Clocked
  <2>8. IdEmpty' /\ TargetPending' /\ FetchInDecode' /\ JumpOnce'
    BY <1>7, <1>9, <1>10, <2>1, <2>4, <2>5 DEF IdEmpty, TargetPending, FetchInDecode, JumpOnce
  <2>9. FetchInLoop'
    <3> SUFFICES ASSUME c.ns = "DECODE_HWLOOP"
                 PROVE  FetchInLoop'
      BY <1>10 DEF FetchInLoop
    <3>1. ~id_ready(i) /\ c.halt_id = FALSE
      BY <1>7, <1>9, <2>1
    <3>2. instr_valid_id' /\ ~hwlp_end_4_id_q'
      BY <1>5, <1>7, <1>10, <2>1, <2>4, <3>1 DEF clear_instr_valid
    <3>3. \A k \in Loop : /\ Last(k, pc_id)' <=> Last(k, pc_id)
                          /\ Last(k, pc_id + 1)' <=> Last(k, pc_id + 1)
      BY <2>4, <2>7 DEF Last
    <3>4. InLoop(pc_id)'
      BY <1>3, <2>4, <2>7 DEF InLoop
    <3> QED BY <1>3, <2>4, <2>7, <3>2, <3>3, <3>4 DEF FetchInLoop
  <2> QED BY <1>6, <2>7, <2>8, <2>9 DEF LoopInv
<1>12. CASE Plain
  <2>1. d = LoopAhead(Decoding)
    BY <1>12 DEF DecodeInsnInLoop, Plain
  <2>2. /\ d.is_decoding = TRUE /\ d.pc_set = None /\ d.jump_done = jump_done_q
        /\ d.halt_id = FALSE
        /\ d.hwlp_dec_cnt = {k \in Loop : hwlp_end[k] = pc_id + 1 /\ hwlp_counter[k] # 0}
        /\ d.hwlp_end_4_id = (Ahead # {})
        /\ \A k \in Ahead : d.hwlp_targ = hwlp_start[k]
        /\ d.ns \in {"DECODE", "DECODE_HWLOOP"}
        /\ d.ns = "DECODE" => Ahead = {} /\ ~is_hwlp_body
        /\ d.ns = "DECODE_HWLOOP" =>
              (\A k \in Loop : hwlp_end[k] # pc_id + 2) \/ Ahead # {} \/ is_hwlp_body
    BY <1>2, <2>1, LoopAheadMoves
  <2> HIDE DEF d
  <2>3. /\ \A k \in Ahead : t = hwlp_start[k]
        /\ Ahead = {} => t = None
    <3>1. hwlp_jump(c) <=> Ahead # {} /\ ~hwlp_end_4_id_q
      BY <1>7, <2>2 DEF hwlp_jump
    <3>2. \A k \in Loop : Last(k, pc_id + 1) <=> k \in Ahead
      BY DEF Ahead
    <3>3. ASSUME NEW k \in Ahead
          PROVE  t = hwlp_start[k]
      <4>1. k \in Loop /\ Last(k, pc_id + 1)
        BY DEF Ahead
      <4>2. CASE hwlp_end_4_id_q
        BY <1>3, <3>1, <4>1, <4>2
      <4>3. CASE ~hwlp_end_4_id_q
        BY <1>7, <2>2, <3>1, <4>3
      <4> QED BY <4>2, <4>3
    <3>4. Ahead = {} => t = None
      BY <1>3, <3>1, <3>2
    <3> QED BY <3>3, <3>4
  <2> HIDE DEF t
  <2>4. clear_instr_valid(i, c) <=> id_ready(i)
    BY <1>5, <1>7, <2>2 DEF clear_instr_valid
  <2>5. /\ LoopsSetUp' /\ Geometry'
        /\ \A k \in Loop :
              \/ /\ hwlp_start'[k] = hwlp_start[k] /\ hwlp_end'[k] = hwlp_end[k]
                 /\ hwlp_counter'[k] =
                      IF hwlp_end[k] = pc_id + 1 /\ hwlp_counter[k] # 0 /\ id_ready(i)
                        THEN hwlp_counter[k] - 1 ELSE hwlp_counter[k]
              \/ /\ id_ready(i)
                 /\ hwlp_end'[k] \notin {pc_id + 1, pc_id + 2, pc_id + 3}
                 /\ ~(hwlp_start[k] <= pc_id /\ pc_id < hwlp_end[k])
    <3>1. \A k \in c.hwlp_dec_cnt : k \in Loop /\ hwlp_end[k] = pc_id + 1
      BY <1>7, <2>2
    <3>2. /\ LoopsSetUp'
          /\ \A k \in Loop :
              \/ /\ hwlp_start'[k] = hwlp_start[k] /\ hwlp_end'[k] = hwlp_end[k]
                 /\ hwlp_counter'[k] =
                      IF k \in c.hwlp_dec_cnt /\ instr_valid_id /\ clear_instr_valid(i, c)
                        THEN hwlp_counter[k] - 1 ELSE hwlp_counter[k]
              \/ /\ c.is_decoding /\ id_ready(i) /\ insn = "setup"
                 /\ hwlp_end'[k] \notin {pc_id + 1, pc_id + 2, pc_id + 3}
                 /\ ~(hwlp_start[k] <= pc_id /\ pc_id < hwlp_end[k])
      BY <1>2, <3>1, Registers DEF Clocked
    <3>3. Geometry'
      BY <3>2, LoopGeometryNext
    <3> QED BY <1>1, <1>7, <2>2, <2>4, <3>2, <3>3
  <2>6. \A k \in Loop : Last(k, pc_id) =>
          /\ is_hwlp_body /\ Ahead = {} /\ pc_if = hwlp_start[k]
          /\ \A m \in Loop : hwlp_end[m] # pc_id + 2
    <3> SUFFICES ASSUME NEW k \in Loop, Last(k, pc_id)
                 PROVE  /\ is_hwlp_body /\ Ahead = {} /\ pc_if = hwlp_start[k]
                        /\ \A m \in Loop : hwlp_end[m] # pc_id + 2
      OBVIOUS
    <3>1. hwlp_end[k] = pc_id + 1 /\ hwlp_counter[k] > 1 /\ hwlp_start[k] <= pc_id
      BY <1>1, <1>2 DEF Last
    <3>2. \A m \in Loop : hwlp_end[m] # pc_id + 2
      BY <1>1, <1>2, <3>1, BodiesApart
    <3>3. Ahead = {}
      BY <1>1, <3>2 DEF Ahead, Last
    <3>4. is_hwlp_body
      BY <1>1, <3>1 DEF is_hwlp_body, InBody
    <3> QED BY <1>3, <3>2, <3>3, <3>4
  <2>7. c.ns \in {d.ns, "DBG_FLUSH"}
    BY <1>1, <1>4, <1>12, SingleStepPlain DEF d
  <2>8. /\ if_valid(i, c) => /\ pc_id' = pc_if /\ instr_valid_id' /\ ~jump_done_q'
                             /\ pc_if' = IF t # None THEN t ELSE pc_if + 1
                             /\ loop_target' = None /\ id_ready(i)
        /\ ~if_valid(i, c) => /\ pc_id' = pc_id /\ pc_if' = pc_if /\ loop_target' = t
                              /\ instr_valid_id' <=> ~id_ready(i)
                              /\ jump_done_q' <=> jump_done_q /\ ~id_ready(i)
    <3>1. ASSUME if_valid(i, c)
          PROVE  /\ pc_id' = pc_if /\ instr_valid_id' /\ ~jump_done_q'
                 /\ pc_if' = IF t # None THEN t ELSE pc_if + 1
                 /\ loop_target' = None /\ id_ready(i)
      BY <3>1, HandOver DEF t
    <3>2. ASSUME ~if_valid(i, c)
          PROVE  /\ pc_id' = pc_id /\ pc_if' = pc_if /\ loop_target' = t
                 /\ instr_valid_id' <=> ~id_ready(i)
                 /\ jump_done_q' <=> jump_done_q /\ ~id_ready(i)
      BY <1>1, <1>7, <2>2, <2>4, <3>2, NoHandOver DEF t
    <3> QED BY <3>1, <3>2
  <2>9. IdEmpty' /\ TargetPending'
    BY <1>10, <2>2, <2>3, <2>7, <2>8 DEF IdEmpty, TargetPending
  <2>10. CASE ~id_ready(i)
    <3>1. /\ pc_id' = pc_id /\ pc_if' = pc_if /\ loop_target' = t
          /\ instr_valid_id' /\ (jump_done_q' <=> jump_done_q)
      BY <2>8, <2>10
    <3>2. \A k \in Loop : /\ hwlp_start'[k] = hwlp_start[k] /\ hwlp_end'[k] = hwlp_end[k]
                          /\ hwlp_counter'[k] = hwlp_counter[k]
      BY <2>5, <2>10
    <3>3. \A k \in Loop : /\ Last(k, pc_id)' <=> Last(k, pc_id)
                          /\ Last(k, pc_id + 1)' <=> Last(k, pc_id + 1)
      BY <3>1, <3>2 DEF Last
    <3>4. FetchInDecode' /\ JumpOnce'
      <4> SUFFICES ASSUME c.ns = "DECODE"
                   PROVE  FetchInDecode' /\ JumpOnce'
        BY <1>10 DEF FetchInDecode, JumpOnce
      <4>1. \A k \in Loop : ~Last(k, pc_id)
        BY <2>2, <2>6, <2>7
      <4> QED BY <1>3, <3>1, <4>1 DEF FetchInDecode, JumpOnce
    <3>5. FetchInLoop'
      <4> SUFFICES ASSUME c.ns = "DECODE_HWLOOP"
                   PROVE  FetchInLoop'
        BY <1>10 DEF FetchInLoop
      <4>1. InLoop(pc_id)'
        BY <1>3, <3>1, <3>2 DEF InLoop
      <4>2. Plain'
        <5>1. insn' = insn
          BY <3>1 DEF insn
        <5> QED BY <1>4, <1>12, <5>1 DEF Plain, illegal_insn, csr_status
      <4>3. \A k \in Loop : Last(k, pc_id + 1) <=> k \in Ahead
        BY DEF Ahead
      <4>4. hwlp_end_4_id_q' <=> Ahead # {}
        BY <1>7, <1>10, <2>2
      <4>5. \A k \in Loop :
              /\ Last(k, pc_id)' => pc_if' = hwlp_start'[k]
              /\ Last(k, pc_id + 1)' => hwlp_end_4_id_q' /\ loop_target' = hwlp_start'[k]
        BY <1>3, <2>3, <3>1, <3>2, <3>3, <4>3, <4>4
      <4>6. /\ (\A k \in Loop : ~Last(k, pc_id)') => pc_if' = pc_id' + 1 /\ ~jump_done_q'
            /\ (\A k \in Loop : ~Last(k, pc_id + 1)') => loop_target' = None
        <5>1. Ahead \subseteq Loop
          BY DEF Ahead
        <5> QED BY <1>3, <2>3, <3>1, <3>3, <4>3, <5>1
      <4> QED BY <3>1, <4>1, <4>2, <4>5, <4>6 DEF FetchInLoop
    <3> QED BY <1>6, <2>5, <2>9, <3>4, <3>5 DEF LoopInv
  <2>11. ASSUME id_ready(i), c.ns = "DECODE_HWLOOP"
         PROVE  /\ \E k \in Loop : /\ hwlp_start'[k] <= pc_if /\ pc_if < hwlp_end'[k]
                                   /\ \/ hwlp_counter'[k] > 1
                                      \/ hwlp_counter'[k] = 1 /\ pc_if + 1 < hwlp_end'[k]
                /\ \A k \in Loop : hwlp_end'[k] = pc_if + 1 /\ hwlp_counter'[k] > 1 =>
                                    t = hwlp_start'[k]
                /\ (\A k \in Loop : ~(hwlp_end'[k] = pc_if + 1 /\ hwlp_counter'[k] > 1)) => t = None
                /\ Ahead # {} => \A k \in Loop : hwlp_end'[k] # pc_if + 2
    <3>1. /\ Apart(hwlp_start', hwlp_end')
          /\ \A m \in Loop : hwlp_end'[m] # 0 => hwlp_start'[m] + 3 <= hwlp_end'[m]
      BY <2>5 DEF Geometry, Apart
    <3>2. \A k \in Loop : hwlp_start[k] <= pc_id /\ pc_id < hwlp_end[k] =>
             /\ hwlp_start'[k] = hwlp_start[k] /\ hwlp_end'[k] = hwlp_end[k]
             /\ hwlp_end[k] # pc_id + 1 => hwlp_counter'[k] = hwlp_counter[k]
             /\ hwlp_counter[k] # 0 /\ hwlp_end[k] = pc_id + 1 =>
                  hwlp_counter'[k] = hwlp_counter[k] - 1
      BY <2>5, <2>11
    <3>3. ASSUME NEW k \in Ahead
          PROVE  /\ k \in Loop /\ hwlp_start'[k] = hwlp_start[k]
                 /\ hwlp_start'[k] <= pc_id + 1 /\ hwlp_end'[k] = pc_id + 2
                 /\ hwlp_counter'[k] > 1
      <4>1. k \in Loop /\ hwlp_end[k] = pc_id + 2 /\ hwlp_counter[k] > 1
        BY <1>1 DEF Ahead, Last
      <4>2. hwlp_start[k] <= pc_id
        BY <1>1, <1>2, <4>1
      <4> QED BY <1>1, <3>2, <4>1, <4>2
    <3>4. CASE \E k \in Loop : Last(k, pc_id)
      <4>1. PICK k \in Loop : Last(k, pc_id)
        BY <3>4
      <4>2. /\ Ahead = {} /\ pc_if = hwlp_start[k] /\ t = None
        BY <2>3, <2>6, <4>1
      <4>3. /\ hwlp_end[k] = pc_id + 1 /\ hwlp_counter[k] > 1
            /\ hwlp_start[k] + 3 <= hwlp_end[k]
        BY <1>1, <1>2, <4>1 DEF Last
      <4>4. /\ hwlp_start'[k] = hwlp_start[k] /\ hwlp_end'[k] = hwlp_end[k]
            /\ hwlp_counter'[k] = hwlp_counter[k] - 1
        BY <1>1, <3>2, <4>3
      <4>5. \A m \in Loop : hwlp_end'[m] # pc_if + 1
        <5>1. hwlp_end'[k] # 0
          BY <1>1, <4>3, <4>4
        <5> QED BY <1>1, <3>1, <4>2, <4>4, <5>1, BodiesApart
      <4> QED BY <1>1, <4>2, <4>3, <4>4, <4>5
    <3>5. CASE \A k \in Loop : ~Last(k, pc_id)
      <4>1. pc_if = pc_id + 1
        BY <1>3, <3>5
      <4>2. \A k \in Loop : hwlp_counter[k] > 1 => hwlp_end[k] # pc_id + 1
        BY <3>5 DEF Last
      <4>3. \E k \in Loop : /\ hwlp_start'[k] <= pc_id + 1 /\ pc_id + 1 < hwlp_end'[k]
                            /\ \/ hwlp_counter'[k] > 1
                               \/ hwlp_counter'[k] = 1 /\ pc_id + 2 < hwlp_end'[k]
        <5>1. CASE Ahead # {}
          BY <1>1, <3>3, <5>1
        <5>2. CASE is_hwlp_body
          <6>1. PICK k \in Loop : InBody(k) /\ hwlp_counter[k] > 1
            BY <5>2 DEF is_hwlp_body
          <6>2. /\ hwlp_start[k] <= pc_id /\ pc_id + 1 < hwlp_end[k]
            BY <1>1, <4>2, <6>1 DEF InBody
          <6>3. /\ hwlp_start'[k] = hwlp_start[k] /\ hwlp_end'[k] = hwlp_end[k]
                /\ hwlp_counter'[k] = hwlp_counter[k]
            BY <1>1, <3>2, <6>2
          <6> QED BY <1>1, <6>1, <6>2, <6>3
        <5>3. CASE \A k \in Loop : hwlp_end[k] # pc_id + 2
          <6>1. PICK k \in Loop : /\ hwlp_start[k] <= pc_id /\ pc_id < hwlp_end[k]
                                 /\ \/ hwlp_counter[k] > 1
                                    \/ hwlp_counter[k] = 1 /\ pc_id + 1 < hwlp_end[k]
            BY <1>3 DEF InLoop
          <6>2. /\ hwlp_start[k] <= pc_id /\ pc_id + 2 < hwlp_end[k]
            BY <1>1, <4>2, <5>3, <6>1
          <6>3. /\ hwlp_start'[k] = hwlp_start[k] /\ hwlp_end'[k] = hwlp_end[k]
                /\ hwlp_counter'[k] = hwlp_counter[k]
            BY <1>1, <3>2, <6>2
          <6> QED BY <1>1, <6>1, <6>2, <6>3
        <5> QED BY <2>2, <2>7, <2>11, <5>1, <5>2, <5>3
      <4>4. \A k \in Loop : hwlp_end'[k] = pc_id + 2 /\ hwlp_counter'[k] > 1 =>
              k \in Ahead /\ hwlp_start'[k] = hwlp_start[k]
        BY <1>1, <2>5 DEF Ahead, Last
      <4>5. Ahead # {} => \A k \in Loop : hwlp_end'[k] # pc_id + 3
        <5> SUFFICES ASSUME NEW j \in Ahead
                     PROVE  \A k \in Loop : hwlp_end'[k] # pc_id + 3
          OBVIOUS
        <5>1. \A k, m \in Loop, a \in Nat : hwlp_end'[k] = a + 1 => hwlp_end'[m] # a + 2
          BY <1>1, <3>1, BodiesApart
        <5>2. pc_id + 1 \in Nat /\ hwlp_end'[j] = (pc_id + 1) + 1 /\ (pc_id + 1) + 2 = pc_id + 3
          BY <1>1, <3>3
        <5> QED BY <3>3, <5>1, <5>2
      <4>6. pc_if + 1 = pc_id + 2 /\ pc_if + 2 = pc_id + 3
        BY <1>1, <4>1
      <4>7. (\A k \in Loop : ~(hwlp_end'[k] = pc_id + 2 /\ hwlp_counter'[k] > 1)) => Ahead = {}
        BY <3>3
      <4> QED BY <2>3, <4>1, <4>3, <4>4, <4>5, <4>6, <4>7
    <3> QED BY <3>4, <3>5
  <2>12. CASE id_ready(i)
    <3>1. FetchInDecode' /\ JumpOnce'
      <4> SUFFICES ASSUME c.ns = "DECODE"
                   PROVE  FetchInDecode' /\ JumpOnce'
        BY <1>10 DEF FetchInDecode, JumpOnce
      <4>1. t = None
        BY <2>2, <2>3, <2>7
      <4> QED BY <2>8, <2>12, <4>1 DEF FetchInDecode, JumpOnce
    <3>2. FetchInLoop'
      <4> SUFFICES ASSUME c.ns = "DECODE_HWLOOP"
                   PROVE  FetchInLoop'
        BY <1>10 DEF FetchInLoop
      <4>1. hwlp_end_4_id_q' <=> Ahead # {}
        BY <1>7, <1>10, <2>2
      <4>2. CASE if_valid(i, c)
        <5>1. InLoop(pc_id)'
          BY <2>8, <2>11, <2>12, <4>2 DEF InLoop
        <5>2. \A k \in Loop : hwlp_start'[k] # None
          BY <1>1 DEF TypeOK
        <5>4. /\ pc_id' = pc_if /\ instr_valid_id' /\ ~jump_done_q' /\ loop_target' = None
              /\ pc_if' = IF t # None THEN t ELSE pc_if + 1
          BY <2>8, <4>2
        <5>5. \A k \in Loop : Last(k, pc_id + 1)' => ~hwlp_end_4_id_q'
          BY <1>1, <2>11, <2>12, <4>1, <5>4 DEF Last
        <5>3. /\ \A k \in Loop : Last(k, pc_id)' => pc_if' = hwlp_start'[k]
              /\ (\A k \in Loop : ~Last(k, pc_id)') => pc_if' = pc_id' + 1
          BY <2>11, <2>12, <5>2, <5>4 DEF Last
        <5> QED BY <5>1, <5>3, <5>4, <5>5 DEF FetchInLoop
      <4>3. CASE ~if_valid(i, c)
        <5>1. InLoop(pc_if)'
          BY <2>8, <2>11, <2>12, <4>3 DEF InLoop
        <5>2. /\ \A k \in Loop : Last(k, pc_if)' => t = hwlp_start'[k]
              /\ (\A k \in Loop : ~Last(k, pc_if)') => t = None
          BY <2>8, <2>11, <2>12, <4>3 DEF Last
        <5> QED BY <2>8, <2>12, <4>3, <5>1, <5>2 DEF FetchInLoop
      <4> QED BY <4>2, <4>3
    <3> QED BY <1>6, <2>5, <2>9, <3>1, <3>2 DEF LoopInv
  <2> QED BY <2>10, <2>12
<1> QED BY <1>11, <1>12

\* A cycle of DECODE_HWLOOP, taking debug requests and interrupts too.
LEMMA DecodeHwloopLoopInv ==
  ASSUME TypeOK, TypeOK', LoopsAdmissible, LoopInv, ctrl_fsm_cs = "DECODE_HWLOOP",
         NEW i \in Inputs, NEW c, c = DecodeHwloop(i), Clocked(i, c)
  PROVE  LoopInv'
<1>1. /\ pc_id \in Nat /\ pc_if \in Nat /\ None \notin Addr
      /\ hwlp_start \in [Loop -> Nat] /\ hwlp_end \in [Loop -> Nat]
      /\ hwlp_start \in [Loop -> Addr]
      /\ hwlp_counter \in [Loop -> Nat]
  BY ControllerAssumption DEF TypeOK
<1>2. Geometry /\ LoopsSetUp
  BY LoopGeometry DEF LoopInv
<1>3. COREV_PULP
  BY <1>1, <1>2 DEF LoopInv, FetchInLoop, InLoop, Geometry
<1>4. ~branch_in_ex /\ ~branch_taken_ex
  BY DEF LoopInv, BranchInEx, branch_taken_ex
\* A cycle in which nothing leaves ID for EX
<1>5. ASSUME ~issue(i, c), c.hwlp_dec_cnt = {}, c.is_decoding = FALSE
      PROVE  /\ BranchInEx'
             /\ LoopsSetUp'
             /\ \A k \in Loop : /\ hwlp_start'[k] = hwlp_start[k] /\ hwlp_end'[k] = hwlp_end[k]
                                /\ hwlp_counter'[k] = hwlp_counter[k]
  <2>1. ex' = IF ex_ready(i) THEN NoInsn ELSE ex
    BY <1>5 DEF Clocked, ExecuteCycle
  <2>2. BranchInEx'
    BY <1>4, <2>1 DEF BranchInEx, branch_in_ex, NoInsn
  <2> QED BY <1>2, <1>5, <2>2, Registers DEF Clocked
<1>6. CASE ~instr_valid_id
  <2>1. c = Default
    BY <1>3, <1>6 DEF DecodeHwloop
  <2>2. /\ c.ns = "DECODE_HWLOOP" /\ c.hwlp_end_4_id = FALSE /\ c.is_decoding = FALSE
        /\ c.hwlp_dec_cnt = {} /\ c.pc_set = None
    BY <2>1 DEF Default
  <2>3. ~issue(i, c) /\ ~hwlp_jump(c)
    BY <2>2 DEF issue, hwlp_jump
  <2>4. /\ ctrl_fsm_cs' = "DECODE_HWLOOP" /\ ~hwlp_end_4_id_q'
    <3>1. hwlp_end_4_id_q' = FALSE
      BY <2>2 DEF Clocked, ControllerCycle
    <3>2. ctrl_fsm_cs' = "DECODE_HWLOOP"
      BY <2>2 DEF Clocked, ControllerCycle
    <3> QED BY <3>1, <3>2
  <2>5. \A k \in Loop : /\ hwlp_start'[k] = hwlp_start[k] /\ hwlp_end'[k] = hwlp_end[k]
                        /\ hwlp_counter'[k] = hwlp_counter[k]
    BY <1>5, <2>2, <2>3
  <2>6. /\ InLoop(pc_if)
        /\ \A k \in Loop : Last(k, pc_if) => loop_target = hwlp_start[k]
        /\ (\A k \in Loop : ~Last(k, pc_if)) => loop_target = None
    BY <1>6 DEF LoopInv, FetchInLoop
  <2>7. FetchInLoop'
    <3>1. CASE if_valid(i, c)
      <4>1. /\ pc_id' = pc_if /\ instr_valid_id' /\ ~jump_done_q' /\ loop_target' = None
            /\ pc_if' = IF loop_target # None THEN loop_target ELSE pc_if + 1
        BY <2>3, <3>1, HandOver
      <4>2. InLoop(pc_id)'
        BY <2>5, <2>6, <4>1 DEF InLoop
      <4>3. \A k \in Loop : Last(k, pc_id)' <=> Last(k, pc_if)
        BY <2>5, <4>1 DEF Last
      <4>4. \A k \in Loop : Last(k, pc_id)' => pc_if' = hwlp_start'[k]
        BY <1>1, <2>5, <2>6, <4>1, <4>3
      <4>5. (\A k \in Loop : ~Last(k, pc_id)') => pc_if' = pc_id' + 1
        BY <2>6, <4>1, <4>3
      <4> QED BY <2>4, <4>1, <4>2, <4>4, <4>5 DEF FetchInLoop
    <3>2. CASE ~if_valid(i, c)
      <4>1. /\ pc_if' = pc_if /\ ~instr_valid_id' /\ loop_target' = loop_target
        BY <1>6, <2>2, <2>3, <3>2, NoHandOver
      <4>2. InLoop(pc_if)'
        BY <2>5, <2>6, <4>1 DEF InLoop
      <4>3. \A k \in Loop : Last(k, pc_if)' <=> Last(k, pc_if)
        BY <2>5, <4>1 DEF Last
      <4> QED BY <2>5, <2>6, <4>1, <4>2, <4>3 DEF FetchInLoop
    <3> QED BY <3>1, <3>2
  <2> QED BY <1>5, <2>2, <2>3, <2>4, <2>7
          DEF LoopInv, FetchInDecode, JumpOnce, TargetPending, IdEmpty
<1>7. CASE instr_valid_id /\ (debug_req_pending(i) \/ trigger_match) /\ ~debug_mode_q
  <2>1. c = DebugRequest
    BY <1>3, <1>7 DEF DecodeHwloop
  <2>2. /\ c.ns = "DBG_FLUSH" /\ c.hwlp_end_4_id = FALSE /\ c.is_decoding = FALSE
        /\ c.hwlp_dec_cnt = {}
    BY <1>3, <2>1, ControllerAssumption DEF DebugRequest, Halted, Default
  <2>3. ctrl_fsm_cs' = "DBG_FLUSH" /\ ~issue(i, c)
    BY <2>2 DEF Clocked, ControllerCycle, issue
  <2> QED BY <1>5, <2>2, <2>3
          DEF LoopInv, FetchInDecode, JumpOnce, FetchInLoop, TargetPending, IdEmpty
<1>8. CASE /\ instr_valid_id /\ ~((debug_req_pending(i) \/ trigger_match) /\ ~debug_mode_q)
           /\ irq_req_ctrl /\ ~debug_mode_q
  <2>1. c = [TakeIrq(pc_id) EXCEPT !.ns = "DECODE"]
    BY <1>3, <1>8 DEF DecodeHwloop
  <2>2. /\ c.ns = "DECODE" /\ c.hwlp_end_4_id = FALSE /\ c.is_decoding = FALSE
        /\ c.hwlp_dec_cnt = {} /\ c.pc_set = IrqHandler /\ c.halt_id = TRUE
    BY <2>1 DEF TakeIrq, Halted, Default
  <2>3. IrqHandler # None
    BY ControllerAssumption
  <2>4. ~issue(i, c) /\ ~if_valid(i, c) /\ ctrl_fsm_cs' = "DECODE"
    BY <2>2, <2>3 DEF Clocked, ControllerCycle, issue, if_valid
  <2>5. ~instr_valid_id' /\ loop_target' = None
    BY <2>2, <2>3, <2>4, NoHandOver DEF clear_instr_valid
  <2> QED BY <1>5, <2>2, <2>4, <2>5
          DEF LoopInv, FetchInDecode, JumpOnce, FetchInLoop, TargetPending, IdEmpty
<1>9. CASE /\ instr_valid_id /\ ~((debug_req_pending(i) \/ trigger_match) /\ ~debug_mode_q)
           /\ ~(irq_req_ctrl /\ ~debug_mode_q)
  <2>1. c = SingleStep(i, DecodeInsnInLoop(i))
    BY <1>3, <1>9 DEF DecodeHwloop
  <2> QED BY <1>3, <1>9, <2>1, InLoopLoopInv
<1> QED BY <1>6, <1>7, <1>8, <1>9

\* Whatever stalls, flushes, interrupts and debug requests come in between, the fetch
\* address, the pending target of a loop and the loop registers stay what the body being
\* executed needs them to be (cv32e40p_controller, cv32e40p_hwloop_regs), in every program
\* that keeps the constraints on hardware loops and whose execution stays in its memory.
THEOREM LoopsInvariant ==
  ASSUME LoopsAdmissible
  PROVE  Spec /\ []TypeOK => []LoopInv
<1>1. Init => LoopInv
  BY DEF Init, ControllerInit, HwloopInit, NoInsn, LoopInv, LoopsSetUp, FetchInDecode, JumpOnce,
         FetchInLoop, TargetPending, IdEmpty, BranchInEx, branch_in_ex
<1>2. LoopInv /\ TypeOK /\ TypeOK' /\ [Next]_vars => LoopInv'
  <2> SUFFICES ASSUME LoopInv, TypeOK, TypeOK', [Next]_vars
               PROVE  LoopInv'
    OBVIOUS
  <2>1. CASE UNCHANGED <<ClockedVars>>
    BY <2>1 DEF ClockedVars, controllerVars, pipelineVars, csrVars, hwlpVars, ghostVars,
           LoopInv, LoopsSetUp, FetchInDecode, JumpOnce, FetchInLoop, InLoop, Last, Plain,
           TargetPending, IdEmpty, BranchInEx, branch_in_ex, insn, illegal_insn, csr_status
  <2>2. ASSUME NEW i \in Inputs, Cycle(i), clock_en(wake_from_sleep(i))
        PROVE  LoopInv'
    <3>1. Clocked(i, Controls(i, fetch_enable_q, boot))
      BY <2>2 DEF Cycle
    <3>2. CASE ctrl_fsm_cs \in Held
      BY <3>1, <3>2, HeldLoopInv
    <3>3. CASE ctrl_fsm_cs = "FIRST_FETCH"
      BY <3>1, <3>3, FirstFetchLoopInv DEF Controls
    <3>4. CASE ctrl_fsm_cs = "DECODE"
      BY <3>1, <3>4, DecodeLoopInv DEF Controls
    <3>5. CASE ctrl_fsm_cs = "DECODE_HWLOOP"
      BY <3>1, <3>5, DecodeHwloopLoopInv DEF Controls
    <3> QED BY <3>2, <3>3, <3>4, <3>5 DEF Held, TypeOK
  <2>3. CASE UNCHANGED vars
    BY <2>1, <2>3 DEF vars, ClockedVars
  <2> QED BY <2>1, <2>2, <2>3 DEF Next, Cycle
<1> QED BY <1>1, <1>2, PTL DEF Spec

\* The controller announces the jump of a loop only when the last instruction of the body
\* is the next to enter ID and no other jump is under way: the aligner, which takes the
\* target after one hand-over, never takes it early, late or over another.
THEOREM LoopJumpsWellTimed ==
  ASSUME LoopsAdmissible
  PROVE  Spec /\ []TypeOK => []LoopJumpWellTimed
<1>1. LoopInv /\ TypeOK => LoopJumpWellTimed
  <2> SUFFICES ASSUME LoopInv, TypeOK, ctrl_fsm_cs = "DECODE_HWLOOP", NEW i \in Inputs,
                      hwlp_jump(DecodeHwloop(i))
               PROVE  pc_if = pc_id + 1 /\ loop_target = None
    BY DEF LoopJumpWellTimed
  <2> DEFINE c == DecodeHwloop(i)
             d == DecodeInsnInLoop(i)
  <2>1. /\ c.hwlp_end_4_id /\ ~hwlp_end_4_id_q
    BY DEF hwlp_jump
  <2>2. /\ Geometry /\ Apart(hwlp_start, hwlp_end) /\ pc_id \in Nat
        /\ \A m \in Loop : hwlp_end[m] # 0 => hwlp_start[m] + 3 <= hwlp_end[m]
        /\ hwlp_start \in [Loop -> Nat] /\ hwlp_end \in [Loop -> Nat]
    BY LoopGeometry, ControllerAssumption DEF LoopInv, Geometry, TypeOK
  <2>3. COREV_PULP /\ instr_valid_id /\ c = SingleStep(i, d)
    BY <2>1 DEF DecodeHwloop, DebugRequest, TakeIrq, Halted, Default
  <2>4. d.hwlp_end_4_id
    <3>1. d \in Outputs
      BY DecodeType
    <3> HIDE DEF d
    <3>2. c.hwlp_end_4_id = d.hwlp_end_4_id
      BY <2>3, <3>1, SingleSteps
    <3> QED BY <2>1, <3>2
  <2>5. Plain
    BY <2>2, <2>3, <2>4, DecodeInLoopMoves
  <2>6. d = LoopAhead(Decoding)
    BY <2>5 DEF DecodeInsnInLoop, Plain
  <2>7. Ahead # {}
    <3>1. d.hwlp_end_4_id = (Ahead # {})
      BY <2>2, <2>3, <2>6, LoopAheadMoves
    <3> QED BY <2>4, <3>1
  <2>8. PICK k \in Loop : Last(k, pc_id + 1)
    BY <2>7 DEF Ahead
  <2>9. \A m \in Loop : ~Last(m, pc_id)
    <3>1. hwlp_end[k] = pc_id + 2
      BY <2>2, <2>8 DEF Last
    <3>2. \A m \in Loop : hwlp_end[m] = pc_id + 1 => hwlp_end[k] # pc_id + 2
      BY <2>2, BodiesApart
    <3> QED BY <3>1, <3>2 DEF Last
  <2> QED BY <2>1, <2>3, <2>8, <2>9 DEF LoopInv, FetchInLoop
<1> QED BY <1>1, LoopsInvariant, PTL

\* The same of a program memory in which each address has a successor: there execution
\* always stays in memory (TypeCorrect).
THEOREM LoopJumpsInEndlessMemory ==
  ASSUME LoopsAdmissible, \A a \in Addr : a + 1 \in Addr
  PROVE  Spec => []LoopJumpWellTimed
BY LoopJumpsWellTimed, TypeCorrect, PTL

-----------------------------------------------------------------------------
(* That the core does what the sequential machine may do.                  *)

\* Debug mode is not entered while a write of the program to tdata1 waits in EX: the
\* write would take effect after all, in debug mode (TriggerWritesIgnored).
NoTriggerWrite ==
  ctrl_fsm_cs \in {"DBG_TAKEN_ID", "DBG_TAKEN_IF"} /\ ~debug_mode_q => ~Writes("tdata1")

\* illegal_insn_q tells that the instruction in ID, or the one that was flushed, is illegal.
IllegalKept ==
  /\ ctrl_fsm_cs = "DECODE" /\ illegal_insn_q =>
       instr_valid_id /\ illegal_insn /\ ~branch_in_ex
  /\ ctrl_fsm_cs \in {"FLUSH_EX", "FLUSH_WB"} => (illegal_insn_q <=> illegal_insn)
  /\ ctrl_fsm_cs \notin {"DECODE", "FLUSH_EX", "FLUSH_WB"} => ~illegal_insn_q

\* The instruction in ID, or that was there last, ends in an exception or in debug mode.
Trapping == illegal_insn \/ insn \in {"ecall", "ebreak"}

\* What flushes the pipeline: a trap, a return, or an instruction behind which IF goes on;
\* a trigger or an ebreak that enters debug mode does not come this way.
Flushing ==
  ctrl_fsm_cs \in {"FLUSH_EX", "FLUSH_WB"} =>
    /\ Trapping \/ insn \in {"mret", "dret", "wfi", "fencei"} \/ csr_status
    /\ ~Trapping /\ insn \notin {"mret", "dret"} => pc_if = pc_id + 1
    /\ insn = "ebreak" => ~debug_mode_q /\ ~ebreakm
    /\ insn = "wfi" => ~debug_mode_q
    /\ ~debug_mode_q => ~trigger_match

\* XRET_JUMP is for mret, and for dret in debug mode.
Returning ==
  ctrl_fsm_cs = "XRET_JUMP" => insn = "mret" \/ (insn = "dret" /\ debug_mode_q)

\* EX is empty once the flush has waited for it.
ExEmpty == ctrl_fsm_cs \in {"FLUSH_WB", "XRET_JUMP"} => ex.pc = None

\* The core neither boots nor sleeps in debug mode, and enters it from these states.
Awake ==
  ctrl_fsm_cs \in {"RESET", "BOOT_SET", "WAIT_SLEEP", "SLEEP", "DBG_TAKEN_IF", "DBG_WAIT_BRANCH"}
    => ~debug_mode_q

\* Why debug mode is being entered: at the instruction in ID for a request that was seen
\* there, the trigger or an ebreak; at the one in IF after a step, or woken up.  A request
\* stays in debug_req_q until then.
EnteringDebug ==
  /\ ctrl_fsm_cs \in {"DBG_FLUSH", "DBG_TAKEN_ID"} /\ ~stepped =>
       IF debug_mode_q THEN insn = "ebreak"
       ELSE \/ debug_req_entry_q /\ (debug_req_q \/ trigger_match)
            \/ insn = "ebreak" /\ ebreakm
  /\ ctrl_fsm_cs = "DBG_TAKEN_ID" => ~stepped
  /\ ctrl_fsm_cs = "DBG_TAKEN_IF" => stepped \/ debug_req_q
  /\ debug_req_entry_q => ctrl_fsm_cs \in {"DBG_FLUSH", "DBG_TAKEN_ID"}

\* An instruction was stepped over: nothing is decoded before debug mode is entered, and
\* neither the trigger nor an ebreak in ID is mistaken for the reason.
Stepping ==
  /\ stepped =>
       /\ step /\ ~debug_mode_q
       /\ ctrl_fsm_cs \in {"FLUSH_WB", "XRET_JUMP", "DBG_WAIT_BRANCH", "DBG_FLUSH", "DBG_TAKEN_IF"}
       /\ ctrl_fsm_cs = "FLUSH_WB" => Trapping
       /\ ctrl_fsm_cs = "XRET_JUMP" => insn = "mret"
       /\ ctrl_fsm_cs = "DBG_FLUSH" => ~instr_valid_id
       /\ ctrl_fsm_cs \in {"DBG_FLUSH", "DBG_WAIT_BRANCH"} =>
            ~trigger_match /\ ~debug_req_entry_q /\ ~(insn = "ebreak" /\ ebreakm)
  /\ ctrl_fsm_cs = "DBG_WAIT_BRANCH" => stepped
  /\ ctrl_fsm_cs = "FLUSH_WB" /\ Trapping /\ step /\ ~debug_mode_q => stepped
  /\ ctrl_fsm_cs = "XRET_JUMP" /\ step /\ ~debug_mode_q => stepped

\* The instruction in EX writes a CSR that a trap, an interrupt or a step depends on.
csr_in_ex == ex.pc # None /\ Op(ex.pc) \in {"mie", "skip", "dcsr"}

\* Such a write is done when ID decodes again, and before a trap can save over it: outside
\* debug mode it is in EX only during the flush, or behind the instruction stepped over.
CsrWrites ==
  /\ ctrl_fsm_cs \notin {"FLUSH_EX", "DBG_FLUSH"} =>
       /\ Writes("mie") => mie
       /\ Writes("skip") => mepc = ex.value
       /\ Writes("dcsr") => step = ex.taken
  /\ csr_in_ex /\ ~debug_mode_q =>
       /\ ctrl_fsm_cs \in {"FLUSH_EX", "DBG_FLUSH", "DBG_TAKEN_IF"}
       /\ ctrl_fsm_cs = "FLUSH_EX" => ex.pc = pc_id
       /\ ctrl_fsm_cs = "DBG_FLUSH" => stepped
  /\ Writes("dcsr") => debug_mode_q

\* The inductive invariant of the refinement, beside LoopInv.
MachineInv ==
  /\ IllegalKept /\ Flushing /\ Returning /\ ExEmpty /\ Awake /\ EnteringDebug /\ Stepping
  /\ CsrWrites

\* A cycle that issues nothing, or an instruction without effect in EX, leaves EX as it is
\* or without a branch and a write to a CSR.
LEMMA ExBubble ==
  ASSUME NEW i, NEW c, Clocked(i, c),
         issue(i, c) => illegal_insn \/ insn \in {"ecall", "ebreak", "mret", "dret"}
  PROVE  /\ ~branch_in_ex' /\ ~branch_taken_ex'
         /\ \A w \in {"mie", "skip", "dcsr", "tdata1"} : Writes(w)' => Writes(w) /\ ex' = ex
         /\ csr_in_ex' => csr_in_ex /\ ex' = ex
<1>1. ex' = IF issue(i, c) /\ ~illegal_insn
              THEN [pc |-> pc_id, taken |-> i.taken,
                    value |-> IF insn = "skip" THEN mepc + 1 ELSE 0]
            ELSE IF ex_ready(i) THEN NoInsn ELSE ex
  BY DEF Clocked, ExecuteCycle
<1>2. CASE issue(i, c) /\ ~illegal_insn
  <2>1. insn \in {"ecall", "ebreak", "mret", "dret"}
    BY <1>2
  <2>2. ex'.pc = pc_id /\ Op(pc_id) \in {"ecall", "ebreak", "mret", "dret"}
    BY <1>1, <1>2, <2>1 DEF insn
  <2> QED BY <2>2 DEF branch_in_ex, branch_taken_ex, Writes, csr_in_ex
<1>3. CASE ~(issue(i, c) /\ ~illegal_insn)
  BY <1>1, <1>3 DEF branch_in_ex, branch_taken_ex, ex_ready, Writes, csr_in_ex, NoInsn
<1> QED BY <1>2, <1>3

\* A branch leaves EX after a cycle.
LEMMA BranchGone ==
  ASSUME NEW i, NEW c, Clocked(i, c), ~issue(i, c)
  PROVE  ~branch_in_ex' /\ ~branch_taken_ex'
BY ExBubble

\* Such a cycle changes neither dcsr.step nor the trigger as the debugger sees them.
LEMMA ExKept ==
  ASSUME TypeOK, TypeOK', NEW i, NEW c, Clocked(i, c),
         issue(i, c) => illegal_insn \/ insn \in {"ecall", "ebreak", "mret", "dret"},
         c.debug_mode = debug_mode_q \/ ~Writes("tdata1")
  PROVE  Step' = Step /\ Trigger' = Trigger
<1>1. \A w \in {"mie", "skip", "dcsr", "tdata1"} : Writes(w)' => Writes(w) /\ ex' = ex
  BY ExBubble
<1>2. /\ step' = Step
      /\ tmatch_control_exec_q' = Trigger
  BY DEF Clocked, CsrCycle, Step, Trigger
<1>3. Step' = Step
  BY <1>1, <1>2 DEF Step
<1>4. debug_mode_q' = c.debug_mode
  BY DEF Clocked, ControllerCycle
<1>5. Trigger' = Trigger
  BY <1>1, <1>2, <1>4 DEF Trigger
<1> QED BY <1>3, <1>5

\* Nor, unless a trap saves them, the interrupt enable and mepc.
LEMMA StatusKept ==
  ASSUME TypeOK, TypeOK', NEW i, NEW c, Clocked(i, c),
         issue(i, c) => illegal_insn \/ insn \in {"ecall", "ebreak", "mret", "dret"},
         c.save = None \/ c.to = "debug", c.mret = FALSE
  PROVE  Mie' = Mie /\ Mepc' = Mepc /\ mpie' = mpie
<1>1. \A w \in {"mie", "skip", "dcsr", "tdata1"} : Writes(w)' => Writes(w) /\ ex' = ex
  BY ExBubble
<1>2. /\ mie' = (mie \/ Writes("mie")) /\ mpie' = (mpie \/ FALSE)
      /\ mepc' = Mepc
  BY DEF Clocked, CsrCycle, Mepc
<1>3. Mie' = Mie
  <2>1. Mie' <=> Mie
    BY <1>1, <1>2 DEF Mie
  <2> QED BY <2>1 DEF Mie
<1>4. Mepc' = Mepc
  BY <1>1, <1>2 DEF Mepc
<1>5. mpie' = mpie
  BY <1>2 DEF TypeOK
<1> QED BY <1>3, <1>4, <1>5

\* The registers of ID, EX and the controller after a cycle in which IF is halted.
LEMMA HeldCycle ==
  ASSUME TypeOK, LoopInv, ctrl_fsm_cs \in Held, NEW i \in Inputs, NEW f, NEW b,
         NEW c, c = Controls(i, f, b), Clocked(i, c), DebugRequestCycle(i)
  PROVE  /\ pc_if' = IF c.pc_set # None THEN c.pc_set ELSE pc_if
         /\ pc_id' = pc_id /\ instr_valid_id' = FALSE
         /\ ex' = IF ex_ready(i) THEN NoInsn ELSE ex
         /\ ~issue(i, c) /\ ~branch_taken_ex'
         /\ ctrl_fsm_cs' = c.ns /\ illegal_insn_q' = c.illegal_insn
         /\ debug_mode_q' = c.debug_mode /\ debug_req_entry_q' = c.debug_req_entry
         /\ debug_req_pending(i) /\ ~debug_mode_q => debug_req_q'
<1>1. /\ i.fetch_valid = FALSE /\ instr_valid_id \in BOOLEAN
  BY DEF Inputs, Held, TypeOK
<1>2. /\ c.is_decoding = FALSE
      /\ ctrl_fsm_cs = "DBG_FLUSH" => c.halt_id = TRUE
  BY HeldControls
<1>3. ~if_valid(i, c) /\ ~issue(i, c)
  BY <1>1, <1>2 DEF if_valid, issue
<1>4. instr_valid_id => ctrl_fsm_cs = "DBG_FLUSH"
  BY DEF LoopInv, IdEmpty, Held, States
<1>5. /\ pc_if' = IF c.pc_set # None THEN c.pc_set ELSE pc_if
      /\ pc_id' = pc_id
  BY <1>3 DEF Clocked, FetchCycle
<1>6. instr_valid_id' = FALSE
  BY <1>1, <1>2, <1>3, <1>4 DEF Clocked, FetchCycle, clear_instr_valid
<1>7. ex' = IF ex_ready(i) THEN NoInsn ELSE ex
  BY <1>3 DEF Clocked, ExecuteCycle
<1>8. ~branch_taken_ex'
  BY <1>3, BranchGone
<1>9. /\ ctrl_fsm_cs' = c.ns /\ illegal_insn_q' = c.illegal_insn
      /\ debug_mode_q' = c.debug_mode /\ debug_req_entry_q' = c.debug_req_entry
  BY DEF Clocked, ControllerCycle
<1>10. debug_req_pending(i) /\ ~debug_mode_q => debug_req_q'
  BY DEF DebugRequestCycle, debug_req_pending
<1> QED BY <1>3, <1>5, <1>6, <1>7, <1>8, <1>9, <1>10

\* Such a cycle leaves the loops alone (FLUSH_WB counts in vain, see LastInstructionCounts).
LEMMA HeldLoops ==
  ASSUME TypeOK, LoopInv, ctrl_fsm_cs \in Held, NEW i \in Inputs, NEW f, NEW b,
         NEW c, c = Controls(i, f, b), Clocked(i, c)
  PROVE  hwlp_start' = hwlp_start /\ hwlp_end' = hwlp_end /\ hwlp_counter' = hwlp_counter
<1>1. /\ c.is_decoding = FALSE
      /\ \A k \in c.hwlp_dec_cnt : ctrl_fsm_cs = "FLUSH_WB"
  BY HeldControls
<1>2. ctrl_fsm_cs = "FLUSH_WB" => ~instr_valid_id
  BY DEF LoopInv, IdEmpty
<1>3. hwlp_counter' = [k \in Loop |-> hwlp_counter[k]]
  BY <1>1, <1>2 DEF Clocked, LoopCycle, HwloopCycle
<1> QED BY <1>1, <1>3 DEF Clocked, LoopCycle, HwloopCycle, TypeOK

\* What takes effect in such a cycle: a return, or the step over a trap.
LEMMA HeldObserve ==
  ASSUME ctrl_fsm_cs \in Held, NEW i, NEW c, ~issue(i, c), Clocked(i, c)
  PROVE  /\ executed' = IF c.mret \/ (debug_mode_q /\ ~c.debug_mode) THEN pc_id ELSE executed
         /\ stepped' <=> \/ /\ step /\ ~debug_mode_q
                            /\ c.mret \/ (c.save # None /\ ctrl_fsm_cs = "FLUSH_EX")
                         \/ stepped /\ ctrl_fsm_cs \notin {"DBG_TAKEN_ID", "DBG_TAKEN_IF"}
<1>1. Executes(i, c) <=> c.mret \/ (debug_mode_q /\ ~c.debug_mode)
  BY DEF Executes
<1>2. stepped' <=> \/ step /\ ~debug_mode_q /\ (Executes(i, c) \/ Traps(c))
                   \/ stepped /\ ctrl_fsm_cs \notin {"DBG_TAKEN_ID", "DBG_TAKEN_IF"}
  BY DEF Clocked, Observe
<1>3. executed' = IF Executes(i, c) THEN pc_id ELSE executed
  BY DEF Clocked, Observe
<1> QED BY <1>1, <1>2, <1>3 DEF Traps

\* A cycle that moves the pipeline without an effect is a step of the machine.
LEMMA Waits ==
  ASSUME TypeOK, TypeOK', NEW i, NEW c, Clocked(i, c),
         issue(i, c) => illegal_insn \/ insn \in {"ecall", "ebreak", "mret", "dret"},
         c.save = None, c.mret = FALSE, c.debug_mode = debug_mode_q,
         NextPc' = NextPc, stepped' = stepped, executed' = executed,
         hwlp_start' = hwlp_start, hwlp_end' = hwlp_end, hwlp_counter' = hwlp_counter
  PROVE  Machine!Next
<1>1. debug_mode_q' = debug_mode_q
  BY DEF Clocked, ControllerCycle
<1>2. Step' = Step /\ Trigger' = Trigger
  BY <1>1, ExKept
<1>3. Mie' = Mie /\ Mepc' = Mepc /\ mpie' = mpie
  BY StatusKept
<1>4. dpc' = dpc
  BY DEF Clocked, CsrCycle
<1>5. irq_q' \in BOOLEAN /\ debug_req_q' \in BOOLEAN
  BY DEF TypeOK
<1>6. Machine!Wait
  BY <1>1, <1>2, <1>3, <1>4 DEF Machine!Wait
<1> QED BY <1>5, <1>6 DEF Machine!Next

\* The states of reset and sleep.
Idle == {"RESET", "BOOT_SET", "WAIT_SLEEP", "SLEEP"}

\* RESET, BOOT_SET, WAIT_SLEEP and SLEEP: the machine waits.
LEMMA IdleMachine ==
  ASSUME TypeOK, TypeOK', LoopInv, MachineInv, ctrl_fsm_cs \in Idle,
         NEW i \in Inputs, NEW c, c = Controls(i, fetch_enable_q, boot),
         Clocked(i, c), DebugRequestCycle(i), boot' = boot
  PROVE  MachineInv' /\ Machine!Next
<1>1. /\ c.ns \in Idle \cup {"FIRST_FETCH", "DBG_TAKEN_IF"}
      /\ c.ns = "DBG_TAKEN_IF" => debug_req_pending(i)
      /\ c.pc_set = IF ctrl_fsm_cs = "BOOT_SET" THEN boot ELSE None
      /\ ctrl_fsm_cs = "RESET" <=> c.ns \in {"RESET", "BOOT_SET"}
      /\ c.save = None /\ c.mret = FALSE
      /\ c.illegal_insn = illegal_insn_q /\ c.debug_mode = debug_mode_q
      /\ c.debug_req_entry = debug_req_entry_q
  <2>1. CASE ctrl_fsm_cs = "RESET"
    BY <2>1 DEF Controls, Default, Idle
  <2>2. CASE ctrl_fsm_cs = "BOOT_SET"
    BY <2>2 DEF Controls, BootSet, WakeForDebug, Default, Idle
  <2>3. CASE ctrl_fsm_cs = "WAIT_SLEEP"
    BY <2>3 DEF Controls, Asleep, Halted, Default, Idle
  <2>4. CASE ctrl_fsm_cs = "SLEEP"
    BY <2>4 DEF Controls, Sleep, WakeForDebug, Asleep, Halted, Default, Idle
  <2> QED BY <2>1, <2>2, <2>3, <2>4 DEF Idle
<1>2. ctrl_fsm_cs \in Held
  BY DEF Idle, Held, States
<1>3. /\ pc_if' = IF ctrl_fsm_cs = "BOOT_SET" THEN boot ELSE pc_if
      /\ pc_id' = pc_id /\ instr_valid_id' = FALSE
      /\ ex' = IF ex_ready(i) THEN NoInsn ELSE ex
      /\ ~issue(i, c) /\ ~branch_taken_ex'
      /\ ctrl_fsm_cs' \in Idle \cup {"FIRST_FETCH", "DBG_TAKEN_IF"}
      /\ illegal_insn_q' = illegal_insn_q
      /\ debug_mode_q' = debug_mode_q /\ debug_req_entry_q' = debug_req_entry_q
      /\ ctrl_fsm_cs = "RESET" <=> ctrl_fsm_cs' \in {"RESET", "BOOT_SET"}
  <2>1. None # boot
    BY ControllerAssumption DEF TypeOK
  <2> QED BY ZenonT(60), <1>1, <1>2, <2>1, HeldCycle
<1>4. hwlp_start' = hwlp_start /\ hwlp_end' = hwlp_end /\ hwlp_counter' = hwlp_counter
  BY <1>2, HeldLoops
<1>5. executed' = executed /\ (stepped' <=> stepped)
  BY <1>1, <1>2, <1>3, HeldObserve DEF Idle
<1>6. ~stepped /\ ~illegal_insn_q /\ ~debug_mode_q /\ ~debug_req_entry_q /\ ~csr_in_ex
  BY DEF MachineInv, IllegalKept, Awake, EnteringDebug, Stepping, CsrWrites, Idle
<1>7. ~csr_in_ex'
  BY <1>3, <1>6 DEF csr_in_ex, NoInsn
<1>8. ctrl_fsm_cs' = "DBG_TAKEN_IF" => debug_req_q'
  BY <1>1, <1>2, <1>6, HeldCycle
<1>9. MachineInv'
  BY <1>3, <1>5, <1>6, <1>7, <1>8
     DEF MachineInv, IllegalKept, Flushing, Returning, ExEmpty, Awake, EnteringDebug, Stepping,
         CsrWrites, csr_in_ex, Writes, Idle
<1>10. NextPc' = NextPc
  <2>1. ~instr_valid_id /\ ~branch_taken_ex
    BY DEF LoopInv, IdEmpty, BranchInEx, branch_taken_ex, Idle
  <2> QED BY <1>3, <2>1 DEF NextPc, Idle
<1>11. stepped' = stepped
  BY <1>5 DEF TypeOK
<1> QED BY <1>1, <1>3, <1>4, <1>5, <1>9, <1>10, <1>11, Waits

\* A trap to machine mode saves c.save and disables interrupts, and nothing else.
LEMMA TrapSaved ==
  ASSUME TypeOK, TypeOK', NEW i, NEW c, Clocked(i, c), ~issue(i, c), ~csr_in_ex,
         c.save # None, c.to = "machine", c.debug_mode = debug_mode_q
  PROVE  /\ Mie' = FALSE /\ mpie' = Mie /\ Mepc' = c.save
         /\ Step' = Step /\ Trigger' = Trigger /\ dpc' = dpc /\ debug_mode_q' = debug_mode_q
<1>1. debug_mode_q' = debug_mode_q
  BY DEF Clocked, ControllerCycle
<1>2. Step' = Step /\ Trigger' = Trigger
  BY <1>1, ExKept
<1>3. mie' = FALSE /\ mpie' = mie /\ mepc' = c.save /\ dpc' = dpc
  BY DEF Clocked, CsrCycle
<1>4. ex' \in {ex, NoInsn}
  BY DEF Clocked, ExecuteCycle
<1>5. \A w \in {"mie", "skip", "dcsr"} : ~Writes(w) /\ ~Writes(w)'
  BY <1>4 DEF csr_in_ex, Writes, NoInsn
<1>6. Mie = mie
  BY <1>5 DEF Mie, TypeOK
<1>7. Mie' = FALSE
  BY <1>3, <1>5 DEF Mie
<1>8. Mepc' = c.save
  BY <1>3, <1>5 DEF Mepc
<1> QED BY <1>1, <1>2, <1>3, <1>6, <1>7, <1>8

\* So it is the machine's Save when it saves the next instruction.
LEMMA MachineSaves ==
  ASSUME TypeOK, TypeOK', NEW i, NEW c, Clocked(i, c), ~issue(i, c), ~csr_in_ex,
         c.save # None, c.to = "machine", c.debug_mode = debug_mode_q, c.save = NextPc,
         executed' = executed, NEW h, NextPc' = h,
         hwlp_start' = hwlp_start, hwlp_end' = hwlp_end, hwlp_counter' = hwlp_counter
  PROVE  Machine!Save(h)
<1>1. /\ Mie' = FALSE /\ mpie' = Mie /\ Mepc' = c.save
      /\ Step' = Step /\ Trigger' = Trigger /\ dpc' = dpc /\ debug_mode_q' = debug_mode_q
  BY TrapSaved
<1> QED BY <1>1 DEF Machine!Save

\* The machine traps on the same instructions.
LEMMA MachineTraps ==
  /\ Machine!traps(pc_id) <=> Trapping \/ (insn = "mret" /\ debug_mode_q)
  /\ Machine!Op(pc_id) = insn
BY DEF Machine!traps, Machine!Op, Trapping, illegal_insn, insn, Op

\* FLUSH_EX: the machine waits for EX, or takes the exception.
LEMMA FlushExMachine ==
  ASSUME TypeOK, TypeOK', LoopInv, MachineInv, ctrl_fsm_cs = "FLUSH_EX",
         NEW i \in Inputs, NEW c, c = Controls(i, fetch_enable_q, boot),
         Clocked(i, c), DebugRequestCycle(i)
  PROVE  MachineInv' /\ Machine!Next
<1>1. /\ c.ns = (IF i.ready THEN "FLUSH_WB" ELSE "FLUSH_EX")
      /\ c.pc_set = None /\ c.mret = FALSE
      /\ c.illegal_insn = illegal_insn_q /\ c.debug_mode = debug_mode_q
      /\ c.debug_req_entry = debug_req_entry_q
      /\ c.save # None => c.to = "machine"
      /\ c.save = IF /\ i.ready
                     /\ IF illegal_insn_q \/ insn = "ecall" THEN ~debug_mode_q
                        ELSE insn = "ebreak"
                  THEN pc_id ELSE None
  BY DEF Controls, FlushEx, Halted, Default
<1>2. ctrl_fsm_cs \in Held
  BY DEF Held, States
<1>3. /\ pc_if' = pc_if /\ pc_id' = pc_id /\ instr_valid_id' = FALSE
      /\ ex' = IF ex_ready(i) THEN NoInsn ELSE ex
      /\ ~issue(i, c) /\ ~branch_taken_ex'
      /\ ctrl_fsm_cs' = (IF i.ready THEN "FLUSH_WB" ELSE "FLUSH_EX")
      /\ illegal_insn_q' = illegal_insn_q
      /\ debug_mode_q' = debug_mode_q /\ debug_req_entry_q' = debug_req_entry_q
  BY ZenonT(60), <1>1, <1>2, HeldCycle
<1>4. hwlp_start' = hwlp_start /\ hwlp_end' = hwlp_end /\ hwlp_counter' = hwlp_counter
  BY <1>2, HeldLoops
<1>5. /\ illegal_insn_q <=> illegal_insn
      /\ Trapping \/ insn \in {"mret", "dret", "wfi", "fencei"} \/ csr_status
      /\ ~Trapping /\ insn \notin {"mret", "dret"} => pc_if = pc_id + 1
      /\ insn = "ebreak" => ~debug_mode_q /\ ~ebreakm
      /\ insn = "wfi" => ~debug_mode_q
      /\ ~debug_mode_q => ~trigger_match
      /\ ~stepped /\ ~debug_req_entry_q
      /\ csr_in_ex /\ ~debug_mode_q => ex.pc = pc_id
      /\ Writes("dcsr") => debug_mode_q
  BY DEF MachineInv, IllegalKept, Flushing, Stepping, EnteringDebug, CsrWrites
<1>6. /\ executed' = executed
      /\ stepped' <=> step /\ ~debug_mode_q /\ c.save # None
  BY <1>1, <1>2, <1>3, <1>5, HeldObserve
<1>7. /\ (c.save # None) <=> i.ready /\ Trapping /\ ~debug_mode_q
      /\ c.save # None => c.save = pc_id
  <2>1. pc_id # None
    BY ControllerAssumption DEF TypeOK
  <2> QED BY <1>1, <1>5, <2>1 DEF Trapping
<1>8. /\ tmatch_control_exec_q' = Trigger
      /\ step' = Step
  BY DEF Clocked, CsrCycle, Trigger, Step
<1>9. ~debug_mode_q => step' = step /\ tmatch_control_exec_q' = tmatch_control_exec_q
  BY <1>5, <1>8 DEF Step, Trigger
<1>10. /\ insn' = insn /\ (illegal_insn' <=> illegal_insn) /\ (csr_status' <=> csr_status)
       /\ Trapping' <=> Trapping
       /\ ~debug_mode_q => (trigger_match' <=> trigger_match)
  BY <1>3, <1>9 DEF insn, illegal_insn, csr_status, Trapping, trigger_match
<1>11. i.ready => ex' = NoInsn
  BY <1>3 DEF ex_ready
<1>12. \A w \in {"mie", "skip", "dcsr"} : Writes(w)' => ~i.ready /\ Writes(w) /\ ex' = ex
  BY <1>3, <1>11 DEF Writes, NoInsn
<1>13. csr_in_ex' => ~i.ready /\ csr_in_ex /\ ex' = ex
  BY <1>3, <1>11 DEF csr_in_ex, NoInsn
<1>14. IllegalKept' /\ Flushing' /\ Returning' /\ Awake' /\ EnteringDebug'
  BY <1>3, <1>5, <1>6, <1>10
     DEF IllegalKept, Flushing, Returning, Awake, EnteringDebug
<1>15. ExEmpty'
  BY <1>3, <1>11 DEF ExEmpty, NoInsn
<1>16. Stepping'
  BY <1>3, <1>5, <1>6, <1>7, <1>9, <1>10 DEF Stepping
<1>17. CsrWrites'
  BY <1>3, <1>5, <1>12, <1>13 DEF CsrWrites
<1>18. MachineInv'
  BY <1>14, <1>15, <1>16, <1>17 DEF MachineInv
<1>19. ~instr_valid_id /\ ~branch_taken_ex
  BY DEF LoopInv, IdEmpty, BranchInEx, branch_taken_ex
<1>20. /\ Trapping \/ insn \in {"mret", "dret"} => NextPc = pc_id
       /\ ~Trapping /\ insn \notin {"mret", "dret"} => NextPc = pc_if
  BY <1>5, <1>19 DEF NextPc, Trapping
<1>21. ASSUME ~i.ready PROVE NextPc' = NextPc
  <2>1. /\ Trapping' \/ insn' \in {"mret", "dret"} => NextPc' = pc_id'
        /\ ~Trapping' /\ insn' \notin {"mret", "dret"} => NextPc' = pc_if'
    BY <1>3, <1>5, <1>10, <1>21 DEF NextPc, Trapping
  <2> QED BY <1>3, <1>10, <1>20, <2>1
<1>22. i.ready => NextPc' = IF Trapping THEN handler'
                            ELSE IF insn \in {"mret", "dret"} THEN pc_id ELSE pc_if
  BY <1>3, <1>5, <1>10 DEF NextPc, Trapping
<1>23. CASE c.save = None /\ ~(i.ready /\ Trapping)
  <2>1. stepped' = stepped
    BY <1>5, <1>6, <1>23 DEF TypeOK
  <2>2. NextPc' = NextPc
    BY <1>20, <1>21, <1>22, <1>23
  <2> QED BY <1>1, <1>3, <1>4, <1>6, <1>18, <1>23, <2>1, <2>2, Waits
<1>24. CASE i.ready /\ Trapping /\ debug_mode_q
  <2>1. NextPc = pc_id /\ NextPc' = DebugException /\ c.save = None
    BY <1>3, <1>5, <1>7, <1>10, <1>20, <1>22, <1>24 DEF handler, TypeOK
  <2>2. Machine!ExceptionInDebug
    <3>1. /\ Machine!traps(NextPc) /\ Machine!Op(NextPc) # "ebreak"
      BY <1>5, <1>24, <2>1, MachineTraps
    <3>2. Step' = Step /\ Trigger' = Trigger
      BY <1>1, <1>3, <1>24, ExKept
    <3>3. Mie' = Mie /\ Mepc' = Mepc /\ mpie' = mpie
      BY <1>1, <1>3, <2>1, StatusKept
    <3>4. dpc' = dpc
      BY <2>1 DEF Clocked, CsrCycle
    <3>5. stepped' = stepped
      BY <1>5, <1>6, <1>24 DEF TypeOK
    <3> QED BY <1>3, <1>4, <1>6, <1>24, <2>1, <3>1, <3>2, <3>3, <3>4, <3>5 DEF Machine!ExceptionInDebug
  <2> QED BY <1>18, <2>2 DEF Machine!Next, TypeOK
<1>25. CASE i.ready /\ Trapping /\ ~debug_mode_q
  <2>1. NextPc = pc_id /\ NextPc' = ExcHandler
    BY <1>3, <1>10, <1>20, <1>22, <1>25 DEF handler, TypeOK
  <2>2. ~csr_in_ex
    <3>1. csr_in_ex => insn \in {"mie", "skip", "dcsr"}
      BY <1>5, <1>25 DEF csr_in_ex, insn
    <3>2. csr_in_ex => insn # "dcsr"
      BY <1>5, <1>25 DEF csr_in_ex, insn, Writes
    <3> QED BY <1>25, <3>1, <3>2 DEF Trapping, illegal_insn
  <2>3. Machine!Save(ExcHandler)
    BY <1>1, <1>3, <1>4, <1>6, <1>7, <1>25, <2>1, <2>2, MachineSaves
  <2>4. Machine!Exception
    <3>1. Machine!traps(NextPc) /\ ~(Machine!Op(NextPc) = "ebreak" /\ ebreakm)
      BY <1>5, <1>25, <2>1, MachineTraps
    <3>2. ~Machine!Watched
      BY <1>5, <1>25, <2>1 DEF Machine!Watched, Trigger, trigger_match
    <3>3. stepped' = Step
      <4>1. Step = step
        BY <2>2 DEF Step, csr_in_ex, Writes
      <4> QED BY <1>6, <1>7, <1>25, <4>1 DEF TypeOK
    <3> QED BY <1>5, <1>25, <2>3, <3>1, <3>2, <3>3 DEF Machine!Exception
  <2> QED BY <1>18, <2>4 DEF Machine!Next, TypeOK
<1> QED BY <1>7, <1>23, <1>24, <1>25

\* Behind a flush execution goes on at the next address: no loop ends there.
LEMMA EndsNoLoop ==
  ASSUME TypeOK, LoopsAdmissible, CsrNotLast, LoopInv,
         insn \in {"jump", "branch", "wfi", "fencei", "mret", "dret"} \/ csr_status
  PROVE  /\ \A k \in Loop : hwlp_end[k] # pc_id + 1
         /\ Machine!Following(pc_id) = pc_id + 1 /\ Machine!Counted(pc_id) = hwlp_counter
<1>1. /\ pc_id \in Nat /\ pc_id \in Addr
      /\ hwlp_start \in [Loop -> Nat] /\ hwlp_end \in [Loop -> Nat]
      /\ hwlp_counter \in [Loop -> Nat]
  BY ControllerAssumption DEF TypeOK
<1>2. Geometry
  BY LoopGeometry DEF LoopInv
<1>3. ASSUME NEW k \in Loop, hwlp_end[k] = pc_id + 1
      PROVE  FALSE
  <2>1. hwlp_end[k] # 0 /\ hwlp_start[k] <= pc_id /\ pc_id < hwlp_end[k]
    BY <1>1, <1>2, <1>3 DEF Geometry
  <2>2. Op(pc_id) \notin {"jump", "branch", "wfi", "fencei", "mret", "dret"}
    BY <1>1, <1>2, <2>1 DEF Geometry
  <2>3. PICK a \in Setups : hwlp_end[k] = Program[a].end
    BY <2>1 DEF LoopInv, LoopsSetUp
  <2>4. Op(pc_id) \notin {"csr", "mie", "skip", "dcsr"}
    BY <1>1, <1>3, <2>3 DEF CsrNotLast
  <2> QED BY <2>2, <2>4 DEF insn, csr_status
<1>4. Machine!Ends(pc_id) = {}
  BY <1>3 DEF Machine!Ends, Machine!Loop, Loop
<1>5. Machine!Following(pc_id) = pc_id + 1
  BY <1>4 DEF Machine!Following
<1>6. Machine!Counted(pc_id) = hwlp_counter
  BY <1>1, <1>4 DEF Machine!Counted, Machine!Loop, Loop
<1> QED BY <1>3, <1>5, <1>6

\* An exception goes to an address of the memory.
LEMMA HandlerType == handler \in Addr /\ handler # None
  BY ControllerAssumption DEF handler

\* FLUSH_WB: an exception in debug mode, the effect of mret, or the fetch behind the flush.
LEMMA FlushWbMachine ==
  ASSUME TypeOK, TypeOK', LoopInv, MachineInv, ctrl_fsm_cs = "FLUSH_WB",
         LoopsAdmissible, CsrNotLast,
         NEW i \in Inputs, NEW c, c = Controls(i, fetch_enable_q, boot),
         Clocked(i, c), DebugRequestCycle(i)
  PROVE  MachineInv' /\ Machine!Next
<1>1. /\ illegal_insn_q <=> illegal_insn
      /\ Trapping \/ insn \in {"mret", "dret", "wfi", "fencei"} \/ csr_status
      /\ ~Trapping /\ insn \notin {"mret", "dret"} => pc_if = pc_id + 1
      /\ insn = "ebreak" => ~debug_mode_q /\ ~ebreakm
      /\ insn = "wfi" => ~debug_mode_q
      /\ ~debug_mode_q => ~trigger_match
      /\ ~debug_req_entry_q /\ ex.pc = None
      /\ stepped => step /\ ~debug_mode_q /\ Trapping
      /\ Trapping /\ step /\ ~debug_mode_q => stepped
  BY DEF MachineInv, IllegalKept, Flushing, Stepping, EnteringDebug, ExEmpty
<1>2. ~\E k \in Loop : csr_status /\ hwlp_end_eq_pc(k)
  BY EndsNoLoop DEF hwlp_end_eq_pc
<1>3. /\ c.save = None /\ c.debug_mode = debug_mode_q /\ c.debug_req_entry = debug_req_entry_q
      /\ Trapping =>
           /\ c.pc_set = handler /\ c.illegal_insn = FALSE /\ c.mret = FALSE
           /\ c.ns = (IF step /\ ~debug_mode_q THEN "DBG_TAKEN_IF" ELSE "DECODE")
      /\ ~Trapping => c.illegal_insn = illegal_insn_q
      /\ ~Trapping /\ insn \in {"mret", "dret"} =>
           /\ c.ns = "XRET_JUMP" /\ c.pc_set = None
           /\ c.mret = (insn = "mret" /\ ~debug_mode_q)
      /\ ~Trapping /\ insn \notin {"mret", "dret"} =>
           /\ c.mret = FALSE /\ c.pc_set \in {None, pc_id + 1}
           /\ c.ns \in {"DECODE", "DBG_TAKEN_IF", "WAIT_SLEEP"}
           /\ c.ns = "DBG_TAKEN_IF" => debug_req_pending(i)
           /\ c.ns # "DECODE" => insn = "wfi"
  BY ZenonT(60), <1>1, <1>2 DEF Controls, FlushWb, WakeForDebug, Halted, Default, debug_single_step, Trapping
<1>4. ctrl_fsm_cs \in Held
  BY DEF Held, States
<1>5. /\ pc_if' = IF c.pc_set # None THEN c.pc_set ELSE pc_if
      /\ pc_id' = pc_id /\ instr_valid_id' = FALSE
      /\ ex' = IF ex_ready(i) THEN NoInsn ELSE ex
      /\ ~issue(i, c) /\ ~branch_taken_ex'
      /\ ctrl_fsm_cs' = c.ns
      /\ debug_mode_q' = debug_mode_q /\ ~debug_req_entry_q'
      /\ illegal_insn_q' = c.illegal_insn
      /\ debug_req_pending(i) /\ ~debug_mode_q => debug_req_q'
  BY ZenonT(60), <1>1, <1>3, <1>4, HeldCycle
<1>6. hwlp_start' = hwlp_start /\ hwlp_end' = hwlp_end /\ hwlp_counter' = hwlp_counter
  BY <1>4, HeldLoops
<1>7. /\ executed' = IF c.mret THEN pc_id ELSE executed
      /\ stepped' <=> (step /\ ~debug_mode_q /\ c.mret) \/ stepped
  BY <1>3, <1>4, <1>5, HeldObserve
<1>8. ex'.pc = None
  BY <1>1, <1>5 DEF NoInsn
<1>9. \A w \in {"mie", "skip", "dcsr", "tdata1"} : ~Writes(w) /\ ~Writes(w)'
  BY <1>1, <1>8 DEF Writes
<1>10. /\ tmatch_control_exec_q' = tmatch_control_exec_q /\ step' = step
       /\ Step = step /\ Trigger = tmatch_control_exec_q
  BY <1>9 DEF Clocked, CsrCycle, Trigger, Step
<1>11. /\ insn' = insn /\ (illegal_insn' <=> illegal_insn) /\ (csr_status' <=> csr_status)
       /\ Trapping' <=> Trapping
  BY <1>5 DEF insn, illegal_insn, csr_status, Trapping
<1>12. insn = "dret" /\ ~Trapping => debug_mode_q
  BY DEF Trapping, illegal_insn
<1>13. MachineInv'
  <2>1. IllegalKept' /\ Flushing' /\ Returning' /\ ExEmpty'
    <3>1. ~illegal_insn_q'
      BY <1>1, <1>3, <1>5 DEF Trapping
    <3> QED BY <1>3, <1>5, <1>8, <1>11, <1>12, <3>1
            DEF IllegalKept, Flushing, Returning, ExEmpty
  <2>2. Awake' /\ EnteringDebug'
    BY <1>1, <1>3, <1>5, <1>7 DEF Awake, EnteringDebug
  <2>3. Stepping'
    BY <1>1, <1>3, <1>5, <1>7, <1>10, <1>11, <1>12 DEF Stepping
  <2>4. CsrWrites'
    BY <1>8, <1>9 DEF CsrWrites, csr_in_ex
  <2> QED BY <2>1, <2>2, <2>3, <2>4 DEF MachineInv
<1>14. ~instr_valid_id /\ ~branch_taken_ex
  BY DEF LoopInv, IdEmpty, BranchInEx, branch_taken_ex
<1>15. NextPc = IF Trapping THEN handler ELSE IF insn \in {"mret", "dret"} THEN pc_id ELSE pc_if
  BY <1>1, <1>14 DEF NextPc, Trapping
<1>16. CASE Trapping
  <2>1. pc_if' = handler /\ ctrl_fsm_cs' \in {"DECODE", "DBG_TAKEN_IF"}
    BY <1>3, <1>5, <1>16, HandlerType
  <2>2. NextPc' = NextPc
    BY <1>5, <1>15, <1>16, <2>1 DEF NextPc
  <2>3. stepped' = stepped /\ executed' = executed
    BY <1>3, <1>7, <1>16 DEF TypeOK
  <2> QED BY <1>3, <1>5, <1>6, <1>13, <1>16, <2>2, <2>3, Waits
<1>17. CASE ~Trapping /\ insn \notin {"mret", "dret"}
  <2>1. pc_if' = pc_if
    BY <1>1, <1>3, <1>5, <1>17
  <2>2. NextPc' = NextPc
    BY <1>3, <1>5, <1>15, <1>17, <2>1 DEF NextPc
  <2>3. stepped' = stepped /\ executed' = executed
    BY <1>3, <1>7, <1>17 DEF TypeOK
  <2> QED BY <1>3, <1>5, <1>6, <1>13, <1>17, <2>2, <2>3, Waits
<1>18. CASE ~Trapping /\ insn \in {"mret", "dret"} /\ debug_mode_q
  <2>1. c.mret = FALSE
    BY <1>3, <1>18
  <2>2. NextPc' = NextPc
    BY <1>3, <1>5, <1>11, <1>15, <1>18 DEF NextPc
  <2>3. stepped' = stepped /\ executed' = executed
    BY <1>7, <1>18, <2>1 DEF TypeOK
  <2> QED BY <1>3, <1>5, <1>6, <1>13, <2>1, <2>2, <2>3, Waits
<1>19. CASE ~Trapping /\ insn = "mret" /\ ~debug_mode_q
  <2>1. c.mret = TRUE /\ NextPc = pc_id
    BY <1>3, <1>15, <1>19
  <2>2. /\ mie' = mpie /\ mpie' = TRUE /\ mepc' = mepc /\ dpc' = dpc
    BY <1>3, <1>9, <2>1 DEF Clocked, CsrCycle, TypeOK
  <2>3. NextPc' = mepc
    BY <1>3, <1>5, <1>11, <1>19, <2>2 DEF NextPc
  <2>4. Mie' = mpie
    <3>1. Mie' <=> mpie
      BY <1>9, <2>2 DEF Mie
    <3> QED BY <3>1 DEF Mie, TypeOK
  <2>5. Mepc' = mepc /\ Mepc = mepc
    BY <1>9, <2>2 DEF Mepc
  <2>6. Step' = Step /\ Trigger' = Trigger
    BY <1>9, <1>10 DEF Step, Trigger
  <2>7. Machine!Op(pc_id) = "mret" /\ ~Machine!traps(pc_id)
    BY <1>19, MachineTraps
  <2>8. ~Machine!Watched
    BY <1>1, <1>10, <1>19, <2>1 DEF Machine!Watched, trigger_match
  <2>9. Machine!GoOn
    BY <2>1, <2>3, <2>5, <2>7 DEF Machine!GoOn
  <2>10. Machine!SetLoops
    BY <1>6, <1>19, <2>1, <2>7, EndsNoLoop DEF Machine!SetLoops
  <2>11. Machine!SetStatus
    <3>1. debug_mode_q' = (debug_mode_q /\ Machine!Op(NextPc) # "dret")
      BY <1>5, <1>19 DEF TypeOK
    <3>2. mpie' = (mpie \/ Machine!Op(NextPc) = "mret")
      BY <2>1, <2>2, <2>7
    <3> QED BY <2>1, <2>2, <2>4, <2>5, <2>6, <2>7, <3>1, <3>2 DEF Machine!SetStatus
  <2>12. stepped' = (Step /\ ~debug_mode_q)
    BY <1>1, <1>7, <1>10, <1>19, <2>1 DEF TypeOK
  <2>13. Machine!Execute
    BY <1>1, <1>7, <1>19, <2>1, <2>7, <2>8, <2>9, <2>10, <2>11, <2>12 DEF Machine!Execute
  <2> QED BY <1>13, <2>13 DEF Machine!Next, TypeOK
<1> QED BY <1>12, <1>16, <1>17, <1>18, <1>19

\* XRET_JUMP: IF goes to mepc for mret, which took effect before; dret takes effect now, and
\* mret of the debugger is an exception.
LEMMA XretJumpMachine ==
  ASSUME TypeOK, TypeOK', LoopInv, MachineInv, ctrl_fsm_cs = "XRET_JUMP",
         LoopsAdmissible, CsrNotLast,
         NEW i \in Inputs, NEW c, c = Controls(i, fetch_enable_q, boot),
         Clocked(i, c), DebugRequestCycle(i)
  PROVE  MachineInv' /\ Machine!Next
<1>1. /\ insn = "mret" \/ (insn = "dret" /\ debug_mode_q)
      /\ ex.pc = None /\ ~illegal_insn_q /\ ~debug_req_entry_q
      /\ stepped => step /\ ~debug_mode_q /\ insn = "mret"
      /\ step /\ ~debug_mode_q => stepped
  BY DEF MachineInv, IllegalKept, Returning, Stepping, EnteringDebug, ExEmpty
<1> DEFINE target == IF insn = "dret" THEN dpc ELSE IF debug_mode_q THEN DebugException ELSE mepc
<1>2. target \in Addr /\ target # None
  BY ControllerAssumption DEF TypeOK
<1>3. /\ c.save = None /\ c.mret = FALSE /\ c.illegal_insn = illegal_insn_q
      /\ c.debug_mode = (debug_mode_q /\ insn # "dret")
      /\ c.debug_req_entry = debug_req_entry_q /\ c.pc_set = target
      /\ c.ns = (IF step /\ ~debug_mode_q THEN "DBG_TAKEN_IF" ELSE "DECODE")
  BY DEF Controls, XretJump, Default, debug_single_step
<1> HIDE DEF target
<1>4. ctrl_fsm_cs \in Held
  BY DEF Held, States
<1>5. /\ pc_if' = target
      /\ pc_id' = pc_id /\ instr_valid_id' = FALSE
      /\ ex' = IF ex_ready(i) THEN NoInsn ELSE ex
      /\ ~issue(i, c) /\ ~branch_taken_ex'
      /\ ctrl_fsm_cs' = (IF step /\ ~debug_mode_q THEN "DBG_TAKEN_IF" ELSE "DECODE")
      /\ debug_mode_q' <=> debug_mode_q /\ insn # "dret"
      /\ ~debug_req_entry_q' /\ ~illegal_insn_q'
  BY ZenonT(60), <1>1, <1>2, <1>3, <1>4, HeldCycle
<1>6. hwlp_start' = hwlp_start /\ hwlp_end' = hwlp_end /\ hwlp_counter' = hwlp_counter
  BY <1>4, HeldLoops
<1>7. /\ executed' = IF debug_mode_q /\ insn = "dret" THEN pc_id ELSE executed
      /\ stepped' <=> stepped
  BY <1>3, <1>4, <1>5, HeldObserve
<1>8. ex'.pc = None
  BY <1>1, <1>5 DEF NoInsn
<1>9. \A w \in {"mie", "skip", "dcsr", "tdata1"} : ~Writes(w) /\ ~Writes(w)'
  BY <1>1, <1>8 DEF Writes
<1>10. /\ step' = step /\ Step = step
  BY <1>9 DEF Clocked, CsrCycle, Step
<1>11. MachineInv'
  <2>1. IllegalKept' /\ Flushing' /\ Returning' /\ ExEmpty'
    BY <1>5 DEF IllegalKept, Flushing, Returning, ExEmpty
  <2>2. Awake' /\ EnteringDebug'
    BY <1>1, <1>5, <1>7 DEF Awake, EnteringDebug
  <2>3. Stepping'
    BY <1>1, <1>5, <1>7, <1>10 DEF Stepping
  <2>4. CsrWrites'
    BY <1>8, <1>9 DEF CsrWrites, csr_in_ex
  <2> QED BY <2>1, <2>2, <2>3, <2>4 DEF MachineInv
<1>12. ~instr_valid_id /\ ~branch_taken_ex
  BY DEF LoopInv, IdEmpty, BranchInEx, branch_taken_ex
<1>13. NextPc = IF insn = "mret" /\ ~debug_mode_q THEN mepc ELSE pc_id
  BY <1>12 DEF NextPc
<1>14. NextPc' = target
  BY <1>5 DEF NextPc
<1>15. Step' = Step /\ Trigger' = Trigger
  <2>1. ~Writes("tdata1")
    BY <1>1 DEF Writes
  <2> QED BY <1>1, <1>5, <2>1, ExKept
<1>16. Mie' = Mie /\ Mepc' = Mepc /\ mpie' = mpie
  BY <1>3, <1>5, StatusKept
<1>17. dpc' = dpc
  BY <1>3 DEF Clocked, CsrCycle
<1>18. stepped' = stepped
  BY <1>7 DEF TypeOK
<1>19. CASE insn = "mret" /\ ~debug_mode_q
  <2>1. NextPc' = NextPc
    BY <1>13, <1>14, <1>19 DEF target
  <2>2. c.debug_mode = debug_mode_q
    BY <1>3, <1>19 DEF TypeOK
  <2> QED BY <1>3, <1>5, <1>6, <1>7, <1>11, <1>18, <1>19, <2>1, <2>2, Waits
<1>20. CASE insn = "mret" /\ debug_mode_q
  <2>1. NextPc' = DebugException /\ NextPc = pc_id
    BY <1>13, <1>14, <1>20 DEF target
  <2>2. Machine!traps(pc_id) /\ Machine!Op(pc_id) = "mret"
    BY <1>20, MachineTraps
  <2>3. debug_mode_q' = debug_mode_q
    BY <1>5, <1>20 DEF TypeOK
  <2>4. Machine!ExceptionInDebug
    BY <1>6, <1>7, <1>15, <1>16, <1>17, <1>18, <1>20, <2>1, <2>2, <2>3
       DEF Machine!ExceptionInDebug
  <2> QED BY <1>11, <2>4 DEF Machine!Next, TypeOK
<1>21. CASE insn = "dret" /\ debug_mode_q
  <2>1. NextPc' = dpc /\ NextPc = pc_id
    BY <1>13, <1>14, <1>21 DEF target
  <2>2. Machine!Op(pc_id) = "dret" /\ ~Machine!traps(pc_id)
    BY <1>21, MachineTraps DEF Trapping, illegal_insn
  <2>3. ~Machine!Watched
    BY <1>21 DEF Machine!Watched
  <2>4. Machine!GoOn
    BY <2>1, <2>2 DEF Machine!GoOn
  <2>5. Machine!SetLoops
    BY <1>6, <1>21, <2>1, <2>2, EndsNoLoop DEF Machine!SetLoops
  <2>6. Machine!SetStatus
    <3>1. debug_mode_q' = (debug_mode_q /\ Machine!Op(NextPc) # "dret")
      BY <1>5, <1>21, <2>1, <2>2 DEF TypeOK
    <3>2. mpie' = (mpie \/ Machine!Op(NextPc) = "mret")
      BY <1>16, <2>1, <2>2 DEF TypeOK
    <3> QED BY <1>15, <1>16, <1>17, <2>1, <2>2, <3>1, <3>2 DEF Machine!SetStatus
  <2>7. stepped' = (Step /\ ~debug_mode_q)
    BY <1>1, <1>7, <1>21 DEF TypeOK
  <2>8. ~stepped
    BY <1>1, <1>21
  <2>9. Machine!Execute
    BY <1>7, <1>21, <2>1, <2>2, <2>3, <2>4, <2>5, <2>6, <2>7, <2>8 DEF Machine!Execute
  <2> QED BY <1>11, <2>9 DEF Machine!Next, TypeOK
<1> QED BY <1>1, <1>19, <1>20, <1>21

\* DBG_WAIT_BRANCH: IF follows the branch that was stepped over.
LEMMA DbgWaitBranchMachine ==
  ASSUME TypeOK, TypeOK', LoopInv, MachineInv, ctrl_fsm_cs = "DBG_WAIT_BRANCH",
         NEW i \in Inputs, NEW c, c = Controls(i, fetch_enable_q, boot),
         Clocked(i, c), DebugRequestCycle(i)
  PROVE  MachineInv' /\ Machine!Next
<1>1. /\ ~illegal_insn_q /\ ~debug_req_entry_q /\ stepped /\ step /\ ~debug_mode_q
      /\ ~trigger_match /\ ~(insn = "ebreak" /\ ebreakm) /\ ~csr_in_ex
  BY DEF MachineInv, IllegalKept, Stepping, EnteringDebug, CsrWrites
<1> DEFINE target == Program[ex.pc].target
<1>2. branch_taken_ex => target # None
  BY ControllerAssumption DEF TypeOK, branch_taken_ex, branch_in_ex, Value
<1>3. /\ c.save = None /\ c.mret = FALSE /\ c.illegal_insn = illegal_insn_q
      /\ c.debug_mode = debug_mode_q
      /\ c.debug_req_entry = debug_req_entry_q
      /\ c.pc_set = (IF branch_taken_ex THEN target ELSE None)
      /\ c.ns = "DBG_FLUSH"
  BY DEF Controls, DbgWaitBranch, Default
<1> HIDE DEF target
<1>4. ctrl_fsm_cs \in Held
  BY DEF Held, States
<1>5. /\ pc_if' = IF branch_taken_ex THEN target ELSE pc_if
      /\ pc_id' = pc_id /\ instr_valid_id' = FALSE
      /\ ex' = IF ex_ready(i) THEN NoInsn ELSE ex
      /\ ~issue(i, c) /\ ~branch_taken_ex'
      /\ ctrl_fsm_cs' = "DBG_FLUSH"
      /\ debug_mode_q' = debug_mode_q
      /\ ~debug_req_entry_q' /\ ~illegal_insn_q'
  BY ZenonT(60), <1>1, <1>2, <1>3, <1>4, HeldCycle
<1>6. hwlp_start' = hwlp_start /\ hwlp_end' = hwlp_end /\ hwlp_counter' = hwlp_counter
  BY <1>4, HeldLoops
<1>7. executed' = executed /\ (stepped' <=> stepped)
  BY <1>3, <1>4, <1>5, HeldObserve
<1>8. ~csr_in_ex'
  BY <1>1, <1>5 DEF csr_in_ex, NoInsn
<1>9. \A w \in {"mie", "skip", "dcsr"} : ~Writes(w) /\ ~Writes(w)'
  BY <1>1, <1>8 DEF Writes, csr_in_ex
<1>10. /\ step' = step /\ tmatch_control_exec_q' = tmatch_control_exec_q
  BY <1>1, <1>9 DEF Clocked, CsrCycle
<1>11. /\ insn' = insn /\ ~trigger_match'
  BY <1>1, <1>5, <1>10 DEF insn, trigger_match
<1>12. MachineInv'
  <2>1. IllegalKept' /\ Flushing' /\ Returning' /\ ExEmpty' /\ Awake' /\ EnteringDebug'
    BY <1>1, <1>5, <1>7 DEF IllegalKept, Flushing, Returning, ExEmpty, Awake, EnteringDebug
  <2>2. Stepping'
    BY <1>1, <1>5, <1>7, <1>10, <1>11 DEF Stepping
  <2>3. CsrWrites'
    BY <1>8, <1>9 DEF CsrWrites
  <2> QED BY <2>1, <2>2, <2>3 DEF MachineInv
<1>13. NextPc = IF branch_taken_ex THEN target ELSE pc_if
  <2>1. ~instr_valid_id
    BY DEF LoopInv, IdEmpty
  <2> QED BY <2>1 DEF NextPc, target
<1>14. NextPc' = pc_if'
  BY <1>1, <1>5, <1>11 DEF NextPc, ebrk_force_debug_mode
<1>15. stepped' = stepped
  BY <1>7 DEF TypeOK
<1> QED BY <1>3, <1>5, <1>6, <1>7, <1>12, <1>13, <1>14, <1>15, Waits

\* DBG_FLUSH: the choice of the address to save keeps to the machine's next instruction.
LEMMA DbgFlushMachine ==
  ASSUME TypeOK, TypeOK', LoopInv, MachineInv, ctrl_fsm_cs = "DBG_FLUSH",
         NEW i \in Inputs, NEW c, c = Controls(i, fetch_enable_q, boot),
         Clocked(i, c), DebugRequestCycle(i)
  PROVE  MachineInv' /\ Machine!Next
<1> DEFINE stays == \/ debug_mode_q \/ trigger_match \/ debug_req_entry_q
                    \/ insn = "ebreak" /\ ebrk_force_debug_mode
<1>1. /\ ~illegal_insn_q
      /\ stepped => step /\ ~debug_mode_q /\ ~instr_valid_id /\ ~trigger_match
                    /\ ~debug_req_entry_q /\ ~(insn = "ebreak" /\ ebreakm)
      /\ ~stepped => IF debug_mode_q THEN insn = "ebreak"
                     ELSE \/ debug_req_entry_q /\ (debug_req_q \/ trigger_match)
                          \/ insn = "ebreak" /\ ebreakm
      /\ csr_in_ex /\ ~debug_mode_q => stepped
      /\ Writes("dcsr") => debug_mode_q
  BY DEF MachineInv, IllegalKept, Stepping, EnteringDebug, CsrWrites
<1>2. stays <=> ~stepped
  BY <1>1 DEF ebrk_force_debug_mode
<1>3. /\ c.save = None /\ c.mret = FALSE /\ c.illegal_insn = illegal_insn_q
      /\ c.debug_mode = debug_mode_q
      /\ c.debug_req_entry = debug_req_entry_q /\ c.pc_set = None
      /\ c.ns = IF stays THEN "DBG_TAKEN_ID" ELSE "DBG_TAKEN_IF"
  BY DEF Controls, DbgFlush, Halted, Default
<1> HIDE DEF stays
<1>4. ctrl_fsm_cs \in Held
  BY DEF Held, States
<1>5. /\ pc_if' = pc_if
      /\ pc_id' = pc_id /\ instr_valid_id' = FALSE
      /\ ex' = IF ex_ready(i) THEN NoInsn ELSE ex
      /\ ~issue(i, c) /\ ~branch_taken_ex'
      /\ ctrl_fsm_cs' = IF stepped THEN "DBG_TAKEN_IF" ELSE "DBG_TAKEN_ID"
      /\ debug_mode_q' = debug_mode_q
      /\ debug_req_entry_q' = debug_req_entry_q /\ ~illegal_insn_q'
      /\ debug_req_pending(i) /\ ~debug_mode_q => debug_req_q'
  BY <1>1, <1>2, <1>3, <1>4, HeldCycle
<1>6. hwlp_start' = hwlp_start /\ hwlp_end' = hwlp_end /\ hwlp_counter' = hwlp_counter
  BY <1>4, HeldLoops
<1>7. executed' = executed /\ (stepped' <=> stepped)
  BY <1>3, <1>4, <1>5, HeldObserve
<1>8. ~debug_mode_q => step' = step /\ tmatch_control_exec_q' = tmatch_control_exec_q
  BY <1>1 DEF Clocked, CsrCycle
<1>9. /\ insn' = insn
      /\ ~debug_mode_q => (trigger_match' <=> trigger_match)
  BY <1>5, <1>8 DEF insn, trigger_match
<1>10. /\ Writes("mie") => mie'
       /\ Writes("skip") => mepc' = ex.value
       /\ Writes("dcsr") => step' = ex.taken
  BY <1>3 DEF Clocked, CsrCycle
<1>11. /\ \A w \in {"mie", "skip", "dcsr"} : Writes(w)' => Writes(w) /\ ex' = ex
       /\ csr_in_ex' => csr_in_ex
  BY <1>5 DEF Writes, csr_in_ex, NoInsn
<1>12. MachineInv'
  <2>1. IllegalKept' /\ Flushing' /\ Returning' /\ ExEmpty' /\ Awake'
    BY <1>1, <1>5 DEF IllegalKept, Flushing, Returning, ExEmpty, Awake
  <2>2. EnteringDebug'
    <3>1. debug_req_q /\ ~debug_mode_q => debug_req_q'
      BY <1>5 DEF debug_req_pending
    <3>2. debug_req_entry_q => ~stepped
      BY <1>1
    <3> QED BY <1>1, <1>5, <1>7, <1>9, <3>1, <3>2 DEF EnteringDebug
  <2>3. Stepping'
    BY <1>1, <1>5, <1>7, <1>8 DEF Stepping
  <2>4. CsrWrites'
    BY <1>1, <1>5, <1>10, <1>11 DEF CsrWrites
  <2> QED BY <2>1, <2>2, <2>3, <2>4 DEF MachineInv
<1>13. ~branch_taken_ex
  BY DEF LoopInv, BranchInEx, branch_taken_ex
<1>14. NextPc = IF stepped THEN pc_if ELSE pc_id
  <2>1. instr_valid_id => ~stepped
    BY <1>1
  <2> QED BY <1>2, <1>13, <2>1 DEF NextPc, stays
<1>15. NextPc' = NextPc
  <2>1. ASSUME ~stepped PROVE stays'
    BY <1>1, <1>5, <1>9, <2>1 DEF stays, ebrk_force_debug_mode
  <2>2. ~stepped => NextPc' = pc_id
    BY <1>5, <2>1 DEF NextPc, stays
  <2>3. stepped => NextPc' = pc_if
    BY <1>5 DEF NextPc
  <2> QED BY <1>14, <2>2, <2>3
<1>16. stepped' = stepped
  BY <1>7 DEF TypeOK
<1> QED BY <1>3, <1>5, <1>6, <1>7, <1>12, <1>15, <1>16, Waits

\* DBG_TAKEN_ID and DBG_TAKEN_IF: debug mode is entered with the next instruction in dpc,
\* or again without saving it after an ebreak of the debugger.
LEMMA DbgTakenMachine ==
  ASSUME TypeOK, TypeOK', LoopInv, MachineInv,
         ctrl_fsm_cs \in {"DBG_TAKEN_ID", "DBG_TAKEN_IF"},
         NEW i \in Inputs, NEW c, c = Controls(i, fetch_enable_q, boot),
         Clocked(i, c), DebugRequestCycle(i)
  PROVE  /\ MachineInv'
         /\ NoTriggerWrite => Machine!Next
<1> DEFINE pc == IF ctrl_fsm_cs = "DBG_TAKEN_ID" THEN pc_id ELSE pc_if
<1>1. /\ ~illegal_insn_q
      /\ ctrl_fsm_cs = "DBG_TAKEN_ID" =>
           /\ ~stepped
           /\ IF debug_mode_q THEN insn = "ebreak"
              ELSE \/ debug_req_entry_q /\ (debug_req_q \/ trigger_match)
                   \/ insn = "ebreak" /\ ebreakm
      /\ ctrl_fsm_cs = "DBG_TAKEN_IF" =>
           ~debug_mode_q /\ ~debug_req_entry_q /\ (stepped \/ debug_req_q)
  BY DEF MachineInv, IllegalKept, Awake, EnteringDebug
<1>2. DebugHalt # None /\ pc \in Addr /\ pc # None
  BY ControllerAssumption DEF TypeOK
<1>3. /\ c.save = IF debug_mode_q THEN None ELSE pc
      /\ c.to = "debug" /\ c.mret = FALSE /\ c.illegal_insn = illegal_insn_q
      /\ c.debug_mode = TRUE
      /\ ~c.debug_req_entry /\ c.pc_set = DebugHalt
      /\ c.ns = "DECODE"
  <2>1. CASE ctrl_fsm_cs = "DBG_TAKEN_ID"
    BY <2>1 DEF Controls, DbgTakenId, EnterDebug, Default
  <2>2. CASE ctrl_fsm_cs = "DBG_TAKEN_IF"
    BY <1>1, <2>2 DEF Controls, DbgTakenIf, EnterDebug, Default
  <2> QED BY <2>1, <2>2
<1>4. ctrl_fsm_cs \in Held
  BY DEF Held, States
<1>5. /\ pc_if' = DebugHalt
      /\ pc_id' = pc_id /\ instr_valid_id' = FALSE
      /\ ex' = IF ex_ready(i) THEN NoInsn ELSE ex
      /\ ~issue(i, c) /\ ~branch_taken_ex'
      /\ ctrl_fsm_cs' = "DECODE"
      /\ debug_mode_q' = TRUE
      /\ ~debug_req_entry_q' /\ ~illegal_insn_q'
  BY ZenonT(60), <1>1, <1>2, <1>3, <1>4, HeldCycle
<1>6. hwlp_start' = hwlp_start /\ hwlp_end' = hwlp_end /\ hwlp_counter' = hwlp_counter
  BY <1>4, HeldLoops
<1>7. executed' = executed /\ ~stepped'
  <2>1. /\ executed' = IF c.mret \/ (debug_mode_q /\ ~c.debug_mode) THEN pc_id ELSE executed
        /\ stepped' <=> \/ /\ step /\ ~debug_mode_q
                           /\ c.mret \/ (c.save # None /\ ctrl_fsm_cs = "FLUSH_EX")
                        \/ stepped /\ ctrl_fsm_cs \notin {"DBG_TAKEN_ID", "DBG_TAKEN_IF"}
    BY <1>4, <1>5, HeldObserve
  <2> QED BY <1>3, <2>1
<1>8. /\ Writes("mie") => mie'
      /\ Writes("skip") => mepc' = ex.value
      /\ Writes("dcsr") => step' = ex.taken
  BY <1>3 DEF Clocked, CsrCycle
<1>9. \A w \in {"mie", "skip", "dcsr"} : Writes(w)' => Writes(w) /\ ex' = ex
  BY <1>5 DEF Writes, NoInsn
<1>10. MachineInv'
  <2>1. IllegalKept' /\ Flushing' /\ Returning' /\ ExEmpty' /\ Awake' /\ EnteringDebug'
    BY <1>5 DEF IllegalKept, Flushing, Returning, ExEmpty, Awake, EnteringDebug
  <2>2. Stepping'
    BY <1>5, <1>7 DEF Stepping
  <2>3. CsrWrites'
    BY <1>5, <1>8, <1>9 DEF CsrWrites
  <2> QED BY <2>1, <2>2, <2>3 DEF MachineInv
<1> SUFFICES ASSUME NoTriggerWrite
             PROVE  Machine!Next
  BY <1>10
<1>11. ~instr_valid_id /\ ~branch_taken_ex
  BY DEF LoopInv, IdEmpty, BranchInEx, branch_taken_ex
<1>12. NextPc = pc
  BY <1>1, <1>11 DEF NextPc, ebrk_force_debug_mode
<1>13. NextPc' = DebugHalt
  BY <1>5 DEF NextPc
<1>14. Step' = Step /\ Trigger' = Trigger
  <2>1. c.debug_mode = debug_mode_q \/ ~Writes("tdata1")
    BY <1>3 DEF NoTriggerWrite, TypeOK
  <2> QED BY <1>5, <2>1, ExKept
<1>15. Mie' = Mie /\ Mepc' = Mepc /\ mpie' = mpie
  BY <1>3, <1>5, StatusKept
<1>16. stepped' = FALSE
  BY <1>7 DEF TypeOK
<1>17. CASE debug_mode_q
  <2>1. insn = "ebreak" /\ NextPc = pc_id /\ ~stepped
    BY <1>1, <1>12, <1>17
  <2>2. Machine!traps(NextPc) /\ Machine!Op(NextPc) = "ebreak"
    BY <2>1, MachineTraps DEF Trapping
  <2>3. dpc' = dpc
    BY <1>3, <1>17 DEF Clocked, CsrCycle
  <2>4. debug_mode_q' = debug_mode_q /\ stepped' = stepped
    BY <1>5, <1>16, <1>17, <2>1 DEF TypeOK
  <2>5. Machine!ExceptionInDebug
    BY <1>6, <1>7, <1>13, <1>14, <1>15, <1>17, <2>2, <2>3, <2>4 DEF Machine!ExceptionInDebug
  <2> QED BY <1>10, <2>5 DEF Machine!Next, TypeOK
<1>18. CASE ~debug_mode_q
  <2>1. dpc' = NextPc
    BY <1>2, <1>3, <1>12, <1>18 DEF Clocked, CsrCycle
  <2>2. Machine!EnterDebug
    BY <1>5, <1>6, <1>7, <1>13, <1>14, <1>15, <1>16, <2>1 DEF Machine!EnterDebug
  <2>3. debug_req_q \/ stepped \/ Machine!Watched
          \/ (Machine!Op(NextPc) = "ebreak" /\ ebreakm)
    <3>1. CASE ctrl_fsm_cs = "DBG_TAKEN_IF"
      BY <1>1, <3>1
    <3>2. CASE ctrl_fsm_cs = "DBG_TAKEN_ID"
      <4>1. NextPc = pc_id /\ Machine!Op(NextPc) = insn
        BY <1>12, <3>2, MachineTraps
      <4>2. trigger_match => Machine!Watched
        BY <1>18, <4>1 DEF trigger_match, Machine!Watched, Trigger
      <4> QED BY <1>1, <1>18, <3>2, <4>1, <4>2
    <3> QED BY <3>1, <3>2
  <2>4. Machine!Debug
    BY <1>18, <2>2, <2>3 DEF Machine!Debug
  <2> QED BY <1>10, <2>4 DEF Machine!Next, TypeOK
<1> QED BY <1>17, <1>18

\* The states in which IF hands instructions over.
Fetching == {"FIRST_FETCH", "DECODE", "DECODE_HWLOOP"}

\* The loops stay as they are unless ID sets one up or lets its last instruction go.
LEMMA LoopsKept ==
  ASSUME TypeOK, NEW i, NEW c, Clocked(i, c),
         ~(c.is_decoding /\ id_ready(i) /\ insn = "setup"),
         c.hwlp_dec_cnt = {} \/ ~(instr_valid_id /\ clear_instr_valid(i, c))
  PROVE  hwlp_start' = hwlp_start /\ hwlp_end' = hwlp_end /\ hwlp_counter' = hwlp_counter
<1>1. hwlp_counter' = [k \in Loop |-> hwlp_counter[k]]
  BY DEF Clocked, LoopCycle, HwloopCycle
<1> QED BY <1>1 DEF Clocked, LoopCycle, HwloopCycle, TypeOK

\* A cycle of these states in which nothing takes effect.
LEMMA Quiet ==
  ASSUME TypeOK, MachineInv, ctrl_fsm_cs \in Fetching, NEW i, NEW c, Clocked(i, c),
         issue(i, c) => illegal_insn \/ insn \in {"ecall", "ebreak", "mret", "dret"},
         c.mret = FALSE, c.debug_mode = debug_mode_q, c.save = None \/ ~debug_mode_q
  PROVE  /\ executed' = executed /\ ~stepped /\ ~stepped' /\ debug_mode_q' = debug_mode_q
         /\ ~debug_req_entry_q /\ debug_req_entry_q' = c.debug_req_entry
         /\ illegal_insn_q' = c.illegal_insn /\ ctrl_fsm_cs' = c.ns
         /\ ~debug_mode_q => /\ ~csr_in_ex
                             /\ step' = step /\ tmatch_control_exec_q' = tmatch_control_exec_q
         /\ CsrWrites'
<1>1. /\ ~stepped /\ ~debug_req_entry_q
      /\ csr_in_ex => debug_mode_q
      /\ Writes("dcsr") => debug_mode_q
  BY DEF MachineInv, Stepping, EnteringDebug, CsrWrites, Fetching
<1>2. /\ debug_mode_q' = debug_mode_q /\ debug_req_entry_q' = c.debug_req_entry
      /\ illegal_insn_q' = c.illegal_insn /\ ctrl_fsm_cs' = c.ns
  BY DEF Clocked, ControllerCycle
<1>3. ~Executes(i, c) /\ ~Traps(c)
  BY DEF Executes, Traps, Fetching
<1>4. executed' = executed /\ ~stepped'
  BY <1>1, <1>3 DEF Clocked, Observe
<1>5. /\ \A w \in {"mie", "skip", "dcsr", "tdata1"} : Writes(w)' => Writes(w) /\ ex' = ex
      /\ csr_in_ex' => csr_in_ex /\ ex' = ex
  BY ExBubble
<1>6. ~debug_mode_q => /\ ~csr_in_ex
                       /\ step' = step /\ tmatch_control_exec_q' = tmatch_control_exec_q
  BY <1>1 DEF Clocked, CsrCycle
<1>7. debug_mode_q => /\ Writes("mie") => mie'
                      /\ Writes("skip") => mepc' = ex.value
                      /\ Writes("dcsr") => step' = ex.taken
  BY DEF Clocked, CsrCycle
<1>8. ~debug_mode_q => \A w \in {"mie", "skip", "dcsr", "tdata1"} :
                         w # "tdata1" => ~Writes(w)
  BY <1>1 DEF Writes, csr_in_ex
<1>9. CsrWrites'
  <2>1. /\ Writes("mie")' => mie'
        /\ Writes("skip")' => mepc' = ex'.value
        /\ Writes("dcsr")' => step' = ex'.taken
    BY <1>5, <1>7, <1>8
  <2>2. csr_in_ex' => debug_mode_q'
    BY <1>1, <1>2, <1>5
  <2>3. Writes("dcsr")' => debug_mode_q'
    BY <1>1, <1>2, <1>5
  <2> QED BY <2>1, <2>2, <2>3 DEF CsrWrites
<1> QED BY <1>1, <1>2, <1>4, <1>6, <1>9

\* If decoding also goes on at the same instruction, the machine waits.
LEMMA DecodingWaits ==
  ASSUME TypeOK, TypeOK', MachineInv, ctrl_fsm_cs \in Fetching,
         NEW i, NEW c, Clocked(i, c), ~issue(i, c),
         ~(c.is_decoding /\ id_ready(i) /\ insn = "setup"),
         c.hwlp_dec_cnt = {} \/ ~(instr_valid_id /\ clear_instr_valid(i, c)),
         c.mret = FALSE, c.debug_mode = debug_mode_q, c.save = None,
         c.debug_req_entry = debug_req_entry_q,
         c.ns \in {"DECODE", "DECODE_HWLOOP"},
         \/ c.illegal_insn = FALSE
         \/ c.ns = "DECODE" /\ instr_valid_id' /\ illegal_insn /\ pc_id' = pc_id,
         NextPc' = NextPc
  PROVE  MachineInv' /\ Machine!Next
<1>1. /\ executed' = executed /\ ~stepped /\ ~stepped' /\ debug_mode_q' = debug_mode_q
      /\ ~debug_req_entry_q /\ debug_req_entry_q' = c.debug_req_entry
      /\ illegal_insn_q' = c.illegal_insn /\ ctrl_fsm_cs' = c.ns
      /\ CsrWrites'
  BY Quiet
<1>2. hwlp_start' = hwlp_start /\ hwlp_end' = hwlp_end /\ hwlp_counter' = hwlp_counter
  BY LoopsKept
<1>3. ~branch_in_ex'
  BY BranchGone
<1>4. IllegalKept'
  <2>1. pc_id' = pc_id => (illegal_insn' <=> illegal_insn)
    BY <1>1 DEF illegal_insn, insn
  <2> QED BY <1>1, <1>3, <2>1 DEF IllegalKept
<1>5. MachineInv'
  <2>1. /\ Flushing' /\ Returning' /\ ExEmpty' /\ Awake' /\ EnteringDebug' /\ Stepping'
    BY <1>1 DEF Flushing, Returning, ExEmpty, Awake, EnteringDebug, Stepping
  <2> QED BY <1>1, <1>4, <2>1 DEF MachineInv
<1>6. stepped' = stepped
  BY <1>1 DEF TypeOK
<1> QED BY <1>1, <1>2, <1>5, <1>6, Waits

\* It does when ID keeps its instruction, or has none and IF is not redirected.
LEMMA NextHeld ==
  ASSUME TypeOK, LoopInv, ctrl_fsm_cs \in Fetching, NEW i, NEW c, Clocked(i, c), ~issue(i, c),
         c.halt_id = FALSE, c.ns \in {"DECODE", "DECODE_HWLOOP"}, ~branch_taken_ex,
         IF instr_valid_id THEN ~id_ready(i) ELSE c.pc_set = None
  PROVE  NextPc' = NextPc /\ (instr_valid_id => instr_valid_id' /\ pc_id' = pc_id)
<1>1. ctrl_fsm_cs' = c.ns /\ ~branch_taken_ex'
  BY BranchGone DEF Clocked, ControllerCycle
<1>2. CASE if_valid(i, c)
  <2>1. pc_id' = pc_if /\ instr_valid_id' /\ ~instr_valid_id
    BY <1>2, HandOver DEF if_valid
  <2> QED BY <1>1, <2>1 DEF NextPc, Fetching
<1>3. CASE ~if_valid(i, c)
  <2>1. /\ pc_id' = pc_id /\ pc_if' = IF c.pc_set # None THEN c.pc_set ELSE pc_if
        /\ instr_valid_id' <=> instr_valid_id /\ ~clear_instr_valid(i, c)
    BY <1>3, NoHandOver
  <2>2. instr_valid_id' <=> instr_valid_id
    BY <2>1 DEF clear_instr_valid
  <2> QED BY <1>1, <2>1, <2>2 DEF NextPc, Fetching
<1> QED BY <1>2, <1>3

\* FIRST_FETCH, DECODE and DECODE_HWLOOP take an interrupt before the next instruction.
LEMMA TakesInterrupt ==
  ASSUME TypeOK, TypeOK', LoopInv, MachineInv, ctrl_fsm_cs \in Fetching,
         NEW i, NEW c, Clocked(i, c), irq_req_ctrl, ~debug_mode_q,
         NextPc # None, c.save = NextPc, c.to = "machine", c.mret = FALSE, c.debug_mode = debug_mode_q,
         c.debug_req_entry = debug_req_entry_q, c.ns = "DECODE", c.pc_set = IrqHandler,
         c.halt_id = TRUE, c.is_decoding = FALSE, c.hwlp_dec_cnt = {}, c.illegal_insn = FALSE
  PROVE  MachineInv' /\ Machine!Next
<1>1. ~issue(i, c)
  BY DEF issue
<1>2. /\ executed' = executed /\ ~stepped /\ ~stepped' /\ debug_mode_q' = debug_mode_q
      /\ ~debug_req_entry_q /\ debug_req_entry_q' = c.debug_req_entry
      /\ illegal_insn_q' = c.illegal_insn /\ ctrl_fsm_cs' = c.ns
      /\ ~csr_in_ex
      /\ CsrWrites'
  BY <1>1, Quiet
<1>3. hwlp_start' = hwlp_start /\ hwlp_end' = hwlp_end /\ hwlp_counter' = hwlp_counter
  BY LoopsKept
<1>4. MachineInv'
  BY <1>2 DEF MachineInv, IllegalKept, Flushing, Returning, ExEmpty, Awake, EnteringDebug, Stepping
<1>5. NextPc' = IrqHandler
  <2>1. IrqHandler # None
    BY ControllerAssumption
  <2>2. ~if_valid(i, c)
    BY <2>1 DEF if_valid
  <2>3. pc_if' = IrqHandler /\ ~instr_valid_id'
    BY <2>1, <2>2, NoHandOver DEF clear_instr_valid
  <2> QED BY <1>1, <1>2, <2>3, BranchGone DEF NextPc
<1>6. Machine!Save(IrqHandler)
  BY <1>1, <1>2, <1>3, <1>5, MachineSaves
<1>7. irq_q /\ Mie /\ (Step => stepie)
  <2>1. Step = step
    BY <1>2 DEF Step, Writes, csr_in_ex
  <2> QED BY <2>1 DEF irq_req_ctrl, Mie
<1>8. stepped' = stepped
  BY <1>2 DEF TypeOK
<1>9. Machine!Interrupt
  BY <1>2, <1>6, <1>7, <1>8 DEF Machine!Interrupt
<1> QED BY <1>4, <1>9 DEF Machine!Next, TypeOK

\* A debug request or the trigger stops the instruction in ID before it takes effect.
LEMMA RequestsDebug ==
  ASSUME TypeOK, TypeOK', LoopInv, MachineInv,
         ctrl_fsm_cs \in {"DECODE", "DECODE_HWLOOP"},
         NEW i, NEW c, Clocked(i, c), DebugRequestCycle(i), ~debug_mode_q, instr_valid_id,
         ~branch_taken_ex, debug_req_pending(i) \/ trigger_match,
         ~(c.is_decoding /\ insn = "setup"),
         c.save = None, c.mret = FALSE, c.debug_mode = debug_mode_q,
         c.debug_req_entry = TRUE, c.ns = "DBG_FLUSH", c.pc_set = None,
         c.halt_id = TRUE, c.halt_if = TRUE, c.hwlp_dec_cnt = {}, c.illegal_insn = FALSE
  PROVE  MachineInv' /\ Machine!Next
<1>1. ~issue(i, c) /\ ~if_valid(i, c)
  BY DEF issue, if_valid
<1>2. /\ executed' = executed /\ ~stepped /\ ~stepped' /\ debug_mode_q' = debug_mode_q
      /\ debug_req_entry_q' = c.debug_req_entry
      /\ illegal_insn_q' = c.illegal_insn /\ ctrl_fsm_cs' = c.ns
      /\ tmatch_control_exec_q' = tmatch_control_exec_q
      /\ CsrWrites'
  BY <1>1, Quiet DEF Fetching
<1>3. hwlp_start' = hwlp_start /\ hwlp_end' = hwlp_end /\ hwlp_counter' = hwlp_counter
  BY LoopsKept
<1>4. pc_id' = pc_id /\ ~instr_valid_id'
  BY <1>1, NoHandOver DEF clear_instr_valid
<1>5. debug_req_pending(i) => debug_req_q'
  BY DEF DebugRequestCycle, debug_req_pending
<1>6. trigger_match' <=> trigger_match
  BY <1>2, <1>4 DEF trigger_match
<1>7. MachineInv'
  BY <1>2, <1>5, <1>6
     DEF MachineInv, IllegalKept, Flushing, Returning, ExEmpty, Awake, EnteringDebug, Stepping
<1>8. NextPc = pc_id
  BY DEF NextPc
<1>9. NextPc' = pc_id
  BY <1>1, <1>2, <1>4, BranchGone DEF NextPc
<1>10. stepped' = stepped
  BY <1>2 DEF TypeOK
<1> QED BY <1>1, <1>2, <1>3, <1>7, <1>8, <1>9, <1>10, Waits

\* FIRST_FETCH: the machine waits or takes an interrupt.
LEMMA FirstFetchMachine ==
  ASSUME TypeOK, TypeOK', LoopInv, MachineInv, ctrl_fsm_cs = "FIRST_FETCH",
         NEW i \in Inputs, NEW c, c = Controls(i, fetch_enable_q, boot),
         Clocked(i, c), DebugRequestCycle(i)
  PROVE  MachineInv' /\ Machine!Next
<1>1. c = FirstFetch(i)
  BY DEF Controls
<1>2. ~illegal_insn_q /\ ctrl_fsm_cs \in Fetching
  BY DEF MachineInv, IllegalKept, Fetching
<1>3. ~instr_valid_id /\ ~branch_taken_ex
  BY DEF LoopInv, IdEmpty, BranchInEx, branch_taken_ex
<1>4. CASE irq_req_ctrl /\ ~(debug_req_pending(i) \/ debug_mode_q)
  <2>1. c = [TakeIrq(pc_if) EXCEPT !.ns = "DECODE"]
    BY <1>1, <1>4 DEF FirstFetch
  <2>2. /\ c.save = pc_if /\ c.to = "machine" /\ c.mret = FALSE /\ c.debug_mode = debug_mode_q
        /\ c.debug_req_entry = debug_req_entry_q /\ c.ns = "DECODE" /\ c.pc_set = IrqHandler
        /\ c.halt_id = TRUE /\ c.is_decoding = FALSE /\ c.hwlp_dec_cnt = {}
        /\ c.illegal_insn = illegal_insn_q
    BY <2>1 DEF TakeIrq, Halted, Default
  <2>3. c.illegal_insn = FALSE
    BY <1>2, <2>2 DEF TypeOK
  <2>4. NextPc = pc_if /\ pc_if # None
    BY <1>3, ControllerAssumption DEF NextPc, TypeOK
  <2> QED BY <1>2, <1>4, <2>2, <2>3, <2>4, TakesInterrupt
<1>5. CASE ~(irq_req_ctrl /\ ~(debug_req_pending(i) \/ debug_mode_q))
  <2>1. c = [Default EXCEPT !.ns = "DECODE"]
    BY <1>1, <1>5 DEF FirstFetch
  <2>2. /\ c.save = None /\ c.mret = FALSE /\ c.debug_mode = debug_mode_q
        /\ c.debug_req_entry = debug_req_entry_q /\ c.ns = "DECODE" /\ c.pc_set = None
        /\ c.halt_id = FALSE /\ c.is_decoding = FALSE /\ c.hwlp_dec_cnt = {}
        /\ c.illegal_insn = illegal_insn_q
    BY <2>1 DEF Default
  <2>3. c.illegal_insn = FALSE
    BY <1>2, <2>2 DEF TypeOK
  <2>4. ~issue(i, c)
    BY <2>2 DEF issue
  <2>5. NextPc' = NextPc
    BY <1>2, <1>3, <2>2, <2>4, NextHeld
  <2> QED BY <1>2, <2>2, <2>3, <2>4, <2>5, DecodingWaits
<1> QED BY <1>4, <1>5

\* Instructions that take effect when ID issues them.
Effective == ~Trapping /\ insn \notin {"mret", "dret"}

\* Issuing one counts the loops it ends, and sets up the one it names.
LEMMA ExecutesLoops ==
  ASSUME TypeOK, TypeOK', NEW i, NEW c, Clocked(i, c), c.is_decoding, id_ready(i), instr_valid_id,
         c.hwlp_dec_cnt = {k \in Loop : hwlp_end[k] = pc_id + 1 /\ hwlp_counter[k] # 0},
         NextPc = pc_id
  PROVE  Machine!SetLoops
<1> DEFINE n == Program[pc_id]
<1>1. /\ pc_id \in Addr /\ n.loop \in Loop
      /\ hwlp_counter \in [Loop -> Nat]
  BY ControllerAssumption DEF TypeOK
<1>2. Machine!Op(pc_id) = insn
  BY MachineTraps
<1>3. Machine!Counted(pc_id) =
        [k \in Loop |-> IF k \in c.hwlp_dec_cnt THEN hwlp_counter[k] - 1 ELSE hwlp_counter[k]]
  BY <1>1 DEF Machine!Counted, Machine!Ends, Machine!Loop, Loop
<1>4. /\ hwlp_start' = IF insn = "setup" THEN [hwlp_start EXCEPT ![n.loop] = n.start] ELSE hwlp_start
      /\ hwlp_end' = IF insn = "setup" THEN [hwlp_end EXCEPT ![n.loop] = n.end] ELSE hwlp_end
      /\ hwlp_counter' = [k \in Loop |->
           IF insn = "setup" /\ k = n.loop THEN n.count
           ELSE IF k \in c.hwlp_dec_cnt THEN hwlp_counter[k] - 1
           ELSE hwlp_counter[k]]
  BY DEF Clocked, LoopCycle, HwloopCycle, clear_instr_valid
<1>5. CASE insn = "setup"
  <2>1. hwlp_counter' = [Machine!Counted(pc_id) EXCEPT ![n.loop] = n.count]
    BY <1>1, <1>3, <1>4, <1>5
  <2>2. /\ hwlp_start' = [hwlp_start EXCEPT ![n.loop] = n.start]
        /\ hwlp_end' = [hwlp_end EXCEPT ![n.loop] = n.end]
    BY <1>4, <1>5
  <2> QED BY <1>2, <1>5, <2>1, <2>2 DEF Machine!SetLoops
<1>6. CASE insn # "setup"
  <2>1. hwlp_counter' = Machine!Counted(pc_id)
    BY <1>3, <1>4, <1>6
  <2> QED BY <1>2, <1>4, <1>6, <2>1 DEF Machine!SetLoops
<1> QED BY <1>5, <1>6

\* What ID passes on to EX.
LEMMA IssuedInEx ==
  ASSUME NEW i, NEW c, Clocked(i, c), issue(i, c), ~illegal_insn
  PROVE  ex' = [pc |-> pc_id, taken |-> i.taken,
                value |-> IF insn = "skip" THEN mepc + 1 ELSE 0]
BY DEF Clocked, ExecuteCycle

\* Issuing it has the effect on the CSRs that it will have in EX; what is in EX then writes
\* in the same cycle, or is not a CSR the effect depends on.
LEMMA ExecutesStatus ==
  ASSUME TypeOK, TypeOK', MachineInv,
         ctrl_fsm_cs \in {"DECODE", "DECODE_HWLOOP"}, NEW i \in Inputs,
         NEW c, Clocked(i, c), issue(i, c), Effective,
         c.save = None, c.mret = FALSE, c.debug_mode = debug_mode_q, NextPc = pc_id
  PROVE  Machine!SetStatus
<1>1. ex' = [pc |-> pc_id, taken |-> i.taken,
             value |-> IF insn = "skip" THEN mepc + 1 ELSE 0]
  BY IssuedInEx DEF Effective, Trapping
<1>2. pc_id # None
  BY ControllerAssumption DEF TypeOK
<1>3. /\ \A w \in {"mie", "skip", "dcsr", "tdata1"} : Writes(w)' <=> insn = w
      /\ ex'.taken \in BOOLEAN
      /\ insn = "skip" => ex'.value = mepc + 1
  <2>1. i.taken \in BOOLEAN
    BY DEF Inputs
  <2> QED BY <1>1, <1>2, <2>1 DEF Writes, insn
<1>4. /\ mie' = (mie \/ Writes("mie")) /\ mpie' = (mpie \/ FALSE)
      /\ mepc' = Mepc /\ step' = Step /\ tmatch_control_exec_q' = Trigger /\ dpc' = dpc
      /\ debug_mode_q' = debug_mode_q
  BY DEF Clocked, CsrCycle, ControllerCycle, Mepc, Step, Trigger
<1>5. Machine!Op(pc_id) = insn /\ insn \notin {"mret", "dret"}
  BY MachineTraps DEF Effective
<1>6. Mie' = IF insn = "mie" THEN TRUE ELSE Mie
  <2>1. Mie' <=> (insn = "mie" \/ Mie)
    BY <1>3, <1>4 DEF Mie
  <2> QED BY <2>1 DEF Mie
<1>7. Mepc' = IF insn = "skip" THEN Mepc + 1 ELSE Mepc
  <2>1. Mepc = mepc
    BY DEF MachineInv, CsrWrites, Mepc
  <2> QED BY <1>3, <1>4, <2>1 DEF Mepc
<1>8. IF insn = "dcsr" THEN Step' \in BOOLEAN ELSE Step' = Step
  BY <1>3, <1>4 DEF Step
<1>9. IF insn = "tdata1" /\ debug_mode_q THEN Trigger' \in BOOLEAN ELSE Trigger' = Trigger
  BY <1>3, <1>4 DEF Trigger
<1>10. mpie' = mpie
  BY <1>4 DEF TypeOK
<1>11. mpie' = (mpie \/ insn = "mret") /\ debug_mode_q' = (debug_mode_q /\ insn # "dret")
  BY <1>4, <1>5, <1>10 DEF TypeOK
<1> QED BY <1>4, <1>5, <1>6, <1>7, <1>8, <1>9, <1>11 DEF Machine!SetStatus

\* If IF also goes on where it tells, the machine executes the instruction.
LEMMA Executing ==
  ASSUME TypeOK, TypeOK', MachineInv,
         ctrl_fsm_cs \in {"DECODE", "DECODE_HWLOOP"}, NEW i \in Inputs,
         NEW c, Clocked(i, c), issue(i, c), Effective, instr_valid_id, ~branch_taken_ex,
         debug_mode_q \/ ~trigger_match,
         c.save = None, c.mret = FALSE, c.debug_mode = debug_mode_q,
         c.hwlp_dec_cnt = {k \in Loop : hwlp_end[k] = pc_id + 1 /\ hwlp_counter[k] # 0},
         Machine!GoOn
  PROVE  Machine!Next
<1>1. NextPc = pc_id
  BY DEF NextPc
<1>2. Machine!SetStatus
  BY <1>1, ExecutesStatus
<1>3. Machine!SetLoops
  <2>1. c.is_decoding /\ id_ready(i)
    BY DEF issue
  <2> QED BY <1>1, <2>1, ExecutesLoops
<1>4. ~Machine!traps(pc_id)
  BY MachineTraps DEF Effective
<1>5. ~stepped /\ (~debug_mode_q => ~csr_in_ex)
  BY DEF MachineInv, Stepping, CsrWrites
<1>6. ~Machine!Watched
  BY <1>1 DEF Machine!Watched, Trigger, trigger_match
<1>7. ~debug_mode_q => Step = step
  BY <1>5 DEF Step, Writes, csr_in_ex
<1>8. Executes(i, c)
  BY DEF Executes, Effective, Trapping
<1>9. executed' = pc_id /\ (stepped' <=> step /\ ~debug_mode_q)
  BY <1>5, <1>8 DEF Clocked, Observe
<1>10. stepped' = (Step /\ ~debug_mode_q)
  BY <1>7, <1>9 DEF TypeOK
<1>11. Machine!Execute
  BY <1>1, <1>2, <1>3, <1>4, <1>5, <1>6, <1>9, <1>10 DEF Machine!Execute
<1> QED BY <1>11 DEF Machine!Next, TypeOK

\* Outside debug mode no cycle of decoding changes dcsr.step or the trigger.
LEMMA TriggerKept ==
  ASSUME MachineInv, ctrl_fsm_cs \in {"DECODE", "DECODE_HWLOOP"}, NEW i, NEW c, Clocked(i, c), ~debug_mode_q
  PROVE  step' = step /\ tmatch_control_exec_q' = tmatch_control_exec_q
<1>1. ~Writes("dcsr")
  BY DEF MachineInv, CsrWrites
<1> QED BY <1>1 DEF Clocked, CsrCycle

\* The next instruction once one was issued: the target of a taken branch, else where IF is
\* or goes.
LEMMA NextIssued ==
  ASSUME TypeOK, TypeOK', MachineInv, ctrl_fsm_cs \in {"DECODE", "DECODE_HWLOOP"}, NEW i \in Inputs,
         NEW c, Clocked(i, c), issue(i, c), Effective, instr_valid_id, debug_mode_q \/ ~trigger_match,
         c.debug_mode = debug_mode_q, c.debug_req_entry = debug_req_entry_q, c.illegal_insn = FALSE,
         c.ns \in {"DECODE", "DECODE_HWLOOP", "FLUSH_EX", "DBG_FLUSH", "DBG_WAIT_BRANCH"},
         c.ns \in {"DBG_FLUSH", "DBG_WAIT_BRANCH"} => step /\ ~debug_mode_q,
         c.ns \in {"FLUSH_EX", "DBG_FLUSH", "DBG_WAIT_BRANCH"} => c.halt_if = TRUE
  PROVE  /\ NextPc' = IF insn = "branch" /\ i.taken THEN Program[pc_id].target
                      ELSE IF c.pc_set # None THEN c.pc_set ELSE pc_if
         /\ c.halt_if = TRUE =>
              /\ pc_id' = pc_id /\ ~instr_valid_id'
              /\ pc_if' = IF c.pc_set # None THEN c.pc_set ELSE pc_if
              /\ ~debug_mode_q => (trigger_match' <=> trigger_match)
         /\ ~stepped /\ (stepped' <=> step /\ ~debug_mode_q)
<1>1. ex' = [pc |-> pc_id, taken |-> i.taken,
             value |-> IF insn = "skip" THEN mepc + 1 ELSE 0]
  BY IssuedInEx DEF Effective, Trapping
<1>2. pc_id # None
  BY ControllerAssumption DEF TypeOK
<1>3. branch_taken_ex' <=> insn = "branch" /\ i.taken
  BY <1>1, <1>2 DEF branch_taken_ex, branch_in_ex, insn
<1>4. ex'.pc = pc_id
  BY <1>1
<1>5. id_ready(i)
  BY DEF issue
<1>6. /\ ctrl_fsm_cs' = c.ns /\ debug_mode_q' = debug_mode_q /\ illegal_insn_q' = FALSE
      /\ debug_req_entry_q' = debug_req_entry_q
  BY DEF Clocked, ControllerCycle
<1>7. ~debug_req_entry_q /\ ~stepped
  BY DEF MachineInv, EnteringDebug, Stepping
<1>8. Executes(i, c)
  BY DEF Executes, Effective, Trapping
<1>9. stepped' <=> step /\ ~debug_mode_q
  BY <1>7, <1>8 DEF Clocked, Observe
<1>10. CASE if_valid(i, c)
  <2>1. /\ pc_id' = pc_if /\ instr_valid_id' = TRUE /\ c.pc_set = None /\ ~c.halt_if
    BY <1>10, HandOver
  <2> QED BY <1>3, <1>4, <1>6, <1>7, <1>9, <2>1 DEF NextPc
<1>11. CASE ~if_valid(i, c)
  <2>1. /\ pc_id' = pc_id /\ ~instr_valid_id'
        /\ pc_if' = IF c.pc_set # None THEN c.pc_set ELSE pc_if
    BY <1>5, <1>11, NoHandOver DEF clear_instr_valid
  <2>2. insn' = insn
    BY <2>1 DEF insn
  <2>3. ~debug_mode_q => (trigger_match' <=> trigger_match)
    BY <2>1, TriggerKept DEF trigger_match
  <2>4. insn \notin {"mret", "dret", "ecall", "ebreak"}
    BY DEF Effective, Trapping
  <2> QED BY <1>3, <1>4, <1>6, <1>7, <1>9, <2>1, <2>2, <2>3, <2>4 DEF NextPc
<1> QED BY <1>10, <1>11

\* The invariant after an instruction was issued, in each state decoding may go on to.
LEMMA Issued ==
  ASSUME TypeOK, TypeOK', MachineInv, ctrl_fsm_cs \in {"DECODE", "DECODE_HWLOOP"}, NEW i \in Inputs,
         NEW c, Clocked(i, c), issue(i, c), Effective, instr_valid_id, debug_mode_q \/ ~trigger_match,
         c.save = None, c.mret = FALSE,
         c.debug_mode = debug_mode_q, c.debug_req_entry = debug_req_entry_q, c.illegal_insn = FALSE,
         c.ns \in {"DECODE", "DECODE_HWLOOP", "FLUSH_EX", "DBG_FLUSH", "DBG_WAIT_BRANCH"},
         c.ns \in {"DBG_FLUSH", "DBG_WAIT_BRANCH"} <=> step /\ ~debug_mode_q,
         c.ns \in {"FLUSH_EX", "DBG_FLUSH", "DBG_WAIT_BRANCH"} => c.halt_if = TRUE,
         csr_status => c.ns \in {"FLUSH_EX", "DBG_FLUSH"},
         c.ns = "FLUSH_EX" => /\ insn \in {"wfi", "fencei"} \/ csr_status
                              /\ insn = "wfi" => ~debug_mode_q
                              /\ c.pc_set = None /\ pc_if = pc_id + 1
  PROVE  MachineInv'
<1>1. ex' = [pc |-> pc_id, taken |-> i.taken,
             value |-> IF insn = "skip" THEN mepc + 1 ELSE 0]
  BY IssuedInEx DEF Effective, Trapping
<1>2. /\ c.halt_if = TRUE =>
           /\ pc_id' = pc_id /\ ~instr_valid_id'
           /\ pc_if' = IF c.pc_set # None THEN c.pc_set ELSE pc_if
           /\ ~debug_mode_q => (trigger_match' <=> trigger_match)
      /\ ~stepped /\ (stepped' <=> step /\ ~debug_mode_q)
  BY NextIssued
<1>3. /\ ctrl_fsm_cs' = c.ns /\ debug_mode_q' = debug_mode_q /\ illegal_insn_q' = FALSE
      /\ debug_req_entry_q' = debug_req_entry_q
  BY DEF Clocked, ControllerCycle
<1>4. ~debug_req_entry_q
  BY DEF MachineInv, EnteringDebug
<1>5. c.halt_if = TRUE => /\ insn' = insn /\ (illegal_insn' <=> illegal_insn)
                          /\ (Trapping' <=> Trapping) /\ (csr_status' <=> csr_status)
  BY <1>2, <1>3 DEF insn, illegal_insn, Trapping, csr_status
<1>6. ~debug_mode_q => step' = step
  BY TriggerKept
<1>7. insn # "ebreak" /\ ~Trapping /\ ~illegal_insn
  BY DEF Effective, Trapping
<1>8. IllegalKept' /\ Flushing' /\ Returning' /\ ExEmpty' /\ Awake'
  BY <1>2, <1>3, <1>5, <1>7 DEF IllegalKept, Flushing, Returning, ExEmpty, Awake
<1>9. EnteringDebug'
  BY <1>2, <1>3, <1>4 DEF EnteringDebug
<1>10. Stepping'
  BY <1>2, <1>3, <1>4, <1>5, <1>6, <1>7 DEF Stepping
<1>11. CsrWrites'
  <2>1. \A w \in {"mie", "skip", "dcsr", "tdata1"} : Writes(w)' => insn = w
    BY <1>1 DEF Writes, insn
  <2>2. insn \in {"mie", "skip", "dcsr"} => csr_status
    BY DEF csr_status
  <2>3. csr_in_ex' => csr_status
    BY <1>1, <2>2 DEF csr_in_ex, insn
  <2>4. Writes("dcsr")' => debug_mode_q
    BY <1>7, <2>1 DEF illegal_insn
  <2>5. ctrl_fsm_cs' \notin {"FLUSH_EX", "DBG_FLUSH"} => ~csr_status
    BY <1>3
  <2>6. ex'.pc = pc_id
    BY <1>1
  <2> QED BY <1>2, <1>3, <2>1, <2>2, <2>3, <2>4, <2>5, <2>6 DEF CsrWrites
<1> QED BY <1>8, <1>9, <1>10, <1>11 DEF MachineInv

\* The machine executes the instruction that is issued, if IF goes on where it tells.
LEMMA IssuedMachine ==
  ASSUME TypeOK, TypeOK', MachineInv,
         ctrl_fsm_cs \in {"DECODE", "DECODE_HWLOOP"}, NEW i \in Inputs,
         NEW c, Clocked(i, c), issue(i, c), Effective, instr_valid_id, ~branch_taken_ex,
         debug_mode_q \/ ~trigger_match, c.save = None, c.mret = FALSE,
         c.debug_mode = debug_mode_q, c.debug_req_entry = debug_req_entry_q, c.illegal_insn = FALSE,
         c.ns \in {"DECODE", "DECODE_HWLOOP", "FLUSH_EX", "DBG_FLUSH", "DBG_WAIT_BRANCH"},
         c.ns \in {"DBG_FLUSH", "DBG_WAIT_BRANCH"} <=> step /\ ~debug_mode_q,
         c.ns \in {"FLUSH_EX", "DBG_FLUSH", "DBG_WAIT_BRANCH"} => c.halt_if = TRUE,
         csr_status => c.ns \in {"FLUSH_EX", "DBG_FLUSH"},
         c.ns = "FLUSH_EX" => /\ insn \in {"wfi", "fencei"} \/ csr_status
                              /\ insn = "wfi" => ~debug_mode_q
                              /\ c.pc_set = None /\ pc_if = pc_id + 1,
         c.hwlp_dec_cnt = {k \in Loop : hwlp_end[k] = pc_id + 1 /\ hwlp_counter[k] # 0},
         (IF c.pc_set # None THEN c.pc_set ELSE pc_if)
           = IF insn = "jump" THEN Program[pc_id].target ELSE Machine!Following(pc_id)
  PROVE  MachineInv' /\ Machine!Next
<1>1. MachineInv'
  BY Issued
<1>2. NextPc' = IF insn = "branch" /\ i.taken THEN Program[pc_id].target
                ELSE IF c.pc_set # None THEN c.pc_set ELSE pc_if
  BY NextIssued
<1>3. NextPc = pc_id
  BY DEF NextPc
<1>4. Machine!Op(pc_id) = insn /\ insn \notin {"mret", "dret"}
  BY MachineTraps DEF Effective
<1>5. Machine!GoOn
  BY <1>2, <1>3, <1>4 DEF Machine!GoOn
<1> QED BY <1>1, <1>5, Executing

\* A trap or a return that leaves ID has no effect yet: the machine waits.
LEMMA LeavesForTrap ==
  ASSUME TypeOK, TypeOK', MachineInv,
         ctrl_fsm_cs \in {"DECODE", "DECODE_HWLOOP"}, NEW i \in Inputs,
         NEW c, Clocked(i, c), ~Effective, instr_valid_id, ~branch_taken_ex,
         debug_mode_q \/ ~trigger_match, c.save = None, c.mret = FALSE,
         c.debug_mode = debug_mode_q, c.debug_req_entry = debug_req_entry_q,
         c.illegal_insn <=> illegal_insn, c.halt_if = TRUE, c.pc_set = None, c.hwlp_dec_cnt = {},
         c.ns = IF insn = "ebreak" /\ (debug_mode_q \/ ebreakm) THEN "DBG_FLUSH" ELSE "FLUSH_EX",
         c.ns = "DBG_FLUSH" \/ id_ready(i) \/ c.halt_id = TRUE
  PROVE  MachineInv' /\ Machine!Next
<1>1. illegal_insn \/ insn \in {"ecall", "ebreak", "mret", "dret"}
  BY DEF Effective, Trapping
<1>2. /\ executed' = executed /\ ~stepped /\ ~stepped' /\ debug_mode_q' = debug_mode_q
      /\ ~debug_req_entry_q /\ debug_req_entry_q' = c.debug_req_entry
      /\ illegal_insn_q' = c.illegal_insn /\ ctrl_fsm_cs' = c.ns
      /\ ~debug_mode_q => tmatch_control_exec_q' = tmatch_control_exec_q
      /\ CsrWrites'
  BY <1>1, Quiet DEF Fetching
<1>3. insn \notin {"setup", "wfi"}
  BY <1>1 DEF illegal_insn
<1>4. hwlp_start' = hwlp_start /\ hwlp_end' = hwlp_end /\ hwlp_counter' = hwlp_counter
  BY <1>3, LoopsKept
<1>5. ~if_valid(i, c)
  BY DEF if_valid
<1>6. /\ pc_id' = pc_id
      /\ instr_valid_id' => c.ns = "DBG_FLUSH"
  BY <1>5, NoHandOver DEF clear_instr_valid
<1>7. /\ insn' = insn /\ (illegal_insn' <=> illegal_insn) /\ (Trapping' <=> Trapping)
      /\ ~debug_mode_q => (trigger_match' <=> trigger_match)
  BY <1>2, <1>6 DEF insn, illegal_insn, Trapping, trigger_match
<1>8. insn = "ebreak" => ~illegal_insn
  BY DEF illegal_insn
<1>9. ~branch_in_ex' /\ ~branch_taken_ex'
  BY <1>1, ExBubble
<1>10. Trapping \/ insn \in {"mret", "dret"}
  BY DEF Effective
<1>11. MachineInv'
  <2>1. IllegalKept'
    BY <1>2, <1>7, <1>8 DEF IllegalKept
  <2>2. Flushing'
    BY <1>2, <1>3, <1>7, <1>10 DEF Flushing
  <2>3. /\ Returning' /\ ExEmpty' /\ Awake' /\ EnteringDebug' /\ Stepping'
    BY <1>2, <1>7 DEF Returning, ExEmpty, Awake, EnteringDebug, Stepping
  <2> QED BY <1>2, <2>1, <2>2, <2>3 DEF MachineInv
<1>12. NextPc = pc_id
  BY DEF NextPc
<1>13. NextPc' = pc_id
  <2>1. CASE c.ns = "DBG_FLUSH"
    BY <1>2, <1>6, <1>7, <1>9, <2>1 DEF NextPc, ebrk_force_debug_mode
  <2>2. CASE c.ns = "FLUSH_EX"
    <3>1. illegal_insn_q' \/ insn' \in {"ecall", "ebreak"} \/ insn' \in {"mret", "dret"}
      BY <1>1, <1>2, <1>7
    <3> QED BY <1>2, <1>6, <1>9, <2>2, <3>1 DEF NextPc
  <2> QED BY <2>1, <2>2
<1>14. stepped' = stepped
  BY <1>2 DEF TypeOK
<1> QED BY <1>1, <1>2, <1>4, <1>11, <1>12, <1>13, <1>14, Waits

\* Where an instruction goes that is stepped over.
SteppedTo(i, ns) ==
  IF ~id_ready(i) THEN ns
  ELSE IF illegal_insn \/ insn \in {"ecall", "mret"} \/ (insn = "ebreak" /\ ~ebreakm)
    THEN "FLUSH_EX"
  ELSE IF insn = "branch" THEN "DBG_WAIT_BRANCH"
  ELSE "DBG_FLUSH"

\* Stepping changes where an instruction goes and halts IF, nothing else.
LEMMA SingleStepKeeps ==
  ASSUME NEW i, NEW d, d \in Outputs, NEW c, c = SingleStep(i, d)
  PROVE  /\ c.save = d.save /\ c.mret = d.mret /\ c.debug_mode = d.debug_mode
         /\ c.debug_req_entry = d.debug_req_entry /\ c.illegal_insn = d.illegal_insn
         /\ ~(step /\ ~debug_mode_q) => c = d
         /\ step /\ ~debug_mode_q =>
              c.halt_if = TRUE /\ c.ns = SteppedTo(i, d.ns)
BY DEF SingleStep, Outputs, debug_single_step, ebrk_force_debug_mode, SteppedTo

\* An ebreak that enters debug mode.
EnteringEbreak == insn = "ebreak" /\ (debug_mode_q \/ ebreakm)

\* A flush changes the next state, nothing the machine sees.
LEMMA FlushKeeps ==
  ASSUME NEW i, NEW d, d \in Outputs, NEW c, c = Flush(i, d)
  PROVE  /\ c.save = d.save /\ c.mret = d.mret /\ c.debug_mode = d.debug_mode
         /\ c.debug_req_entry = d.debug_req_entry /\ c.illegal_insn = d.illegal_insn
         /\ c.hwlp_dec_cnt = d.hwlp_dec_cnt /\ c.halt_id = d.halt_id
         /\ c.ns = IF id_ready(i) THEN "FLUSH_EX" ELSE ctrl_fsm_cs
BY DEF Flush, Outputs

\* Neither does an ebreak.
LEMMA EbreakKeeps ==
  ASSUME NEW i, NEW d, d \in Outputs, NEW c, c = Ebreak(i, d), insn = "ebreak"
  PROVE  /\ c.save = d.save /\ c.mret = d.mret /\ c.debug_mode = d.debug_mode
         /\ c.debug_req_entry = d.debug_req_entry /\ c.illegal_insn = d.illegal_insn
         /\ c.hwlp_dec_cnt = d.hwlp_dec_cnt /\ c.halt_id = d.halt_id
         /\ c.ns = IF EnteringEbreak THEN "DBG_FLUSH"
                   ELSE IF id_ready(i) THEN "FLUSH_EX" ELSE ctrl_fsm_cs
<1>1. CASE EnteringEbreak
  <2>1. c = [d EXCEPT !.halt_if = TRUE, !.ns = "DBG_FLUSH"]
    BY <1>1 DEF Ebreak, EnteringEbreak, ebrk_force_debug_mode
  <2> QED BY <1>1, <2>1 DEF Outputs
<1>2. CASE ~EnteringEbreak
  <2>1. c = Flush(i, d)
    BY <1>2 DEF Ebreak, EnteringEbreak, ebrk_force_debug_mode
  <2> QED BY <1>2, <2>1, FlushKeeps
<1> QED BY <1>1, <1>2

\* Decoding in DECODE saves nothing, and leaves for the flush that the instruction needs.
LEMMA DecodeInsnKeeps ==
  ASSUME TypeOK, ctrl_fsm_cs = "DECODE", NEW i, NEW d, d = DecodeInsn(i)
  PROVE  /\ d.save = None /\ d.mret = FALSE /\ d.debug_mode = debug_mode_q
         /\ d.debug_req_entry = debug_req_entry_q /\ (d.illegal_insn <=> illegal_insn)
         /\ d.illegal_insn \in BOOLEAN
         /\ ~Looks(i) => d.hwlp_dec_cnt = {}
         /\ insn # "jump" /\ ~Looks(i) =>
              d.ns = IF EnteringEbreak THEN "DBG_FLUSH"
                     ELSE IF id_ready(i) THEN "FLUSH_EX" ELSE "DECODE"
         /\ Looks(i) =>
              \A k \in Loop : hwlp_end_eq_pc(k) /\ hwlp_counter[k] = 1 => k \in d.hwlp_dec_cnt
<1> DEFINE c0 == [Decoding EXCEPT !.illegal_insn = FALSE]
           c1 == [c0 EXCEPT !.illegal_insn = TRUE]
           plain(c) == /\ c.save = None /\ c.mret = FALSE /\ c.debug_mode = debug_mode_q
                       /\ c.debug_req_entry = debug_req_entry_q
<1>1. /\ plain(c0) /\ c0.illegal_insn = FALSE /\ c0.hwlp_dec_cnt = {}
      /\ plain(c1) /\ c1.illegal_insn = TRUE /\ c1.hwlp_dec_cnt = {}
  BY DEF Decoding, Default
<1>2. c0 \in Outputs /\ c1 \in Outputs
  <2>1. c0 \in Outputs
    BY ZenonT(60), DefaultType DEF Outputs
  <2>2. c1 \in Outputs
    BY <2>1 DEF Outputs
  <2> QED BY <2>1, <2>2
<1>3. CASE illegal_insn
  <2>1. d = Flush(i, c1) /\ ~Looks(i) /\ ~EnteringEbreak
    BY <1>3 DEF DecodeInsn, Looks, EnteringEbreak, illegal_insn
  <2> HIDE DEF c0, c1, plain
  <2>2. /\ d.save = c1.save /\ d.mret = c1.mret /\ d.debug_mode = c1.debug_mode
        /\ d.debug_req_entry = c1.debug_req_entry /\ d.illegal_insn = c1.illegal_insn
        /\ d.hwlp_dec_cnt = c1.hwlp_dec_cnt
        /\ d.ns = IF EnteringEbreak THEN "DBG_FLUSH"
                  ELSE IF id_ready(i) THEN "FLUSH_EX" ELSE ctrl_fsm_cs
    BY <1>2, <1>3, <2>1, FlushKeeps
  <2>3. plain(d)
    BY <1>1, <2>2 DEF plain
  <2> QED BY <1>1, <1>3, <2>1, <2>2, <2>3 DEF plain
<1>4. CASE ~illegal_insn /\ insn = "jump"
  <2>1. d \in {c0, [c0 EXCEPT !.pc_set = Program[pc_id].target, !.jump_done = TRUE]}
    BY <1>4 DEF DecodeInsn, Jump
  <2>2. ~Looks(i)
    BY <1>4 DEF Looks
  <2>3. plain(d) /\ d.illegal_insn = FALSE /\ d.hwlp_dec_cnt = {}
    BY ZenonT(60), <1>1, <2>1 DEF Decoding, Default
  <2> QED BY <1>4, <2>2, <2>3
<1>5. CASE ~illegal_insn /\ insn = "ebreak"
  <2>1. d = Ebreak(i, c0) /\ ~Looks(i)
    BY <1>5 DEF DecodeInsn, Looks
  <2> HIDE DEF c0, c1, plain
  <2>2. /\ d.save = c0.save /\ d.mret = c0.mret /\ d.debug_mode = c0.debug_mode
        /\ d.debug_req_entry = c0.debug_req_entry /\ d.illegal_insn = c0.illegal_insn
        /\ d.hwlp_dec_cnt = c0.hwlp_dec_cnt
        /\ d.ns = IF EnteringEbreak THEN "DBG_FLUSH"
                  ELSE IF id_ready(i) THEN "FLUSH_EX" ELSE ctrl_fsm_cs
    BY <1>2, <1>5, <2>1, EbreakKeeps
  <2>3. plain(d)
    BY <1>1, <2>2 DEF plain
  <2> QED BY <1>1, <1>5, <2>1, <2>2, <2>3 DEF plain
<1>6. CASE /\ ~illegal_insn /\ insn \notin {"jump", "ebreak"}
           /\ wfi_active(i) \/ insn \in {"ecall", "fencei", "mret", "dret"} \/ csr_status
  <2>1. d = Flush(i, c0) /\ ~Looks(i) /\ ~EnteringEbreak
    BY <1>6 DEF DecodeInsn, Looks, EnteringEbreak
  <2> HIDE DEF c0, c1, plain
  <2>2. /\ d.save = c0.save /\ d.mret = c0.mret /\ d.debug_mode = c0.debug_mode
        /\ d.debug_req_entry = c0.debug_req_entry /\ d.illegal_insn = c0.illegal_insn
        /\ d.hwlp_dec_cnt = c0.hwlp_dec_cnt
        /\ d.ns = IF EnteringEbreak THEN "DBG_FLUSH"
                  ELSE IF id_ready(i) THEN "FLUSH_EX" ELSE ctrl_fsm_cs
    BY <1>2, <1>6, <2>1, FlushKeeps
  <2>3. plain(d)
    BY <1>1, <2>2 DEF plain
  <2> QED BY <1>1, <1>6, <2>1, <2>2, <2>3 DEF plain
<1>7. CASE /\ ~illegal_insn /\ insn \notin {"jump", "ebreak"}
           /\ ~(wfi_active(i) \/ insn \in {"ecall", "fencei", "mret", "dret"} \/ csr_status)
  <2>1. d = LoopInDecode(c0) /\ Looks(i)
    BY <1>7 DEF DecodeInsn, Looks
  <2> DEFINE ending(n) == {k \in Loop : hwlp_end_eq_pc(k) /\ (n = 1 <=> hwlp_counter[k] = 1)
                                                   /\ hwlp_counter[k] >= n}
             jumping == IF is_hwlp_body /\ ~jump_done_q THEN ending(2) ELSE {}
  <2>2. d = [c0 EXCEPT
        !.ns = IF is_hwlp_body /\ \A k \in Loop : ~hwlp_end_eq_pc_plus4(k)
                 THEN "DECODE_HWLOOP" ELSE "DECODE",
        !.pc_set = IF jumping # {} THEN hwlp_targ_addr ELSE None,
        !.jump_done = jump_done_q \/ jumping # {},
        !.hwlp_dec_cnt = jumping \cup ending(1)]
    BY <2>1 DEF LoopInDecode
  <2>3. \A k \in Loop : hwlp_end_eq_pc(k) /\ hwlp_counter[k] = 1 => k \in ending(1)
    OBVIOUS
  <2> HIDE DEF ending, jumping
  <2>4. plain(d) /\ d.illegal_insn = FALSE /\ d.hwlp_dec_cnt = jumping \cup ending(1)
    BY <2>2 DEF Decoding, Default
  <2> QED BY <1>7, <2>1, <2>3, <2>4
<1> QED BY <1>3, <1>4, <1>5, <1>6, <1>7

\* In DECODE an instruction at the end of a loop counts it, and IF goes on where the machine
\* does.
LEMMA LooksMoves ==
  ASSUME TypeOK, LoopsAdmissible, LoopInv, ctrl_fsm_cs = "DECODE", instr_valid_id,
         NEW i \in Inputs, NEW d, d = DecodeInsn(i), Looks(i)
  PROVE  /\ d.hwlp_dec_cnt = {k \in Loop : hwlp_end[k] = pc_id + 1 /\ hwlp_counter[k] # 0}
         /\ (IF d.pc_set # None THEN d.pc_set ELSE pc_if) = Machine!Following(pc_id)
<1>1. /\ hwlp_start \in [Loop -> Nat] /\ hwlp_end \in [Loop -> Nat] /\ pc_id \in Nat
      /\ hwlp_counter \in [Loop -> Nat] /\ hwlp_start \in [Loop -> Addr]
      /\ jump_done_q \in BOOLEAN
  BY ControllerAssumption DEF TypeOK
<1>2. Geometry
  BY LoopGeometry DEF LoopInv
<1>3. ~jump_done_q
  BY DEF LoopInv, JumpOnce, Looks
<1>4. \A k \in Loop : hwlp_end_eq_pc(k) <=> hwlp_end[k] = pc_id + 1
  <2> TAKE k \in Loop
  <2>1. hwlp_end[k] = pc_id + 1 => hwlp_end[k] # 0
    BY <1>1
  <2>2. hwlp_end[k] # 0 => COREV_PULP
    BY <1>2 DEF Geometry
  <2> QED BY <2>1, <2>2 DEF hwlp_end_eq_pc
<1>5. Jumping = {k \in Loop : hwlp_end[k] = pc_id + 1 /\ hwlp_counter[k] > 1}
  BY <1>4 DEF Jumping
<1>6. Jumping # {} => is_hwlp_body
  <2> SUFFICES ASSUME NEW k \in Jumping
               PROVE  is_hwlp_body
    OBVIOUS
  <2>1. k \in Loop /\ hwlp_end[k] = pc_id + 1 /\ hwlp_counter[k] > 1
    BY <1>5
  <2>2. COREV_PULP /\ hwlp_start[k] <= pc_id
    BY <1>1, <1>2, <2>1 DEF Geometry
  <2> QED BY <1>1, <2>1, <2>2 DEF is_hwlp_body, InBody
<1>7. /\ d.pc_set = IF Jumping # {} THEN hwlp_targ_addr ELSE None
      /\ \A k \in Jumping : k \in d.hwlp_dec_cnt
      /\ \A k \in d.hwlp_dec_cnt : hwlp_counter[k] = 1 \/ k \in Jumping
      /\ \A k \in d.hwlp_dec_cnt : k \in Loop /\ hwlp_end_eq_pc(k)
  <2> DEFINE jumping == IF is_hwlp_body /\ ~jump_done_q THEN Jumping ELSE {}
  <2>1. jumping = Jumping
    BY <1>3, <1>6
  <2>2. /\ d.pc_set = IF jumping # {} THEN hwlp_targ_addr ELSE None
        /\ \A k \in Jumping : jumping # {} => k \in d.hwlp_dec_cnt
        /\ \A k \in d.hwlp_dec_cnt : hwlp_counter[k] = 1 \/ k \in jumping
        /\ \A k \in d.hwlp_dec_cnt : k \in Loop /\ hwlp_end_eq_pc(k)
    BY DecodeInsnMoves
  <2> HIDE DEF jumping
  <2> QED BY <2>1, <2>2
<1>8. \A k \in Loop : hwlp_end_eq_pc(k) /\ hwlp_counter[k] = 1 => k \in d.hwlp_dec_cnt
  BY DecodeInsnKeeps
<1>9. d.hwlp_dec_cnt = {k \in Loop : hwlp_end[k] = pc_id + 1 /\ hwlp_counter[k] # 0}
  <2>1. \A k \in d.hwlp_dec_cnt : k \in Loop /\ hwlp_end[k] = pc_id + 1 /\ hwlp_counter[k] # 0
    <3> TAKE k \in d.hwlp_dec_cnt
    <3>1. k \in Loop /\ hwlp_end[k] = pc_id + 1
      BY <1>4, <1>7
    <3>2. hwlp_counter[k] = 1 \/ hwlp_counter[k] > 1
      BY <1>5, <1>7
    <3> QED BY <1>1, <3>1, <3>2
  <2>2. \A k \in Loop : hwlp_end[k] = pc_id + 1 /\ hwlp_counter[k] # 0 => k \in d.hwlp_dec_cnt
    <3> TAKE k \in Loop
    <3>1. hwlp_counter[k] # 0 => hwlp_counter[k] = 1 \/ hwlp_counter[k] > 1
      BY <1>1
    <3> QED BY <1>4, <1>5, <1>7, <1>8, <3>1
  <2> QED BY <2>1, <2>2
<1>10. {k \in Machine!Ends(pc_id) : hwlp_counter[k] > 1} = Jumping
  BY <1>5 DEF Machine!Ends, Machine!Loop, Loop
<1>11. CASE Jumping # {}
  <2> DEFINE k == CHOOSE k \in Machine!Ends(pc_id) : hwlp_counter[k] > 1
  <2>1. k \in Jumping
    BY <1>10, <1>11
  <2>2. Machine!Following(pc_id) = hwlp_start[k]
    BY <1>10, <1>11 DEF Machine!Following
  <2>3. hwlp_targ_addr = hwlp_start[k]
    <3>1. k \in Loop /\ hwlp_end_eq_pc(k)
      BY <2>1 DEF Jumping
    <3> HIDE DEF k
    <3> QED BY <1>2, <3>1, JumpTarget
  <2>4. hwlp_targ_addr # None
    BY TargetType, ControllerAssumption
  <2> HIDE DEF k
  <2> QED BY <1>7, <1>9, <1>11, <2>2, <2>3, <2>4
<1>12. CASE Jumping = {}
  <2>1. Machine!Following(pc_id) = pc_id + 1
    BY <1>10, <1>12 DEF Machine!Following
  <2>2. pc_if = pc_id + 1
    BY <1>3 DEF LoopInv, FetchInDecode
  <2> QED BY <1>7, <1>9, <1>12, <2>1, <2>2
<1> QED BY <1>11, <1>12

\* An instruction decoded in DECODE is stalled, leaves for a trap, or is executed.
LEMMA DecodingMachine ==
  ASSUME TypeOK, TypeOK', LoopInv, MachineInv, LoopsAdmissible, CsrNotLast,
         ctrl_fsm_cs = "DECODE", NEW i \in Inputs, instr_valid_id, ~branch_taken_ex,
         debug_mode_q \/ ~trigger_match,
         NEW c, c = SingleStep(i, DecodeInsn(i)), Clocked(i, c)
  PROVE  MachineInv' /\ Machine!Next
<1> DEFINE d == DecodeInsn(i)
<1>1. d \in Outputs
  BY DecodeType
<1>2. /\ d.is_decoding = TRUE /\ d.halt_id = FALSE
      /\ insn = "jump" =>
           /\ d.ns = "DECODE"
           /\ d.pc_set = IF ~i.hazard /\ ~jump_done_q THEN Program[pc_id].target ELSE None
      /\ insn # "jump" /\ ~Looks(i) => d.pc_set = None /\ d.halt_if = TRUE
      /\ Looks(i) => d.ns \in {"DECODE", "DECODE_HWLOOP"}
  BY DecodeInsnMoves
<1>3. /\ d.save = None /\ d.mret = FALSE /\ d.debug_mode = debug_mode_q
      /\ d.debug_req_entry = debug_req_entry_q /\ (d.illegal_insn <=> illegal_insn)
      /\ d.illegal_insn \in BOOLEAN
      /\ ~Looks(i) => d.hwlp_dec_cnt = {}
      /\ insn # "jump" /\ ~Looks(i) =>
           d.ns = IF EnteringEbreak THEN "DBG_FLUSH"
                  ELSE IF id_ready(i) THEN "FLUSH_EX" ELSE "DECODE"
  BY DecodeInsnKeeps
<1>4. Looks(i) =>
        /\ d.hwlp_dec_cnt = {k \in Loop : hwlp_end[k] = pc_id + 1 /\ hwlp_counter[k] # 0}
        /\ (IF d.pc_set # None THEN d.pc_set ELSE pc_if) = Machine!Following(pc_id)
  BY LooksMoves
<1>step. c = SingleStep(i, d)
  OBVIOUS
<1> HIDE DEF d
<1>5. /\ c.pc_set = d.pc_set /\ c.halt_id = d.halt_id
      /\ c.is_decoding = d.is_decoding /\ c.hwlp_dec_cnt = d.hwlp_dec_cnt
  BY <1>1, SingleSteps DEF d
<1>6. /\ c.save = d.save /\ c.mret = d.mret /\ c.debug_mode = d.debug_mode
      /\ c.debug_req_entry = d.debug_req_entry /\ c.illegal_insn = d.illegal_insn
      /\ ~(step /\ ~debug_mode_q) => c = d
      /\ step /\ ~debug_mode_q =>
           c.halt_if = TRUE /\ c.ns = SteppedTo(i, d.ns)
  BY ZenonT(60), <1>1, <1>step, SingleStepKeeps
<1>7. /\ c.save = None /\ c.mret = FALSE /\ c.debug_mode = debug_mode_q
      /\ c.debug_req_entry = debug_req_entry_q /\ (c.illegal_insn <=> illegal_insn)
      /\ c.illegal_insn \in BOOLEAN
  <2>1. c.illegal_insn = d.illegal_insn
    BY <1>6
  <2>2. (c.illegal_insn <=> illegal_insn) /\ c.illegal_insn \in BOOLEAN
    BY <1>3, <2>1
  <2>3. /\ c.save = None /\ c.mret = FALSE /\ c.debug_mode = debug_mode_q
        /\ c.debug_req_entry = debug_req_entry_q
    BY <1>3, <1>6
  <2> QED BY <2>2, <2>3
<1>8. ~Effective => ~Looks(i) /\ insn # "jump"
  BY DEF Effective, Trapping, Looks, illegal_insn
<1>9. EnteringEbreak => ~Effective
  BY DEF EnteringEbreak, Effective, Trapping
\* ID is stalled.
<1>10. CASE ~id_ready(i) /\ ~EnteringEbreak
  <2>1. ~issue(i, c)
    BY <1>10 DEF issue
  <2>2. ~clear_instr_valid(i, c)
    BY <1>2, <1>5, <1>10 DEF clear_instr_valid
  <2>3. c.ns \in {"DECODE", "DECODE_HWLOOP"} /\ (illegal_insn => c.ns = "DECODE")
    <3>1. c.ns = d.ns
      BY <1>6, <1>10 DEF SteppedTo
    <3>2. insn = "jump" \/ Looks(i) \/ (insn # "jump" /\ ~Looks(i))
      OBVIOUS
    <3>3. illegal_insn => insn # "jump" /\ ~Looks(i)
      BY DEF Looks, illegal_insn
    <3> QED BY <1>2, <1>3, <1>10, <3>1, <3>2, <3>3
  <2>4. NextPc' = NextPc /\ instr_valid_id' /\ pc_id' = pc_id
    BY <1>2, <1>5, <1>10, <2>1, <2>3, NextHeld DEF Fetching
  <2>5. \/ c.illegal_insn = FALSE
        \/ c.ns = "DECODE" /\ instr_valid_id' /\ illegal_insn /\ pc_id' = pc_id
    BY <1>7, <2>3, <2>4
  <2> QED BY <1>7, <1>10, <2>1, <2>2, <2>3, <2>4, <2>5, DecodingWaits DEF Fetching
\* A trap or a return.
<1>11. CASE ~Effective /\ (id_ready(i) \/ EnteringEbreak)
  <2>1. c.halt_if = TRUE /\ c.pc_set = None /\ c.hwlp_dec_cnt = {}
    BY <1>2, <1>3, <1>5, <1>6, <1>8, <1>11
  <2>2. c.ns = IF EnteringEbreak THEN "DBG_FLUSH" ELSE "FLUSH_EX"
    <3>1. d.ns = IF EnteringEbreak THEN "DBG_FLUSH" ELSE "FLUSH_EX"
      BY <1>3, <1>8, <1>11
    <3>2. EnteringEbreak => insn = "ebreak" /\ (debug_mode_q \/ ebreakm)
      BY DEF EnteringEbreak
    <3>3. EnteringEbreak => ~illegal_insn
      BY DEF EnteringEbreak, illegal_insn
    <3>4. ~EnteringEbreak /\ ~debug_mode_q =>
            illegal_insn \/ insn \in {"ecall", "mret"} \/ (insn = "ebreak" /\ ~ebreakm)
      BY <1>11 DEF EnteringEbreak, Effective, Trapping, illegal_insn
    <3> QED BY <1>6, <1>11, <3>1, <3>2, <3>3, <3>4 DEF SteppedTo
  <2>3. c.ns = IF insn = "ebreak" /\ (debug_mode_q \/ ebreakm) THEN "DBG_FLUSH" ELSE "FLUSH_EX"
    BY <2>2 DEF EnteringEbreak
  <2>4. c.ns = "DBG_FLUSH" \/ id_ready(i) \/ c.halt_id = TRUE
    BY <1>11, <2>2
  <2> QED BY <1>7, <1>11, <2>1, <2>3, <2>4, LeavesForTrap
\* The instruction is issued.
<1>12. CASE Effective /\ id_ready(i)
  <2>1. issue(i, c) /\ ~i.hazard
    BY <1>2, <1>5, <1>12 DEF issue, id_ready
  <2>2. /\ ~illegal_insn /\ ~EnteringEbreak
        /\ insn \notin {"ecall", "ebreak", "mret", "dret"}
    BY <1>9, <1>12 DEF Effective, Trapping
  <2>3. c.illegal_insn = FALSE
    BY <1>7, <2>2
  <2>4. Looks(i) <=> insn \notin {"jump", "fencei"} /\ ~csr_status /\ ~wfi_active(i)
    BY <2>2 DEF Looks
  <2>5. insn = "jump" => ~csr_status
    BY DEF csr_status
  <2>6. wfi_active(i) => insn = "wfi" /\ ~debug_mode_q /\ ~step
    BY DEF wfi_active, debug_single_step
  <2>7. step /\ ~debug_mode_q =>
          c.halt_if = TRUE /\ c.ns = IF insn = "branch" THEN "DBG_WAIT_BRANCH" ELSE "DBG_FLUSH"
    BY <1>6, <1>12, <2>2 DEF SteppedTo
  <2>8. ~(step /\ ~debug_mode_q) =>
          /\ c = d
          /\ c.ns = "FLUSH_EX" => c.halt_if = TRUE /\ insn # "jump" /\ ~Looks(i)
          /\ c.ns \in {"DECODE", "DECODE_HWLOOP", "FLUSH_EX"}
          /\ insn # "jump" /\ ~Looks(i) => c.ns = "FLUSH_EX"
    BY <1>2, <1>3, <1>6, <1>12, <2>2
  <2>9. /\ c.ns \in {"DECODE", "DECODE_HWLOOP", "FLUSH_EX", "DBG_FLUSH", "DBG_WAIT_BRANCH"}
        /\ c.ns \in {"DBG_FLUSH", "DBG_WAIT_BRANCH"} <=> step /\ ~debug_mode_q
        /\ c.ns \in {"FLUSH_EX", "DBG_FLUSH", "DBG_WAIT_BRANCH"} => c.halt_if = TRUE
        /\ csr_status => c.ns \in {"FLUSH_EX", "DBG_FLUSH"}
        /\ c.ns = "FLUSH_EX" => insn # "jump" /\ ~Looks(i)
    <3>1. csr_status => insn \notin {"jump", "branch"} /\ ~Looks(i)
      BY <2>4, <2>5 DEF csr_status
    <3> QED BY <2>7, <2>8, <3>1
  <2>10. insn # "jump" => pc_if = pc_id + 1
    BY DEF LoopInv, FetchInDecode, JumpOnce
  <2>11. c.ns = "FLUSH_EX" => /\ insn \in {"wfi", "fencei"} \/ csr_status
                              /\ insn = "wfi" => ~debug_mode_q
                              /\ c.pc_set = None /\ pc_if = pc_id + 1
    <3>1. insn = "wfi" => ~csr_status
      BY DEF csr_status
    <3> QED BY <1>2, <1>5, <2>4, <2>6, <2>9, <2>10, <3>1
  <2>12. /\ c.hwlp_dec_cnt = {k \in Loop : hwlp_end[k] = pc_id + 1 /\ hwlp_counter[k] # 0}
         /\ (IF c.pc_set # None THEN c.pc_set ELSE pc_if)
              = IF insn = "jump" THEN Program[pc_id].target ELSE Machine!Following(pc_id)
    <3>1. CASE Looks(i)
      <4>1. insn # "jump"
        BY <3>1, <2>4
      <4> QED BY <1>4, <1>5, <3>1, <4>1
    <3>2. CASE ~Looks(i)
      <4>1. /\ \A k \in Loop : hwlp_end[k] # pc_id + 1
            /\ Machine!Following(pc_id) = pc_id + 1
        BY <2>4, <2>6, <3>2, EndsNoLoop
      <4>2. c.hwlp_dec_cnt = {k \in Loop : hwlp_end[k] = pc_id + 1 /\ hwlp_counter[k] # 0}
        BY <1>3, <1>5, <3>2, <4>1
      <4>3. insn = "jump" =>
              (IF c.pc_set # None THEN c.pc_set ELSE pc_if) = Program[pc_id].target
        <5>1. Program[pc_id].target # None
          BY ControllerAssumption DEF TypeOK
        <5>2. jump_done_q => pc_if = Program[pc_id].target
          BY DEF LoopInv, FetchInDecode
        <5> QED BY <1>2, <1>5, <2>1, <5>1, <5>2
      <4>4. insn # "jump" => (IF c.pc_set # None THEN c.pc_set ELSE pc_if) = pc_id + 1
        BY <1>2, <1>5, <2>10, <3>2
      <4> QED BY <4>1, <4>2, <4>3, <4>4
    <3> QED BY <3>1, <3>2
  <2> QED BY <1>7, <1>12, <2>1, <2>3, <2>9, <2>11, <2>12, IssuedMachine
<1> QED BY <1>9, <1>10, <1>11, <1>12

\* DECODE: a branch in EX, a debug request, an interrupt or an instruction.
LEMMA DecodeMachine ==
  ASSUME TypeOK, TypeOK', LoopInv, MachineInv, LoopsAdmissible, CsrNotLast,
         ctrl_fsm_cs = "DECODE", NEW i \in Inputs, NEW c, c = Controls(i, fetch_enable_q, boot),
         Clocked(i, c), DebugRequestCycle(i)
  PROVE  MachineInv' /\ Machine!Next
<1>1. c = Decode(i) /\ ctrl_fsm_cs \in Fetching
  BY DEF Controls, Fetching
<1>2. illegal_insn_q => instr_valid_id /\ ~branch_in_ex
  BY DEF MachineInv, IllegalKept
<1>3. illegal_insn_q \in BOOLEAN /\ instr_valid_id \in BOOLEAN
  BY DEF TypeOK
<1>4. CASE branch_taken_ex
  <2>1. c = [Default EXCEPT !.pc_set = Program[ex.pc].target]
    BY <1>1, <1>4 DEF Decode
  <2>2. Program[ex.pc].target # None
    BY <1>4, ControllerAssumption DEF branch_taken_ex, branch_in_ex, TypeOK, Value
  <2>3. /\ c.save = None /\ c.mret = FALSE /\ c.debug_mode = debug_mode_q
        /\ c.debug_req_entry = debug_req_entry_q /\ c.ns = "DECODE"
        /\ c.pc_set = Program[ex.pc].target /\ c.is_decoding = FALSE /\ c.hwlp_dec_cnt = {}
        /\ c.illegal_insn = illegal_insn_q
    BY <2>1 DEF Default
  <2>4. c.illegal_insn = FALSE
    BY <1>2, <1>3, <1>4, <2>3 DEF branch_taken_ex
  <2>5. ~issue(i, c) /\ ~if_valid(i, c)
    BY <2>2, <2>3 DEF issue, if_valid
  <2>6. pc_if' = Program[ex.pc].target /\ ~instr_valid_id'
    BY <1>4, <2>2, <2>3, <2>5, NoHandOver DEF clear_instr_valid
  <2>7. NextPc' = NextPc
    <3>1. ctrl_fsm_cs' = "DECODE" /\ ~branch_taken_ex'
      BY <2>3, <2>5, BranchGone DEF Clocked, ControllerCycle
    <3> QED BY <1>4, <2>6, <3>1 DEF NextPc
  <2> QED BY <1>1, <2>3, <2>4, <2>5, <2>7, DecodingWaits
<1>5. CASE ~branch_taken_ex /\ ~instr_valid_id
  <2>1. c = Default
    BY <1>1, <1>5 DEF Decode
  <2>2. /\ c.save = None /\ c.mret = FALSE /\ c.debug_mode = debug_mode_q
        /\ c.debug_req_entry = debug_req_entry_q /\ c.ns = "DECODE" /\ c.halt_id = FALSE
        /\ c.pc_set = None /\ c.is_decoding = FALSE /\ c.hwlp_dec_cnt = {}
        /\ c.illegal_insn = illegal_insn_q
    BY <2>1 DEF Default
  <2>3. c.illegal_insn = FALSE
    BY <1>2, <1>3, <1>5, <2>2
  <2>4. ~issue(i, c)
    BY <2>2 DEF issue
  <2>5. NextPc' = NextPc
    BY <1>1, <1>5, <2>2, <2>4, NextHeld
  <2> QED BY <1>1, <2>2, <2>3, <2>4, <2>5, DecodingWaits
<1>6. CASE /\ ~branch_taken_ex /\ instr_valid_id
           /\ (debug_req_pending(i) \/ trigger_match) /\ ~debug_mode_q
  <2>1. c = [DebugRequest EXCEPT !.illegal_insn = FALSE]
    BY <1>1, <1>6 DEF Decode
  <2>2. /\ c.save = None /\ c.mret = FALSE /\ c.debug_mode = debug_mode_q
        /\ c.debug_req_entry = TRUE /\ c.ns = "DBG_FLUSH" /\ c.pc_set = None
        /\ c.halt_id = TRUE /\ c.halt_if = TRUE /\ c.hwlp_dec_cnt = {} /\ c.illegal_insn = FALSE
        /\ c.is_decoding = ~COREV_PULP
    BY <2>1 DEF DebugRequest, Halted, Default
  <2>3. ~(c.is_decoding /\ insn = "setup")
    <3>1. insn = "setup" => COREV_PULP
      BY DEF LoopsAdmissible, Setups, insn, TypeOK
    <3> QED BY <2>2, <3>1
  <2> QED BY <1>6, <2>2, <2>3, RequestsDebug
<1>7. CASE /\ ~branch_taken_ex /\ instr_valid_id
           /\ ~((debug_req_pending(i) \/ trigger_match) /\ ~debug_mode_q)
           /\ irq_req_ctrl /\ ~debug_mode_q
  <2>1. c = [TakeIrq(pc_id) EXCEPT !.illegal_insn = FALSE]
    BY <1>1, <1>7 DEF Decode
  <2>2. /\ c.save = pc_id /\ c.to = "machine" /\ c.mret = FALSE /\ c.debug_mode = debug_mode_q
        /\ c.debug_req_entry = debug_req_entry_q /\ c.ns = "DECODE" /\ c.pc_set = IrqHandler
        /\ c.halt_id = TRUE /\ c.is_decoding = FALSE /\ c.hwlp_dec_cnt = {}
        /\ c.illegal_insn = FALSE
    BY <2>1 DEF TakeIrq, Halted, Default
  <2>3. NextPc = pc_id /\ pc_id # None
    BY <1>7, ControllerAssumption DEF NextPc, TypeOK
  <2> QED BY <1>1, <1>7, <2>2, <2>3, TakesInterrupt
<1>8. CASE /\ ~branch_taken_ex /\ instr_valid_id
           /\ ~((debug_req_pending(i) \/ trigger_match) /\ ~debug_mode_q)
           /\ ~(irq_req_ctrl /\ ~debug_mode_q)
  <2>1. c = SingleStep(i, DecodeInsn(i))
    BY <1>1, <1>8 DEF Decode
  <2> QED BY <1>8, <2>1, DecodingMachine
<1> QED BY <1>4, <1>5, <1>6, <1>7, <1>8

\* Decoding in DECODE_HWLOOP saves nothing, and leaves for the flush the instruction needs.
LEMMA InLoopKeeps ==
  ASSUME TypeOK, MachineInv, ctrl_fsm_cs = "DECODE_HWLOOP", NEW i, NEW d, d = DecodeInsnInLoop(i)
  PROVE  /\ d.save = None /\ d.mret = FALSE /\ d.debug_mode = debug_mode_q
         /\ d.debug_req_entry = debug_req_entry_q /\ (d.illegal_insn <=> illegal_insn)
         /\ d.illegal_insn \in BOOLEAN
         /\ illegal_insn => d.ns = "FLUSH_EX" /\ d.halt_id = TRUE
         /\ ~illegal_insn /\ ~Plain =>
              d.ns = IF EnteringEbreak THEN "DBG_FLUSH"
                     ELSE IF id_ready(i) THEN "FLUSH_EX" ELSE "DECODE_HWLOOP"
         /\ ~illegal_insn => d.halt_id = FALSE
<1> DEFINE plain(c) == /\ c.save = None /\ c.mret = FALSE /\ c.debug_mode = debug_mode_q
                       /\ c.debug_req_entry = debug_req_entry_q
<1>1. illegal_insn_q = FALSE
  BY DEF MachineInv, IllegalKept, TypeOK
<1>2. plain(Decoding) /\ Decoding.illegal_insn = FALSE /\ Decoding.halt_id = FALSE
  BY <1>1 DEF Decoding, Default
<1>3. Decoding \in Outputs
  BY DefaultType
<1>4. CASE illegal_insn
  <2>1. d = [Decoding EXCEPT !.halt_if = TRUE, !.halt_id = TRUE, !.ns = "FLUSH_EX",
                             !.illegal_insn = TRUE]
    BY <1>4 DEF DecodeInsnInLoop
  <2>2. plain(d) /\ d.illegal_insn = TRUE /\ d.ns = "FLUSH_EX" /\ d.halt_id = TRUE
    BY <2>1 DEF Decoding, Default
  <2> QED BY <1>4, <2>2
<1>5. CASE ~illegal_insn /\ ~Plain
  <2>1. insn = "ebreak" \/ insn = "ecall" \/ csr_status
    BY <1>5 DEF Plain
  <2>2. csr_status => insn # "ebreak"
    BY DEF csr_status
  <2>3. /\ d.save = Decoding.save /\ d.mret = Decoding.mret /\ d.debug_mode = Decoding.debug_mode
        /\ d.debug_req_entry = Decoding.debug_req_entry
        /\ d.illegal_insn = Decoding.illegal_insn /\ d.halt_id = Decoding.halt_id
        /\ d.ns = IF EnteringEbreak THEN "DBG_FLUSH"
                  ELSE IF id_ready(i) THEN "FLUSH_EX" ELSE ctrl_fsm_cs
    <3>1. CASE insn = "ebreak"
      <4>1. d = Ebreak(i, Decoding)
        BY <1>5, <3>1 DEF DecodeInsnInLoop
      <4> QED BY <1>3, <3>1, <4>1, EbreakKeeps
    <3>2. CASE insn # "ebreak"
      <4>1. d = Flush(i, Decoding) /\ ~EnteringEbreak
        BY <1>5, <2>1, <3>2 DEF DecodeInsnInLoop, EnteringEbreak
      <4> QED BY <1>3, <4>1, FlushKeeps
    <3> QED BY <3>1, <3>2
  <2>4. plain(d) /\ d.illegal_insn = FALSE /\ d.halt_id = FALSE
    BY <1>2, <2>3
  <2> QED BY <1>5, <2>3, <2>4
<1>6. CASE Plain
  <2>1. d = LoopAhead(Decoding) /\ ~illegal_insn
    BY <1>6 DEF DecodeInsnInLoop, Plain
  <2>2. plain(d) /\ d.illegal_insn = Decoding.illegal_insn /\ d.halt_id = FALSE
    BY <2>1 DEF LoopAhead, Decoding, Default
  <2> QED BY <1>2, <1>6, <2>1, <2>2
<1> QED BY <1>4, <1>5, <1>6 DEF Plain

\* In DECODE_HWLOOP, IF is where the loops make the machine go on.
LEMMA InLoopFollowing ==
  ASSUME TypeOK, LoopInv, ctrl_fsm_cs = "DECODE_HWLOOP", instr_valid_id
  PROVE  pc_if = Machine!Following(pc_id)
<1>1. /\ \A k \in Loop : Last(k, pc_id) => pc_if = hwlp_start[k]
      /\ (\A k \in Loop : ~Last(k, pc_id)) => pc_if = pc_id + 1
  BY DEF LoopInv, FetchInLoop
<1>2. \A k : k \in Machine!Ends(pc_id) /\ hwlp_counter[k] > 1 <=> k \in Loop /\ Last(k, pc_id)
  BY DEF Machine!Ends, Machine!Loop, Loop, Last
<1>3. CASE \E k \in Loop : Last(k, pc_id)
  <2> DEFINE k == CHOOSE k \in Machine!Ends(pc_id) : hwlp_counter[k] > 1
  <2>1. k \in Machine!Ends(pc_id) /\ hwlp_counter[k] > 1
    BY <1>2, <1>3
  <2>2. Machine!Following(pc_id) = hwlp_start[k]
    BY <2>1 DEF Machine!Following
  <2> HIDE DEF k
  <2> QED BY <1>1, <1>2, <2>1, <2>2
<1>4. CASE \A k \in Loop : ~Last(k, pc_id)
  <2>1. ~\E k \in Machine!Ends(pc_id) : hwlp_counter[k] > 1
    BY <1>2, <1>4
  <2> QED BY <1>1, <1>4, <2>1 DEF Machine!Following
<1> QED BY <1>3, <1>4

\* An instruction decoded in a loop is stalled, leaves for a trap, or is executed.
LEMMA InLoopMachine ==
  ASSUME TypeOK, TypeOK', LoopInv, MachineInv, LoopsAdmissible, CsrNotLast,
         ctrl_fsm_cs = "DECODE_HWLOOP", NEW i \in Inputs, instr_valid_id, COREV_PULP,
         debug_mode_q \/ ~trigger_match,
         NEW c, c = SingleStep(i, DecodeInsnInLoop(i)), Clocked(i, c)
  PROVE  MachineInv' /\ Machine!Next
<1> DEFINE d == DecodeInsnInLoop(i)
<1>1. d \in Outputs
  BY DecodeType
<1>2. Geometry
  BY LoopGeometry DEF LoopInv
<1>3. insn \notin {"jump", "branch", "wfi", "fencei", "mret", "dret"}
  <2>1. /\ pc_id \in Nat /\ pc_id \in Addr
        /\ hwlp_start \in [Loop -> Nat] /\ hwlp_end \in [Loop -> Nat]
    BY ControllerAssumption DEF TypeOK
  <2>2. InLoop(pc_id)
    BY DEF LoopInv, FetchInLoop
  <2> QED BY <1>2, <2>1, <2>2 DEF InLoop, Geometry, insn
<1>4. ~branch_taken_ex
  BY DEF LoopInv, BranchInEx, branch_taken_ex
<1>5. /\ d.save = None /\ d.mret = FALSE /\ d.debug_mode = debug_mode_q
      /\ d.debug_req_entry = debug_req_entry_q /\ (d.illegal_insn <=> illegal_insn)
      /\ d.illegal_insn \in BOOLEAN
      /\ illegal_insn => d.ns = "FLUSH_EX" /\ d.halt_id = TRUE
      /\ ~illegal_insn /\ ~Plain =>
           d.ns = IF EnteringEbreak THEN "DBG_FLUSH"
                  ELSE IF id_ready(i) THEN "FLUSH_EX" ELSE "DECODE_HWLOOP"
      /\ ~illegal_insn => d.halt_id = FALSE
  BY InLoopKeeps
<1>6. ~Plain => /\ d.is_decoding = TRUE /\ d.pc_set = None
                /\ d.hwlp_dec_cnt = {} /\ d.halt_if = TRUE
  BY <1>2, DecodeInLoopMoves
<1>7. Plain => /\ d.is_decoding = TRUE /\ d.pc_set = None
               /\ d.hwlp_dec_cnt = {k \in Loop : hwlp_end[k] = pc_id + 1 /\ hwlp_counter[k] # 0}
               /\ d.ns \in {"DECODE", "DECODE_HWLOOP"}
  <2> SUFFICES ASSUME Plain
               PROVE  /\ d.is_decoding = TRUE /\ d.pc_set = None
                      /\ d.hwlp_dec_cnt = {k \in Loop : hwlp_end[k] = pc_id + 1 /\ hwlp_counter[k] # 0}
                      /\ d.ns \in {"DECODE", "DECODE_HWLOOP"}
    OBVIOUS
  <2>1. d = LoopAhead(Decoding)
    BY DEF DecodeInsnInLoop, Plain
  <2> HIDE DEF d
  <2> QED BY <1>2, <2>1, LoopAheadMoves
<1>step. c = SingleStep(i, d)
  OBVIOUS
<1> HIDE DEF d
<1>8. /\ c.pc_set = d.pc_set /\ c.halt_id = d.halt_id
      /\ c.is_decoding = d.is_decoding /\ c.hwlp_dec_cnt = d.hwlp_dec_cnt
  BY <1>1, <1>step, SingleSteps
<1>9. /\ c.save = d.save /\ c.mret = d.mret /\ c.debug_mode = d.debug_mode
      /\ c.debug_req_entry = d.debug_req_entry /\ c.illegal_insn = d.illegal_insn
      /\ ~(step /\ ~debug_mode_q) => c = d
      /\ step /\ ~debug_mode_q => c.halt_if = TRUE /\ c.ns = SteppedTo(i, d.ns)
  BY ZenonT(60), <1>1, <1>step, SingleStepKeeps
<1>10. /\ c.save = None /\ c.mret = FALSE /\ c.debug_mode = debug_mode_q
       /\ c.debug_req_entry = debug_req_entry_q /\ (c.illegal_insn <=> illegal_insn)
       /\ c.illegal_insn \in BOOLEAN
  <2>1. c.illegal_insn = d.illegal_insn
    BY <1>9
  <2>2. (c.illegal_insn <=> illegal_insn) /\ c.illegal_insn \in BOOLEAN
    BY <1>5, <2>1
  <2>3. /\ c.save = None /\ c.mret = FALSE /\ c.debug_mode = debug_mode_q
        /\ c.debug_req_entry = debug_req_entry_q
    BY <1>5, <1>9
  <2> QED BY <2>2, <2>3
<1>11. c.is_decoding = TRUE /\ c.pc_set = None
  BY <1>6, <1>7, <1>8
<1>12. /\ Effective <=> ~illegal_insn /\ insn \notin {"ecall", "ebreak"}
       /\ EnteringEbreak => ~Effective /\ ~illegal_insn
       /\ Plain => Effective
  BY <1>3 DEF Effective, Trapping, EnteringEbreak, Plain, illegal_insn
\* ID is stalled.
<1>13. CASE ~id_ready(i) /\ ~EnteringEbreak /\ ~illegal_insn
  <2>1. ~issue(i, c)
    BY <1>13 DEF issue
  <2>2. c.halt_id = FALSE
    BY <1>5, <1>8, <1>13
  <2>3. ~clear_instr_valid(i, c)
    BY <1>4, <1>13, <2>2 DEF clear_instr_valid
  <2>4. c.ns \in {"DECODE", "DECODE_HWLOOP"}
    <3>1. c.ns = d.ns
      BY <1>9, <1>13 DEF SteppedTo
    <3> QED BY <1>5, <1>7, <1>13, <3>1
  <2>5. NextPc' = NextPc
    BY <1>4, <1>13, <2>1, <2>2, <2>4, NextHeld DEF Fetching
  <2>6. c.illegal_insn = FALSE
    BY <1>10, <1>13
  <2> QED BY <1>10, <1>13, <2>1, <2>3, <2>4, <2>5, <2>6, DecodingWaits DEF Fetching
\* A trap.
<1>14. CASE ~Effective /\ (id_ready(i) \/ EnteringEbreak \/ illegal_insn)
  <2>1. c.halt_if = TRUE /\ c.hwlp_dec_cnt = {}
    BY <1>6, <1>8, <1>9, <1>12, <1>14
  <2>2. c.ns = IF EnteringEbreak THEN "DBG_FLUSH" ELSE "FLUSH_EX"
    <3>1. d.ns = IF EnteringEbreak THEN "DBG_FLUSH" ELSE "FLUSH_EX"
      BY <1>5, <1>12, <1>14
    <3>2. EnteringEbreak <=> insn = "ebreak" /\ (debug_mode_q \/ ebreakm)
      BY DEF EnteringEbreak
    <3>3. illegal_insn \/ insn \in {"ecall", "ebreak"}
      BY <1>12, <1>14
    <3>4. EnteringEbreak => ~illegal_insn
      BY <1>12
    <3> QED BY <1>9, <3>1, <3>2, <3>3, <3>4 DEF SteppedTo
  <2>3. c.ns = IF insn = "ebreak" /\ (debug_mode_q \/ ebreakm) THEN "DBG_FLUSH" ELSE "FLUSH_EX"
    BY <2>2 DEF EnteringEbreak
  <2>4. c.ns = "DBG_FLUSH" \/ id_ready(i) \/ c.halt_id = TRUE
    BY <1>5, <1>8, <1>14, <2>2
  <2> QED BY <1>4, <1>10, <1>11, <1>14, <2>1, <2>3, <2>4, LeavesForTrap
\* The instruction is issued.
<1>15. CASE Effective /\ id_ready(i)
  <2>1. ~illegal_insn /\ insn \notin {"ecall", "ebreak", "mret"} /\ ~EnteringEbreak
    BY <1>3, <1>12, <1>15
  <2>2. c.illegal_insn = FALSE /\ c.halt_id = FALSE
    BY <1>5, <1>8, <1>10, <2>1
  <2>3. issue(i, c)
    BY <1>11, <1>15, <2>2 DEF issue
  <2>4. Plain <=> ~csr_status
    BY <2>1 DEF Plain
  <2>5. d.ns \in {"DECODE", "DECODE_HWLOOP"} \/ (csr_status /\ d.ns = "FLUSH_EX" /\ d.halt_if = TRUE)
    BY <1>5, <1>6, <1>7, <1>15, <2>1, <2>4
  <2>6. csr_status => d.ns = "FLUSH_EX"
    BY <1>5, <1>15, <2>1, <2>4
  <2>7. step /\ ~debug_mode_q => c.halt_if = TRUE /\ c.ns = "DBG_FLUSH"
    BY <1>3, <1>9, <1>15, <2>1 DEF SteppedTo
  <2>8. ~(step /\ ~debug_mode_q) => c = d
    BY <1>9
  <2>9. /\ c.ns \in {"DECODE", "DECODE_HWLOOP", "FLUSH_EX", "DBG_FLUSH", "DBG_WAIT_BRANCH"}
        /\ c.ns \in {"DBG_FLUSH", "DBG_WAIT_BRANCH"} <=> step /\ ~debug_mode_q
        /\ c.ns \in {"FLUSH_EX", "DBG_FLUSH", "DBG_WAIT_BRANCH"} => c.halt_if = TRUE
        /\ csr_status => c.ns \in {"FLUSH_EX", "DBG_FLUSH"}
        /\ c.ns = "FLUSH_EX" => csr_status
    BY <2>5, <2>6, <2>7, <2>8
  <2>10. pc_if = Machine!Following(pc_id)
    BY InLoopFollowing
  <2>11. csr_status => /\ \A k \in Loop : hwlp_end[k] # pc_id + 1
                       /\ Machine!Following(pc_id) = pc_id + 1
    BY EndsNoLoop
  <2>12. c.ns = "FLUSH_EX" => /\ insn \in {"wfi", "fencei"} \/ csr_status
                              /\ insn = "wfi" => ~debug_mode_q
                              /\ c.pc_set = None /\ pc_if = pc_id + 1
    BY <1>3, <1>11, <2>9, <2>10, <2>11
  <2>13. c.hwlp_dec_cnt = {k \in Loop : hwlp_end[k] = pc_id + 1 /\ hwlp_counter[k] # 0}
    <3>1. CASE csr_status
      BY <1>6, <1>8, <2>4, <2>11, <3>1
    <3>2. CASE ~csr_status
      BY <1>7, <1>8, <2>4, <3>2
    <3> QED BY <3>1, <3>2
  <2>14. (IF c.pc_set # None THEN c.pc_set ELSE pc_if)
           = IF insn = "jump" THEN Program[pc_id].target ELSE Machine!Following(pc_id)
    BY <1>3, <1>11, <2>10
  <2> QED BY <1>4, <1>10, <1>15, <2>2, <2>3, <2>9, <2>12, <2>13, <2>14, IssuedMachine
<1> QED BY <1>12, <1>13, <1>14, <1>15

\* DECODE_HWLOOP: a debug request, an interrupt or an instruction.
LEMMA DecodeHwloopMachine ==
  ASSUME TypeOK, TypeOK', LoopInv, MachineInv, LoopsAdmissible, CsrNotLast,
         ctrl_fsm_cs = "DECODE_HWLOOP", NEW i \in Inputs,
         NEW c, c = Controls(i, fetch_enable_q, boot), Clocked(i, c), DebugRequestCycle(i)
  PROVE  MachineInv' /\ Machine!Next
<1>1. c = DecodeHwloop(i) /\ ctrl_fsm_cs \in Fetching
  BY DEF Controls, Fetching
<1>2. illegal_insn_q = FALSE
  BY DEF MachineInv, IllegalKept, TypeOK
<1>3. COREV_PULP
  <2>1. Geometry
    BY LoopGeometry DEF LoopInv
  <2>2. /\ hwlp_start \in [Loop -> Nat] /\ hwlp_end \in [Loop -> Nat]
        /\ hwlp_counter \in [Loop -> Nat] /\ pc_id \in Nat /\ pc_if \in Nat
    BY ControllerAssumption DEF TypeOK
  <2> QED BY <2>1, <2>2 DEF LoopInv, FetchInLoop, InLoop, Geometry
<1>4. ~branch_taken_ex
  BY DEF LoopInv, BranchInEx, branch_taken_ex
<1>5. CASE ~instr_valid_id
  <2>1. c = Default
    BY <1>1, <1>5 DEF DecodeHwloop
  <2>2. /\ c.save = None /\ c.mret = FALSE /\ c.debug_mode = debug_mode_q
        /\ c.debug_req_entry = debug_req_entry_q /\ c.ns = "DECODE_HWLOOP" /\ c.halt_id = FALSE
        /\ c.pc_set = None /\ c.is_decoding = FALSE /\ c.hwlp_dec_cnt = {}
        /\ c.illegal_insn = FALSE
    BY <1>2, <2>1 DEF Default
  <2>3. ~issue(i, c)
    BY <2>2 DEF issue
  <2>4. NextPc' = NextPc
    BY <1>1, <1>4, <1>5, <2>2, <2>3, NextHeld
  <2> QED BY <1>1, <2>2, <2>3, <2>4, DecodingWaits
<1>6. CASE instr_valid_id /\ (debug_req_pending(i) \/ trigger_match) /\ ~debug_mode_q
  <2>1. c = DebugRequest
    BY <1>1, <1>3, <1>6 DEF DecodeHwloop
  <2>2. /\ c.save = None /\ c.mret = FALSE /\ c.debug_mode = debug_mode_q
        /\ c.debug_req_entry = TRUE /\ c.ns = "DBG_FLUSH" /\ c.pc_set = None
        /\ c.halt_id = TRUE /\ c.halt_if = TRUE /\ c.hwlp_dec_cnt = {} /\ c.illegal_insn = FALSE
        /\ ~c.is_decoding
    BY ZenonT(60), <1>2, <1>3, <2>1 DEF DebugRequest, Halted, Default
  <2> QED BY <1>4, <1>6, <2>2, RequestsDebug
<1>7. CASE /\ instr_valid_id /\ ~((debug_req_pending(i) \/ trigger_match) /\ ~debug_mode_q)
           /\ irq_req_ctrl /\ ~debug_mode_q
  <2>1. c = [TakeIrq(pc_id) EXCEPT !.ns = "DECODE"]
    BY <1>1, <1>3, <1>7 DEF DecodeHwloop
  <2>2. /\ c.save = pc_id /\ c.to = "machine" /\ c.mret = FALSE /\ c.debug_mode = debug_mode_q
        /\ c.debug_req_entry = debug_req_entry_q /\ c.ns = "DECODE" /\ c.pc_set = IrqHandler
        /\ c.halt_id = TRUE /\ c.is_decoding = FALSE /\ c.hwlp_dec_cnt = {}
        /\ c.illegal_insn = FALSE
    BY <1>2, <2>1 DEF TakeIrq, Halted, Default
  <2>3. NextPc = pc_id /\ pc_id # None
    BY <1>4, <1>7, ControllerAssumption DEF NextPc, TypeOK
  <2> QED BY <1>1, <1>7, <2>2, <2>3, TakesInterrupt
<1>8. CASE /\ instr_valid_id /\ ~((debug_req_pending(i) \/ trigger_match) /\ ~debug_mode_q)
           /\ ~(irq_req_ctrl /\ ~debug_mode_q)
  <2>1. c = SingleStep(i, DecodeInsnInLoop(i))
    BY <1>1, <1>3, <1>8 DEF DecodeHwloop
  <2> QED BY <1>3, <1>8, <2>1, InLoopMachine
<1> QED BY <1>5, <1>6, <1>7, <1>8

\* After reset the machine is about to execute the instruction at the boot address.
LEMMA InitMachine ==
  ASSUME Init
  PROVE  MachineInv /\ Machine!Init
<1>1. /\ ctrl_fsm_cs = "RESET" /\ ex = NoInsn /\ ~illegal_insn_q /\ ~debug_mode_q
      /\ ~debug_req_entry_q /\ ~stepped
  BY DEF Init, ControllerInit
<1>2. MachineInv
  BY <1>1 DEF MachineInv, IllegalKept, Flushing, Returning, ExEmpty, Awake, EnteringDebug,
              Stepping, CsrWrites, csr_in_ex, Writes, NoInsn
<1>3. NextPc = boot /\ boot \in boot_addr
  BY <1>1 DEF NextPc, Init
<1>4. /\ Mie = FALSE /\ Mepc = 0 /\ Step = FALSE /\ Trigger = FALSE
  BY <1>1 DEF Mie, Mepc, Step, Trigger, Writes, NoInsn, Init
<1>5. Machine!Init
  BY <1>3, <1>4 DEF Machine!Init, Machine!Loop, Loop, Init, ControllerInit, HwloopInit
<1> QED BY <1>2, <1>5

\* A clocked cycle, in whatever state of the controller, is a step of the machine.
LEMMA CycleMachine ==
  ASSUME TypeOK, TypeOK', LoopInv, MachineInv, LoopsAdmissible, CsrNotLast,
         NEW i \in Inputs, Cycle(i), clock_en(wake_from_sleep(i))
  PROVE  /\ MachineInv'
         /\ NoTriggerWrite => Machine!Next
<1> DEFINE c == Controls(i, fetch_enable_q, boot)
<1>1. Clocked(i, c) /\ DebugRequestCycle(i) /\ boot' = boot
  BY DEF Cycle
<1> HIDE DEF c
<1>2. c = Controls(i, fetch_enable_q, boot)
  BY DEF c
<1>3. CASE ctrl_fsm_cs \in Idle
  BY <1>1, <1>2, <1>3, IdleMachine
<1>4. CASE ctrl_fsm_cs = "FIRST_FETCH"
  BY <1>1, <1>2, <1>4, FirstFetchMachine
<1>5. CASE ctrl_fsm_cs = "DECODE"
  BY <1>1, <1>2, <1>5, DecodeMachine
<1>6. CASE ctrl_fsm_cs = "DECODE_HWLOOP"
  BY <1>1, <1>2, <1>6, DecodeHwloopMachine
<1>7. CASE ctrl_fsm_cs = "FLUSH_EX"
  BY <1>1, <1>2, <1>7, FlushExMachine
<1>8. CASE ctrl_fsm_cs = "FLUSH_WB"
  BY <1>1, <1>2, <1>8, FlushWbMachine
<1>9. CASE ctrl_fsm_cs = "XRET_JUMP"
  BY <1>1, <1>2, <1>9, XretJumpMachine
<1>10. CASE ctrl_fsm_cs = "DBG_WAIT_BRANCH"
  BY <1>1, <1>2, <1>10, DbgWaitBranchMachine
<1>11. CASE ctrl_fsm_cs = "DBG_FLUSH"
  BY <1>1, <1>2, <1>11, DbgFlushMachine
<1>12. CASE ctrl_fsm_cs \in {"DBG_TAKEN_ID", "DBG_TAKEN_IF"}
  BY <1>1, <1>2, <1>12, DbgTakenMachine
<1> QED BY <1>3, <1>4, <1>5, <1>6, <1>7, <1>8, <1>9, <1>10, <1>11, <1>12
        DEF TypeOK, States, Idle

\* While the clock is stopped the machine waits; a debug request is kept.
LEMMA StoppedMachine ==
  ASSUME TypeOK, TypeOK', MachineInv, UNCHANGED ClockedVars, boot' = boot,
         debug_req_q /\ ~debug_mode_q => debug_req_q'
  PROVE  MachineInv' /\ Machine!Next
<1>1. /\ UNCHANGED <<ctrl_fsm_cs, debug_mode_q, illegal_insn_q, debug_req_entry_q>>
      /\ UNCHANGED <<pc_if, pc_id, instr_valid_id, ex, executed, stepped>>
      /\ UNCHANGED <<mie, mpie, mepc, dpc, step, tmatch_control_exec_q>>
      /\ UNCHANGED <<hwlp_start, hwlp_end, hwlp_counter>>
  BY DEF ClockedVars, controllerVars, pipelineVars, csrVars, hwlpVars, ghostVars
<1>2. /\ illegal_insn' = illegal_insn /\ trigger_match' = trigger_match
      /\ insn' = insn /\ csr_status' = csr_status /\ csr_in_ex' = csr_in_ex
      /\ branch_in_ex' = branch_in_ex /\ branch_taken_ex' = branch_taken_ex
      /\ \A w : Writes(w)' = Writes(w)
  BY <1>1 DEF illegal_insn, trigger_match, insn, csr_status, csr_in_ex, branch_in_ex,
              branch_taken_ex, Writes
<1>3. MachineInv'
  <2>1. IllegalKept' /\ Flushing' /\ Returning' /\ ExEmpty' /\ Awake'
    BY <1>1, <1>2 DEF MachineInv, IllegalKept, Flushing, Returning, ExEmpty, Awake, Trapping
  <2>2. EnteringDebug'
    BY <1>1, <1>2 DEF MachineInv, EnteringDebug, Awake, TypeOK
  <2>3. Stepping' /\ CsrWrites'
    BY <1>1, <1>2 DEF MachineInv, Stepping, CsrWrites, Trapping
  <2> QED BY <2>1, <2>2, <2>3 DEF MachineInv
<1>4. NextPc' = NextPc
  BY <1>1, <1>2 DEF NextPc, handler, ebrk_force_debug_mode
<1>5. Mie' = Mie /\ Mepc' = Mepc /\ Step' = Step /\ Trigger' = Trigger
  BY <1>1, <1>2 DEF Mie, Mepc, Step, Trigger
<1>6. irq_q' \in BOOLEAN /\ debug_req_q' \in BOOLEAN
  BY DEF TypeOK
<1>7. Machine!Wait
  BY <1>1, <1>4, <1>5 DEF Machine!Wait
<1> QED BY <1>3, <1>6, <1>7 DEF Machine!Next

\* Every step of the core is a step of the machine or stutters.
LEMMA StepMachine ==
  ASSUME TypeOK, TypeOK', LoopInv, MachineInv, LoopsAdmissible, CsrNotLast,
         [Next]_vars
  PROVE  /\ MachineInv'
         /\ NoTriggerWrite => [Machine!Next]_(Machine!vars)
<1>1. ASSUME NEW i \in Inputs, Cycle(i)
      PROVE  /\ MachineInv'
             /\ NoTriggerWrite => Machine!Next
  <2>1. CASE clock_en(wake_from_sleep(i))
    BY <1>1, <2>1, CycleMachine
  <2>2. CASE ~clock_en(wake_from_sleep(i))
    <3>1. UNCHANGED ClockedVars /\ boot' = boot
      BY <1>1, <2>2 DEF Cycle
    <3>2. debug_req_q /\ ~debug_mode_q => debug_req_q'
      BY <1>1 DEF Cycle, DebugRequestCycle, TypeOK
    <3> QED BY <3>1, <3>2, StoppedMachine
  <2> QED BY <2>1, <2>2
<1>2. CASE UNCHANGED vars
  <2>1. UNCHANGED ClockedVars /\ boot' = boot /\ debug_req_q' = debug_req_q
        /\ irq_q' = irq_q
    BY <1>2 DEF vars, ClockedVars, csrVars
  <2> QED BY <2>1, StoppedMachine
<1> QED BY <1>1, <1>2 DEF Next

\* Why a flush, a step, a debug entry or a sleep is under way is still known when it ends,
\* and a CSR is written before anything reads it: flags and states of the controller agree
\* with the instruction in ID and with EX (cv32e40p_controller), in every program that keeps
\* the constraints on hardware loops and whose execution stays in its memory.
THEOREM MachineInvariant ==
  ASSUME LoopsAdmissible, CsrNotLast
  PROVE  Spec /\ []TypeOK => []MachineInv
<1>1. Init => MachineInv
  BY InitMachine
<1>2. TypeOK /\ TypeOK' /\ LoopInv /\ MachineInv /\ [Next]_vars => MachineInv'
  BY StepMachine
<1> QED BY <1>1, <1>2, LoopsInvariant, PTL DEF Spec

\* Stalls, flushes, interrupts, debug requests, steps and loop jumps never make the core skip
\* or repeat an instruction, count a loop wrongly or save a wrong return address: it does
\* what the sequential machine may do.  In every program whose loops keep the documented
\* constraints and do not end with a CSR access that flushes (LastInstructionCounts), while
\* execution stays in its memory and no write of the program to tdata1 is under way when
\* debug mode is entered (TriggerWritesIgnored).
THEOREM CoreImplementsMachine ==
  ASSUME LoopsAdmissible, CsrNotLast
  PROVE  Spec /\ []TypeOK /\ []NoTriggerWrite => ImplementsMachine
<1>1. Init => Machine!Init
  BY InitMachine
<1>2. TypeOK /\ TypeOK' /\ LoopInv /\ NoTriggerWrite /\ MachineInv /\ [Next]_vars
        => [Machine!Next]_(Machine!vars)
  BY StepMachine
<1> QED BY <1>1, <1>2, LoopsInvariant, MachineInvariant, PTL
        DEF Spec, ImplementsMachine, Machine!Spec

\* The same from assumptions on the program alone: without writes to tdata1, in a memory in
\* which each address has a successor (TypeCorrect).
THEOREM ImplementsMachineInEndlessMemory ==
  ASSUME LoopsAdmissible, CsrNotLast, \A a \in Addr : a + 1 \in Addr,
         \A a \in Addr : Op(a) # "tdata1"
  PROVE  Spec => ImplementsMachine
<1>1. TypeOK => NoTriggerWrite
  BY DEF TypeOK, Value, NoTriggerWrite, Writes
<1> QED BY <1>1, CoreImplementsMachine, TypeCorrect, PTL
=============================================================================
