------------------------------ MODULE Execute ------------------------------
(***************************************************************************)
(* The execution stage running any sequence of instructions of Insn, on a  *)
(* data memory and an FPU that take the time they like, and what programs  *)
(* rely on.                                                                *)
(***************************************************************************)
EXTENDS ExecuteStage

Spec == Init /\ [][Next]_vars

Value == [rd : Dest, cur : BOOLEAN]

TypeOK ==
  /\ addr_inflight \in Dest /\ addr_waiting \in Dest /\ apu_lat \in 0 .. 3
  /\ id \in [insn : Insn \cup {Bubble}, valid : BOOLEAN]
  /\ id.valid => id.insn # Bubble
  /\ jump_done_q \in BOOLEAN
  /\ ex \in InsnOf
  /\ regfile_waddr_ex \in Reg \cup {x0}
  /\ data_misaligned_ex \in BOOLEAN
  /\ mulh_CS \in {"IDLE_MULT", "STEP0", "STEP1", "STEP2", "FINISH"}
  /\ div_CS \in {"IDLE", "DIVIDE", "FINISH"}
  /\ cnt_q \in 0 .. 2
  /\ wb \in Value
  /\ fpu \in Seq([rd : Dest, cur : BOOLEAN, lat : Lat])
  /\ apu_rvalid_q \in BOOLEAN /\ apu_result_q \in Value
  /\ rf \in [Reg -> BOOLEAN]

\* An instruction leaves ID with the values the instructions before it
\* computed, whether they come from the register file or are forwarded from EX,
\* WB or the FPU, whatever the latencies.
OperandsCurrent ==
  \A i \in Input : issues(i) =>
    \A r \in id.insn.rs : operand_fw_current(i, r)

\* A jalr jumps to the address in the current value of its register, although
\* it reads the register file without forwarding.
JumpTargetCurrent ==
  \A i \in Input : jumps(i) => \A r \in id.insn.rs : rf[r]

\* EX hands a load or store over to WB exactly when it is done with it, although
\* ex_valid_o and ex_ready_o depend on different conditions.
AccessLeavesOnce ==
  \A i \in Input : data_req_ex => (ex_valid(i) <=> ex_ready(i))

\* The second transaction of an access and the steps of a MULH take what the ALU
\* write port carries for an intermediate result of EX itself.
FeedbackIsOwn ==
  \A i \in Input :
    ((data_misaligned /\ ex_ready(i)) \/ mult_multicycle) =>
      ~apu_on_alu_port(i)

-----------------------------------------------------------------------------
(* Liveness.  The data memory grants and answers, the FPU accepts and      *)
(* answers, and the divider ends: none of them waits for the core.         *)

FairSpec ==
  /\ Spec
  /\ WF_vars(\E i \in Input : ~i.flush /\ Cycle(i))
  /\ WF_vars(\E i \in Input : i.gnt /\ Cycle(i))
  /\ WF_vars(\E i \in Input : i.resp /\ Cycle(i))
  /\ WF_vars(\E i \in Input : (i.fpu \/ i.div) /\ Cycle(i))

\* An instruction does not stay in ID for ever: the result it waits for, also one
\* that was memorised because the write port was busy, is written at last.
InstructionsIssue ==
  []<>(~id.valid) \/ []<><<\E i \in Input : issues(i) /\ Cycle(i)>>_vars
=============================================================================
