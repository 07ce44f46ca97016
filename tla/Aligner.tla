------------------------------- MODULE Aligner -------------------------------
(***************************************************************************)
(* cv32e40p_aligner as a function of its registers s and inputs i: cuts the*)
(* fetched words into instructions of one or two half words.               *)
(*                                                                         *)
(* Addresses are in half words.  A half word of the program stands for its *)
(* content, of which the aligner looks at one thing: whether its low two   *)
(* bits are 11, so that a 32-bit instruction starts there (wide).          *)
(***************************************************************************)
EXTENDS Integers

CONSTANT WORDS  \* number of words of the address space

VARIABLE wide   \* instruction memory: the half words that start 32-bit instructions

Half == 0 .. 2 * WORDS - 1

AlignerState ==
  [state : {"ALIGNED32", "MISALIGNED32", "MISALIGNED16", "BRANCH_MISALIGNED",
            "WAIT_VALID_BRANCH"},
   r_instr_h : Half, hwlp_addr_q : Half, pc_q : Half,
   aligner_ready_q : BOOLEAN, hwlp_update_pc_q : BOOLEAN]

AlignerReset ==
  [state |-> "ALIGNED32", r_instr_h |-> 0, hwlp_addr_q |-> 0, pc_q |-> 0,
   aligner_ready_q |-> FALSE, hwlp_update_pc_q |-> FALSE]

lower(i) == 2 * i.fetch_rdata
upper(i) == 2 * i.fetch_rdata + 1

\* Mutant: the address does not wrap.
pc_plus_wider(s, n) == s.pc_q + n

pc_plus(s, n) == (s.pc_q + n) % (2 * WORDS)

\* The first half word of the instruction, and whether it has a second one.
first(s, i) ==
  IF s.state = "MISALIGNED32" THEN s.r_instr_h
  ELSE IF s.state = "BRANCH_MISALIGNED" THEN upper(i)
  ELSE lower(i)

is_wide(s, i) == first(s, i) \in wide

\* A 16-bit instruction that leaves the fetched word for the next one.
holds_word(s, i) == s.state = "MISALIGNED32" /\ ~is_wide(s, i)

\* A jump to the second half of a word that starts a 32-bit instruction.
half_only(s, i) == s.state = "BRANCH_MISALIGNED" /\ is_wide(s, i)

instr_aligned_o(s, i) ==
  IF s.state = "MISALIGNED32"
    THEN <<s.r_instr_h, IF is_wide(s, i) THEN lower(i) ELSE upper(i)>>
  ELSE IF s.state = "BRANCH_MISALIGNED" /\ ~is_wide(s, i) THEN <<upper(i), upper(i)>>
  ELSE <<lower(i), upper(i)>>

instr_valid_o(s, i) ==
  \/ holds_word(s, i)
  \/ s.state = "MISALIGNED16" /\ ~s.aligner_ready_q
  \/ ~half_only(s, i) /\ i.fetch_valid

\* Mutant: the fetched word is consumed although it is still needed.
aligner_ready_always(s, i) == TRUE

aligner_ready_o(s, i) == ~(holds_word(s, i) /\ i.fetch_valid)

update_state(s, i) ==
  \/ i.branch
  \/ /\ i.if_valid
     /\ s.state # "WAIT_VALID_BRANCH"
     /\ instr_valid_o(s, i) \/ i.fetch_valid

pc_n(s, i) ==
  IF i.branch THEN i.branch_addr
  ELSE IF s.state = "WAIT_VALID_BRANCH" \/ half_only(s, i) THEN s.pc_q
  ELSE IF s.state = "ALIGNED32" /\ is_wide(s, i) /\ i.hwlp_update_pc THEN i.hwlp_addr
  ELSE IF s.state = "ALIGNED32" /\ is_wide(s, i) /\ s.hwlp_update_pc_q THEN s.hwlp_addr_q
  ELSE pc_plus(s, IF is_wide(s, i) THEN 2 ELSE 1)

next_state(s, i) ==
  IF i.branch THEN IF i.branch_addr % 2 = 1 THEN "BRANCH_MISALIGNED" ELSE "ALIGNED32"
  ELSE IF s.state = "ALIGNED32"
    THEN IF is_wide(s, i) THEN "ALIGNED32" ELSE "MISALIGNED32"
  ELSE IF s.state = "MISALIGNED32"
    THEN IF is_wide(s, i) THEN "MISALIGNED32" ELSE "MISALIGNED16"
  ELSE IF s.state = "MISALIGNED16"
    THEN IF is_wide(s, i) THEN "ALIGNED32" ELSE "MISALIGNED32"
  ELSE IF s.state = "BRANCH_MISALIGNED"
    THEN IF is_wide(s, i) THEN "MISALIGNED32" ELSE "ALIGNED32"
  ELSE s.state

\* Mutant: a branch does not cancel a pending loop jump.
AlignerCycleKeepsJump(s, i) ==
  IF update_state(s, i)
    THEN [state |-> next_state(s, i), r_instr_h |-> upper(i),
          hwlp_addr_q |-> s.hwlp_addr_q, pc_q |-> pc_n(s, i),
          aligner_ready_q |-> aligner_ready_o(s, i),
          hwlp_update_pc_q |-> i.branch /\ s.hwlp_update_pc_q]
  ELSE IF i.hwlp_update_pc
    THEN [s EXCEPT !.hwlp_addr_q = i.hwlp_addr, !.hwlp_update_pc_q = TRUE]
  ELSE s

AlignerCycle(s, i) ==
  IF update_state(s, i)
    THEN [state |-> next_state(s, i), r_instr_h |-> upper(i),
          hwlp_addr_q |-> s.hwlp_addr_q, pc_q |-> pc_n(s, i),
          aligner_ready_q |-> aligner_ready_o(s, i), hwlp_update_pc_q |-> FALSE]
  ELSE IF i.hwlp_update_pc
    THEN [s EXCEPT !.hwlp_addr_q = i.hwlp_addr, !.hwlp_update_pc_q = TRUE]
  ELSE s
=============================================================================
