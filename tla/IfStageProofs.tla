---------------------------- MODULE IfStageProofs ----------------------------
(***************************************************************************)
(* The replicas of the aligner that no upset hit since the last branch     *)
(* agree on every register that an output can depend on, for every program *)
(* and every sequence of upsets that keeps to one replica between branches.*)
(* So ID gets what InstructionStream promises, whatever the upsets do.     *)
(***************************************************************************)
EXTENDS IfStage, TLAPS

\* The inputs of a clock cycle, and those of a branch and of every other cycle.
Input ==
  [fetch_valid : BOOLEAN, fetch_rdata : 0 .. WORDS - 1, if_valid : BOOLEAN,
   branch : BOOLEAN, branch_addr : Half, hwlp_update_pc : BOOLEAN, hwlp_addr : Half]

\* Two aligners in the same state; the saved target counts while a jump is pending.
Agree(s, t) ==
  /\ s.state = t.state /\ s.r_instr_h = t.r_instr_h /\ s.pc_q = t.pc_q
  /\ s.aligner_ready_q = t.aligner_ready_q
  /\ s.hwlp_update_pc_q = t.hwlp_update_pc_q
  /\ s.hwlp_update_pc_q => s.hwlp_addr_q = t.hwlp_addr_q

OneUpset == \E r \in Replica : upset \subseteq {r}

HealthyAgree == \A r, t \in Replica \ upset : Agree(al[r], al[t])

Inv == TypeOK /\ OneUpset /\ HealthyAgree

-----------------------------------------------------------------------------
\* The address arithmetic wraps inside the address space.
LEMMA WrapInHalf ==
  ASSUME NEW a \in Nat
  PROVE  a % (2 * WORDS) \in Half
<1> DEFINE n == 2 * WORDS
<1>1. n \in Nat /\ n > 0
  BY IfStageAssumption
<1> HIDE DEF n
<1>2. a % n \in 0 .. n - 1
  BY <1>1
<1> QED BY <1>2 DEF n, Half

\* The half words of a fetched word are half words of the address space.
LEMMA FetchedHalves ==
  ASSUME NEW i \in Input
  PROVE  lower(i) \in Half /\ upper(i) \in Half
<1>1. WORDS \in Nat /\ i.fetch_rdata \in 0 .. WORDS - 1
  BY IfStageAssumption DEF Input
<1> QED BY <1>1 DEF lower, upper, Half

\* The PC of an aligner stays in the address space.
LEMMA NextPcType ==
  ASSUME NEW s \in AlignerState, NEW i \in Input
  PROVE  pc_n(s, i) \in Half
<1>1. s.pc_q \in Half /\ s.hwlp_addr_q \in Half /\ i.branch_addr \in Half /\ i.hwlp_addr \in Half
  BY DEF AlignerState, Input
<1>2. \A n \in {1, 2} : pc_plus(s, n) \in Half
  <2>1. \A n \in {1, 2} : s.pc_q + n \in Nat
    BY <1>1 DEF Half
  <2> QED BY <2>1, WrapInHalf DEF pc_plus
<1> QED BY <1>1, <1>2 DEF pc_n

\* The outputs and the next registers of an aligner keep their types, whatever
\* its registers hold.
LEMMA AlignerTypes ==
  ASSUME NEW s \in AlignerState, NEW i \in Input
  PROVE  /\ instr_aligned_o(s, i) \in Half \X Half
         /\ aligner_ready_o(s, i) \in BOOLEAN
         /\ AlignerCycle(s, i) \in AlignerState
<1>1. lower(i) \in Half /\ upper(i) \in Half /\ s.r_instr_h \in Half
  BY FetchedHalves DEF AlignerState
<1>2. instr_aligned_o(s, i) \in Half \X Half
  BY <1>1 DEF instr_aligned_o
<1>3. aligner_ready_o(s, i) \in BOOLEAN
  BY DEF aligner_ready_o
<1>4. next_state(s, i) \in {"ALIGNED32", "MISALIGNED32", "MISALIGNED16",
                            "BRANCH_MISALIGNED", "WAIT_VALID_BRANCH"}
  BY DEF next_state, AlignerState
<1>5. AlignerCycle(s, i) \in AlignerState
  <2>1. CASE update_state(s, i)
    BY <1>1, <1>3, <1>4, <2>1, NextPcType DEF AlignerCycle, AlignerState
  <2>2. CASE ~update_state(s, i) /\ i.hwlp_update_pc
    BY <2>2 DEF AlignerCycle, AlignerState, Input
  <2>3. CASE ~update_state(s, i) /\ ~i.hwlp_update_pc
    BY <2>3 DEF AlignerCycle
  <2> QED BY <2>1, <2>2, <2>3
<1> QED BY <1>2, <1>3, <1>5

-----------------------------------------------------------------------------
\* Aligners that agree have the same outputs.
LEMMA AgreeOutputs ==
  ASSUME NEW s, NEW t, Agree(s, t), NEW i
  PROVE  /\ aligner_ready_o(s, i) = aligner_ready_o(t, i)
         /\ instr_valid_o(s, i) = instr_valid_o(t, i)
         /\ instr_aligned_o(s, i) = instr_aligned_o(t, i)
         /\ s.pc_q = t.pc_q
<1>1. /\ s.state = t.state /\ s.r_instr_h = t.r_instr_h
      /\ s.aligner_ready_q = t.aligner_ready_q /\ s.pc_q = t.pc_q
  BY DEF Agree
<1>2. is_wide(s, i) <=> is_wide(t, i)
  BY <1>1 DEF is_wide, first
<1> QED BY <1>1, <1>2 DEF aligner_ready_o, instr_valid_o, instr_aligned_o, holds_word, half_only

\* Aligners that agree still agree after a cycle.
LEMMA AgreeStep ==
  ASSUME NEW s \in AlignerState, NEW t \in AlignerState, Agree(s, t), NEW i \in Input
  PROVE  Agree(AlignerCycle(s, i), AlignerCycle(t, i))
<1>1. /\ s.state = t.state /\ s.r_instr_h = t.r_instr_h
      /\ s.aligner_ready_q = t.aligner_ready_q /\ s.pc_q = t.pc_q
      /\ s.hwlp_update_pc_q = t.hwlp_update_pc_q
      /\ s.hwlp_update_pc_q => s.hwlp_addr_q = t.hwlp_addr_q
  BY DEF Agree
<1>2. is_wide(s, i) <=> is_wide(t, i)
  BY <1>1 DEF is_wide, first
<1>3. update_state(s, i) <=> update_state(t, i)
  BY <1>1, AgreeOutputs DEF update_state
<1>4. next_state(s, i) = next_state(t, i)
  BY <1>1, <1>2 DEF next_state
<1>5. pc_n(s, i) = pc_n(t, i)
  BY <1>1, <1>2 DEF pc_n, half_only, pc_plus
<1>6. CASE update_state(s, i)
  BY <1>3, <1>4, <1>5, <1>6, AgreeOutputs DEF AlignerCycle, Agree
<1>7. CASE ~update_state(s, i) /\ i.hwlp_update_pc
  BY <1>1, <1>3, <1>7 DEF AlignerCycle, Agree, AlignerState
<1>8. CASE ~update_state(s, i) /\ ~i.hwlp_update_pc
  BY <1>3, <1>8 DEF AlignerCycle, Agree
<1> QED BY <1>6, <1>7, <1>8

\* A branch makes any two aligners agree: it overwrites every register that
\* matters, the saved half word and aligner_ready_q included, from the inputs.
LEMMA BranchAgrees ==
  ASSUME NEW s, NEW t, NEW i \in Input, i.branch, ~i.fetch_valid
  PROVE  Agree(AlignerCycle(s, i), AlignerCycle(t, i))
<1>1. update_state(s, i) /\ update_state(t, i)
  BY DEF update_state
<1>2. aligner_ready_o(s, i) = TRUE /\ aligner_ready_o(t, i) = TRUE
  BY DEF aligner_ready_o
<1>3. next_state(s, i) = next_state(t, i) /\ pc_n(s, i) = pc_n(t, i)
  BY DEF next_state, pc_n
<1> QED BY <1>1, <1>2, <1>3 DEF AlignerCycle, Agree

-----------------------------------------------------------------------------
\* When all inputs of a voter but one are equal, it passes that value on and
\* reports no other input than that one.
LEMMA VoterMasks ==
  ASSUME NEW d, NEW u, NEW x \in Replica, u \subseteq {x},
         \A r, t \in Replica \ u : d[r] = d[t]
  PROVE  /\ error_detected_input(d) \subseteq u
         /\ \A r \in Replica \ u : dataout_o(d) = d[r]
<1>1. \A r, t \in Replica \ {x} : d[r] = d[t]
  OBVIOUS
<1>2. u = {} \/ u = {x}
  OBVIOUS
<1> QED BY <1>1, <1>2 DEF error_detected_input, dataout_o, Replica

\* A voter's output is one of its inputs.
LEMMA VoterChooses ==
  ASSUME NEW S, NEW d \in [Replica -> S]
  PROVE  dataout_o(d) \in S
BY DEF dataout_o, Replica

\* The inputs that the properties range over are inputs of a cycle.
LEMMA InputsType ==
  ASSUME TypeOK
  PROVE  \A i \in Inputs : i \in Input /\ ~i.branch /\ ~i.hwlp_update_pc
<1>1. 0 \in Half
  BY IfStageAssumption DEF Half
<1>2. ASSUME NEW f \in Fetches
      PROVE  f.fetch_valid \in BOOLEAN /\ f.fetch_rdata \in 0 .. WORDS - 1
  <2>1. CASE f = [fetch_valid |-> TRUE, fetch_rdata |-> next]
    BY <2>1 DEF TypeOK
  <2>2. CASE f \in [fetch_valid : {FALSE}, fetch_rdata : 0 .. WORDS - 1]
    BY <2>2
  <2> QED BY <2>1, <2>2 DEF Fetches
<1>3. ASSUME NEW i \in Inputs
      PROVE  i \in Input /\ ~i.branch /\ ~i.hwlp_update_pc
  <2>1. PICK f \in Fetches, ready \in BOOLEAN :
          i = [fetch_valid |-> f.fetch_valid, fetch_rdata |-> f.fetch_rdata,
               if_valid |-> f.fetch_valid /\ ready, branch |-> FALSE, branch_addr |-> 0,
               hwlp_update_pc |-> FALSE, hwlp_addr |-> 0]
    BY DEF Inputs
  <2>2. f.fetch_valid \in BOOLEAN /\ f.fetch_rdata \in 0 .. WORDS - 1
    BY <1>2
  <2>3. (f.fetch_valid /\ ready) \in BOOLEAN
    OBVIOUS
  <2> QED BY <1>1, <2>1, <2>2, <2>3 DEF Input
<1> QED BY <1>3

\* Every clock cycle of the specification has a well-typed input, and with a
\* branch no fetched word.
LEMMA CycleInput ==
  ASSUME TypeOK, Run \/ Branch \/ HwlpJump
  PROVE  \E i \in Input : Cycle(i) /\ (i.branch => ~i.fetch_valid)
<1>1. CASE Run
  BY <1>1, InputsType DEF Run
<1>2. CASE Branch
  <2>1. PICK i \in Inputs, target \in Half :
          ~i.fetch_valid /\ Cycle([i EXCEPT !.branch = TRUE, !.branch_addr = target])
    BY <1>2 DEF Branch
  <2> DEFINE j == [i EXCEPT !.branch = TRUE, !.branch_addr = target]
  <2>2. i \in Input
    BY InputsType
  <2>3. j \in Input /\ ~j.fetch_valid
    BY <2>1, <2>2 DEF Input
  <2> QED BY <2>1, <2>3
<1>3. CASE HwlpJump
  <2>1. PICK i \in Inputs, target \in 0 .. WORDS - 1 :
          Cycle([i EXCEPT !.hwlp_update_pc = TRUE, !.hwlp_addr = 2 * target])
    BY <1>3 DEF HwlpJump
  <2> DEFINE j == [i EXCEPT !.hwlp_update_pc = TRUE, !.hwlp_addr = 2 * target]
  <2>2. i \in Input /\ ~i.branch
    BY InputsType
  <2>3. 2 * target \in Half
    BY IfStageAssumption DEF Half
  <2>4. j \in Input /\ ~j.branch
    BY <2>2, <2>3 DEF Input
  <2> QED BY <2>1, <2>4
<1> QED BY <1>1, <1>2, <1>3

-----------------------------------------------------------------------------
\* A clock cycle keeps the types.
LEMMA CycleTypes ==
  ASSUME TypeOK, NEW i \in Input, Cycle(i)
  PROVE  TypeOK'
<1>1. \A r \in Replica : al[r] \in AlignerState
  BY DEF TypeOK
<1>2. al' \in [Replica -> AlignerState]
  <2>1. \A r \in Replica : AlignerCycle(al[r], i) \in AlignerState
    BY <1>1, AlignerTypes
  <2> QED BY <2>1 DEF Cycle
<1>3. next' \in 0 .. WORDS - 1 /\ after' \in 0 .. WORDS - 1
  <2>1. WORDS \in Nat \ {0}
    BY IfStageAssumption
  <2>2. \A h \in Half : h \div 2 \in 0 .. WORDS - 1
    BY <2>1 DEF Half
  <2>3. \A w \in 0 .. WORDS - 1 : Following(w) \in 0 .. WORDS - 1
    BY <2>1 DEF Following
  <2>4. i.branch_addr \div 2 \in 0 .. WORDS - 1 /\ i.hwlp_addr \div 2 \in 0 .. WORDS - 1
    BY <2>2 DEF Input
  <2> HIDE DEF Following
  <2> QED BY <2>3, <2>4 DEF Cycle, FetchBuffer, TypeOK
<1>4. if_id' \in [pc : Half, instr : {<<h>> : h \in Half} \cup Half \X Half, seq : {0, 1}]
  <2>1. pc_if \in Half
    <3>1. [r \in Replica |-> al[r].pc_q] \in [Replica -> Half]
      BY <1>1 DEF AlignerState
    <3> QED BY <3>1, VoterChooses DEF pc_if
  <2>2. instr_aligned(i) \in Half \X Half
    <3>1. [r \in Replica |-> instr_aligned_o(al[r], i)] \in [Replica -> Half \X Half]
      BY <1>1, AlignerTypes
    <3> QED BY <3>1, VoterChooses DEF instr_aligned
  <2>3. instr_aligned(i)[1] \in Half
    BY <2>2
  <2>4. 1 - if_id.seq \in {0, 1}
    BY DEF TypeOK
  <2> DEFINE instr == IF instr_aligned(i)[1] \in wide THEN instr_aligned(i)
                      ELSE <<instr_aligned(i)[1]>>
  <2>5. instr \in {<<h>> : h \in Half} \cup Half \X Half
    BY <2>2, <2>3
  <2>6. if_id' = [pc |-> pc_if, instr |-> instr, seq |-> 1 - if_id.seq] \/ if_id' = if_id
    BY DEF Cycle, IfIdRegister
  <2> HIDE DEF instr
  <2> QED BY <2>1, <2>4, <2>5, <2>6 DEF TypeOK
<1>5. upset' \subseteq Replica /\ wide' \subseteq Half /\ hwlp_end_4_id_q' \in BOOLEAN
  BY DEF Cycle, TypeOK, Input
<1>6. path' \in Half
  <2>1. \A n \in {1, 2} : (path + n) % (2 * WORDS) \in Half
    <3>1. \A n \in {1, 2} : path + n \in Nat
      BY IfStageAssumption DEF TypeOK, Half
    <3> QED BY <3>1, WrapInHalf
  <2>2. 2 * after \in Half
    BY IfStageAssumption DEF TypeOK, Half
  <2>3. i.branch_addr \in Half /\ i.hwlp_addr \in Half /\ path \in Half
    BY DEF Input, TypeOK
  <2>4. (path + (IF path \in wide THEN 2 ELSE 1)) % (2 * WORDS) \in Half
    BY <2>1
  <2> QED BY <2>2, <2>3, <2>4, Zenon DEF Cycle, FollowPath
<1> QED BY <1>2, <1>3, <1>4, <1>5, <1>6 DEF TypeOK

\* An upset changes one replica's registers to others of their types.
LEMMA UpsetTypes ==
  ASSUME TypeOK, NEW r \in Replica, Upset(r)
  PROVE  TypeOK'
<1>1. PICK s \in Hit(al[r]) : al' = [al EXCEPT ![r] = s]
  BY DEF Upset
<1>2. s \in AlignerState
  <2>1. al[r] \in AlignerState
    BY DEF TypeOK
  <2> QED BY <2>1 DEF Hit, AlignerState
<1> QED BY <1>1, <1>2 DEF Upset, TypeOK

\* A clock cycle keeps the healthy replicas together, and a branch joins the
\* replica that was hit to them.
LEMMA CycleAgrees ==
  ASSUME Inv, NEW i \in Input, Cycle(i), i.branch => ~i.fetch_valid
  PROVE  OneUpset' /\ HealthyAgree'
<1>1. upset' = IF i.branch THEN {} ELSE upset
  BY DEF Cycle
<1>2. OneUpset'
  BY <1>1 DEF Inv, OneUpset, Replica
<1>3. \A r \in Replica : al[r] \in AlignerState /\ al'[r] = AlignerCycle(al[r], i)
  BY DEF Inv, TypeOK, Cycle
<1>4. ASSUME NEW r \in Replica \ upset', NEW t \in Replica \ upset'
      PROVE  Agree(al'[r], al'[t])
  <2>1. CASE i.branch
    BY <1>3, <2>1, BranchAgrees
  <2>2. CASE ~i.branch
    <3>1. Agree(al[r], al[t])
      BY <1>1, <1>4, <2>2 DEF Inv, HealthyAgree
    <3> QED BY <1>3, <3>1, AgreeStep
  <2> QED BY <2>1, <2>2
<1>5. HealthyAgree'
  BY <1>4 DEF HealthyAgree, Agree
<1> QED BY <1>2, <1>5

\* The invariant holds at reset.
LEMMA InitOK ==
  ASSUME Init
  PROVE  Inv
<1>1. AlignerReset \in AlignerState
  BY IfStageAssumption DEF AlignerReset, AlignerState, Half
<1>2. Following(0) \in 0 .. WORDS - 1
  BY IfStageAssumption DEF Following
<1>3. 0 \in Half /\ wide \subseteq Half
  BY IfStageAssumption DEF Init, Half
<1>4. TypeOK
  <2>1. al \in [Replica -> AlignerState]
    BY <1>1 DEF Init
  <2>2. next \in 0 .. WORDS - 1 /\ after \in 0 .. WORDS - 1
    BY <1>2, IfStageAssumption DEF Init
  <2>3. if_id \in [pc : Half, instr : {<<h>> : h \in Half} \cup Half \X Half, seq : {0, 1}]
    BY <1>3 DEF Init
  <2> QED BY <1>3, <2>1, <2>2, <2>3 DEF Init, TypeOK
<1>5. OneUpset /\ HealthyAgree
  BY DEF Init, OneUpset, HealthyAgree, Agree, Replica
<1> QED BY <1>4, <1>5 DEF Inv

\* Every step, stuttering steps included, keeps the invariant.
LEMMA StepOK ==
  ASSUME Inv, [Next]_vars
  PROVE  Inv'
<1>1. CASE Run \/ Branch \/ HwlpJump
  <2>1. PICK i \in Input : Cycle(i) /\ (i.branch => ~i.fetch_valid)
    BY <1>1, CycleInput DEF Inv
  <2> QED BY <2>1, CycleTypes, CycleAgrees DEF Inv
<1>2. ASSUME NEW r \in Exposed, Upset(r) PROVE Inv'
  <2>1. r \in Replica
    BY IfStageAssumption
  <2>2. TypeOK'
    BY <1>2, <2>1, UpsetTypes DEF Inv
  <2>3. upset \subseteq {r} /\ upset' = {r}
    BY <1>2 DEF Upset
  <2>4. \A t \in Replica \ {r} : al'[t] = al[t]
    BY <1>2 DEF Upset, Inv, TypeOK
  <2>5. \A t, v \in Replica \ upset' : Agree(al'[t], al'[v])
    BY <2>3, <2>4 DEF Inv, HealthyAgree
  <2>6. HealthyAgree'
    BY <2>5 DEF HealthyAgree, Agree
  <2>7. OneUpset'
    BY <2>1, <2>3 DEF OneUpset
  <2> QED BY <2>2, <2>6, <2>7 DEF Inv
<1>3. CASE UNCHANGED vars
  BY <1>3 DEF Inv, TypeOK, OneUpset, HealthyAgree, Agree, vars
<1> QED BY <1>1, <1>2, <1>3 DEF Next

\* In every state the voters report no replica outside upset.
LEMMA NoFalseAccusation ==
  ASSUME Inv
  PROVE  AccusesOnlyUpset
<1> SUFFICES ASSUME NEW i \in Inputs PROVE error_voter(i) \subseteq upset
  BY DEF AccusesOnlyUpset
<1>1. PICK x \in Replica : upset \subseteq {x}
  BY DEF Inv, OneUpset
<1>2. \A r, t \in Replica \ upset :
        /\ aligner_ready_o(al[r], i) = aligner_ready_o(al[t], i)
        /\ instr_valid_o(al[r], i) = instr_valid_o(al[t], i)
        /\ instr_aligned_o(al[r], i) = instr_aligned_o(al[t], i)
        /\ al[r].pc_q = al[t].pc_q
  BY AgreeOutputs DEF Inv, HealthyAgree
<1>3. error_detected_input([r \in Replica |-> aligner_ready_o(al[r], i)]) \subseteq upset
  BY <1>1, <1>2, VoterMasks
<1>4. error_detected_input([r \in Replica |-> instr_valid_o(al[r], i)]) \subseteq upset
  BY <1>1, <1>2, VoterMasks
<1>5. error_detected_input([r \in Replica |-> instr_aligned_o(al[r], i)]) \subseteq upset
  BY <1>1, <1>2, VoterMasks
<1>6. error_detected_input([r \in Replica |-> al[r].pc_q]) \subseteq upset
  BY <1>1, <1>2, VoterMasks
<1> QED BY <1>3, <1>4, <1>5, <1>6 DEF error_voter

\* At most one replica strays, and the others agree, in every reachable state.
THEOREM InductiveInvariant == Spec => []Inv
<1> QED BY InitOK, StepOK, PTL DEF Spec

\* Type correctness of the IF stage, with replicas in arbitrary states: no PC or
\* fetch address leaves the address space.
THEOREM TypeCorrect == Spec => []TypeOK
<1>1. Inv => TypeOK
  BY DEF Inv
<1> QED BY <1>1, InductiveInvariant, PTL

\* A branch is enough to bring a diverged replica back: the voters report only
\* replicas hit since the last one, for every program and address space, even
\* when the same replica is hit again and again.
THEOREM NoReplicaFalselyAccused == Spec => []AccusesOnlyUpset
<1>1. Inv => AccusesOnlyUpset
  BY NoFalseAccusation
<1> QED BY <1>1, InductiveInvariant, PTL

-----------------------------------------------------------------------------
(* The IF stage implements InstructionStream.                              *)

\* An aligner s at the word n that the prefetch buffer hands over next: which half
\* words of it are still to come, and what is known while a loop jump (jump) is
\* pending; a is the word after n, last the address of the instruction in ID.
InStep(s, n, a, jump, last) ==
  /\ s.state # "WAIT_VALID_BRANCH"
  /\ s.state \in {"ALIGNED32", "MISALIGNED16"} => s.pc_q = 2 * n
  /\ s.state = "BRANCH_MISALIGNED" => s.pc_q = 2 * n + 1
  /\ s.state = "MISALIGNED32" => s.r_instr_h = s.pc_q /\ pc_plus(s, 1) = 2 * n
  /\ s.state = "MISALIGNED16" => s.pc_q # last + 2
  /\ s.hwlp_update_pc_q <=> jump
  /\ jump => s.state = "ALIGNED32" /\ s.pc_q \in wide /\ s.hwlp_addr_q = 2 * a
  /\ ~jump => a = Following(n)

HealthyInStep ==
  \A r \in Replica \ upset : InStep(al[r], next, after, hwlp_end_4_id_q, if_id.pc)

StreamInv == Inv /\ HealthyInStep

\* What the prefetch buffer, the fetch handshake and the controller allow.
Possible(i) ==
  /\ i \in Input
  /\ i.fetch_valid => i.fetch_rdata = next
  /\ i.if_valid => i.fetch_valid
  /\ i.branch => ~i.fetch_valid /\ ~i.hwlp_update_pc
  /\ i.hwlp_update_pc =>
       /\ ~hwlp_end_4_id_q /\ pc_if = if_id.pc + 2 /\ pc_if \in wide /\ pc_if % 2 = 0
       /\ \E t \in 0 .. WORDS - 1 : i.hwlp_addr = 2 * t

\* Addresses wrap once at most.
LEMMA Wraps ==
  /\ \A h \in Half, n \in {1, 2} :
       (h + n) % (2 * WORDS) = IF h + n < 2 * WORDS THEN h + n ELSE h + n - 2 * WORDS
  /\ \A w \in 0 .. WORDS - 1 :
       /\ Following(w) = IF w + 1 < WORDS THEN w + 1 ELSE 0
       /\ Following(w) \in 0 .. WORDS - 1
       /\ 2 * w \in Half /\ 2 * w + 1 \in Half
  /\ \A h \in Half : h \div 2 \in 0 .. WORDS - 1 /\ h = 2 * (h \div 2) + (h % 2)
<1>0. WORDS \in Nat /\ WORDS > 0
  BY IfStageAssumption
<1>1. ASSUME NEW m \in Nat, m > 0, NEW x \in Nat, x < m
      PROVE  x % m = x
  BY <1>1
<1>2. ASSUME NEW m \in Nat, m > 0, NEW x \in Nat, m <= x, x < 2 * m
      PROVE  x % m = x - m
  <2>1. x = m * (x \div m) + (x % m) /\ x % m \in 0 .. m - 1 /\ x \div m \in Nat
    BY <1>2
  <2>2. CASE x \div m = 1
    BY <1>2, <2>1, <2>2
  <2>3. CASE x \div m = 0
    BY <1>2, <2>1, <2>3
  <2>4. CASE x \div m >= 2
    <3>1. m * (x \div m) >= m * 2
      BY <1>2, <2>1, <2>4
    <3> QED BY <1>2, <2>1, <3>1
  <2> QED BY <2>1, <2>2, <2>3, <2>4
<1>3. ASSUME NEW h \in Half, NEW n \in {1, 2}
      PROVE  (h + n) % (2 * WORDS) = IF h + n < 2 * WORDS THEN h + n ELSE h + n - 2 * WORDS
  <2>1. 2 * WORDS \in Nat /\ 2 * WORDS > 0 /\ h + n \in Nat /\ h + n < 2 * (2 * WORDS)
    BY <1>0 DEF Half
  <2>2. CASE h + n < 2 * WORDS
    BY <1>1, <2>1, <2>2
  <2>3. CASE ~(h + n < 2 * WORDS)
    <3>1. 2 * WORDS <= h + n
      BY <2>1, <2>3
    <3>2. (h + n) % (2 * WORDS) = (h + n) - 2 * WORDS
      BY <1>2, <2>1, <3>1, Zenon
    <3>3. (h + n) - 2 * WORDS = h + n - 2 * WORDS
      BY <2>1, IfStageAssumption DEF Half
    <3> QED BY <2>3, <3>2, <3>3, Zenon
  <2> QED BY <2>1, <2>2, <2>3
<1>4. ASSUME NEW w \in 0 .. WORDS - 1
      PROVE  /\ Following(w) = IF w + 1 < WORDS THEN w + 1 ELSE 0
             /\ Following(w) \in 0 .. WORDS - 1
             /\ 2 * w \in Half /\ 2 * w + 1 \in Half
  <2>1. (w + 1) % WORDS = IF w + 1 < WORDS THEN w + 1 ELSE w + 1 - WORDS
    <3>1. w + 1 \in Nat /\ w + 1 < 2 * WORDS
      BY <1>0
    <3> QED BY <1>0, <1>1, <1>2, <3>1
  <2> QED BY <1>0, <2>1 DEF Following, Half
<1>5. \A h \in Half : h \div 2 \in 0 .. WORDS - 1 /\ h = 2 * (h \div 2) + (h % 2)
  BY <1>0 DEF Half
<1> QED BY <1>3, <1>4, <1>5

\* What a replica that was not hit says is what the voters pass on.
LEMMA Voted ==
  Inv => \A r \in Replica \ upset :
           /\ pc_if = al[r].pc_q
           /\ \A i : /\ aligner_ready(i) = aligner_ready_o(al[r], i)
                     /\ instr_valid(i) = instr_valid_o(al[r], i)
                     /\ instr_aligned(i) = instr_aligned_o(al[r], i)
<1> SUFFICES ASSUME Inv, NEW r \in Replica \ upset
             PROVE  /\ pc_if = al[r].pc_q
                    /\ \A i : /\ aligner_ready(i) = aligner_ready_o(al[r], i)
                              /\ instr_valid(i) = instr_valid_o(al[r], i)
                              /\ instr_aligned(i) = instr_aligned_o(al[r], i)
  OBVIOUS
<1>1. PICK x \in Replica : upset \subseteq {x}
  BY DEF Inv, OneUpset
<1>2. \A t, v \in Replica \ upset : Agree(al[t], al[v])
  BY DEF Inv, HealthyAgree
<1>3. pc_if = al[r].pc_q
  <2>1. \A t, v \in Replica \ upset : al[t].pc_q = al[v].pc_q
    BY <1>2 DEF Agree
  <2> QED BY <1>1, <2>1, VoterMasks DEF pc_if
<1>4. ASSUME NEW i
      PROVE  /\ aligner_ready(i) = aligner_ready_o(al[r], i)
             /\ instr_valid(i) = instr_valid_o(al[r], i)
             /\ instr_aligned(i) = instr_aligned_o(al[r], i)
  <2>1. \A t, v \in Replica \ upset :
          /\ aligner_ready_o(al[t], i) = aligner_ready_o(al[v], i)
          /\ instr_valid_o(al[t], i) = instr_valid_o(al[v], i)
          /\ instr_aligned_o(al[t], i) = instr_aligned_o(al[v], i)
    BY <1>2, AgreeOutputs
  <2>2. aligner_ready(i) = aligner_ready_o(al[r], i)
    BY <1>1, <2>1, VoterMasks DEF aligner_ready
  <2>3. instr_valid(i) = instr_valid_o(al[r], i)
    BY <1>1, <2>1, VoterMasks DEF instr_valid
  <2>4. instr_aligned(i) = instr_aligned_o(al[r], i)
    BY <1>1, <2>1, VoterMasks DEF instr_aligned
  <2> QED BY <2>2, <2>3, <2>4
<1> QED BY <1>3, <1>4

\* The cycles of the specification are possible ones.
LEMMA CyclePossible ==
  ASSUME TypeOK, Run \/ Branch \/ HwlpJump
  PROVE  \E i : Possible(i) /\ Cycle(i)
<1>1. \A i \in Inputs : /\ i \in Input /\ ~i.branch /\ ~i.hwlp_update_pc
                        /\ i.fetch_valid => i.fetch_rdata = next
                        /\ i.if_valid => i.fetch_valid
  <2> SUFFICES ASSUME NEW i \in Inputs
               PROVE  /\ i.fetch_valid => i.fetch_rdata = next
                      /\ i.if_valid => i.fetch_valid
    BY InputsType
  <2>1. PICK f \in Fetches, ready \in BOOLEAN :
          i = [fetch_valid |-> f.fetch_valid, fetch_rdata |-> f.fetch_rdata,
               if_valid |-> f.fetch_valid /\ ready, branch |-> FALSE, branch_addr |-> 0,
               hwlp_update_pc |-> FALSE, hwlp_addr |-> 0]
    BY DEF Inputs
  <2>2. f.fetch_valid => f.fetch_rdata = next
    <3>1. CASE f = [fetch_valid |-> TRUE, fetch_rdata |-> next]
      BY <3>1
    <3>2. CASE f \in [fetch_valid : {FALSE}, fetch_rdata : 0 .. WORDS - 1]
      BY <3>2
    <3> QED BY <3>1, <3>2 DEF Fetches
  <2> QED BY <2>1, <2>2
<1>2. CASE Run
  BY <1>1, <1>2 DEF Run, Possible
<1>3. CASE Branch
  <2>1. PICK i \in Inputs, target \in Half :
          ~i.fetch_valid /\ Cycle([i EXCEPT !.branch = TRUE, !.branch_addr = target])
    BY <1>3 DEF Branch
  <2> DEFINE j == [i EXCEPT !.branch = TRUE, !.branch_addr = target]
  <2>2. Possible(j)
    BY <1>1, <2>1 DEF Input, Possible
  <2> QED BY <2>1, <2>2
<1>4. CASE HwlpJump
  <2>1. PICK i \in Inputs, target \in 0 .. WORDS - 1 :
          /\ ~hwlp_end_4_id_q /\ if_id.pc % 2 = 0
          /\ pc_if = if_id.pc + 2 /\ pc_if \in wide
          /\ Cycle([i EXCEPT !.hwlp_update_pc = TRUE, !.hwlp_addr = 2 * target])
    BY <1>4 DEF HwlpJump
  <2> DEFINE j == [i EXCEPT !.hwlp_update_pc = TRUE, !.hwlp_addr = 2 * target]
  <2>2. i \in Input /\ ~i.branch
    BY <1>1
  <2>3. 2 * target \in Half
    BY Wraps
  <2>4. pc_if % 2 = 0
    <3>1. if_id.pc \in Int
      BY IfStageAssumption DEF TypeOK, Half
    <3> QED BY <2>1, <3>1
  <2>5. j \in Input
    BY <2>2, <2>3 DEF Input
  <2>6. Possible(j)
    BY <1>1, <2>1, <2>2, <2>4, <2>5 DEF Possible
  <2> QED BY <2>1, <2>6
<1> QED BY <1>2, <1>3, <1>4

\* A loop jump finds an aligner that is at the start of a word.
LEMMA JumpAligned ==
  ASSUME TypeOK, NEW s \in AlignerState, NEW i, Possible(i), pc_if = s.pc_q,
         InStep(s, next, after, hwlp_end_4_id_q, if_id.pc), i.hwlp_update_pc
  PROVE  s.state = "ALIGNED32" /\ s.pc_q \in wide
<1>1. s.pc_q \in wide /\ s.pc_q % 2 = 0 /\ s.pc_q = if_id.pc + 2
  BY DEF Possible
<1>2. /\ next \in 0 .. WORDS - 1 /\ s.pc_q \in Half
      /\ s.state \in {"ALIGNED32", "MISALIGNED32", "MISALIGNED16", "BRANCH_MISALIGNED"}
  BY DEF InStep, TypeOK, AlignerState
<1>3. CASE s.state = "MISALIGNED16"
  BY <1>1, <1>3 DEF InStep
<1>4. CASE s.state = "BRANCH_MISALIGNED"
  BY <1>1, <1>2, <1>4, IfStageAssumption DEF InStep
<1>5. CASE s.state = "MISALIGNED32"
  <2>1. pc_plus(s, 1) = 2 * next
    BY <1>5 DEF InStep
  <2>2. 2 * next = s.pc_q + 1 \/ 2 * next = (s.pc_q + 1) - 2 * WORDS
    BY <1>2, <2>1, Wraps, IfStageAssumption DEF pc_plus, Half
  <2>3. s.pc_q \in Int /\ next \in Int /\ WORDS \in Int
    BY <1>2, IfStageAssumption DEF Half
  <2>4. s.pc_q % 2 = 1
    BY <2>2, <2>3
  <2> QED BY <1>1, <2>4
<1> QED BY <1>1, <1>2, <1>3, <1>4, <1>5

\* An instruction that is handed over starts at the PC, has its second half word if
\* it needs one, and the PC goes on behind it, or to the loop's start.
LEMMA Delivers ==
  ASSUME TypeOK, NEW s \in AlignerState, NEW i, Possible(i), pc_if = s.pc_q,
         InStep(s, next, after, hwlp_end_4_id_q, if_id.pc),
         i.if_valid, instr_valid_o(s, i)
  PROVE  /\ first(s, i) = s.pc_q
         /\ instr_aligned_o(s, i)[1] = s.pc_q
         /\ s.pc_q \in wide => instr_aligned_o(s, i) = <<s.pc_q, pc_plus(s, 1)>>
         /\ pc_n(s, i) = IF hwlp_end_4_id_q THEN 2 * after
                         ELSE IF i.hwlp_update_pc THEN i.hwlp_addr
                         ELSE pc_plus(s, IF s.pc_q \in wide THEN 2 ELSE 1)
<1>1. /\ i.fetch_valid /\ i.fetch_rdata = next /\ ~i.branch
      /\ next \in 0 .. WORDS - 1 /\ s.pc_q \in Half
      /\ s.state \in {"ALIGNED32", "MISALIGNED32", "MISALIGNED16", "BRANCH_MISALIGNED"}
  BY DEF Possible, InStep, TypeOK, AlignerState
<1>2. lower(i) = 2 * next /\ upper(i) = 2 * next + 1
  BY <1>1 DEF lower, upper
<1>3. first(s, i) = s.pc_q
  BY <1>1, <1>2 DEF first, InStep
<1>4. is_wide(s, i) <=> s.pc_q \in wide
  BY <1>3 DEF is_wide
<1>5. ~half_only(s, i)
  BY <1>1 DEF instr_valid_o, half_only, holds_word
<1>6. instr_aligned_o(s, i)[1] = s.pc_q
  BY <1>1, <1>2, <1>4, <1>5 DEF instr_aligned_o, InStep, half_only
<1>7. ASSUME s.pc_q \in wide
      PROVE  instr_aligned_o(s, i) = <<s.pc_q, pc_plus(s, 1)>>
  <2>1. CASE s.state = "MISALIGNED32"
    BY <1>2, <1>4, <1>7, <2>1 DEF instr_aligned_o, InStep
  <2>2. CASE s.state \in {"ALIGNED32", "MISALIGNED16"}
    <3>1. s.pc_q = 2 * next
      BY <2>2 DEF InStep
    <3>2. pc_plus(s, 1) = 2 * next + 1
      BY <1>1, <3>1, Wraps, IfStageAssumption DEF pc_plus
    <3> QED BY <1>2, <2>2, <3>1, <3>2 DEF instr_aligned_o
  <2>3. CASE s.state = "BRANCH_MISALIGNED"
    BY <1>4, <1>5, <1>7, <2>3 DEF half_only
  <2> QED BY <1>1, <2>1, <2>2, <2>3
<1>8. pc_n(s, i) = IF hwlp_end_4_id_q THEN 2 * after
                   ELSE IF i.hwlp_update_pc THEN i.hwlp_addr
                   ELSE pc_plus(s, IF s.pc_q \in wide THEN 2 ELSE 1)
  <2>1. CASE hwlp_end_4_id_q
    BY <1>1, <1>4, <1>5, <2>1 DEF pc_n, InStep, Possible
  <2>2. CASE ~hwlp_end_4_id_q /\ i.hwlp_update_pc
    <3>1. s.state = "ALIGNED32" /\ s.pc_q \in wide
      BY <2>2, JumpAligned
    <3> QED BY <1>1, <1>4, <1>5, <2>2, <3>1 DEF pc_n
  <2>3. CASE ~hwlp_end_4_id_q /\ ~i.hwlp_update_pc
    BY <1>1, <1>4, <1>5, <2>3 DEF pc_n, InStep
  <2> QED BY <2>1, <2>2, <2>3
<1> QED BY <1>3, <1>6, <1>7, <1>8

\* Half words in the order of the words.
LEMMA HalfWords ==
  /\ \A w \in 0 .. WORDS - 1 :
       /\ (2 * w + 1) % (2 * WORDS) = 2 * w + 1
       /\ (2 * w + 2) % (2 * WORDS) = 2 * Following(w)
       /\ ((2 * w + 1) + 1) % (2 * WORDS) = 2 * Following(w)
  /\ \A h \in Half, w \in 0 .. WORDS - 1 :
       (h + 1) % (2 * WORDS) = 2 * w => (h + 2) % (2 * WORDS) = 2 * w + 1
<1>0. WORDS \in Nat /\ WORDS > 0
  BY IfStageAssumption
<1>1. \A h \in Half :
        /\ (h + 1) % (2 * WORDS) = IF h + 1 < 2 * WORDS THEN h + 1 ELSE h + 1 - 2 * WORDS
        /\ (h + 2) % (2 * WORDS) = IF h + 2 < 2 * WORDS THEN h + 2 ELSE h + 2 - 2 * WORDS
  BY Wraps
<1>2. ASSUME NEW w \in 0 .. WORDS - 1
      PROVE  /\ (2 * w + 1) % (2 * WORDS) = 2 * w + 1
             /\ (2 * w + 2) % (2 * WORDS) = 2 * Following(w)
             /\ ((2 * w + 1) + 1) % (2 * WORDS) = 2 * Following(w)
  <2>1. 2 * w \in Half /\ 2 * w + 1 \in Half
    BY Wraps
  <2>2. Following(w) = IF w + 1 < WORDS THEN w + 1 ELSE 0
    BY Wraps
  <2> HIDE DEF Following
  <2>3. (2 * w + 1) % (2 * WORDS) = 2 * w + 1
    <3>1. (2 * w + 1) % (2 * WORDS) =
            IF 2 * w + 1 < 2 * WORDS THEN 2 * w + 1 ELSE 2 * w + 1 - 2 * WORDS
      BY <1>1, <2>1, Zenon
    <3> QED BY <1>0, <3>1
  <2>4. (2 * w + 2) % (2 * WORDS) = 2 * Following(w)
    <3>1. (2 * w + 2) % (2 * WORDS) =
            IF 2 * w + 2 < 2 * WORDS THEN 2 * w + 2 ELSE 2 * w + 2 - 2 * WORDS
      BY <1>1, <2>1, Zenon
    <3> QED BY <1>0, <2>2, <3>1
  <2>5. ((2 * w + 1) + 1) % (2 * WORDS) = 2 * Following(w)
    <3>1. ((2 * w + 1) + 1) % (2 * WORDS) =
            IF (2 * w + 1) + 1 < 2 * WORDS THEN (2 * w + 1) + 1
            ELSE (2 * w + 1) + 1 - 2 * WORDS
      BY <1>1, <2>1, Zenon
    <3> QED BY <1>0, <2>2, <3>1
  <2> QED BY <2>3, <2>4, <2>5
<1>3. ASSUME NEW h \in Half, NEW w \in 0 .. WORDS - 1, (h + 1) % (2 * WORDS) = 2 * w
      PROVE  (h + 2) % (2 * WORDS) = 2 * w + 1
  <2>1. h + 1 = 2 * w \/ (h + 1) - 2 * WORDS = 2 * w
    BY <1>0, <1>3, <1>1 DEF Half
  <2>2. (h + 2) % (2 * WORDS) = IF h + 2 < 2 * WORDS THEN h + 2 ELSE h + 2 - 2 * WORDS
    BY <1>1
  <2>3. h + 2 < 2 * WORDS <=> h + 1 = 2 * w
    BY <1>0, <2>1 DEF Half
  <2> QED BY <1>0, <2>1, <2>2, <2>3 DEF Half
<1> QED BY <1>2, <1>3

\* A cycle keeps an aligner in step with the prefetch buffer: n, a, j and l are next,
\* after, hwlp_end_4_id_q and if_id.pc behind it.
LEMMA InStepNext ==
  ASSUME TypeOK, NEW s \in AlignerState, NEW i, Possible(i), pc_if = s.pc_q,
         InStep(s, next, after, hwlp_end_4_id_q, if_id.pc),
         NEW successor, NEW n, NEW a, NEW j, NEW l,
         successor = IF i.hwlp_update_pc THEN i.hwlp_addr \div 2 ELSE after,
         n = IF i.branch THEN i.branch_addr \div 2
             ELSE IF i.if_valid /\ aligner_ready_o(s, i) THEN successor ELSE next,
         a = IF i.branch THEN Following(i.branch_addr \div 2)
             ELSE IF i.if_valid /\ aligner_ready_o(s, i) THEN Following(successor)
             ELSE successor,
         j = IF i.branch \/ (i.if_valid /\ instr_valid_o(s, i)) THEN FALSE
             ELSE hwlp_end_4_id_q \/ i.hwlp_update_pc,
         l = IF i.if_valid /\ instr_valid_o(s, i) THEN s.pc_q ELSE if_id.pc
  PROVE  InStep(AlignerCycle(s, i), n, a, j, l)
<1> DEFINE t == AlignerCycle(s, i)
<1> SUFFICES InStep(t, n, a, j, l)
  OBVIOUS
<1>1. /\ next \in 0 .. WORDS - 1 /\ after \in 0 .. WORDS - 1 /\ s.pc_q \in Half
      /\ s.state \in {"ALIGNED32", "MISALIGNED32", "MISALIGNED16", "BRANCH_MISALIGNED"}
      /\ s.hwlp_update_pc_q \in BOOLEAN /\ hwlp_end_4_id_q \in BOOLEAN
      /\ i.branch_addr \in Half /\ WORDS \in Nat
  BY IfStageAssumption DEF Possible, Input, InStep, TypeOK, AlignerState
<1>2. i.hwlp_update_pc => i.hwlp_addr = 2 * successor /\ successor \in 0 .. WORDS - 1
  <2> SUFFICES ASSUME i.hwlp_update_pc
               PROVE  i.hwlp_addr = 2 * successor /\ successor \in 0 .. WORDS - 1
    OBVIOUS
  <2>1. PICK w \in 0 .. WORDS - 1 : i.hwlp_addr = 2 * w
    BY DEF Possible
  <2>2. (2 * w) \div 2 = w
    BY <1>1
  <2> QED BY <2>1, <2>2
<1>3. i.hwlp_update_pc => s.state = "ALIGNED32" /\ s.pc_q \in wide /\ ~hwlp_end_4_id_q
  BY JumpAligned DEF Possible
<1>4. hwlp_end_4_id_q => s.state = "ALIGNED32" /\ s.pc_q \in wide
  BY DEF InStep
<1>5. CASE i.branch
  <2>1. /\ t.state = (IF i.branch_addr % 2 = 1 THEN "BRANCH_MISALIGNED" ELSE "ALIGNED32")
        /\ t.pc_q = i.branch_addr /\ t.hwlp_update_pc_q = FALSE
    BY <1>5 DEF AlignerCycle, update_state, next_state, pc_n
  <2>2. /\ n = i.branch_addr \div 2 /\ a = Following(n) /\ j = FALSE
    BY <1>5
  <2>3. i.branch_addr = 2 * n + (i.branch_addr % 2) /\ i.branch_addr % 2 \in {0, 1}
    <3>1. i.branch_addr = 2 * (i.branch_addr \div 2) + (i.branch_addr % 2)
      BY <1>1, Wraps
    <3>2. i.branch_addr \in Int
      BY <1>1 DEF Half
    <3> QED BY <2>2, <3>1, <3>2
  <2> HIDE DEF t
  <2> QED BY <2>1, <2>2, <2>3, <1>1 DEF InStep
<1>6. CASE ~i.branch /\ i.if_valid
  <2>1. i.fetch_valid /\ i.fetch_rdata = next
    BY <1>6 DEF Possible
  <2>2. lower(i) = 2 * next /\ upper(i) = 2 * next + 1
    BY <2>1 DEF lower, upper
  <2>3. update_state(s, i)
    BY <1>1, <1>6, <2>1 DEF update_state
  <2>4. t = [state |-> next_state(s, i), r_instr_h |-> upper(i),
             hwlp_addr_q |-> s.hwlp_addr_q, pc_q |-> pc_n(s, i),
             aligner_ready_q |-> aligner_ready_o(s, i), hwlp_update_pc_q |-> FALSE]
    BY <2>3 DEF AlignerCycle
  <2>5. ~hwlp_end_4_id_q => after = Following(next)
    BY DEF InStep
  <2>6. CASE half_only(s, i)
    <3>1. s.state = "BRANCH_MISALIGNED" /\ is_wide(s, i) /\ s.pc_q = 2 * next + 1
      BY <2>6 DEF half_only, InStep
    <3>2. ~hwlp_end_4_id_q /\ ~i.hwlp_update_pc /\ ~instr_valid_o(s, i) /\ aligner_ready_o(s, i)
      BY <1>3, <1>4, <2>6, <3>1 DEF instr_valid_o, holds_word, aligner_ready_o
    <3>3. t.state = "MISALIGNED32" /\ t.pc_q = 2 * next + 1 /\ t.r_instr_h = 2 * next + 1
          /\ t.hwlp_update_pc_q = FALSE
      BY <1>6, <2>2, <2>4, <2>6, <3>1 DEF next_state, pc_n
    <3>4. n = Following(next) /\ a = Following(n) /\ j = FALSE
      BY <1>6, <2>5, <3>2
    <3>5. pc_plus(t, 1) = 2 * n
      BY <1>1, <3>3, <3>4, HalfWords DEF pc_plus
    <3> HIDE DEF t
    <3> QED BY <3>3, <3>4, <3>5 DEF InStep
  <2>7. CASE ~half_only(s, i)
    <3>1. instr_valid_o(s, i)
      BY <2>1, <2>7 DEF instr_valid_o
    <3>2. /\ first(s, i) = s.pc_q
          /\ pc_n(s, i) = IF hwlp_end_4_id_q THEN 2 * after
                          ELSE IF i.hwlp_update_pc THEN i.hwlp_addr
                          ELSE pc_plus(s, IF s.pc_q \in wide THEN 2 ELSE 1)
      BY <1>6, <3>1, Delivers
    <3>3. is_wide(s, i) <=> s.pc_q \in wide
      BY <3>2 DEF is_wide
    <3>4. j = FALSE /\ l = s.pc_q /\ t.hwlp_update_pc_q = FALSE /\ t.r_instr_h = 2 * next + 1
          /\ t.state = next_state(s, i) /\ t.pc_q = pc_n(s, i)
      BY <1>6, <2>2, <2>4, <3>1
    <3> HIDE DEF t
    <3>5. CASE s.state = "ALIGNED32" /\ s.pc_q \in wide
      <4>1. s.pc_q = 2 * next /\ aligner_ready_o(s, i)
        BY <3>5 DEF InStep, aligner_ready_o, holds_word
      <4>2. n = successor /\ a = Following(n) /\ t.state = "ALIGNED32"
        BY <1>6, <3>3, <3>4, <3>5, <4>1 DEF next_state
      <4>3. t.pc_q = 2 * n
        <5>1. CASE hwlp_end_4_id_q
          BY <1>3, <3>2, <3>4, <4>2, <5>1
        <5>2. CASE ~hwlp_end_4_id_q /\ i.hwlp_update_pc
          BY <1>2, <3>2, <3>4, <4>2, <5>2
        <5>3. CASE ~hwlp_end_4_id_q /\ ~i.hwlp_update_pc
          <6>1. t.pc_q = (2 * next + 2) % (2 * WORDS)
            BY <3>2, <3>4, <3>5, <4>1, <5>3 DEF pc_plus
          <6> QED BY <1>1, <2>5, <4>2, <5>3, <6>1, HalfWords
        <5> QED BY <5>1, <5>2, <5>3
      <4> QED BY <3>4, <4>2, <4>3 DEF InStep
    <3>6. CASE ~(s.state = "ALIGNED32" /\ s.pc_q \in wide)
      <4>1. ~hwlp_end_4_id_q /\ ~i.hwlp_update_pc /\ successor = after /\ after = Following(next)
        BY <1>3, <1>4, <2>5, <3>6
      <4>2. t.pc_q = pc_plus(s, IF s.pc_q \in wide THEN 2 ELSE 1)
        BY <3>2, <3>4, <4>1
      <4>3. CASE s.state = "MISALIGNED32" /\ s.pc_q \notin wide
        <5>1. ~aligner_ready_o(s, i)
          BY <2>1, <3>3, <4>3 DEF aligner_ready_o, holds_word
        <5>2. n = next /\ a = Following(n) /\ t.state = "MISALIGNED16" /\ t.pc_q = 2 * next
          BY <1>6, <3>3, <3>4, <4>1, <4>2, <4>3, <5>1 DEF next_state, InStep
        <5>3. t.pc_q # l + 2
          <6>1. (s.pc_q + 1) % (2 * WORDS) = t.pc_q
            BY <4>2, <4>3 DEF pc_plus
          <6>2. t.pc_q = s.pc_q + 1 \/ t.pc_q = (s.pc_q + 1) - 2 * WORDS
            BY <1>1, <6>1, Wraps DEF Half
          <6> QED BY <1>1, <3>4, <6>2 DEF Half
        <5> QED BY <3>4, <5>2, <5>3 DEF InStep
      <4>4. CASE ~(s.state = "MISALIGNED32" /\ s.pc_q \notin wide)
        <5>1. aligner_ready_o(s, i)
          BY <3>3, <4>4 DEF aligner_ready_o, holds_word
        <5>2. n = Following(next) /\ a = Following(n)
          BY <1>6, <4>1, <5>1
        <5>3. (2 * next + 1 + 1) % (2 * WORDS) = 2 * n
          BY <1>1, <5>2, HalfWords
        <5>4. CASE s.state = "MISALIGNED32"
          <6>1. s.pc_q \in wide /\ t.state = "MISALIGNED32"
            BY <1>6, <3>3, <3>4, <4>4, <5>4 DEF next_state
          <6>2. t.pc_q = 2 * next + 1
            BY <1>1, <4>2, <5>4, <6>1, HalfWords DEF InStep, pc_plus
          <6> QED BY <3>4, <4>1, <5>2, <5>3, <6>1, <6>2 DEF InStep, pc_plus
        <5>5. CASE s.state \in {"ALIGNED32", "MISALIGNED16"} /\ s.pc_q \notin wide
          <6>1. t.state = "MISALIGNED32"
            BY <1>6, <3>3, <3>4, <5>5 DEF next_state
          <6>2. t.pc_q = 2 * next + 1
            BY <1>1, <4>2, <5>5, HalfWords DEF InStep, pc_plus
          <6> QED BY <3>4, <4>1, <5>2, <5>3, <6>1, <6>2 DEF InStep, pc_plus
        <5>6. CASE s.state = "MISALIGNED16" /\ s.pc_q \in wide
          <6>1. t.state = "ALIGNED32"
            BY <1>6, <3>3, <3>4, <5>6 DEF next_state
          <6>2. t.pc_q = 2 * n
            BY <1>1, <4>2, <5>2, <5>6, HalfWords DEF InStep, pc_plus
          <6> QED BY <3>4, <5>2, <6>1, <6>2 DEF InStep
        <5>7. CASE s.state = "BRANCH_MISALIGNED"
          <6>1. s.pc_q \notin wide /\ t.state = "ALIGNED32"
            BY <1>6, <2>7, <3>3, <3>4, <5>7 DEF next_state, half_only
          <6>2. t.pc_q = 2 * n
            BY <1>1, <4>2, <5>2, <5>7, <6>1, HalfWords DEF InStep, pc_plus
          <6> QED BY <3>4, <5>2, <6>1, <6>2 DEF InStep
        <5> QED BY <1>1, <3>6, <5>4, <5>5, <5>6, <5>7
      <4> QED BY <4>3, <4>4
    <3> QED BY <3>5, <3>6
  <2> QED BY <2>6, <2>7
<1>7. CASE ~i.branch /\ ~i.if_valid
  <2>1. ~update_state(s, i)
    BY <1>7 DEF update_state
  <2>2. n = next /\ a = successor /\ l = if_id.pc /\ j = (hwlp_end_4_id_q \/ i.hwlp_update_pc)
    BY <1>7
  <2>3. CASE i.hwlp_update_pc
    <3>1. /\ t.state = s.state /\ t.pc_q = s.pc_q /\ t.hwlp_update_pc_q = TRUE
          /\ t.hwlp_addr_q = i.hwlp_addr
      BY <2>1, <2>3 DEF AlignerCycle, AlignerState
    <3> HIDE DEF t
    <3> QED BY <1>2, <1>3, <2>2, <2>3, <3>1 DEF InStep
  <2>4. CASE ~i.hwlp_update_pc
    <3>1. t = s /\ successor = after /\ j = hwlp_end_4_id_q
      BY <1>1, <2>1, <2>2, <2>4 DEF AlignerCycle
    <3> QED BY <2>2, <3>1
  <2> QED BY <2>3, <2>4
<1> QED BY <1>5, <1>6, <1>7
\* Aligners that agree are in step together.
LEMMA AgreeInStep ==
  ASSUME NEW s, NEW t, Agree(s, t), NEW n, NEW a, NEW j, NEW l, InStep(s, n, a, j, l)
  PROVE  InStep(t, n, a, j, l)
BY DEF Agree, InStep, pc_plus

\* A cycle seen from a replica t that was not hit.
LEMMA CycleInStep ==
  ASSUME StreamInv, NEW i, Possible(i), Cycle(i), NEW t \in Replica \ upset
  PROVE  InStep(AlignerCycle(al[t], i), next', after', hwlp_end_4_id_q', if_id'.pc)
<1> DEFINE successor == IF i.hwlp_update_pc THEN i.hwlp_addr \div 2 ELSE after
<1>1. TypeOK /\ al[t] \in AlignerState
  BY DEF StreamInv, Inv, TypeOK
<1>2. InStep(al[t], next, after, hwlp_end_4_id_q, if_id.pc)
  BY DEF StreamInv, HealthyInStep
<1>3. /\ pc_if = al[t].pc_q
      /\ aligner_ready(i) = aligner_ready_o(al[t], i)
      /\ instr_valid(i) = instr_valid_o(al[t], i)
  BY Voted DEF StreamInv
<1>4. i.if_valid => ~i.branch
  BY DEF Possible
<1>5. next' = IF i.branch THEN i.branch_addr \div 2
              ELSE IF i.if_valid /\ aligner_ready_o(al[t], i) THEN successor ELSE next
  BY <1>3 DEF Cycle, FetchBuffer, fetch_ready
<1>6. after' = IF i.branch THEN Following(i.branch_addr \div 2)
               ELSE IF i.if_valid /\ aligner_ready_o(al[t], i) THEN Following(successor)
               ELSE successor
  BY <1>3 DEF Cycle, FetchBuffer, fetch_ready
<1>7. hwlp_end_4_id_q' = IF i.branch \/ (i.if_valid /\ instr_valid_o(al[t], i)) THEN FALSE
                         ELSE hwlp_end_4_id_q \/ i.hwlp_update_pc
  BY <1>3 DEF Cycle
<1>8. if_id'.pc = IF i.if_valid /\ instr_valid_o(al[t], i) THEN al[t].pc_q ELSE if_id.pc
  BY <1>3 DEF Cycle, IfIdRegister
<1> HIDE DEF successor
<1>9. successor = IF i.hwlp_update_pc THEN i.hwlp_addr \div 2 ELSE after
  BY DEF successor
<1> QED BY <1>1, <1>2, <1>3, <1>5, <1>6, <1>7, <1>8, <1>9, InStepNext

\* Every cycle and every upset keeps the replicas in step that were not hit.
LEMMA StreamStep ==
  ASSUME StreamInv, [Next]_vars
  PROVE  StreamInv'
<1>1. Inv /\ Inv'
  BY StepOK DEF StreamInv
<1>2. ASSUME NEW i, Possible(i), Cycle(i)
      PROVE  HealthyInStep'
  <2> SUFFICES ASSUME NEW r \in Replica \ upset'
               PROVE  InStep(al'[r], next', after', hwlp_end_4_id_q', if_id'.pc)
    <3>1. wide' = wide
      BY <1>2 DEF Cycle
    <3> QED BY <3>1 DEF HealthyInStep, InStep, pc_plus, Following
  <2>1. PICK t \in Replica : t \notin upset
    BY <1>1 DEF Inv, OneUpset, Replica
  <2>2. t \notin upset'
    BY <1>2, <2>1 DEF Cycle
  <2>3. al'[t] = AlignerCycle(al[t], i)
    BY <1>2 DEF Cycle
  <2>4. InStep(al'[t], next', after', hwlp_end_4_id_q', if_id'.pc)
    BY <1>2, <2>1, <2>3, CycleInStep
  <2>5. Agree(al'[t], al'[r])
    BY <1>1, <2>2 DEF Inv, HealthyAgree, Agree
  <2> QED BY <2>4, <2>5, AgreeInStep
<1>3. CASE Run \/ Branch \/ HwlpJump
  <2>1. PICK i : Possible(i) /\ Cycle(i)
    BY <1>1, <1>3, CyclePossible DEF Inv
  <2> QED BY <1>1, <1>2, <2>1 DEF StreamInv
<1>4. ASSUME NEW x \in Exposed, Upset(x)
      PROVE  HealthyInStep'
  <2>1. /\ upset \subseteq {x} /\ upset' = {x}
        /\ \A r \in Replica \ {x} : al'[r] = al[r]
        /\ UNCHANGED <<wide, next, after, hwlp_end_4_id_q, if_id, path>>
    BY <1>1, <1>4 DEF Upset, Inv, TypeOK
  <2> QED BY <2>1 DEF StreamInv, HealthyInStep, InStep, pc_plus, Following
<1>5. CASE UNCHANGED vars
  BY <1>1, <1>5 DEF StreamInv, HealthyInStep, InStep, pc_plus, Following, vars
<1> QED BY <1>1, <1>3, <1>4, <1>5 DEF Next, StreamInv

\* The PC that the voters pass on.
LEMMA VotedPc == Inv => \A r \in Replica \ upset : pc_if = al[r].pc_q
BY Voted

\* The voted PC is the address of the program's next instruction.
OnPath == pc_if = path

\* A cycle is a step of the stream of instructions: an instruction, a loop jump, both
\* at once, a branch, or nothing that ID can see.  The voted PC stays on the path.
LEMMA CycleIsStream ==
  ASSUME StreamInv, StreamInv', OnPath, NEW i, Possible(i), Cycle(i)
  PROVE  OnPath' /\ [Stream!Next]_(Stream!vars)
<1>0. path = pc_if
  BY DEF OnPath
<1> DEFINE target == IF hwlp_end_4_id_q THEN 2 * after ELSE NoTarget
<1>1. PICK t \in Replica : t \notin upset
  BY DEF StreamInv, Inv, OneUpset, Replica
<1>2. t \notin upset' /\ al'[t] = AlignerCycle(al[t], i) /\ wide' = wide
  BY <1>1 DEF Cycle
<1>3. /\ pc_if = al[t].pc_q
      /\ instr_valid(i) = instr_valid_o(al[t], i)
      /\ instr_aligned(i) = instr_aligned_o(al[t], i)
  BY <1>1, Voted DEF StreamInv
<1>4. pc_if' = al'[t].pc_q
  <2>1. (Inv => \A r \in Replica \ upset : pc_if = al[r].pc_q)'
    BY VotedPc, PTL
  <2> QED BY <1>1, <1>2, <2>1 DEF StreamInv
<1>5. /\ TypeOK /\ al[t] \in AlignerState
      /\ InStep(al[t], next, after, hwlp_end_4_id_q, if_id.pc)
  BY <1>1 DEF StreamInv, Inv, TypeOK, HealthyInStep
<1>6. /\ i.branch_addr \in Half /\ i.hwlp_addr \in Half /\ i.branch \in BOOLEAN
      /\ i.if_valid => i.fetch_valid /\ ~i.branch
      /\ i.branch => ~i.hwlp_update_pc
  BY DEF Possible, Input
<1>7. i.hwlp_update_pc =>
        /\ al[t].state = "ALIGNED32" /\ pc_if \in wide /\ pc_if % 2 = 0
        /\ ~hwlp_end_4_id_q /\ target = NoTarget
        /\ i.hwlp_addr = 2 * (i.hwlp_addr \div 2)
  <2> SUFFICES ASSUME i.hwlp_update_pc
               PROVE  /\ al[t].state = "ALIGNED32" /\ pc_if \in wide /\ pc_if % 2 = 0
                      /\ ~hwlp_end_4_id_q /\ target = NoTarget
                      /\ i.hwlp_addr = 2 * (i.hwlp_addr \div 2)
    OBVIOUS
  <2>1. al[t].state = "ALIGNED32"
    BY <1>3, <1>5, JumpAligned
  <2>2. PICK w \in 0 .. WORDS - 1 : i.hwlp_addr = 2 * w
    BY DEF Possible
  <2>3. i.hwlp_addr = 2 * (i.hwlp_addr \div 2)
    BY <2>2, IfStageAssumption
  <2> QED BY <2>1, <2>3 DEF Possible
<1>8. al[t].state = "ALIGNED32" /\ i.if_valid => instr_valid_o(al[t], i)
  BY <1>6 DEF instr_valid_o, half_only
<1>9. hwlp_end_4_id_q => al[t].state = "ALIGNED32"
  BY <1>5 DEF InStep
<1>10. CASE i.branch
  <2>1. if_id' = if_id /\ ~hwlp_end_4_id_q'
    BY <1>6, <1>10 DEF Cycle, IfIdRegister
  <2>2. pc_if' = i.branch_addr
    BY <1>2, <1>4, <1>10 DEF AlignerCycle, update_state, pc_n
  <2>3. path' = i.branch_addr
    BY <1>10 DEF Cycle, FollowPath
  <2>4. Stream!Branch(i.branch_addr)
    BY <1>2, <1>6, <2>1, <2>3 DEF Stream!Branch, Stream!Half, Half
  <2> QED BY <1>6, <2>2, <2>3, <2>4 DEF Stream!Next, Stream!Half, Half, OnPath
<1>11. CASE i.if_valid /\ instr_valid_o(al[t], i)
  <2>1. /\ instr_aligned(i)[1] = pc_if
        /\ pc_if \in wide => instr_aligned(i) = <<pc_if, pc_plus(al[t], 1)>>
        /\ pc_n(al[t], i) = IF hwlp_end_4_id_q THEN 2 * after
                            ELSE IF i.hwlp_update_pc THEN i.hwlp_addr
                            ELSE pc_plus(al[t], IF pc_if \in wide THEN 2 ELSE 1)
    BY <1>3, <1>5, <1>11, Delivers
  <2>2. if_id' = [pc |-> pc_if, instr |-> Stream!Instr(pc_if), seq |-> 1 - if_id.seq]
    BY <1>3, <1>11, <2>1 DEF Cycle, IfIdRegister, Stream!Instr, Stream!Plus, pc_plus
  <2>3. pc_if' = pc_n(al[t], i)
    BY <1>2, <1>4, <1>5, <1>6, <1>11 DEF AlignerCycle, update_state, InStep
  <2>4. pc_plus(al[t], IF pc_if \in wide THEN 2 ELSE 1) =
          Stream!Plus(pc_if, Len(Stream!Instr(pc_if)))
    <3>1. Len(Stream!Instr(pc_if)) = IF pc_if \in wide THEN 2 ELSE 1
      BY DEF Stream!Instr
    <3> QED BY <1>3, <3>1 DEF Stream!Plus, pc_plus
  <2>5. ~hwlp_end_4_id_q'
    BY <1>3, <1>11 DEF Cycle
  <2>6. path' = IF i.hwlp_update_pc THEN i.hwlp_addr
                ELSE IF hwlp_end_4_id_q THEN 2 * after
                ELSE Stream!Plus(pc_if, Len(Stream!Instr(pc_if)))
    <3>1. ~i.branch /\ if_id' # if_id
      <4>1. if_id'.seq = 1 - if_id.seq /\ if_id.seq \in {0, 1}
        BY <1>5, <2>2 DEF TypeOK
      <4> QED BY <1>6, <1>11, <4>1
    <3>2. path' = IF i.hwlp_update_pc THEN i.hwlp_addr
                  ELSE IF hwlp_end_4_id_q THEN 2 * after
                  ELSE (pc_if + (IF pc_if \in wide THEN 2 ELSE 1)) % (2 * WORDS)
      BY <1>0, <3>1 DEF Cycle, FollowPath
    <3>3. Len(Stream!Instr(pc_if)) = IF pc_if \in wide THEN 2 ELSE 1
      BY DEF Stream!Instr
    <3> QED BY <3>2, <3>3 DEF Stream!Plus
  <2>7. OnPath'
    BY <1>7, <2>1, <2>3, <2>4, <2>6 DEF OnPath
  <2>8. CASE i.hwlp_update_pc
    <3>1. Stream!Deliver(i.hwlp_addr)
      BY <1>0, <1>2, <1>6, <1>7, <2>2, <2>5, <2>8, <2>6, IfStageAssumption DEF Stream!Deliver
    <3>2. Stream!LoopJumpDeliver(i.hwlp_addr)
      BY <1>0, <1>6, <1>7, <2>8, <3>1 DEF Stream!LoopJumpDeliver, Stream!Half, Half
    <3> QED BY <1>6, <2>7, <3>2 DEF Stream!Next, Stream!Half, Half
  <2>9. CASE ~i.hwlp_update_pc
    <3>1. hwlp_end_4_id_q => 2 * after # NoTarget
      <4>1. 2 * after \in Half
        BY <1>5, Wraps DEF TypeOK
      <4> QED BY <4>1, IfStageAssumption
    <3>2. Stream!Deliver(target)
      BY <1>0, <1>2, <2>2, <2>5, <2>9, <2>6, <3>1 DEF Stream!Deliver
    <3> QED BY <2>7, <3>2 DEF Stream!Next
  <2> QED BY <2>8, <2>9
<1>12. CASE ~i.branch /\ ~(i.if_valid /\ instr_valid_o(al[t], i))
  <2>1. if_id' = if_id /\ hwlp_end_4_id_q' = (hwlp_end_4_id_q \/ i.hwlp_update_pc)
    BY <1>3, <1>12 DEF Cycle, IfIdRegister
  <2>2. pc_if' = pc_if
    <3>1. CASE update_state(al[t], i)
      <4>1. i.if_valid /\ ~instr_valid_o(al[t], i) /\ i.fetch_valid
        BY <1>6, <1>12, <3>1 DEF update_state
      <4>2. half_only(al[t], i)
        BY <4>1 DEF instr_valid_o
      <4> QED BY <1>2, <1>3, <1>4, <1>12, <3>1, <4>2 DEF AlignerCycle, pc_n
    <3>2. CASE ~update_state(al[t], i)
      BY <1>2, <1>3, <1>4, <1>5, <3>2 DEF AlignerCycle, AlignerState
    <3> QED BY <3>1, <3>2
  <2>3. path' = path
    BY <1>12, <2>1 DEF Cycle, FollowPath
  <2>4. OnPath'
    BY <1>0, <2>2, <2>3 DEF OnPath
  <2>5. CASE i.hwlp_update_pc
    <3>1. ~i.if_valid /\ hwlp_end_4_id_q'
      BY <1>7, <1>8, <1>12, <2>1, <2>5
    <3>2. after' = i.hwlp_addr \div 2
      BY <1>12, <2>5, <3>1 DEF Cycle, FetchBuffer, fetch_ready
    <3>3. Stream!LoopJump(i.hwlp_addr)
      BY <1>0, <1>2, <1>6, <1>7, <2>1, <2>3, <2>5, <3>1, <3>2
      DEF Stream!LoopJump, Stream!Half, Half
    <3> QED BY <1>6, <2>4, <3>3 DEF Stream!Next, Stream!Half, Half
  <2>6. CASE ~i.hwlp_update_pc
    <3>1. hwlp_end_4_id_q' = hwlp_end_4_id_q
      BY <1>5, <2>1, <2>6 DEF TypeOK
    <3>2. hwlp_end_4_id_q => after' = after
      BY <1>8, <1>9, <1>12, <2>6 DEF Cycle, FetchBuffer, fetch_ready
    <3> QED BY <1>2, <2>1, <2>3, <2>4, <3>1, <3>2 DEF Stream!vars
  <2> QED BY <2>5, <2>6
<1> QED BY <1>6, <1>10, <1>11, <1>12

\* An upset of one replica changes nothing that ID can see.
LEMMA UpsetIsHidden ==
  ASSUME StreamInv, StreamInv', OnPath, NEW x \in Replica, Upset(x)
  PROVE  OnPath' /\ UNCHANGED Stream!vars
<1>1. PICK t \in Replica : t # x
  BY DEF Replica
<1>2. t \notin upset /\ t \notin upset' /\ al'[t] = al[t]
  BY <1>1 DEF Upset, StreamInv, Inv, TypeOK
<1>3. pc_if' = pc_if
  <2>1. (Inv => \A r \in Replica \ upset : pc_if = al[r].pc_q)'
    BY VotedPc, PTL
  <2> QED BY <1>1, <1>2, <2>1, VotedPc DEF StreamInv
<1> QED BY <1>3 DEF Upset, Stream!vars, OnPath

\* ID gets the instructions of the program with their addresses, in order, along the path
\* that branches, loop jumps and ID's handshake describe, over branches, loop jumps, stalls and any number of upsets of one replica between two
\* branches (cv32e40p_if_stage.sv, cv32e40p_aligner_ft.sv).
THEOREM HandsOverTheProgram == Spec => ImplementsStream
<1>1. Init => StreamInv /\ OnPath /\ Stream!Init
  <2> HAVE Init
  <2>1. Inv
    BY InitOK
  <2>2. HealthyInStep
    BY DEF Init, HealthyInStep, InStep, AlignerReset, Following
  <2>3. pc_if = 0
    BY DEF Init, pc_if, dataout_o, AlignerReset, Replica
  <2>4. 0 \in Half
    BY IfStageAssumption DEF Half
  <2>5. Stream!Init
    BY <2>4, IfStageAssumption DEF Init, Stream!Init, Stream!Half, Half
  <2> QED BY <2>1, <2>2, <2>3, <2>5 DEF StreamInv, Init, OnPath
<1>2. StreamInv /\ [Next]_vars => StreamInv'
  BY StreamStep
<1>3. StreamInv /\ StreamInv' /\ OnPath /\ [Next]_vars => OnPath' /\ [Stream!Next]_(Stream!vars)
  <2> SUFFICES ASSUME StreamInv, StreamInv', OnPath, [Next]_vars
               PROVE  OnPath' /\ [Stream!Next]_(Stream!vars)
    OBVIOUS
  <2>1. CASE Run \/ Branch \/ HwlpJump
    <3>1. PICK i : Possible(i) /\ Cycle(i)
      BY <2>1, CyclePossible DEF StreamInv, Inv
    <3> QED BY <3>1, CycleIsStream
  <2>2. ASSUME NEW x \in Exposed, Upset(x)
        PROVE  OnPath' /\ UNCHANGED Stream!vars
    BY <2>2, UpsetIsHidden, IfStageAssumption
  <2>3. CASE UNCHANGED vars
    <3>1. UNCHANGED <<wide, pc_if, hwlp_end_4_id_q, after, if_id, path>>
      BY <2>3 DEF vars, pc_if
    <3> QED BY <3>1 DEF Stream!vars, OnPath
  <2> QED BY <2>1, <2>2, <2>3 DEF Next
<1> QED BY <1>1, <1>2, <1>3, PTL DEF Spec, ImplementsStream, Stream!Spec
=============================================================================
