------------------------------- MODULE IfStage -------------------------------
(***************************************************************************)
(* cv32e40p_if_stage with the fault tolerant aligner (cv32e40p_aligner_ft):*)
(* three replicas of the aligner with the same inputs, a voter for every   *)
(* output.  The prefetch buffer is what FetchStream promises of it.        *)
(* Single event upsets hit the registers of one replica, as often as they  *)
(* like, until a branch makes the replicas agree again.                    *)
(***************************************************************************)
EXTENDS Aligner, Voter, Sequences

CONSTANTS
  Programs,  \* the possible values of wide
  Exposed,   \* the replicas that may be hit
  REPEATED,  \* whether a replica may be hit again before a branch
  NoTarget   \* no hardware loop jump is pending

ASSUME IfStageAssumption ==
  /\ WORDS \in Nat \ {0}
  /\ Programs \subseteq SUBSET Half
  /\ Exposed \subseteq Replica
  /\ REPEATED \in BOOLEAN
  /\ NoTarget \notin Half

VARIABLES
  al,               \* the registers of the three aligners
  upset,            \* the replicas hit since the last branch
  next,             \* prefetch buffer: the word it hands over next
  after,            \* prefetch buffer: the word after that one
  hwlp_end_4_id_q,  \* controller: a loop jump was signalled for the next instruction
  if_id,            \* pc_id_o, instr_rdata_id_o; seq tells two instructions apart
  path              \* history: the program's next instruction, by the inputs

vars == <<wide, al, upset, next, after, hwlp_end_4_id_q, if_id, path>>

Following(w) == (w + 1) % WORDS

Init ==
  /\ wide \in Programs
  /\ al = [r \in Replica |-> AlignerReset]
  /\ upset = {}
  /\ next = 0 /\ after = Following(0)
  /\ hwlp_end_4_id_q = FALSE
  /\ if_id = [pc |-> 0, instr |-> <<0>>, seq |-> 0]
  /\ path = 0

-----------------------------------------------------------------------------
\* The voted outputs.

aligner_ready(i) == dataout_o([r \in Replica |-> aligner_ready_o(al[r], i)])
instr_valid(i) == dataout_o([r \in Replica |-> instr_valid_o(al[r], i)])
instr_aligned(i) == dataout_o([r \in Replica |-> instr_aligned_o(al[r], i)])
pc_if == dataout_o([r \in Replica |-> al[r].pc_q])

\* The replicas that some voter reports.
error_voter(i) ==
  UNION {error_detected_input([r \in Replica |-> aligner_ready_o(al[r], i)]),
         error_detected_input([r \in Replica |-> instr_valid_o(al[r], i)]),
         error_detected_input([r \in Replica |-> instr_aligned_o(al[r], i)]),
         error_detected_input([r \in Replica |-> al[r].pc_q])}

-----------------------------------------------------------------------------
\* One clock cycle.

fetch_ready(i) == i.if_valid /\ ~i.branch /\ aligner_ready(i)

FetchBuffer(i) ==
  LET successor == IF i.hwlp_update_pc THEN i.hwlp_addr \div 2 ELSE after
  IN  IF i.branch
        THEN /\ next' = i.branch_addr \div 2
             /\ after' = Following(i.branch_addr \div 2)
        ELSE IF fetch_ready(i) THEN next' = successor /\ after' = Following(successor)
        ELSE next' = next /\ after' = successor

\* The decoders look at the second half word of 32-bit instructions only.
IfIdRegister(i) ==
  IF i.if_valid /\ instr_valid(i)
    THEN if_id' =
           [pc |-> pc_if,
            instr |-> IF instr_aligned(i)[1] \in wide THEN instr_aligned(i)
                      ELSE <<instr_aligned(i)[1]>>,
            seq |-> 1 - if_id.seq]
    ELSE UNCHANGED if_id

\* The program goes on at the branch target, or when ID has got an instruction at the
\* start of the loop that ends with it, or behind it.  No aligner reads this.
FollowPath(i) ==
  path' = IF i.branch THEN i.branch_addr
          ELSE IF if_id' = if_id THEN path
          ELSE IF i.hwlp_update_pc THEN i.hwlp_addr
          ELSE IF hwlp_end_4_id_q THEN 2 * after
          ELSE (path + (IF path \in wide THEN 2 ELSE 1)) % (2 * WORDS)

Cycle(i) ==
  /\ al' = [r \in Replica |-> AlignerCycle(al[r], i)]
  /\ FetchBuffer(i)
  /\ IfIdRegister(i)
  /\ FollowPath(i)
  /\ hwlp_end_4_id_q' =
       IF i.branch \/ (i.if_valid /\ instr_valid(i)) THEN FALSE
       ELSE hwlp_end_4_id_q \/ i.hwlp_update_pc
  /\ upset' = IF i.branch THEN {} ELSE upset
  /\ UNCHANGED wide

\* fetch_valid and fetch_rdata: the next word, or anything when it is not there.
Fetches ==
  {[fetch_valid |-> TRUE, fetch_rdata |-> next]}
    \cup [fetch_valid : {FALSE}, fetch_rdata : 0 .. WORDS - 1]

\* if_valid needs a fetched word even when the aligner holds an instruction.
Inputs ==
  {[fetch_valid |-> f.fetch_valid, fetch_rdata |-> f.fetch_rdata,
    if_valid |-> f.fetch_valid /\ ready, branch |-> FALSE, branch_addr |-> 0,
    hwlp_update_pc |-> FALSE, hwlp_addr |-> 0] : f \in Fetches, ready \in BOOLEAN}

Run == \E i \in Inputs : Cycle(i)

\* pc_set_i: fetch_valid_o is low in the cycle of a branch.
Branch ==
  \E i \in Inputs, target \in Half :
    /\ ~i.fetch_valid
    /\ Cycle([i EXCEPT !.branch = TRUE, !.branch_addr = target])

\* hwlp_jump_o is one pulse while HWLP_END - 4 is in ID and HWLP_END, an aligned
\* 32-bit instruction after another, is the next; the loop starts at a word.
HwlpJump ==
  \E i \in Inputs, target \in 0 .. WORDS - 1 :
    /\ ~hwlp_end_4_id_q
    /\ Len(if_id.instr) = 2 /\ if_id.pc % 2 = 0
    /\ pc_if = if_id.pc + 2 /\ pc_if \in wide
    /\ Cycle([i EXCEPT !.hwlp_update_pc = TRUE, !.hwlp_addr = 2 * target])

\* The registers of a replica after a single event upset in one of them.
Hit(s) ==
  UNION {{[s EXCEPT !.state = v.state], [s EXCEPT !.r_instr_h = v.r_instr_h],
          [s EXCEPT !.hwlp_addr_q = v.hwlp_addr_q], [s EXCEPT !.pc_q = v.pc_q],
          [s EXCEPT !.aligner_ready_q = v.aligner_ready_q],
          [s EXCEPT !.hwlp_update_pc_q = v.hwlp_update_pc_q]} : v \in AlignerState}

Upset(r) ==
  /\ upset = {} \/ (REPEATED /\ upset = {r})
  /\ \E s \in Hit(al[r]) : al' = [al EXCEPT ![r] = s]
  /\ upset' = {r}
  /\ UNCHANGED <<wide, next, after, hwlp_end_4_id_q, if_id, path>>

Next == Run \/ Branch \/ HwlpJump \/ \E r \in Exposed : Upset(r)

Spec == Init /\ [][Next]_vars

-----------------------------------------------------------------------------
TypeOK ==
  /\ wide \subseteq Half
  /\ al \in [Replica -> AlignerState]
  /\ upset \subseteq Replica
  /\ next \in 0 .. WORDS - 1 /\ after \in 0 .. WORDS - 1
  /\ hwlp_end_4_id_q \in BOOLEAN
  /\ if_id \in [pc : Half, instr : {<<h>> : h \in Half} \cup Half \X Half, seq : {0, 1}]
  /\ path \in Half

\* The voters never accuse a replica that was not hit since the last branch: a
\* branch is enough to bring a diverged replica back into line, although nothing
\* reloads its registers.
AccusesOnlyUpset == \A i \in Inputs : error_voter(i) \subseteq upset

\* Whatever happens to one replica, ID gets exactly the instructions of the
\* program with their addresses, in order, over branches, loop jumps and stalls:
\* those of the path that the inputs describe, not of what pc_if says.
Stream ==
  INSTANCE InstructionStream
    WITH pc <- path, out <- if_id,
         target <- IF hwlp_end_4_id_q THEN 2 * after ELSE NoTarget

ImplementsStream == Stream!Spec
=============================================================================
