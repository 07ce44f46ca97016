--------------------------- MODULE InterruptTest ---------------------------
(***************************************************************************)
(* The interrupt test of the example test bench: its program, running on a *)
(* core reduced to what interrupts touch, with the interrupt controller    *)
(* and the interrupt generator clocked at every step.  A statement of the  *)
(* program takes one clock or more.  A word of 32 bits is the set of the   *)
(* bits that are one.                                                      *)
(***************************************************************************)
EXTENDS Integers, Sequences, Functions, InterruptController, InterruptGenerator, Matrices

CONSTANT RandomBits      \* the bits random_num is observed to draw

AllBits == 0..31
STD_IRQ_MASK == {3, 7, 11} \cup 16..31
IRQ_NUM == 19
IRQ_MODE_STD == 1
IRQ_MODE_RND == 2
IRQ_MODE_SD == 4

IRQ_ID_PRIORITY == [n \in 1..16 |-> 32 - n] \o <<11, 3, 7>>

VARIABLES
  mstatus, mie, hpc, mcause,      \* the core: hpc is where the handler is
  reg_mode, reg_lines,            \* RND_STALL_REG_10 and RND_STALL_REG_14
  irq_id, irq_pending32_std, prev_irq_pending32_std, first_irq_pending32_std,
  irq_to_test32_std, ie_mask32_std, mmstatus, irq_mode, irq_served, res,
  test, pc, ra, i, code           \* control: ra is where a call returns to

coreVars == <<mstatus, mie, hpc, mcause>>
regVars == <<reg_mode, reg_lines>>
handlerVars == <<irq_id, irq_pending32_std, mmstatus, irq_mode, irq_served>>
testVars == <<prev_irq_pending32_std, first_irq_pending32_std, irq_to_test32_std, ie_mask32_std>>
control == <<test, pc, ra, i, code>>
vars == <<coreVars, regVars, handlerVars, testVars, control, res, irq_q, generatorVars>>

Reset == [mie |-> FALSE, mpie |-> FALSE]

Init ==
  /\ InterruptInit /\ GeneratorInit
  /\ mstatus = Reset /\ mie = {} /\ hpc = "main" /\ mcause = 0
  /\ reg_mode = 0 /\ reg_lines = {}
  /\ irq_id = 0 /\ irq_pending32_std = {} /\ prev_irq_pending32_std = {}
  /\ first_irq_pending32_std = {} /\ irq_to_test32_std = {} /\ ie_mask32_std = {}
  /\ mmstatus = Reset /\ irq_mode = 0 /\ irq_served = 0 /\ res = <<>>
  /\ test = 1 /\ pc = "start" /\ ra = "start" /\ i = 1 /\ code = 0

----------------------------------------------------------------------------
(* The core takes an interrupt before it decodes the next statement.       *)

TakeIrq ==
  /\ irq_req_ctrl(mie, mstatus.mie)
  /\ mcause' = irq_id_ctrl(mie)
  /\ mstatus' = [mie |-> FALSE, mpie |-> mstatus.mie]
  /\ hpc' = "id"
  /\ UNCHANGED <<mie, regVars, handlerVars, testVars, control, res>>

(* FAST_IRQ_GENERIC, which every handler of the vector table expands with
   its own identifier. *)
HandlerId ==
  /\ hpc = "id"
  /\ irq_id' = mcause
  /\ hpc' = "pending"
  /\ UNCHANGED <<mstatus, mie, mcause, regVars, irq_pending32_std, mmstatus, irq_mode, irq_served>>

HandlerPending ==
  /\ hpc = "pending"
  /\ irq_pending32_std' = (IF irq_mode = IRQ_MODE_RND THEN irq_q ELSE irq_pending32_std) \ {irq_id}
  /\ hpc' = "acknowledge"
  /\ UNCHANGED <<mstatus, mie, mcause, regVars, irq_id, mmstatus, irq_mode, irq_served>>

(* Mutant: the cleared word is not written back to the generator. *)
HandlerAcknowledge_forgotten ==
  /\ hpc = "acknowledge"
  /\ hpc' = IF irq_mode = IRQ_MODE_RND THEN "standard" ELSE "csrr"
  /\ UNCHANGED <<mstatus, mie, mcause, regVars, handlerVars>>

HandlerAcknowledge ==
  /\ hpc = "acknowledge"
  /\ reg_lines' = irq_pending32_std
  /\ hpc' = IF irq_mode = IRQ_MODE_RND THEN "standard" ELSE "csrr"
  /\ UNCHANGED <<mstatus, mie, mcause, reg_mode, handlerVars>>

(* Mutant: the generator is not switched to the standard mode in between. *)
HandlerStandard_skipped ==
  /\ hpc = "standard"
  /\ irq_served' = irq_served + 1
  /\ irq_mode' = IRQ_MODE_STD
  /\ hpc' = "random"
  /\ UNCHANGED <<mstatus, mie, mcause, regVars, irq_id, irq_pending32_std, mmstatus>>

(* The generator drops its word when it sees the standard mode ...         *)
HandlerStandard ==
  /\ hpc = "standard"
  /\ irq_served' = irq_served + 1
  /\ irq_mode' = IRQ_MODE_STD
  /\ reg_mode' = IRQ_MODE_STD
  /\ hpc' = "random"
  /\ UNCHANGED <<mstatus, mie, mcause, reg_lines, irq_id, irq_pending32_std, mmstatus>>

(* ... and draws the next one in the random mode.                          *)
HandlerRandom ==
  /\ hpc = "random"
  /\ irq_mode' = IRQ_MODE_RND
  /\ reg_mode' = IRQ_MODE_RND
  /\ hpc' = "restore"
  /\ UNCHANGED <<mstatus, mie, mcause, reg_lines, irq_id, irq_pending32_std, mmstatus, irq_served>>

(* Outside the random mode the handler clears MPIE, so that the program is
   resumed with interrupts disabled. *)
HandlerRead ==
  /\ hpc = "csrr"
  /\ mmstatus' = mstatus
  /\ hpc' = "csrw"
  /\ UNCHANGED <<mstatus, mie, mcause, regVars, irq_id, irq_pending32_std, irq_mode, irq_served>>

HandlerWrite ==
  /\ hpc = "csrw"
  /\ mmstatus' = [mmstatus EXCEPT !.mpie = FALSE]
  /\ mstatus' = mmstatus'
  /\ hpc' = "restore"
  /\ UNCHANGED <<mie, mcause, regVars, irq_id, irq_pending32_std, irq_mode, irq_served>>

(* The registers the handler used are loaded back from the stack.          *)
HandlerRestore ==
  /\ hpc = "restore"
  /\ hpc' = "mret"
  /\ UNCHANGED <<mstatus, mie, mcause, regVars, handlerVars>>

HandlerReturn ==
  /\ hpc = "mret"
  /\ mstatus' = [mie |-> mstatus.mpie, mpie |-> TRUE]
  /\ hpc' = "main"
  /\ UNCHANGED <<mie, mcause, regVars, handlerVars>>

Handler ==
  /\ \/ HandlerId \/ HandlerPending \/ HandlerAcknowledge \/ HandlerStandard \/ HandlerRandom
     \/ HandlerRead \/ HandlerWrite \/ HandlerRestore \/ HandlerReturn
  /\ UNCHANGED <<testVars, control, res>>

----------------------------------------------------------------------------
(* The program.                                                            *)

Call(f, return) == pc' = f /\ ra' = return

(* mstatus_enable and mstatus_disable: read, modify and write through the
   global mmstatus, which the handler uses as well. *)
ReadMstatus ==
  /\ pc \in {"enable", "disable"}
  /\ mmstatus' = mstatus
  /\ pc' = IF pc = "enable" THEN "set" ELSE "clear"
  /\ UNCHANGED <<mstatus, mie, regVars, irq_id, irq_pending32_std, irq_mode, irq_served,
                 testVars, test, ra, i, code, res>>

(* Mutant: the bit MPIE is set in place of MIE. *)
SetMie_mpie ==
  /\ pc = "set"
  /\ mmstatus' = [mmstatus EXCEPT !.mpie = TRUE]
  /\ mstatus' = mmstatus'

SetMie ==
  /\ pc = "set"
  /\ mmstatus' = [mmstatus EXCEPT !.mie = TRUE]
  /\ mstatus' = mmstatus'

ClearMie ==
  /\ pc = "clear"
  /\ mmstatus' = [mmstatus EXCEPT !.mie = FALSE]
  /\ mstatus' = mmstatus'

WriteMstatus ==
  /\ SetMie \/ ClearMie
  /\ pc' = ra
  /\ UNCHANGED <<mie, regVars, irq_id, irq_pending32_std, irq_mode, irq_served,
                 testVars, test, ra, i, code, res>>

(* TEST 1: enable every line, select the software defined mode.            *)
Test1 ==
  /\ test = 1 /\ pc = "start"
  /\ ie_mask32_std' = AllBits /\ mie' = AllBits \cap IRQ_MASK
  /\ reg_mode' = IRQ_MODE_SD
  /\ test' = 2 /\ Call("disable", "start")
  /\ UNCHANGED <<mstatus, reg_lines, handlerVars, prev_irq_pending32_std,
                 first_irq_pending32_std, irq_to_test32_std, i, code, res>>

(* TEST 2: all lines are raised at once and enabled.                       *)
Test2 ==
  /\ test = 2 /\ pc = "start"
  /\ ie_mask32_std' = AllBits /\ mie' = AllBits \cap IRQ_MASK
  /\ irq_pending32_std' = AllBits
  /\ Call("disable", "raise")
  /\ UNCHANGED <<mstatus, regVars, irq_id, mmstatus, irq_mode, irq_served,
                 prev_irq_pending32_std, first_irq_pending32_std, irq_to_test32_std,
                 test, i, code, res>>

(* TEST 3: a random mask and a random word of lines.  One or more bits are
   drawn for each, and the lines that do not exist are masked out. *)
random_word == {word \cap STD_IRQ_MASK : word \in SUBSET RandomBits \ {{}}}

Test3 ==
  /\ test = 3 /\ pc = "start"
  /\ ie_mask32_std' \in random_word
  /\ irq_pending32_std' \in random_word
  /\ mie' = ie_mask32_std' \cap IRQ_MASK
  /\ irq_id' = 0
  /\ first_irq_pending32_std' = irq_pending32_std'
  /\ irq_to_test32_std' = irq_to_test32_std \cup (irq_pending32_std' \cap ie_mask32_std')
  /\ Call("disable", "raise")
  /\ UNCHANGED <<mstatus, regVars, mmstatus, irq_mode, irq_served,
                 prev_irq_pending32_std, test, i, code, res>>

Raise ==
  /\ pc = "raise"
  /\ reg_lines' = irq_pending32_std
  /\ i' = 1 /\ pc' = "loop"
  /\ UNCHANGED <<mstatus, mie, reg_mode, handlerVars, testVars, test, ra, code, res>>

(* The loop of TEST 2 and TEST 3 over the lines in the order of priority. *)
Expected == test = 2 \/ IRQ_ID_PRIORITY[i] \in irq_to_test32_std

Sample ==
  /\ pc = "loop" /\ i <= IRQ_NUM /\ Expected
  /\ prev_irq_pending32_std' = irq_pending32_std
  /\ Call("enable", "wait")
  /\ UNCHANGED <<mstatus, mie, regVars, handlerVars, first_irq_pending32_std,
                 irq_to_test32_std, ie_mask32_std, test, i, code, res>>

Skip ==
  /\ pc = "loop" /\ i <= IRQ_NUM /\ ~Expected
  /\ i' = i + 1
  /\ UNCHANGED <<mstatus, mie, regVars, handlerVars, testVars, test, pc, ra, code, res>>

Wait ==
  /\ pc = "wait"
  /\ pc' = IF prev_irq_pending32_std = irq_pending32_std THEN "wait" ELSE "check"
  /\ UNCHANGED <<mstatus, mie, regVars, handlerVars, testVars, test, ra, i, code, res>>

Finish(c) == pc' = "done" /\ code' = c

CheckId ==
  /\ pc = "check"
  /\ \/ IRQ_ID_PRIORITY[i] = irq_id /\ i' = i + 1 /\ pc' = "loop" /\ UNCHANGED code
     \/ IRQ_ID_PRIORITY[i] # irq_id /\ Finish(test) /\ UNCHANGED i
  /\ UNCHANGED <<mstatus, mie, regVars, handlerVars, testVars, test, ra, res>>

(* After the loop TEST 3 also compares the lines that are left.  What only
   TEST 3 reads is cleared when it has passed. *)
EndLoop ==
  /\ pc = "loop" /\ i > IRQ_NUM
  /\ \/ /\ test = 2
        /\ test' = 3 /\ pc' = "start" /\ UNCHANGED <<testVars, code>>
     \/ /\ test = 3 /\ irq_pending32_std # first_irq_pending32_std \ ie_mask32_std
        /\ Finish(3) /\ UNCHANGED <<testVars, test>>
     \/ /\ test = 3 /\ irq_pending32_std = first_irq_pending32_std \ ie_mask32_std
        /\ test' = 5 /\ pc' = "start"
        /\ prev_irq_pending32_std' = {} /\ first_irq_pending32_std' = {}
        /\ irq_to_test32_std' = {} /\ ie_mask32_std' = {}
        /\ UNCHANGED code
  /\ UNCHANGED <<mstatus, mie, regVars, handlerVars, ra, i, res>>

(* TEST 5: random words during a matrix multiplication.                    *)
Test5 ==
  /\ test = 5 /\ pc = "start"
  /\ Call("disable", "bomb")
  /\ UNCHANGED <<mstatus, mie, regVars, handlerVars, testVars, test, i, code, res>>

Bomb ==
  /\ pc = "bomb"
  /\ ie_mask32_std' = AllBits /\ mie' = AllBits \cap IRQ_MASK
  /\ irq_mode' = IRQ_MODE_RND /\ reg_mode' = IRQ_MODE_RND
  /\ pc' = "served"
  /\ UNCHANGED <<mstatus, reg_lines, irq_id, irq_pending32_std, mmstatus, irq_served,
                 prev_irq_pending32_std, first_irq_pending32_std, irq_to_test32_std,
                 test, ra, i, code, res>>

(* A statement of its own: while it runs the lines of TEST 3 that are left
   go away, before interrupts are enabled. *)
ClearServed ==
  /\ pc = "served"
  /\ irq_served' = 0
  /\ Call("enable", "mat_mult")
  /\ UNCHANGED <<mstatus, mie, regVars, irq_id, irq_pending32_std, mmstatus, irq_mode,
                 testVars, test, i, code, res>>

(* res holds the elements computed so far, row by row.                     *)
mat_mult ==
  /\ pc = "mat_mult"
  /\ IF Len(res) < MAT_DIM * MAT_DIM
       THEN /\ res' = Append(res, Product((Len(res) \div MAT_DIM) + 1, (Len(res) % MAT_DIM) + 1))
            /\ UNCHANGED <<pc, ra>>
       ELSE Call("disable", "compare") /\ UNCHANGED res
  /\ UNCHANGED <<mstatus, mie, regVars, handlerVars, testVars, test, i, code>>

Compare ==
  /\ pc = "compare"
  /\ Finish(IF \A row, column \in 1..MAT_DIM :
                 res[(row - 1) * MAT_DIM + column] = res_expected[row][column]
              THEN 0 ELSE 5)
  /\ irq_served' = 0
  /\ UNCHANGED <<mstatus, mie, regVars, irq_id, irq_pending32_std, mmstatus, irq_mode, testVars, test, ra, i, res>>

Program ==
  /\ \/ ReadMstatus \/ WriteMstatus \/ Test1 \/ Test2 \/ Test3 \/ Raise \/ Sample \/ Skip
     \/ Wait \/ CheckId \/ EndLoop \/ Test5 \/ Bomb \/ ClearServed \/ mat_mult \/ Compare
  /\ UNCHANGED <<hpc, mcause>>

----------------------------------------------------------------------------
Hardware ==
  /\ GeneratorCycle(reg_mode, reg_lines)
  /\ InterruptCycle(irq_lines_q)

Statement ==
  \/ TakeIrq
  \/ hpc # "main" /\ Handler
  \/ hpc = "main" /\ ~irq_req_ctrl(mie, mstatus.mie) /\ Program

(* The core is stalled, or main has returned.                              *)
Stall == UNCHANGED <<coreVars, regVars, handlerVars, testVars, control, res>>

Next == (Statement \/ Stall) /\ Hardware

Spec == Init /\ [][Next]_vars /\ WF_vars(Statement /\ Hardware)

----------------------------------------------------------------------------
Word == SUBSET AllBits
Mstatus == [mie : BOOLEAN, mpie : BOOLEAN]

TypeOK ==
  /\ irq_q \in SUBSET IRQ_MASK /\ irq_lines_q \in SUBSET IRQ_MASK
  /\ irq_mode_q \in {0, 1, 2, 4} /\ reg_mode \in {0, 1, 2, 4} /\ irq_mode \in 0..2
  /\ mstatus \in Mstatus /\ mmstatus \in Mstatus /\ mie \in SUBSET IRQ_MASK
  /\ reg_lines \in Word /\ irq_pending32_std \in Word
  /\ irq_id \in {0} \cup IRQ_MASK /\ mcause \in {0} \cup IRQ_MASK
  /\ test \in {1, 2, 3, 5} /\ i \in 1..(IRQ_NUM + 1) /\ code \in {0, 2, 3, 5}
  /\ words \in 0..MaxWords /\ irq_served \in 0..MaxWords
  /\ Len(res) <= MAT_DIM * MAT_DIM

(* No test reports an error: whatever words are drawn and however the core is
   stalled, the lines are served one at a time in the order of
   IRQ_ID_PRIORITY, exactly the masked ones are left, and the matrices multiply
   correctly under interrupts. *)
NeverFails == code = 0

(* Every request is served once: a handler is entered for a line that the
   program still has pending, and in the random mode at most once for a
   word.  The generator and the interrupt register lag behind the handler's
   writes; the handler must not return before they have followed. *)
ServedOnce ==
  [][hpc = "main" /\ hpc' = "id" =>
       IF irq_mode = IRQ_MODE_RND THEN irq_served < words
                                  ELSE mcause' \in irq_pending32_std]_vars

(* The program returns: no request that a test waits for is lost.          *)
Returns == <>(pc = "done")
=============================================================================
