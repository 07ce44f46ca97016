------------------------------ MODULE Firmware ------------------------------
(***************************************************************************)
(* The programs of FirmwarePrograms on what a program sees of the core:    *)
(* exceptions with the handler of vectors.S, hardware loops, CSRs.  The    *)
(* core has neither FPU nor PMP nor user mode.  Interrupts never occur:    *)
(* the interrupt generator is not selected.                                *)
(***************************************************************************)
EXTENDS FirmwarePrograms

Loop == {0, 1}
Mstatus == [mie : BOOLEAN, mpie : BOOLEAN]
Cause == {0, 2, 3, 11}

VARIABLES
  program, pc,                  \* pc counts the instructions of the program
  hpc,                          \* where the handler is, if it runs
  mstatus, mepc, mcause,
  start, end, count,            \* hardware loops
  t0,
  c,                            \* the CSR whose value the program's c has, or "other"
  fails, exit_value

loopVars == <<start, end, count>>
trapVars == <<mstatus, mepc, mcause>>
vars == <<program, pc, hpc, trapVars, loopVars, t0, c, fails, exit_value>>

Init ==
  /\ program \in DOMAIN Program
  /\ pc = 1 /\ hpc = "program"
  /\ mstatus = [mie |-> FALSE, mpie |-> FALSE] /\ mepc = 0 /\ mcause = 0
  /\ start = [l \in Loop |-> 0] /\ end = [l \in Loop |-> 0] /\ count = [l \in Loop |-> 0]
  /\ t0 = 0 /\ c = "other" /\ fails = 0 /\ exit_value = -1

Size == Len(Program[program])
Insn == Program[program][pc]
Is(op) == hpc = "program" /\ pc <= Size /\ Insn.op = op

----------------------------------------------------------------------------
(* Exceptions.                                                             *)

Mhpm == {\hB00, \hB80, \h320} \cup (\hB02..\hB1F) \cup (\hB82..\hB9F) \cup (\h323..\h33F)
Mirrors == {\hC00, \hC80} \cup (\hC02..\hC1F) \cup (\hC82..\hC9F)
Custom == {\hCC0, \hCC1, \hCC2, \hCC4, \hCC5, \hCC6, \hCD0, \hCD1, \hCD2}

LegalCsr(csr, write) ==
  \/ csr \in {\h300, \h301, \h304, \h305} \cup (\h340..\h344) \cup Mhpm
             \cup (\h7A0..\h7A4) \cup {\h7A8, \h7AA}
  \/ ~write /\ csr \in Mirrors \cup Custom \cup (\hF11..\hF14)

IllegalInsn ==
  \/ Is("csrr") /\ ~LegalCsr(Insn.csr, FALSE)
  \/ Is("csrw") /\ ~LegalCsr(Insn.csr, TRUE)

(* Mutant: MPIE is not updated when a trap is taken. *)
TakeTrap_keeps_mpie(cause) ==
  /\ mepc' = pc /\ mcause' = cause
  /\ mstatus' = [mstatus EXCEPT !.mie = FALSE]
  /\ hpc' = "sw_irq_handler" /\ c' = "other"
  /\ UNCHANGED <<program, pc, loopVars, t0, fails, exit_value>>

(* The registers are the handler's from here on: a trapped csrr leaves
   anything in c. *)
TakeTrap(cause) ==
  /\ mepc' = pc /\ mcause' = cause
  /\ mstatus' = [mie |-> FALSE, mpie |-> mstatus.mie]
  /\ hpc' = "sw_irq_handler" /\ c' = "other"
  /\ UNCHANGED <<program, pc, loopVars, t0, fails, exit_value>>

Trap == Is("trap") /\ TakeTrap(Insn.cause)
Illegal == IllegalInsn /\ TakeTrap(2)

(* Reports the cause, which it has in t0. *)
sw_irq_handler ==
  /\ hpc = "sw_irq_handler" /\ hpc' = "end_handler"
  /\ t0' = mcause
  /\ UNCHANGED <<program, pc, trapVars, loopVars, c, fails, exit_value>>

(* Mutant: returns to the instruction that trapped. *)
end_handler_same ==
  /\ hpc = "end_handler" /\ hpc' = "mret"
  /\ UNCHANGED <<program, pc, trapVars, loopVars, t0, c, fails, exit_value>>

(* Skips the instruction, taken to be 4 bytes long. *)
end_handler ==
  /\ hpc = "end_handler" /\ hpc' = "mret"
  /\ mepc' = mepc + 1
  /\ UNCHANGED <<program, pc, mstatus, mcause, loopVars, t0, c, fails, exit_value>>

mret ==
  /\ hpc = "mret" /\ hpc' = "program"
  /\ pc' = mepc
  /\ mstatus' = [mie |-> mstatus.mpie, mpie |-> TRUE]
  /\ UNCHANGED <<program, mepc, mcause, loopVars, t0, c, fails, exit_value>>

----------------------------------------------------------------------------
(* Instructions.  The last one of a loop's body counts and jumps back.     *)

Ends == {l \in Loop : end[l] = pc + 1}
Repeats == {l \in Ends : count[l] > 1}

(* Mutant: an inner loop that is over counts down again with the outer one. *)
Counted_below_zero == [l \in Loop |-> IF l \in Ends THEN count[l] - 1 ELSE count[l]]

Counted == [l \in Loop |-> IF l \in Ends /\ count[l] > 0 THEN count[l] - 1 ELSE count[l]]

GoOn ==
  /\ pc' = IF Repeats # {} THEN start[CHOOSE l \in Repeats : TRUE] ELSE pc + 1
  /\ UNCHANGED <<program, hpc, exit_value>>

LoopEnd == count' = Counted /\ UNCHANGED <<start, end>>

PlainInsn == Is("plain") /\ UNCHANGED <<t0, c, fails, trapVars>> /\ LoopEnd
SetT0 == Is("t0") /\ t0' = Insn.value /\ LoopEnd /\ UNCHANGED <<c, fails, trapVars>>

SetLoop(l, s, e, n) ==
  /\ start' = [start EXCEPT ![l] = s]
  /\ end' = [end EXCEPT ![l] = e]
  /\ count' = [Counted EXCEPT ![l] = n]
  /\ UNCHANGED <<t0, c, fails, trapVars>>

LpStart == Is("start") /\ SetLoop(Insn.loop, pc + Insn.words, end[Insn.loop], Counted[Insn.loop])
LpEnd == Is("end") /\ SetLoop(Insn.loop, start[Insn.loop], pc + Insn.words, Counted[Insn.loop])
LpCounti == Is("counti") /\ SetLoop(Insn.loop, start[Insn.loop], end[Insn.loop], Insn.count)
LpCount == Is("count") /\ SetLoop(Insn.loop, start[Insn.loop], end[Insn.loop], t0)
LpSetupi == Is("setupi") /\ SetLoop(Insn.loop, pc + 1, pc + Insn.words, Insn.count)
LpSetup == Is("setup") /\ SetLoop(Insn.loop, pc + 1, pc + Insn.words, t0)

Csrr ==
  /\ Is("csrr") /\ ~IllegalInsn
  /\ c' = CASE Insn.csr = \h300 -> "mstatus"
            [] Insn.csr = \h341 -> "mepc"
            [] Insn.csr = \h342 -> "mcause"
            [] OTHER -> "other"
  /\ LoopEnd /\ UNCHANGED <<t0, fails, trapVars>>

(* A register keeps its value when it is written back, and may take any
   other one when a pattern or anything else is written.  The trigger
   registers are only written in debug mode. *)
Written(csr, name) == Insn.csr = csr /\ (Insn.pattern \/ c # name)

Csrw ==
  /\ Is("csrw") /\ ~IllegalInsn
  /\ IF Written(\h300, "mstatus") THEN mstatus' \in Mstatus ELSE mstatus' = mstatus
  /\ IF Written(\h341, "mepc") THEN mepc' \in 1..Size ELSE mepc' = mepc
  /\ IF Written(\h342, "mcause") THEN mcause' \in Cause ELSE mcause' = mcause
  /\ LoopEnd /\ UNCHANGED <<t0, c, fails>>

(* The number of failing tests, added to what was on the stack. *)
CountFails == Is("fails") /\ fails' \in 0..1 /\ LoopEnd /\ UNCHANGED <<t0, c, trapVars>>

Execute ==
  /\ \/ PlainInsn \/ SetT0 \/ LpStart \/ LpEnd \/ LpCounti \/ LpCount \/ LpSetupi \/ LpSetup
     \/ Csrr \/ Csrw \/ CountFails
  /\ GoOn

(* main returns to crt0, which calls exit: _exit writes the status for the
   test bench and waits for an interrupt. *)
_exit ==
  /\ hpc = "program" /\ pc > Size
  /\ exit_value' = fails /\ hpc' = "wfi"
  /\ UNCHANGED <<program, pc, trapVars, loopVars, t0, c, fails>>

Next == Trap \/ Illegal \/ sw_irq_handler \/ end_handler \/ mret \/ Execute \/ _exit

Spec == Init /\ [][Next]_vars /\ WF_vars(Next)

----------------------------------------------------------------------------
TypeOK ==
  /\ program \in DOMAIN Program /\ pc \in 1..(Size + 1)
  /\ hpc \in {"program", "sw_irq_handler", "end_handler", "mret", "wfi"}
  /\ mstatus \in Mstatus /\ mepc \in 0..(Size + 1) /\ mcause \in Cause
  /\ \A l \in Loop : start[l] \in 0..(Size + 1) /\ end[l] \in 0..(Size + 1) /\ count[l] \in 0..LoopBound
  /\ t0 \in 0..LoopBound \cup Cause /\ c \in {"mstatus", "mepc", "mcause", "other"}
  /\ fails \in 0..1 /\ exit_value \in {-1, 0, 1}

(* Interrupts stay disabled: neither the nesting of MIE and MPIE over many
   traps nor what the self-test writes to mstatus enables them.  The entries
   of the vector table for interrupts loop forever. *)
InterruptsOff == ~mstatus.mie

(* Every program returns and reports success, through all its traps and
   loops; only the report of the self-test library depends on what its
   uninitialised counter held. *)
Completes == <>(exit_value # -1 /\ (program # "sbst" => exit_value = 0))
=============================================================================
