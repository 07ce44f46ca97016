------------------------- MODULE InterruptGenerator -------------------------
(***************************************************************************)
(* cv32e40p_random_interrupt_generator: drives the interrupt lines of the  *)
(* test bench, either from the word that software writes to a register or  *)
(* with random words at random times.  The mode PC_TRIG is never selected  *)
(* by the program (its test is commented out) and is left out.             *)
(***************************************************************************)
EXTENDS Integers

CONSTANTS Words,      \* the random words the generator may draw
          MaxWords    \* bound: it draws this many

STANDARD == 1
RANDOM == 2
SOFTWARE_DEFINED == 4

Lines == {3, 7, 11} \cup 16..31      \* the fields of Interrupts_tb_t

ASSUME GeneratorAssumption == Words \in SUBSET SUBSET Lines /\ MaxWords \in Nat

VARIABLES irq_mode_q, irq_lines_q,
          sampling, irq_sd_lines,           \* software defined process
          gen, irq_rnd_lines, words         \* random process

generatorVars == <<irq_mode_q, irq_lines_q, sampling, irq_sd_lines, gen, irq_rnd_lines, words>>

GeneratorInit ==
  /\ irq_mode_q = 0 /\ irq_lines_q = {}
  /\ sampling = FALSE /\ irq_sd_lines = {}
  /\ gen = "idle" /\ irq_rnd_lines = {} /\ words = 0

(* The word in software's register is sampled at every clock while it is
   not zero, and once more after it became zero. *)
SoftwareDefined(irq_lines_i) ==
  /\ sampling' = ((sampling \/ irq_mode_q = SOFTWARE_DEFINED) /\ irq_lines_i # {})
  /\ irq_sd_lines' = IF sampling THEN irq_lines_i \cap Lines ELSE irq_sd_lines

(* A random word, drawn in the mode RANDOM and put on the lines after a
   random time, stays there until the mode is STANDARD. *)
Random ==
  \/ /\ gen = "idle"
     /\ gen' = IF irq_mode_q = RANDOM THEN "waiting" ELSE gen
     /\ UNCHANGED <<irq_rnd_lines, words>>
  \/ /\ gen = "waiting" /\ words < MaxWords
     /\ gen' = "raised"
     /\ irq_rnd_lines' \in Words
     /\ words' = words + 1
  \/ /\ gen = "waiting"
     /\ UNCHANGED <<gen, irq_rnd_lines, words>>
  \/ /\ gen = "raised" /\ irq_mode_q = STANDARD
     /\ gen' = "idle" /\ irq_rnd_lines' = {}
     /\ UNCHANGED words
  \/ /\ gen = "raised" /\ irq_mode_q # STANDARD
     /\ UNCHANGED <<gen, irq_rnd_lines, words>>

GeneratorCycle(irq_mode_i, irq_lines_i) ==
  /\ irq_mode_q' = irq_mode_i
  /\ irq_lines_q' = CASE irq_mode_q = RANDOM -> irq_rnd_lines
                      [] irq_mode_q = SOFTWARE_DEFINED -> irq_sd_lines
                      [] OTHER -> {}
  /\ SoftwareDefined(irq_lines_i)
  /\ Random
=============================================================================
