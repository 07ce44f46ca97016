-------------------------- MODULE InstructionStream --------------------------
(***************************************************************************)
(* What the IF stage promises ID: the instructions of the program, one     *)
(* after the other from the last branch target, of one or two half words,  *)
(* with their addresses; a hardware loop jump replaces the successor of the*)
(* next instruction, which must be an aligned 32-bit one.                  *)
(***************************************************************************)
EXTENDS Integers, Sequences

CONSTANTS WORDS, NoTarget

VARIABLES
  wide,    \* the half words that start 32-bit instructions
  pc,      \* address of the next instruction
  target,  \* where the loop continues after it, or NoTarget
  out      \* the instruction handed over last; out.seq tells two of them apart

vars == <<wide, pc, target, out>>

Half == 0 .. 2 * WORDS - 1
Plus(h, n) == (h + n) % (2 * WORDS)

\* The half words of the instruction at address h.
Instr(h) == IF h \in wide THEN <<h, Plus(h, 1)>> ELSE <<h>>

Init ==
  /\ wide \subseteq Half
  /\ pc \in Half
  /\ target = NoTarget
  /\ out \in [pc : Half, instr : Half \X Half \cup {<<h>> : h \in Half}, seq : {0, 1}]

Deliver(t) ==
  /\ out' = [pc |-> pc, instr |-> Instr(pc), seq |-> 1 - out.seq]
  /\ pc' = IF t = NoTarget THEN Plus(pc, Len(Instr(pc))) ELSE t
  /\ target' = NoTarget
  /\ UNCHANGED wide

LoopJump(t) ==
  /\ target = NoTarget /\ pc % 2 = 0 /\ pc \in wide /\ t \in Half
  /\ target' = t
  /\ UNCHANGED <<wide, pc, out>>

LoopJumpDeliver(t) ==
  target = NoTarget /\ pc % 2 = 0 /\ pc \in wide /\ t \in Half /\ Deliver(t)

Branch(t) ==
  t \in Half /\ pc' = t /\ target' = NoTarget /\ UNCHANGED <<wide, out>>

Next ==
  \/ Deliver(target)
  \/ \E t \in Half : LoopJump(t) \/ LoopJumpDeliver(t) \/ Branch(t)

Spec == Init /\ [][Next]_vars
=============================================================================
