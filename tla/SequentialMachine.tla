------------------------- MODULE SequentialMachine -------------------------
(***************************************************************************)
(* What a program may rely on: instructions take effect one at a time and  *)
(* in order, hardware loops repeat their bodies, and between two           *)
(* instructions an interrupt may be taken or debug mode entered, with the  *)
(* address of the next instruction saved.                                  *)
(***************************************************************************)
EXTENDS Naturals

CONSTANTS
  Program,     \* memory: the instruction at each address, one word each
  boot_addr,   \* the addresses execution may start at
  IrqHandler, ExcHandler, DebugHalt, DebugException,
  tdata2,      \* address of the debug trigger, or None
  ebreakm,     \* dcsr: ebreak enters debug mode
  stepie,      \* dcsr: interrupts are enabled when stepping
  None

Loop == {0, 1}

VARIABLES
  pc,                 \* the next instruction
  mie, mpie, mepc,    \* mstatus: interrupt enable, previous; return address
  debug, dpc, step,   \* debug mode, its return address, dcsr.step
  trigger,            \* the debug trigger is armed
  stepped,            \* an instruction was stepped over
  start, end, count,  \* hardware loops; end is the address behind the body
  irq, haltreq,       \* an interrupt, or a request of the debugger, is there
  executed            \* the instruction that took effect last

vars == <<pc, mie, mpie, mepc, debug, dpc, step, trigger, stepped, start, end, count,
          irq, haltreq, executed>>

Op(a) == Program[a].op

\* Instructions that cause an exception.
traps(a) ==
  \/ Op(a) \in {"illegal", "ecall", "ebreak"}
  \/ Op(a) \in {"dret", "dcsr"} /\ ~debug
  \/ Op(a) = "mret" /\ debug

\* Where execution goes on after a, and what is left of the loops a ends.
Ends(a) == {k \in Loop : end[k] = a + 1}

Following(a) ==
  IF \E k \in Ends(a) : count[k] > 1
    THEN start[CHOOSE k \in Ends(a) : count[k] > 1] ELSE a + 1

Counted(a) ==
  [k \in Loop |-> IF k \in Ends(a) /\ count[k] > 0 THEN count[k] - 1 ELSE count[k]]

Init ==
  /\ pc \in boot_addr
  /\ mie = FALSE /\ mpie = FALSE /\ mepc = 0
  /\ debug = FALSE /\ dpc = 0 /\ step = FALSE /\ trigger = FALSE
  /\ stepped = FALSE
  /\ start = [k \in Loop |-> 0] /\ end = [k \in Loop |-> 0]
  /\ count = [k \in Loop |-> 0]
  /\ irq = FALSE /\ haltreq = FALSE /\ executed = None

\* Effects on each part of the state of the instruction at pc.
SetLoops ==
  IF Op(pc) = "setup"
    THEN LET n == Program[pc] IN
      /\ start' = [start EXCEPT ![n.loop] = n.start]
      /\ end' = [end EXCEPT ![n.loop] = n.end]
      /\ count' = [Counted(pc) EXCEPT ![n.loop] = n.count]
    ELSE count' = Counted(pc) /\ UNCHANGED <<start, end>>

GoOn ==
  CASE Op(pc) = "jump" -> pc' = Program[pc].target
    [] Op(pc) = "branch" -> pc' \in {Program[pc].target, Following(pc)}
    [] Op(pc) = "mret" -> pc' = mepc
    [] Op(pc) = "dret" -> pc' = dpc
    [] OTHER -> pc' = Following(pc)

SetStatus ==
  /\ mie' = IF Op(pc) = "mie" THEN TRUE ELSE IF Op(pc) = "mret" THEN mpie ELSE mie
  /\ mpie' = (mpie \/ Op(pc) = "mret")
  /\ mepc' = IF Op(pc) = "skip" THEN mepc + 1 ELSE mepc
  /\ debug' = (debug /\ Op(pc) # "dret")
  /\ IF Op(pc) = "dcsr" THEN step' \in BOOLEAN ELSE step' = step
  /\ IF Op(pc) = "tdata1" /\ debug THEN trigger' \in BOOLEAN ELSE trigger' = trigger
  /\ UNCHANGED dpc

\* The trigger of the debugger fires before the instruction takes effect.
Watched == trigger /\ pc = tdata2 /\ ~debug

Execute ==
  /\ ~traps(pc) /\ ~stepped /\ ~Watched
  /\ GoOn /\ SetLoops /\ SetStatus
  /\ stepped' = (step /\ ~debug)
  /\ executed' = pc

Save(handler) ==
  /\ pc' = handler /\ mepc' = pc /\ mpie' = mie /\ mie' = FALSE
  /\ UNCHANGED <<debug, dpc, step, trigger, start, end, count, executed>>

EnterDebug ==
  /\ pc' = DebugHalt /\ dpc' = pc /\ debug' = TRUE /\ stepped' = FALSE
  /\ UNCHANGED <<mie, mpie, mepc, step, trigger, start, end, count, executed>>

Exception ==
  /\ traps(pc) /\ ~debug /\ ~stepped /\ ~Watched
  /\ ~(Op(pc) = "ebreak" /\ ebreakm)
  /\ Save(ExcHandler)
  /\ stepped' = step

ExceptionInDebug ==
  /\ traps(pc) /\ debug
  /\ pc' = IF Op(pc) = "ebreak" THEN DebugHalt ELSE DebugException
  /\ UNCHANGED <<mie, mpie, mepc, debug, dpc, step, trigger, stepped, start, end, count,
              executed>>

Interrupt ==
  /\ irq /\ mie /\ (step => stepie) /\ ~debug /\ ~stepped
  /\ Save(IrqHandler)
  /\ UNCHANGED stepped

Debug ==
  /\ ~debug
  /\ haltreq \/ stepped \/ Watched \/ (Op(pc) = "ebreak" /\ ebreakm)
  /\ EnterDebug

Wait ==
  UNCHANGED <<pc, mie, mpie, mepc, debug, dpc, step, trigger, stepped, start, end, count,
              executed>>

Next ==
  /\ Wait \/ Execute \/ Exception \/ ExceptionInDebug \/ Interrupt \/ Debug
  /\ irq' \in BOOLEAN /\ haltreq' \in BOOLEAN

Spec == Init /\ [][Next]_vars
=============================================================================
