CONSTANTS
  COREV_PULP = TRUE
  ebreakm = TRUE
  stepie = FALSE
  None = None
  Program <- MCProgram
  boot_addr <- MCBoth
  IrqHandler <- MCIrqHandler
  ExcHandler <- MCExcHandler
  DebugHalt <- MCDebugHalt
  DebugException <- MCDebugException
  tdata2 <- MCTrigger
  irq_level = {TRUE, FALSE}
  debug_line = {TRUE, FALSE}
SPECIFICATION Spec
INVARIANTS TypeOK LoopJumpWellTimed AsleepOnlyWhenIdle
PROPERTIES ImplementsMachine WakesAtOnce
