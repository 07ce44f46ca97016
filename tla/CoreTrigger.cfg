CONSTANTS
  COREV_PULP = TRUE
  ebreakm = TRUE
  stepie = FALSE
  None = None
  Program <- MCTriggerProgram
  boot_addr <- MCAdded
  IrqHandler <- MCIrqHandler
  ExcHandler <- MCExcHandler
  DebugHalt <- MCDebugHalt
  DebugException <- MCDebugException
  tdata2 <- MCTrigger
  irq_level = {FALSE}
  debug_line = {TRUE, FALSE}
SPECIFICATION Spec
PROPERTIES TriggerWritesIgnored
