CONSTANTS
  r1 = r1
  x0 = x0
  None = None
  Reg <- MCReg
  COREV_PULP = TRUE
  Insn <- MCInsn
SPECIFICATION FairSpec
INVARIANTS
  TypeOK
  OperandsCurrent
  JumpTargetCurrent
  AccessLeavesOnce
  FeedbackIsOwn
PROPERTIES
  InstructionsIssue
