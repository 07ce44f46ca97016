CONSTANTS
  r1 = r1
  r2 = r2
  WORDS = 2
  Reg <- MCReg
  Access <- MCAccess
  NoAccess = NoAccess
  ResetMemory <- MCMemory
  PULP_OBI = FALSE
SPECIFICATION FairSpec
INVARIANTS
  TypeOK
  PipelineCounted
  RequestStable
PROPERTIES
  AccessesFinish
  ImplementsMemory
