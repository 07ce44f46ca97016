CONSTANTS
  WORDS = 2
  Programs <- MCPrograms
  Exposed = {"a", "b", "c"}
  NoTarget = NoTarget
  REPEATED = FALSE
SPECIFICATION Spec
INVARIANTS
  TypeOK
  AccusesOnlyUpset
PROPERTY ImplementsStream
