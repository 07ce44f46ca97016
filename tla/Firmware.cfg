SPECIFICATION Spec
CONSTANTS
  PatternBound = 2
  LoopBound = 5
INVARIANTS TypeOK InterruptsOff
PROPERTIES Completes
CHECK_DEADLOCK FALSE
