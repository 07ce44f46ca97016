CONSTANTS
  DEPTH = 4
  POINTERS = 4
  FALL_THROUGH = FALSE
  Word = {w1, w2, zero}
  Zero = zero
SPECIFICATION Spec
INVARIANTS
  TypeOK
  PointersAgree
PROPERTY
  ImplementsQueue
