CONSTANTS
  DEPTH = 2
  POINTERS = 2
  FALL_THROUGH = FALSE
  Zero = zero
  Word = {0, 1, 2, 3, zero}
  WORDS = 4
  PULP_OBI = FALSE
  COREV_PULP = TRUE
SPECIFICATION Spec
INVARIANTS
  TypeOK
  OutstandingCounted
  RoomForResponses
  FlushesBounded
  HwlpEndRequested
PROPERTIES
  RequestStable
  ImplementsStream
