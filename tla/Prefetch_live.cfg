CONSTANTS
  DEPTH = 2
  POINTERS = 2
  FALL_THROUGH = FALSE
  Zero = zero
  Word = {0, 1, zero}
  WORDS = 2
  PULP_OBI = FALSE
  COREV_PULP = TRUE
SPECIFICATION FairSpec
PROPERTY
  KeepsFetching
