SPECIFICATION Spec
CONSTANTS
  Size = 64
  Sizes <- MCSizes
  UseMaximum = TRUE
  MaxChunks = 5
INVARIANTS
  NoOverlap
CHECK_DEADLOCK FALSE
