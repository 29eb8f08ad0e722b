SPECIFICATION FairSpec
CONSTANTS
  Size = 64
  Sizes <- MCSizes
  UseMaximum = FALSE
  MaxChunks = 5
INVARIANTS
  NoOverlap
  IInv
PROPERTIES
  EmptyGrants
  RingIsFifo
  Drained
CHECK_DEADLOCK FALSE
