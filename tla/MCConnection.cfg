SPECIFICATION FairSpec
CONSTANTS
  Descriptors = {d1, d2, d3}
  None = None
  MaxWaiting = 2
INVARIANTS
  OwnsDescriptors
  IInv
PROPERTIES
  Reconnects
  ServesNext
CHECK_DEADLOCK FALSE
