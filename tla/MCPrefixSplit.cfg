SPECIFICATION Spec
CONSTANTS
  Lengths <- MCLengths
  Reserved = 4
  RingSize = 1
  MaxPrefix = 5
INVARIANTS
  NeverAborts
CHECK_DEADLOCK FALSE
