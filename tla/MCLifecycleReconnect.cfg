SPECIFICATION FairSpec
CONSTANTS
  AutoReconnect = TRUE
  MaxSignals = 0
PROPERTIES
  GoesOn
CHECK_DEADLOCK FALSE
