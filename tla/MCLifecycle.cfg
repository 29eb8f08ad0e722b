SPECIFICATION FairSpec
CONSTANTS
  AutoReconnect = TRUE
  MaxSignals = 2
INVARIANTS
  UsesWhatIsThere
  ReleasesAll
  KeepsTrying
  BeatIsThere
PROPERTIES
  ReleasesOnce
  Stops
CHECK_DEADLOCK FALSE
