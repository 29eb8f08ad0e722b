SPECIFICATION FairBridge
CONSTANTS
  Fps = 2
  Packets <- MCPackets
  Immediate = Immediate
  Horizon = 3
  MaxMessages = 3
  MaxStops = 1
  QueueSize = 1
  RingSize = 2
  MaxDatagrams = 3
INVARIANTS
  BridgeTypeOK
  InItsPlace
  Prompt
  SameFrame
PROPERTIES
  EveryMessageRuns
  DatagramsInOrder
  QueuedIsHandled
  FramesGoOn
