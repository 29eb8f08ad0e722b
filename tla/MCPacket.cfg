SPECIFICATION Spec
CONSTANTS
  Messages <- MCMessages
  Timetags = {Immediate, Then}
  Immediate = Immediate
  Bundle = Bundle
  Room = 26
  MaxDepth = 2
  MaxMessages = 3
INVARIANTS
  WholeIsRead
  CrashesOnLoneMessages
  StaysInside
  ForgedIsWritten
CHECK_DEADLOCK FALSE
