SPECIFICATION Spec
CONSTANTS
  NumChannels = 2
  NumPriorities = 2
  Messages <- MCMessages
  NoMessage = NoMessage
INVARIANTS
  TypeOK
  NothingAhead
PROPERTIES
  DoesWhatTheReadmeSays
