SPECIFICATION MCSpec
CONSTANTS
  Payloads <- MCPayloads
  End = 192
  Esc = 219
  EndReplace = 220
  EscReplace = 221
  BufSize = 10
  RingSize = 1
  MaxClients = 2
  Lengths <- MCLengths
  Reserved = 4
  MaxPrefix = 5
  Chunks <- MCChunks
  TxSize = 6
  MaxParts = 2
  MaxLinks = 2
INVARIANTS
  FramingTypeOK
  RoundTrips
  PrefixedInOrder
  UnhurtIsDelivered
PROPERTIES
  InOrder
  UnhurtArrive
  StuckWhenRefused
  AllArrive
  NoticesTheEnd
  EveryChunkGoes
CHECK_DEADLOCK FALSE
