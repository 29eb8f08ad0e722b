SPECIFICATION Spec
CONSTANTS
  Payloads <- MCPayloads
  End = 192
  Esc = 219
  EndReplace = 220
  EscReplace = 221
  BufSize = 4
  RingSize = 1
  MaxClients = 2
PROPERTIES
  OrderlyShutdown
CHECK_DEADLOCK FALSE
