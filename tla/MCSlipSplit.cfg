SPECIFICATION Spec
CONSTANTS
  Payloads <- MCPayloads
  End = 192
  Esc = 219
  EndReplace = 220
  EscReplace = 221
  BufSize = 12
  RingSize = 3
  MaxClients = 2
INVARIANTS
  RemainderIsKept
CHECK_DEADLOCK FALSE
