SPECIFICATION StreamFairSpec
CONSTANTS
  MaxChunks = 3
  Verify = TRUE
  SSE_HEARTBEAT_SECONDS = 2
  SSE_CHUNK_TIMEOUT_SECONDS = 5
INVARIANTS
  ReadKeepsDeadline
  CompletedIsWhole
PROPERTIES
  TerminalIsNotOverwritten
  DisconnectEnds
CHECK_DEADLOCK FALSE
