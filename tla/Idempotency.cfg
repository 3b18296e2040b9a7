SPECIFICATION LedgerSpec
CONSTANTS
  r1 = r1
  r2 = r2
  r3 = r3
  Null = Null
  Requests <- MCRequests
  Digest <- MCDigest
  LEASE_SECONDS = 1
  DEFAULT_TTL_SECONDS = 2
  MaxLag = 1
  MaxClock = 4
  MaxRecords = 3
INVARIANTS
  OneWinner
  ReplayIsCommitted
PROPERTIES
  CompletedIsStable
  TakeoverAfterExpiry
CHECK_DEADLOCK FALSE
