SPECIFICATION Spec
CONSTANTS
  r1 = r1
  r2 = r2
  r3 = r3
  Null = Null
  Requests <- TwoRequests
  Digest <- SameBody
  Streaming = {r1, r2}
  AttemptLimits = {1, 2}
  RollbackExpires = FALSE
  LEASE_SECONDS = 1
  DEFAULT_TTL_SECONDS = 2
  MaxLag = 0
  MaxClock = 3
  MaxRecords = 2
INVARIANT AttemptsAreBounded
PROPERTIES
  EndsUnderLease UsesLedger ImplementsLifecycle
CHECK_DEADLOCK FALSE
