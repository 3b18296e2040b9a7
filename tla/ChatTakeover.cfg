SPECIFICATION Spec
CONSTANTS
  r1 = r1
  r2 = r2
  r3 = r3
  Null = Null
  Requests <- ThreeRequests
  Digest <- SameBody
  Streaming = {r1, r2}
  AttemptLimits = {2}
  RollbackExpires = FALSE
  LEASE_SECONDS = 0
  DEFAULT_TTL_SECONDS = 9
  MaxLag = 0
  MaxClock = 2
  MaxRecords = 1
INVARIANTS
  LedgerAgrees
  AnswerIsDurable
  EndedIsAudited
  OwnerCanFinalize
VIEW View
SYMMETRY Symmetric
CHECK_DEADLOCK FALSE
