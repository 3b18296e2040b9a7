SPECIFICATION Spec
CONSTANTS
  r1 = r1
  r2 = r2
  r3 = r3
  Null = Null
  Requests <- TwoRequests
  Digest <- SameBody
  Streaming = {r2}
  AttemptLimits = {2}
  RollbackExpires = FALSE
  LEASE_SECONDS = 0
  DEFAULT_TTL_SECONDS = 9
  MaxLag = 0
  MaxClock = 2
  MaxRecords = 1
PROPERTIES
  AnswersAreKept
VIEW View
CHECK_DEADLOCK FALSE
