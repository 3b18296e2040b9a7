SPECIFICATION CBSpec
CONSTANTS
  r1 = r1
  r2 = r2
  r3 = r3
  u1 = u1
  u2 = u2
  Null = Null
  Requests <- TwoRequests
  Digest <- SameBody
  Streaming = {r1, r2}
  AttemptLimits = {2}
  RollbackExpires = FALSE
  LEASE_SECONDS = 0
  DEFAULT_TTL_SECONDS = 1
  MaxLag = 0
  MaxClock = 2
  MaxRecords = 1
  Organization = organization
  Callers = {r1, r2, r3}
  Executes <- OwnExecution
  Reservations <- TwoExecutions
  Users = {u1, u2}
  UserOf <- TwoUsers
  PromptLength <- Lengths
  Verify <- Verified
  InputCharsPerToken = 4
  OutputTokens = 1
  UserLimit = 6
  OrganizationLimit = 7
  TtlSeconds = 2
  Usages = {1, 6}
INVARIANTS
  CompletedUsageIsSettled
  ChargesAreKept
  CountersExpire
VIEW View
SYMMETRY Symmetric
CHECK_DEADLOCK FALSE
