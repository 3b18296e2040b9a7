SPECIFICATION IngestSpec
CONSTANTS
  r1 = r1
  r2 = r2
  u1 = u1
  Requests = {r1, r2, u1}
  Uploads = {u1}
  Text <- SomeText
  ChunkSize = 6
  Overlap = 2
  Unstorable = {r2}
  ALLOW_SYNC_INGEST_FALLBACK = TRUE
  DatabaseErrors = TRUE
  Null = Null
  MaxCrashes = 1
INVARIANTS
  ReadyIsWhole
  StoredOnce
  AnswerIsBacked
CHECK_DEADLOCK FALSE
