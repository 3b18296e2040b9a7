SPECIFICATION TurnSpec
CONSTANTS
  c1 = c1
  c2 = c2
  c3 = c3
  c4 = c4
  c5 = c5
  NoValue = NoValue
  Tenant = "tenant"
  Corpus <- SomeCorpus
  SearchLimit = 2
  FetchFloor = 4
  RrfK = 60
  PreambleChars = 1
  SourceChars = 1
  Scopes <- SomeScopes
  BotPrompts = {0, 2}
  Prompts = {0, 3, 18}
  Histories <- SomeHistories
  BlankRuns = {0, 1}
  ContextWindow = 12
  ReservedOutput = 2
  MaxHistoryTokens = 6
  MaxHistoryMessages = 2
  MaxSourceMessages = 3
  MaxCompactionTokens = 4
  CharsPerToken = 2
  QueryLimit = 3
  Label <- Labels
  EnvelopeChars = 3
  MarkerChars = 2
  Wire <- SomeWire
  MaxLines = 4
  Attempts = 3
  Backoff = 2
  Cap = 3
  Deadline = 6
  Headers <- SomeHeaders
  Infinity = Infinity
  NaN = NaN
  Garbage = Garbage
  Missing = Missing
INVARIANTS ContextFits ContextIsNewestPart RankingIsFused
  TextIsWire UsageIsFinalReport OnlyTransientRepeated
CHECK_DEADLOCK FALSE
