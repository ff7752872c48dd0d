SPECIFICATION PartsSpec
CONSTANTS
  Prizes <- MCPrizes
  InitialQuota = 2
  MaxRetries = 2
  MaxFaults = 2
  KeyCount = 4
  CardsOf <- MCCardsOf
  Retention = 1
  MaxTraceTime = 3
  MaxSaves = 2
  MaxLeaves = 1
  MaxPanics = 1
  Cooldown = 2
  MaxTime = 4
  Parts = {"quota", "search", "trace", "status", "manual", "config"}
  Goroutines = {g1, g2, g3}
  NoError = NoError
  c1 = c1
  c2 = c2
  NoCard = NoCard
  Watched = {w}
  Requests = {w, r2}
  NoRequest = NoRequest
  NoStatus = NoStatus
  Testers = {t1, t2}
  Handlers = {w, h2}
  Readers = {p1}
  NoConfig = NoConfig
INVARIANTS
  QuotaIsSafe
  SearchIsHonest
  TraceIsSound
  StatusIsSound
  DoubleTestNeedsRace
  ConfigIsSound
PROPERTY
  WorkEnds
CHECK_DEADLOCK FALSE
