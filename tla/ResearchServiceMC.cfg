SPECIFICATION Spec
CONSTANTS
  \* outcomes
  Callers = {c1, c2}
  SignalIds = {s1, s2}
  Horizons = {"close"}
  SignalLimit = 2
  SnapshotLimit = 1
  OutcomeLimit = 2
  Hours = {111, 112}
  MaxSignalRows = 2
  MaxSnapshots = 1
  MaxCalls = 3
  MaxLost = 1
  \* AI budget
  Analysts = {a1, a2}
  News = {n1, n2}
  NoNews = NoNews
  Cap = 3
  Reserve = 2
  Costs = {1, 2}
  ImageReserve = 2
  MaxImages = 1
  MaxUnusable = 1
  MaxMonths = 1
  MaxAbandoned = 1
  \* watchlists
  Editors = {e1, e2}
  Names = {core, swing}
  Symbols = {aapl}
  ReadLimit = 2
  NoRequest = NoRequest
  MaxEdits = 5
  \* the operator's refresh
  Tries = 3
  Feeds = 2
  MaxRefreshes = 1
  MaxKilled = 1
  \* selection
  Snapshots <- MCSnapshots
  Evidence <- MCEvidence
  MaxItems = 3
  CurrentHour = 40
  RankLimit = 2
  TopLimit = 1
  \* daily runs
  DailyRuns = {r1, r2}
  Pipelines = {p1}
  Researches = {q1}
  Tickers = {x, y}
  x = x
  o1 = o1
  o2 = o2
  Observations = {o1, o2}
  SymbolOf <- MCSymbolOf
  OperationalLimit = 1
  ReportLimit = 1
  ResearchLimits = {1}
  MaxStopped = 1
  NoScreen = NoScreen
  \* copies
  i1 = i1
  i2 = i2
  f1 = f1
  Backups = {b1}
  Items = {i1, i2}
  Filings = {f1}
  EventsOf <- MCEventsOf
  NewsItems = {n3}
  \* the bridge
  WatchedSymbols <- MCWatched
  Strikes = 1
  ContractLimit = 2
  Skews <- MCSkews
  StaleAfter = 3
  MaxBehind = 2
  MaxAhead = 1
  HealthLimit = 2
  OtherProviders = {"finviz_elite_api"}
  Minutes = {0, 4}
  MaxHealthRows = 2
INVARIANTS
  ServiceTypeOK
  CompletedIsFinal
  SamplesAreSignals
  SpendWithinOverrun
  PaidPerOverlap
  VersionsTrail
  SuccessIsHonest
  RankingCanonical
  VerdictsHold
  ReportBacked
  CopyIsConsistent
  ReadyIsRecent
  QuotesAreOwn
CHECK_DEADLOCK FALSE
