SPECIFICATION ServicesSpec
CONSTANTS
  Components = {"regime", "lead", "backtest", "api", "ccxt", "config"}
  NoTracker = NoTracker
  Unquoted = Unquoted
  BTC = "BTC"
  Stables = {"USDT"}
  Coins = {"BTC", "A", "USDT"}
  Stablecoins = {"USDT"}
  Proxies = {"BTC"}
  Bitcoin = "BTC"
  Markets <- LeadMarkets
  Settings <- LeadSettings
  Changes <- LeadChanges
  LeadHistory = 3
  NoMove = NoMove
  MaxEvaluations = 4
  Scans <- RegimeScans
  Detector <- DetectorSettings
  Quiet <- QuietRows
  WarmUps = {0, 9}
  MaxScans = 4
  Histories <- SampleHistories
  Configs <- SampleConfigs
  Days = {0}
  DefaultDays = 7
  MaxDays = 30
  Delays = {3}
  Threads = {t1, t2}
  CoinIds = {"a", "b", "c", "d", "e", "x", "y", "z"}
  MaxRetries = 2
  Kinds <- SomeKinds
  Ranking <- SomeMarket
  Totals = {2, 3, 4}
  Page = 2
  Chunks <- SomeChunks
  Answers <- SomeAnswers
  MaxJobs = 2
  ExchangeMarkets <- SomeMarkets
  CallerSymbols <- SomeSymbols
  Own <- SomeOwn
  QuoteCurrency = "USDT"
  Futures = TRUE
  PriceRequired = TRUE
  MaxOrders = 6
  MaxOperations = 2
  Files <- SomeFiles
  Secrets = {"s1", "s2"}
  Stops = {3, 4}
  Tomans = {20}
  MaxKeys = 3
  MaxSaves = 2
INVARIANTS
  ConfirmationDecides
  ExitIsFirst
  ReportAgrees
  MetricsMatch
  AnswersAreComplete
  CancelledIsNotOpen
  OrdersAreMeant
  RestartFindsOldOrNew
PROPERTIES
  CandidateWasWatched
  JobsEnd
CHECK_DEADLOCK FALSE
