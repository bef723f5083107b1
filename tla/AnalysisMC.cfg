SPECIFICATION AnalysisSpec
CONSTANTS
  Components = {"indicators", "table", "rows", "batch", "decision"}
  Missing = Missing
  Default = Default
  Invalid = Invalid
  Settings <- SomeSettings
  Factory <- SomeFactory
  Tables = {20, 300}
  MinCandles = 30
  MemoLimit = 1
  MaxCalls = 1
  Keys = {"a", "b", "c"}
  Failing = {"c"}
  Threads = {t1, t2}
  Batches <- SomeBatches
  TTL = 2
  MaxSize = 1
  MaxClock = 3
  Order <- SomeOrder
  Readings <- SampleReadings
INVARIANTS
  JudgementIsMonotone
  ServedIsFresh
  RowsKeepTheirResult
PROPERTIES
  ColumnsAreCausal
  WarmupIsCurrent
  BuyMatchesRisk
CHECK_DEADLOCK FALSE
