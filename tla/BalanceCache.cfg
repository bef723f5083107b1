SPECIFICATION FairSpec
CONSTANTS
  Threads = {t1, t2}
  InitialFree = 3
  MaxOrders = 2
  EmptyAnswers = TRUE
  None = None
  Empty = Empty
INVARIANTS
  CacheSound
  ReadsAreCurrent
  ZeroIsNeverInvented
PROPERTIES
  StaleCacheDies
