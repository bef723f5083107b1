SPECIFICATION PaperSpec
CONSTANTS
  u1 = u1
  u2 = u2
  Users = {u1}
  Requests = {r1}
  MaxTrades = 1
  Prices <- NarrowPrices
  Sides <- LongOnly
  InitialCash = 1000000
  UsagePct = 90
  StopPct = 3
  TakePct = 6
  ActivationPct = 3
  DistancePct = 3
  NoRow = NoRow
  Expired = Expired
  None = None
INVARIANTS
  HighWaterKept
