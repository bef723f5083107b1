SPECIFICATION PaperFairSpec
CONSTANTS
  u1 = u1
  u2 = u2
  Users = {u1, u2}
  Requests = {r1}
  MaxTrades = 2
  Prices <- WidePrices
  Sides <- LongAndShort
  InitialCash = 100000
  UsagePct = 90
  StopPct = 13
  TakePct = 25
  ActivationPct = 15
  DistancePct = 25
  NoRow = NoRow
  Expired = Expired
  None = None
PROPERTIES
  LevelsAreKept
  NoMissedExit
  OverdraftIsExplained
  ExitHappens
