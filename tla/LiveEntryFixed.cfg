SPECIFICATION Spec
CONSTANTS
  Requests = {r1}
  Settings <- AllSettings
  Limits <- BotConfig
  FixedPosition = 10
  Deposits = {11, 14, 40}
  Prices = {2, 3}
  None = None
INVARIANTS
  EntryIsFixedSize
