SPECIFICATION Spec
CONSTANTS
  btc = btc
  eth = eth
  usdt = usdt
  Bases = {btc, eth}
  Quote = usdt
  FeePct = 10
  Deposit <- TestDeposit
  Mids <- TestMids
  HalfSpread = 10
  Quantities <- TestQuantities
  LimitPrices <- TestLimits
  MaxOrders = 3
  NoOrder = NoOrder
  None = None
INVARIANTS
  NoCrossedOrder
  RecordsBalance
PROPERTIES
  ImplementsSettlement
