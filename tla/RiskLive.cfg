SPECIFICATION Spec
CONSTANTS
  btc = btc
  None = None
  Market = {btc}
  UnderlyingOf <- OneMarket
  Size = {1}
  Price = {1}
  Cash = {1}
  DefaultPrice = 1
  HardLimit = 2
  SoftLimit = 0
  MaxNotional = 2
  MaxTotal = 5
  MaxDrawdown = 2
  CorrelationGate = TRUE
  StaleKill = 0
  TakerCooldown = 1
  Marks <- Unmarked
  Statuses = {"MATCHED", "CONFIRMED"}
  Refreshes = TRUE
  Favourite = TRUE
  MaxOpenOrders = 1
  MaxMarkets = 1
  MaxInFlight = 2
  MaxPosition = 1
  MaxCounted = 2
INVARIANTS HeldMarketsKnown
PROPERTY CountedOncePerMessage
