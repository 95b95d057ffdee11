SPECIFICATION Spec
CONSTANTS
  Token = {t1, t2}
  Side = {"Buy"}
  Price = {0, 2}
  Size = {1}
  OrderId = {o1, o2, o3}
  ApiTask = {}
  MaxOpenOrders = 2
  MaxIntents = 3
  Gaps = {1}
  HeartbeatsEnabled = TRUE
  LostReplies = FALSE
  Crashes = FALSE
  None = None
  RequoteMinAge = 1
  CancelReplaceInterval = 1
  QuoteTtl = 1
  RequotePriceTicks = 2
  RequoteSizeBps = 1800
  TickSize = 1
  AgeCap = 2
SYMMETRY Symmetry
INVARIANTS TypeOK MapsAgreeAtRest
PROPERTY ImplementsQuoteBook
