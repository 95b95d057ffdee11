SPECIFICATION FairSpec
CONSTANTS
  Token = {t1}
  Side = {"Buy", "Sell"}
  Price = {0, 2}
  Size = {1}
  OrderId = {o1, o2}
  ApiTask = {a1}
  MaxOpenOrders = 1
  MaxIntents = 2
  Gaps = {1}
  HeartbeatsEnabled = TRUE
  LostReplies = TRUE
  Crashes = TRUE
  None = None
  RequoteMinAge = 1
  CancelReplaceInterval = 1
  QuoteTtl = 1
  RequotePriceTicks = 2
  RequoteSizeBps = 1800
  TickSize = 1
  AgeCap = 2
INVARIANT OpenOrdersWithinCap
PROPERTIES SweepLeavesNothingStale CycleEnds
