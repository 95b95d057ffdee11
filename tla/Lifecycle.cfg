SPECIFICATION FairSpec
CONSTANTS
  NumSlots = 2
  Price = {0, 3}
  Size = {1}
  Gaps = {1, 2, 6}
  Halts = TRUE
  None = None
  RequoteMinAge = 3
  CancelReplaceInterval = 2
  QuoteTtl = 5
  RequotePriceTicks = 2
  RequoteSizeBps = 1800
  TickSize = 1
  AgeCap = 6
PROPERTIES MovedQuoteReplaced UnquotedOrderSwept
