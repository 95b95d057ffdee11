SPECIFICATION PaperSpec
CONSTANTS
  Missing = Missing
  NumMarkets = 2
  Books <- MixedBooks
  Cfg <- Config
  Distant = {2}
  Listings = {{1}, {1, 2}}
  MaxEntries = 4
INVARIANTS RiskHeld BalanceExplained
