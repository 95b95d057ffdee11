SPECIFICATION Spec
CHECK_DEADLOCK FALSE
CONSTANTS
  p1 = p1
  p2 = p2
  e1 = e1
  e2 = e2
  Stores = {p1, p2}
  Keys <- MCKeys
  Values <- MCValues
  Valid <- MCValid
  Evolvers = {e1, e2}
  Texts = {"t1", "t2"}
  FirstText = "t1"
  FirstVersions <- MCFirstVersions
  Skills = {"a"}
  Roots <- MCRoots
  Reasons = {"r1", "r2"}
  Variants = {"baseline", "a1", "a2"}
  Amended = {"a1", "a2"}
  TicksPerDay = 2
  ShortDays = 1
  LongDays = 2
  Threshold = 1000
  MinRuns = 2
  WindowSize = 3
  PatternThreshold = 2
  Budgets <- MCBudgets
INVARIANTS
  RowsSurvive
  MigrationAtomic
  HistoryTrue
  TornLinesCostOne
  ReportsAgree
