SPECIFICATION Spec
CONSTANTS
  Checks = {h1, h2}
  Servers = {s1, s2}
  Configured = {s1}
  Reconnects = TRUE
  Ttl = 2
  Backoff = 1
  MaxBackoff = 2
  Stops = {p1, p2}
  Paths <- MCPaths
  Language <- MCLanguage
  ProjectRoot <- MCProjectRoot
  TsConfig <- MCTsConfig
  ConfigsOf <- MCConfigsOf
  TotalBudget = 7
  Calls = {c1, c2}
  Protected <- MCProtected
  EditLists <- MCEditLists
  Settings <- MCSettings
  Budgets <- MCBudgets
SYMMETRY Symmetry
INVARIANTS
  VerdictsFounded
  MarksKept
  WithinBudget
  ProcessedOnce
  VerdictsDecide
  EditsReachBatch
CHECK_DEADLOCK FALSE
