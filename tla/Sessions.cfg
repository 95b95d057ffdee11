SPECIFICATION Spec
SYMMETRY Symmetry
CHECK_DEADLOCK FALSE
CONSTANTS
  s1 = s1
  s2 = s2
  h1 = h1
  h2 = h2
  t1 = t1
  t2 = t2
  Starters = {t1, t2}
  Flock = TRUE
  Sessions = {s1, s2}
  Stops = {h1, h2}
  ShortId <- MCShortId
  Worktree <- MCWorktree
  Project <- MCProject
  FirstFiles <- MCFirstFiles
  RecentDays = 0
  RetentionDays = 1
  MaxDay = 3
  MaxSaid = 2
  Budgets <- MCBudgets
INVARIANTS
  NotesKept
  SummaryCurrent
  InjectedBest
  ObserverHeld
