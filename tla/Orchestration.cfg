CONSTANTS
  Runs = {"a", "b"}
  Words = {"s", "x", "y"}
  Plans <- MCPlans
  Seeds = {"notes"}
  Watched <- MCWatched
  MaxFailures = 1
SPECIFICATION Spec
CHECK_DEADLOCK FALSE
INVARIANTS
  FailureUndone
  RunsComplete
PROPERTIES
  RollbackTakesOwn
  SnapshotAccepted
