----------------------------- MODULE MCRecords ------------------------------
(* A database of two processes, a skill with a missing version, and logs.  *)
EXTENDS Records

CONSTANTS p1, p2, e1, e2
Key(table, id) == [table |-> table, id |-> id]
MCKeys == {Key("sessions", 1), Key("skill_runs", 1), Key("skill_runs", 2), Key("skill_runs", 3),
           Key("governance_events", 1)}
Run(outcome, reason, at) == [skill |-> "a", outcome |-> outcome, reason |-> reason, at |-> at]
MCValues ==
  [sessions |-> {"snapshot", "none"}, governance_events |-> {"pending", "resolved"},
   skill_runs |-> {Run("failure", "r1", 1), Run("failure", "r2", 2), Run("partial", "none", 1)}]
MCValid == [MCValues EXCEPT !["sessions"] = {"snapshot"}]
MCRoots == [curated |-> {"a"}, learned |-> {"a"}, imported |-> {}]
MCFirstVersions == 2 :> "t1"
None == [e \in {"open", "write", "kill", "evolve", "edit", "stop", "propose", "run", "observe", "tear", "tick"} |-> 0]
\* two processes and a kill, one that records runs; evolvers; each log
MCBudgets ==
  {
    [None EXCEPT !["open"] = 2, !["write"] = 2, !["kill"] = 1],
    [None EXCEPT !["open"] = 1, !["write"] = 4],
    [None EXCEPT !["evolve"] = 2, !["edit"] = 1, !["stop"] = 1, !["propose"] = 1],
    [None EXCEPT !["run"] = 4, !["tick"] = 4],
    [None EXCEPT !["run"] = 2, !["observe"] = 2, !["tear"] = 2],
    [None EXCEPT !["observe"] = 5] }
=============================================================================
