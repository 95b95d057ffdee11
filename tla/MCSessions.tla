----------------------------- MODULE MCSessions -----------------------------
(* Two sessions of one id suffix in two worktrees of a project, and an old *)
(* file of another project, with a twin in the legacy directory.           *)
EXTENDS Sessions

CONSTANTS s1, s2, h1, h2, t1, t2
MCShortId == (s1 :> "i1") @@ (s2 :> "i1")
MCWorktree == (s1 :> "w1") @@ (s2 :> "w2")
MCProject == [s \in Sessions |-> "p"]
Old(dir, w, p, body) == [dir |-> dir, day |-> 1, id |-> "i2"] :> File([worktree |-> w, project |-> p], body, 1)
MCFirstFiles == Old("session-data", "w3", "q", <<Summary(1)>>) @@ Old("sessions", "w2", "p", <<Placeholder>>)
None == [e \in {"start", "stop", "compact", "close", "observer", "say", "note", "day", "fault"} |-> 0]
\* one session, two sessions in one file, a hook that is killed, days that pass, the observer
MCBudgets ==
  {
    [None EXCEPT !["start"] = 1, !["stop"] = 3, !["compact"] = 1, !["say"] = 2, !["note"] = 1],
    [None EXCEPT !["start"] = 2, !["stop"] = 2, !["say"] = 2, !["note"] = 1],
    [None EXCEPT !["start"] = 1, !["stop"] = 2, !["compact"] = 1, !["say"] = 1, !["note"] = 1, !["fault"] = 1],
    [None EXCEPT !["start"] = 2, !["stop"] = 1, !["compact"] = 1, !["say"] = 1, !["day"] = 2],
    [None EXCEPT !["start"] = 3, !["close"] = 3, !["observer"] = 2, !["fault"] = 1] }
Symmetry == Permutations(Stops) \cup Permutations(Starters)
=============================================================================
