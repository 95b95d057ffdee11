------------------------- MODULE OrchestrationProofs -------------------------
(***************************************************************************)
(* Proofs about starting workers in worktrees: a failure leaves nothing of *)
(* the run's own behind, a rollback takes nothing else, a run that was     *)
(* alone has all it needs, and a worker is found without an objective for  *)
(* a known reason only, for any number of runs, plans and failures.        *)
(***************************************************************************)
EXTENDS Orchestration, SequenceTheorems, TLAPS

-----------------------------------------------------------------------------
(* The inductive invariant: what a run owns, at each point of its way.     *)

IsSequence(s) == \E S : s \in Seq(S)

Shape ==
  /\ tree = [n \in Names |-> tree[n]] /\ branch = [n \in Names |-> branch[n]]
  /\ session = [s \in Sessions |-> session[s]]
  /\ pc = [r \in Runs |-> pc[r]] /\ next = [r \in Runs |-> next[r]]
  /\ created = [r \in Runs |-> created[r]] /\ failedAdd = [r \in Runs |-> failedAdd[r]]
  /\ opened \in [Runs -> BOOLEAN] /\ errors \in [Runs -> BOOLEAN]
  /\ \A r \in Runs : plan[r] \in Configs

Before == {"idle", "check", "prune", "kill", "cleanTree", "cleanPrune", "cleanBranch", "write", "fill"}
UndoingWorker == {"undoTree", "undoPrune", "undoBranch"}

\* Where a run is, and how far it has come.
Place(r) ==
  /\ IsSequence(created[r])
  /\ pc[r] \in Before => created[r] = <<>> /\ opened[r] = FALSE
  /\ pc[r] = "undoSession" => next[r] = Len(created[r])
  /\ pc[r] \in UndoingWorker => next[r] \in 1..Len(created[r])

Made(r, k) == Name(plan[r], created[r][k])

\* How many of the worktrees and branches it made are its own still, and
\* whether the session is.
TreesLeft(r) ==
  IF pc[r] = "undoTree" THEN next[r]
  ELSE IF pc[r] \in {"undoPrune", "undoBranch"} THEN next[r] - 1
  ELSE IF pc[r] \in {"undoFiles", "failed"} THEN 0 ELSE Len(created[r])

BranchesLeft(r) ==
  IF pc[r] \in UndoingWorker THEN next[r]
  ELSE IF pc[r] \in {"undoFiles", "failed"} THEN 0 ELSE Len(created[r])

SessionLeft(r) ==
  opened[r] = TRUE /\ pc[r] \notin UndoingWorker \cup {"undoFiles", "failed"}

\* Without errors a run has no more than that ...
NoMore(r) == errors[r] = FALSE =>
  /\ \A n \in Names : tree[n].by = r => \E k \in 1..TreesLeft(r) : n = Made(r, k)
  /\ \A n \in Names : branch[n] = r =>
       n \in failedAdd[r] \/ \E k \in 1..BranchesLeft(r) : n = Made(r, k)
  /\ \A s \in Sessions : session[s] = r => SessionLeft(r) /\ s = Session(r)

\* ... and, unless somebody has taken it, no less.
NoLess(r) == r \notin robbed /\ pc[r] \notin {"stuck", "killed"} =>
  /\ \A k \in 1..TreesLeft(r), n \in Names : n = Made(r, k) => tree[n].by = r
  /\ \A k \in 1..BranchesLeft(r), n \in Names : n = Made(r, k) => branch[n] = r
  /\ \A s \in Sessions : SessionLeft(r) /\ s = Session(r) => session[s] = r
  /\ \A i, j \in 1..Len(created[r]), n \in Names : n = Made(r, i) /\ n = Made(r, j) => i = j

\* Pruning forgets worktrees without a directory, which those of the runs have.
HasDirectories == \A n \in Names : tree[n].by \in Runs => tree[n].present

OwnInv == Shape /\ HasDirectories /\ \A r \in Runs : Place(r) /\ NoMore(r) /\ NoLess(r)

-----------------------------------------------------------------------------
(* What a step of one run does to the others.                              *)

\* Nothing of another run's progress changes, and things change hands only to
\* the run that takes the step, or to nobody.
Leaves(q) ==
  /\ plan' = plan
  /\ \A r \in Runs \ {q} :
       /\ pc'[r] = pc[r] /\ next'[r] = next[r] /\ created'[r] = created[r]
       /\ opened'[r] = opened[r] /\ errors'[r] = errors[r] /\ failedAdd'[r] = failedAdd[r]
  /\ \A n \in Names : tree'[n] = tree[n] \/ tree'[n].by = Nobody
                         \/ (tree'[n].by = q /\ tree'[n].present)
  /\ \A n \in Names : branch'[n] \in {branch[n], Nobody, q}
  /\ \A s \in Sessions : session'[s] \in {session[s], Nobody, q}
  /\ Shape'

\* Pruning and removing leave every other worktree that is there.
LEMMA PruneLeaves ==
  ASSUME Shape, NEW m
  PROVE  /\ WithoutTree(m) = [n \in Names |-> WithoutTree(m)[n]]
         /\ \A n \in Names : /\ WithoutTree(m)[n] = tree[n] \/ WithoutTree(m)[n] = NoTree
                             /\ n # m => WithoutTree(m)[n] = tree[n]
                             /\ n = m => WithoutTree(m)[n] = NoTree
         /\ Pruned(tree) = [n \in Names |-> Pruned(tree)[n]]
         /\ \A n \in Names : /\ Pruned(tree)[n] = tree[n] \/ Pruned(tree)[n] = NoTree
                             /\ tree[n].present => Pruned(tree)[n] = tree[n]
         /\ NoTree.by = Nobody
BY DEF WithoutTree, Pruned, NoTree, Shape

LEMMA GoToLeaves ==
  ASSUME Shape, NEW r \in Runs, NEW where, GoTo(r, where)
  PROVE  /\ pc' = [q \in Runs |-> pc'[q]]
         /\ pc'[r] = where /\ \A q \in Runs \ {r} : pc'[q] = pc[q]
BY DEF GoTo, Shape

LEMMA AtWorkerLeaves ==
  ASSUME Shape, NEW r \in Runs, NEW i, AtWorker(r, i)
  PROVE  /\ next' = [q \in Runs |-> next'[q]]
         /\ next'[r] = i /\ \A q \in Runs \ {r} : next'[q] = next[q]
BY DEF AtWorker, Shape

\* On to the next worker, or past the last one.
LEMMA AdvanceLeaves ==
  ASSUME Shape, NEW r \in Runs, NEW again, NEW after, Advance(r, again, after)
  PROVE  /\ pc' = [q \in Runs |-> pc'[q]] /\ next' = [q \in Runs |-> next'[q]]
         /\ pc'[r] \in {again, after}
         /\ \A q \in Runs \ {r} : pc'[q] = pc[q] /\ next'[q] = next[q]
BY GoToLeaves, AtWorkerLeaves DEF Advance

\* Where a rollback goes on.
LEMMA AfterUndoLeaves ==
  ASSUME Shape, NEW r \in Runs, AfterUndo(r),
         pc[r] \in UndoingWorker \cup {"undoSession"}
  PROVE  /\ pc' = [q \in Runs |-> pc'[q]] /\ next' = [q \in Runs |-> next'[q]]
         /\ \A q \in Runs \ {r} : pc'[q] = pc[q] /\ next'[q] = next[q]
         /\ pc[r] = "undoSession" =>
              /\ next'[r] = next[r]
              /\ next[r] = 0 => pc'[r] = "undoFiles"
              /\ next[r] # 0 => pc'[r] = "undoTree"
         /\ pc[r] = "undoTree" => next'[r] = next[r] /\ pc'[r] = "undoPrune"
         /\ pc[r] = "undoPrune" => next'[r] = next[r] /\ pc'[r] = "undoBranch"
         /\ pc[r] = "undoBranch" =>
              /\ next'[r] = next[r] - 1
              /\ next[r] = 1 => pc'[r] = "undoFiles"
              /\ next[r] # 1 => pc'[r] = "undoTree"
<1>1. CASE pc[r] = "undoSession"
  <2>1. GoTo(r, IF next[r] = 0 THEN "undoFiles" ELSE "undoTree") /\ next' = next
    BY <1>1 DEF AfterUndo
  <2> QED
    BY <1>1, <2>1, GoToLeaves DEF Shape
<1>2. CASE pc[r] = "undoTree"
  <2>1. GoTo(r, "undoPrune") /\ next' = next
    BY <1>2 DEF AfterUndo
  <2> QED
    BY <1>2, <2>1, GoToLeaves DEF Shape
<1>4. CASE pc[r] = "undoPrune"
  <2>1. GoTo(r, "undoBranch") /\ next' = next
    BY <1>4 DEF AfterUndo
  <2> QED
    BY <1>4, <2>1, GoToLeaves DEF Shape
<1>3. CASE pc[r] = "undoBranch"
  <2>1. GoTo(r, IF next[r] = 1 THEN "undoFiles" ELSE "undoTree") /\ AtWorker(r, next[r] - 1)
    BY <1>3 DEF AfterUndo
  <2> QED
    BY <1>3, <2>1, GoToLeaves, AtWorkerLeaves
<1> QED
  BY <1>1, <1>2, <1>3, <1>4 DEF UndoingWorker

\* A command that names a session ends one, if any, and the panes with it.
LEMMA EndLeaves ==
  ASSUME Shape, NEW s, EndSession(s)
  PROVE  /\ session' = [t \in Sessions |-> session'[t]]
         /\ \A t \in Sessions : session'[t] = IF t = s THEN Nobody ELSE session[t]
  BY DEF EndSession, Shape

LEMMA MetIs ==
  ASSUME NEW s, NEW t \in Met(s)
  PROVE  /\ session[s] # Nobody => t = s
         /\ session[s] = Nobody => t \in Sessions /\ session[t] # Nobody
  BY DEF Met

\* The step of a run leaves the progress of the others.
LEMMA StepLeaves ==
  ASSUME Shape, NEW r \in Runs, Cleanup(r) \/ Execute(r) \/ Undo(r)
  PROVE  Leaves(r)
<1>1. CASE Prune(r)
  BY <1>1, PruneLeaves, GoToLeaves DEF Prune, progress, tmux, Leaves, Shape
<1>2. CASE KillExisting(r)
  <2>1. /\ session' = [s \in Sessions |-> session'[s]]
        /\ \A s \in Sessions : session'[s] \in {session[s], Nobody}
    BY <1>2, EndLeaves DEF KillExisting, tmux, Shape
  <2> QED
    BY <1>2, <2>1, GoToLeaves DEF KillExisting, progress, git, Leaves, Shape
<1>3. CASE CleanWorktree(r)
  BY <1>3, PruneLeaves, GoToLeaves DEF CleanWorktree, progress, tmux, Leaves, Shape
<1>22. CASE CleanPrune(r)
  BY <1>22, PruneLeaves, GoToLeaves DEF CleanPrune, progress, tmux, Leaves, Shape
<1>4. CASE CleanBranch(r)
  BY <1>4, AdvanceLeaves DEF CleanBranch, progress, tmux, Leaves, Shape
<1>5. CASE RefusePlan(r)
  BY <1>5, GoToLeaves DEF RefusePlan, progress, git, tmux, Leaves, Shape
<1>6. CASE Begin(r)
  BY <1>6, GoToLeaves DEF Begin, git, tmux, Leaves, Shape
<1>7. CASE CheckSession(r)
  BY <1>7, GoToLeaves DEF CheckSession, progress, git, tmux, Leaves, Shape
<1>8. CASE OpenFile(r)
  BY <1>8, GoToLeaves DEF OpenFile, progress, git, tmux, Leaves, Shape
<1>23. CASE FillFile(r)
  <2>1. /\ pc' = [q \in Runs |-> pc'[q]] /\ next' = [q \in Runs |-> next'[q]]
        /\ \A q \in Runs \ {r} : pc'[q] = pc[q] /\ next'[q] = next[q]
    BY <1>23, GoToLeaves, AtWorkerLeaves DEF FillFile, Shape
  <2> QED
    BY <1>23, <2>1 DEF FillFile, progress, git, tmux, Leaves, Shape
<1>9. CASE AddWorktree(r)
  <2>1. /\ tree' = [n \in Names |-> tree'[n]]
        /\ \A n \in Names : tree'[n] = tree[n] \/ (tree'[n].by = r /\ tree'[n].present)
    BY <1>9 DEF AddWorktree, Shape
  <2>2. /\ branch' = [n \in Names |-> branch'[n]]
        /\ \A n \in Names : branch'[n] \in {branch[n], r}
    BY <1>9 DEF AddWorktree, Shape
  <2>3. /\ created' = [q \in Runs |-> created'[q]]
        /\ \A q \in Runs \ {r} : created'[q] = created[q]
    BY <1>9 DEF AddWorktree, Shape
  <2> QED
    BY <1>9, <2>1, <2>2, <2>3, GoToLeaves DEF AddWorktree, tmux, Leaves, Shape
<1>10. CASE AddFails(r)
  <2>1. /\ branch' = [n \in Names |-> branch'[n]]
        /\ \A n \in Names : branch'[n] \in {branch[n], r}
    BY <1>10 DEF AddFails, Shape
  <2>2. /\ failedAdd' = [q \in Runs |-> failedAdd'[q]]
        /\ \A q \in Runs \ {r} : failedAdd'[q] = failedAdd[q]
    BY <1>10 DEF AddFails, Shape
  <2> QED
    BY <1>10, <2>1, <2>2, GoToLeaves, AtWorkerLeaves DEF AddFails, StartRollback, tmux, Leaves, Shape
<1>11. CASE Overlay(r)
  BY <1>11, AdvanceLeaves DEF Overlay, progress, git, tmux, Leaves, Shape
<1>12. CASE NewSession(r)
  BY <1>12, GoToLeaves DEF NewSession, git, Leaves, Shape
<1>13. CASE SplitWindow(r)
  BY <1>13, GoToLeaves DEF SplitWindow, progress, git, tmux, Leaves, Shape
<1>14. CASE Launch(r)
  BY <1>14, AdvanceLeaves DEF Launch, progress, git, Leaves, Shape
<1>15. CASE CommandFails(r)
  <2>1. /\ pc' = [q \in Runs |-> pc'[q]] /\ next' = [q \in Runs |-> next'[q]]
        /\ \A q \in Runs \ {r} : pc'[q] = pc[q] /\ next'[q] = next[q]
    BY <1>15, GoToLeaves, AtWorkerLeaves DEF CommandFails, StartRollback, Shape
  <2> QED
    BY <1>15, <2>1 DEF CommandFails, progress, git, tmux, Leaves, Shape
<1>16. CASE UndoSession(r)
  <2>1. /\ session' = [s \in Sessions |-> session'[s]]
        /\ \A s \in Sessions : session'[s] \in {session[s], Nobody}
    BY <1>16, EndLeaves DEF UndoSession, tmux, Shape
  <2> QED
    BY <1>16, <2>1, AfterUndoLeaves DEF UndoSession, progress, git, Leaves, Shape
<1>17. CASE UndoWorktree(r)
  <2>1. /\ tree' = [n \in Names |-> tree'[n]]
        /\ \A n \in Names : tree'[n] = tree[n] \/ tree'[n].by = Nobody
    BY <1>17, PruneLeaves DEF UndoWorktree
  <2> QED
    BY <1>17, <2>1, AfterUndoLeaves DEF UndoWorktree, UndoingWorker, progress, tmux, Leaves, Shape
<1>24. CASE UndoPrune(r)
  <2>1. /\ tree' = [n \in Names |-> tree'[n]]
        /\ \A n \in Names : tree'[n] = tree[n] \/ tree'[n].by = Nobody
    BY <1>24, PruneLeaves DEF UndoPrune
  <2> QED
    BY <1>24, <2>1, AfterUndoLeaves DEF UndoPrune, UndoingWorker, progress, tmux, Leaves, Shape
<1>18. CASE UndoBranch(r)
  BY <1>18, AfterUndoLeaves DEF UndoBranch, UndoingWorker, progress, tmux, Leaves, Shape
<1>19. CASE UndoFails(r)
  <2>1. pc[r] \in UndoingWorker \cup {"undoSession"}
    BY <1>19 DEF UndoFails, Tries, UndoingWorker
  <2> QED
    BY <1>19, <2>1, AfterUndoLeaves DEF UndoFails, git, tmux, Leaves, Shape
<1>20. CASE UndoAborts(r)
  BY <1>20, GoToLeaves DEF UndoAborts, progress, git, tmux, Leaves, Shape
<1>21. CASE UndoFiles(r)
  <2>1. /\ pc' = [q \in Runs |-> pc'[q]]
        /\ \A q \in Runs \ {r} : pc'[q] = pc[q]
    BY <1>21, GoToLeaves DEF UndoFiles, Shape
  <2> QED
    BY <1>21, <2>1 DEF UndoFiles, progress, git, tmux, Leaves, Shape
<1> QED
  BY <1>1, <1>2, <1>3, <1>4, <1>5, <1>6, <1>7, <1>8, <1>9, <1>10, <1>11, <1>12, <1>13, <1>14,
     <1>15, <1>16, <1>17, <1>18, <1>19, <1>20, <1>21, <1>22, <1>23, <1>24 DEF Cleanup, Execute, Undo
-----------------------------------------------------------------------------
(* What a step leaves of a run's own.                                      *)

LEMMA LengthOf ==
  ASSUME NEW r \in Runs, Place(r)
  PROVE  /\ Len(created[r]) \in Nat
         /\ pc[r] \in Before => Len(created[r]) = 0
<1>1. PICK S : created[r] \in Seq(S)
  BY DEF Place, IsSequence
<1>2. Len(created[r]) \in Nat
  BY <1>1
<1>3. pc[r] \in Before => created[r] = <<>>
  BY DEF Place
<1> QED
  BY <1>2, <1>3

LEMMA Within ==
  ASSUME NEW m \in Nat, NEW k \in Int, k <= m
  PROVE  1..k \subseteq 1..m
OBVIOUS

LEMMA LeftWithin ==
  ASSUME NEW r \in Runs, Place(r)
  PROVE  /\ 1..TreesLeft(r) \subseteq 1..Len(created[r])
         /\ 1..BranchesLeft(r) \subseteq 1..Len(created[r])
<1> DEFINE m == Len(created[r])
<1> DEFINE k == next[r]
<1>1. /\ m \in Nat
      /\ pc[r] \in UndoingWorker => k \in 1..m
  BY LengthOf DEF Place
<1>2. \/ pc[r] = "undoTree" /\ TreesLeft(r) = k /\ BranchesLeft(r) = k
      \/ pc[r] \in {"undoPrune", "undoBranch"} /\ TreesLeft(r) = k - 1 /\ BranchesLeft(r) = k
      \/ TreesLeft(r) = 0 /\ BranchesLeft(r) = 0
      \/ TreesLeft(r) = m /\ BranchesLeft(r) = m
  BY DEF TreesLeft, BranchesLeft, UndoingWorker
<1> DEFINE t == TreesLeft(r)
<1> DEFINE b == BranchesLeft(r)
<1>3. t \in Int /\ t <= m /\ b \in Int /\ b <= m
  <2>1. \/ t = 0 /\ b = 0
        \/ t = m /\ b = m
        \/ k \in 1..m /\ t = k /\ b = k
        \/ k \in 1..m /\ t = k - 1 /\ b = k
    BY <1>1, <1>2 DEF UndoingWorker
  <2> HIDE DEF m, k, t, b
  <2> QED
    BY <2>1, <1>1
<1> HIDE DEF m
<1>4. 1..TreesLeft(r) \subseteq 1..m /\ 1..BranchesLeft(r) \subseteq 1..m
  BY <1>1, <1>3, Within
<1> QED
  BY <1>4 DEF m

\* A run that takes no step keeps what nobody takes from it.
LEMMA OthersKeep ==
  ASSUME OwnInv, NEW q, NEW r \in Runs \ {q}, Leaves(q),
         r \notin robbed' => r \notin robbed /\ ~Lost(r)
  PROVE  Place(r)' /\ NoMore(r)' /\ NoLess(r)'
<1> USE DEF Leaves
<1>1. r # Nobody /\ r # q
  BY OrchestrationAssumption
<1>2. Place(r) /\ NoMore(r) /\ NoLess(r)
  BY DEF OwnInv
<1>3. /\ pc'[r] = pc[r] /\ next'[r] = next[r] /\ created'[r] = created[r]
      /\ opened'[r] = opened[r] /\ errors'[r] = errors[r] /\ failedAdd'[r] = failedAdd[r]
      /\ plan' = plan
  OBVIOUS
<1>4. Place(r)'
  BY <1>2, <1>3 DEF Place
<1>5. /\ TreesLeft(r)' = TreesLeft(r) /\ BranchesLeft(r)' = BranchesLeft(r)
      /\ SessionLeft(r)' = SessionLeft(r) /\ Session(r)' = Session(r)
      /\ \A k : Made(r, k)' = Made(r, k)
  BY <1>3 DEF TreesLeft, BranchesLeft, SessionLeft, Session, Made
<1>6. /\ \A n \in Names : tree'[n].by = r => tree[n].by = r
      /\ \A n \in Names : branch'[n] = r => branch[n] = r
      /\ \A s \in Sessions : session'[s] = r => session[s] = r
  BY <1>1
<1>7. NoMore(r)'
  BY <1>2, <1>3, <1>5, <1>6 DEF NoMore
<1>8. r \notin robbed' =>
        /\ \A n \in Names : tree[n].by = r => tree'[n].by = r
        /\ \A n \in Names : branch[n] = r => branch'[n] = r
        /\ \A s \in Sessions : session[s] = r => session'[s] = r
  BY DEF Lost
<1>9. NoLess(r)'
  BY <1>2, <1>3, <1>5, <1>8 DEF NoLess
<1> QED
  BY <1>4, <1>7, <1>9

Undone == UndoingWorker \cup {"undoFiles", "failed"}

\* A step on the way forward which makes nothing, and takes nothing once
\* something has been made.
LEMMA QuietKeeps ==
  ASSUME OwnInv, NEW r \in Runs, Leaves(r), robbed \subseteq robbed',
         pc[r] \notin Undone \cup {"stuck", "killed"}, pc'[r] \notin Undone,
         pc'[r] \in Before => pc[r] \in Before,
         pc'[r] = "undoSession" => next'[r] = Len(created[r]),
         created'[r] = created[r], opened'[r] = opened[r],
         errors'[r] = errors[r], failedAdd'[r] = failedAdd[r],
         \A n \in Names : tree'[n].by = r => tree[n].by = r,
         \A n \in Names : branch'[n] = r => branch[n] = r,
         \A s \in Sessions : session'[s] = r => session[s] = r,
         pc[r] \in Before \/ UNCHANGED <<tree, branch, session>>
  PROVE  Place(r)' /\ NoMore(r)' /\ NoLess(r)'
<1>1. Place(r) /\ NoMore(r) /\ NoLess(r)
  BY DEF OwnInv
<1>2. plan' = plan
  BY DEF Leaves
<1>3. Place(r)'
  BY <1>1 DEF Place, Undone
<1>4. /\ TreesLeft(r)' = Len(created[r]) /\ TreesLeft(r) = Len(created[r])
      /\ BranchesLeft(r)' = Len(created[r]) /\ BranchesLeft(r) = Len(created[r])
  BY DEF TreesLeft, BranchesLeft, Undone, UndoingWorker
<1>5. /\ SessionLeft(r)' = SessionLeft(r) /\ Session(r)' = Session(r)
      /\ \A k : Made(r, k)' = Made(r, k)
  BY <1>2 DEF SessionLeft, Session, Made, Undone
<1>6. NoMore(r)'
  BY <1>1, <1>4, <1>5 DEF NoMore
<1>7. r \notin robbed' /\ pc'[r] \notin {"stuck", "killed"} =>
        r \notin robbed /\ pc[r] \notin {"stuck", "killed"}
  BY DEF Undone
<1>8. CASE pc[r] \in Before
  <2>1. Len(created[r]) = 0 /\ opened[r] = FALSE
    BY <1>1, <1>8, LengthOf DEF Place
  <2>2. ~SessionLeft(r)
    BY <2>1 DEF SessionLeft
  <2>3. 1..TreesLeft(r)' = {} /\ 1..BranchesLeft(r)' = {} /\ 1..Len(created'[r]) = {}
    BY <1>4, <2>1
  <2>4. NoLess(r)'
    BY <1>5, <2>2, <2>3 DEF NoLess
  <2> QED
    BY <1>3, <1>6, <2>4
<1>9. CASE UNCHANGED <<tree, branch, session>>
  <2>1. tree' = tree /\ branch' = branch /\ session' = session
    BY <1>9
  <2>2. TreesLeft(r)' = TreesLeft(r) /\ BranchesLeft(r)' = BranchesLeft(r)
    BY <1>4
  <2>3. NoLess(r)'
    BY <1>1, <1>5, <1>7, <2>1, <2>2 DEF NoLess
  <2> QED
    BY <1>3, <1>6, <2>3
<1> QED
  BY <1>8, <1>9

\* A run that is killed, or gives up, keeps no more than it had.
LEMMA EndingKeeps ==
  ASSUME OwnInv, NEW r \in Runs, pc'[r] \in {"stuck", "killed"},
         UNCHANGED <<plan, next, progress, git, tmux>>
  PROVE  Place(r)' /\ NoMore(r)' /\ NoLess(r)'
<1> USE DEF progress, git, tmux
<1>1. Place(r) /\ NoMore(r)
  BY DEF OwnInv
<1>2. Place(r)'
  BY <1>1 DEF Place, Before, UndoingWorker
<1>3. /\ TreesLeft(r)' = Len(created[r]) /\ BranchesLeft(r)' = Len(created[r])
      /\ SessionLeft(r) => SessionLeft(r)'
  BY DEF TreesLeft, BranchesLeft, SessionLeft, UndoingWorker
<1>4. /\ 1..TreesLeft(r) \subseteq 1..Len(created[r])
      /\ 1..BranchesLeft(r) \subseteq 1..Len(created[r])
  BY <1>1, LeftWithin
<1>5. Session(r)' = Session(r) /\ \A k : Made(r, k)' = Made(r, k)
  BY DEF Session, Made
<1>6. NoMore(r)'
  BY <1>1, <1>3, <1>4, <1>5 DEF NoMore
<1>7. NoLess(r)'
  BY DEF NoLess
<1> QED
  BY <1>2, <1>6, <1>7
-----------------------------------------------------------------------------
(* A run's own step.                                                       *)

LEMMA AppendGrows ==
  ASSUME NEW s, IsSequence(s), NEW e
  PROVE  /\ IsSequence(Append(s, e)) /\ Len(s) \in Nat
         /\ Len(Append(s, e)) = Len(s) + 1
         /\ \A k \in 1..Len(s) : Append(s, e)[k] = s[k]
         /\ Append(s, e)[Len(s) + 1] = e
<1>1. PICK S : s \in Seq(S)
  BY DEF IsSequence
<1>2. s \in Seq(S \cup {e}) /\ e \in S \cup {e}
  BY <1>1
<1>3. Append(s, e) \in Seq(S \cup {e})
  BY <1>2
<1> HIDE DEF IsSequence
<1>4. IsSequence(Append(s, e))
  BY <1>3 DEF IsSequence
<1> QED
  BY <1>2, <1>4

\* A worktree that was added is one more of its own, and another than those before.
LEMMA AddKeeps ==
  ASSUME OwnInv, NEW r \in Runs, AddWorktree(r), Leaves(r), robbed \subseteq robbed'
  PROVE  Place(r)' /\ NoMore(r)' /\ NoLess(r)'
<1>0. PICK m, slug : m = Len(created[r]) /\ slug = Worker(r).slug
  OBVIOUS
<1>1. Place(r) /\ NoMore(r) /\ NoLess(r) /\ r # Nobody
  BY OrchestrationAssumption DEF OwnInv
<1>2. /\ pc[r] = "add" /\ pc'[r] = "overlay" /\ plan' = plan /\ session' = session
      /\ opened' = opened /\ errors' = errors /\ failedAdd' = failedAdd
  BY DEF AddWorktree, OwnInv, Shape, GoTo, tmux
<1>3. created'[r] = Append(created[r], slug)
  BY <1>0 DEF AddWorktree, OwnInv, Shape
<1>4. /\ \A n \in Names : tree'[n].by = IF n = Here(r) THEN r ELSE tree[n].by
      /\ \A n \in Names : branch'[n] = IF n = Here(r) THEN r ELSE branch[n]
      /\ \A n \in Names : n = Here(r) => branch[n] = Nobody
  <2>1. tree' = [n \in Names |-> IF n = Here(r) THEN [listed |-> TRUE, present |-> TRUE, by |-> r] ELSE tree[n]]
    BY DEF AddWorktree, OwnInv, Shape
  <2>2. branch' = [n \in Names |-> IF n = Here(r) THEN r ELSE branch[n]]
    BY DEF AddWorktree, OwnInv, Shape
  <2>3. branch[Here(r)] = Nobody
    BY DEF AddWorktree, Room
  <2> QED
    BY <2>1, <2>2, <2>3
<1>5. /\ m \in Nat /\ Len(created'[r]) = m + 1 /\ IsSequence(created'[r])
      /\ \A k \in 1..m : created'[r][k] = created[r][k]
      /\ created'[r][m + 1] = slug
  BY <1>0, <1>1, <1>3, AppendGrows DEF Place
<1>6. \A k \in 1..m : Made(r, k)' = Made(r, k)
  BY <1>2, <1>5 DEF Made
<1>7. Made(r, m + 1)' = Here(r)
  BY <1>0, <1>2, <1>5 DEF Made, Here
<1>8. /\ TreesLeft(r) = m /\ BranchesLeft(r) = m
      /\ TreesLeft(r)' = m + 1 /\ BranchesLeft(r)' = m + 1
      /\ SessionLeft(r)' = SessionLeft(r) /\ Session(r)' = Session(r)
  BY <1>0, <1>2, <1>5 DEF TreesLeft, BranchesLeft, SessionLeft, Session, UndoingWorker
<1>9. 1..(m + 1) = (1..m) \cup {m + 1} /\ m + 1 \notin 1..m
  BY <1>5
<1>10. Place(r)'
  BY <1>2, <1>5 DEF Place, Before, UndoingWorker
<1>11. NoMore(r)'
  BY <1>1, <1>2, <1>4, <1>6, <1>7, <1>8, <1>9 DEF NoMore
<1>12. NoLess(r)'
  <2> SUFFICES ASSUME r \notin robbed'
               PROVE  NoLess(r)'
    BY DEF NoLess
  <2>1. r \notin robbed /\ pc[r] \notin {"stuck", "killed"}
    BY <1>2
  <2>2. /\ \A k \in 1..m, n \in Names : n = Made(r, k) => tree[n].by = r /\ branch[n] = r
        /\ \A s \in Sessions : SessionLeft(r) /\ s = Session(r) => session[s] = r
        /\ \A i, j \in 1..m, n \in Names : n = Made(r, i) /\ n = Made(r, j) => i = j
    BY <1>0, <1>1, <1>8, <2>1 DEF NoLess
  <2>3. \A k \in 1..m, n \in Names : n = Made(r, k) => n # Here(r)
    BY <1>1, <1>4, <2>2
  <2>4. \A k \in 1..(m + 1), n \in Names : n = Made(r, k)' => tree'[n].by = r /\ branch'[n] = r
    BY <1>4, <1>6, <1>7, <1>9, <2>2
  <2>5. ASSUME NEW i \in 1..(m + 1), NEW j \in 1..(m + 1), NEW n \in Names,
               n = Made(r, i)', n = Made(r, j)'
        PROVE  i = j
    <3>1. n # Here(r) => i \in 1..m /\ j \in 1..m /\ n = Made(r, i) /\ n = Made(r, j)
      BY <1>6, <1>7, <1>9, <2>5
    <3>2. n = Here(r) => i \notin 1..m /\ j \notin 1..m
      BY <1>6, <2>3, <2>5
    <3> QED
      BY <1>9, <2>2, <3>1, <3>2
  <2> QED
    BY <1>2, <1>5, <1>8, <2>2, <2>4, <2>5 DEF NoLess
<1> QED
  BY <1>10, <1>11, <1>12

\* A worktree that could not be added leaves at most its branch.
LEMMA AddFailsKeeps ==
  ASSUME OwnInv, NEW r \in Runs, AddFails(r), Leaves(r), robbed \subseteq robbed'
  PROVE  Place(r)' /\ NoMore(r)' /\ NoLess(r)'
<1>1. Place(r) /\ NoMore(r) /\ NoLess(r) /\ r # Nobody
  BY OrchestrationAssumption DEF OwnInv
<1>2. /\ pc[r] = "add" /\ pc'[r] = "undoSession" /\ plan' = plan /\ session' = session /\ tree' = tree
      /\ next'[r] = Len(created[r])
      /\ opened' = opened /\ errors' = errors /\ created' = created
      /\ failedAdd'[r] = failedAdd[r] \cup {Here(r)}
  BY GoToLeaves, AtWorkerLeaves DEF AddFails, StartRollback, OwnInv, Shape, tmux
<1>3. /\ \A n \in Names : branch'[n] = branch[n] \/ (n = Here(r) /\ branch'[n] = r)
  BY DEF AddFails, OwnInv, Shape
<1>4. /\ TreesLeft(r) = Len(created[r]) /\ BranchesLeft(r) = Len(created[r])
      /\ TreesLeft(r)' = Len(created[r]) /\ BranchesLeft(r)' = Len(created[r])
      /\ SessionLeft(r)' = SessionLeft(r) /\ Session(r)' = Session(r)
      /\ \A k : Made(r, k)' = Made(r, k)
  BY <1>2 DEF TreesLeft, BranchesLeft, SessionLeft, Session, Made, UndoingWorker
<1>5. Place(r)'
  BY <1>1, <1>2 DEF Place, Before, UndoingWorker
<1>6. NoMore(r)'
  BY <1>1, <1>2, <1>3, <1>4 DEF NoMore
<1>7. NoLess(r)'
  BY <1>1, <1>2, <1>3, <1>4 DEF NoLess
<1> QED
  BY <1>5, <1>6, <1>7

\* The session is made where there is none.
LEMMA SessionKeeps ==
  ASSUME OwnInv, NEW r \in Runs, NewSession(r), Leaves(r), robbed \subseteq robbed'
  PROVE  Place(r)' /\ NoMore(r)' /\ NoLess(r)'
<1>1. Place(r) /\ NoMore(r) /\ NoLess(r)
  BY DEF OwnInv
<1>2. /\ pc[r] = "session" /\ pc'[r] = "split" /\ plan' = plan /\ tree' = tree /\ branch' = branch
      /\ opened'[r] = TRUE /\ errors' = errors /\ created' = created /\ failedAdd' = failedAdd
  BY GoToLeaves DEF NewSession, OwnInv, Shape, git
<1>3. \A s \in Sessions : session'[s] = IF s = Session(r) THEN r ELSE session[s]
  BY DEF NewSession, OwnInv, Shape
<1>4. /\ TreesLeft(r) = Len(created[r]) /\ BranchesLeft(r) = Len(created[r])
      /\ TreesLeft(r)' = Len(created[r]) /\ BranchesLeft(r)' = Len(created[r])
      /\ SessionLeft(r)' /\ Session(r)' = Session(r)
      /\ \A k : Made(r, k)' = Made(r, k)
  BY <1>2 DEF TreesLeft, BranchesLeft, SessionLeft, Session, Made, UndoingWorker
<1>5. Place(r)'
  BY <1>1, <1>2 DEF Place, Before, UndoingWorker
<1>6. NoMore(r)'
  BY <1>1, <1>2, <1>3, <1>4 DEF NoMore
<1>7. NoLess(r)'
  BY <1>1, <1>2, <1>3, <1>4 DEF NoLess
<1> QED
  BY <1>5, <1>6, <1>7
\* How much the rollback still has before it, one step on.
LEMMA UndoCounts ==
  ASSUME OwnInv, NEW r \in Runs, AfterUndo(r), plan' = plan,
         pc[r] \in UndoingWorker \cup {"undoSession"},
         created'[r] = created[r], opened'[r] = opened[r]
  PROVE  /\ Place(r)' /\ ~SessionLeft(r)' /\ Session(r)' = Session(r)
         /\ UndoName(r) = Made(r, next[r]) /\ \A i : Made(r, i)' = Made(r, i)
         /\ pc[r] = "undoSession" =>
              TreesLeft(r)' = TreesLeft(r) /\ BranchesLeft(r)' = BranchesLeft(r)
         /\ pc[r] = "undoTree" =>
              /\ next[r] \in Nat \ {0} /\ ~SessionLeft(r)
              /\ TreesLeft(r) = next[r] /\ TreesLeft(r)' = next[r] - 1
              /\ BranchesLeft(r) = next[r] /\ BranchesLeft(r)' = next[r]
         /\ pc[r] = "undoPrune" =>
              /\ next[r] \in Nat \ {0} /\ ~SessionLeft(r)
              /\ TreesLeft(r)' = TreesLeft(r) /\ BranchesLeft(r)' = BranchesLeft(r)
         /\ pc[r] = "undoBranch" =>
              /\ next[r] \in Nat \ {0} /\ ~SessionLeft(r) /\ TreesLeft(r)' = TreesLeft(r)
              /\ BranchesLeft(r) = next[r] /\ BranchesLeft(r)' = next[r] - 1
<1>0. PICK m, k : m = Len(created[r]) /\ k = next[r]
  OBVIOUS
<1>1. Place(r)
  BY DEF OwnInv
<1>2. m \in Nat
  BY <1>0, <1>1, LengthOf
<1>3. /\ pc[r] = "undoSession" => k = m
      /\ pc[r] \in UndoingWorker => k \in 1..m
  BY <1>0, <1>1 DEF Place
<1>4. /\ pc[r] = "undoSession" =>
           /\ next'[r] = k
           /\ k = 0 => pc'[r] = "undoFiles"
           /\ k # 0 => pc'[r] = "undoTree"
      /\ pc[r] = "undoTree" => next'[r] = k /\ pc'[r] = "undoPrune"
      /\ pc[r] = "undoPrune" => next'[r] = k /\ pc'[r] = "undoBranch"
      /\ pc[r] = "undoBranch" =>
           /\ next'[r] = k - 1
           /\ k = 1 => pc'[r] = "undoFiles"
           /\ k # 1 => pc'[r] = "undoTree"
  BY <1>0, AfterUndoLeaves DEF OwnInv
<1>5. /\ UndoName(r) = Made(r, k) /\ Session(r)' = Session(r)
      /\ \A i : Made(r, i)' = Made(r, i)
  BY <1>0 DEF UndoName, Made, Session
<1>6. ~SessionLeft(r)' /\ (pc[r] # "undoSession" => ~SessionLeft(r))
  BY <1>4 DEF SessionLeft, UndoingWorker
<1>7. Place(r)'
  <2>1. pc'[r] \notin Before /\ pc'[r] # "undoSession"
    BY <1>4 DEF Before, UndoingWorker
  <2>2. pc'[r] \in UndoingWorker => next'[r] \in 1..m
    BY <1>2, <1>3, <1>4 DEF UndoingWorker
  <2> QED
    BY <1>0, <1>1, <2>1, <2>2 DEF Place
<1>8. CASE pc[r] = "undoSession"
  <2>1. TreesLeft(r) = m /\ BranchesLeft(r) = m
    BY <1>0, <1>8 DEF TreesLeft, BranchesLeft, UndoingWorker
  <2>2. TreesLeft(r)' = m /\ BranchesLeft(r)' = m
    BY <1>3, <1>4, <1>8 DEF TreesLeft, BranchesLeft, UndoingWorker
  <2> QED
    BY <1>0, <1>5, <1>6, <1>7, <1>8, <2>1, <2>2
<1>9. CASE pc[r] = "undoTree"
  <2>1. TreesLeft(r) = k /\ BranchesLeft(r) = k /\ k \in Nat \ {0}
    BY <1>0, <1>3, <1>9 DEF TreesLeft, BranchesLeft, UndoingWorker
  <2>2. TreesLeft(r)' = k - 1 /\ BranchesLeft(r)' = k
    BY <1>4, <1>9 DEF TreesLeft, BranchesLeft, UndoingWorker
  <2> QED
    BY <1>0, <1>5, <1>6, <1>7, <1>9, <2>1, <2>2
<1>11. CASE pc[r] = "undoPrune"
  <2>1. TreesLeft(r) = k - 1 /\ BranchesLeft(r) = k /\ k \in Nat \ {0}
    BY <1>0, <1>3, <1>11 DEF TreesLeft, BranchesLeft, UndoingWorker
  <2>2. TreesLeft(r)' = k - 1 /\ BranchesLeft(r)' = k
    BY <1>4, <1>11 DEF TreesLeft, BranchesLeft, UndoingWorker
  <2> QED
    BY <1>0, <1>5, <1>6, <1>7, <1>11, <2>1, <2>2
<1>10. CASE pc[r] = "undoBranch"
  <2>1. TreesLeft(r) = k - 1 /\ BranchesLeft(r) = k /\ k \in Nat \ {0}
    BY <1>0, <1>3, <1>10 DEF TreesLeft, BranchesLeft, UndoingWorker
  <2>2. TreesLeft(r)' = k - 1 /\ BranchesLeft(r)' = k - 1
    BY <1>4, <1>10, <2>1 DEF TreesLeft, BranchesLeft, UndoingWorker
  <2> QED
    BY <1>0, <1>5, <1>6, <1>7, <1>10, <2>1, <2>2
<1> QED
  BY <1>8, <1>9, <1>10, <1>11 DEF UndoingWorker

\* The session has gone.
LEMMA UndoSessionKeeps ==
  ASSUME OwnInv, NEW r \in Runs, UndoSession(r), Leaves(r), robbed \subseteq robbed'
  PROVE  Place(r)' /\ NoMore(r)' /\ NoLess(r)'
<1>1. NoMore(r) /\ NoLess(r) /\ r # Nobody
  BY OrchestrationAssumption DEF OwnInv
<1>2. /\ pc[r] = "undoSession" /\ AfterUndo(r) /\ plan' = plan /\ created' = created
      /\ opened' = opened /\ errors' = errors /\ failedAdd' = failedAdd
      /\ tree' = tree /\ branch' = branch
  BY DEF UndoSession, progress, git
<1>3. errors[r] = FALSE => \A s \in Sessions : session'[s] # r
  <2>1. CASE opened[r] = TRUE
    <3>1. PICK t \in Met(Session(r)) : EndSession(t)
      BY <2>1 DEF UndoSession
    <3>2. \A s \in Sessions : session'[s] = IF s = t THEN Nobody ELSE session[s]
      BY <3>1, EndLeaves DEF OwnInv
    <3>3. session[Session(r)] # Nobody => t = Session(r)
      BY <3>1, MetIs
    <3> QED
      BY <1>1, <3>2, <3>3 DEF NoMore
  <2>2. CASE opened[r] = FALSE
    <3>1. session' = session
      BY <2>2 DEF UndoSession, tmux
    <3> QED
      BY <1>1, <2>2, <3>1 DEF NoMore, SessionLeft
  <2> QED
    BY <2>1, <2>2 DEF OwnInv, Shape
<1>4. /\ Place(r)' /\ ~SessionLeft(r)'
      /\ TreesLeft(r)' = TreesLeft(r) /\ BranchesLeft(r)' = BranchesLeft(r)
      /\ \A i : Made(r, i)' = Made(r, i)
  BY <1>2, UndoCounts
<1>5. NoMore(r)'
  BY <1>1, <1>2, <1>3, <1>4 DEF NoMore
<1>6. NoLess(r)'
  BY <1>1, <1>2, <1>4 DEF NoLess
<1> QED
  BY <1>4, <1>5, <1>6

\* The worktree has gone.
LEMMA UndoWorktreeKeeps ==
  ASSUME OwnInv, NEW r \in Runs, UndoWorktree(r), Leaves(r), robbed \subseteq robbed'
  PROVE  Place(r)' /\ NoMore(r)' /\ NoLess(r)'
<1>0. PICK k : k = next[r]
  OBVIOUS
<1>1. NoMore(r) /\ NoLess(r) /\ r # Nobody
  BY OrchestrationAssumption DEF OwnInv
<1>2. /\ pc[r] = "undoTree" /\ AfterUndo(r) /\ plan' = plan /\ created' = created
      /\ opened' = opened /\ errors' = errors /\ failedAdd' = failedAdd
      /\ branch' = branch /\ session' = session
  BY DEF UndoWorktree, progress, tmux
<1>3. /\ \A n \in Names : tree'[n].by = r => tree[n].by = r /\ n # Made(r, k)
      /\ \A n \in Names : tree[n].by = r /\ n # Made(r, k) => tree'[n].by = r
  <2>1. tree' = WithoutTree(Made(r, k))
    BY <1>0 DEF UndoWorktree, UndoName, Made
  <2> QED
    BY <1>1, <2>1, PruneLeaves DEF OwnInv
<1>4. /\ Place(r)' /\ ~SessionLeft(r)' /\ ~SessionLeft(r)
      /\ k \in Nat \ {0} /\ TreesLeft(r) = k /\ TreesLeft(r)' = k - 1
      /\ BranchesLeft(r)' = BranchesLeft(r) /\ \A i : Made(r, i)' = Made(r, i)
  BY <1>0, <1>2, UndoCounts DEF UndoingWorker
<1>5. 1..(k - 1) = (1..k) \ {k}
  BY <1>4
<1>6. NoMore(r)'
  BY <1>1, <1>2, <1>3, <1>4, <1>5 DEF NoMore
<1>7. NoLess(r)'
  <2> SUFFICES ASSUME r \notin robbed'
               PROVE  NoLess(r)'
    BY DEF NoLess
  <2>1. /\ \A i \in 1..k, n \in Names : n = Made(r, i) => tree[n].by = r
        /\ \A i \in 1..BranchesLeft(r), n \in Names : n = Made(r, i) => branch[n] = r
        /\ \A i, j \in 1..Len(created[r]), n \in Names : n = Made(r, i) /\ n = Made(r, j) => i = j
    BY <1>1, <1>2, <1>4 DEF NoLess
  <2>2. 1..k \subseteq 1..Len(created[r])
    BY <1>4, LeftWithin DEF OwnInv
  <2>3. \A i \in 1..(k - 1), n \in Names : n = Made(r, i) => n # Made(r, k)
    BY <1>4, <1>5, <2>1, <2>2
  <2>4. \A i \in 1..(k - 1), n \in Names : n = Made(r, i) => tree'[n].by = r
    BY <1>3, <1>5, <2>1, <2>3
  <2> QED
    BY <1>2, <1>4, <2>1, <2>4 DEF NoLess
<1> QED
  BY <1>4, <1>6, <1>7

\* Worktrees without a directory are forgotten.
LEMMA UndoPruneKeeps ==
  ASSUME OwnInv, NEW r \in Runs, UndoPrune(r), Leaves(r), robbed \subseteq robbed'
  PROVE  Place(r)' /\ NoMore(r)' /\ NoLess(r)'
<1>1. NoMore(r) /\ NoLess(r) /\ r # Nobody
  BY OrchestrationAssumption DEF OwnInv
<1>2. /\ pc[r] = "undoPrune" /\ AfterUndo(r) /\ plan' = plan /\ created' = created
      /\ opened' = opened /\ errors' = errors /\ failedAdd' = failedAdd
      /\ branch' = branch /\ session' = session
  BY DEF UndoPrune, progress, tmux
<1>3. \A n \in Names : tree'[n].by = r <=> tree[n].by = r
  BY <1>1, PruneLeaves DEF UndoPrune, OwnInv, HasDirectories
<1>4. /\ Place(r)' /\ ~SessionLeft(r)' /\ ~SessionLeft(r)
      /\ TreesLeft(r)' = TreesLeft(r) /\ BranchesLeft(r)' = BranchesLeft(r)
      /\ \A i : Made(r, i)' = Made(r, i)
  BY <1>2, UndoCounts DEF UndoingWorker
<1>5. NoMore(r)'
  BY <1>1, <1>2, <1>3, <1>4 DEF NoMore
<1>6. NoLess(r)'
  BY <1>1, <1>2, <1>3, <1>4 DEF NoLess
<1> QED
  BY <1>4, <1>5, <1>6

\* The branch has gone.
LEMMA UndoBranchKeeps ==
  ASSUME OwnInv, NEW r \in Runs, UndoBranch(r), Leaves(r), robbed \subseteq robbed'
  PROVE  Place(r)' /\ NoMore(r)' /\ NoLess(r)'
<1>0. PICK k : k = next[r]
  OBVIOUS
<1>1. NoMore(r) /\ NoLess(r) /\ r # Nobody
  BY OrchestrationAssumption DEF OwnInv
<1>2. /\ pc[r] = "undoBranch" /\ AfterUndo(r) /\ plan' = plan /\ created' = created
      /\ opened' = opened /\ errors' = errors /\ failedAdd' = failedAdd
      /\ tree' = tree /\ session' = session
  BY DEF UndoBranch, progress, tmux
<1>3. \A n \in Names : branch'[n] = IF n = Made(r, k) THEN Nobody ELSE branch[n]
  BY <1>0 DEF UndoBranch, UndoName, Made, OwnInv, Shape
<1>4. /\ Place(r)' /\ ~SessionLeft(r)' /\ ~SessionLeft(r) /\ TreesLeft(r)' = TreesLeft(r)
      /\ k \in Nat \ {0} /\ BranchesLeft(r) = k /\ BranchesLeft(r)' = k - 1
      /\ \A i : Made(r, i)' = Made(r, i)
  BY <1>0, <1>2, UndoCounts DEF UndoingWorker
<1>5. 1..(k - 1) = (1..k) \ {k}
  BY <1>4
<1>6. NoMore(r)'
  BY <1>1, <1>2, <1>3, <1>4, <1>5 DEF NoMore
<1>7. NoLess(r)'
  <2> SUFFICES ASSUME r \notin robbed'
               PROVE  NoLess(r)'
    BY DEF NoLess
  <2>1. /\ \A i \in 1..TreesLeft(r), n \in Names : n = Made(r, i) => tree[n].by = r
        /\ \A i \in 1..k, n \in Names : n = Made(r, i) => branch[n] = r
        /\ \A i, j \in 1..Len(created[r]), n \in Names : n = Made(r, i) /\ n = Made(r, j) => i = j
    BY <1>1, <1>2, <1>4 DEF NoLess
  <2>2. 1..k \subseteq 1..Len(created[r])
    BY <1>4, LeftWithin DEF OwnInv
  <2>3. \A i \in 1..(k - 1), n \in Names : n = Made(r, i) => n # Made(r, k)
    BY <1>4, <1>5, <2>1, <2>2
  <2>4. \A i \in 1..(k - 1), n \in Names : n = Made(r, i) => branch'[n] = r
    BY <1>3, <1>5, <2>1, <2>3
  <2> QED
    BY <1>2, <1>4, <2>1, <2>4 DEF NoLess
<1> QED
  BY <1>4, <1>6, <1>7

\* After an error it is only known that nothing else has gone.
LEMMA UndoFailsKeeps ==
  ASSUME OwnInv, NEW r \in Runs, UndoFails(r), Leaves(r), robbed \subseteq robbed'
  PROVE  Place(r)' /\ NoMore(r)' /\ NoLess(r)'
<1>0. PICK k, b, t : k = next[r] /\ b = BranchesLeft(r) /\ t = TreesLeft(r)
  OBVIOUS
<1>1. NoLess(r)
  BY DEF OwnInv
<1>2. /\ pc[r] \in UndoingWorker \cup {"undoSession"} /\ AfterUndo(r) /\ plan' = plan
      /\ created' = created /\ opened' = opened /\ errors'[r] = TRUE
      /\ tree' = tree /\ branch' = branch /\ session' = session
  BY DEF UndoFails, Tries, UndoingWorker, git, tmux, OwnInv, Shape
<1>3. /\ Place(r)' /\ ~SessionLeft(r)'
      /\ TreesLeft(r)' = t \/ (k \in Nat \ {0} /\ t = k /\ TreesLeft(r)' = k - 1)
      /\ BranchesLeft(r)' = b \/ (k \in Nat \ {0} /\ b = k /\ BranchesLeft(r)' = k - 1)
      /\ \A i : Made(r, i)' = Made(r, i)
  BY <1>0, <1>2, UndoCounts DEF UndoingWorker
<1>4. 1..TreesLeft(r)' \subseteq 1..t /\ 1..BranchesLeft(r)' \subseteq 1..b
  BY <1>3
<1>5. NoMore(r)'
  BY <1>2 DEF NoMore
<1>6. NoLess(r)'
  BY <1>0, <1>1, <1>2, <1>3, <1>4 DEF NoLess, UndoingWorker
<1> QED
  BY <1>3, <1>5, <1>6

\* The files have gone.
LEMMA UndoFilesKeeps ==
  ASSUME OwnInv, NEW r \in Runs, UndoFiles(r), Leaves(r), robbed \subseteq robbed'
  PROVE  Place(r)' /\ NoMore(r)' /\ NoLess(r)'
<1>1. Place(r) /\ NoMore(r) /\ NoLess(r)
  BY DEF OwnInv
<1>2. /\ pc[r] = "undoFiles" /\ pc'[r] \in {"undoFiles", "failed"} /\ plan' = plan
      /\ created' = created /\ opened' = opened /\ errors' = errors /\ failedAdd' = failedAdd
      /\ tree' = tree /\ branch' = branch /\ session' = session
  BY GoToLeaves DEF UndoFiles, progress, git, tmux, OwnInv
<1>3. /\ TreesLeft(r) = 0 /\ BranchesLeft(r) = 0 /\ ~SessionLeft(r)
      /\ TreesLeft(r)' = 0 /\ BranchesLeft(r)' = 0 /\ ~SessionLeft(r)'
      /\ \A i : Made(r, i)' = Made(r, i)
  BY <1>2 DEF TreesLeft, BranchesLeft, SessionLeft, Made, UndoingWorker
<1>4. Place(r)'
  BY <1>1, <1>2 DEF Place, Before, UndoingWorker
<1>5. NoMore(r)'
  BY <1>1, <1>2, <1>3 DEF NoMore
<1>6. NoLess(r)'
  BY <1>1, <1>2, <1>3 DEF NoLess
<1> QED
  BY <1>4, <1>5, <1>6

\* Whatever step a run takes, its own is accounted for.
LEMMA OwnStepKeeps ==
  ASSUME OwnInv, NEW r \in Runs, Cleanup(r) \/ Execute(r) \/ Undo(r), robbed \subseteq robbed'
  PROVE  Place(r)' /\ NoMore(r)' /\ NoLess(r)'
<1>1. Shape /\ Leaves(r) /\ r # Nobody
  BY StepLeaves, OrchestrationAssumption DEF OwnInv
<1>2. CASE Prune(r)
  <2>1. \A n \in Names : tree'[n].by = r => tree[n].by = r
    BY <1>1, <1>2, PruneLeaves DEF Prune
  <2> QED
    BY <1>1, <1>2, <2>1, GoToLeaves, QuietKeeps DEF Prune, progress, tmux, Before, Undone, UndoingWorker
<1>3. CASE KillExisting(r)
  <2>1. \A s \in Sessions : session'[s] = r => session[s] = r
    BY <1>1, <1>3, EndLeaves DEF KillExisting, tmux
  <2> QED
    BY <1>1, <1>3, <2>1, GoToLeaves, QuietKeeps DEF KillExisting, progress, git, Before, Undone, UndoingWorker
<1>4. CASE CleanWorktree(r)
  <2>1. \A n \in Names : tree'[n].by = r => tree[n].by = r
    BY <1>1, <1>4, PruneLeaves DEF CleanWorktree
  <2> QED
    BY <1>1, <1>4, <2>1, GoToLeaves, QuietKeeps DEF CleanWorktree, progress, tmux, Before, Undone, UndoingWorker
<1>15. CASE CleanPrune(r)
  <2>1. \A n \in Names : tree'[n].by = r => tree[n].by = r
    BY <1>1, <1>15, PruneLeaves DEF CleanPrune
  <2> QED
    BY <1>1, <1>15, <2>1, GoToLeaves, QuietKeeps DEF CleanPrune, progress, tmux, Before, Undone, UndoingWorker
<1>5. CASE CleanBranch(r)
  <2>1. \A n \in Names : branch'[n] = r => branch[n] = r
    BY <1>1, <1>5 DEF CleanBranch, Shape
  <2> QED
    BY <1>1, <1>5, <2>1, AdvanceLeaves, QuietKeeps DEF CleanBranch, progress, tmux, Before, Undone, UndoingWorker
<1>6. CASE RefusePlan(r)
  BY <1>1, <1>6, GoToLeaves, QuietKeeps DEF RefusePlan, progress, git, tmux, Before, Undone, UndoingWorker
<1>7. CASE Begin(r)
  <2>1. pc[r] = "idle" /\ pc'[r] \in {"prune", "check"}
    BY <1>1, <1>7, GoToLeaves DEF Begin
  <2> QED
    BY <1>7, <1>1, <2>1, QuietKeeps DEF Begin, git, tmux, Before, Undone, UndoingWorker
<1>8. CASE CheckSession(r)
  <2>1. pc[r] = "check" /\ pc'[r] \in {"write", "refused"}
    BY <1>1, <1>8, GoToLeaves DEF CheckSession
  <2> QED
    BY <1>8, <1>1, <2>1, QuietKeeps DEF CheckSession, progress, git, tmux, Before, Undone, UndoingWorker
<1>9. CASE OpenFile(r) \/ FillFile(r)
  <2>1. pc[r] \in {"write", "fill"} /\ pc'[r] \in {"write", "fill", "add"}
    BY <1>1, <1>9, GoToLeaves DEF OpenFile, FillFile
  <2> QED
    BY <1>9, <1>1, <2>1, QuietKeeps DEF OpenFile, FillFile, progress, git, tmux, Before, Undone, UndoingWorker
<1>10. CASE Overlay(r)
  <2>1. pc[r] = "overlay" /\ pc'[r] \in {"add", "session"}
    BY <1>1, <1>10, AdvanceLeaves DEF Overlay
  <2> QED
    BY <1>10, <1>1, <2>1, QuietKeeps DEF Overlay, progress, git, tmux, Before, Undone, UndoingWorker
<1>11. CASE SplitWindow(r)
  <2>1. pc[r] = "split" /\ pc'[r] = "launch"
    BY <1>1, <1>11, GoToLeaves DEF SplitWindow
  <2> QED
    BY <1>11, <1>1, <2>1, QuietKeeps DEF SplitWindow, progress, git, tmux, Before, Undone, UndoingWorker
<1>12. CASE Launch(r)
  <2>1. pc[r] = "launch" /\ pc'[r] \in {"split", "started"}
    BY <1>1, <1>12, AdvanceLeaves DEF Launch
  <2> QED
    BY <1>12, <1>1, <2>1, QuietKeeps DEF Launch, progress, git, Before, Undone, UndoingWorker
<1>13. CASE CommandFails(r)
  <2>1. CASE pc[r] \in Unguarded
    <3>1. pc'[r] = "stuck" /\ next' = next
      BY <1>1, <1>13, <2>1, GoToLeaves DEF CommandFails
    <3> QED
      BY <1>13, <3>1, EndingKeeps DEF CommandFails
  <2>2. CASE pc[r] \notin Unguarded
    <3>1. pc'[r] = "undoSession" /\ next'[r] = Len(created[r])
      BY <1>1, <1>13, <2>2, GoToLeaves, AtWorkerLeaves DEF CommandFails, StartRollback
    <3>2. pc[r] \notin Undone \cup {"stuck", "killed"}
      BY <1>13 DEF CommandFails, Active, Ended, Undone, Undoing, UndoingWorker
    <3> QED
      BY <1>13, <1>1, <3>1, <3>2, QuietKeeps DEF CommandFails, progress, git, tmux, Before, Undone, UndoingWorker
  <2> QED
    BY <2>1, <2>2
<1>14. CASE UndoAborts(r)
  <2>1. pc'[r] = "stuck"
    BY <1>1, <1>14, GoToLeaves DEF UndoAborts
  <2> QED
    BY <1>14, <2>1, EndingKeeps DEF UndoAborts
<1> QED
  BY <1>1, <1>2, <1>3, <1>4, <1>5, <1>6, <1>7, <1>8, <1>9, <1>10, <1>11, <1>12, <1>13, <1>14, <1>15,
     AddKeeps, AddFailsKeeps, SessionKeeps, UndoSessionKeeps, UndoWorktreeKeeps, UndoPruneKeeps, UndoBranchKeeps,
     UndoFailsKeeps, UndoFilesKeeps DEF Cleanup, Execute, Undo

\* What holds of the runs holds of them after any step.
LEMMA OwnHolds == Spec => []OwnInv
<1>1. Init => OwnInv
  <2> SUFFICES ASSUME Init
               PROVE  OwnInv
    OBVIOUS
  <2>1. Shape
    BY DEF Init, Shape
  <2>2. \A n \in Names : tree[n].by \in {Nobody, Earlier} /\ branch[n] \in {Nobody, Earlier}
    BY DEF Init, Leftovers, Left
  <2>3. \A s \in Sessions : session[s] \in {Nobody, Earlier}
    BY DEF Init, Leftovers, Left
  <2>4. ASSUME NEW r \in Runs
        PROVE  Place(r) /\ NoMore(r) /\ NoLess(r)
    <3>1. created[r] = <<>> /\ opened[r] = FALSE /\ pc[r] = "idle" /\ r # Nobody /\ r # Earlier
      BY OrchestrationAssumption DEF Init
    <3>2. IsSequence(<<>>) /\ Len(<<>>) = 0
      BY DEF IsSequence
    <3>3. Place(r)
      BY <3>1, <3>2 DEF Place, UndoingWorker
    <3>4. TreesLeft(r) = 0 /\ BranchesLeft(r) = 0 /\ Len(created[r]) = 0 /\ ~SessionLeft(r)
      BY <3>1, <3>2 DEF TreesLeft, BranchesLeft, SessionLeft, UndoingWorker
    <3>5. NoMore(r)
      BY <2>2, <2>3, <3>1 DEF NoMore
    <3>6. NoLess(r)
      BY <3>4 DEF NoLess
    <3> QED
      BY <3>3, <3>5, <3>6
  <2> QED
    BY <2>1, <2>2, <2>4, OrchestrationAssumption DEF OwnInv, HasDirectories
<1>2. OwnInv /\ [Next]_vars => OwnInv'
  <2> SUFFICES ASSUME OwnInv, [Next]_vars
               PROVE  OwnInv'
    OBVIOUS
  <2>1. ASSUME NEW q, Leaves(q), q \in Runs \/ q = Nobody
        PROVE  HasDirectories'
    BY <2>1, OrchestrationAssumption DEF Leaves, HasDirectories, OwnInv
  <2>2. ASSUME NEW r \in Runs, RunStep(r)
        PROVE  OwnInv'
    <3>1. Leaves(r) /\ robbed' = robbed \cup {q \in Runs \ {r} : Lost(q)}
      BY <2>2, StepLeaves DEF RunStep, LosesFrom, OwnInv
    <3>2. Place(r)' /\ NoMore(r)' /\ NoLess(r)'
      BY <2>2, <3>1, OwnStepKeeps DEF RunStep
    <3>3. \A q \in Runs \ {r} : Place(q)' /\ NoMore(q)' /\ NoLess(q)'
      BY <3>1, OthersKeep
    <3> QED
      BY <2>1, <3>1, <3>2, <3>3 DEF OwnInv, Leaves
  <2>3. ASSUME NEW r \in Runs, KillRun(r)
        PROVE  OwnInv'
    <3>1. Leaves(r) /\ pc'[r] = "killed"
      BY <2>3, GoToLeaves DEF KillRun, progress, git, tmux, Leaves, OwnInv, Shape
    <3>2. Place(r)' /\ NoMore(r)' /\ NoLess(r)'
      BY <2>3, <3>1, EndingKeeps DEF KillRun
    <3>3. \A q \in Runs \ {r} : Place(q)' /\ NoMore(q)' /\ NoLess(q)'
      BY <2>3, <3>1, OthersKeep DEF KillRun, git, tmux, Lost
    <3> QED
      BY <2>1, <3>1, <3>2, <3>3 DEF OwnInv, Leaves
  <2>4. ASSUME Leaves(Nobody), \A r \in Runs : r \notin robbed' => r \notin robbed /\ ~Lost(r)
        PROVE  OwnInv'
    <3>1. Runs = Runs \ {Nobody}
      BY OrchestrationAssumption
    <3>2. \A r \in Runs : Place(r)' /\ NoMore(r)' /\ NoLess(r)'
      BY <2>4, <3>1, OthersKeep
    <3> QED
      BY <2>1, <2>4, <3>2 DEF OwnInv, Leaves
  <2>5. ASSUME NEW s \in Sessions, SessionEnds(s), LosesFrom(Runs)
        PROVE  OwnInv'
    <3>1. Leaves(Nobody)
      BY <2>5, EndLeaves DEF SessionEnds, progress, git, Leaves, OwnInv, Shape
    <3> QED
      BY <2>4, <2>5, <3>1 DEF LosesFrom
  <2>6. ASSUME UNCHANGED <<plan, pc, next, progress, git, session, robbed>>
        PROVE  OwnInv'
    <3>1. Leaves(Nobody)
      BY <2>6 DEF progress, git, Leaves, OwnInv, Shape
    <3> QED
      BY <2>4, <2>6, <3>1 DEF git, Lost
  <2> QED
    BY <2>2, <2>3, <2>5, <2>6 DEF Next, ListWorkers, ReadTask, RefuseTask, vars, tmux
<1> QED
  BY <1>1, <1>2, PTL DEF Spec

\* A run that failed and rolled back without errors leaves no worktree, no
\* branch but the one of the worktree it could not add, and no session of its
\* own (rollbackCreatedResources).
THEOREM FailuresUndone == Spec => []FailureUndone
<1>1. OwnInv => FailureUndone
  <2> SUFFICES ASSUME OwnInv, NEW r \in Runs, pc[r] = "failed", ~errors[r]
               PROVE  /\ \A n \in Names : tree[n].by # r /\ (branch[n] = r => n \in failedAdd[r])
                      /\ \A s \in Sessions : session[s] # r
    BY DEF FailureUndone
  <2>1. errors[r] = FALSE /\ NoMore(r)
    BY DEF OwnInv, Shape
  <2>2. TreesLeft(r) = 0 /\ BranchesLeft(r) = 0 /\ ~SessionLeft(r)
    BY DEF TreesLeft, BranchesLeft, SessionLeft, UndoingWorker
  <2> QED
    BY <2>1, <2>2 DEF NoMore
<1> QED
  BY <1>1, OwnHolds, PTL

\* A rollback takes what its run has created and nothing else, unless somebody
\* has taken something of the run's before (rollbackCreatedResources).
THEOREM RollbacksTakeOwn == Spec => RollbackTakesOwn
<1> DEFINE Takes(r) ==
      /\ \A n \in Names : tree'[n] # tree[n] => tree[n].by = r \/ ~tree[n].present
      /\ \A n \in Names : branch'[n] # branch[n] => branch[n] = r
      /\ \A s \in Sessions : session'[s] # session[s] => session[s] = r
<1>1. ASSUME OwnInv, NEW r \in Runs, r \notin robbed, Undo(r)
      PROVE  Takes(r)
  <2> USE <1>1
  <2>1. Shape /\ Place(r) /\ NoLess(r)
    BY DEF OwnInv
  <2>2. CASE UndoSession(r)
    <3>1. pc[r] = "undoSession" /\ tree' = tree /\ branch' = branch
      BY <2>2 DEF UndoSession, git
    <3>2. CASE opened[r] = TRUE
      <4>1. PICK t \in Met(Session(r)) : EndSession(t)
        BY <2>2, <3>2 DEF UndoSession
      <4>2. \A s \in Sessions : session'[s] = IF s = t THEN Nobody ELSE session[s]
        BY <2>1, <4>1, EndLeaves
      <4>3. \A s \in Sessions : s = Session(r) => session[s] = r
        BY <2>1, <3>1, <3>2 DEF NoLess, SessionLeft, UndoingWorker
      <4>4. Session(r) \in Sessions /\ r # Nobody
        BY OrchestrationAssumption DEF OwnInv, Shape, Session, Sessions
      <4>5. t = Session(r)
        BY <4>1, <4>3, <4>4, MetIs
      <4> QED
        BY <3>1, <4>2, <4>3, <4>5
    <3>3. CASE opened[r] = FALSE
      BY <2>2, <3>1, <3>3 DEF UndoSession, tmux
    <3> QED
      BY <2>1, <3>2, <3>3 DEF Shape
  <2>3. CASE UndoWorktree(r)
    <3>1. /\ pc[r] = "undoTree" /\ branch' = branch /\ session' = session
          /\ tree' = WithoutTree(Made(r, next[r]))
      BY <2>3 DEF UndoWorktree, UndoName, Made, tmux
    <3>2. next[r] \in 1..Len(created[r]) /\ TreesLeft(r) = next[r] /\ Len(created[r]) \in Nat
      BY <2>1, <3>1, LengthOf DEF Place, TreesLeft, UndoingWorker
    <3>3. \A n \in Names : n = Made(r, next[r]) => tree[n].by = r
      BY <2>1, <3>1, <3>2 DEF NoLess
    <3> QED
      BY <2>1, <3>1, <3>3, PruneLeaves
  <2>6. CASE UndoPrune(r)
    BY <2>1, <2>6, PruneLeaves DEF UndoPrune, tmux
  <2>4. CASE UndoBranch(r)
    <3>1. /\ pc[r] = "undoBranch" /\ tree' = tree /\ session' = session
          /\ \A n \in Names : branch'[n] # branch[n] => n = Made(r, next[r])
      BY <2>1, <2>4 DEF UndoBranch, UndoName, Made, tmux, Shape
    <3>2. next[r] \in 1..Len(created[r]) /\ BranchesLeft(r) = next[r] /\ Len(created[r]) \in Nat
      BY <2>1, <3>1, LengthOf DEF Place, BranchesLeft, UndoingWorker
    <3>3. \A n \in Names : n = Made(r, next[r]) => branch[n] = r
      BY <2>1, <3>1, <3>2 DEF NoLess
    <3> QED
      BY <3>1, <3>3
  <2>5. CASE UndoFails(r) \/ UndoAborts(r) \/ UndoFiles(r)
    BY <2>5 DEF UndoFails, UndoAborts, UndoFiles, git, tmux
  <2> QED
    BY <2>2, <2>3, <2>4, <2>5, <2>6 DEF Undo
<1>2. OwnInv => \A r \in Runs \ robbed : Undo(r) => Takes(r)
  BY <1>1
<1>3. OwnInv /\ [Next]_vars => [\A r \in Runs \ robbed : Undo(r) => Takes(r)]_vars
  BY <1>2
<1> QED
  BY <1>3, OwnHolds, PTL DEF Spec, RollbackTakesOwn

-----------------------------------------------------------------------------
(* The files a run writes, by their number.                                *)

WorkersOf(r) == Len(plan[r].workers)
NameOf(r, i) == Name(plan[r], plan[r].workers[i].slug)

FileNo(j) == Files[((j - 1) % 3) + 1]
SlugNo(r, j) == plan[r].workers[((j - 1) \div 3) + 1].slug
PathNo(r, j) == <<Session(r), SlugNo(r, j), FileNo(j)>>

LEMMA PlanNames ==
  ASSUME NEW r \in Runs, plan[r] \in Configs
  PROVE  /\ Session(r) \in Sessions /\ plan[r].session \in Seq(Words)
         /\ WorkersOf(r) \in Nat /\ DOMAIN plan[r].workers = 1..WorkersOf(r)
         /\ plan[r].workers # <<>> => WorkersOf(r) >= 1
         /\ \A i \in 1..WorkersOf(r) :
              /\ plan[r].workers[i].slug \in Workers /\ NameOf(r, i) \in Names
              /\ plan[r].workers[i].slug \in Seq(Words)
<1>1. PICK c \in Configs : c = plan[r]
  OBVIOUS
<1>2. PICK ws, W : ws = c.workers /\ W = [slug : Seq(Words), task : Tasks, launcher : BOOLEAN, seeds : Seq(STRING)]
  OBVIOUS
<1>3. ws \in Seq(W) /\ c.session \in Seq(Words)
  BY <1>2, PlansAssumption
<1>4. /\ Len(ws) \in Nat /\ DOMAIN ws = 1..Len(ws) /\ (ws # <<>> => Len(ws) >= 1)
      /\ \A i \in 1..Len(ws) : ws[i] \in W
  BY <1>3
<1>5. \A i \in 1..Len(ws) : ws[i].slug \in Seq(Words)
  BY <1>2, <1>4
<1>6. \A i \in DOMAIN c.workers : c.workers[i].slug \in Slugs(c)
  BY DEF Slugs
<1>7. \A slug \in Slugs(c) : slug \in Workers /\ Name(c, slug) \in Names
  BY DEF Workers, Names
<1>8. QED
  BY <1>1, <1>2, <1>3, <1>4, <1>5, <1>6, <1>7 DEF Session, Sessions, WorkersOf, NameOf

\* Each file of each worker has its number.
LEMMA FilesNumbered ==
  ASSUME NEW i \in Nat \ {0}, NEW m \in 1..3
  PROVE  LET j == 3 * (i - 1) + m IN ((j - 1) \div 3) + 1 = i /\ ((j - 1) % 3) + 1 = m
<1>1. CASE m = 1
  BY <1>1
<1>2. CASE m = 2
  BY <1>2
<1>3. CASE m = 3
  BY <1>3
<1>4. QED
  BY <1>1, <1>2, <1>3

LEMMA NumberWithin ==
  ASSUME NEW n \in Nat, NEW j \in 1..(3 * n)
  PROVE  ((j - 1) \div 3) + 1 \in 1..n /\ ((j - 1) % 3) + 1 \in 1..3
  OBVIOUS

LEMMA FilesOf ==
  /\ DOMAIN Files = 1..3 /\ ToSet(Files) = {"task", "handoff", "status"}
  /\ Files[1] = "task" /\ Files[2] = "handoff" /\ Files[3] = "status"
  BY DEF Files, ToSet

\* A run at work writes a file of its session's, of one of its workers.
LEMMA PathsWritten ==
  ASSUME NEW r \in Runs, plan[r] \in Configs, next[r] \in 1..(3 * WorkersOf(r))
  PROVE  /\ WritePath(r) = PathNo(r, next[r]) /\ WritePath(r) \in Paths
         /\ Session(r) \in Sessions /\ Writing(r).slug \in Workers
         /\ Writing(r).task \in Tasks
         /\ WritePath(r) = <<Session(r), Writing(r).slug, WriteOrder[WriteNumber(r)]>>
         /\ WriteNumber(r) = 1 <=> WriteOrder[WriteNumber(r)] = "task"
         /\ \E i \in DOMAIN plan[r].workers : Writing(r) = plan[r].workers[i]
<1>1. PICK i, m : i = ((next[r] - 1) \div 3) + 1 /\ m = ((next[r] - 1) % 3) + 1
  OBVIOUS
<1>2. WorkersOf(r) \in Nat /\ DOMAIN plan[r].workers = 1..WorkersOf(r) /\ Session(r) \in Sessions
  BY PlanNames
<1>3. i \in 1..WorkersOf(r) /\ m \in 1..3
  BY <1>1, <1>2, NumberWithin
<1>4. Writing(r) = plan[r].workers[i] /\ WriteNumber(r) = m
  BY <1>1 DEF Writing, WriteNumber
<1>5. Writing(r).slug \in Workers
  BY <1>3, <1>4, PlanNames
<1>6. plan[r].workers[i].task \in Tasks
  <2>1. PICK c \in Configs : c = plan[r]
    OBVIOUS
  <2>2. PICK ws, W : ws = c.workers /\ W = [slug : Seq(Words), task : Tasks, launcher : BOOLEAN, seeds : Seq(STRING)]
    OBVIOUS
  <2>3. ws \in Seq(W) /\ Len(ws) = WorkersOf(r)
    BY <2>1, <2>2, PlansAssumption DEF WorkersOf
  <2>4. ws[i] \in W
    BY <1>3, <2>3
  <2> QED
    BY <2>1, <2>2, <2>4
<1>7. Files[m] \in ToSet(Files) /\ (m = 1 <=> Files[m] = "task")
  BY <1>3, FilesOf
<1>8. WritePath(r) = PathNo(r, next[r])
  BY <1>1, <1>4 DEF WritePath, PathNo, SlugNo, FileNo, WriteOrder
<1> QED
  BY <1>2, <1>3, <1>4, <1>5, <1>6, <1>7, <1>8 DEF WritePath, WriteOrder, Paths

\* Where a step leads.
LEMMA AdvanceGoes ==
  ASSUME Shape, NEW r \in Runs, NEW again, NEW after, Advance(r, again, after)
  PROVE  /\ next[r] = WorkersOf(r) => pc'[r] = after /\ next'[r] = 1
         /\ next[r] # WorkersOf(r) => pc'[r] = again /\ next'[r] = next[r] + 1
  BY GoToLeaves, AtWorkerLeaves DEF Advance, AtLast, WorkersOf

-----------------------------------------------------------------------------
(* The reader.                                                             *)

Contents == {"none", "empty", "plain", "headed"}
TaskOf(s, w) == <<s, w, "task">>

\* How far a run is with its files.
Writes(r) ==
  /\ plan[r] \in Configs
  /\ pc[r] \in {"idle", "check"} => next[r] = 1
  /\ pc[r] \notin {"idle", "refused"} => ~Malformed(plan[r])
  /\ pc[r] \in {"write", "fill"} => next[r] \in 1..(3 * WorkersOf(r))
  /\ r \in unlinked => pc[r] = "fill"
  /\ pc[r] = "fill" /\ r \notin unlinked => files[WritePath(r)] # "none"

\* A task that is missing has been removed; an empty one is being written or was
\* left so; and one that begins with a heading was given so.
Tasked(s, w) == files[TaskOf(s, w)] # "none" \/ TaskOf(s, w) \in erased
Pending(s, w) ==
  \/ TaskOf(s, w) \in halted
  \/ \E r \in Runs : pc[r] = "fill" /\ r \notin unlinked /\ WritePath(r) = TaskOf(s, w)
Headed(s, w) ==
  \E r \in Runs : /\ pc[r] # "idle" /\ Session(r) = s
                  /\ \E i \in DOMAIN plan[r].workers :
                       plan[r].workers[i].slug = w /\ plan[r].workers[i].task = "headed"

TaskInv ==
  /\ files \in [Paths -> Contents] /\ unread \subseteq Workers
  /\ \A r \in Runs : Writes(r)
  /\ \A w \in unread : Tasked(Watched, w)
  /\ \A s \in Sessions, w \in Workers :
       /\ Has(s, w) => Tasked(s, w)
       /\ files[TaskOf(s, w)] = "empty" => Pending(s, w)
       /\ files[TaskOf(s, w)] = "headed" => Headed(s, w)

LEMMA TaskPaths ==
  ASSUME NEW s \in Sessions, NEW w \in Workers
  PROVE  TaskOf(s, w) \in Paths
  BY FilesOf DEF TaskOf, Paths

\* Has, spelled out.
LEMMA HasIs ==
  ASSUME NEW s, NEW w
  PROVE  Has(s, w) <=> \E f \in ToSet(Files) : files[<<s, w, f>>] # "none"
  BY DEF Has

\* The task file is the first that is opened.
LEMMA OpenKeepsTasks ==
  ASSUME TaskInv, Shape, NEW r \in Runs, OpenFile(r)
  PROVE  TaskInv'
<1>1. PICK p : p = WritePath(r)
  OBVIOUS
<1>2. /\ pc[r] = "write" /\ pc'[r] = "fill" /\ \A q \in Runs \ {r} : pc'[q] = pc[q]
      /\ plan' = plan /\ next' = next /\ unlinked' = unlinked /\ unread' = unread
      /\ files' = [files EXCEPT ![p] = "empty"]
      /\ erased' = erased \ {p} /\ halted' = halted \ {p}
  BY <1>1, GoToLeaves DEF OpenFile
<1>3. /\ Writes(r) /\ r \notin unlinked /\ p \in Paths
      /\ p = <<Session(r), Writing(r).slug, WriteOrder[WriteNumber(r)]>>
      /\ WriteNumber(r) = 1 => WriteOrder[WriteNumber(r)] = "task"
  BY <1>1, <1>2, PathsWritten DEF TaskInv, Writes
<1>4. files' \in [Paths -> Contents] /\ \A t \in Paths : files'[t] = IF t = p THEN "empty" ELSE files[t]
  BY <1>2, <1>3 DEF TaskInv, Contents
<1>5. \A q : WritePath(q)' = WritePath(q) /\ Session(q)' = Session(q) /\ WorkersOf(q)' = WorkersOf(q)
  BY <1>2 DEF WritePath, Writing, WriteNumber, WriteOrder, Session, WorkersOf
<1>6. ASSUME NEW q \in Runs
      PROVE  Writes(q)'
  <2>1. Writes(q)
    BY DEF TaskInv
  <2>2. pc'[q] = "fill" /\ q \notin unlinked => files'[WritePath(q)] # "none"
    <3>1. CASE q = r
      BY <1>1, <1>3, <1>4, <3>1
    <3>2. CASE q # r /\ pc'[q] = "fill"
      <4>1. WritePath(q) \in Paths
        BY <1>2, <2>1, <3>2, PathsWritten DEF Writes
      <4> QED
        BY <1>2, <1>4, <2>1, <3>2, <4>1 DEF Writes
    <3> QED
      BY <3>1, <3>2
  <2>3. CASE q = r
    BY <1>2, <1>3, <1>5, <2>1, <2>2, <2>3 DEF Writes
  <2>4. CASE q # r
    BY <1>2, <1>5, <2>1, <2>2, <2>4 DEF Writes
  <2> QED
    BY <2>3, <2>4
<1>7. ASSUME NEW s \in Sessions, NEW w \in Workers, Tasked(s, w)
      PROVE  Tasked(s, w)'
  BY <1>2, <1>4, <1>7, TaskPaths DEF Tasked, TaskOf
<1>8. ASSUME NEW s \in Sessions, NEW w \in Workers, Has(s, w)'
      PROVE  Tasked(s, w)'
  <2>1. CASE Has(s, w)
    BY <1>7, <2>1 DEF TaskInv
  <2>2. CASE ~Has(s, w)
    <3>1. PICK f \in ToSet(Files) : files'[<<s, w, f>>] # "none" /\ files[<<s, w, f>>] = "none"
      BY <1>8, <2>2, HasIs DEF Has
    <3>2. <<s, w, f>> \in Paths
      BY <3>1 DEF Paths
    <3>3. p = <<s, w, f>>
      BY <1>4, <3>1, <3>2
    <3>4. s = Session(r) /\ w = Writing(r).slug
      BY <1>3, <3>3
    <3>5. WriteNumber(r) = 1
      BY <2>2, <3>4 DEF OpenFile, DirectoryGone
    <3>6. p = TaskOf(s, w)
      BY <1>3, <3>4, <3>5 DEF TaskOf
    <3> QED
      BY <1>3, <1>4, <3>6 DEF Tasked, TaskOf
  <2> QED
    BY <2>1, <2>2
<1>9. ASSUME NEW s \in Sessions, NEW w \in Workers
      PROVE  /\ files'[TaskOf(s, w)] = "empty" => Pending(s, w)'
             /\ files'[TaskOf(s, w)] = "headed" => Headed(s, w)'
  <2>1. CASE TaskOf(s, w) = p
    BY <1>1, <1>2, <1>3, <1>4, <1>5, <2>1 DEF Pending, TaskOf
  <2>2. CASE TaskOf(s, w) # p
    <3>1. files'[TaskOf(s, w)] = files[TaskOf(s, w)]
      BY <1>4, <2>2, TaskPaths
    <3>2. Pending(s, w) => Pending(s, w)'
      BY <1>2, <1>5, <2>2 DEF Pending, TaskOf
    <3>3. Headed(s, w) => Headed(s, w)'
      BY <1>2, <1>5 DEF Headed
    <3> QED
      BY <3>1, <3>2, <3>3 DEF TaskInv
  <2> QED
    BY <2>1, <2>2
<1> QED
  BY <1>2, <1>4, <1>6, <1>7, <1>8, <1>9, OrchestrationAssumption DEF TaskInv, TaskOf

\* What a file is filled with is not blank.
LEMMA FilledWith ==
  ASSUME NEW r \in Runs, plan[r] \in Configs, ~Malformed(plan[r]), next[r] \in 1..(3 * WorkersOf(r)),
         NEW c, c = IF WriteNumber(r) = 1 THEN Writing(r).task ELSE "plain"
  PROVE  c \in {"plain", "headed"} /\ (c = "headed" => WriteNumber(r) = 1 /\ Writing(r).task = "headed")
<1>1. PICK i \in DOMAIN plan[r].workers : Writing(r) = plan[r].workers[i]
  BY PathsWritten
<1>2. Writing(r).task \in Tasks /\ Writing(r).task # "blank"
  BY <1>1, PathsWritten DEF Malformed
<1> QED
  BY <1>2 DEF Tasks

\* A file is filled with the task that was given, if it is the first.
LEMMA FillKeepsTasks ==
  ASSUME TaskInv, Shape, NEW r \in Runs, FillFile(r)
  PROVE  TaskInv'
<1>1. PICK p, c : p = WritePath(r) /\ c = IF WriteNumber(r) = 1 THEN Writing(r).task ELSE "plain"
  OBVIOUS
<1>2. /\ pc[r] = "fill" /\ plan' = plan /\ unread' = unread /\ erased' = erased /\ halted' = halted
      /\ unlinked' = unlinked \ {r}
      /\ files' = IF r \in unlinked THEN files ELSE [files EXCEPT ![p] = c]
  BY <1>1 DEF FillFile
<1>3. /\ \A q \in Runs \ {r} : pc'[q] = pc[q] /\ next'[q] = next[q]
      /\ pc'[r] \in {"write", "add"}
      /\ pc'[r] = "write" => next[r] # 3 * WorkersOf(r) /\ next'[r] = next[r] + 1
  <2>1. IF next[r] = 3 * WorkersOf(r) THEN GoTo(r, "add") /\ AtWorker(r, 1)
        ELSE GoTo(r, "write") /\ AtWorker(r, next[r] + 1)
    BY DEF FillFile, WorkersOf
  <2> QED
    BY <2>1, GoToLeaves, AtWorkerLeaves
<1>4. /\ Writes(r) /\ ~Malformed(plan[r]) /\ next[r] \in 1..(3 * WorkersOf(r))
      /\ r \notin unlinked => files[p] # "none"
  BY <1>1, <1>2 DEF TaskInv, Writes
<1>5. /\ p \in Paths /\ p = <<Session(r), Writing(r).slug, WriteOrder[WriteNumber(r)]>>
      /\ (WriteNumber(r) = 1 <=> WriteOrder[WriteNumber(r)] = "task")
      /\ WorkersOf(r) \in Nat
  BY <1>1, <1>4, PathsWritten, PlanNames DEF Writes
<1>6. PICK i \in DOMAIN plan[r].workers : Writing(r) = plan[r].workers[i]
  BY <1>4, PathsWritten DEF Writes
<1>7. c \in {"plain", "headed"} /\ (c = "headed" => WriteNumber(r) = 1 /\ Writing(r).task = "headed")
  BY <1>1, <1>4, FilledWith DEF Writes
<1>8. /\ files' \in [Paths -> Contents]
      /\ \A t \in Paths : files'[t] = IF t = p /\ r \notin unlinked THEN c ELSE files[t]
  BY <1>2, <1>5, <1>7 DEF TaskInv, Contents
<1>9. \A t \in Paths : files'[t] = "none" <=> files[t] = "none"
  BY <1>4, <1>7, <1>8
<1>10. /\ \A q \in Runs \ {r} : WritePath(q)' = WritePath(q)
       /\ \A q \in Runs : Session(q)' = Session(q) /\ WorkersOf(q)' = WorkersOf(q)
  BY <1>2, <1>3 DEF WritePath, Writing, WriteNumber, WriteOrder, Session, WorkersOf
<1>11. ASSUME NEW q \in Runs
       PROVE  Writes(q)'
  <2>1. CASE q = r
    <3>1. pc'[r] = "write" => next'[r] \in 1..(3 * WorkersOf(r))
      BY <1>3, <1>4, <1>5
    <3> QED
      BY <1>2, <1>3, <1>4, <1>10, <2>1, <3>1 DEF Writes
  <2>2. CASE q # r
    <3>1. Writes(q)
      BY DEF TaskInv
    <3>2. pc[q] = "fill" => WritePath(q) \in Paths
      BY <3>1, PathsWritten DEF Writes
    <3> QED
      BY <1>2, <1>3, <1>9, <1>10, <2>2, <3>1, <3>2 DEF Writes
  <2> QED
    BY <2>1, <2>2
<1>12. ASSUME NEW s \in Sessions, NEW w \in Workers
       PROVE  Tasked(s, w) => Tasked(s, w)'
  BY <1>2, <1>9, TaskPaths DEF Tasked, TaskOf
<1>13. ASSUME NEW s \in Sessions, NEW w \in Workers
       PROVE  Has(s, w)' => Has(s, w)
  <2> SUFFICES ASSUME NEW f \in ToSet(Files), files'[<<s, w, f>>] # "none"
               PROVE  files[<<s, w, f>>] # "none"
    BY HasIs DEF Has
  <2> QED
    BY <1>9 DEF Paths
<1>14. ASSUME NEW s \in Sessions, NEW w \in Workers
       PROVE  /\ files'[TaskOf(s, w)] = "empty" => Pending(s, w)'
              /\ files'[TaskOf(s, w)] = "headed" => Headed(s, w)'
  <2>1. CASE TaskOf(s, w) = p /\ r \notin unlinked
    <3>1. files'[TaskOf(s, w)] = c
      BY <1>5, <1>8, <2>1
    <3>2. c = "headed" => Headed(s, w)'
      <4>1. s = Session(r) /\ w = Writing(r).slug
        BY <1>5, <2>1 DEF TaskOf
      <4> QED
        BY <1>2, <1>3, <1>6, <1>7, <1>10, <4>1 DEF Headed
    <3> QED
      BY <1>7, <3>1, <3>2
  <2>2. CASE TaskOf(s, w) # p \/ r \in unlinked
    <3>1. files'[TaskOf(s, w)] = files[TaskOf(s, w)]
      BY <1>8, <2>2, TaskPaths
    <3>2. Pending(s, w) => Pending(s, w)'
      <4>1. \A q \in Runs : q \notin unlinked /\ WritePath(q) = TaskOf(s, w) => q # r
        BY <1>1, <2>2
      <4>2. TaskOf(s, w)' = TaskOf(s, w)
        BY DEF TaskOf
      <4> QED
        BY <1>2, <1>3, <1>10, <4>1, <4>2 DEF Pending
    <3>3. Headed(s, w) => Headed(s, w)'
      BY <1>2, <1>3, <1>10 DEF Headed
    <3> QED
      BY <3>1, <3>2, <3>3 DEF TaskInv
  <2> QED
    BY <2>1, <2>2
<1> QED
  BY <1>2, <1>8, <1>11, <1>12, <1>13, <1>14, OrchestrationAssumption DEF TaskInv, TaskOf

\* A file that is removed is known to have been, and so is whoever has it open.
LEMMA EraseKeepsTasks ==
  ASSUME TaskInv, NEW p \in Paths, EraseFile(p), UNCHANGED <<plan, pc, next, unread>>
  PROVE  TaskInv'
<1>1. /\ files' = [files EXCEPT ![p] = "none"] /\ erased' = erased \cup {p} /\ halted' = halted \ {p}
      /\ unlinked' = unlinked \cup {q \in Runs : pc[q] = "fill" /\ WritePath(q) = p}
      /\ plan' = plan /\ pc' = pc /\ next' = next /\ unread' = unread
  BY DEF EraseFile
<1>2. files' \in [Paths -> Contents] /\ \A t \in Paths : files'[t] = IF t = p THEN "none" ELSE files[t]
  BY <1>1 DEF TaskInv, Contents
<1>3. \A q : WritePath(q)' = WritePath(q) /\ Session(q)' = Session(q) /\ WorkersOf(q)' = WorkersOf(q)
  BY <1>1 DEF WritePath, Writing, WriteNumber, WriteOrder, Session, WorkersOf
<1>4. ASSUME NEW q \in Runs
      PROVE  Writes(q)'
  <2>1. Writes(q)
    BY DEF TaskInv
  <2>2. pc[q] = "fill" => WritePath(q) \in Paths
    BY <2>1, PathsWritten DEF Writes
  <2> QED
    BY <1>1, <1>2, <1>3, <2>1, <2>2 DEF Writes
<1>5. ASSUME NEW s \in Sessions, NEW w \in Workers
      PROVE  Tasked(s, w) => Tasked(s, w)'
  BY <1>1, <1>2, TaskPaths DEF Tasked, TaskOf
<1>6. ASSUME NEW s \in Sessions, NEW w \in Workers
      PROVE  Has(s, w)' => Has(s, w)
  <2> SUFFICES ASSUME NEW f \in ToSet(Files), files'[<<s, w, f>>] # "none"
               PROVE  files[<<s, w, f>>] # "none"
    BY HasIs DEF Has
  <2> QED
    BY <1>2 DEF Paths
<1>7. ASSUME NEW s \in Sessions, NEW w \in Workers
      PROVE  /\ files'[TaskOf(s, w)] = "empty" => Pending(s, w)'
             /\ files'[TaskOf(s, w)] = "headed" => Headed(s, w)'
  <2>1. CASE TaskOf(s, w) = p
    BY <1>2, <2>1
  <2>2. CASE TaskOf(s, w) # p
    <3>1. files'[TaskOf(s, w)] = files[TaskOf(s, w)]
      BY <1>2, <2>2, TaskPaths
    <3>2. Pending(s, w) => Pending(s, w)'
      <4>1. TaskOf(s, w)' = TaskOf(s, w)
        BY DEF TaskOf
      <4> QED
        BY <1>1, <1>3, <2>2, <4>1 DEF Pending
    <3>3. Headed(s, w) => Headed(s, w)'
      BY <1>1, <1>3 DEF Headed
    <3> QED
      BY <3>1, <3>2, <3>3 DEF TaskInv
  <2> QED
    BY <2>1, <2>2
<1> QED
  BY <1>1, <1>2, <1>4, <1>5, <1>6, <1>7, OrchestrationAssumption DEF TaskInv, TaskOf

\* A run that stops leaves its file for empty, if it is there.
LEMMA HaltKeepsTasks ==
  ASSUME TaskInv, NEW r \in Runs, Halt(r), plan' = plan, unread' = unread,
         pc'[r] \notin {"idle", "check", "write", "fill"}, pc[r] \notin {"idle", "refused"},
         \A q \in Runs \ {r} : pc'[q] = pc[q] /\ next'[q] = next[q]
  PROVE  TaskInv'
<1>1. /\ files' = files /\ erased' = erased /\ unlinked' = unlinked \ {r}
      /\ halted' = IF pc[r] = "fill" /\ r \notin unlinked THEN halted \cup {WritePath(r)} ELSE halted
  BY DEF Halt
<1>2. /\ \A q \in Runs \ {r} : WritePath(q)' = WritePath(q)
      /\ \A q : Session(q)' = Session(q) /\ WorkersOf(q)' = WorkersOf(q)
  BY DEF WritePath, Writing, WriteNumber, WriteOrder, Session, WorkersOf
<1>3. ASSUME NEW q \in Runs
      PROVE  Writes(q)'
  <2>1. Writes(q)
    BY DEF TaskInv
  <2>2. CASE q = r
    BY <1>1, <1>2, <2>1, <2>2 DEF Writes
  <2>3. CASE q # r
    BY <1>1, <1>2, <2>1, <2>3 DEF Writes
  <2> QED
    BY <2>2, <2>3
<1>4. ASSUME NEW s \in Sessions, NEW w \in Workers
      PROVE  /\ Tasked(s, w)' <=> Tasked(s, w)
             /\ Has(s, w)' <=> Has(s, w)
             /\ Pending(s, w) => Pending(s, w)'
             /\ Headed(s, w) => Headed(s, w)'
             /\ files'[TaskOf(s, w)'] = files[TaskOf(s, w)]
  <2>1. TaskOf(s, w)' = TaskOf(s, w)
    BY DEF TaskOf
  <2>2. Pending(s, w) => Pending(s, w)'
    BY <1>1, <1>2, <2>1 DEF Pending
  <2>3. Headed(s, w) => Headed(s, w)'
    BY <1>2 DEF Headed
  <2> QED
    BY <1>1, <2>1, <2>2, <2>3 DEF Tasked, Has
<1> QED
  BY <1>1, <1>3, <1>4, OrchestrationAssumption DEF TaskInv, TaskOf

\* Any other step of a run, from one point of its way to another.
LEMMA OnwardKeepsTasks ==
  ASSUME TaskInv, NEW r \in Runs, UNCHANGED <<plan, disk, unread>>,
         \A q \in Runs \ {r} : pc'[q] = pc[q] /\ next'[q] = next[q],
         pc[r] # "fill", pc'[r] \notin {"idle", "fill"},
         pc[r] = "idle" => pc'[r] = "refused" \/ ~Malformed(plan[r]),
         pc[r] # "refused",
         pc'[r] = "check" => next'[r] = 1, pc'[r] = "write" => next'[r] = 1
  PROVE  TaskInv'
<1>1. files' = files /\ erased' = erased /\ unlinked' = unlinked /\ halted' = halted /\ plan' = plan /\ unread' = unread
  BY DEF disk
<1>2. /\ \A q \in Runs \ {r} : WritePath(q)' = WritePath(q)
      /\ \A q : Session(q)' = Session(q) /\ WorkersOf(q)' = WorkersOf(q)
  BY <1>1 DEF WritePath, Writing, WriteNumber, WriteOrder, Session, WorkersOf
<1>3. ASSUME NEW q \in Runs
      PROVE  Writes(q)'
  <2>1. Writes(q)
    BY DEF TaskInv
  <2>2. CASE q = r
    <3>1. pc'[r] = "write" => 1 \in 1..(3 * WorkersOf(r))
      <4>1. SUFFICES ASSUME pc'[r] = "write"
                     PROVE  1 \in 1..(3 * WorkersOf(r))
        OBVIOUS
      <4>2. plan[r].workers # <<>>
        BY <2>1, <2>2, <4>1 DEF Writes, Malformed
      <4>3. WorkersOf(r) \in Nat /\ WorkersOf(r) >= 1
        BY <2>1, <2>2, <4>2, PlanNames DEF Writes
      <4> QED
        BY <4>3
    <3> QED
      BY <1>1, <1>2, <2>1, <2>2, <3>1 DEF Writes
  <2>3. CASE q # r
    BY <1>1, <1>2, <2>1, <2>3 DEF Writes
  <2> QED
    BY <2>2, <2>3
<1>4. ASSUME NEW s \in Sessions, NEW w \in Workers
      PROVE  /\ Tasked(s, w)' <=> Tasked(s, w)
             /\ Has(s, w)' <=> Has(s, w)
             /\ Pending(s, w) => Pending(s, w)'
             /\ Headed(s, w) => Headed(s, w)'
             /\ files'[TaskOf(s, w)'] = files[TaskOf(s, w)]
  <2>1. TaskOf(s, w)' = TaskOf(s, w)
    BY DEF TaskOf
  <2>2. Pending(s, w) => Pending(s, w)'
    BY <1>1, <1>2, <2>1 DEF Pending
  <2>3. Headed(s, w) => Headed(s, w)'
    BY <1>1, <1>2 DEF Headed
  <2> QED
    BY <1>1, <2>1, <2>2, <2>3 DEF Tasked, Has
<1> QED
  BY <1>1, <1>3, <1>4, OrchestrationAssumption DEF TaskInv, TaskOf

\* What holds of the files stays so when only the reader, or nobody, takes a step.
LEMMA StillKeepsTasks ==
  ASSUME TaskInv, UNCHANGED <<plan, pc, next, disk>>,
         unread' \subseteq {w \in Workers : Tasked(Watched, w)}
  PROVE  TaskInv'
<1>1. files' = files /\ erased' = erased /\ unlinked' = unlinked /\ halted' = halted
      /\ plan' = plan /\ pc' = pc /\ next' = next
  BY DEF disk
<1>2. \A q : WritePath(q)' = WritePath(q) /\ Session(q)' = Session(q) /\ WorkersOf(q)' = WorkersOf(q)
  BY <1>1 DEF WritePath, Writing, WriteNumber, WriteOrder, Session, WorkersOf
<1>3. \A q \in Runs : Writes(q)'
  BY <1>1, <1>2 DEF Writes, TaskInv
<1>4. \A s, w : /\ TaskOf(s, w)' = TaskOf(s, w) /\ (Tasked(s, w)' <=> Tasked(s, w))
                /\ (Has(s, w)' <=> Has(s, w)) /\ (Pending(s, w) => Pending(s, w)')
                /\ (Headed(s, w) => Headed(s, w)')
  BY <1>1, <1>2 DEF TaskOf, Tasked, Has, Pending, Headed
<1> QED
  BY <1>1, <1>3, <1>4, OrchestrationAssumption DEF TaskInv

\* Whatever a run does next, and whoever else takes a step.
LEMMA RunKeepsTasks ==
  ASSUME TaskInv, Shape, NEW r \in Runs, Cleanup(r) \/ Execute(r) \/ Undo(r), unread' = unread
  PROVE  TaskInv'
<1>0. Writes(r)
  BY DEF TaskInv
<1>1. CASE Cleanup(r)
  <2>1. /\ UNCHANGED <<plan, disk, unread>> /\ pc[r] \in {"prune", "kill", "cleanTree", "cleanPrune", "cleanBranch"}
        /\ \/ next' = next /\ (GoTo(r, "kill") \/ GoTo(r, "cleanTree") \/ GoTo(r, "cleanPrune") \/ GoTo(r, "cleanBranch"))
           \/ Advance(r, "cleanTree", "write")
    BY <1>1 DEF Cleanup, Prune, KillExisting, CleanWorktree, CleanPrune, CleanBranch
  <2>2. /\ \A q \in Runs \ {r} : pc'[q] = pc[q] /\ next'[q] = next[q]
        /\ pc'[r] \in {"kill", "cleanTree", "cleanPrune", "cleanBranch", "write"}
        /\ pc'[r] = "write" => next'[r] = 1
    <3>1. CASE Advance(r, "cleanTree", "write")
      BY <3>1, AdvanceLeaves, AdvanceGoes
    <3> QED
      BY <2>1, <3>1, GoToLeaves
  <2> QED
    BY <2>1, <2>2, OnwardKeepsTasks
<1>2. CASE RefusePlan(r) \/ Begin(r) \/ CheckSession(r)
  <2>1. /\ UNCHANGED <<plan, next, disk, unread>> /\ pc[r] \in {"idle", "check"}
        /\ pc[r] = "idle" => GoTo(r, "refused") \/ (~Malformed(plan[r]) /\ (GoTo(r, "prune") \/ GoTo(r, "check")))
        /\ pc[r] = "check" => GoTo(r, "write") \/ GoTo(r, "refused")
    BY <1>2 DEF RefusePlan, Begin, CheckSession
  <2>2. /\ \A q \in Runs \ {r} : pc'[q] = pc[q] /\ next'[q] = next[q]
        /\ pc'[r] \in {"refused", "prune", "check", "write"} /\ next'[r] = next[r]
        /\ pc[r] = "idle" => pc'[r] = "refused" \/ ~Malformed(plan[r])
    BY <2>1, GoToLeaves
  <2>3. next[r] = 1
    BY <1>0, <2>1 DEF Writes
  <2> QED
    BY <2>1, <2>2, <2>3, OnwardKeepsTasks
<1>3. CASE OpenFile(r) \/ FillFile(r)
  BY <1>3, OpenKeepsTasks, FillKeepsTasks
<1>4. CASE AddWorktree(r) \/ AddFails(r) \/ Overlay(r) \/ NewSession(r) \/ SplitWindow(r) \/ Launch(r)
  <2>1. /\ UNCHANGED <<plan, disk, unread>> /\ pc[r] \in {"add", "overlay", "session", "split", "launch"}
        /\ \/ next' = next /\ (GoTo(r, "overlay") \/ GoTo(r, "split") \/ GoTo(r, "launch"))
           \/ StartRollback(r) \/ Advance(r, "add", "session") \/ Advance(r, "split", "started")
    BY <1>4 DEF AddWorktree, AddFails, Overlay, NewSession, SplitWindow, Launch
  <2>2. /\ \A q \in Runs \ {r} : pc'[q] = pc[q] /\ next'[q] = next[q]
        /\ pc'[r] \in {"overlay", "split", "launch", "undoSession", "add", "session", "started"}
    <3>1. CASE StartRollback(r)
      BY <3>1, GoToLeaves, AtWorkerLeaves DEF StartRollback
    <3>2. CASE Advance(r, "add", "session") \/ Advance(r, "split", "started")
      BY <3>2, AdvanceLeaves
    <3> QED
      BY <2>1, <3>1, <3>2, GoToLeaves
  <2> QED
    BY <2>1, <2>2, OnwardKeepsTasks
<1>5. CASE CommandFails(r)
  <2>1. /\ plan' = plan /\ unread' = unread /\ Halt(r) /\ pc[r] \notin {"idle", "refused"}
        /\ (GoTo(r, "stuck") /\ next' = next) \/ StartRollback(r)
    BY <1>5 DEF CommandFails, Active, Ended
  <2>2. /\ \A q \in Runs \ {r} : pc'[q] = pc[q] /\ next'[q] = next[q]
        /\ pc'[r] \in {"stuck", "undoSession"}
    BY <2>1, GoToLeaves, AtWorkerLeaves DEF StartRollback
  <2> QED
    BY <2>1, <2>2, HaltKeepsTasks
<1>6. CASE UndoSession(r) \/ UndoWorktree(r) \/ UndoPrune(r) \/ UndoBranch(r) \/ UndoFails(r)
  <2>1. /\ UNCHANGED <<plan, disk, unread>> /\ AfterUndo(r) /\ pc[r] \in UndoingWorker \cup {"undoSession"}
    BY <1>6 DEF UndoSession, UndoWorktree, UndoPrune, UndoBranch, UndoFails, Tries, UndoingWorker
  <2>2. /\ \A q \in Runs \ {r} : pc'[q] = pc[q] /\ next'[q] = next[q]
        /\ pc'[r] \in UndoingWorker \cup {"undoFiles"}
    BY <2>1, AfterUndoLeaves DEF UndoingWorker
  <2> QED
    BY <2>1, <2>2, OnwardKeepsTasks DEF UndoingWorker
<1>7. CASE UndoAborts(r)
  <2>1. /\ UNCHANGED <<plan, disk, unread, next>> /\ GoTo(r, "stuck") /\ pc[r] \in {"undoTree", "undoFiles"}
    BY <1>7 DEF UndoAborts
  <2>2. pc'[r] = "stuck" /\ \A q \in Runs \ {r} : pc'[q] = pc[q] /\ next'[q] = next[q]
    BY <2>1, GoToLeaves
  <2> QED
    BY <2>1, <2>2, OnwardKeepsTasks
<1>8. CASE UndoFiles(r)
  <2>1. CASE fresh[r] /\ HasDirectory(Session(r))
    <3>1. PICK p \in Paths : EraseFile(p)
      BY <1>8, <2>1 DEF UndoFiles
    <3>2. UNCHANGED <<plan, pc, next, unread>>
      BY <1>8, <2>1 DEF UndoFiles
    <3> QED
      BY <3>1, <3>2, EraseKeepsTasks
  <2>2. CASE ~(fresh[r] /\ HasDirectory(Session(r)))
    <3>1. UNCHANGED <<plan, next, disk, unread>> /\ GoTo(r, "failed") /\ pc[r] = "undoFiles"
      BY <1>8, <2>2 DEF UndoFiles
    <3>2. pc'[r] = "failed" /\ \A q \in Runs \ {r} : pc'[q] = pc[q] /\ next'[q] = next[q]
      BY <3>1, GoToLeaves
    <3> QED
      BY <3>1, <3>2, OnwardKeepsTasks
  <2> QED
    BY <2>1, <2>2
<1> QED
  BY <1>1, <1>2, <1>3, <1>4, <1>5, <1>6, <1>7, <1>8 DEF Execute, Undo

LEMMA NextKeepsTasks ==
  ASSUME TaskInv, Shape, [Next]_vars
  PROVE  TaskInv'
<1>0. unread \subseteq {w \in Workers : Tasked(Watched, w)}
  BY DEF TaskInv
<1>1. ASSUME NEW r \in Runs, RunStep(r)
      PROVE  TaskInv'
  <2>1. unread' = unread
    BY <1>1 DEF RunStep, Cleanup, Prune, KillExisting, CleanWorktree, CleanPrune, CleanBranch,
         Execute, RefusePlan, Begin, CheckSession, OpenFile, FillFile, AddWorktree, AddFails, Overlay,
         NewSession, SplitWindow, Launch, CommandFails,
         Undo, UndoSession, UndoWorktree, UndoPrune, UndoBranch, UndoFails, UndoAborts, UndoFiles
  <2> QED
    BY <1>1, <2>1, RunKeepsTasks DEF RunStep
<1>2. ASSUME NEW r \in Runs, KillRun(r)
      PROVE  TaskInv'
  <2>1. /\ UNCHANGED <<plan, next, unread>> /\ GoTo(r, "killed") /\ Halt(r) /\ pc[r] \notin {"idle", "refused"}
    BY <1>2 DEF KillRun, Active, Ended
  <2>2. pc'[r] = "killed" /\ \A q \in Runs \ {r} : pc'[q] = pc[q] /\ next'[q] = next[q]
    BY <2>1, GoToLeaves
  <2> QED
    BY <2>1, <2>2, HaltKeepsTasks
<1>3. ASSUME NEW s \in Sessions, SessionEnds(s)
      PROVE  TaskInv'
  BY <1>0, <1>3, StillKeepsTasks DEF SessionEnds
<1>4. ASSUME ListWorkers
      PROVE  TaskInv'
  <2>1. unread' \subseteq {w \in Workers : Tasked(Watched, w)}
    BY <1>4, OrchestrationAssumption DEF ListWorkers, TaskInv
  <2> QED
    BY <1>4, <2>1, StillKeepsTasks DEF ListWorkers
<1>5. ASSUME NEW w \in Workers, ReadTask(w) \/ RefuseTask(w)
      PROVE  TaskInv'
  <2>1. unread' \subseteq unread
    BY <1>5 DEF ReadTask, RefuseTask
  <2> QED
    BY <1>0, <1>5, <2>1, StillKeepsTasks DEF ReadTask, RefuseTask
<1>6. CASE UNCHANGED vars
  BY <1>0, <1>6, StillKeepsTasks DEF vars
<1> QED
  BY <1>1, <1>2, <1>3, <1>4, <1>5, <1>6 DEF Next

LEMMA TasksHold == Spec => [](TaskInv /\ Shape)
<1>1. Init => TaskInv
  <2> SUFFICES ASSUME Init
               PROVE  TaskInv
    OBVIOUS
  <2>1. PICK c \in {"none", "plain"} : files = [p \in Paths |-> c]
    BY DEF Init, Leftovers, Left
  <2>2. \A r \in Runs : pc[r] = "idle" /\ next[r] = 1 /\ plan[r] \in Configs
    BY DEF Init
  <2>3. \A r \in Runs : Writes(r)
    BY <2>2 DEF Init, Writes
  <2>4. files \in [Paths -> Contents] /\ \A p \in Paths : files[p] = c
    BY <2>1 DEF Contents
  <2>5. ASSUME NEW s \in Sessions, NEW w \in Workers
        PROVE  /\ Has(s, w) => Tasked(s, w)
               /\ files[TaskOf(s, w)] \notin {"empty", "headed"}
    <3>1. TaskOf(s, w) \in Paths /\ \A f \in ToSet(Files) : <<s, w, f>> \in Paths
      BY TaskPaths DEF Paths
    <3> QED
      BY <2>4, <3>1, HasIs DEF Tasked
  <2> QED
    BY <2>3, <2>4, <2>5 DEF TaskInv, Init
<1>2. TaskInv /\ Shape /\ [Next]_vars => TaskInv'
  BY NextKeepsTasks
<1>3. OwnInv => Shape
  BY DEF OwnInv
<1> QED
  BY <1>1, <1>2, <1>3, OwnHolds, PTL DEF Spec

\* For any number of runs, plans, failures and moments of reading: a worker is
\* found without an objective for one of the reasons Explained names, be the
\* snapshot taken in the middle of a run's writes or of a rollback
\* (materializePlan, loadWorkerSnapshots, validateCanonicalSnapshot).
THEOREM SnapshotsAccepted == Spec => SnapshotAccepted
<1>1. ASSUME TaskInv, NEW w \in Workers, RefuseTask(w)
      PROVE  Explained(w)
  <2>1. /\ Tasked(Watched, w) /\ files[TaskOf(Watched, w)] # "plain"
        /\ TaskOf(Watched, w) = <<Watched, w, "task">>
    BY <1>1 DEF RefuseTask, HasObjective, TaskInv, TaskOf
  <2>2. /\ files[TaskOf(Watched, w)] = "empty" => Pending(Watched, w)
        /\ files[TaskOf(Watched, w)] = "headed" => Headed(Watched, w)
    BY <1>1, OrchestrationAssumption DEF TaskInv
  <2>3. files[TaskOf(Watched, w)] \in {"none", "empty", "headed"}
    BY <1>1, <2>1, TaskPaths, OrchestrationAssumption DEF TaskInv, Contents
  <2>4. CASE files[TaskOf(Watched, w)] = "none"
    BY <2>1, <2>4 DEF Tasked, Explained
  <2>5. CASE files[TaskOf(Watched, w)] = "empty"
    BY <2>1, <2>2, <2>5 DEF Pending, Explained
  <2>6. CASE files[TaskOf(Watched, w)] = "headed"
    BY <2>1, <2>2, <2>6 DEF Headed, Explained
  <2> QED
    BY <2>3, <2>4, <2>5, <2>6
<1>2. TaskInv /\ [Next]_vars => [\A w \in Workers : RefuseTask(w) => Explained(w)]_vars
  BY <1>1
<1> QED
  BY <1>2, TasksHold, PTL DEF Spec, SnapshotAccepted

-----------------------------------------------------------------------------
(* A run that is alone: what it has made so far, and what it has room for. *)

\* The workers whose worktree has been added, and those whose name is free.
Added(r) ==
  IF pc[r] = "add" THEN 1..(next[r] - 1)
  ELSE IF pc[r] = "overlay" THEN 1..next[r]
  ELSE IF pc[r] \in {"session", "split", "launch"} THEN 1..WorkersOf(r) ELSE {}

Cleared(r) ==
  IF pc[r] \in {"cleanTree", "cleanPrune", "cleanBranch"} THEN 1..(next[r] - 1)
  ELSE IF pc[r] \in {"write", "fill"} THEN 1..WorkersOf(r)
  ELSE IF pc[r] = "add" THEN next[r]..WorkersOf(r)
  ELSE IF pc[r] = "overlay" THEN (next[r] + 1)..WorkersOf(r) ELSE {}

\* The files that have been written, by their number.
Written(r) ==
  IF pc[r] \in {"write", "fill"} THEN 1..(next[r] - 1)
  ELSE IF pc[r] \in {"add", "overlay", "session", "split", "launch"} THEN 1..(3 * WorkersOf(r)) ELSE {}
Full == {"plain", "headed"}

Counted(r) ==
  /\ WorkersOf(r) >= 1
  /\ pc[r] \in {"check", "prune", "kill", "session"} => next[r] = 1
  /\ pc[r] \in {"cleanTree", "cleanPrune", "cleanBranch", "add", "overlay", "split", "launch"} =>
       next[r] \in 1..WorkersOf(r)
  /\ pc[r] \in {"write", "fill"} => next[r] \in 1..(3 * WorkersOf(r))

Owned(r, i) ==
  /\ tree[NameOf(r, i)] = [listed |-> TRUE, present |-> TRUE, by |-> r]
  /\ branch[NameOf(r, i)] = r

Cleaning == {"cleanTree", "cleanPrune", "cleanBranch", "write", "fill", "add", "overlay", "session"}

\* What a run has to itself, as far as it has come.
Progress(r) ==
  /\ Counted(r) /\ (pc[r] = "check" => ~Replacing(r))
  /\ \A i \in Added(r) : Owned(r, i)
  /\ \A j \in Written(r) : files[PathNo(r, j)] \in Full
  /\ pc[r] \in {"split", "launch"} => r \in robbed \/ session[Session(r)] = r
  /\ pc[r] = "launch" => r \in robbed \/ split[r] = Session(r)
  /\ pc[r] \in {"split", "launch"} =>
       \A i \in 1..(next[r] - 1) : r \in robbed \/ plan[r].workers[i].slug \in panes[Session(r)]
  /\ Replacing(r) =>
       /\ \A i \in Cleared(r) : Room(NameOf(r, i))
       /\ pc[r] \in Cleaning => session[Session(r)] = Nobody
       /\ pc[r] \in {"cleanPrune", "cleanBranch"} => tree[Here(r)] = NoTree

\* The slugs of a plan that is worked on are all different.
Distinct(r) ==
  \A i, j \in 1..WorkersOf(r) : i # j => plan[r].workers[i].slug # plan[r].workers[j].slug

Forms ==
  /\ Shape /\ TaskInv
  /\ panes = [s \in Sessions |-> panes[s]] /\ split = [r \in Runs |-> split[r]]
  /\ \A r \in Runs : plan[r] \in Configs

AloneInv ==
  /\ Forms
  /\ \A r \in Runs \ crowded : Active(r) =>
       Distinct(r) /\ Progress(r) /\ r \notin unlinked /\ \A q \in Runs \ {r} : ~Active(q)

\* Workers of one plan have worktrees and branches of different names.
LEMMA NamesApart ==
  ASSUME NEW r \in Runs, plan[r] \in Configs, Distinct(r),
         NEW i \in 1..WorkersOf(r), NEW j \in 1..WorkersOf(r), i # j
  PROVE  NameOf(r, i) # NameOf(r, j)
<1>1. PICK s, a, b : s = plan[r].session /\ a = plan[r].workers[i].slug /\ b = plan[r].workers[j].slug
  OBVIOUS
<1>2. s \in Seq(Words) /\ a \in Seq(Words) /\ b \in Seq(Words) /\ a # b
  BY <1>1, PlanNames DEF Distinct
<1>3. s \o a # s \o b
  BY <1>2, ConcatSimplifications
<1>4. NameOf(r, i) = s \o a /\ NameOf(r, j) = s \o b
  BY <1>1 DEF NameOf, Name
<1>5. QED
  BY <1>3, <1>4

\* Files of different numbers are different files.
LEMMA PathsApart ==
  ASSUME NEW r \in Runs, plan[r] \in Configs, Distinct(r),
         NEW j \in 1..(3 * WorkersOf(r)), NEW k \in 1..(3 * WorkersOf(r)), PathNo(r, j) = PathNo(r, k)
  PROVE  j = k
<1>1. PICK n, a, b, l, m : /\ n = WorkersOf(r) /\ a = ((j - 1) \div 3) + 1 /\ b = ((k - 1) \div 3) + 1
                           /\ l = ((j - 1) % 3) + 1 /\ m = ((k - 1) % 3) + 1
  OBVIOUS
<1>2. n \in Nat /\ j \in 1..(3 * n) /\ k \in 1..(3 * n)
  BY <1>1, PlanNames
<1>3. a \in 1..n /\ b \in 1..n /\ l \in 1..3 /\ m \in 1..3
  BY <1>1, <1>2, NumberWithin
<1>4. plan[r].workers[a].slug = plan[r].workers[b].slug /\ Files[l] = Files[m]
  BY <1>1 DEF PathNo, SlugNo, FileNo
<1>5. a = b
  BY <1>1, <1>3, <1>4 DEF Distinct
<1>6. l = m
  BY <1>3, <1>4, FilesOf
<1>7. ((j - 1) \div 3) = ((k - 1) \div 3) /\ ((j - 1) % 3) = ((k - 1) % 3)
  BY <1>1, <1>2, <1>5, <1>6
<1>8. QED
  BY <1>2, <1>7

LEMMA PathsOf ==
  ASSUME NEW r \in Runs, plan[r] \in Configs, NEW j \in 1..(3 * WorkersOf(r))
  PROVE  PathNo(r, j) \in Paths
<1>1. PICK i, m : i = ((j - 1) \div 3) + 1 /\ m = ((j - 1) % 3) + 1
  OBVIOUS
<1>2. i \in 1..WorkersOf(r) /\ m \in 1..3 /\ Session(r) \in Sessions
  BY <1>1, PlanNames, NumberWithin
<1>3. plan[r].workers[i].slug \in Workers /\ Files[m] \in ToSet(Files)
  BY <1>2, PlanNames, FilesOf
<1>4. QED
  BY <1>1, <1>2, <1>3 DEF PathNo, SlugNo, FileNo, Paths

-----------------------------------------------------------------------------
(* The steps of a run that is alone, in the order of its way.              *)

Quiet(r) == Forms /\ Distinct(r) /\ Progress(r) /\ r \notin unlinked

\* A worktree taken away or forgotten makes no room less.
LEMMA RoomStays ==
  ASSUME Forms, NEW m, NEW n \in Names, Room(n)
  PROVE  /\ branch[n] = Nobody
         /\ ~Pruned(tree)[n].listed /\ ~Pruned(tree)[n].present
         /\ ~WithoutTree(m)[n].listed /\ ~WithoutTree(m)[n].present
<1>1. Pruned(tree)[n] \in {tree[n], NoTree} /\ WithoutTree(m)[n] \in {tree[n], NoTree}
  BY PruneLeaves DEF Forms
<1>2. QED
  BY <1>1 DEF Room, NoTree

LEMMA BeginAlone ==
  ASSUME Forms, NEW r \in Runs, Begin(r)
  PROVE  Distinct(r)' /\ Progress(r)'
<1>1. /\ pc'[r] \in {"prune", "check"} /\ UNCHANGED <<plan, next>> /\ next[r] = 1
      /\ pc'[r] = "check" => ~Replacing(r)
  <2>1. GoTo(r, IF Replacing(r) THEN "prune" ELSE "check")
    BY DEF Begin
  <2>2. pc'[r] = IF Replacing(r) THEN "prune" ELSE "check"
    BY <2>1, GoToLeaves DEF Forms
  <2>3. pc'[r] \in {"prune", "check"} /\ (pc'[r] = "check" => ~Replacing(r))
    BY <2>2
  <2>4. UNCHANGED <<plan, next>> /\ next[r] = 1
    BY DEF Begin, Forms, TaskInv, Writes
  <2>5. QED
    BY <2>3, <2>4
<1>2. /\ WorkersOf(r) \in Nat /\ DOMAIN plan[r].workers = 1..WorkersOf(r)
      /\ plan[r].workers # <<>>
  BY PlanNames DEF Forms, Begin, Malformed
<1>3. WorkersOf(r) >= 1
  BY <1>2, PlanNames DEF Forms
<1>4. Distinct(r)
  BY <1>2 DEF Distinct, Begin, Malformed
<1>5. Distinct(r)'
  BY <1>1, <1>4 DEF Distinct, WorkersOf
<1>6. Progress(r)'
  BY <1>1, <1>3 DEF Progress, Counted, Added, Written, Cleared, Cleaning, WorkersOf, Replacing
<1>7. QED
  BY <1>5, <1>6

LEMMA CleanAlone ==
  ASSUME NEW r \in Runs, Quiet(r), Cleanup(r)
  PROVE  Progress(r)'
<1>0. plan' = plan /\ files' = files
  BY DEF Cleanup, Prune, KillExisting, CleanWorktree, CleanPrune, CleanBranch, disk
<1>1. CASE Prune(r)
  <2>1. pc'[r] = "kill" /\ next' = next /\ pc[r] = "prune"
    BY <1>1, GoToLeaves DEF Prune, Quiet, Forms
  <2>2. QED
    BY <1>0, <2>1 DEF Quiet, Progress, Counted, Added, Written, Cleared, Cleaning, WorkersOf
<1>2. CASE KillExisting(r)
  <2>1. pc'[r] = "cleanTree" /\ next' = next /\ pc[r] = "kill"
    BY <1>2, GoToLeaves DEF KillExisting, Quiet, Forms
  <2>4. session'[Session(r)] = Nobody
    <3>1. Session(r) \in Sessions
      BY PlanNames DEF Quiet, Forms
    <3>2. CASE Met(Session(r)) = {} /\ session' = session
      BY <3>1, <3>2 DEF Met
    <3>3. ASSUME NEW s \in Met(Session(r)), EndSession(s)
          PROVE  session'[Session(r)] = Nobody
      BY <3>1, <3>3, EndLeaves, MetIs DEF Quiet, Forms
    <3>4. QED
      BY <1>2, <3>2, <3>3 DEF KillExisting, tmux
  <2>2. next[r] = 1 /\ WorkersOf(r) \in Nat /\ WorkersOf(r) >= 1
    BY <2>1, PlanNames DEF Quiet, Forms, Progress, Counted
  <2>3. QED
    BY <1>0, <2>1, <2>2, <2>4 DEF Quiet, Progress, Counted, Added, Written, Cleared, Cleaning, WorkersOf, Session
<1>3. CASE CleanWorktree(r)
  <2>1. /\ pc'[r] = "cleanPrune" /\ pc[r] = "cleanTree" /\ tree' = WithoutTree(Here(r))
        /\ UNCHANGED <<next, branch, session>>
    BY <1>3, GoToLeaves DEF CleanWorktree, tmux, Quiet, Forms
  <2>2. PICK i : i = next[r]
    OBVIOUS
  <2>3. i \in 1..WorkersOf(r) /\ WorkersOf(r) \in Nat
    BY <2>1, <2>2, PlanNames DEF Quiet, Forms, Progress, Counted
  <2>4. Here(r) = NameOf(r, i) /\ Here(r) \in Names
    BY <2>2, <2>3, PlanNames DEF Here, Worker, NameOf, Quiet, Forms
  <2>5. tree'[Here(r)] = NoTree
    BY <2>1, <2>4, PruneLeaves DEF Quiet, Forms
  <2>6. Replacing(r) => \A k \in 1..(i - 1) : Room(NameOf(r, k))'
    <3>1. SUFFICES ASSUME Replacing(r), NEW k \in 1..(i - 1)
                   PROVE  Room(NameOf(r, k))'
      OBVIOUS
    <3>2. k \in Cleared(r) /\ k \in 1..WorkersOf(r)
      BY <2>1, <2>2, <2>3 DEF Cleared
    <3>3. PICK n \in Names : n = NameOf(r, k)
      BY <3>2, PlanNames DEF Quiet, Forms
    <3>4. Room(n)
      BY <3>1, <3>2, <3>3 DEF Quiet, Progress
    <3>5. branch[n] = Nobody /\ ~tree'[n].listed /\ ~tree'[n].present
      BY <2>1, <3>4, RoomStays DEF Quiet
    <3>6. NameOf(r, k)' = n
      BY <1>0, <3>3 DEF NameOf
    <3>7. QED
      BY <2>1, <3>5, <3>6 DEF Room
  <2>7. Here(r)' = Here(r)
    BY <1>0, <2>1 DEF Here, Worker
  <2>8. QED
    BY <1>0, <2>1, <2>2, <2>3, <2>5, <2>6, <2>7
    DEF Quiet, Progress, Counted, Added, Written, Cleared, Cleaning, WorkersOf, Replacing, Session
<1>6. CASE CleanPrune(r)
  <2>1. /\ pc'[r] = "cleanBranch" /\ pc[r] = "cleanPrune" /\ tree' = Pruned(tree)
        /\ UNCHANGED <<next, branch, session>>
    BY <1>6, GoToLeaves DEF CleanPrune, tmux, Quiet, Forms
  <2>2. PICK i : i = next[r]
    OBVIOUS
  <2>3. i \in 1..WorkersOf(r) /\ WorkersOf(r) \in Nat
    BY <2>1, <2>2, PlanNames DEF Quiet, Forms, Progress, Counted
  <2>4. Here(r) = NameOf(r, i) /\ Here(r) \in Names
    BY <2>2, <2>3, PlanNames DEF Here, Worker, NameOf, Quiet, Forms
  <2>5. Replacing(r) => tree'[Here(r)] = NoTree
    BY <2>1, <2>4, PruneLeaves DEF Quiet, Forms, Progress
  <2>6. Replacing(r) => \A k \in 1..(i - 1) : Room(NameOf(r, k))'
    <3>1. SUFFICES ASSUME Replacing(r), NEW k \in 1..(i - 1)
                   PROVE  Room(NameOf(r, k))'
      OBVIOUS
    <3>2. k \in Cleared(r) /\ k \in 1..WorkersOf(r)
      BY <2>1, <2>2, <2>3 DEF Cleared
    <3>3. PICK n \in Names : n = NameOf(r, k)
      BY <3>2, PlanNames DEF Quiet, Forms
    <3>4. Room(n)
      BY <3>1, <3>2, <3>3 DEF Quiet, Progress
    <3>5. branch[n] = Nobody /\ ~tree'[n].listed /\ ~tree'[n].present
      BY <2>1, <3>4, RoomStays DEF Quiet
    <3>6. NameOf(r, k)' = n
      BY <1>0, <3>3 DEF NameOf
    <3>7. QED
      BY <2>1, <3>5, <3>6 DEF Room
  <2>7. Here(r)' = Here(r)
    BY <1>0, <2>1 DEF Here, Worker
  <2>8. QED
    BY <1>0, <2>1, <2>2, <2>3, <2>5, <2>6, <2>7
    DEF Quiet, Progress, Counted, Added, Written, Cleared, Cleaning, WorkersOf, Replacing, Session
<1>4. CASE CleanBranch(r)
  <2>1. /\ pc[r] = "cleanBranch" /\ branch' = [branch EXCEPT ![Here(r)] = Nobody]
        /\ UNCHANGED <<tree, session>> /\ Advance(r, "cleanTree", "write")
    BY <1>4 DEF CleanBranch, tmux
  <2>2. PICK i, n : i = next[r] /\ n = WorkersOf(r)
    OBVIOUS
  <2>3. i \in 1..n /\ n \in Nat
    BY <2>1, <2>2, PlanNames DEF Quiet, Forms, Progress, Counted
  <2>4. Here(r) = NameOf(r, i) /\ Here(r) \in Names
    BY <2>2, <2>3, PlanNames DEF Here, Worker, NameOf, Quiet, Forms
  <2>5. /\ i = n => pc'[r] = "write" /\ next'[r] = 1
        /\ i # n => pc'[r] = "cleanTree" /\ next'[r] = i + 1
    BY <2>1, <2>2, AdvanceGoes DEF Quiet, Forms
  <2>6. \A m \in Names : Room(m) => Room(m)'
    BY <2>1 DEF Room, Quiet, Forms, Shape
  <2>7. Replacing(r) => Room(NameOf(r, i))'
    <3>1. NameOf(r, i)' = NameOf(r, i)
      BY <1>0 DEF NameOf
    <3>2. branch'[NameOf(r, i)] = Nobody
      BY <2>1, <2>4 DEF Quiet, Forms, Shape
    <3>3. Replacing(r) => tree'[NameOf(r, i)] = NoTree
      BY <2>1, <2>4 DEF Quiet, Progress
    <3>4. QED
      BY <3>1, <3>2, <3>3 DEF Room, NoTree
  <2>8. Replacing(r) => \A k \in 1..i : Room(NameOf(r, k))'
    <3>1. SUFFICES ASSUME Replacing(r), NEW k \in 1..i, k # i
                   PROVE  Room(NameOf(r, k))'
      BY <2>7
    <3>2. k \in Cleared(r) /\ k \in 1..WorkersOf(r)
      BY <2>1, <2>2, <2>3, <3>1 DEF Cleared
    <3>3. PICK m \in Names : m = NameOf(r, k)
      BY <3>2, PlanNames DEF Quiet, Forms
    <3>4. Room(m)'
      BY <2>6, <3>1, <3>2, <3>3 DEF Quiet, Progress
    <3>5. NameOf(r, k)' = m
      BY <1>0, <3>3 DEF NameOf
    <3>6. QED
      BY <3>4, <3>5 DEF Room
  <2>9. WorkersOf(r)' = n /\ (Replacing(r) => session'[Session(r)] = Nobody)
    BY <1>0, <2>1, <2>2 DEF WorkersOf, Quiet, Progress, Cleaning
  <2>10. QED
    BY <1>0, <2>2, <2>3, <2>5, <2>8, <2>9
    DEF Quiet, Progress, Counted, Added, Written, Cleared, Cleaning, Replacing, Session
<1>5. QED
  BY <1>1, <1>2, <1>3, <1>4, <1>6 DEF Cleanup

\* The checked session, the seeds of a worker, and the windows of the session.
LEMMA CheckAlone ==
  ASSUME NEW r \in Runs, Quiet(r), CheckSession(r), pc'[r] = "write"
  PROVE  Progress(r)'
<1>1. UNCHANGED <<plan, next, files, tree, branch, session>> /\ pc[r] = "check"
  BY DEF CheckSession, git, tmux, disk
<1>2. next[r] = 1 /\ WorkersOf(r) \in Nat /\ WorkersOf(r) >= 1 /\ ~Replacing(r)
  BY <1>1, PlanNames DEF Quiet, Forms, Progress, Counted
<1>3. QED
  BY <1>1, <1>2 DEF Quiet, Progress, Counted, Added, Written, Cleared, Cleaning, WorkersOf, Replacing

\* What a plan says stays.
LEMMA NumbersStay ==
  ASSUME NEW r, plan' = plan
  PROVE  /\ \A k : FileNo(k)' = FileNo(k) /\ SlugNo(r, k)' = SlugNo(r, k) /\ NameOf(r, k)' = NameOf(r, k)
                /\ PathNo(r, k)' = PathNo(r, k)
         /\ WorkersOf(r)' = WorkersOf(r) /\ Session(r)' = Session(r) /\ (Replacing(r)' <=> Replacing(r))
  BY DEF FileNo, SlugNo, PathNo, NameOf, WorkersOf, Session, Replacing


\* A file that is opened is none of those written before it.
LEMMA OpenAlone ==
  ASSUME NEW r \in Runs, Quiet(r), OpenFile(r)
  PROVE  Progress(r)'
<1>1. /\ pc[r] = "write" /\ pc'[r] = "fill" /\ UNCHANGED <<plan, next, tree, branch, session>>
      /\ files' = [files EXCEPT ![WritePath(r)] = "empty"]
  BY GoToLeaves DEF OpenFile, git, tmux, Quiet, Forms
<1>2. PICK j, n : j = next[r] /\ n = WorkersOf(r)
  OBVIOUS
<1>3. j \in 1..(3 * n) /\ n \in Nat /\ n >= 1 /\ WritePath(r) = PathNo(r, j)
  BY <1>1, <1>2, PlanNames, PathsWritten DEF Quiet, Forms, Progress, Counted
<1>4. \A k \in 1..(j - 1) : files'[PathNo(r, k)] \in Full
  <2> SUFFICES ASSUME NEW k \in 1..(j - 1)
               PROVE  files'[PathNo(r, k)] \in Full
    OBVIOUS
  <2>1. k \in 1..(3 * n) /\ k # j /\ k \in Written(r)
    BY <1>1, <1>2, <1>3 DEF Written
  <2>2. PathNo(r, k) \in Paths /\ PathNo(r, k) # PathNo(r, j)
    BY <1>2, <1>3, <2>1, PathsOf, PathsApart DEF Quiet, Forms
  <2>3. files[PathNo(r, k)] \in Full
    BY <2>1 DEF Quiet, Progress
  <2>4. QED
    BY <1>1, <1>3, <2>2, <2>3 DEF Quiet, Forms, TaskInv
<1>5. Added(r)' = {} /\ Cleared(r)' = Cleared(r) /\ Written(r)' = 1..(j - 1) /\ Counted(r)'
  BY <1>1, <1>2, <1>3, NumbersStay DEF Added, Cleared, Written, Counted
<1>6. \A k \in Written(r)' : files'[PathNo(r, k)'] \in Full
  BY <1>1, <1>4, <1>5, NumbersStay
<1>7. Replacing(r)' => session'[Session(r)'] = Nobody /\ \A k \in Cleared(r)' : Room(NameOf(r, k))'
  BY <1>1, <1>5, NumbersStay DEF Quiet, Progress, Cleaning, Room
<1>8. QED
  BY <1>1, <1>5, <1>6, <1>7 DEF Progress

\* A file that is filled is one more of those written.
LEMMA FillAlone ==
  ASSUME NEW r \in Runs, Quiet(r), FillFile(r)
  PROVE  Progress(r)'
<1>1. PICK j, n, c : /\ j = next[r] /\ n = WorkersOf(r)
                     /\ c = IF WriteNumber(r) = 1 THEN Writing(r).task ELSE "plain"
  OBVIOUS
<1>2. /\ pc[r] = "fill" /\ UNCHANGED <<plan, tree, branch, session>>
      /\ files' = [files EXCEPT ![WritePath(r)] = c]
  BY <1>1 DEF FillFile, git, tmux, Quiet
<1>3. j \in 1..(3 * n) /\ n \in Nat /\ n >= 1 /\ WritePath(r) = PathNo(r, j)
  BY <1>1, <1>2, PlanNames, PathsWritten DEF Quiet, Forms, Progress, Counted
<1>4. /\ j = 3 * n => pc'[r] = "add" /\ next'[r] = 1
      /\ j # 3 * n => pc'[r] = "write" /\ next'[r] = j + 1
  <2>1. IF next[r] = 3 * n THEN GoTo(r, "add") /\ AtWorker(r, 1)
        ELSE GoTo(r, "write") /\ AtWorker(r, next[r] + 1)
    BY <1>1 DEF FillFile, WorkersOf
  <2>2. QED
    BY <1>1, <2>1, GoToLeaves, AtWorkerLeaves DEF Quiet, Forms
<1>5. c \in Full
  <2>1. next[r] \in 1..(3 * WorkersOf(r)) /\ plan[r] \in Configs
    BY <1>1, <1>3 DEF Quiet, Forms
  <2>2. QED
    BY <1>1, <1>2, <2>1, FilledWith DEF Quiet, Forms, TaskInv, Writes, Full
<1>6. \A k \in 1..j : files'[PathNo(r, k)] \in Full
  <2> SUFFICES ASSUME NEW k \in 1..j
               PROVE  files'[PathNo(r, k)] \in Full
    OBVIOUS
  <2>1. PathNo(r, k) \in Paths
    BY <1>1, <1>3, PathsOf DEF Quiet, Forms
  <2>2. CASE k = j
    BY <1>2, <1>3, <1>5, <2>1, <2>2 DEF Quiet, Forms, TaskInv
  <2>3. CASE k # j
    <3>1. k \in Written(r)
      BY <1>1, <1>2, <1>3, <2>3 DEF Written
    <3>2. files[PathNo(r, k)] \in Full
      BY <3>1 DEF Quiet, Progress
    <3>3. QED
      BY <1>2, <1>5, <2>1, <3>2 DEF Quiet, Forms, TaskInv
  <2>4. QED
    BY <2>2, <2>3
<1>7. Written(r)' = 1..j /\ Added(r)' = {} /\ Cleared(r)' = 1..n /\ Counted(r)'
  <2>1. WorkersOf(r)' = n
    BY <1>1, <1>2, NumbersStay
  <2>2. CASE j = 3 * n
    BY <1>3, <1>4, <2>1, <2>2 DEF Written, Added, Cleared, Counted
  <2>3. CASE j # 3 * n
    BY <1>3, <1>4, <2>1, <2>3 DEF Written, Added, Cleared, Counted
  <2>4. QED
    BY <2>2, <2>3
<1>8. \A k \in Written(r)' : files'[PathNo(r, k)'] \in Full
  BY <1>2, <1>6, <1>7, NumbersStay
<1>9. Replacing(r)' => session'[Session(r)'] = Nobody /\ \A k \in Cleared(r)' : Room(NameOf(r, k))'
  <2>1. Cleared(r) = 1..n
    BY <1>1, <1>2 DEF Cleared
  <2>2. QED
    BY <1>2, <1>7, <2>1, NumbersStay DEF Quiet, Progress, Cleaning, Room
<1>10. pc'[r] \in {"write", "add"}
  BY <1>4
<1>11. QED
  BY <1>7, <1>8, <1>9, <1>10 DEF Progress

LEMMA AddAlone ==
  ASSUME NEW r \in Runs, Quiet(r), AddWorktree(r)
  PROVE  Progress(r)'
<1>1. /\ pc[r] = "add" /\ pc'[r] = "overlay" /\ UNCHANGED <<plan, next, session, files>>
      /\ Room(Here(r))
  BY GoToLeaves DEF AddWorktree, tmux, disk, Quiet, Forms
<1>2. PICK i, n, h : i = next[r] /\ n = WorkersOf(r) /\ h = NameOf(r, next[r])
  OBVIOUS
<1>3. i \in 1..n /\ n \in Nat
  BY <1>1, <1>2, PlanNames DEF Quiet, Forms, Progress, Counted
<1>4. h = Here(r) /\ h \in Names
  BY <1>2, <1>3, PlanNames DEF Here, Worker, NameOf, Quiet, Forms
<1>5. /\ tree'[h] = [listed |-> TRUE, present |-> TRUE, by |-> r] /\ branch'[h] = r
      /\ \A m \in Names \ {h} : tree'[m] = tree[m] /\ branch'[m] = branch[m]
  BY <1>4 DEF AddWorktree, Quiet, Forms, Shape
<1>6. \A k \in 1..n : k # i => NameOf(r, k) \in Names \ {h}
  BY <1>2, <1>3, NamesApart, PlanNames DEF Quiet, Forms
<1>7. \A k \in 1..i : Owned(r, k)'
  <2>1. SUFFICES ASSUME NEW k \in 1..i
                 PROVE  /\ tree'[NameOf(r, k)] = [listed |-> TRUE, present |-> TRUE, by |-> r]
                        /\ branch'[NameOf(r, k)] = r
    BY <1>1, NumbersStay DEF Owned
  <2>2. CASE k = i
    BY <1>2, <1>5, <2>2
  <2>3. CASE k # i
    <3>1. k \in 1..n /\ k \in Added(r)
      BY <1>1, <1>2, <1>3, <2>3 DEF Added
    <3>2. Owned(r, k)
      BY <3>1 DEF Quiet, Progress
    <3>3. QED
      BY <1>5, <1>6, <2>3, <3>1, <3>2 DEF Owned
  <2>4. QED
    BY <2>2, <2>3
<1>8. Replacing(r) => \A k \in (i + 1)..n : Room(NameOf(r, k))'
  <2>1. SUFFICES ASSUME Replacing(r), NEW k \in (i + 1)..n
                 PROVE  branch'[NameOf(r, k)] = Nobody /\ ~tree'[NameOf(r, k)].listed /\ ~tree'[NameOf(r, k)].present
    BY <1>1, NumbersStay DEF Room
  <2>2. k \in 1..n /\ k # i /\ k \in Cleared(r)
    BY <1>1, <1>2, <1>3 DEF Cleared
  <2>3. Room(NameOf(r, k))
    BY <2>1, <2>2 DEF Quiet, Progress
  <2>4. QED
    BY <1>5, <1>6, <2>2, <2>3 DEF Room
<1>9. Added(r)' = 1..i /\ Cleared(r)' = (i + 1)..n /\ Written(r)' = Written(r) /\ Counted(r)'
  BY <1>1, <1>2, <1>3, NumbersStay DEF Added, Cleared, Written, Counted, Quiet, Progress
<1>10. \A k \in Written(r)' : files'[PathNo(r, k)'] \in Full
  BY <1>1, <1>9, NumbersStay DEF Quiet, Progress
<1>11. Replacing(r)' => session'[Session(r)'] = Nobody
  BY <1>1, NumbersStay DEF Quiet, Progress, Cleaning
<1>12. QED
  BY <1>1, <1>7, <1>8, <1>9, <1>10, <1>11, NumbersStay DEF Progress

LEMMA OverlayAlone ==
  ASSUME NEW r \in Runs, Quiet(r), Overlay(r)
  PROVE  Progress(r)'
<1>1. /\ pc[r] = "overlay" /\ UNCHANGED <<plan, tree, branch, session, files>>
      /\ Advance(r, "add", "session")
  BY DEF Overlay, git, tmux, disk
<1>2. PICK i, n : i = next[r] /\ n = WorkersOf(r)
  OBVIOUS
<1>3. i \in 1..n /\ n \in Nat
  BY <1>1, <1>2, PlanNames DEF Quiet, Forms, Progress, Counted
<1>4. /\ i = n => pc'[r] = "session" /\ next'[r] = 1
      /\ i # n => pc'[r] = "add" /\ next'[r] = i + 1
  BY <1>1, <1>2, AdvanceGoes DEF Quiet, Forms
<1>5. Added(r)' = Added(r) /\ Cleared(r)' \subseteq Cleared(r) /\ Written(r)' = Written(r)
  BY <1>1, <1>2, <1>3, <1>4, NumbersStay DEF Added, Cleared, Written
<1>6. Counted(r)'
  <2>1. WorkersOf(r)' = n /\ n >= 1
    BY <1>1, <1>2, NumbersStay DEF Counted, Quiet, Progress
  <2>2. QED
    BY <1>3, <1>4, <2>1 DEF Counted
<1>7. \A k \in Added(r)' : Owned(r, k)'
  BY <1>1, <1>5, NumbersStay DEF Owned, Quiet, Progress
<1>8. \A k \in Written(r)' : files'[PathNo(r, k)'] \in Full
  BY <1>1, <1>5, NumbersStay DEF Quiet, Progress
<1>9. Replacing(r)' => session'[Session(r)'] = Nobody /\ \A k \in Cleared(r)' : Room(NameOf(r, k))'
  BY <1>1, <1>5, NumbersStay DEF Quiet, Progress, Cleaning, Room
<1>10. pc'[r] \in {"add", "session"}
  BY <1>4
<1>11. QED
  BY <1>6, <1>7, <1>8, <1>9, <1>10 DEF Progress

LEMMA WindowsAlone ==
  ASSUME NEW r \in Runs, Quiet(r), NewSession(r) \/ SplitWindow(r) \/ Launch(r), robbed \subseteq robbed'
  PROVE  Progress(r)'
<1>1. /\ pc[r] \in {"session", "split", "launch"} /\ UNCHANGED <<plan, tree, branch, files>>
  BY DEF NewSession, SplitWindow, Launch, git, tmux, disk
<1>2. PICK i, n, S : i = next[r] /\ n = WorkersOf(r) /\ S = Session(r)
  OBVIOUS
<1>3. i \in 1..n /\ n \in Nat /\ S \in Sessions
  BY <1>1, <1>2, PlanNames DEF Quiet, Forms, Progress, Counted
<1>4. ASSUME pc'[r] \in {"split", "launch", "started"}, next'[r] \in 1..n,
             pc'[r] \in {"split", "launch"} =>
               /\ r \in robbed' \/ session'[S] = r
               /\ pc'[r] = "launch" => r \in robbed' \/ split'[r] = S
               /\ \A k \in 1..(next'[r] - 1) : r \in robbed' \/ plan[r].workers[k].slug \in panes'[S]
      PROVE  Progress(r)'
  <2>1. Added(r)' \subseteq Added(r) /\ Cleared(r)' = {} /\ Written(r)' \subseteq Written(r)
    BY <1>1, <1>4, NumbersStay DEF Added, Cleared, Written
  <2>2. \A k \in Added(r)' : Owned(r, k)'
    BY <1>1, <2>1, NumbersStay DEF Owned, Quiet, Progress
  <2>3. \A k \in Written(r)' : files'[PathNo(r, k)'] \in Full
    BY <1>1, <2>1, NumbersStay DEF Quiet, Progress
  <2>4. Counted(r)'
    BY <1>1, <1>2, <1>4, NumbersStay DEF Counted, Quiet, Progress
  <2>5. QED
    BY <1>1, <1>2, <1>4, <2>1, <2>2, <2>3, <2>4, NumbersStay DEF Progress, Cleaning
<1>5. CASE NewSession(r)
  <2>1. pc'[r] = "split" /\ next' = next /\ session'[S] = r /\ pc[r] = "session"
    BY <1>2, <1>3, <1>5, GoToLeaves DEF NewSession, Quiet, Forms, Shape
  <2>2. i = 1
    BY <1>2, <2>1 DEF Quiet, Progress, Counted
  <2>3. QED
    BY <1>2, <1>3, <1>4, <2>1, <2>2
<1>6. CASE SplitWindow(r)
  <2>1. pc'[r] = "launch" /\ UNCHANGED <<next, session, panes>> /\ pc[r] = "split"
    BY <1>6, GoToLeaves DEF SplitWindow, Quiet, Forms
  <2>2. r \in robbed \/ session[S] = r
    BY <1>2, <2>1 DEF Quiet, Progress
  <2>3. session[S] = r => split'[r] = S
    <3>1. PICK s \in Met(S) : split' = [split EXCEPT ![r] = s]
      BY <1>2, <1>6 DEF SplitWindow
    <3>2. QED
      BY <3>1, MetIs, OrchestrationAssumption DEF Quiet, Forms
  <2>4. QED
    BY <1>2, <1>3, <1>4, <2>1, <2>2, <2>3 DEF Quiet, Progress
<1>7. CASE Launch(r)
  <2>1. /\ pc[r] = "launch" /\ session' = session /\ Advance(r, "split", "started")
        /\ panes' = [panes EXCEPT ![split[r]] = @ \cup {Worker(r).slug}]
        /\ r \in robbed \/ split[r] = S
    BY <1>2, <1>7 DEF Launch, Quiet, Progress
  <2>2. /\ i = n => pc'[r] = "started" /\ next'[r] = 1
        /\ i # n => pc'[r] = "split" /\ next'[r] = i + 1
    BY <1>2, <2>1, AdvanceGoes DEF Quiet, Forms
  <2>3. r \in robbed \/ (panes[S] \subseteq panes'[S] /\ plan[r].workers[i].slug \in panes'[S])
    BY <1>2, <1>3, <2>1 DEF Quiet, Forms, Worker
  <2>4. \A k \in 1..i : r \in robbed' \/ plan[r].workers[k].slug \in panes'[S]
    <3>1. \A k \in 1..(i - 1) : r \in robbed \/ plan[r].workers[k].slug \in panes[S]
      BY <1>2, <2>1 DEF Quiet, Progress
    <3>2. SUFFICES ASSUME NEW k \in 1..i
                   PROVE  r \in robbed' \/ plan[r].workers[k].slug \in panes'[S]
      OBVIOUS
    <3>3. CASE k = i
      BY <2>3, <3>3
    <3>4. CASE k # i
      <4>1. k \in 1..(i - 1)
        BY <1>3, <3>4
      <4>2. QED
        BY <2>3, <3>1, <4>1
    <3>5. QED
      BY <3>3, <3>4
  <2>5. r \in robbed' \/ session'[S] = r
    BY <1>2, <2>1 DEF Quiet, Progress
  <2>6. CASE i = n
    BY <1>3, <1>4, <2>2, <2>6
  <2>7. CASE i # n
    <3>1. next'[r] \in 1..n /\ pc'[r] = "split" /\ next'[r] - 1 = i
      BY <1>3, <2>2, <2>7
    <3>2. QED
      BY <1>4, <2>4, <2>5, <3>1
  <2>8. QED
    BY <2>6, <2>7
<1>8. QED
  BY <1>5, <1>6, <1>7

Rolling == {"undoSession", "undoTree", "undoPrune", "undoBranch", "undoFiles"}

\* Once a rollback has begun, nothing more is promised of what was made.
LEMMA LeavingAlone ==
  ASSUME NEW r \in Runs, Progress(r), plan' = plan,
         pc'[r] \in Rolling
  PROVE  Progress(r)'
<1>1. WorkersOf(r)' >= 1
  BY NumbersStay DEF Progress, Counted
<1>2. Added(r)' = {} /\ Cleared(r)' = {} /\ Written(r)' = {}
  BY DEF Added, Cleared, Written, Rolling
<1>3. QED
  BY <1>1, <1>2 DEF Progress, Counted, Cleaning, Rolling

\* Where a run goes with any of its other steps.
LEMMA OtherSteps ==
  ASSUME NEW r \in Runs, Forms, Active(r), AddFails(r) \/ CommandFails(r) \/ Undo(r)
  PROVE  plan' = plan /\ pc'[r] \in Rolling \cup Ended
<1>1. CASE AddFails(r)
  BY <1>1, GoToLeaves DEF AddFails, StartRollback, Forms, Rolling
<1>2. CASE CommandFails(r)
  <2>1. plan' = plan /\ (GoTo(r, "stuck") \/ GoTo(r, "undoSession"))
    BY <1>2 DEF CommandFails, StartRollback
  <2>2. pc'[r] \in {"stuck", "undoSession"}
    BY <2>1, GoToLeaves DEF Forms
  <2>3. QED
    BY <2>1, <2>2 DEF Rolling, Ended
<1>3. CASE UndoSession(r) \/ UndoWorktree(r) \/ UndoPrune(r) \/ UndoBranch(r) \/ UndoFails(r)
  <2>1. plan' = plan /\ AfterUndo(r) /\ pc[r] \in UndoingWorker \cup {"undoSession"}
    BY <1>3 DEF UndoSession, UndoWorktree, UndoPrune, UndoBranch, UndoFails, Tries, UndoingWorker
  <2>2. pc'[r] \in UndoingWorker \cup {"undoFiles"}
    BY <2>1, AfterUndoLeaves DEF Forms, UndoingWorker
  <2>3. QED
    BY <2>1, <2>2 DEF Rolling, UndoingWorker
<1>4. CASE UndoAborts(r) \/ UndoFiles(r)
  <2>1. plan' = plan /\ (GoTo(r, "stuck") \/ GoTo(r, "failed") \/ (pc' = pc /\ pc[r] = "undoFiles"))
    BY <1>4 DEF UndoAborts, UndoFiles
  <2>2. pc'[r] \in {"stuck", "failed", "undoFiles"}
    BY <2>1, GoToLeaves DEF Forms
  <2>3. QED
    BY <2>1, <2>2 DEF Rolling, Ended
<1>5. QED
  BY <1>1, <1>2, <1>3, <1>4 DEF Undo

\* The steps of a run, one after the other.
LEMMA OwnAlone ==
  ASSUME NEW r \in Runs, Quiet(r), Active(r), Cleanup(r) \/ Execute(r) \/ Undo(r), Active(r)', robbed \subseteq robbed'
  PROVE  Distinct(r)' /\ Progress(r)'
<1>1. plan' = plan
  BY DEF Cleanup, Prune, KillExisting, CleanWorktree, CleanPrune, CleanBranch, Execute, RefusePlan, Begin, CheckSession,
         OpenFile, FillFile, AddWorktree, AddFails, Overlay, NewSession, SplitWindow, Launch, CommandFails,
         Undo, UndoSession, UndoWorktree, UndoPrune, UndoBranch, UndoFails, UndoAborts, UndoFiles
<1>2. Distinct(r)'
  BY <1>1 DEF Distinct, WorkersOf, Quiet
<1> SUFFICES Progress(r)'
  BY <1>2
<1>3. CASE Cleanup(r)
  BY <1>3, CleanAlone
<1>4. CASE RefusePlan(r) \/ Begin(r)
  BY <1>4 DEF RefusePlan, Begin, Active
<1>5. CASE CheckSession(r)
  <2>1. pc'[r] \in {"write", "refused"}
    BY <1>5, GoToLeaves DEF CheckSession, Quiet, Forms
  <2>2. pc'[r] = "write"
    BY <2>1 DEF Active, Ended
  <2>3. QED
    BY <1>5, <2>2, CheckAlone
<1>6. CASE OpenFile(r) \/ FillFile(r)
  BY <1>6, OpenAlone, FillAlone
<1>7. CASE AddWorktree(r)
  BY <1>7, AddAlone
<1>8. CASE Overlay(r)
  BY <1>8, OverlayAlone
<1>9. CASE NewSession(r) \/ SplitWindow(r) \/ Launch(r)
  BY <1>9, WindowsAlone
<1>10. CASE AddFails(r) \/ CommandFails(r) \/ Undo(r)
  <2>1. pc'[r] \in Rolling
    BY <1>10, OtherSteps DEF Quiet, Active
  <2>2. QED
    BY <1>1, <2>1, LeavingAlone DEF Quiet
<1>11. CASE Execute(r)
  BY <1>4, <1>5, <1>6, <1>7, <1>8, <1>9, <1>10, <1>11 DEF Execute
<1>12. QED
  BY <1>3, <1>10, <1>11

-----------------------------------------------------------------------------
(* The steps of everybody else.                                            *)

\* A run that takes no step keeps all it has while the others are at rest.
LEMMA RestAlone ==
  ASSUME NEW r \in Runs, Quiet(r), robbed \subseteq robbed',
         UNCHANGED <<plan, tree, branch, session, panes, files>>, split'[r] = split[r], pc'[r] = pc[r], next'[r] = next[r]
  PROVE  Distinct(r)' /\ Progress(r)'
<1>1. Distinct(r)'
  BY DEF Quiet, Distinct, WorkersOf
<1>2. Added(r)' = Added(r) /\ Cleared(r)' = Cleared(r) /\ Written(r)' = Written(r) /\ Counted(r)'
      /\ Here(r)' = Here(r)
  BY NumbersStay DEF Added, Cleared, Written, Counted, Quiet, Progress, Here, Worker
<1>3. \A i \in Added(r)' : Owned(r, i)'
  BY <1>2, NumbersStay DEF Owned, Quiet, Progress
<1>4. \A k \in Written(r)' : files'[PathNo(r, k)'] \in Full
  BY <1>2, NumbersStay DEF Quiet, Progress
<1>5. Replacing(r)' => /\ \A k \in Cleared(r)' : Room(NameOf(r, k))'
                       /\ pc'[r] \in Cleaning => session'[Session(r)'] = Nobody
                       /\ pc'[r] \in {"cleanPrune", "cleanBranch"} => tree'[Here(r)'] = NoTree
  BY <1>2, NumbersStay DEF Quiet, Progress, Room
<1>6. /\ pc'[r] = "check" => ~Replacing(r)'
      /\ pc'[r] \in {"split", "launch"} => r \in robbed' \/ session'[Session(r)'] = r
      /\ pc'[r] = "launch" => r \in robbed' \/ split'[r] = Session(r)'
      /\ pc'[r] \in {"split", "launch"} =>
           \A i \in 1..(next'[r] - 1) : r \in robbed' \/ plan'[r].workers[i].slug \in panes'[Session(r)']
  BY NumbersStay DEF Quiet, Progress
<1>7. QED
  BY <1>1, <1>2, <1>3, <1>4, <1>5, <1>6 DEF Progress

\* A session that ends leaves room for another, and robs the run that owns it.
LEMMA EndedAlone ==
  ASSUME NEW r \in Runs, Quiet(r), NEW s \in Sessions, SessionEnds(s), LosesFrom(Runs)
  PROVE  Distinct(r)' /\ Progress(r)'
<1>1. /\ UNCHANGED <<plan, pc, next, tree, branch, files>>
      /\ session' = [session EXCEPT ![s] = Nobody] /\ panes' = [panes EXCEPT ![s] = {}]
      /\ split' = [q \in Runs |-> IF split[q] = s THEN NoSession ELSE split[q]]
      /\ robbed \subseteq robbed'
  BY DEF SessionEnds, EndSession, git, disk, LosesFrom
<1>2. PICK S \in Sessions : S = Session(r)
  BY PlanNames DEF Quiet, Forms
<1>3. Distinct(r)'
  BY <1>1 DEF Quiet, Distinct, WorkersOf
<1>4. Added(r)' = Added(r) /\ Cleared(r)' = Cleared(r) /\ Written(r)' = Written(r) /\ Counted(r)'
      /\ Here(r)' = Here(r)
  BY <1>1, NumbersStay DEF Added, Cleared, Written, Counted, Quiet, Progress, Here, Worker
<1>5. \A i \in Added(r)' : Owned(r, i)'
  BY <1>1, <1>4, NumbersStay DEF Owned, Quiet, Progress
<1>6. \A k \in Written(r)' : files'[PathNo(r, k)'] \in Full
  BY <1>1, <1>4, NumbersStay DEF Quiet, Progress
<1>7. session'[S] \in {session[S], Nobody}
  BY <1>1 DEF Quiet, Forms, Shape
<1>8. Replacing(r)' => /\ \A k \in Cleared(r)' : Room(NameOf(r, k))'
                       /\ pc'[r] \in Cleaning => session'[Session(r)'] = Nobody
                       /\ pc'[r] \in {"cleanPrune", "cleanBranch"} => tree'[Here(r)'] = NoTree
  BY <1>1, <1>2, <1>4, <1>7, NumbersStay DEF Quiet, Progress, Room
<1>9. pc[r] \in {"split", "launch"} =>
        r \in robbed' \/ (session'[S] = session[S] /\ panes'[S] = panes[S] /\ (split[r] = S => split'[r] = S))
  <2>1. CASE S # s
    BY <1>1, <2>1 DEF Quiet, Forms, Shape
  <2>2. CASE S = s /\ session[S] = r
    <3>1. session'[S] # r
      BY <1>1, <2>2, OrchestrationAssumption DEF Quiet, Forms, Shape
    <3>2. Lost(r)
      BY <2>2, <3>1 DEF Lost
    <3>3. QED
      BY <3>2 DEF LosesFrom
  <2>3. CASE S = s /\ session[S] # r
    BY <1>1, <1>2, <2>3 DEF Quiet, Progress
  <2>4. QED
    BY <2>1, <2>2, <2>3
<1>10. /\ pc'[r] = "check" => ~Replacing(r)'
       /\ pc'[r] \in {"split", "launch"} => r \in robbed' \/ session'[Session(r)'] = r
       /\ pc'[r] = "launch" => r \in robbed' \/ split'[r] = Session(r)'
       /\ pc'[r] \in {"split", "launch"} =>
            \A i \in 1..(next'[r] - 1) : r \in robbed' \/ plan'[r].workers[i].slug \in panes'[Session(r)']
  BY <1>1, <1>2, <1>9, NumbersStay DEF Quiet, Progress
<1>11. QED
  BY <1>3, <1>4, <1>5, <1>6, <1>8, <1>10 DEF Progress

\* The shapes are kept.
LEMMA FormsKept ==
  ASSUME Forms, Shape', [Next]_vars
  PROVE  Forms'
<1>1. TaskInv'
  BY NextKeepsTasks DEF Forms
<1>2. \/ UNCHANGED <<panes, split>>
      \/ \E s : panes' = [panes EXCEPT ![s] = {}] /\ split' = [q \in Runs |-> IF split[q] = s THEN NoSession ELSE split[q]]
      \/ \E s, x : panes' = [panes EXCEPT ![s] = x] /\ split' = split
      \/ \E r, s : split' = [split EXCEPT ![r] = s] /\ panes' = panes
  <2>1. CASE \E r \in Runs : RunStep(r)
    <3>1. PICK r \in Runs : Cleanup(r) \/ Execute(r) \/ Undo(r)
      BY <2>1 DEF RunStep
    <3>2. CASE KillExisting(r) \/ UndoSession(r)
      BY <3>2 DEF KillExisting, UndoSession, EndSession, tmux
    <3>3. CASE SplitWindow(r) \/ Launch(r)
      BY <3>3 DEF SplitWindow, Launch
    <3>4. CASE ~KillExisting(r) /\ ~UndoSession(r) /\ ~SplitWindow(r) /\ ~Launch(r)
      BY <3>1, <3>4 DEF Cleanup, Prune, CleanWorktree, CleanPrune, CleanBranch,
         Execute, RefusePlan, Begin, CheckSession, OpenFile, FillFile, AddWorktree, AddFails, Overlay,
         NewSession, CommandFails, Undo, UndoWorktree, UndoPrune, UndoBranch,
         UndoFails, UndoAborts, UndoFiles, tmux
    <3>5. QED
      BY <3>2, <3>3, <3>4
  <2>2. CASE \E s \in Sessions : SessionEnds(s)
    BY <2>2 DEF SessionEnds, EndSession
  <2>3. CASE UNCHANGED <<panes, split>>
    BY <2>3
  <2>4. QED
    BY <2>1, <2>2, <2>3 DEF Next, KillRun, ListWorkers, ReadTask, RefuseTask, tmux, vars
<1>3. panes' = [s \in Sessions |-> panes'[s]] /\ split' = [r \in Runs |-> split'[r]]
  BY <1>2 DEF Forms
<1>4. QED
  BY <1>1, <1>3 DEF Forms, Shape

LEMMA AloneStep ==
  ASSUME AloneInv, Shape', [Next]_vars
  PROVE  AloneInv'
<1>1. Forms'
  BY FormsKept DEF AloneInv
<1>2. ASSUME NEW p \in Runs, RunStep(p), NEW r \in Runs \ crowded', Active(r)'
      PROVE  Distinct(r)' /\ Progress(r)' /\ r \notin unlinked' /\ \A q \in Runs \ {r} : ~Active(q)'
  <2>1. /\ Cleanup(p) \/ Execute(p) \/ Undo(p)
        /\ robbed \subseteq robbed' /\ Forms
    BY <1>2 DEF RunStep, LosesFrom, AloneInv
  <2>2. /\ \A q \in Runs \ {p} : pc'[q] = pc[q] /\ next'[q] = next[q]
        /\ plan' = plan
    BY <2>1, StepLeaves DEF Leaves, Forms
  <2>3. CASE Begin(p)
    <3>1. PICK others : /\ others = {q \in Runs \ {p} : Active(q)}
                        /\ crowded' = IF others = {} THEN crowded ELSE crowded \cup others \cup {p}
      BY <2>3 DEF Begin
    <3>2. r = p
      <4>1. SUFFICES ASSUME r # p
                     PROVE  FALSE
        OBVIOUS
      <4>2. pc'[r] = pc[r] /\ Active(r)
        BY <1>2, <2>2, <4>1 DEF Active
      <4>3. r \in others
        BY <3>1, <4>1, <4>2
      <4>4. QED
        BY <1>2, <3>1, <4>3
    <3>3. \A q \in Runs \ {r} : ~Active(q)
      BY <1>2, <3>1, <3>2
    <3>4. \A q \in Runs \ {r} : ~Active(q)'
      BY <2>2, <3>2, <3>3 DEF Active
    <3>5. r \notin unlinked'
      BY <2>1, <2>3, <3>2 DEF Begin, disk, Forms, TaskInv, Writes
    <3>6. QED
      BY <2>1, <2>3, <3>2, <3>4, <3>5, BeginAlone
  <2>4. CASE RefusePlan(p)
    <3>1. pc'[p] = "refused" /\ UNCHANGED <<tree, branch, session, panes, split, files, unlinked, crowded, next>>
      BY <2>1, <2>4, GoToLeaves DEF RefusePlan, git, tmux, disk, Forms
    <3>2. r # p /\ pc'[r] = pc[r] /\ next'[r] = next[r] /\ Active(r) /\ r \in Runs \ crowded
      BY <1>2, <2>2, <3>1 DEF Active, Ended
    <3>3. Quiet(r)
      BY <3>2 DEF AloneInv, Quiet
    <3>8. r \notin unlinked'
      BY <3>1, <3>3 DEF Quiet
    <3>4. Distinct(r)' /\ Progress(r)'
      BY <2>1, <2>2, <3>1, <3>2, <3>3, RestAlone
    <3>5. \A q \in Runs \ {r} : ~Active(q)
      BY <3>2 DEF AloneInv
    <3>6. \A q \in Runs \ {r} : ~Active(q)'
      BY <2>2, <3>1, <3>5 DEF Active, Ended
    <3>7. QED
      BY <3>4, <3>6, <3>8
  <2>5. CASE ~Begin(p) /\ ~RefusePlan(p)
    <3>1. Active(p) /\ crowded' = crowded
      BY <2>1, <2>5 DEF Cleanup, Prune, KillExisting, CleanWorktree, CleanPrune, CleanBranch, Execute, CheckSession,
         OpenFile, FillFile, AddWorktree, AddFails, Overlay, NewSession, SplitWindow, Launch, CommandFails,
         Undo, UndoSession, UndoWorktree, UndoPrune, UndoBranch, UndoFails, UndoAborts, UndoFiles, Tries, Active, Ended
    <3>2. r = p
      <4>1. r # p => Active(r) /\ r \in Runs \ crowded
        BY <1>2, <2>2, <3>1 DEF Active
      <4>2. QED
        BY <3>1, <4>1 DEF AloneInv
    <3>3. Quiet(r) /\ \A q \in Runs \ {r} : ~Active(q)
      BY <1>2, <3>1, <3>2 DEF AloneInv, Quiet
    <3>4. Distinct(r)' /\ Progress(r)'
      BY <1>2, <2>1, <3>1, <3>2, <3>3, OwnAlone
    <3>5. r \notin unlinked'
      <4>1. unlinked' \subseteq unlinked \/ (pc[p] = "undoFiles" /\ \E f \in Paths : EraseFile(f))
        BY <2>1 DEF Cleanup, Prune, KillExisting, CleanWorktree, CleanPrune, CleanBranch,
           Execute, RefusePlan, Begin, CheckSession, OpenFile, FillFile, AddWorktree, AddFails, Overlay,
           NewSession, SplitWindow, Launch, CommandFails, Halt, Undo, UndoSession, UndoWorktree, UndoPrune,
           UndoBranch, UndoFails, UndoAborts, UndoFiles, disk
      <4>2. QED
        BY <3>2, <3>3, <4>1 DEF EraseFile, Quiet
    <3>6. QED
      BY <2>2, <3>2, <3>3, <3>4, <3>5 DEF Active
  <2>6. QED
    BY <2>3, <2>4, <2>5
<1>3. ASSUME NEW p \in Runs, KillRun(p), NEW r \in Runs \ crowded', Active(r)'
      PROVE  Distinct(r)' /\ Progress(r)' /\ r \notin unlinked' /\ \A q \in Runs \ {r} : ~Active(q)'
  <2>1. /\ UNCHANGED <<plan, next, tree, branch, session, panes, split, files, crowded, robbed>>
        /\ unlinked' \subseteq unlinked
        /\ pc'[p] = "killed" /\ \A q \in Runs \ {p} : pc'[q] = pc[q]
    BY <1>3, GoToLeaves DEF KillRun, Halt, git, tmux, AloneInv, Forms
  <2>2. r # p /\ pc'[r] = pc[r] /\ Active(r) /\ r \in Runs \ crowded
    BY <1>3, <2>1 DEF Active, Ended
  <2>3. Quiet(r) /\ \A q \in Runs \ {r} : ~Active(q)
    BY <2>2 DEF AloneInv, Quiet
  <2>4. Distinct(r)' /\ Progress(r)'
    BY <2>1, <2>2, <2>3, RestAlone
  <2>5. \A q \in Runs \ {r} : ~Active(q)'
    BY <2>1, <2>3 DEF Active, Ended
  <2>6. QED
    BY <2>1, <2>3, <2>4, <2>5 DEF Quiet
<1>4. ASSUME NEW s \in Sessions, SessionEnds(s), LosesFrom(Runs), NEW r \in Runs \ crowded', Active(r)'
      PROVE  Distinct(r)' /\ Progress(r)' /\ r \notin unlinked' /\ \A q \in Runs \ {r} : ~Active(q)'
  <2>1. pc' = pc /\ crowded' = crowded /\ unlinked' = unlinked
    BY <1>4 DEF SessionEnds, disk
  <2>2. Quiet(r) /\ \A q \in Runs \ {r} : ~Active(q)
    BY <1>4, <2>1 DEF AloneInv, Quiet, Active
  <2>3. Distinct(r)' /\ Progress(r)'
    BY <1>4, <2>2, EndedAlone
  <2>4. QED
    BY <2>1, <2>2, <2>3 DEF Active, Quiet
<1>5. ASSUME UNCHANGED <<plan, pc, next, tree, branch, session, panes, split, files, unlinked, crowded, robbed>>,
             NEW r \in Runs \ crowded', Active(r)'
      PROVE  Distinct(r)' /\ Progress(r)' /\ r \notin unlinked' /\ \A q \in Runs \ {r} : ~Active(q)'
  <2>1. Quiet(r) /\ \A q \in Runs \ {r} : ~Active(q)
    BY <1>5 DEF AloneInv, Quiet, Active
  <2>2. Distinct(r)' /\ Progress(r)'
    BY <1>5, <2>1, RestAlone
  <2>3. QED
    BY <1>5, <2>1, <2>2 DEF Active, Quiet
<1>6. QED
  <2>1. CASE \E p \in Runs : RunStep(p)
    BY <1>1, <1>2, <2>1 DEF AloneInv
  <2>2. CASE \E p \in Runs : KillRun(p)
    BY <1>1, <1>3, <2>2 DEF AloneInv
  <2>3. CASE \E s \in Sessions : SessionEnds(s) /\ LosesFrom(Runs)
    BY <1>1, <1>4, <2>3 DEF AloneInv
  <2>4. CASE UNCHANGED <<plan, pc, next, tree, branch, session, panes, split, files, unlinked, crowded, robbed>>
    BY <1>1, <1>5, <2>4 DEF AloneInv
  <2>5. QED
    BY <2>1, <2>2, <2>3, <2>4 DEF Next, ListWorkers, ReadTask, RefuseTask, git, tmux, disk, vars

\* What a run that has started has for one of its workers.
Ready(r, w) ==
  /\ tree[Name(plan[r], w)] = [listed |-> TRUE, present |-> TRUE, by |-> r]
  /\ branch[Name(plan[r], w)] = r
  /\ \A f \in ToSet(Files) : files[<<Session(r), w, f>>] \in {"plain", "headed"}
  /\ w = Worker(r).slug \/ r \in robbed \/ w \in panes[Session(r)]

LEMMA RoomHere ==
  ASSUME NEW r \in Runs, plan[r] \in Configs, Progress(r), Replacing(r)
  PROVE  /\ pc[r] = "add" => Room(Here(r))
         /\ pc[r] = "session" => session[Session(r)] = Nobody
<1>1. ASSUME pc[r] = "add"
      PROVE  Room(Here(r))
  <2>1. WorkersOf(r) \in Int /\ next[r] \in 1..WorkersOf(r)
    BY <1>1, PlanNames DEF Progress, Counted
  <2>2. next[r] \in next[r]..WorkersOf(r)
    BY <2>1
  <2>3. Room(NameOf(r, next[r]))
    BY <1>1, <2>2 DEF Progress, Cleared
  <2>4. QED
    BY <2>3 DEF NameOf, Here, Worker
<1>2. ASSUME pc[r] = "session"
      PROVE  session[Session(r)] = Nobody
  BY <1>2 DEF Progress, Cleaning
<1>3. QED
  BY <1>1, <1>2

LEMMA LaunchReady ==
  ASSUME Forms, NEW r \in Runs, plan[r] \in Configs, Progress(r),
         pc[r] = "launch", AtLast(r), NEW w \in Slugs(plan[r])
  PROVE  Ready(r, w)
<1>1. /\ WorkersOf(r) \in Nat /\ next[r] = WorkersOf(r)
      /\ Session(r) \in Sessions /\ w \in Workers
  BY PlanNames DEF AtLast, WorkersOf, Slugs, Workers
<1>2. PICK i \in 1..WorkersOf(r) : w = plan[r].workers[i].slug
  BY PlanNames DEF Slugs
<1>3. Owned(r, i)
  BY DEF Progress, Added
<1>5. ASSUME NEW f \in ToSet(Files)
      PROVE  files[<<Session(r), w, f>>] \in Full
  <2>1. PICK m \in 1..3 : f = Files[m]
    BY FilesOf
  <2>2. PICK j : j = 3 * (i - 1) + m
    OBVIOUS
  <2>3. i \in Nat \ {0} /\ j \in 1..(3 * WorkersOf(r))
    BY <1>1, <2>2
  <2>4. PathNo(r, j) = <<Session(r), w, f>>
    BY <1>2, <2>1, <2>2, <2>3, FilesNumbered DEF PathNo, FileNo, SlugNo
  <2>5. files[PathNo(r, j)] \in Full
    BY <2>3 DEF Progress, Written
  <2>6. QED
    BY <2>4, <2>5
<1>6. w = Worker(r).slug \/ r \in robbed \/ w \in panes[Session(r)]
  <2>1. CASE i = next[r]
    BY <1>2, <2>1 DEF Worker
  <2>2. CASE i # next[r]
    <3>1. i \in 1..(next[r] - 1)
      BY <1>1, <2>2
    <3>2. QED
      BY <1>2, <3>1 DEF Progress
  <2>3. QED
    BY <2>1, <2>2
<1>7. QED
  BY <1>2, <1>3, <1>5, <1>6 DEF Ready, Owned, NameOf, Full

\* For any number of runs and workers, whatever earlier runs have left: a run that
\* was alone and replaces what it finds has room at each of its steps, and one
\* that is about to report success has everything its plan names
\* (cleanupExisting, materializePlan, executePlan).
THEOREM RunsAreComplete == Spec => []RunsComplete
<1>1. Init /\ TaskInv /\ Shape => AloneInv
  <2> SUFFICES ASSUME Init, TaskInv, Shape
               PROVE  AloneInv
    OBVIOUS
  <2>1. /\ \A r \in Runs : ~Active(r) /\ plan[r] \in Configs
        /\ panes = [s \in Sessions |-> panes[s]] /\ split = [r \in Runs |-> split[r]]
    BY DEF Init, Active
  <2>2. QED
    BY <2>1 DEF AloneInv, Forms
<1>2. Shape' /\ AloneInv /\ [Next]_vars => AloneInv'
  BY AloneStep
<1>3. AloneInv => RunsComplete
  <2> SUFFICES ASSUME AloneInv, NEW r \in Runs \ crowded, Active(r)
               PROVE  /\ Replacing(r) =>
                           /\ pc[r] = "add" => Room(Here(r))
                           /\ pc[r] = "session" => session[Session(r)] = Nobody
                      /\ pc[r] = "launch" /\ AtLast(r) =>
                           \A w \in Slugs(plan[r]) : Ready(r, w)
    BY DEF RunsComplete, CleanupMakesRoom, StartedComplete, Ready, Active, Ended
  <2>1. Forms /\ Distinct(r) /\ Progress(r) /\ plan[r] \in Configs
    BY DEF AloneInv, Forms
  <2>2. ASSUME Replacing(r)
        PROVE  /\ pc[r] = "add" => Room(Here(r))
               /\ pc[r] = "session" => session[Session(r)] = Nobody
    BY <2>1, <2>2, RoomHere
  <2>3. ASSUME pc[r] = "launch", AtLast(r), NEW w \in Slugs(plan[r])
        PROVE  Ready(r, w)
    BY <2>1, <2>3, LaunchReady
  <2>4. QED
    BY <2>2, <2>3
<1>4. QED
  BY <1>1, <1>2, <1>3, TasksHold, PTL DEF Spec
=============================================================================
