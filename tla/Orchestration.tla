---------------------------- MODULE Orchestration ----------------------------
(***************************************************************************)
(* Starting several workers in git worktrees of their own and tmux panes   *)
(* (.cursor/scripts/lib: tmux-worktree-orchestrator.js,                    *)
(* orchestration-session.js, session-adapters/canonical-session.js).       *)
(*                                                                         *)
(* A run works through a plan one git or tmux command at a time. Several   *)
(* runs may be active at once, any command may fail, and a run may be      *)
(* killed. A failure is answered by removing what the run has created.     *)
(* Meanwhile a reader looks at the workers' files.                         *)
(*                                                                         *)
(* A name is a sequence of words: slugs are words joined by dashes, and so *)
(* are the names of branches and worktrees, made of a session's slug and a *)
(* worker's. tmux takes a name for that of a session which begins with it. *)
(* A file is emptied before it is filled. Git and tmux are modelled by     *)
(* what the code relies on.                                                *)
(***************************************************************************)
EXTENDS Integers, Sequences, FiniteSets, SequencesExt

CONSTANTS Runs,        \* invocations of the orchestrator
          Words,       \* of which slugs are made
          Plans,       \* [Runs -> set of configurations]
          Seeds,       \* paths of the repository that exist
          Watched,     \* the session the reader looks at
          MaxFailures  \* bound: commands that fail, runs killed, sessions ended

Configs == UNION {Plans[r] : r \in Runs}
Slugs(c) == {c.workers[i].slug : i \in DOMAIN c.workers}
Name(c, slug) == c.session \o slug   \* of a branch, and of a worktree
Sessions == {c.session : c \in Configs}
Names == UNION {{Name(c, s) : s \in Slugs(c)} : c \in Configs}
Workers == UNION {Slugs(c) : c \in Configs}
Files == <<"task", "handoff", "status">>
Paths == Sessions \X Workers \X ToSet(Files)   \* of the files in the coordination directories
Nobody == "nobody"
Earlier == "earlier"
Owner == Runs \cup {Nobody, Earlier}
NoSession == <<>>

ASSUME OrchestrationAssumption ==
  /\ Nobody \notin Runs /\ Earlier \notin Runs
  /\ Watched \in Sessions /\ NoSession \notin Sessions

\* What a task begins with: nothing but blanks, plain text, or a heading.
Tasks == {"blank", "plain", "headed"}

\* slugify makes a name of words of whatever is configured
ASSUME PlansAssumption ==
  \A c \in Configs : /\ c.session \in Seq(Words)
                     /\ c.workers \in Seq([slug : Seq(Words), task : Tasks, launcher : BOOLEAN,
                                          seeds : Seq(STRING)])

VARIABLES plan,      \* [Runs -> Configs]
          pc,        \* [Runs -> where the run is]
          next,      \* [Runs -> number of the worker, or file, it is at]
          created,   \* [Runs -> Seq(worker)]: createdState.workerPlans
          opened,    \* [Runs -> BOOLEAN]: createdState.sessionCreated
          fresh,     \* [Runs -> BOOLEAN]: createdState.removeCoordinationDir
          errors,    \* [Runs -> BOOLEAN]: errors of the rollback
          failedAdd, \* [Runs -> names whose worktree could not be added]
          tree,      \* [Names -> [listed, present, by]]: git worktrees
          branch,    \* [Names -> Owner]
          session,   \* [Sessions -> Owner]: tmux sessions
          panes,     \* [Sessions -> workers with a labelled pane]
          split,     \* [Runs -> the session of the pane it has opened last, or NoSession]
          files,     \* [Paths -> what is there: none, empty, plain or headed]
          unlinked,  \* runs whose open file has been removed
          erased,    \* paths a rollback has removed, and nobody has written since
          halted,    \* paths a run has emptied and, being stopped, not filled
          unread,    \* the workers the reader has listed and not yet read
          failures,
          crowded,   \* runs that were not alone all the time
          robbed     \* runs that lost something of theirs to somebody else

git == <<tree, branch>>
tmux == <<session, panes, split>>
disk == <<files, unlinked, erased, halted>>
progress == <<created, opened, fresh, errors, failedAdd>>
vars == <<plan, pc, next, progress, git, tmux, disk, unread, failures, crowded, robbed>>

Ended == {"refused", "failed", "stuck", "started", "killed"}
Active(r) == pc[r] \notin Ended \cup {"idle"}
Replacing(r) == plan[r].replaceExisting
Session(r) == plan[r].session
Worker(r) == plan[r].workers[next[r]]
Here(r) == Name(plan[r], Worker(r).slug)
NoTree == [listed |-> FALSE, present |-> FALSE, by |-> Nobody]
Has(s, w) == \E f \in ToSet(Files) : files[<<s, w, f>>] # "none"
HasDirectory(s) == \E w \in Workers : Has(s, w)

\* tmux -t: the session of this name, or the only one whose name begins with it
Met(s) ==
  IF session[s] # Nobody THEN {s}
  ELSE LET longer == {t \in Sessions : session[t] # Nobody /\ IsPrefix(s, t)}
       IN  IF \E t \in longer : longer = {t} THEN longer ELSE {}

-----------------------------------------------------------------------------
(* The plan.                                                               *)

SeedsOf(c, i) == c.seeds \o c.workers[i].seeds

\* normalizeSeedPaths: a path that leads out of the repository
Outside(c, i) == "outside" \in ToSet(SeedsOf(c, i))

\* the tests of buildOrchestrationPlan
Malformed(c) ==
  \/ c.workers = <<>>
  \/ \E i \in DOMAIN c.workers : c.workers[i].task = "blank" \/ ~c.workers[i].launcher
  \/ \E i, j \in DOMAIN c.workers : i # j /\ c.workers[i].slug = c.workers[j].slug
  \/ \E i \in DOMAIN c.workers : Outside(c, i)

GoTo(r, where) == pc' = [pc EXCEPT ![r] = where]
AtWorker(r, i) == next' = [next EXCEPT ![r] = i]
AtLast(r) == next[r] = Len(plan[r].workers)

\* on to the next worker, or past the last one
Advance(r, again, after) ==
  IF AtLast(r) THEN GoTo(r, after) /\ AtWorker(r, 1)
  ELSE GoTo(r, again) /\ AtWorker(r, next[r] + 1)

RefusePlan(r) ==
  /\ pc[r] = "idle" /\ Malformed(plan[r])
  /\ GoTo(r, "refused")
  /\ UNCHANGED <<plan, next, progress, git, tmux, disk, unread, failures, crowded>>

Begin(r) ==
  /\ pc[r] = "idle" /\ ~Malformed(plan[r])
  /\ fresh' = [fresh EXCEPT ![r] = ~HasDirectory(Session(r))]
  /\ GoTo(r, IF Replacing(r) THEN "prune" ELSE "check")
  /\ LET others == {q \in Runs \ {r} : Active(q)}
     IN  crowded' = IF others = {} THEN crowded ELSE crowded \cup others \cup {r}
  /\ UNCHANGED <<plan, next, created, opened, errors, failedAdd, git, tmux, disk, unread, failures>>

CheckSession(r) ==
  /\ pc[r] = "check"
  /\ GoTo(r, IF Met(Session(r)) = {} THEN "write" ELSE "refused")
  /\ UNCHANGED <<plan, next, progress, git, tmux, disk, unread, failures, crowded>>

-----------------------------------------------------------------------------
(* cleanupExisting.                                                        *)

\* git worktree prune: forget the worktrees whose directory is gone
Pruned(t) == [n \in Names |-> IF t[n].present THEN t[n] ELSE NoTree]

Prune(r) ==
  /\ pc[r] = "prune"
  /\ tree' = Pruned(tree)
  /\ GoTo(r, "kill")
  /\ UNCHANGED <<plan, next, progress, branch, tmux, disk, unread, failures, crowded>>

EndSession(s) ==
  /\ session' = [session EXCEPT ![s] = Nobody]
  /\ panes' = [panes EXCEPT ![s] = {}]
  /\ split' = [q \in Runs |-> IF split[q] = s THEN NoSession ELSE split[q]]

KillExisting(r) ==
  /\ pc[r] = "kill"
  /\ \/ \E s \in Met(Session(r)) : EndSession(s)
     \/ Met(Session(r)) = {} /\ UNCHANGED tmux
  /\ GoTo(r, "cleanTree")
  /\ UNCHANGED <<plan, next, progress, git, disk, unread, failures, crowded>>

\* git worktree remove --force, or the directory alone
WithoutTree(n) == [tree EXCEPT ![n] = NoTree]

\* Mutant: only worktrees that git lists are removed.
CleanListedWorktree(r) ==
  /\ pc[r] = "cleanTree"
  /\ tree' = IF tree[Here(r)].listed THEN WithoutTree(Here(r)) ELSE tree
  /\ GoTo(r, "cleanPrune")
  /\ UNCHANGED <<plan, next, progress, branch, tmux, disk, unread, failures, crowded>>

CleanWorktree(r) ==
  /\ pc[r] = "cleanTree"
  /\ tree' = WithoutTree(Here(r))
  /\ GoTo(r, "cleanPrune")
  /\ UNCHANGED <<plan, next, progress, branch, tmux, disk, unread, failures, crowded>>

CleanPrune(r) ==
  /\ pc[r] = "cleanPrune"
  /\ tree' = Pruned(tree)
  /\ GoTo(r, "cleanBranch")
  /\ UNCHANGED <<plan, next, progress, branch, tmux, disk, unread, failures, crowded>>

\* git branch -D refuses a branch that a worktree has checked out
CheckedOut(n) == branch[n] # Nobody /\ tree[n].listed

CleanBranch(r) ==
  /\ pc[r] = "cleanBranch" /\ ~CheckedOut(Here(r))
  /\ branch' = [branch EXCEPT ![Here(r)] = Nobody]
  /\ Advance(r, "cleanTree", "write")
  /\ UNCHANGED <<plan, progress, tree, tmux, disk, unread, failures, crowded>>

-----------------------------------------------------------------------------
(* executePlan.                                                            *)

\* Mutant: the status file comes first and the task file last.
WriteOrderReversed == <<"status", "handoff", "task">>

\* the order in which buildWorkerArtifacts lists a worker's files
WriteOrder == Files

\* materializePlan: one file after the other, next counts them
Writing(r) == plan[r].workers[((next[r] - 1) \div 3) + 1]
WriteNumber(r) == ((next[r] - 1) % 3) + 1
WritePath(r) == <<Session(r), Writing(r).slug, WriteOrder[WriteNumber(r)]>>

\* the directory is made before the first file
DirectoryGone(r) == WriteNumber(r) # 1 /\ ~Has(Session(r), Writing(r).slug)

\* writeFileSync empties the file ...
OpenFile(r) ==
  /\ pc[r] = "write" /\ ~DirectoryGone(r)
  /\ files' = [files EXCEPT ![WritePath(r)] = "empty"]
  /\ erased' = erased \ {WritePath(r)} /\ halted' = halted \ {WritePath(r)}
  /\ GoTo(r, "fill")
  /\ UNCHANGED <<plan, next, progress, git, tmux, unlinked, unread, failures, crowded>>

\* ... and fills it, be it still there or not
FillFile(r) ==
  /\ pc[r] = "fill"
  /\ IF r \in unlinked THEN UNCHANGED files
     ELSE files' = [files EXCEPT ![WritePath(r)] =
                      IF WriteNumber(r) = 1 THEN Writing(r).task ELSE "plain"]
  /\ unlinked' = unlinked \ {r}
  /\ IF next[r] = 3 * Len(plan[r].workers)
     THEN GoTo(r, "add") /\ AtWorker(r, 1)
     ELSE GoTo(r, "write") /\ AtWorker(r, next[r] + 1)
  /\ UNCHANGED <<plan, progress, git, tmux, erased, halted, unread, failures, crowded>>

\* a run that is stopped leaves the file it has open as it is
Halt(r) ==
  /\ halted' = IF pc[r] = "fill" /\ r \notin unlinked THEN halted \cup {WritePath(r)} ELSE halted
  /\ unlinked' = unlinked \ {r}
  /\ UNCHANGED <<files, erased>>

\* git worktree add -b: neither the branch nor the directory may exist
Room(n) == branch[n] = Nobody /\ ~tree[n].listed /\ ~tree[n].present

AddWorktree(r) ==
  /\ pc[r] = "add" /\ Room(Here(r))
  /\ tree' = [tree EXCEPT ![Here(r)] = [listed |-> TRUE, present |-> TRUE, by |-> r]]
  /\ branch' = [branch EXCEPT ![Here(r)] = r]
  /\ created' = [created EXCEPT ![r] = Append(@, Worker(r).slug)]
  /\ GoTo(r, "overlay")
  /\ UNCHANGED <<plan, next, opened, fresh, errors, failedAdd, tmux, disk, unread, failures, crowded>>

\* Mutant: the rollback begins with the last worker but one.
StartRollbackEarlier(r) ==
  GoTo(r, "undoSession") /\ AtWorker(r, IF created[r] = <<>> THEN 0 ELSE Len(created[r]) - 1)

StartRollback(r) == GoTo(r, "undoSession") /\ AtWorker(r, Len(created[r]))

\* Mutant: a worktree counts as created before it is added.
AddFailsCounted(r) ==
  /\ pc[r] = "add"
  /\ \/ ~Room(Here(r)) /\ UNCHANGED failures
     \/ failures < MaxFailures /\ failures' = failures + 1
  /\ branch' \in {branch} \cup (IF branch[Here(r)] = Nobody THEN {[branch EXCEPT ![Here(r)] = r]} ELSE {})
  /\ failedAdd' = [failedAdd EXCEPT ![r] = @ \cup {Here(r)}]
  /\ created' = [created EXCEPT ![r] = Append(@, Worker(r).slug)]
  /\ GoTo(r, "undoSession") /\ AtWorker(r, Len(created[r]) + 1)
  /\ UNCHANGED <<plan, opened, fresh, errors, tree, tmux, disk, unread, crowded>>

\* git makes the branch before the worktree, and leaves it when the worktree fails
AddFails(r) ==
  /\ pc[r] = "add"
  /\ \/ ~Room(Here(r)) /\ UNCHANGED failures
     \/ failures < MaxFailures /\ failures' = failures + 1
  /\ branch' \in {branch} \cup (IF branch[Here(r)] = Nobody THEN {[branch EXCEPT ![Here(r)] = r]} ELSE {})
  /\ failedAdd' = [failedAdd EXCEPT ![r] = @ \cup {Here(r)}]
  /\ StartRollback(r)
  /\ UNCHANGED <<plan, created, opened, fresh, errors, tree, tmux, disk, unread, crowded>>

\* overlaySeedPaths
Overlay(r) ==
  /\ pc[r] = "overlay"
  /\ ToSet(SeedsOf(plan[r], next[r])) \subseteq Seeds
  /\ Advance(r, "add", "session")
  /\ UNCHANGED <<plan, progress, git, tmux, disk, unread, failures, crowded>>

NewSession(r) ==
  /\ pc[r] = "session" /\ session[Session(r)] = Nobody
  /\ session' = [session EXCEPT ![Session(r)] = r]
  /\ opened' = [opened EXCEPT ![r] = TRUE]
  /\ GoTo(r, "split")
  /\ UNCHANGED <<plan, next, created, fresh, errors, failedAdd, git, panes, split, disk, unread, failures, crowded>>

\* split-window opens a pane in the session that answers to the name
SplitWindow(r) ==
  /\ pc[r] = "split"
  /\ \E s \in Met(Session(r)) : split' = [split EXCEPT ![r] = s]
  /\ GoTo(r, "launch")
  /\ UNCHANGED <<plan, next, progress, git, session, panes, disk, unread, failures, crowded>>

\* the pane, known by its id, gets the slug as its title, and the launch command
Launch(r) ==
  /\ pc[r] = "launch" /\ split[r] # NoSession
  /\ panes' = [panes EXCEPT ![split[r]] = @ \cup {Worker(r).slug}]
  /\ Advance(r, "split", "started")
  /\ UNCHANGED <<plan, progress, git, session, split, disk, unread, failures, crowded>>

\* the command of this step throws for what it finds ...
Blocked(r) ==
  \/ pc[r] = "write" /\ DirectoryGone(r)
  \/ pc[r] = "overlay" /\ ~ ToSet(SeedsOf(plan[r], next[r])) \subseteq Seeds
  \/ pc[r] = "session" /\ session[Session(r)] # Nobody
  \/ pc[r] = "split" /\ Met(Session(r)) = {}
  \/ pc[r] = "launch" /\ split[r] = NoSession
  \/ pc[r] = "cleanBranch" /\ CheckedOut(Here(r))

\* the steps before the try block, and those of the rollback
Unguarded == {"check", "prune", "kill", "cleanTree", "cleanPrune", "cleanBranch"}
Undoing == {"undoSession", "undoTree", "undoPrune", "undoBranch", "undoFiles"}

\* ... or for any other reason, within the try block or before it
CommandFails(r) ==
  /\ Active(r) /\ pc[r] # "add" /\ pc[r] \notin Undoing
  /\ \/ Blocked(r) /\ UNCHANGED failures
     \/ failures < MaxFailures /\ failures' = failures + 1
  /\ IF pc[r] \in Unguarded THEN GoTo(r, "stuck") /\ UNCHANGED next ELSE StartRollback(r)
  /\ Halt(r)
  /\ UNCHANGED <<plan, progress, git, tmux, unread, crowded>>

-----------------------------------------------------------------------------
(* rollbackCreatedResources: the session, the workers from the last to the *)
(* first, the coordination directory. Failing commands are passed over.    *)

UndoName(r) == Name(plan[r], created[r][next[r]])

AfterUndo(r) ==
  CASE pc[r] = "undoSession" ->
         GoTo(r, IF next[r] = 0 THEN "undoFiles" ELSE "undoTree") /\ UNCHANGED next
    [] pc[r] = "undoTree" -> GoTo(r, "undoPrune") /\ UNCHANGED next
    [] pc[r] = "undoPrune" -> GoTo(r, "undoBranch") /\ UNCHANGED next
    [] pc[r] = "undoBranch" ->
         GoTo(r, IF next[r] = 1 THEN "undoFiles" ELSE "undoTree") /\ AtWorker(r, next[r] - 1)

UndoSession(r) ==
  /\ pc[r] = "undoSession"
  /\ IF opened[r] THEN \E s \in Met(Session(r)) : EndSession(s) ELSE UNCHANGED tmux
  /\ AfterUndo(r)
  /\ UNCHANGED <<plan, progress, git, disk, unread, failures, crowded>>

UndoWorktree(r) ==
  /\ pc[r] = "undoTree"
  /\ tree' = WithoutTree(UndoName(r))
  /\ AfterUndo(r)
  /\ UNCHANGED <<plan, progress, branch, tmux, disk, unread, failures, crowded>>

UndoPrune(r) ==
  /\ pc[r] = "undoPrune"
  /\ tree' = Pruned(tree)
  /\ AfterUndo(r)
  /\ UNCHANGED <<plan, progress, branch, tmux, disk, unread, failures, crowded>>

UndoBranch(r) ==
  /\ pc[r] = "undoBranch" /\ ~CheckedOut(UndoName(r))
  /\ branch' = [branch EXCEPT ![UndoName(r)] = Nobody]
  /\ AfterUndo(r)
  /\ UNCHANGED <<plan, progress, tree, tmux, disk, unread, failures, crowded>>

\* what the rollback tries: kill-session, worktree remove, prune, branch -D
Tries(r) ==
  \/ pc[r] = "undoSession" /\ opened[r]
  \/ pc[r] = "undoTree" /\ tree[UndoName(r)].listed
  \/ pc[r] = "undoPrune"
  \/ pc[r] = "undoBranch" /\ branch[UndoName(r)] # Nobody

UndoBlocked(r) ==
  \/ pc[r] = "undoSession" /\ Met(Session(r)) = {}
  \/ pc[r] = "undoBranch" /\ CheckedOut(UndoName(r))

\* a command that fails is noted, and the rest goes on
UndoFails(r) ==
  /\ Tries(r)
  /\ \/ UndoBlocked(r) /\ UNCHANGED failures
     \/ failures < MaxFailures /\ failures' = failures + 1
  /\ errors' = [errors EXCEPT ![r] = TRUE]
  /\ AfterUndo(r)
  /\ UNCHANGED <<plan, created, opened, fresh, failedAdd, git, tmux, disk, unread, crowded>>

\* the list of worktrees and the removal of directories are not guarded: when one
\* fails, the rollback ends there
UndoAborts(r) ==
  /\ pc[r] = "undoTree" \/ (pc[r] = "undoFiles" /\ fresh[r])
  /\ failures < MaxFailures /\ failures' = failures + 1
  /\ GoTo(r, "stuck")
  /\ UNCHANGED <<plan, next, progress, git, tmux, disk, unread, crowded>>

\* rmSync removes one file after the other; a run that has one open does not notice
EraseFile(p) ==
  /\ files[p] # "none"
  /\ files' = [files EXCEPT ![p] = "none"]
  /\ erased' = erased \cup {p} /\ halted' = halted \ {p}
  /\ unlinked' = unlinked \cup {q \in Runs : pc[q] = "fill" /\ WritePath(q) = p}

UndoFiles(r) ==
  /\ pc[r] = "undoFiles"
  /\ IF fresh[r] /\ HasDirectory(Session(r))
     THEN UNCHANGED pc /\ \E p \in Paths : p[1] = Session(r) /\ EraseFile(p)
     ELSE GoTo(r, "failed") /\ UNCHANGED disk
  /\ UNCHANGED <<plan, next, progress, git, tmux, unread, failures, crowded>>

-----------------------------------------------------------------------------
(* Everything else that happens.                                           *)

KillRun(r) ==
  /\ Active(r)
  /\ failures < MaxFailures /\ failures' = failures + 1
  /\ GoTo(r, "killed")
  /\ Halt(r)
  /\ UNCHANGED <<plan, next, progress, git, tmux, unread, crowded, robbed>>

\* the user ends the session, or tmux dies
SessionEnds(s) ==
  /\ session[s] # Nobody
  /\ failures < MaxFailures /\ failures' = failures + 1
  /\ EndSession(s)
  /\ UNCHANGED <<plan, pc, next, progress, git, disk, unread, crowded>>

-----------------------------------------------------------------------------
(* The reader: loadWorkerSnapshots lists the directories with one of the   *)
(* three files, then reads each; a snapshot that holds a worker without an *)
(* objective is refused (validateCanonicalSnapshot).                       *)

ListWorkers ==
  /\ unread = {}
  /\ unread' = {w \in Workers : Has(Watched, w)}
  /\ UNCHANGED <<plan, pc, next, progress, git, tmux, disk, failures, crowded, robbed>>

\* parseSection: a section ends at the next heading
HasObjective(w) == files[<<Watched, w, "task">>] = "plain"

ReadTask(w) ==
  /\ w \in unread /\ HasObjective(w)
  /\ unread' = unread \ {w}
  /\ UNCHANGED <<plan, pc, next, progress, git, tmux, disk, failures, crowded, robbed>>

\* one such worker, and the whole snapshot is refused
RefuseTask(w) ==
  /\ w \in unread /\ ~HasObjective(w)
  /\ unread' = {}
  /\ UNCHANGED <<plan, pc, next, progress, git, tmux, disk, failures, crowded, robbed>>

-----------------------------------------------------------------------------
\* what an earlier, killed run may have left of one name
Left(listed, present, b, s) ==
  [tree |-> [listed |-> listed, present |-> present, by |-> IF listed \/ present THEN Earlier ELSE Nobody],
   branch |-> b, session |-> s, file |-> IF s = Nobody THEN "none" ELSE "plain"]
Leftovers == {Left(FALSE, FALSE, Nobody, Nobody), Left(FALSE, FALSE, Earlier, Nobody),
              Left(TRUE, TRUE, Earlier, Earlier), Left(TRUE, FALSE, Earlier, Nobody),
              Left(FALSE, TRUE, Nobody, Nobody)}

Init ==
  /\ plan \in {p \in [Runs -> Configs] : \A r \in Runs : p[r] \in Plans[r]}
  /\ pc = [r \in Runs |-> "idle"] /\ next = [r \in Runs |-> 1]
  /\ created = [r \in Runs |-> <<>>] /\ opened = [r \in Runs |-> FALSE]
  /\ fresh = [r \in Runs |-> FALSE] /\ errors = [r \in Runs |-> FALSE]
  /\ failedAdd = [r \in Runs |-> {}]
  /\ \E left \in Leftovers :
       /\ tree = [n \in Names |-> left.tree]
       /\ branch = [n \in Names |-> left.branch]
       /\ session = [s \in Sessions |-> left.session]
       /\ files = [p \in Paths |-> left.file]
  /\ panes = [s \in Sessions |-> {}] /\ split = [r \in Runs |-> NoSession]
  /\ unlinked = {} /\ erased = {} /\ halted = {}
  /\ unread = {}
  /\ failures = 0 /\ crowded = {} /\ robbed = {}

Cleanup(r) == Prune(r) \/ KillExisting(r) \/ CleanWorktree(r) \/ CleanPrune(r) \/ CleanBranch(r)

Execute(r) ==
  \/ RefusePlan(r) \/ Begin(r) \/ CheckSession(r) \/ OpenFile(r) \/ FillFile(r)
  \/ AddWorktree(r) \/ AddFails(r) \/ Overlay(r)
  \/ NewSession(r) \/ SplitWindow(r) \/ Launch(r)
  \/ CommandFails(r)

Undo(r) ==
  \/ UndoSession(r) \/ UndoWorktree(r) \/ UndoPrune(r) \/ UndoBranch(r)
  \/ UndoFails(r) \/ UndoAborts(r) \/ UndoFiles(r)

Lost(q) ==
  \/ \E n \in Names : (tree[n].by = q /\ tree'[n] # tree[n]) \/ (branch[n] = q /\ branch'[n] # q)
  \/ \E s \in Sessions : session[s] = q /\ session'[s] # q
LosesFrom(others) == robbed' = robbed \cup {q \in others : Lost(q)}

RunStep(r) == (Cleanup(r) \/ Execute(r) \/ Undo(r)) /\ LosesFrom(Runs \ {r})

Next ==
  \/ \E r \in Runs : RunStep(r) \/ KillRun(r)
  \/ \E s \in Sessions : SessionEnds(s) /\ LosesFrom(Runs)
  \/ ListWorkers
  \/ \E w \in Workers : ReadTask(w) \/ RefuseTask(w)

Spec == Init /\ [][Next]_vars

-----------------------------------------------------------------------------
(* Properties.                                                             *)

\* A run that failed and rolled back without errors leaves no worktree, no
\* session and no branch of its own, whatever other runs did meanwhile; except
\* for the branch that git made for the one worktree it could not add, which
\* executePlan does not count as created.
FailureUndone ==
  \A r \in Runs : pc[r] = "failed" /\ ~errors[r] =>
    /\ \A n \in Names : tree[n].by # r /\ (branch[n] = r => n \in failedAdd[r])
    /\ \A s \in Sessions : session[s] # r

\* A rollback takes what its run has created and nothing else: worktrees,
\* branches and sessions of earlier and of other runs survive a failure, unless
\* somebody has removed what this run had created, under whose name something
\* else may be there now.
RollbackTakesOwn ==
  [][\A r \in Runs \ robbed : Undo(r) =>
       /\ \A n \in Names : tree'[n] # tree[n] => tree[n].by = r \/ ~tree[n].present
       /\ \A n \in Names : branch'[n] # branch[n] => branch[n] = r
       /\ \A s \in Sessions : session'[s] # session[s] => session[s] = r]_vars

\* A run that replaces what it finds has room for every worktree, whatever
\* earlier runs have left: listed or unlisted directories, registrations
\* without a directory, branches, a session.
CleanupMakesRoom ==
  \A r \in Runs \ crowded : Replacing(r) =>
    /\ pc[r] = "add" => Room(Here(r))
    /\ pc[r] = "session" => session[Session(r)] = Nobody

\* When a run that was alone is about to report success, every worker has its worktree,
\* its branch, its three files and, the last one apart, which comes now, its
\* pane, unless the session has been ended.
StartedComplete ==
  \A r \in Runs \ crowded : pc[r] = "launch" /\ AtLast(r) =>
    \A w \in Slugs(plan[r]) :
      /\ tree[Name(plan[r], w)] = [listed |-> TRUE, present |-> TRUE, by |-> r]
      /\ branch[Name(plan[r], w)] = r
      /\ \A f \in ToSet(Files) : files[<<Session(r), w, f>>] \in {"plain", "headed"}
      /\ w = Worker(r).slug \/ r \in robbed \/ w \in panes[Session(r)]

\* Whatever earlier runs have left, a run that replaces it has room at each of its
\* steps, and one that reports success has everything its plan names
\* (cleanupExisting, executePlan).
RunsComplete == CleanupMakesRoom /\ StartedComplete

\* Why a worker may be found without an objective: a rollback has removed its task,
\* a run is writing the task at this moment or was stopped while it did, or the
\* task that was given begins with a heading.
Explained(w) ==
  LET task == <<Watched, w, "task">>
  IN  \/ task \in erased \cup halted
      \/ \E r \in Runs : pc[r] = "fill" /\ WritePath(r) = task
      \/ \E r \in Runs : /\ pc[r] # "idle" /\ Session(r) = Watched
                         /\ \E i \in DOMAIN plan[r].workers :
                              plan[r].workers[i].slug = w /\ plan[r].workers[i].task = "headed"

\* A snapshot may be taken at any moment, in the middle of a run's writes and of a
\* rollback: each worker that is refused has one of those reasons. Since task.md is
\* written first, a worker which has a directory but not yet all of its files is
\* no reason (materializePlan, loadWorkerSnapshots, validateCanonicalSnapshot).
SnapshotAccepted ==
  [][\A w \in Workers : RefuseTask(w) => Explained(w)]_vars
=============================================================================
