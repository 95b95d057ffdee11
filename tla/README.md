# Verification of polyagent

The repository has two bodies of code. polyagent itself, in Rust, trades binary
prediction markets: the live agent reads market data and its own trades from
streams, decides every 50 ms what to quote and what to take, and keeps maker
orders resting at the exchange, or simulates its fills in paper mode. Beside it,
under `.cursor/scripts`, is the JavaScript of the development tooling: an
installer, an orchestrator of git worktrees, session files, a state store,
versions and logs of skills, and the hooks that run around every edit. It is the
larger part, and it keeps nearly all of its state in files that several
processes share without a lock.

This directory holds TLA+ models of both, the TLC runs that check them, and
proofs checked by TLAPS.

Contents: [the system](#the-system), [modules](#modules),
[how state and actions correspond to the code](#how-state-and-actions-correspond-to-the-code),
[runs](#runs), [bounds](#bounds), [fairness](#fairness), [proofs](#proofs),
[what only the runs show](#what-only-the-runs-show),
[disagreements met](#disagreements-met),
[what is not modelled](#what-is-not-modelled).

To check: `tlc -config Records.cfg MCRecords` (the module of each configuration
is in the table of runs), `tlapm RecordsProofs.tla`.

## The system

The trading agent:

| Component | State it keeps | Operations | Talks to |
|---|---|---|---|
| main loop, `apps/live-agent/src/main.rs` | current markets, mark prices | decision, refresh, receive and drift branches of one `select!` | everything below, by calls |
| order manager, `crates/execution` | `open_orders`, `order_index`, cooldown of takers, balance cache, last heartbeat | `apply_decisions`, `replace_markets`, `maintain_liveness`, `on_event`, the public cancel and trade calls | the exchange, by awaited calls |
| risk manager, `crates/risk` | inventory per market, peak and current equity, time of the last event, taker cooldown, market data | `apply_limits`, `on_event`, `on_execution`, `replace_markets` | the main loop only |
| favourite-side engine, `crates/paper_engine` | books, positions, exposure, cooldowns, profit | `run_cycle` (paper), `generate_live_intents` and `on_live_fill` (live), book updates | the main loop only |
| activity API, `activity_api.rs` | trade log, statistics, paper balance | record a fill, snapshot, cancel one, cancel all, manual trade | the order manager, from threads of its own |
| signal engine, ingest, discovery, replay, core, dashboard, credential tool, web front end | books and estimates, streams, child process, presentation | | |

The tooling, `.cursor/scripts`:

| Component | State it keeps | Operations | Shared with |
|---|---|---|---|
| install planner, `lib/install-manifests.js`, `install-targets/`, `install-executor.js` | the call stack of a depth-first resolution | requests, resolution, plan of copies | |
| install lifecycle, `lib/install-lifecycle.js`, `install/apply.js` | the files of a target, `settings.json`, the record of an installation | install, doctor, repair, uninstall | the user, who edits the files; the source repository, which is updated |
| worktree orchestrator, `lib/tmux-worktree-orchestrator.js` | worktrees, branches, tmux sessions, files of workers | plan, clean up, execute, roll back; snapshot of a reader | other runs, by names |
| session names and inspection, `lib/session-aliases.js`, `session-manager.js`, `session-adapters/` | alias file with backup and temporary file, recordings | set, rename, delete, clean up; find a session; record a snapshot | readers, other inspections |
| session hooks and observer, `hooks/session-*.js`, `pre-compact.js`, `lib/observer-sessions.js` | session files, leases, pid file | start, stop, compact, end | hooks beside each other, the user |
| state store, `lib/state-store/` | a database file, a copy of it in the memory of each process | open, migrate, write, close; status and inspection | processes that have it open |
| skill evolution and improvement | `SKILL.md` and its versions, logs of versions, runs and observations | version, roll back; record; health, panels, recommendation | evolvers, users, writers that die in mid-line |
| hooks around edits, `hooks/run-with-flags.js`, `config-protection.js`, `post-edit-accumulator.js`, `stop-format-typecheck.js` | settings, the list of edited files | dispatch, refuse, record, format and check in batches | processes that overlap, fail or hang |
| MCP health check, `hooks/mcp-health-check.js` | a file of marks | check before a call, probe, reconnect, mark after a failure | processes that read it before and write it after a probe |

Hooks run as processes of their own. The editor starts one for each event, kills
it when it takes too long, and starts the next event without waiting for those
that are declared asynchronous. What they share are files, each read as a whole
and written as a whole, and a write is an emptying and a filling.

What is hard, and what makes each part correct:

- *Order manager.* Two maps are updated one after the other around calls that
  take time, fail, or fail after they were obeyed. They must name the same
  orders, never more than the cap, and a sweep must leave nothing stale.
- *Quotes over time.* Hysteresis, throttle, time to live, sweeps and a risk gate
  act on one order: a moved quote must get its order replaced, an order nobody
  quotes must leave.
- *Risk manager.* It hears of fills late, and of markets it has dropped. What it
  counts must follow the position.
- *Favourite-side engine.* Exposure, positions, profit and the ledger are four
  accounts of the same trades and must agree.
- *Installer.* Commands fail or are killed between two writes, and files are
  edited between two commands. A repair must heal, an uninstall take away what was
  copied, a merge keep what the user wrote and register each hook once.
- *Orchestrator.* Rollbacks go by names under which another run may have put its
  own. A failure must be undone and nothing else be removed.
- *Session files.* Each hook writes back what it read some time ago. Notes of the
  user must survive, one summary must be there and be the last, a session must go
  on from the right file, and one observer must outlive the sessions that use it.
- *State store.* Every process writes the whole database. A row reported as
  written must stay, and no database may be half migrated or dangle.
- *Skills.* Versions are numbered by what is there; a rollback is four writes. The
  log and the panels must tell the truth, and reports with windows, ends and
  rounding of their own must agree with each other.
- *Hooks.* A call must be refused by a verdict only, a protected file never be
  edited, an edited file reach the formatter once, in bounded time; and what a
  mark says of a server must have been found out in time.

`PROJECT.json` lists every component with its status and every hazard with its
line and the properties that cover it.

## Modules

| Module | What it is |
|---|---|
| `RequotePolicy` | when an order is kept, replaced or stale; shared by the next modules |
| `ExecutionEngine` | the order manager: main task, API handlers and exchange, one action for each call and each map update |
| `QuoteBook` | abstract: what the order manager promises |
| `QuoteLifecycle` | orders over many decision cycles |
| `RiskManager`, `LiveRisk` | the risk manager, and the world it lives in |
| `FavouriteEngine`, `PaperTrading` | the favourite-side engine, and its paper cycle with the ledger |
| `InstallPlan` | from a request to a list of copies, one call or return of the resolution per step |
| `Install` | install, doctor, repair, uninstall, one write per step |
| `Orchestration` | runs of the orchestrator, one git or tmux command or file per step, and the snapshot |
| `Aliases` | alias commands, one file operation per step, and inspections |
| `Sessions` | session files, compactions, starts and ends, the observer |
| `StateStore` | the database file and the memories |
| `SkillVersions`, `SkillRuns` | versions of a skill; logs of runs and observations and what is concluded from them |
| `Records` | composes the last three, with the reports that read them |
| `McpHealth` | the file of marks and the processes around it |
| `EditBatch`, `HookDispatch` | the list of edited files and its batches; the hooks around an edit, which extends it |
| `HooksAtWork` | composes the last three under one set of settings |
| `Budget` | how many events of each kind a run may still have; see [bounds](#bounds) |
| `MC...` | values for TLC |
| `ExecutionEngineProofs`, `TradingProofs`, `RecordsProofs`, `HooksProofs`, `AliasesProofs`, `SessionsProofs`, `OrchestrationProofs`, `InstallProofs` | theorems |

Operators commented "Mutant" are deliberate mistakes that take the place of the
definition below them, to show that a property notices.

## How state and actions correspond to the code

**ExecutionEngine.** `openOrders` and `orderIndex` are the two DashMaps; `venue`
is the truth at the exchange. A slot is a (token, side). `pc`, `loop`, `quote`,
`subject` and `pending` are where the main task is suspended and what it holds;
`api` is the same for each handler. A cycle begins with `maintain_liveness`
(`BeginCycle`), then any number of `apply_decisions` (`StartBatch` to the sweep).
`SyncQuote` keeps and touches an order, replaces it (`CancelOk`, `Drop`,
`DropIndex`) or places one (`PostOk`, `Track`, `TrackIndex`). `CancelFailed`,
`PostFailed` and `TakerFailed` follow the `?` operators. `VenueRemoves` is a fill
or an expiry, which the order manager is never told of; `CrashRestart` starts
with empty maps. Time is the age of an order, cut off at `AgeCap`.

**QuoteLifecycle.** A decision cycle is one step, some time of `Gaps` after the
last one: the favourite-side batch may
sweep, then the markets are served in turn, each with `Synced` and the sweep at
the end of its `apply_decisions`; a market with an empty batch is skipped.
`halted` is `apply_limits` returning empty batches.

**RiskManager and LiveRisk.** `AdmitsQuote` and `AdmitsTaker` are the
kill-switches and tests of `apply_limits`; `OnEvent`, `OnExecution` and
`ReplaceMarkets` the three handlers; `StartCooling` the side effect of
`accept_taker`. `position` is what is really held, `messages` the trades in the
channel, one for each status under which a trade is reported; `RefreshFails` is a
fetch of the catalogue that leaves the old markets.

**FavouriteEngine and PaperTrading.** `RunCycle` is `run_cycle`: all exits, then
yes and no of each listed market in turn, each seeing what the entries before it
did. Prices are integers, sizes whole shares, rounded as `round_dp` rounds.
`RecordPaperFill` books one fill in the ledger.

**InstallPlan.** `stack` is the stack of calls of `resolveModule`, with the loop
counter of each, and `verdict` what the last one returned; `Accept`,
`PlanLegacy` and `RefuseRequest` are `normalizeInstallRequest`; `VisitRoot`,
`VisitDependency`, `NextDependency`, `Resolved` and `Unresolved` are one call or
return each; `Destination` is where the adapter of a target puts a file. The
plan is the set of its copies: their order is left out, no two of them write one
file if they keep apart.

**Install.** `disk`, `settings` and `record` are the files; `cmd` is what the
command has still to do. A plan is a list of steps, so that a failure or a kill
comes between any two: `CopyFile`, `WriteFile`, `WriteSettings`, `WriteRecord`,
`RepairOperation`, `UndoOperation`, `RemoveRecord`. The content of a document is
a function from leaves to values, which is what merging and its undoing are
about. `Diagnosis` is what the doctor finds in the state as it is. `placed` are
the files that the installer has put there and that are there, `settings.json`
among them.

**Orchestration.** `tree`, `branch`, `session`, `panes` and `files` are what
git, tmux and the disk hold, each with the run that made it. `pc` walks through
`executePlan`: cleaning up, writing files, adding worktrees, the session, panes,
launching; `StartRollback` and `Undo` are its `catch`. A file is emptied
(`OpenFile`) and then filled (`FillFile`), and a rollback may remove it in
between. Names are sequences of words, so that two plans can meet in one name,
and `Met` is what tmux takes a name for: the session of that name or, without
one, the only session whose name begins with it. `RefuseTask` is a reader that
finds a worker without an objective.

**Aliases.** `cmd` goes through `saveAliases`: backup, temporary file, unlink on
Windows, rename, clean-up, and the restore when one of them fails. Inspections
read a recording (`OpenSession`) and write it in place (`EmptyRecording`,
`FillRecording`).

**Sessions.** `stop`, `marker` and `open` are the processes of the three hooks,
each with what it has read. A file is a header and a list of blocks: a
summary with the response it tells of, a note of the user, a placeholder, an
appended compaction. `blank` are the files that a starting session has read and
that hold no summary yet, which it does not inject. An observer is started in the
steps of the scripts: the hook and `start-observer.sh` with its lock (`starter`,
`lock`), the process (`alive`), the pid file that it opens and fills itself
(`young`, `filling`, `pidFile`), and the signal that ends it (`ending`).

**StateStore.** A process reads the file when it opens the store (`Open`) and
writes all of its memory after each statement (`SaveEmpties`, `SaveFills`), those
of the opening and the closing included. `base` and `ledger` are history: what
the memory was made from, and the rows reported as written. `lapped` becomes true
when a process saves over what it has not read, or is killed while it saves. The
pragma that has references checked is not modelled, because the first export
switches it off (see [disagreements](#disagreements-met)): a write is admitted
whatever it refers to.

**SkillVersions and SkillRuns.** An evolver chooses a number, copies, and
appends to the log, in steps, each file emptied before it is filled; a rollback
writes the text first. Logs are sequences of lines, and a line whose writer died
is glued to the next, so that neither can be read. The arrows of the dashboard
have a threshold of their own, and a recommendation that names no amendment
pools the runs of all. Health, the dashboard's panels, status and recommendation
are operators on what can be read.

**McpHealth.** `check` is a process with its copy of the marks, its probe and
what it is about to save; `seenUp` and `blamed` are what was found out when. A
failed call blames its server by its text, whether the server answers or not
(`AfterFailure`).

**EditBatch and HookDispatch.** `call` is an edit with the hooks that have ended
and their status; a hook runs in one of five `Ways`, three of which fail. A call
names a file, or several in its edits (`EditLists`), which the accumulator reads
and the guard of protected files does not (`bypassed`). `AfterEdit` appends to
`list`; `BatchReads` and `BatchRemovesList` are the two halves of `main` in
`stop-format-typecheck.js`, of which the second may fail and the batch goes on;
`RunBatch` is one call of a formatter or a compiler, which may hang for its
share of the time. `owed`, `handled`, `recorded` and `missed` are history.

## Runs

| Run (module) | Checks | Shows |
|---|---|---|
| `EngineAlone` (`MCExecutionEngine`) | `TypeOK`, `MapsAgreeAtRest`, `ImplementsQuoteBook` | with the main task alone and every call answered truthfully, the maps agree and the order manager implements `QuoteBook` |
| `EngineHostile` (`MCExecutionEngine`) | `OpenOrdersWithinCap`, `SweepLeavesNothingStale`, `CycleEnds` | with an API handler, lost replies and restarts the cap still holds, a batch that returns Ok leaves nothing stale, every cycle ends |
| `Lifecycle` (`MCQuoteLifecycle`) | `MovedQuoteReplaced`, `UnquotedOrderSwept` | with cycles closer than the replace interval, as shipped, and others that pause for it: a moved quote is replaced if pauses keep coming, an unquoted order is swept while others are quoted |
| `RiskLive` (`MCLiveRisk`) | `HeldMarketsKnown`, `CountedOncePerMessage` | what is counted moves with the position, once for every message of a trade, but for trades of dropped markets; held markets are never dropped |
| `PaperTrading` (`MCPaperTrading`) | `RiskHeld`, `BalanceExplained` | the four accounts agree, within the limits |
| `InstallPlan` (`MCInstallPlan`) | `PlanExact`, `ResolutionEnds` | on every graph of dependencies a plan has what was asked for and what that needs, and files keep apart; the resolution ends |
| `Install` (`MCInstall`) | `DoctorAgrees`, `UninstallLeavesSettings`, `HooksRegisteredOnce`, `UserKeysSurvive` | failures, kills, edits and updates between any two writes; an undisturbed uninstall leaves `settings.json` with the hooks in it, and nothing else |
| `Orchestration` (`MCOrchestration`) | `FailureUndone`, `RunsComplete`, `SnapshotAccepted`, `RollbackTakesOwn` | two runs on whatever earlier ones have left, with a command that fails; a reader finds a worker without an objective for known reasons only |
| `Aliases` (`MCAliases`) | `AliasesSafe`, `HistoryConsistent`, `ReportTrue` | file operations that fail, kills, Windows; inspections that overlap |
| `Sessions` (`MCSessions`) | `NotesKept`, `SummaryCurrent`, `InjectedBest`, `ObserverHeld` | hooks that overlap and are killed, two sessions in one file, expiry, files without a summary; observers started beside each other, whose pid file is written late and removed under them |
| `Records` (`MCRecords`) | `RowsSurvive`, `MigrationAtomic`, `HistoryTrue`, `TornLinesCostOne`, `ReportsAgree` | processes on one database, evolvers of one skill whose files are emptied before they are filled, torn logs, and the reports of all |
| `HooksAtWork` (`MCHooksAtWork`) | `VerdictsFounded`, `MarksKept`, `WithinBudget`, `ProcessedOnce`, `VerdictsDecide`, `EditsReachBatch` | hooks around edits of one and of several files and around MCP calls, under four settings; servers that fail a call though they answer, a list that cannot be removed |

Many of these claims name an exception in the state (`lapped`, `mixed`, `excused`,
`disturbed`, `robbed`, `crowded`, `erased`, `halted`, `missed`, `bypassed`, `raced`,
`overtaken`).
Each is a race or a failure that the code is exposed to, set by the very steps that
lose it, and the claim says that nothing else does harm. Where the exception
loses data it is listed under [disagreements](#disagreements-met) or in the
hazards.

## Bounds

- *Orders.* Three ids for two slots (`EngineAlone`) let an order be replaced while
  the old one is still referred to; `EngineHostile` has both sides of one token,
  two ids and a cap of one, so that the cap binds in every cycle. `MaxIntents`, two
  or three, leaves room for a sweep followed by another batch. Nothing in the code
  tells API handlers apart.
- *Ages* stop at `AgeCap`, one more than every threshold. `Lifecycle` has gaps of
  one, below the replace interval of two, of two, and of six, which outlives all.
- *Risk.* One market with both legs, a position of one, trades reported under two
  statuses, counts up to two, two messages on their way: one status of a fill can be
  behind the other, or behind another fill, when a refresh or a decision comes.
- *Favourite-side engine.* Two markets, four entries, two positions at a time;
  the books include a thin, a risen and a stale one, and none.
- *Install planning.* Every graph of dependencies of three modules, cyclic ones
  included, with each module confined to one target; requests of every form.
- *Install.* Two versions of the source, two requests, an older record, one edit
  of the user: enough for a repair after an edit and an update, and for a second
  install over a first that was killed.
- *Orchestration.* Two runs, of one or two workers, one failing command, five
  leftovers of earlier runs; plans of one session and of two whose names begin
  alike and whose worktrees have one name, a plan that repeats a worker, one
  with a missing seed and a task that begins with a heading, one with an outside
  seed.
- *Aliases.* Two commands with three faults, so that a restore fails too and a
  failing command can follow a killed or half restored one; two inspectors.
- *Budgets.* `Sessions`, `Records` and `HooksAtWork` bound events by a budget
  (`Budget.tla`): the initial state chooses one of a few, each of which gives
  several events of the kinds that make one scenario. In `Sessions`: one long
  session; two in one file; a hook that is killed; days that pass; three starts
  and ends with two starts of an observer and a crash. In `Records`: two
  processes that open, migrate and write, and a kill; one that writes more runs
  than a window holds; evolvers, one of them stopped, with a user and a
  proposal; logs over days; torn logs; a comparison of variants. In
  `HooksAtWork`: calls and failures around marks that expire and servers that go
  down; a save that fails; edits of one and of several files with two batches
  and a process that dies; an edit with a hook that fails and a file that is
  removed. A kind that no step of a scenario could meet is left out of it; the
  parts that a run composes share no state but the settings, so that their steps
  commute.

Symmetry is used for ids of orders, of processes and of inspectors, in runs
without liveness properties.

## Fairness

`ExecutionEngine!FairSpec` asks weak fairness of the main task's steps: the
runtime polls a task again when its awaited call has returned. It assumes that
every call returns, which the code does not enforce. `QuoteLifecycle!FairSpec`
asks that the decision ticker keeps firing and its branch is carried out: it is
a tokio interval, and every other branch of the loop is finite.
`InstallPlan!FairSpec` asks that a synchronous function goes on. Tickers of the
market, API handlers, users and editors get no fairness, and the hooks have no
liveness claims: whether a next event comes is up to the user.

## Proofs

All theorems hold for every value of the constants that the named assumptions
(`EngineAssumption`, `PolicyAssumption`, `RiskAssumption`, `LiveAssumption`,
`BatchAssumption`, `TimesAssumption`, `NewestExists`, `SessionsAssumption`,
`OrchestrationAssumption`, `PlansAssumption`, `VersionsAssumption`,
`InstallAssumption`, `FavouriteAssumption`, `PaperAssumption`,
`ReportsAssumption`, `PlanAssumption`, `DispatchAssumption`) allow; TLC
evaluates the assumptions in every run. `PlanIsExact` has a hypothesis more
(`FlatNamesApart`), and `Alone` is that of two others; both are explained at the
theorems.

The sums and folds of the library are recursive functions or operators. They are
reasoned about by least counterexamples: of the indices, or the sizes of the
sets, at which an equation fails take the smallest, and the step before it is one
where it holds. What is needed of them are equations such as "the sum over a set
with one element more", never what they compute for every input.

- `ExecutionEngineProofs!TypeCorrect`. Adds to `TypeOK` what the main task has in
  hand at each `pc` (`InHand`): without it the updates at `Drop` or `Track` could
  not be typed.
- `ExecutionEngineProofs!CapHolds`. The cap is tested before the call and the
  order inserted after it. `CapInv` adds that from the test to the insertion there
  is room for one more: only the main task inserts, handlers only remove.
- `ExecutionEngineProofs!Refinement` and `MapsAgree`, under `Alone` (no API
  handler, no lost reply, no restart). `BookInv` says that each tracked order is
  the one its slot is indexed under except between the two updates of a
  replacement, that every order at the exchange is tracked or being recorded,
  and that what the sweep has collected is still tracked. Every step is then a
  step of `QuoteBook` or a stutter. `Alone` is needed: see the first two
  disagreements below.
- `ExecutionEngineProofs!SweepIsComplete`. `SweepInv`: whatever is stale during a
  sweep is still on the sweep's list or is the order being cancelled. Handlers
  only remove orders and a restart empties the maps, so nothing joins late.
- `TradingProofs!PositionsKeepTheirMarket`. A refresh drops flat markets only,
  and a report changes the inventory of known markets only.
- `TradingProofs!TradesAreCounted`, for any set of statuses. What is counted,
  with what waits in the channel, is a sum over the messages. A trade appends
  the same message once for each status it is reported under, which moves that
  sum by as many times the size (`FlowRepeat`, by a least counterexample); a
  message whose market is known passes its size from one part to the other; the
  message of a dropped market is the step that the property excepts. More than
  one status is a count too far: the property says by how much (see the
  disagreements).
- `TradingProofs!RiskIsHeld` and `BalanceIsExplained`, from `PaperInv`. It
  speaks of an `Account` in the middle of `run_cycle`, not only of the state
  after it: positions have ids of their own and one leg each, the exposure of a
  market is the sum of what its positions are worth, and the effects of the
  fills in hand and what the open positions owe add up to a constant. Each entry
  and exit of a cycle keeps it (`AccountOK`), the cycle is a fold of them, and a
  booked fill passes its effect from one side to the other. Neither price nor
  size is bounded.
- `RecordsProofs!StoreMigrates`. `Consistency` is a claim about every database
  there is, of the file and of each memory: the version is recorded exactly where
  the tables are, rows are only where there are tables, and a process that is past
  the migration has them. No step but a migration and a write makes a new database,
  the others copy one, whoever saved it.
- `RecordsProofs!ReportedRowsSurvive`. That a row stays needs to be known while
  the file is empty as well. `Survival` says: a memory has all rows of its base
  but for the one it is about to report; a process that fills the file has all
  rows of the ledger; and, as long as nothing lapped, the file is empty exactly
  while one process fills it, whose save began at the file its memory was made
  from. The last is why a save that is not lapped cannot meet another.
- `RecordsProofs!HistoryIsTrue`. `HistoryInv` says what each evolver holds between
  its writes (`Sound`): the number it has chosen, with its text in place, is not
  yet in the log. Two at work on one number are mixed up by name (`Apart`), nothing
  that is half written is rolled back to unless it is mixed up as well
  (`TargetsWhole`), a rollback in the log had its text restored (`RollbacksTrue`),
  and a line that was cut or glued names no version (`OthersNameNothing`).
- `RecordsProofs!TornLinesCost`. `TornInv` counts, for each log: lines reported,
  and one more while the end is torn, are no more than tears and whole lines
  together. A torn end takes one line with it and is then whole again.
- `RecordsProofs!ReportsDoAgree`, for the three kinds of reports in turn. The
  inspection groups the failures of a window of rows, finitely many (`Stored`),
  by skill and reason: a skill with more failures than stay below the threshold
  for every reason reaches it for one (`Crowded`, a pigeonhole on finite sets).
  The promotion gate compares two selections of one log; a selection is followed
  through the log from line to line (`Follows`), and rounding keeps the order of
  rates (`RoundKeepsOrder`). The panels divide runs by days: no line has a time
  later than now (`Dated`), so that each run of the window falls in one of its
  days, and the boxes add up (`BoxesAddUp`).
- `HooksProofs!VerdictDecides`. `CallInv` says of every call under way that a
  status of 2 is the guard's, who is enabled and did not fail and had a reason;
  that a guard who did not fail has given it to a protected file that the call
  names; and that a refused call has such a status. A protected file among the
  edits of a call is `bypassed`, as in the code. It is kept because a hook that
  fails gets another status, whichever way it fails.
- `HooksProofs!RecordsHandledOnce`. `ListInv` says, of the files that are not
  missed, that one in the list was recorded more often than handled, that a
  process that has read the list holds exactly what is in it, and that two such
  processes share missed files only. A list that cannot be removed makes its files
  missed: they will be handled again (`RemovesOrMisses`).
- `HooksProofs!TimeHolds`. `BudgetInv`: what was spent and a share for each batch
  that is left stay within the budget; a whole share is `TotalBudget \div n`, and
  the batches are finitely many because files are.
- `HooksProofs!EditsReachFormatter`. `Reach` is stronger than the property: the
  batch that has the file is one that formats. It needs `ListInv` for the step
  that removes the list, and that `findProjectRoot` always finds a directory
  (`BatchAssumption`), or a file would be in no batch.
- `HooksProofs!MarksAreFounded`. `Marked`: every mark, in the file or in the
  hands of a process, was made from what was found out, or told by a failed
  call, at its time, and says nothing beyond the life of a mark or the longest
  wait. That a wait is never longer is all that is needed of its doubling
  (`WaitIsBounded`).
- `HooksProofs!MarksOfOthersKept`. `Kept`: as long as no save was raced, the file
  holds the last mark of each server, and of a file being filled the process that
  fills it holds them.
- `AliasesProofs!AliasesAreSafe`. `CopiesInv` says at which point of a save which
  of the file and its backup is good, and that beside an undisturbed idle file
  lies no backup or one of the same aliases; it cannot know more after a kill,
  and need not until the next command (`reused`). `ReadersInv` speaks of what is
  read rather than of whole files, because a restore may put back an empty one
  that was read as no aliases before.
- `AliasesProofs!ReportsTrue`. `OutcomeInv` follows the old aliases through the
  files as long as at most one operation has failed; the first failure of a rename
  leads to a second save, of the old aliases, which may still succeed.
- `AliasesProofs!HistoriesConsistent`. The invariant is of recordings and of what
  inspectors are about to write, each consistent by itself: that is why overlaps,
  which lose snapshots, cannot mix histories.
- `SessionsProofs!ObserverIsHeld`. `LockInv`: where there is a flock, who is past it
  holds it, and so does the observer that was started, which inherits it; before
  the start there is none. The pid file has no part in this: it is written late, and
  removed by others. `LeaseInv`: an end hook that waits to stop the observer
  knows every lease taken since it listed them.
- `SessionsProofs!NotesAreKept`. `NotesInv` adds what a hook carries: before it
  empties the file, all notes of a file without a placeholder; after, all it has
  read but for the excused. `SummarySpares` is the lemma on the text: the first
  summary is replaced in place, so no note goes with it.
- `SessionsProofs!SummariesAreCurrent`. `SummaryInv`: a whole file has at most one
  summary, the one last told of, and what a hook is about to write will have it
  too; a file whose writers never met has at most one writer.
- `SessionsProofs!InjectsTheBest`. `ChoiceInv`: of the files it has looked at, a
  session that starts has kept the first of its project and the first of all, and
  none was of its worktree (`Found`); `blank` are those it read without a summary,
  which is why nothing is injected if the choice is one of them (`Blanks`).
- `OrchestrationProofs!FailuresUndone` and `RollbacksTakeOwn`, from one invariant.
  `TreesLeft`, `BranchesLeft` and `SessionLeft` say how much of what a run has
  counted as created is still before it, from `next` and the place in the
  rollback. `NoMore`: without errors, what bears the run's mark is among these, or
  is the branch of the worktree that failed. `NoLess`: all of these bear its mark,
  unless it was robbed, and no two are the same; the latter is why undoing one
  takes no other, and it holds because git adds a worktree only where there is
  room. `HasDirectories`: what a run has made has its directory, so that the pruning
  in the middle of another run's rollback or cleanup forgets none of it.
- `OrchestrationProofs!SnapshotsAccepted`. It speaks of every step by which a
  reader refuses a worker. `TaskInv`: a worker that has files, or was listed,
  has a task unless a rollback has removed it; a task that is empty is being
  written by a run that has it open, or was left by one that was stopped; one
  that begins with a heading was configured so. The task is written before the
  other files of a worker, so these are never a reason.
- `OrchestrationProofs!RunsAreComplete`. `AloneInv`: what a run that is alone has
  passed in its plan is there (`Progress`), its files full (`Full`), and what it has
  cleaned away is gone.
  The names of its workers are distinct, or a later worker would meet an earlier
  one's worktree.
- `InstallProofs` rests on `Shape`: files, record and settings are well formed,
  and a command has work of one kind to do and then one thing with the record.
  `DoctorIsRight` needs `LeadsTo`: of each file that is to be recorded, either
  it is as the doctor wants it or a step for it is still to be taken, and no
  other step touches it because a record names no file twice.
  `HooksAreRegisteredOnce` takes from it that the merged entries cover those of
  `hooks.json`, and from `KeptIs` that the comparison of every entry with those
  kept before it leaves one of each; that there is a set of kept places at all
  is shown by a shortest counterexample. `InstallAssumption` gives each file of
  a plan and of an older record a destination of its own, which `PlanIsExact`
  shows of plans under its own hypothesis. `UninstallsAllButSettings` needs
  `OnePlanOnly`: with one plan, all records name one set of files, all steps
  work on it or on `settings.json`, and an uninstall has still to undo every
  other file that is there; a `hooks.json` outside the plan is never written
  because none that parses was there. `HooksStay` adds that what is in
  `settings.json`, or about to be merged into it, represents every hook of the
  plan's version: users add entries, and nothing takes one away. `UserKeysStay`
  is the algebra of merging and its undoing.
- `InstallProofs!ResolutionIsExact`. `WalkInv` follows the recursion of
  `resolveModule` on its stack: what is selected supports the target, is not
  excluded, is closed under dependencies, and lies on no cycle; a call in
  progress is of something its root needs, is done with dependencies that are
  selected, and is the next dependency of the call that waits for it; a verdict
  of "no" is due to something that does not support the target. At the end no
  call is left and every root has its verdict. `Needs` is a least fixed point,
  so that of what a selected module needs all is selected, for the selection is
  one of the closed sets it is the intersection of.
- `InstallProofs!PlanIsExact` adds that two files of one path have two
  destinations. Its hypothesis `FlatNamesApart` is of the source tree: where
  rules are flattened, `a/b-c` and `a-b/c` would get one name, and the second
  would replace the first. The code does not test it; the repository keeps its
  own rules flat, in `.cursor/rules`.

## What only the runs show

Every invariant and every action property of the runs is stated by a theorem.
Liveness (`CycleEnds`, `MovedQuoteReplaced`, `UnquotedOrderSwept`,
`ResolutionEnds`) and everything that needs ENABLED is out of the prover's reach
and stays with TLC: `ResolutionEnds` on every graph of three modules, the others
within the bounds above.

That each fill is counted once, whatever statuses it is reported under, is not
claimed, and neither is that rules with colliding flat names keep apart, or that a
moved quote is replaced without pauses: the code breaks all three.

## Disagreements met

Met while modelling; the models follow the code, and no run is spent on them.

In the agent:

- `crates/execution/src/lib.rs:434` speaks of an atomic update, but an API cancel
  suspended between its call and its map updates removes the index entry of the
  order that replaced its own; `cancel_all_pub` clears orders placed after the
  exchange obeyed it. Hence `Alone`.
- `sync_quote` touches an order that it keeps because it is throttled: at 50 ms
  cycles and a replace interval of 150 ms, which is what is shipped, a moved
  quote is never replaced before its time to live, against
  `AGENT_PROMPT.md:186-200`. Hence the hypothesis of `MovedQuoteReplaced`, that
  a pause comes again and again.
- An empty batch is skipped before the sweep (`main.rs:311`): with a kill-switch
  open, or no market quoted, orders rest on. Hence the hypothesis of
  `UnquotedOrderSwept`.
- MATCHED, MINED and CONFIRMED of one trade are each a message and each counted
  (`crates/ingest/src/streams.rs:271`), so that a fill can count three times.
  `CountedOncePerMessage` states just that.
- The hard limit looks at processed fills: a quote placed while a fill waits in
  the channel exceeds it. It also refuses a sell that reduces a position far
  beyond it (`crates/risk/src/lib.rs:302`).
- `max_hold_secs` and `force_flat_secs_before_expiry` are read by no code: a
  position without a profit outlives its market.
- A restarted agent does not know the orders of its last life.

In the tooling:

- `pre-bash-commit-quality.js` announces an exit code that blocks a commit, but
  its `run` returns text, of which `run-with-flags.js:47-50` makes status 0.
- `hooks.json:238` names a hook `post:edit:accumulator` that is switched off as
  `post:edit:accumulate` (line 234).
- After an install the doctor always finds `hooks.json` drifted, and `mcp.json`
  if a server is disabled: the installer rewrites both after copying them. Hence
  the exception in `DoctorAgrees`.
- A repair from the record itself keeps the modules in it
  (`install-lifecycle.js:944-957`), while `analyzeRecord` compares them with those
  of today, so that the doctor reports `resolution-drift` again right after the
  repair. Hence the second exception in `DoctorAgrees`.
- A narrower request, or a version without some file, makes the record forget
  files that stay. Hence `Several` in `UninstallLeavesSettings`.
- An uninstall leaves `settings.json`, which `apply.js:238-243` creates or
  edits, with every hook that was merged into it:
  `install-lifecycle.js:1122-1197` follows the recorded operations, and none is
  recorded for it. The hooks go on pointing at scripts that are gone.
- git's branch for a worktree it could not add stays after a rollback, because
  `executePlan` does not count it as created. Hence the exception in
  `FailureUndone`.
- tmux takes `-t s` for any single session whose name begins with `s`. A run of
  session `s` beside one of `s-x` is refused, or kills it when it replaces.
- A reader that comes between the emptying and the filling of a `task.md`, or
  reads a task that begins with a heading (`orchestration-session.js:33-41`),
  fails with the whole snapshot (`canonical-session.js:213`). Hence the reasons
  in `SnapshotAccepted`.
- The writer of the state store that `canonical-session.js:396` looks for exists
  in no configuration: snapshots always go to JSON files.
- `session-end.js:216` fills no empty file: one that a killed hook left empty
  stays so until a compaction appends to it.
- `session-aliases.js:123` removes the backup after the rename. A command killed
  between the two leaves a backup that is older than the aliases; if the next one
  fails before it has made its own (`:103-107`), it restores that backup (`:133`)
  and undoes a change reported as saved, or reads as empty when the backup was cut
  off. Hence `leftover` in `ReadersFindAliases`.
- A process that only reads the state store writes the file as well, and so can
  undo the write of another that it has not read. Hence `lapped`.
- `state-store/index.js:155` switches foreign keys on, and the first save, at
  the end of opening, exports the database, which closes and reopens it with the
  default: off. No reference of `migrations.js` is ever checked. An empty file,
  as a process killed while it saves leaves it, opens as a new database.
- `dashboard.js:94-98` points its arrows by a fixed 0.1, `health.js:152-157` its
  trend by `warnThreshold`: the two of one skill can disagree. Hence the cases
  of `ReportsAgree`.
- `config-protection.js:92-93` reads the file of a call and not
  `edits[].file_path`, which `hooks.json:108` matches and
  `post-edit-accumulator.js:55-59` reads: a protected file that one edit of
  several names is let through. Hence `bypassed`.
- A failed call whose text mentions a code (403, 429, "timed out") marks its
  server as not healthy though it answers (`mcp-health-check.js:534-545`), and
  the next calls are refused. Hence `blamed`.
- `stop-format-typecheck.js:146` removes the list if it can. If it cannot, the
  next batch processes the files again, against lines 10-11 ("so repeated Stop
  calls do not double-process files"). Hence the last case of `missed`.
- `start-observer.sh:49-53` writes a sentinel for a guard that no script reads.
  Without `flock` the lock is let go as soon as the script is put in the
  background (`observe.sh:355-377`), and two starts that both pass the check of
  its line 179 leave two observers. Hence `Flock` in `OneObserver`.

## What is not modelled

- *Order manager:* takers, except as an error; the balance cache, which only makes
  a sell smaller; the drift monitor, which logs.
- *Favourite-side engine:* `generate_live_intents` and `on_live_fill`, the gates
  of the spread (`HYPER_MAX_SPREAD`) and of the hours left (`max_hours`), which
  only refuse entries, fractions of a share, and the history behind its activity
  test; equity changes other than those of reports; mark prices beyond "none";
  simulated maker fills of the paper mode.
- *Signal engine:* its numbers; every quote of a small set is allowed instead.
- *Ingest, discovery, replay, dashboard, training log, credential tool, front
  end:* streams, text, I/O, presentation.
- *Installer:* a kill in the middle of one write, and a user who takes hooks out of
  `settings.json`. Removing a tree of files is one step.
- *Orchestrator:* `has-session` and `show-ref` that fail for another reason than
  "no", which the code takes for it; a prefix that ends within a word; `worktree
  remove` and the removal of a directory it leaves are one step of a cleanup.
- *Session files:* deletion and statistics; lines that a user adds to the
  header, notes inside the summary's block, and `$&` in a text that
  `String.replace` expands.
- *Observer:* the process file of the configuration directory, process ids that
  are used again, a start by hand, and what the observer does. `Sessions` is
  checked where there is a `flock`; the proof leaves `Flock` open.
- *Skill provenance:* one small record for each skill, validated and written.
- *Activity, cost and governance logs:* events become lines of a file, as in
  `SkillRuns`; what a line says is classification of text.
- *Checks of commands and commits, single-file formatting, reminders:* stateless
  tests of a text, or hints.
- *Project, package manager and formatter detection:* files read by a fixed
  precedence, of which only the formatter's matters to a modelled property.
- *Adapters under* `.cursor/hooks`, *rules, skills, agents:* renamed fields,
  documents, examples.
- *The editor, git, tmux, the file system:* external; modelled by what the code
  relies on, and marked so in `PROJECT.json`.
