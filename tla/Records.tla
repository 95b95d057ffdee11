------------------------------- MODULE Records -------------------------------
(***************************************************************************)
(* What the scripts of .cursor record of skills and sessions: the versions *)
(* of a skill, the logs of what it did, and the state store; with the      *)
(* reports that read them (lib/state-store/queries.js, lib/inspection.js,  *)
(* lib/skill-evolution/, lib/skill-improvement/).                          *)
(*                                                                         *)
(* The three write files of their own, so that their steps commute; the    *)
(* budgets of a run give events to one of them or to several.              *)
(***************************************************************************)
EXTENDS StateStore, SkillVersions, SkillRuns

CONSTANTS WindowSize,       \* the runs an inspection looks at; 50
          PatternThreshold  \* the failures that make a pattern; 3

\* Windows, thresholds and days are positive; the reasons of failures in the
\* store are among finitely many.
ASSUME ReportsAssumption ==
  /\ {WindowSize, PatternThreshold, MinRuns, Threshold, TicksPerDay, LongDays} \subseteq Nat \ {0}
  /\ ShortDays \in Nat
  /\ IsFiniteSet(Reasons)
  /\ \A v \in Valid["skill_runs"] : v.outcome = "failure" => v.reason \in Reasons

vars == <<file, store, ledger, lapped, skill, versions, log, evolver, mixed,
          lines, torn, reported, tears, now, left>>

Init == StoreInit /\ SkillInit /\ RunsInit

Next ==
  \/ StoreNext /\ UNCHANGED <<skill, versions, log, evolver, mixed, lines, torn, reported, tears, now>>
  \/ SkillNext /\ UNCHANGED <<file, store, ledger, lapped, lines, torn, reported, tears, now>>
  \/ RunsNext /\ UNCHANGED <<file, store, ledger, lapped, skill, versions, log, evolver, mixed>>

Spec == Init /\ [][Next]_vars

-----------------------------------------------------------------------------
(* Reports of the store (queries.js); what a run holds is a record of the  *)
(* skill, the outcome, the reason and the time.                            *)

RunsOf(db) == {k \in DOMAIN db.rows : k.table = "skill_runs"}
Held(db, k) == db.rows[k].value

\* ORDER BY created_at DESC, id DESC
Before(db, k, o) == \/ Held(db, k).at > Held(db, o).at
                    \/ Held(db, k).at = Held(db, o).at /\ k.id > o.id
Newest(db, limit) == {k \in RunsOf(db) : Cardinality({o \in RunsOf(db) : Before(db, o, k)}) < limit}

\* classifyOutcome: what is neither success nor failure is not known
RunsThat(db, window, outcome) == {k \in window : Held(db, k).outcome = outcome}

\* summarizeSkillRuns
StatusSummary(db, window) ==
  [total |-> Cardinality(window),
   success |-> Cardinality(RunsThat(db, window, "success")),
   failure |-> Cardinality(RunsThat(db, window, "failure")),
   unknown |-> Cardinality(window) - Cardinality(RunsThat(db, window, "success") \cup RunsThat(db, window, "failure"))]

\* getSessionDetail
RunsOfSession(db, session) == {k \in RunsOf(db) : db.rows[k].refs.session = session}

-----------------------------------------------------------------------------
(* Inspection (inspection.js).                                             *)

\* groupFailures
FailuresOf(db, window, s, reason) ==
  {k \in RunsThat(db, window, "failure") : Held(db, k).skill = s /\ Held(db, k).reason = reason}

\* detectPatterns
Patterns(db, window) ==
  {g \in Skills \X Reasons : Cardinality(FailuresOf(db, window, g[1], g[2])) >= PatternThreshold}

\* inspect, generateReport
Inspection(db) ==
  LET patterns == Patterns(db, Newest(db, WindowSize))
  IN  [status |-> IF patterns = {} THEN "clean" ELSE "attention_needed",
       patterns |-> patterns, affected |-> {g[1] : g \in patterns},
       failures |-> Cardinality(UNION {FailuresOf(db, Newest(db, WindowSize), g[1], g[2]) : g \in patterns})]

-----------------------------------------------------------------------------
(* Reports of versions.                                                    *)

\* countPendingAmendments, renderAmendmentPanel: the entries with another status are applied
PendingAmendments == Cardinality({i \in DOMAIN log : log[i].event = "proposal"})

\* renderVersionTimelinePanel: the last entry with a reason names it; that of the
\* rollback itself has none
ReasonFor(n) ==
  LET entries == {i \in DOMAIN log : log[i].event = "snapshot" /\ log[i].version = n /\ log[i].target > 0}
  IN  IF entries = {} THEN 0 ELSE log[Max(entries)].target

Timeline == [n \in DOMAIN versions |-> ReasonFor(n)]

-----------------------------------------------------------------------------
(* Properties.                                                             *)

\* Each writer that dies in mid-line costs the line it wrote and at most one
\* other: all others that were reported as written are read, in a file that
\* several processes append to (tracker.js and observations.js, which skip the
\* lines that do not parse).
TornLinesCostOne == \A l \in Logs : reported[l] - Len(Read(l)) <= tears

\* The version panel gives a rollback as the reason of a version only if its
\* text is that of the version rolled back to, wherever the rollback was killed,
\* unless the skill was edited or another evolver was at work meanwhile, or the
\* version rolled back to was being written
\* (versioning.js, rollbackTo; dashboard.js, renderVersionTimelinePanel).
TimelineTrue ==
  \A n \in DOMAIN Timeline : Timeline[n] > 0 =>
    {n, Timeline[n]} \cap mixed # {} \/ versions[n] = versions[Timeline[n]]

\* What the log of a skill says of its versions, and what the dashboard reads out of
\* it, is so (versioning.js; dashboard.js, renderVersionTimelinePanel).
HistoryTrue == LogDescribesVersions /\ TimelineTrue

\* The inspection and the status of one database agree: a pattern is made of
\* failures that the status of the same window counts, and a skill that failed
\* there more often than its reasons could hide is named, whatever runs were
\* recorded in between (inspection.js; queries.js, summarizeSkillRuns).
InspectionAgrees ==
  \A db \in Databases :
    LET window == Newest(db, WindowSize)
    IN  /\ Inspection(db).failures <= StatusSummary(db, window).failure
        /\ \A s \in Skills :
             Cardinality({k \in RunsThat(db, window, "failure") : Held(db, k).skill = s})
               > Cardinality(Reasons) * (PatternThreshold - 1) => s \in Inspection(db).affected

\* An amendment is promoted only if it succeeded more often than what it
\* amends, by the exact fractions and not only by the rounded ones, and both
\* were observed often enough; runs of another amendment count for neither, unless
\* no amendment is named and all of them are tried (evaluate.js,
\* buildSkillEvaluationScaffold).
PromotionEarned ==
  \A s \in Skills, tried \in Trials : Recommendation(s, tried) = "promote-amendment" =>
    LET of(variants) == {i \in DOMAIN lines["observations"] :
                           /\ lines["observations"][i].kind # "torn"
                           /\ lines["observations"][i].skill = s
                           /\ lines["observations"][i].variant \in variants}
        won(set) == {i \in set : lines["observations"][i].success}
        trial == of(tried)
        base == of(Variants \ Amended)
    IN  /\ Cardinality(won(trial)) * Cardinality(base) > Cardinality(won(base)) * Cardinality(trial)
        /\ Cardinality(trial) >= MinRuns /\ Cardinality(base) >= MinRuns

\* The health report and the success panel of the dashboard draw the same
\* picture of a skill from the same file: the days add up to the runs of the
\* long window but for those at its very beginning, which are in no day; the
\* arrow never points against the trend, it points where the trend goes if both
\* have the same threshold and the difference is not exactly that, and a skill
\* that did not run lately has no trend (health.js; dashboard.js, bucketByDay,
\* getTrendArrow).
PanelsAgree ==
  \A s \in DOMAIN HealthReport :
    LET records == OfSkill(Read("runs"), s)
        health == HealthReport[s]
        delta == Delta(health.rate7, health.rate30)
        daily == DailyRuns(records)
    IN  /\ SumFunction(daily)
             = health.runs30 - Count(records, LAMBDA r : r.at = now - LongDays * TicksPerDay)
        /\ health.trend = "worsening" => Arrows(delta) \subseteq {"down", "flat"} /\ health.runs7 > 0
        /\ health.trend = "improving" => Arrows(delta) \subseteq {"up", "flat"} /\ health.runs7 > 0
        /\ Threshold = ArrowThreshold /\ delta \notin {-Threshold, Threshold} =>
             Arrows(delta) = {CASE health.trend = "worsening" -> "down"
                                [] health.trend = "improving" -> "up" [] OTHER -> "flat"}

\* The reports that are made of the same runs, each with its own windows, ends
\* and rounding, agree with each other and with the exact numbers.
ReportsAgree == InspectionAgrees /\ PromotionEarned /\ PanelsAgree
=============================================================================
