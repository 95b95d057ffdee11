------------------------------ MODULE SkillRuns ------------------------------
(***************************************************************************)
(* The logs of what skills did, and what is concluded from them            *)
(* (.cursor/scripts/lib/skill-evolution/{tracker,health,dashboard}.js and  *)
(* .cursor/scripts/lib/skill-improvement/).                                *)
(*                                                                         *)
(* Executions and observations are lines appended to a file each. A writer *)
(* that dies in mid-line leaves one without its end, and the next line is  *)
(* glued to it. Readers skip what they cannot parse. Rates are counted in  *)
(* ten-thousandths, the last digit the code keeps, or in thousandths.      *)
(***************************************************************************)
EXTENDS Integers, Sequences, FiniteSets, FiniteSetsExt, SequencesExt, Budget

CONSTANTS Skills,       \* skills that are run
          Roots,        \* [{"curated", "learned", "imported"} -> the skills in its directory]
          Reasons,      \* why executions fail
          Variants,     \* the variants of a skill that are observed
          Amended,      \* those that are amendments of it, one for each amendment id
          TicksPerDay, ShortDays, LongDays,  \* the unit of time; 7 and 30 in the code
          Threshold,    \* of a trend, in ten-thousandths; 1000 unless a caller gives another
          MinRuns       \* observations a variant needs to be compared

VARIABLES lines,     \* [{"runs", "observations"} -> the lines of the file]
          torn,      \* [{"runs", "observations"} -> whether its last line has no end]
          reported,  \* [{"runs", "observations"} -> how many lines were reported as written]
          tears,     \* how many writers died in mid-line
          now        \* the time, in ticks

runVars == <<lines, torn, reported, tears, now, left>>

-----------------------------------------------------------------------------
(* The files (tracker.js, recordSkillExecution; observations.js).          *)

Logs == {"runs", "observations"}
Torn == [kind |-> "torn"]

\* normalizeExecutionRecord: what is not of these forms is refused
Executions == [kind : {"run"}, skill : Skills, outcome : {"success", "partial"}, reason : {"none"}]
              \cup [kind : {"run"}, skill : Skills, outcome : {"failure"}, reason : Reasons]

\* createSkillObservation
Observations == [kind : {"observation"}, skill : Skills, success : BOOLEAN, variant : Variants]

RunsInit ==
  /\ lines = [l \in Logs |-> <<>>]
  /\ torn = [l \in Logs |-> FALSE]
  /\ reported = [l \in Logs |-> 0]
  /\ tears = 0 /\ now = 0
  /\ BudgetInit

\* Mutant: a line that does not parse is glued to the line before it as well.
AppendedTorn(log, line) ==
  IF torn[log] THEN [lines EXCEPT ![log] = Append(Front(Front(@)), Torn)]
  ELSE [lines EXCEPT ![log] = Append(@, line)]

\* a line appended to one without its end makes one that does not parse
Appended(log, line) ==
  IF torn[log] THEN [lines EXCEPT ![log] = Append(Front(@), Torn)]
  ELSE [lines EXCEPT ![log] = Append(@, line)]

Add(log, line) ==
  /\ lines' = Appended(log, line)
  /\ torn' = [torn EXCEPT ![log] = FALSE]
  /\ reported' = [reported EXCEPT ![log] = @ + 1]
  /\ UNCHANGED <<tears, now>>

RecordExecution(run) ==
  /\ Spend("run")
  /\ Add("runs", [kind |-> "run", skill |-> run.skill, outcome |-> run.outcome, reason |-> run.reason, at |-> now])
AppendObservation(obs) == Spend("observe") /\ Add("observations", obs)

\* a writer dies when a part of its line is in the file
Tear(log) ==
  /\ Spend("tear")
  /\ lines' = Appended(log, Torn)
  /\ torn' = [torn EXCEPT ![log] = TRUE]
  /\ tears' = tears + 1
  /\ UNCHANGED <<reported, now>>

Tick ==
  /\ Spend("tick")
  /\ now' = now + 1
  /\ UNCHANGED <<lines, torn, reported, tears>>

RunsNext ==
  \/ \E run \in Executions : RecordExecution(run)
  \/ \E obs \in Observations : AppendObservation(obs)
  \/ \E log \in Logs : Tear(log)
  \/ Tick

\* those of a sequence that pass a test, in their order
Those(seq, Test(_)) ==
  LET places == {i \in DOMAIN seq : Test(seq[i])}
      Nth(k) == CHOOSE i \in places : Cardinality({j \in places : j <= i}) = k
  IN  [k \in 1..Cardinality(places) |-> seq[Nth(k)]]

\* readJsonl, readSkillObservations
Read(log) == Those(lines[log], LAMBDA line : line.kind # "torn")

-----------------------------------------------------------------------------
(* The health of skills (skill-evolution/health.js).                       *)

NoRate == -1
Count(records, Test(_)) == Cardinality({i \in DOMAIN records : Test(records[i])})
Round(part, whole, scale) == (2 * scale * part + whole) \div (2 * whole)

SuccessRate(records) ==
  IF records = <<>> THEN NoRate
  ELSE Round(Count(records, LAMBDA r : r.outcome = "success"), Len(records), 10000)

WithinDays(records, days) ==
  Those(records, LAMBDA r : r.at >= now - days * TicksPerDay /\ r.at <= now)

\* the difference of two rates; a skill without runs has no trend
Delta(short, long) == IF NoRate \in {short, long} THEN 0 ELSE short - long

FailureTrend(delta) ==
  IF delta <= -Threshold THEN "worsening" ELSE IF delta >= Threshold THEN "improving" ELSE "stable"

\* discoverSkills: a skill of several directories counts for the first of them
SkillType(skill) ==
  IF skill \in Roots["curated"] THEN "curated"
  ELSE IF skill \in Roots["learned"] THEN "learned"
  ELSE IF skill \in Roots["imported"] THEN "imported" ELSE "unknown"

OfSkill(records, skill) == Those(records, LAMBDA r : r.skill = skill)
SkillsIn(records) == {records[i].skill : i \in DOMAIN records}

\* collectSkillHealth
SkillHealth(skill) ==
  LET records == OfSkill(Read("runs"), skill)
      short == WithinDays(records, ShortDays)
      long == WithinDays(records, LongDays)
      delta == Delta(SuccessRate(short), SuccessRate(long))
  IN  [type |-> SkillType(skill), rate7 |-> SuccessRate(short), rate30 |-> SuccessRate(long),
       trend |-> FailureTrend(delta), runs7 |-> Len(short), runs30 |-> Len(long),
       last |-> Max({records[i].at : i \in DOMAIN records} \cup {-1})]

HealthReport == [skill \in (UNION {Roots[r] : r \in DOMAIN Roots}) \cup SkillsIn(Read("runs")) |-> SkillHealth(skill)]

-----------------------------------------------------------------------------
(* The dashboard (skill-evolution/dashboard.js).                           *)

\* Mutant: the beginning of a day is in two days.
BucketClosed(records, d) ==
  LET end == now - d * TicksPerDay
  IN  Those(records, LAMBDA r : r.at >= end - TicksPerDay /\ r.at <= end)

\* bucketByDay: day d back from now, its beginning excluded
Bucket(records, d) ==
  LET end == now - d * TicksPerDay
  IN  Those(records, LAMBDA r : r.at > end - TicksPerDay /\ r.at <= end)

DailyRuns(records) == [d \in 0..(LongDays - 1) |-> Len(Bucket(records, d))]

\* the threshold of getTrendArrow, whatever the caller has given as the other
ArrowThreshold == 1000

\* getTrendArrow subtracts the fractions: a difference of exactly the threshold
\* may come out below it
Arrows(delta) ==
  CASE delta > ArrowThreshold -> {"up"}
    [] delta = ArrowThreshold -> {"up", "flat"}
    [] delta = -ArrowThreshold -> {"down", "flat"}
    [] delta < -ArrowThreshold -> {"down"}
    [] OTHER -> {"flat"}

\* renderFailureClusterPanel
Clusters ==
  LET failures == Those(Read("runs"), LAMBDA r : r.outcome = "failure")
  IN  [reason \in {failures[i].reason : i \in DOMAIN failures} |->
         LET of == Those(failures, LAMBDA r : r.reason = reason)
         IN  [count |-> Len(of), skills |-> SkillsIn(of), percentage |-> Round(Len(of), Len(failures), 100)]]

-----------------------------------------------------------------------------
(* Amendments (skill-improvement/health.js, evaluate.js, amendify.js).     *)

Summary(observations) ==
  LET runs == Len(observations)
      successes == Count(observations, LAMBDA o : o.success)
  IN  [runs |-> runs, successes |-> successes, failures |-> runs - successes,
       rate |-> IF runs = 0 THEN 0 ELSE Round(successes, runs, 1000)]

\* buildSkillHealthReport, deriveSkillStatus
ObservedStatus(skill, minFailures) ==
  LET failures == Summary(OfSkill(Read("observations"), skill)).failures
  IN  IF failures >= minFailures THEN "failing" ELSE IF failures > 0 THEN "watch" ELSE "healthy"

\* proposeSkillAmendment
ProposalFor(skill) == IF ObservedStatus(skill, 1) = "failing" THEN "proposed" ELSE "insufficient-evidence"

OfVariants(skill, variants) == Those(OfSkill(Read("observations"), skill), LAMBDA o : o.variant \in variants)

\* one amendment, or all of them when none is named
Trials == {{a} : a \in Amended} \cup {Amended}

\* buildSkillEvaluationScaffold: whatever is not an amendment is the baseline
Recommendation(skill, amendments) ==
  LET base == Summary(OfVariants(skill, Variants \ Amended))
      trial == Summary(OfVariants(skill, amendments))
  IN  IF base.runs < MinRuns \/ trial.runs < MinRuns THEN "insufficient-data"
      ELSE IF trial.rate > base.rate THEN "promote-amendment" ELSE "keep-baseline"
=============================================================================
