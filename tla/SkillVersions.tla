---------------------------- MODULE SkillVersions ----------------------------
(***************************************************************************)
(* Versions of a skill (.cursor/scripts/lib/skill-evolution/versioning.js).*)
(*                                                                         *)
(* A skill is a file SKILL.md. Evolvers copy it to v1.md, v2.md, ... and   *)
(* append what they did to a log; a rollback writes an earlier version     *)
(* over SKILL.md and then takes a new version of that. Users edit the file *)
(* at any time. Nothing is locked. A file that is written is emptied and   *)
(* then filled; an append that is cut off leaves a line without its end,   *)
(* and the next line is glued to it. Readers of the log skip what they     *)
(* cannot parse. The log is there from the start.                          *)
(***************************************************************************)
EXTENDS Integers, Sequences, FiniteSets, FiniteSetsExt, Budget

CONSTANTS Evolvers,      \* processes that take versions and roll back
          Texts,         \* what users write in SKILL.md
          FirstText,     \* what is in it at the start
          FirstVersions  \* [numbers -> text]: versions there are at the start

\* the text of a file that is emptied and not yet filled
Blank == "blank"

ASSUME VersionsAssumption ==
  /\ FirstVersions = [n \in DOMAIN FirstVersions |-> FirstVersions[n]]
  /\ DOMAIN FirstVersions \subseteq Nat \ {0} /\ IsFiniteSet(DOMAIN FirstVersions)

VARIABLES skill,     \* the text of SKILL.md
          versions,  \* [numbers -> text of the version file]
          log,       \* amendments.jsonl
          evolver,   \* [Evolvers -> what it does]
          mixed      \* numbers of versions that two evolvers chose, or whose text was changed
                     \* while they were taken, or that were rolled back to while half written

skillVars == <<skill, versions, log, evolver, mixed, left>>

-----------------------------------------------------------------------------
Resting == [pc |-> "idle"]

\* an evolver that begins: with a rollback to target, from the version that
\* was current and to text, or (target 0) with a version of what is there
Evolving(pc, target, source, text) ==
  [pc |-> pc, target |-> target, source |-> source, text |-> text, version |-> 0, copy |-> FirstText]

\* listVersions is sorted by number; the next is one more than the last
Latest(vs) == IF DOMAIN vs = {} THEN 0 ELSE Max(DOMAIN vs)

NextVersion == Latest(versions) + 1

\* getCurrentVersion: a skill never versioned is at 1
CurrentVersion == IF DOMAIN versions = {} THEN 1 ELSE Latest(versions)

SkillInit ==
  /\ skill = FirstText
  /\ versions = FirstVersions
  /\ log = <<>>
  /\ evolver = [e \in Evolvers |-> Resting]
  /\ mixed = {}
  /\ BudgetInit

\* those that have chosen a number and not yet finished, and what is half written
Taking == {e \in Evolvers : evolver[e].pc \in {"copy", "snapshot", "fill", "log", "rollback"}}
Chosen == {evolver[e].version : e \in Taking}
HalfWritten == {evolver[e].version : e \in {g \in Evolvers : evolver[g].pc = "fill"}}

\* a line of the log that has no end, and one that was glued to such a line
Cut == [event |-> "cut", version |-> 0, target |-> 0, source |-> 0]
Glued == [Cut EXCEPT !.event = "glued"]

\* appendEvolutionRecord
Logged(entry) ==
  log' = IF log # <<>> /\ log[Len(log)].event = "cut"
         THEN [log EXCEPT ![Len(log)] = IF entry = Cut THEN Cut ELSE Glued] ELSE Append(log, entry)

\* createVersion
StartVersion(e) ==
  /\ evolver[e] = Resting /\ Spend("evolve")
  /\ evolver' = [evolver EXCEPT ![e] = Evolving("number", 0, 0, FirstText)]
  /\ UNCHANGED <<skill, versions, log, mixed>>

\* rollbackTo, of a version that exists: its text is read, and written over the skill
StartRollback(e, target) ==
  /\ evolver[e] = Resting /\ Spend("evolve") /\ target \in DOMAIN versions
  /\ evolver' = [evolver EXCEPT ![e] = Evolving("empty", target, CurrentVersion, versions[target])]
  /\ mixed' = mixed \cup ({target} \cap HalfWritten)
  /\ UNCHANGED <<skill, versions, log>>

EmptySkill(e) ==
  /\ evolver[e].pc = "empty"
  /\ skill' = Blank
  /\ evolver' = [evolver EXCEPT ![e].pc = "restore"]
  /\ mixed' = mixed \cup Chosen
  /\ UNCHANGED <<versions, log, left>>

RestoreText(e) ==
  /\ evolver[e].pc = "restore"
  /\ skill' = evolver[e].text
  /\ evolver' = [evolver EXCEPT ![e].pc = "number"]
  /\ mixed' = mixed \cup Chosen
  /\ UNCHANGED <<versions, log, left>>

ChooseNumber(e) ==
  /\ evolver[e].pc = "number"
  /\ evolver' = [evolver EXCEPT ![e].pc = "copy", ![e].version = NextVersion]
  /\ mixed' = mixed \cup ({NextVersion} \cap Chosen)
               \cup (IF evolver[e].target > 0 /\ skill # evolver[e].text THEN {NextVersion} ELSE {})
  /\ UNCHANGED <<skill, versions, log, left>>

\* Mutant: the snapshot is logged before it is written.
ReadSkillLogging(e) ==
  /\ evolver[e].pc = "copy"
  /\ evolver' = [evolver EXCEPT ![e].pc = "snapshot", ![e].copy = skill]
  /\ Logged([event |-> "snapshot", version |-> evolver[e].version, target |-> 0, source |-> 0])
  /\ UNCHANGED <<skill, versions, mixed, left>>

ReadSkill(e) ==
  /\ evolver[e].pc = "copy"
  /\ evolver' = [evolver EXCEPT ![e].pc = "snapshot", ![e].copy = skill]
  /\ UNCHANGED <<skill, versions, log, mixed, left>>

\* version n with the text, beside the others
Snapshot(n, text) == [m \in DOMAIN versions \cup {n} |-> IF m = n THEN text ELSE versions[m]]

OpenSnapshot(e) ==
  /\ evolver[e].pc = "snapshot"
  /\ versions' = Snapshot(evolver[e].version, Blank)
  /\ evolver' = [evolver EXCEPT ![e].pc = "fill"]
  /\ UNCHANGED <<skill, log, mixed, left>>

WriteSnapshot(e) ==
  /\ evolver[e].pc = "fill"
  /\ versions' = Snapshot(evolver[e].version, evolver[e].copy)
  /\ evolver' = [evolver EXCEPT ![e].pc = "log"]
  /\ UNCHANGED <<skill, log, mixed, left>>

\* the reason of the version of a rollback is its target
LogSnapshot(e) ==
  /\ evolver[e].pc = "log"
  /\ Logged([event |-> "snapshot", version |-> evolver[e].version,
             target |-> evolver[e].target, source |-> 0])
  /\ evolver' = [evolver EXCEPT ![e] = IF @.target = 0 THEN Resting ELSE [@ EXCEPT !.pc = "rollback"]]
  /\ UNCHANGED <<skill, versions, mixed, left>>

LogRollback(e) ==
  /\ evolver[e].pc = "rollback"
  /\ Logged([event |-> "rollback", version |-> evolver[e].version,
             target |-> evolver[e].target, source |-> evolver[e].source])
  /\ evolver' = [evolver EXCEPT ![e] = Resting]
  /\ UNCHANGED <<skill, versions, mixed, left>>

\* a proposal for the skill, appended by whoever made it; nothing takes it up
Propose ==
  /\ Spend("propose")
  /\ Logged([event |-> "proposal", version |-> 0, target |-> 0, source |-> 0])
  /\ UNCHANGED <<skill, versions, evolver, mixed>>

EditSkill(text) ==
  /\ text # skill /\ Spend("edit")
  /\ skill' = text
  /\ mixed' = mixed \cup Chosen
  /\ UNCHANGED <<versions, log, evolver>>

\* one that stops while it appends has written a part of its line, or none
StopEvolver(e) ==
  /\ evolver[e] # Resting /\ Spend("stop")
  /\ evolver' = [evolver EXCEPT ![e] = Resting]
  /\ \/ UNCHANGED log
     \/ evolver[e].pc \in {"log", "rollback"} /\ Logged(Cut)
  /\ UNCHANGED <<skill, versions, mixed>>

SkillNext ==
  \/ \E e \in Evolvers : \/ StartVersion(e) \/ \E n \in DOMAIN versions : StartRollback(e, n)
                         \/ EmptySkill(e) \/ RestoreText(e) \/ ChooseNumber(e) \/ ReadSkill(e)
                         \/ OpenSnapshot(e) \/ WriteSnapshot(e)
                         \/ LogSnapshot(e) \/ LogRollback(e) \/ StopEvolver(e)
  \/ Propose \/ \E text \in Texts : EditSkill(text)

SkillSpec == SkillInit /\ [][SkillNext]_skillVars

-----------------------------------------------------------------------------

\* Each record of a snapshot or of a rollback names a version that exists, and
\* no two snapshots name the same but those chosen by two evolvers at a time; a
\* rollback is logged after the version it led to, or after a line that does not
\* parse (versioning.js, appendEvolutionRecord, readJsonl).
LogDescribesVersions ==
  /\ \A i \in DOMAIN log : log[i].event \in {"snapshot", "rollback"} => log[i].version \in DOMAIN versions
  /\ \A i, j \in DOMAIN log : i # j /\ log[i].event = "snapshot" /\ log[j].event = "snapshot"
       => log[i].version # log[j].version \/ log[i].version \in mixed
  /\ \A i \in DOMAIN log : log[i].event = "rollback" =>
       \E j \in 1..(i - 1) : \/ log[j].event = "snapshot" /\ log[j].version = log[i].version
                             \/ log[j].event = "glued"
=============================================================================
