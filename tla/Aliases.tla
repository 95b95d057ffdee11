------------------------------- MODULE Aliases -------------------------------
(***************************************************************************)
(* Names for sessions, and records of inspected sessions                   *)
(* (.cursor/scripts/lib: session-aliases.js, session-manager.js,           *)
(* session-adapters/).                                                     *)
(*                                                                         *)
(* The aliases are one JSON file. A command reads it and saves it again by *)
(* way of a backup and a temporary file; any file operation may fail, and  *)
(* the command may be killed between two of them. One command runs at a    *)
(* time; readers look at the file at any time.                             *)
(*                                                                         *)
(* Inspecting a session finds its file by alias, id or name and adds a     *)
(* snapshot to a recording, without a lock against other inspections.      *)
(***************************************************************************)
EXTENDS Integers, Sequences, FiniteSets, SequencesExt, FiniteSetsExt, TLC

CONSTANTS Names,        \* names a user gives to sessions
          BadNames,     \* those that are empty, too long, reserved or of other characters
          SessionFiles, \* records [dir, date, id, age]: all session files there may be
          Inspectors,   \* processes that inspect sessions
          FirstAliases, \* the aliases at the start
          MaxCommands, MaxInspections,  \* bounds
          MaxFaults     \* bound: operations that fail, processes killed, sessions pruned

\* modification times are numbers, and the files are finitely many
ASSUME NewestExists ==
  \A S \in SUBSET SessionFiles : S # {} => \E f \in S : \A g \in S : f.age <= g.age

Dirs == <<"session-data", "sessions">>  \* the legacy directory comes second

VARIABLES file,      \* ["main", "bak", "temp" -> what is in it]
          windows,   \* whether rename refuses to replace
          cmd,       \* the running command
          existing,  \* the session files
          recording, \* [ids -> recording of the session]
          inspector, \* [Inspectors -> what it does]
          expected,  \* alias maps that a reader may find
          past,      \* whether a command was killed, another begun since, a restore cut
                     \* short, and whether the backup at hand is not of these aliases
          commands, faults, inspections

aliasVars == <<file, windows, cmd, expected, past, commands>>
recordVars == <<recording, inspector, inspections>>
vars == <<aliasVars, existing, recordVars, faults>>

Missing == [kind |-> "missing"]
Torn == [kind |-> "torn"]
Whole(m) == [kind |-> "whole", map |-> m]
NoAliases == <<>>
Idle == [pc |-> "idle"]

-----------------------------------------------------------------------------
(* Finding a session (session-manager.js).                                 *)

\* parseSessionFilename: what tells two files of a directory apart
Filename(f) == <<f.date, f.id>>
NoId == <<>>

Found(dir, Wanted) == {f \in Wanted \cap existing : f.dir = dir}

\* the same name in the legacy directory is passed over, whatever its age
Deduped(Wanted) ==
  Found(Dirs[1], Wanted)
    \cup {f \in Found(Dirs[2], Wanted) : \A g \in Found(Dirs[1], Wanted) : Filename(g) # Filename(f)}

Newest(S) == CHOOSE f \in S : \A g \in S : f.age <= g.age

\* sessionMatchesId: a beginning of the id, the file name, or the date of a file without id
MatchesId(f, v) ==
  \/ v.kind = "id" /\ f.id # NoId /\ IsPrefix(v.id, f.id)
  \/ v.kind = "filename" /\ v.name = Filename(f)
  \/ v.kind = "date" /\ f.id = NoId /\ f.date = v.date

\* getSessionById: at most one, the newest
ById(v) ==
  LET matches == Deduped({f \in SessionFiles : MatchesId(f, v)})
  IN  IF matches = {} THEN {} ELSE {Newest(matches)}

\* getAllSessions, limited to one
Latest == IF Deduped(SessionFiles) = {} THEN {} ELSE {Newest(Deduped(SessionFiles))}

-----------------------------------------------------------------------------
(* Reading the aliases. What cannot be parsed counts as no aliases.        *)

\* loadAliases
Load == IF file["main"].kind = "whole" THEN file["main"].map ELSE NoAliases

Valid(n) == n \in Names \ BadNames

\* resolveAlias
ResolveAlias(n) == IF Valid(n) /\ n \in DOMAIN Load THEN {Load[n].path} ELSE {}

\* cleanupAliases is given a test for existence of what the aliases name
Stale == {n \in DOMAIN Load : \A f \in existing : Filename(f) # Load[n].path.name}

Without(m, S) == [n \in DOMAIN m \ S |-> m[n]]

\* setAlias, deleteAlias, renameAlias, updateAliasTitle, cleanupAliases
Refused(op) ==
  CASE op.do = "set" -> ~Valid(op.name)
    [] op.do \in {"delete", "title"} -> op.name \notin DOMAIN Load
    [] op.do = "rename" -> op.name \notin DOMAIN Load \/ ~Valid(op.to) \/ op.to \in DOMAIN Load
    [] op.do = "cleanup" -> Stale = {}

Changed(op) ==
  CASE op.do = "set" ->
         (op.name :> [path |-> op.path, title |-> "none",
                      created |-> IF op.name \in DOMAIN Load THEN Load[op.name].created ELSE commands]) @@ Load
    [] op.do = "delete" -> Without(Load, {op.name})
    [] op.do = "rename" -> (op.to :> Load[op.name]) @@ Without(Load, {op.name})
    [] op.do = "title" -> [Load EXCEPT ![op.name].title = op.title]
    [] op.do = "cleanup" -> Without(Load, Stale)

Commands ==
  LET name == [kind |-> "filename", name |-> Filename(CHOOSE f \in SessionFiles : TRUE)]
  IN  {[do |-> "set", name |-> n, path |-> name] : n \in Names}
      \cup {[do |-> "delete", name |-> n] : n \in Names}
      \cup {[do |-> "rename", name |-> m, to |-> n] : m, n \in Names}
      \cup {[do |-> "title", name |-> n, title |-> "new"] : n \in Names}
      \cup {[do |-> "cleanup"]}

-----------------------------------------------------------------------------
(* saveAliases, one file operation at a time.                              *)

Put(f, content) == file' = [file EXCEPT ![f] = content]
GoTo(pc) == cmd' = [cmd EXCEPT !.pc = pc]
Exists(f) == file[f] # Missing

Issue(op) ==
  /\ cmd = Idle /\ commands < MaxCommands /\ ~Refused(op)
  /\ commands' = commands + 1
  /\ cmd' = [pc |-> "backup", do |-> op.do, old |-> Load, new |-> Changed(op),
             saving |-> Changed(op), again |-> FALSE, faults |-> 0]
  /\ expected' = {Load, Changed(op)}
  /\ past' = [past EXCEPT !.reused = past.killed \/ past.cut,
                          !.leftover = Exists("bak") /\ file["bak"] # file["main"]]
  /\ UNCHANGED <<file, windows, existing, recordVars, faults>>

\* the steps in order; a copy and a write first empty the file, then fill it
After(pc) ==
  CASE pc = "backup" -> IF Exists("main") THEN "fill backup" ELSE "write"
    [] pc = "fill backup" -> "write"
    [] pc = "write" -> "fill"
    [] pc = "fill" -> IF windows /\ Exists("main") THEN "unlink" ELSE "rename"
    [] pc = "unlink" -> "rename"
    [] pc = "rename" -> "clean"

\* Mutant: the aliases are written in place.
EffectInPlace(pc) ==
  CASE pc = "backup" -> IF Exists("main") THEN Put("bak", Torn) ELSE UNCHANGED file
    [] pc = "fill backup" -> Put("bak", file["main"])
    [] pc = "write" -> Put("main", Torn)
    [] pc = "fill" -> Put("main", Whole(cmd.saving))
    [] pc \in {"unlink", "rename"} -> UNCHANGED file

Effect(pc) ==
  CASE pc = "backup" -> IF Exists("main") THEN Put("bak", Torn) ELSE UNCHANGED file
    [] pc = "fill backup" -> Put("bak", file["main"])
    [] pc = "write" -> Put("temp", Torn)
    [] pc = "fill" -> Put("temp", Whole(cmd.saving))
    [] pc = "unlink" -> Put("main", Missing)
    [] pc = "rename" -> file' = [file EXCEPT !["main"] = file["temp"], !["temp"] = Missing]

Saving == {"backup", "fill backup", "write", "fill", "unlink", "rename"}

SaveStep ==
  /\ cmd.pc \in Saving
  /\ Effect(cmd.pc)
  /\ GoTo(After(cmd.pc))
  /\ UNCHANGED <<windows, expected, past, commands, existing, recordVars, faults>>

\* a command whose first save failed reports failure even if the second succeeds
Saved ==
  /\ cmd.pc = "clean"
  /\ Put("bak", Missing)
  /\ cmd' = Idle
  /\ expected' = {cmd.saving}
  /\ UNCHANGED <<windows, past, commands, existing, recordVars, faults>>

\* a copy that fails after it has emptied its target removes the target
SaveFails ==
  /\ cmd.pc \in Saving \cup {"clean"}
  /\ faults < MaxFaults /\ faults' = faults + 1
  /\ IF cmd.pc = "fill backup" THEN Put("bak", Missing) ELSE UNCHANGED file
  /\ cmd' = [cmd EXCEPT !.pc = "restore", !.faults = @ + 1]
  /\ UNCHANGED <<windows, expected, past, commands, existing, recordVars>>

\* Mutant: a failed save leaves the aliases as they are.
RestoreNothing ==
  /\ cmd.pc = "restore"
  /\ UNCHANGED file /\ GoTo("tidy")
  /\ UNCHANGED <<windows, expected, past, commands, existing, recordVars, faults>>

Restore ==
  /\ cmd.pc = "restore"
  /\ IF Exists("bak") THEN Put("main", Torn) /\ GoTo("fill main")
     ELSE UNCHANGED file /\ GoTo("tidy")
  /\ UNCHANGED <<windows, expected, past, commands, existing, recordVars, faults>>

Restored ==
  /\ cmd.pc = "fill main"
  /\ Put("main", file["bak"])
  /\ GoTo("tidy")
  /\ UNCHANGED <<windows, expected, past, commands, existing, recordVars, faults>>

RestoreFails ==
  /\ cmd.pc \in {"restore", "fill main"} /\ Exists("bak")
  /\ faults < MaxFaults /\ faults' = faults + 1
  /\ IF cmd.pc = "fill main" THEN Put("main", Missing) ELSE UNCHANGED file
  /\ past' = [past EXCEPT !.cut = TRUE]
  /\ cmd' = [cmd EXCEPT !.pc = "tidy", !.faults = @ + 1]
  /\ UNCHANGED <<windows, expected, commands, existing, recordVars>>

\* the save has failed; renameAlias undoes its change and saves once more
Tidy ==
  /\ cmd.pc = "tidy"
  /\ file' \in {[file EXCEPT !["temp"] = Missing], file}
  /\ cmd' = IF cmd.do = "rename" /\ ~cmd.again
            THEN [cmd EXCEPT !.pc = "backup", !.saving = cmd.old, !.again = TRUE] ELSE Idle
  /\ UNCHANGED <<windows, expected, past, commands, existing, recordVars, faults>>

KillCommand ==
  /\ cmd # Idle
  /\ faults < MaxFaults /\ faults' = faults + 1
  /\ cmd' = Idle
  /\ past' = [past EXCEPT !.killed = TRUE, !.cut = @ \/ cmd.pc = "fill main"]
  /\ UNCHANGED <<file, windows, expected, commands, existing, recordVars>>

-----------------------------------------------------------------------------
(* Inspecting a session: claude-history.js, registry.js and the recording   *)
(* of canonical-session.js.                                                 *)

\* hydrateSessionFromPath: an alias names a file, and no file of that name is
\* in the working directory unless it is given with its path
ByPath(path) == IF path.kind = "path" THEN {path.file} \cap existing ELSE {}

\* resolveSessionRecord: an alias comes before an id; the empty set is an error
Resolve(t) ==
  CASE t.kind = "latest" -> Latest
    [] t.kind = "path" -> ByPath(t)
    [] t.kind = "alias" -> IF ResolveAlias(t.name) # {} THEN ByPath(CHOOSE p \in ResolveAlias(t.name) : TRUE) ELSE {}
    [] t.kind \in {"id", "filename", "date"} -> ById(t)

Targets ==
  {[kind |-> "latest"]} \cup {[kind |-> "alias", name |-> n] : n \in Names}
    \cup {[kind |-> "path", file |-> f] : f \in SessionFiles}
    \cup {[kind |-> "id", id |-> f.id] : f \in {g \in SessionFiles : g.id # NoId}}
    \cup {[kind |-> "date", date |-> f.date] : f \in SessionFiles}

\* deriveClaudeWorkerId
RecordId(f) == IF f.id = NoId THEN Filename(f) ELSE f.id
Ids == {RecordId(f) : f \in SessionFiles}

\* Mutant: every inspection is added, also that of an unchanged session.
OpenSessionAppends(p, t) ==
  /\ inspector[p] = Idle /\ inspections < MaxInspections
  /\ inspections' = inspections + 1
  /\ \E f \in Resolve(t) :
       LET id == RecordId(f)
           old == IF recording[id].kind = "whole" THEN recording[id].history ELSE <<>>
       IN  inspector' = [inspector EXCEPT ![p] =
             [pc |-> "write", id |-> id, payload |-> [kind |-> "whole", latest |-> f, history |-> Append(old, f)]]]
  /\ UNCHANGED <<aliasVars, existing, recording, faults>>

\* readExistingRecording: torn or missing, there is none
OpenSession(p, t) ==
  /\ inspector[p] = Idle /\ inspections < MaxInspections
  /\ inspections' = inspections + 1
  /\ \E f \in Resolve(t) :
       LET id == RecordId(f)
           old == IF recording[id].kind = "whole" THEN recording[id].history ELSE <<>>
           history == IF old # <<>> /\ recording[id].latest = f THEN old ELSE Append(old, f)
       IN  inspector' = [inspector EXCEPT ![p] =
             [pc |-> "write", id |-> id, payload |-> [kind |-> "whole", latest |-> f, history |-> history]]]
  /\ UNCHANGED <<aliasVars, existing, recording, faults>>

EmptyRecording(p) ==
  /\ inspector[p].pc = "write"
  /\ recording' = [recording EXCEPT ![inspector[p].id] = Torn]
  /\ inspector' = [inspector EXCEPT ![p].pc = "fill"]
  /\ UNCHANGED <<aliasVars, existing, inspections, faults>>

FillRecording(p) ==
  /\ inspector[p].pc = "fill"
  /\ recording' = [recording EXCEPT ![inspector[p].id] = inspector[p].payload]
  /\ inspector' = [inspector EXCEPT ![p] = Idle]
  /\ UNCHANGED <<aliasVars, existing, inspections, faults>>

KillInspector(p) ==
  /\ inspector[p] # Idle
  /\ faults < MaxFaults /\ faults' = faults + 1
  /\ inspector' = [inspector EXCEPT ![p] = Idle]
  /\ UNCHANGED <<aliasVars, existing, recording, inspections>>

\* an old session is pruned (session-start.js)
SessionPruned ==
  /\ faults < MaxFaults /\ faults' = faults + 1
  /\ \E f \in existing : existing' = existing \ {f}
  /\ UNCHANGED <<aliasVars, recordVars>>

-----------------------------------------------------------------------------
Init ==
  /\ file = [f \in {"main", "bak", "temp"} |-> IF f = "main" THEN Whole(FirstAliases) ELSE Missing]
  /\ windows \in BOOLEAN
  /\ cmd = Idle
  /\ existing = SessionFiles
  /\ recording = [i \in Ids |-> Missing]
  /\ inspector = [p \in Inspectors |-> Idle]
  /\ expected = {FirstAliases}
  /\ past = [killed |-> FALSE, reused |-> FALSE, cut |-> FALSE, leftover |-> FALSE]
  /\ commands = 0 /\ faults = 0 /\ inspections = 0

CommandStep == SaveStep \/ Saved \/ Restore \/ Restored \/ Tidy

Next ==
  \/ \E op \in Commands : Issue(op)
  \/ CommandStep \/ SaveFails \/ RestoreFails \/ KillCommand
  \/ \E p \in Inspectors, t \in Targets : OpenSession(p, t)
  \/ \E p \in Inspectors : EmptyRecording(p) \/ FillRecording(p) \/ KillInspector(p)
  \/ SessionPruned

Spec == Init /\ [][Next]_vars

-----------------------------------------------------------------------------
(* Properties.                                                             *)

\* Wherever a rename replaces its target, a reader finds the aliases as they
\* were before or as they are after the command, at every moment of it and
\* through failures and kills (saveAliases), unless a restore was cut short, the
\* only time the file itself is written in place, or restored a backup that an
\* earlier command left behind, as it was killed before it removed it.
ReadersFindAliases ==
  ~windows /\ ~past.cut /\ ~past.leftover /\ cmd.pc # "fill main" => Load \in expected

\* Whatever happens to a command, on any platform, some file holds the aliases
\* before or after it; until the next command, which may overwrite the last one.
CopyRemains ==
  ~past.reused => \E f \in DOMAIN file : file[f].kind = "whole" /\ file[f].map \in expected

\* At every moment the aliases are found where readers look for them, or at least
\* in one of the three files (session-aliases.js, saveAliases).
AliasesSafe == ReadersFindAliases /\ CopyRemains

\* A command that no killed or half restored one went before tells the truth:
\* after one that succeeded the change is in place, and after one that failed at
\* a single file operation it is not, a rename whose second save worked included.
ReportTrue ==
  [][cmd.pc \in {"clean", "tidy"} /\ cmd' = Idle /\ past' = past /\ ~past.reused =>
       \/ cmd.faults = 0 /\ Load' = cmd.new
       \/ cmd.faults = 1 /\ Load' = cmd.old
       \/ cmd.faults > 1]_vars

\* However inspections of one session interleave or are killed, a readable
\* recording ends with its latest snapshot and repeats none.
HistoryConsistent ==
  \A i \in Ids : recording[i].kind = "whole" =>
    LET h == recording[i].history
    IN  /\ h[Len(h)] = recording[i].latest
        /\ \A k \in 2..Len(h) : h[k] # h[k - 1]
        /\ \A k \in DOMAIN h : RecordId(h[k]) = i
=============================================================================
