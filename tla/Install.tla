------------------------------- MODULE Install -------------------------------
(***************************************************************************)
(* Installing, repairing and uninstalling managed files                    *)
(* (.cursor/scripts/lib: install/apply.js, install-lifecycle.js,           *)
(* install-state.js, mcp-config.js).                                       *)
(*                                                                         *)
(* A command works on one target directory. What it has installed is       *)
(* recorded in a file of its own, written after the last operation and     *)
(* deleted after the last removal. Every write is a step, so that the user *)
(* edits files, the source repository is updated, and the command fails or *)
(* is killed between any two of them.                                      *)
(*                                                                         *)
(* The content of a file is a function from leaves to values: the leaves   *)
(* of a JSON document, or the only leaf "text" of any other file.          *)
(***************************************************************************)
EXTENDS Integers, Sequences, FiniteSets, SequencesExt

CONSTANTS Target,     \* the install target, e.g. "claude"
          Dests,      \* destinations of operations
          Requests,   \* requests a user makes
          LastVersion,\* versions of the source repository are 1..LastVersion
          Source,     \* [versions -> [Dests -> content or Absent]]: the file copied there
          Plans,      \* [versions -> [Requests -> [modules, dests]]], see InstallPlan
          ManifestVersion, \* [versions -> Nat], 0 when the manifest has none
          HookEntries,\* [versions -> Seq(entry)]: the entries of hooks.json
          UserEntries,\* entries a user may add to the settings
          Disabled,   \* MCP servers switched off by ECC_DISABLED_MCPS
          FirstRecord,\* the install-state found at the start
          FirstDisk,  \* and the files found with it
          MaxEdits    \* bound: changes made by the user

HooksPath == "hooks"
McpPath == "mcp"
SettingsPath == "settings" \* where the hooks are registered; no operation copies it
NoId == "no id"

Absent == [absent |-> TRUE]
NoRecord == [kind |-> "none"]

IsSeq(s) == s \in Seq(ToSet(s))
IsJson(c) == "text" \notin DOMAIN c
IsFile(c) == c = Absent \/ "absent" \notin DOMAIN c

\* hooks.json, when it parses, is that of some version
IsHooks(c) == c # Absent /\ IsJson(c) => "version" \in DOMAIN c /\ c.version \in 1..LastVersion

\* An operation as the installer records it; only copies write hooks.json, and
\* no payload has the key of the user.
IsOperation(op) ==
  /\ op.kind \in {"copy-file", "render-template", "merge-json", "remove"} /\ op.dest \in Dests
  /\ op.kind # "copy-file" => op.dest # HooksPath /\ IsFile(op.previous)
  /\ op.kind \in {"render-template", "merge-json"} => op.content # Absent /\ IsFile(op.content)
  /\ op.kind = "merge-json" => IsJson(op.content) /\ "own" \notin DOMAIN op.content

\* A record names no destination twice.
IsRecord(s) ==
  /\ DOMAIN s = {"kind", "request", "legacy", "modules", "ops", "manifestVersion"}
  /\ s.kind = "record" /\ s.request \in Requests /\ s.legacy \in BOOLEAN
  /\ IsSeq(s.ops) /\ \A i \in DOMAIN s.ops : IsOperation(s.ops[i])
  /\ \A i, j \in DOMAIN s.ops : s.ops[i].dest = s.ops[j].dest => i = j

\* A plan has a destination of its own for every file (InstallPlan: PlanExact,
\* and the layouts for which that fails); a target without a record has no hooks
\* that parse.
ASSUME InstallAssumption ==
  /\ LastVersion \in Nat \ {0} /\ HooksPath \in Dests /\ SettingsPath \notin Dests
  /\ \A v \in 1..LastVersion :
       /\ \A d \in Dests : IsFile(Source[v][d])
       /\ Source[v][HooksPath] # Absent /\ IsJson(Source[v][HooksPath]) =>
            "version" \in DOMAIN Source[v][HooksPath] /\ Source[v][HooksPath].version = v
       /\ IsSeq(HookEntries[v])
       /\ \A r \in Requests :
            /\ Plans[v][r].dests \in Seq(Dests)
            /\ \A i, j \in DOMAIN Plans[v][r].dests : Plans[v][r].dests[i] = Plans[v][r].dests[j] => i = j
  /\ \A i \in DOMAIN FirstRecord :
       /\ FirstRecord[i] = NoRecord \/ IsRecord(FirstRecord[i])
       /\ FirstDisk[i] = [d \in Dests |-> FirstDisk[i][d]] /\ \A d \in Dests : IsFile(FirstDisk[i][d])
       /\ IsHooks(FirstDisk[i][HooksPath])
       /\ FirstRecord[i] = NoRecord => FirstDisk[i][HooksPath] = Absent \/ ~IsJson(FirstDisk[i][HooksPath])

VARIABLES version,  \* of the source repository
          disk,     \* [Dests -> content or Absent]
          settings, \* hook entries of settings.json
          record,   \* the install-state file
          cmd,      \* the running command and what it has still to do
          outcome,  \* of the last command that ended
          calm,     \* nobody has interfered since the last command started
          placed,   \* files the installer has put there or has changed
          planned,  \* the version and request of all plans so far, NoPlan or Several
          edits

vars == <<version, disk, settings, record, cmd, outcome, calm, placed, planned, edits>>
user == <<version, edits>>
ghosts == <<placed, planned>>

Corrupt == [kind |-> "corrupt"]
Idle == [op |-> "idle"]
NoPlan == <<>>
Several == <<"several">>

Exists(d) == disk[d] # Absent

\* the members of seq at some places, in their order
Those(seq, places) ==
  LET Nth(k) == CHOOSE i \in places : Cardinality({j \in places : j <= i}) = k
  IN  [k \in 1..Cardinality(places) |-> seq[Nth(k)]]

WithoutLeaves(c, leaves) == [l \in DOMAIN c \ leaves |-> c[l]]

\* Mutant: the payload replaces the document instead of being merged into it.
MergeReplaces(c, payload) == payload

\* deepMergeJson, jsonContainsSubset, deepRemoveJsonSubset, leaf by leaf
Merge(c, payload) ==
  [l \in DOMAIN c \cup DOMAIN payload |-> IF l \in DOMAIN payload THEN payload[l] ELSE c[l]]
HasSubset(c, payload) == \A l \in DOMAIN payload : l \in DOMAIN c /\ c[l] = payload[l]
RemoveSubset(c, payload) ==
  WithoutLeaves(c, {l \in DOMAIN c : l \in DOMAIN payload /\ c[l] = payload[l]})

-----------------------------------------------------------------------------
(* Hooks and MCP servers.                                                  *)

\* replacePluginRootPlaceholders
Resolve(c) == IF "root" \in DOMAIN c THEN [c EXCEPT !.root = "resolved"] ELSE c

\* getHookEntryAliases
Aliases(e) ==
  (IF e.id = NoId THEN {} ELSE {<<"id", e.id>>}) \cup {<<"legacy", e.sig>>, <<"json", e>>}
Same(e, f) == Aliases(e) \cap Aliases(f) # {}

\* Mutant: the incoming entries are appended without a comparison.
MergeHookEntriesAppends(existing, incoming) == existing \o incoming

\* the places of the entries that share no alias with one kept before them
Kept(entries) ==
  CHOOSE K \in SUBSET DOMAIN entries :
    \A i \in DOMAIN entries : i \in K <=> \A j \in K : j < i => ~Same(entries[j], entries[i])

MergeHookEntries(existing, incoming) ==
  LET all == existing \o incoming IN Those(all, Kept(all))

\* the hooks config of the plan, or else the one an earlier install has left
HooksConfig(dests) == IF HooksPath \in ToSet(dests) THEN Source[version][HooksPath] ELSE disk[HooksPath]

ReadableHooks(dests) == Target = "claude" => IsJson(HooksConfig(dests))

\* buildMergedSettings: for the claude target, read before the first copy
SettingsSteps(dests) ==
  LET config == HooksConfig(dests)
  IN  IF Target # "claude" \/ config = Absent THEN <<>>
      ELSE <<[do |-> "put", dest |-> HooksPath, content |-> Resolve(config)],
             [do |-> "settings", entries |-> MergeHookEntries(settings, HookEntries[config.version])]>>

\* buildFilteredMcpWrites, filterMcpConfig
McpSteps(dests) ==
  IF McpPath \notin ToSet(dests) \/ DOMAIN Source[version][McpPath] \cap Disabled = {} THEN <<>>
  ELSE <<[do |-> "put", dest |-> McpPath,
          content |-> WithoutLeaves(Source[version][McpPath], Disabled)]>>

-----------------------------------------------------------------------------
(* The recorded state and its health.                                      *)

CopyOp(d) == [kind |-> "copy-file", dest |-> d]

\* materializeScaffoldOperation: operations exist for the files that do
PlannedOf(v, r) ==
  LET dests == Plans[v][r].dests
  IN  Those(dests, {i \in DOMAIN dests : Source[v][dests[i]] # Absent})
Planned(r) == PlannedOf(version, r)
CopyOps(dests) == [i \in DOMAIN dests |-> CopyOp(dests[i])]

\* Mutant: only the files that an install has to create are recorded.
StatePreviewOfNewFiles(r) ==
  [kind |-> "record", request |-> r, legacy |-> FALSE, modules |-> Plans[version][r].modules,
   ops |-> CopyOps(Those(Planned(r), {i \in DOMAIN Planned(r) : ~Exists(Planned(r)[i])})),
   manifestVersion |-> IF ManifestVersion[version] = 0 THEN 1 ELSE ManifestVersion[version]]

\* createInstallState
StatePreview(r) ==
  [kind |-> "record", request |-> r, legacy |-> FALSE, modules |-> Plans[version][r].modules,
   ops |-> CopyOps(Planned(r)),
   manifestVersion |-> IF ManifestVersion[version] = 0 THEN 1 ELSE ManifestVersion[version]]

\* assertValidInstallState, as far as a state can fail it
ValidState(s) == s.kind = "record" /\ s.manifestVersion >= 1

HasSource(op) == Source[version][op.dest] # Absent

\* inspectManagedOperation
Inspect(op) ==
  LET c == disk[op.dest]
  IN  CASE op.kind = "remove" -> IF Exists(op.dest) THEN "drifted" ELSE "ok"
        [] op.kind # "remove" /\ ~Exists(op.dest) -> "missing"
        [] op.kind = "copy-file" /\ Exists(op.dest) ->
             IF ~HasSource(op) THEN "missing-source"
             ELSE IF c = Source[version][op.dest] THEN "ok" ELSE "drifted"
        [] op.kind = "render-template" /\ Exists(op.dest) -> IF c = op.content THEN "ok" ELSE "drifted"
        [] op.kind = "merge-json" /\ Exists(op.dest) ->
             IF IsJson(c) /\ HasSubset(c, op.content) THEN "ok" ELSE "drifted"

\* summarizeManagedOperationHealth
With(ops, status) == Those(ops, {i \in DOMAIN ops : Inspect(ops[i]) = status})

\* analyzeRecord: the codes of the issues the doctor reports of a record
Diagnosis ==
  IF record.kind = "corrupt" THEN {"invalid-install-state"}
  ELSE IF record.kind = "none" THEN {}
  ELSE {code \in {"missing", "drifted", "missing-source"} : With(record.ops, code) # <<>>}
       \cup (IF record.manifestVersion # ManifestVersion[version] THEN {"manifest-version-mismatch"} ELSE {})
       \cup (IF ~record.legacy /\ record.modules # Plans[version][record.request].modules
             THEN {"resolution-drift"} ELSE {})

-----------------------------------------------------------------------------
(* Commands.                                                               *)

AlsoPlanned(r) == IF planned \in {NoPlan, <<version, r>>} THEN <<version, r>> ELSE Several

Start(op, todo) ==
  /\ cmd' = [op |-> op, todo |-> todo]
  /\ outcome' = "none" /\ calm' = TRUE

Refuse ==
  /\ outcome' = "error" /\ calm' = TRUE
  /\ UNCHANGED <<user, disk, settings, record, cmd, ghosts>>

\* createManifestInstallPlan and applyInstallPlan
StartInstall(r) ==
  /\ cmd = Idle
  /\ ReadableHooks(Planned(r))
  /\ LET dests == Planned(r)
     IN  Start("install", [i \in DOMAIN dests |-> [do |-> "copy", dest |-> dests[i]]]
                            \o SettingsSteps(dests) \o McpSteps(dests)
                            \o <<[do |-> "record", state |-> StatePreview(r)]>>)
  /\ planned' = AlsoPlanned(r)
  /\ UNCHANGED <<user, disk, settings, record, placed>>

\* readJsonObject throws before anything is copied
RefuseInstall(r) ==
  /\ cmd = Idle
  /\ ~ReadableHooks(Planned(r))
  /\ Refuse

\* shouldRepairFromRecordedOperations
FromRecord == record.legacy \/ \E i \in DOMAIN record.ops : record.ops[i].kind # "copy-file"

\* createRepairPlanFromRecord: from the record itself or from the manifest of today
Desired ==
  IF FromRecord
  THEN [record EXCEPT !.manifestVersion = ManifestVersion[version]]
  ELSE StatePreview(record.request)

\* Mutant: a repair restores what is missing and forgets what has drifted.
RepairsMissing(state) ==
  LET ops == With(state.ops, "missing")
  IN  [i \in DOMAIN ops |-> [do |-> "repair", operation |-> ops[i]]]

Repairs(state) ==
  LET ops == With(state.ops, "missing") \o With(state.ops, "drifted")
  IN  [i \in DOMAIN ops |-> [do |-> "repair", operation |-> ops[i]]]

StartRepair ==
  /\ cmd = Idle /\ record.kind = "record"
  /\ With(Desired.ops, "missing-source") = <<>>
  /\ Start("repair", Repairs(Desired) \o <<[do |-> "record", state |-> Desired]>>)
  /\ planned' = IF FromRecord THEN planned ELSE AlsoPlanned(record.request)
  /\ UNCHANGED <<user, disk, settings, record, placed>>

RefuseRepair ==
  /\ cmd = Idle
  /\ \/ record.kind = "corrupt"
     \/ record.kind = "record" /\ With(Desired.ops, "missing-source") # <<>>
  /\ Refuse

StartUninstall ==
  /\ cmd = Idle /\ record.kind = "record"
  /\ Start("uninstall", [i \in DOMAIN record.ops |-> [do |-> "undo", operation |-> record.ops[i]]]
                          \o <<[do |-> "forget"]>>)
  /\ UNCHANGED <<user, disk, settings, record, ghosts>>

RefuseUninstall ==
  /\ cmd = Idle /\ record.kind = "corrupt"
  /\ Refuse

-----------------------------------------------------------------------------
(* Steps of a command.                                                     *)

Result(op) == CASE op = "install" -> "installed" [] op = "repair" -> "repaired" [] op = "uninstall" -> "uninstalled"

Doing(what) == cmd # Idle /\ Head(cmd.todo).do = what
Step == Head(cmd.todo)

Proceed ==
  /\ cmd' = IF Len(cmd.todo) = 1 THEN Idle ELSE [cmd EXCEPT !.todo = Tail(@)]
  /\ outcome' = IF Len(cmd.todo) = 1 THEN Result(cmd.op) ELSE outcome
  /\ UNCHANGED <<user, calm, planned>>

Write(d, c) ==
  /\ disk' = [disk EXCEPT ![d] = c]
  /\ placed' = IF c = Absent THEN placed \ {d} ELSE placed \cup {d}

\* a step that throws: the source is gone, a document does not parse, a write
\* is denied; or the process is killed
Abandon ==
  /\ cmd # Idle
  /\ cmd' = Idle /\ outcome' = "error"
  /\ record' \in {record} \cup (IF Step.do = "record" THEN {Corrupt} ELSE {})
  /\ UNCHANGED <<user, disk, settings, calm, ghosts>>

CopyFile ==
  /\ Doing("copy")
  /\ Source[version][Step.dest] # Absent
  /\ Write(Step.dest, Source[version][Step.dest])
  /\ UNCHANGED <<settings, record>>
  /\ Proceed

WriteFile ==
  /\ Doing("put")
  /\ Write(Step.dest, Step.content)
  /\ UNCHANGED <<settings, record>>
  /\ Proceed

WriteSettings ==
  /\ Doing("settings")
  /\ settings' = Step.entries
  /\ placed' = placed \cup {SettingsPath}
  /\ UNCHANGED <<disk, record>>
  /\ Proceed

\* writeInstallState: throws when the state is not valid
WriteRecord ==
  /\ Doing("record")
  /\ ValidState(Step.state)
  /\ record' = Step.state
  /\ UNCHANGED <<disk, settings, placed>>
  /\ Proceed

Repaired(op) ==
  CASE op.kind = "copy-file" -> Source[version][op.dest]
    [] op.kind = "render-template" -> op.content
    [] op.kind = "merge-json" -> IF Exists(op.dest) THEN Merge(disk[op.dest], op.content) ELSE op.content
    [] op.kind = "remove" -> Absent

\* executeRepairOperation
RepairOperation ==
  /\ Doing("repair")
  /\ LET op == Step.operation
     IN  /\ op.kind = "copy-file" => HasSource(op)
         /\ op.kind = "merge-json" => ~Exists(op.dest) \/ IsJson(disk[op.dest])
         /\ Write(op.dest, Repaired(op))
  /\ UNCHANGED <<settings, record>>
  /\ Proceed

Undone(op) ==
  CASE op.kind = "copy-file" -> Absent
    [] op.kind # "copy-file" /\ op.previous # Absent -> op.previous
    [] op.kind = "render-template" /\ op.previous = Absent -> Absent
    [] op.kind = "remove" /\ op.previous = Absent -> disk[op.dest]
    [] op.kind = "merge-json" /\ op.previous = Absent ->
         IF ~Exists(op.dest) \/ DOMAIN RemoveSubset(disk[op.dest], op.content) = {}
         THEN Absent ELSE RemoveSubset(disk[op.dest], op.content)

\* executeUninstallOperation
UndoOperation ==
  /\ Doing("undo")
  /\ LET op == Step.operation
     IN  /\ op.kind = "merge-json" => op.previous # Absent \/ ~Exists(op.dest) \/ IsJson(disk[op.dest])
         /\ disk' = [disk EXCEPT ![op.dest] = Undone(op)]
         /\ placed' = placed \ {op.dest}
  /\ UNCHANGED <<settings, record>>
  /\ Proceed

RemoveRecord ==
  /\ Doing("forget")
  /\ record' = NoRecord
  /\ UNCHANGED <<disk, settings, placed>>
  /\ Proceed

-----------------------------------------------------------------------------
(* The user and the source repository.                                     *)

Interfere == calm' = FALSE /\ UNCHANGED <<record, cmd, outcome, planned>>

WithOwnKey(c) == [l \in DOMAIN c \cup {"own"} |-> IF l = "own" THEN "user" ELSE c[l]]

UserWrites(d) ==
  /\ edits < MaxEdits /\ edits' = edits + 1
  /\ \E c \in {Absent, [text |-> "user"]} \cup
              (IF Exists(d) /\ IsJson(disk[d]) THEN {WithOwnKey(disk[d])} ELSE {}) :
       /\ disk' = [disk EXCEPT ![d] = c]
       /\ placed' = IF c = Absent THEN placed \ {d} ELSE placed
  /\ Interfere
  /\ UNCHANGED <<version, settings>>

UserAddsHook(e) ==
  /\ edits < MaxEdits /\ edits' = edits + 1
  /\ \A i \in DOMAIN settings : ~Same(settings[i], e)
  /\ settings' = Append(settings, e)
  /\ Interfere
  /\ UNCHANGED <<version, disk, placed>>

UpdateRepo ==
  /\ version < LastVersion
  /\ version' = version + 1
  /\ Interfere
  /\ UNCHANGED <<disk, settings, placed, edits>>

-----------------------------------------------------------------------------
Init ==
  /\ version = 1
  /\ \E i \in DOMAIN FirstRecord : record = FirstRecord[i] /\ disk = FirstDisk[i]
  /\ settings = <<>>
  /\ cmd = Idle /\ outcome = "none" /\ calm = TRUE
  /\ placed = {} /\ edits = 0
  /\ planned = IF record = NoRecord THEN NoPlan ELSE <<0, record.request>>

CommandStep ==
  \/ CopyFile \/ WriteFile \/ WriteSettings \/ WriteRecord
  \/ RepairOperation \/ UndoOperation \/ RemoveRecord

Next ==
  \/ \E r \in Requests : StartInstall(r) \/ RefuseInstall(r)
  \/ StartRepair \/ RefuseRepair \/ StartUninstall \/ RefuseUninstall
  \/ CommandStep \/ Abandon
  \/ \E d \in Dests : UserWrites(d)
  \/ \E e \in UserEntries : UserAddsHook(e)
  \/ UpdateRepo

Spec == Init /\ [][Next]_vars

-----------------------------------------------------------------------------
(* Properties.                                                             *)

Ended(how) == cmd = Idle /\ outcome = how /\ calm

\* A repair that nobody disturbs cures what the doctor would find: afterwards no
\* recorded file is missing or differs, whatever the user had done to the files
\* and however the source repository had changed; and, but for a repair from the
\* record itself, which keeps the modules in it, the resolution is today's
\* (repairInstalledStates against analyzeRecord).
RepairHeals ==
  Ended("repaired") => /\ Diagnosis \cap {"missing", "drifted", "missing-source"} = {}
                       /\ "resolution-drift" \in Diagnosis => FromRecord

\* After an undisturbed install the doctor finds drift only in files that the
\* installer has itself rewritten after copying them: hooks.json with its
\* placeholders replaced, mcp.json without the disabled servers.
OnlyRewrittenFilesDrift ==
  Ended("installed") =>
    \A i \in DOMAIN record.ops :
      \/ Inspect(record.ops[i]) = "ok"
      \/ record.ops[i].dest \in {HooksPath, McpPath} /\ Inspect(record.ops[i]) = "drifted"

\* The doctor agrees with the commands: it finds nothing to mend after a repair and
\* after an install only what the installer rewrites (buildDoctorReport).
DoctorAgrees == RepairHeals /\ OnlyRewrittenFilesDrift

\* Every hook of a version is there, or one that shares an id, a signature or the text.
Represented(v, entries) ==
  \A i \in DOMAIN HookEntries[v] : \E j \in DOMAIN entries : Same(entries[j], HookEntries[v][i])

\* As long as one request was made of one version of the repository, an
\* undisturbed uninstall leaves no file of the installer behind but settings.json,
\* through any number of failed, killed and repeated commands before it; and what
\* the installer has merged into that file stays: every hook of that version is
\* still registered when hooks.json itself is gone. (A narrower request or a
\* version without some file makes the record forget files.)
UninstallLeavesSettings ==
  Ended("uninstalled") /\ planned # Several =>
    /\ placed \subseteq {SettingsPath}
    /\ SettingsPath \in placed => Represented(planned[1], settings)

\* However often hooks are merged into settings.json, no two entries share an
\* id, a command signature or their text, and an undisturbed install for claude
\* leaves every entry of hooks.json represented.
HooksRegisteredOnce ==
  /\ \A i, j \in DOMAIN settings : Same(settings[i], settings[j]) => i = j
  /\ Target = "claude" /\ Ended("installed") /\ HooksPath \in {record.ops[i].dest : i \in DOMAIN record.ops} =>
       Represented(version, settings)

\* Merging and its undoing change managed keys only: a key the user has added to
\* a merged document survives a repair and an uninstall that has no earlier
\* content to restore.
UserKeysSurvive ==
  [][(RepairOperation \/ UndoOperation)
     /\ Step.operation.kind = "merge-json"
     /\ (Doing("undo") => Step.operation.previous = Absent)
     /\ "own" \in DOMAIN disk[Step.operation.dest]
     => "own" \in DOMAIN disk'[Step.operation.dest]]_vars
=============================================================================
