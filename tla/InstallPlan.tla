----------------------------- MODULE InstallPlan -----------------------------
(***************************************************************************)
(* From an install request to the list of files to copy                    *)
(* (.cursor/scripts/lib: install/request.js, install/runtime.js,           *)
(* install-manifests.js, install-targets/, install-executor.js).           *)
(*                                                                         *)
(* A request names a profile, modules, components to include or exclude,   *)
(* or languages. It is turned into a set of modules by a depth-first walk  *)
(* over their dependencies, one call or return of the walk per step, and   *)
(* the modules' files that exist in the source tree into copy operations.  *)
(***************************************************************************)
EXTENDS Integers, Sequences, FiniteSets, SequencesExt

CONSTANTS Modules,      \* identifiers of install modules
          Components,   \* [component -> Seq(Modules)]
          Profiles,     \* [profile -> Seq(Modules)]
          BaseModules,  \* [target -> Seq(Modules)]: modules of a language request
          LanguageExtra,\* [language -> Seq(Modules)], domain: the known languages
          Manifests,    \* [Modules -> [deps, targets, paths]]
          PlanRequests, \* what is asked for
          SourceFiles,  \* the files of the source tree
          None

Targets == {"claude", "cursor", "antigravity"}
Manifest == [Modules -> [deps : Seq(Modules), targets : SUBSET Targets, paths : Seq(STRING)]]

\* Components, profiles and languages name modules of the manifest
\* (resolveModule refuses others); a file is known by its path.
ASSUME PlanAssumption ==
  /\ Manifests \subseteq Manifest
  /\ \A c \in DOMAIN Components : Components[c] \in Seq(Modules)
  /\ \A p \in DOMAIN Profiles : Profiles[p] \in Seq(Modules)
  /\ \A t \in Targets : BaseModules[t] \in Seq(Modules)
  /\ \A l \in DOMAIN LanguageExtra : LanguageExtra[l] \in Seq(Modules)
  /\ \A r \in PlanRequests :
       /\ r.target \in Targets
       /\ r.modules \in Seq(STRING) /\ r.languages \in Seq(STRING)
       /\ r.include \in Seq(STRING) /\ r.exclude \in Seq(STRING)
  /\ \A f \in SourceFiles : f.dir \in Seq(STRING) /\ f.name \in Seq(STRING)
  /\ \A f, g \in SourceFiles : f.path = g.path /\ f.dir = g.dir /\ f.name = g.name => f = g

VARIABLES manifest,  \* install-modules.json
          request,   \* the normalized or raw request
          phase,     \* "asked", "resolving", "planned" or "refused"
          roots,     \* requested modules not yet visited
          excluded,  \* modules of excluded components
          stack,     \* calls of resolveModule in progress, innermost first
          verdict,   \* what the last call returned: "yes", "no", or "none"
          selected,  \* selectedIds (and resolvedIds, which is the same set)
          skipped,   \* skippedTargetIds
          operations \* the plan: a set of copies, their order is left out

planVars == <<manifest, request, phase, roots, excluded, stack, verdict,
          selected, skipped, operations>>
walk == <<roots, stack, verdict, selected, skipped>>

Frame == [module : Modules, done : Nat]

-----------------------------------------------------------------------------
(* Requests.                                                               *)

\* dedupeStrings: the first occurrence of each
Dedupe(s) ==
  FlattenSeq([i \in DOMAIN s |->
    IF \E j \in DOMAIN s : j < i /\ s[j] = s[i] THEN <<>> ELSE <<s[i]>>])

\* the members of s that are in S, in their order
Only(s, S) == FlattenSeq([i \in DOMAIN s |-> IF s[i] \in S THEN <<s[i]>> ELSE <<>>])

Expand(components) == FlattenSeq([i \in DOMAIN components |-> Components[components[i]]])

UsesManifest(r) == r.profile # None \/ r.modules # <<>> \/ r.include # <<>> \/ r.exclude # <<>>

\* normalizeInstallRequest and the tests of the resolvers it leads to: a
\* request that mixes the two kinds, names something unknown or asks for nothing
Malformed(r) ==
  \/ UsesManifest(r) /\ r.languages # <<>>
  \/ r.profile = None /\ r.modules = <<>> /\ r.include = <<>> /\ r.languages = <<>>
  \/ r.profile # None /\ r.profile \notin DOMAIN Profiles
  \/ ~ ToSet(r.modules) \subseteq Modules
  \/ ~ ToSet(r.include) \cup ToSet(r.exclude) \subseteq DOMAIN Components
  \/ ~ ToSet(r.languages) \subseteq DOMAIN LanguageExtra

\* resolveLegacyCompatibilitySelection
LegacySelection(r) ==
  BaseModules[r.target] \o
    IF r.target = "antigravity" THEN <<>>
    ELSE FlattenSeq([i \in DOMAIN r.languages |-> LanguageExtra[r.languages[i]]])

Requested(r) ==
  IF UsesManifest(r)
  THEN (IF r.profile = None THEN <<>> ELSE Profiles[r.profile]) \o r.modules \o Expand(r.include)
  ELSE LegacySelection(r)

Excluded(r) == ToSet(Expand(r.exclude))
EffectiveRoots(r) == Dedupe(Only(Requested(r), Modules \ Excluded(r)))

-----------------------------------------------------------------------------
(* Operations of a module. A source file is in the directory tree of one of *)
(* the paths of a module: its directories and its name are sequences of     *)
(* words, words of a name being joined by dashes.                           *)

PlatformOwner == [p \in {".cursor", ".claude-plugin"} |->
                    IF p = ".cursor" THEN "cursor" ELSE "claude"]

\* isForeignPlatformPath, and for antigravity the list of supported prefixes
Serves(target, path) ==
  IF target = "antigravity"
  THEN path \in {"rules", "commands", "agents", "skills"}
  ELSE path \in DOMAIN PlatformOwner => PlatformOwner[path] = target

Directory(target, path) ==
  CASE target = "antigravity" /\ path = "commands" -> <<"workflows">>
    [] target = "antigravity" /\ path = "agents" -> <<"skills">>
    [] path \in DOMAIN PlatformOwner -> <<>>  \* the platform's own directory is the root
    [] OTHER -> <<path>>

\* createFlatRuleOperations for rules, resolveDestinationPath for the rest
Destination(target, f) ==
  IF f.path = "rules" /\ target # "claude"
  THEN [dir |-> <<"rules">>, name |-> f.dir \o f.name]
  ELSE [dir |-> Directory(target, f.path) \o f.dir, name |-> f.name]

\* materializeScaffoldOperation: the files that exist, without generated ones
FilesOf(path) == {f \in SourceFiles : f.path = path /\ ~f.generated}

CopyOperation(module, target, f) ==
  [module |-> module, source |-> f, dest |-> Destination(target, f)]

OperationsOf(m, target) ==
  LET paths == {p \in ToSet(manifest[m].paths) : Serves(target, p)}
  IN  {CopyOperation(m, target, f) : f \in UNION {FilesOf(p) : p \in paths}}

\* planInstallTargetScaffold and createManifestInstallPlan
PlannedOperations(chosen, target) == UNION {OperationsOf(m, target) : m \in chosen}

Supports(m) ==
  /\ request.target \in manifest[m].targets
  /\ request.target = "antigravity" => manifest[m].paths # <<>>

-----------------------------------------------------------------------------
(* createLegacyInstallPlan: a request of languages that goes past the       *)
(* manifests. What does not exist in the source tree is skipped. A file is   *)
(* put where the scaffold of the target would put it.                        *)

In(path, dir) == {f \in SourceFiles : f.path = path /\ IsPrefix(dir, f.dir)}

\* the rules of a language: a directory, for cursor a prefix of the file name
LegacyRules(target, language) ==
  CASE target = "claude" -> In("rules", <<language>>)
    [] target = "cursor" ->
         {f \in In(".cursor", <<"rules">>) : Len(f.dir) = 1 /\ Len(f.name) > 1 /\ f.name[1] = language}
    [] target = "antigravity" -> {f \in In("rules", <<language>>) : Len(f.dir) = 1}

LegacyTrees(target) ==
  CASE target = "claude" -> {}
    [] target = "cursor" ->
         {f \in In(".cursor", <<>>) : f.dir = <<>> \/ f.dir[1] \in {"agents", "skills", "commands", "hooks"}}
    [] target = "antigravity" -> UNION {In(path, <<>>) : path \in {"commands", "agents", "skills"}}

LegacyFiles(r) ==
  (UNION {LegacyRules(r.target, language) : language \in {"common"} \cup ToSet(r.languages)})
    \cup LegacyTrees(r.target)

LegacyOperations(r) == {CopyOperation("legacy", r.target, f) : f \in LegacyFiles(r)}

-----------------------------------------------------------------------------
(* The steps of resolveInstallPlan.                                        *)

PlanInit ==
  /\ manifest \in Manifests
  /\ request \in PlanRequests
  /\ phase = "asked"
  /\ roots = <<>> /\ excluded = {} /\ stack = <<>> /\ verdict = "none"
  /\ selected = {} /\ skipped = {} /\ operations = {}

RefusePlan ==
  /\ phase' = "refused"
  /\ UNCHANGED <<manifest, request, excluded, walk, operations>>

RefuseRequest ==
  /\ phase = "asked" /\ ~request.legacy
  /\ Malformed(request) \/ EffectiveRoots(request) = <<>>
  /\ RefusePlan

Accept ==
  /\ phase = "asked" /\ ~request.legacy
  /\ ~Malformed(request) /\ EffectiveRoots(request) # <<>>
  /\ phase' = "resolving"
  /\ roots' = EffectiveRoots(request)
  /\ excluded' = Excluded(request)
  /\ UNCHANGED <<manifest, request, stack, verdict, selected, skipped, operations>>

PlanLegacy ==
  /\ phase = "asked" /\ request.legacy
  /\ phase' = "planned"
  /\ operations' = LegacyOperations(request)
  /\ UNCHANGED <<manifest, request, excluded, walk>>

Root == stack[Len(stack)].module
Dependency == manifest[Head(stack).module].deps[Head(stack).done + 1]
Visiting == {stack[i].module : i \in DOMAIN stack}

\* Mutant: the dependency is reported as skipped and not the module asked for.
CallSkipsDependency(m, root) ==
  IF ~Supports(m)
  THEN verdict' = "no" /\ skipped' = skipped \cup {m} /\ UNCHANGED stack
  ELSE IF m \in selected
  THEN verdict' = "yes" /\ UNCHANGED <<stack, skipped>>
  ELSE /\ stack' = <<[module |-> m, done |-> 0]>> \o stack
       /\ verdict' = "none"
       /\ UNCHANGED skipped

\* a call of resolveModule(m) that does not throw, rootRequester being the root
Call(m, root) ==
  IF ~Supports(m)
  THEN verdict' = "no" /\ skipped' = skipped \cup {root} /\ UNCHANGED stack
  ELSE IF m \in selected
  THEN verdict' = "yes" /\ UNCHANGED <<stack, skipped>>
  ELSE /\ stack' = <<[module |-> m, done |-> 0]>> \o stack
       /\ verdict' = "none"
       /\ UNCHANGED skipped

VisitRoot ==
  /\ phase = "resolving" /\ stack = <<>> /\ roots # <<>>
  /\ Call(Head(roots), Head(roots))
  /\ roots' = Tail(roots)
  /\ UNCHANGED <<manifest, request, phase, excluded, selected, operations>>

HasDependency ==
  /\ phase = "resolving" /\ stack # <<>> /\ verdict = "none"
  /\ Head(stack).done < Len(manifest[Head(stack).module].deps)

Throws(m) == m \in excluded \/ (Supports(m) /\ m \in Visiting)

VisitDependency ==
  /\ HasDependency
  /\ ~Throws(Dependency)
  /\ Call(Dependency, Root)
  /\ UNCHANGED <<manifest, request, phase, excluded, roots, selected, operations>>

\* a dependency that is excluded, or one of a cycle
RefuseDependency ==
  /\ HasDependency
  /\ Throws(Dependency)
  /\ RefusePlan

\* Mutant: the same dependency is visited again.
NextDependencyAgain ==
  /\ phase = "resolving" /\ stack # <<>> /\ verdict = "yes"
  /\ verdict' = "none"
  /\ UNCHANGED <<manifest, request, phase, excluded, roots, stack, selected, skipped, operations>>

\* a dependency was resolved: on to the next one
NextDependency ==
  /\ phase = "resolving" /\ stack # <<>> /\ verdict = "yes"
  /\ stack' = [stack EXCEPT ![1].done = @ + 1]
  /\ verdict' = "none"
  /\ UNCHANGED <<manifest, request, phase, excluded, roots, selected, skipped, operations>>

Resolved ==
  /\ phase = "resolving" /\ stack # <<>> /\ verdict = "none"
  /\ Head(stack).done = Len(manifest[Head(stack).module].deps)
  /\ selected' = selected \cup {Head(stack).module}
  /\ stack' = Tail(stack)
  /\ verdict' = IF Tail(stack) = <<>> THEN "none" ELSE "yes"
  /\ UNCHANGED <<manifest, request, phase, excluded, roots, skipped, operations>>

\* a dependency was not: neither is the module
Unresolved ==
  /\ phase = "resolving" /\ stack # <<>> /\ verdict = "no"
  /\ stack' = Tail(stack)
  /\ skipped' = IF Len(stack) = 1 THEN skipped \cup {Root} ELSE skipped
  /\ UNCHANGED <<manifest, request, phase, excluded, roots, verdict, selected, operations>>

Plan ==
  /\ phase = "resolving" /\ stack = <<>> /\ roots = <<>>
  /\ phase' = "planned"
  /\ operations' = PlannedOperations(selected, request.target)
  /\ UNCHANGED <<manifest, request, excluded, walk>>

PlanNext ==
  \/ RefuseRequest \/ Accept \/ PlanLegacy
  \/ VisitRoot \/ VisitDependency \/ RefuseDependency
  \/ NextDependency \/ Resolved \/ Unresolved
  \/ Plan

PlanSpec == PlanInit /\ [][PlanNext]_planVars
FairSpec == PlanSpec /\ WF_planVars(PlanNext)

-----------------------------------------------------------------------------
(* Properties.                                                             *)

\* everything m needs, however indirectly, with m: the least set closed under dependencies
Needs(m) ==
  {n \in Modules : \A S \in SUBSET Modules :
     m \in S /\ (\A x \in S : ToSet(manifest[x].deps) \subseteq S) => n \in S}

\* The walk with its early returns computes what its description says: a
\* requested module is selected if everything it needs, however indirectly,
\* supports the target, and reported as skipped if not; a plan never contains
\* a module of an excluded component nor a cycle of dependencies.
ResolutionExact ==
  phase = "planned" /\ ~request.legacy =>
    LET asked == ToSet(EffectiveRoots(request))
    IN  /\ \A r \in asked :
             IF \A m \in Needs(r) : Supports(m)
             THEN r \in selected \ skipped ELSE r \in skipped \ selected
        /\ selected \subseteq (UNION {Needs(r) : r \in asked}) \ excluded
        /\ skipped \subseteq asked
        /\ \A m \in selected : \A d \in ToSet(manifest[m].deps) : m \notin Needs(d)

\* Two files of one path never land on the same destination. (Two files of
\* different paths may: .cursor/rules/a-b and rules/a/b, for cursor.)
PathsKeepFilesApart ==
  \A a, b \in operations :
    a.dest = b.dest /\ a.source.path = b.source.path => a.source = b.source

\* A plan has the modules that were asked for and what they need, and a place of
\* its own for each of their files (resolveInstallPlan, planInstallTargetScaffold).
PlanExact == ResolutionExact /\ PathsKeepFilesApart

\* Resolution ends, whatever the graph of dependencies.
ResolutionEnds == <>(phase \in {"planned", "refused"})
=============================================================================
