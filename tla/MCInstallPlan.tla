---------------------------- MODULE MCInstallPlan ----------------------------
\* Every dependency graph on three modules, with each set of modules restricted to one target.
EXTENDS InstallPlan

MCModules == {"core", "hooks", "docs"}
MCComponents == [c \in {"minimal", "extra"} |-> IF c = "minimal" THEN <<"core">> ELSE <<"docs", "hooks">>]
MCProfiles == [p \in {"full"} |-> <<"hooks", "core">>]
MCBaseModules == [t \in Targets |-> <<"core">>]
MCLanguageExtra == [l \in {"go", "perl"} |-> IF l = "go" THEN <<"docs">> ELSE <<>>]

Paths == [m \in MCModules |->
  CASE m = "core" -> <<"rules", ".cursor">>
    [] m = "hooks" -> <<"commands", "agents", ".claude-plugin">>
    [] m = "docs" -> <<"skills">>]
Dependencies(m) ==
  LET others == MCModules \ {m}
  IN  {<<>>} \cup {<<d>> : d \in others} \cup {<<d, e>> : d, e \in others}
Graphs == {g \in [MCModules -> UNION {Dependencies(m) : m \in MCModules}] :
             /\ \A m \in MCModules : g[m] \in Dependencies(m)
             /\ \A m \in MCModules : Len(g[m]) = 2 => g[m][1] # g[m][2]}
MCManifests ==
  {[m \in MCModules |-> [deps |-> g[m], paths |-> Paths[m],
                        targets |-> IF m \in narrow THEN {"claude"} ELSE Targets]] :
     g \in Graphs, narrow \in {{}, {"docs"}, {"hooks"}}}

File(path, dir, name) == [path |-> path, dir |-> dir, name |-> name, generated |-> FALSE]
MCSourceFiles == {
  File(".claude-plugin", <<>>, <<"plugin">>),
  File(".cursor", <<>>, <<"mcp">>),
  [File(".cursor", <<>>, <<"state">>) EXCEPT !.generated = TRUE],
  File(".cursor", <<"rules">>, <<"common", "style">>),
  File(".cursor", <<"rules">>, <<"go", "style">>),
  File("agents", <<>>, <<"planner">>),
  File("commands", <<>>, <<"plan">>),
  File("rules", <<"common">>, <<"style">>),
  File("rules", <<"go">>, <<"style">>),
  File("skills", <<"tdd">>, <<"skill">>)}

Ask(t) == [target |-> t, profile |-> None, modules |-> <<>>, include |-> <<>>, exclude |-> <<>>,
           languages |-> <<>>, legacy |-> FALSE]
MCRequests == {
  [Ask("cursor") EXCEPT !.profile = "full"],
  [Ask("claude") EXCEPT !.modules = <<"docs", "core", "docs">>, !.include = <<"extra">>],
  [Ask("antigravity") EXCEPT !.profile = "full", !.exclude = <<"minimal">>],
  [Ask("claude") EXCEPT !.languages = <<"go">>, !.exclude = <<"extra">>],
  [Ask("cursor") EXCEPT !.exclude = <<"extra">>],
  [Ask("antigravity") EXCEPT !.languages = <<"go", "perl">>]}
  \cup {[Ask(t) EXCEPT !.languages = <<"go">>, !.legacy = TRUE] : t \in Targets}
=============================================================================
