--------------------------- MODULE MCHooksAtWork ---------------------------
(* Small instances of HooksAtWork.                                          *)
EXTENDS HooksAtWork

MCPaths == {"src/a.ts", "lib/c.ts", "biome.json"}
MCLanguage == [f \in MCPaths |-> IF f = "biome.json" THEN "other" ELSE "ts"]
MCProjectRoot == [f \in MCPaths |-> IF f = "lib/c.ts" THEN "lib" ELSE "root"]
MCTsConfig == [f \in MCPaths |-> IF f = "lib/c.ts" THEN "lib" ELSE "none"]
MCConfigsOf == [d \in {"root", "lib"} |-> IF d = "root" THEN {"biome", "prettier"} ELSE {"prettier"}]
MCProtected == {"biome.json"}
MCEditLists == {{}, {"src/a.ts", "biome.json"}}
MCSettings ==
  {[profile |-> "fast", disabled |-> {}], [profile |-> "minimal", disabled |-> {}],
   [profile |-> "strict", disabled |-> {"config-protection", "mcp-health-check"}],
   [profile |-> "standard", disabled |-> {"accumulate", "mcp-health-check"}]}

Kinds == {"call", "failure", "timeout", "server", "time", "edit", "multi", "remove", "stop", "fault", "hook fault", "unsaved"}
Times(given) == given @@ [k \in Kinds |-> 0]
MCBudgets ==
  {Times("call" :> 2 @@ "failure" :> 1 @@ "time" :> 2 @@ "server" :> 1),
   Times("call" :> 1 @@ "failure" :> 2 @@ "time" :> 2 @@ "server" :> 1),
   Times("call" :> 2 @@ "time" :> 3 @@ "server" :> 2),
   Times("call" :> 2 @@ "failure" :> 1 @@ "time" :> 1 @@ "unsaved" :> 1),
   Times("call" :> 2 @@ "timeout" :> 1 @@ "time" :> 2 @@ "server" :> 1),
   Times("edit" :> 2 @@ "stop" :> 2 @@ "fault" :> 1), Times("edit" :> 1 @@ "multi" :> 1 @@ "stop" :> 2),
   Times("edit" :> 2 @@ "stop" :> 1 @@ "remove" :> 1 @@ "hook fault" :> 1),
   Times("multi" :> 1 @@ "stop" :> 1 @@ "hook fault" :> 1)}

Symmetry == Permutations(Checks) \cup Permutations(Stops) \cup Permutations(Calls)
=============================================================================
