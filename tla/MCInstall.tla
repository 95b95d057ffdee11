------------------------------ MODULE MCInstall ------------------------------
\* One target with rules, hooks, MCP servers and a merged document; the second
\* version of the repository changes the hooks and has no manifest version. The
\* older record was made when the hooks were no module yet.
EXTENDS Install

MCDests == {"rules", "hooks", "mcp", "config", "banner"}
Hooks(v) == [version |-> v, root |-> "placeholder"]
MCSource == <<
  [d \in MCDests |-> CASE d = "rules" -> [text |-> "rules 1"] [] d = "hooks" -> Hooks(1)
                      [] d = "mcp" -> [github |-> "on", slack |-> "on"] [] OTHER -> Absent],
  [d \in MCDests |-> CASE d = "hooks" -> Hooks(2)
                      [] d = "mcp" -> [github |-> "on", slack |-> "on"] [] OTHER -> Absent]>>
MCPlans == [v \in 1..2 |-> [r \in {"full", "small"} |->
  IF r = "full" THEN [modules |-> {"core", "hooks"}, dests |-> <<"rules", "hooks", "mcp">>]
  ELSE [modules |-> {"core"}, dests |-> <<"rules">>]]]
Entry(id, sig) == [id |-> id, sig |-> sig]
MCHookEntries == <<
  <<Entry("format", "run 1"), Entry(NoId, "lint")>>,
  <<Entry("format", "run 2"), Entry("lint", "lint")>>>>
MCUserEntries == {Entry(NoId, "run 2"), Entry(NoId, "mine")}
MCManifestVersion == <<1, 0>>

Op(kind, d, c, before) == [kind |-> kind, dest |-> d, content |-> c, previous |-> before]
OlderRecord ==
  [kind |-> "record", request |-> "full", legacy |-> FALSE, modules |-> {"core"},
   ops |-> <<Op("merge-json", "config", [managed |-> "yes"], Absent),
             Op("render-template", "banner", [text |-> "banner"], [text |-> "mine"]),
             Op("remove", "rules", Absent, [text |-> "mine"])>>,
   manifestVersion |-> 1]
MCFirstRecord == <<NoRecord, OlderRecord>>
MCFirstDisk == <<
  [d \in MCDests |-> Absent],
  [d \in MCDests |-> CASE d = "config" -> [managed |-> "yes", theme |-> "dark"]
                      [] d = "banner" -> [text |-> "banner"] [] OTHER -> Absent]>>
=============================================================================
