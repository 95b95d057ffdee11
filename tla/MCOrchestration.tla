--------------------------- MODULE MCOrchestration ---------------------------
\* Two runs of a session, of which one or both may replace what they find. The
\* second may be of another session, whose name begins with that of the first and
\* whose worktree has the name of one of the first's.
EXTENDS Orchestration

W(slug) == [slug |-> slug, task |-> "plain", launcher |-> TRUE, seeds |-> <<>>]
Config(s, workers, replace) ==
  [session |-> s, workers |-> workers, seeds |-> <<>>, replaceExisting |-> replace]
XY == W(<<"x", "y">>)

MCPlans == [r \in {"a", "b"} |->
  IF r = "a"
  THEN {Config(<<"s">>, <<[XY EXCEPT !.task = "headed", !.seeds = <<"gone">>]>>, FALSE),
        Config(<<"s">>, <<XY, W(<<"y">>)>>, TRUE),
        Config(<<"s">>, <<XY, XY>>, TRUE),
        Config(<<"s">>, <<[XY EXCEPT !.seeds = <<"outside">>]>>, FALSE)}
  ELSE {Config(<<"s">>, <<XY>>, TRUE), Config(<<"s", "x">>, <<W(<<"y">>)>>, FALSE)}]
MCWatched == <<"s">>
=============================================================================
