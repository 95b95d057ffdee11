---------------------------- MODULE HooksAtWork ----------------------------
(***************************************************************************)
(* The hooks of one user: those that watch over edits, and those that watch*)
(* over MCP servers (.cursor/hooks/hooks.json). They share the settings    *)
(* but no file; the budgets of a run give events to one group or to both.  *)
(***************************************************************************)
EXTENDS McpHealth, HookDispatch

vars == <<cache, check, up, clock, seenUp, blamed, last, raced, batchVars, dispatchVars, left>>

Init == HealthInit /\ BatchInit /\ DispatchInit

\* a process of a hook that is switched off ends at once
Next ==
  \/ /\ HealthNext /\ Enabled("mcp-health-check")
     /\ UNCHANGED <<batchVars, dispatchVars>>
  \/ /\ \/ DispatchNext
        \/ BatchNext /\ Enabled("format-typecheck") /\ UNCHANGED dispatchVars
        \/ \E f \in Paths : RemoveFile(f) /\ UNCHANGED dispatchVars
     /\ UNCHANGED <<cache, check, up, clock, seenUp, blamed, last, raced>>

Spec == Init /\ [][Next]_vars

=============================================================================
