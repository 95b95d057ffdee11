---------------------------- MODULE HookDispatch ----------------------------
(***************************************************************************)
(* The hooks around an edit (.cursor/scripts/hooks/run-with-flags.js,      *)
(* .cursor/scripts/lib/hook-flags.js, config-protection.js and             *)
(* post-edit-accumulator.js; .cursor/hooks/hooks.json).                    *)
(*                                                                         *)
(* Before a call the hooks that match it run beside each other, each in a  *)
(* process that decides by the settings whether the hook is enabled, runs  *)
(* its script and ends with a status; status 2 refuses the call. After the *)
(* edit another hook puts the files on the list of EditBatch. A call names *)
(* one file as its own, and more in its edits (MultiEdit).                 *)
(***************************************************************************)
EXTENDS EditBatch

CONSTANTS Calls,     \* calls that edit files at a time
          EditLists, \* sets of files: what the edits of a call may name
          Protected, \* configuration files of linters and formatters
          Settings   \* records [profile, disabled]: the settings there may be

ASSUME DispatchAssumption == EditLists \subseteq SUBSET Paths

VARIABLES settings,  \* ECC_HOOK_PROFILE and ECC_DISABLED_HOOKS
          call,      \* [Calls -> the call, and the statuses of its hooks]
          edited,    \* files edited by calls
          bypassed   \* files edited by a call whose protecting hook had failed, or
                     \* named by the edits of a call and not as its file

dispatchVars == <<settings, call, edited, bypassed>>

-----------------------------------------------------------------------------
(* Which hooks run (hook-flags.js).                                        *)

Before == {"config-protection", "governance-capture"}
Hooks == Before \cup {"accumulate", "format-typecheck", "mcp-health-check"}

ValidProfiles == {"minimal", "standard", "strict"}

\* getHookProfile: what is not a profile counts as the standard one
HookProfile == IF settings.profile \in ValidProfiles THEN settings.profile ELSE "standard"

\* the profiles that hooks.json gives these hooks
ProfilesOf == [hook \in Hooks |-> {"standard", "strict"}]

\* isHookEnabled
Enabled(hook) == hook \notin settings.disabled /\ HookProfile \in ProfilesOf[hook]

DispatchInit ==
  /\ settings \in Settings
  /\ call = [c \in Calls |-> [pc |-> "idle"]]
  /\ edited = {} /\ bypassed = {}

-----------------------------------------------------------------------------
(* What a hook answers, and what becomes of it (run-with-flags.js).        *)

\* run of config-protection.js: what is cut off may hide the name of the file; the
\* names in the edits of a call it does not read
Protects(f, long) == long \/ f \in Protected

\* governance-capture.js returns its input, config-protection.js a status
Answer(hook, f, long) == IF hook = "config-protection" /\ Protects(f, long) THEN 2 ELSE 0

\* A hook runs in the process itself, in another if it could not be loaded, or
\* not at all: its script is missing, it throws, or its own process fails
Ways == {"loaded", "spawned", "missing", "throws", "spawn fails"}
Failing(way) == way \notin {"loaded", "spawned"}

\* Mutant: a process that cannot be started counts as a refusal.
ExitStatusRefusing(hook, f, long, way) ==
  IF ~Enabled(hook) THEN 0
  ELSE IF ~Failing(way) THEN Answer(hook, f, long)
  ELSE IF way = "spawn fails" THEN 2 ELSE 0

ExitStatus(hook, f, long, way) ==
  IF ~Enabled(hook) THEN 0
  ELSE IF ~Failing(way) THEN Answer(hook, f, long)
  ELSE IF way = "spawn fails" THEN 1 ELSE 0

-----------------------------------------------------------------------------
\* a call may name no file of its own
BeginEdit(c, f, more, long) ==
  /\ call[c].pc = "idle" /\ (f \in Paths \/ more # {})
  /\ Spend(IF more = {} THEN "edit" ELSE "multi")
  /\ call' = [call EXCEPT ![c] = [pc |-> "before", path |-> f, files |-> more \cup ({f} \cap Paths),
                                  long |-> long, failed |-> {}, status |-> [hook \in {} |-> 0],
                                  todo |-> {}]]
  /\ UNCHANGED <<settings, edited, bypassed, batchVars>>

With(statuses, hook, status) ==
  [h \in DOMAIN statuses \cup {hook} |-> IF h = hook THEN status ELSE statuses[h]]

HookRuns(c, hook, way) ==
  LET w == call[c]
  IN  /\ w.pc = "before" /\ hook \in Before \ DOMAIN w.status
      /\ IF Failing(way) THEN Spend("hook fault") ELSE UNCHANGED left
      /\ call' = [call EXCEPT
           ![c].status = With(@, hook, ExitStatus(hook, w.path, w.long, way)),
           ![c].failed = IF Failing(way) THEN @ \cup {hook} ELSE @]
      /\ UNCHANGED <<settings, edited, bypassed, batchVars>>

Refuses(w) == \E hook \in DOMAIN w.status : w.status[hook] = 2

\* all hooks have ended; the tool edits the files unless one refused the call
MakeCall(c) ==
  LET w == call[c]
      todo == {f \in w.files : Recordable(f)}
  IN  /\ w.pc = "before" /\ DOMAIN w.status = Before
      /\ IF Refuses(w)
         THEN /\ call' = [call EXCEPT ![c].pc = "refused"]
              /\ UNCHANGED <<edited, bypassed, present, owed>>
         ELSE /\ call' = [call EXCEPT ![c].pc = "edited", ![c].todo = todo]
              /\ edited' = edited \cup w.files
              /\ bypassed' = bypassed \cup (IF "config-protection" \in w.failed THEN w.files
                                            ELSE w.files \ {w.path})
              /\ present' = present \cup w.files
              /\ owed' = owed \cup todo
      /\ UNCHANGED <<settings, list, batch, handled, recorded, missed, left>>

\* run of post-edit-accumulator.js: what is cut off does not parse
Accumulates(w) == Enabled("accumulate") /\ ~w.long

\* one file of the call after the other
AppendsPath(c, f) ==
  LET w == call[c]
  IN  /\ w.pc = "edited" /\ f \in w.todo /\ Accumulates(w)
      /\ Record(f)
      /\ call' = [call EXCEPT ![c].todo = @ \ {f}]
      /\ UNCHANGED <<settings, edited, bypassed, left>>

\* all are recorded, or the hook is off or cannot read them; or it fails, before the
\* first or when one cannot be appended, and leaves the rest out
AfterEdit(c, way) ==
  LET w == call[c]
  IN  /\ w.pc = "edited"
      /\ IF Failing(way) THEN Spend("hook fault")
         ELSE (w.todo = {} \/ ~Accumulates(w)) /\ UNCHANGED left
      /\ missed' = missed \cup w.todo
      /\ call' = [call EXCEPT ![c] = [pc |-> "idle"]]
      /\ UNCHANGED <<settings, edited, bypassed, list, batch, present, owed, handled, recorded>>

Forget(c) ==
  /\ call[c].pc = "refused"
  /\ call' = [call EXCEPT ![c] = [pc |-> "idle"]]
  /\ UNCHANGED <<settings, edited, bypassed, batchVars, left>>

DispatchNext ==
  \E c \in Calls :
    \/ \E f \in Paths \cup {"none"}, more \in EditLists, long \in BOOLEAN : BeginEdit(c, f, more, long)
    \/ \E hook \in Before, way \in Ways : HookRuns(c, hook, way)
    \/ MakeCall(c) \/ Forget(c)
    \/ \E f \in Paths : AppendsPath(c, f)
    \/ \E way \in Ways : AfterEdit(c, way)

-----------------------------------------------------------------------------
\* No protected file is edited by a call that names it as its file or whose input
\* was too long to see its name, nor on a fallback to a process of its own, as
\* long as the hook is enabled and did not fail itself; one that only the edits
\* of a call name it does not see (config-protection.js: "Refusing to bypass
\* config-protection on a truncated payload").
ProtectedUntouched ==
  Enabled("config-protection") => edited \cap Protected \subseteq bypassed

\* No call is refused because a hook failed: its script may be missing, throw
\* or die with its process; a call is refused only for its file or its length,
\* and never by a hook that is switched off (run-with-flags.js).
OnlyVerdictsRefuse ==
  \A c \in Calls : call[c].pc = "refused" =>
    /\ call[c].path \in Protected \/ call[c].long
    /\ Enabled("config-protection") /\ "config-protection" \notin call[c].failed

\* The verdict of the protecting hook on the file a call names decides, and nothing
\* else: what it refuses is not edited, and what it would let through is not
\* refused, whichever hooks fail (run-with-flags.js; config-protection.js).
VerdictsDecide == ProtectedUntouched /\ OnlyVerdictsRefuse

\* Every edited file is formatted once more, or is about to be: its call is on
\* the way to the list, the list or a process at work has it. The exceptions:
\* files whose record was not made, or came between reading and removing the
\* list, or was lost with a process, and files that are gone
\* (post-edit-accumulator.js, stop-format-typecheck.js).
EditsReachBatch ==
  \A f \in (owed \cap present) \ missed :
    \/ \E c \in Calls : call[c].pc = "edited" /\ f \in call[c].todo
    \/ f \in Listed
    \/ \E h \in Stops : \/ batch[h].pc = "read" /\ f \in ToSet(batch[h].lines)
                        \/ batch[h].pc = "run" /\ \E b \in batch[h].todo : f \in b.files
=============================================================================
