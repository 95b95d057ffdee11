------------------------------ MODULE McpHealth ------------------------------
(***************************************************************************)
(* The health of MCP servers (.cursor/scripts/hooks/mcp-health-check.js).  *)
(*                                                                         *)
(* A process of the hook checks the server of a call before it is made,    *)
(* and another marks the server when a call has failed. They share a file  *)
(* with a mark for each server, that each reads as a whole, changes and    *)
(* writes as a whole, probing and reconnecting in between. The setting that *)
(* lets every call go ahead (ECC_MCP_HEALTH_FAIL_OPEN) is off.             *)
(***************************************************************************)
EXTENDS Integers, FiniteSets, Budget

CONSTANTS Checks,      \* processes of the hook
          Servers, Configured,   \* servers that calls name, and those a configuration file has
          Reconnects,  \* whether a command to reconnect is configured
          Ttl, Backoff, MaxBackoff   \* how long a mark holds, in units of time

ASSUME TimesAssumption == Ttl \in Nat /\ Backoff \in Nat /\ MaxBackoff \in Nat

VARIABLES cache,   \* the file
          check,   \* [Checks -> what the process does]
          up,      \* [Servers -> whether it answers]
          clock,   \* the time
          seenUp,  \* [Servers -> when it was last found to answer]
          blamed,  \* [Servers -> when it was last found not to, or a failed call told a code]
          last,    \* [Servers -> the mark that a process last saved for it]
          raced    \* whether a process saved a copy that was no longer the file, or left it empty

healthVars == <<cache, check, up, clock, seenUp, blamed, last, raced, left>>

-----------------------------------------------------------------------------
(* Marks (markHealthy, markUnhealthy).                                     *)

Never == -100
Unmarked == [status |-> "none", failures |-> 0]

Healthy(at) == [status |-> "healthy", failures |-> 0, expires |-> at + Ttl]

\* the wait doubles from failure to failure, up to MaxBackoff
Wait(failures) ==
  LET doubled == Backoff * 2 ^ failures
  IN  IF doubled \in 0..MaxBackoff THEN doubled ELSE MaxBackoff

\* Mutant: the wait doubles with the first failure already, and without a bound.
UnhealthyUnbounded(previous, at) ==
  [status |-> "unhealthy", failures |-> previous.failures + 1, retry |-> at + Backoff * 2 ^ (previous.failures + 1)]

Unhealthy(previous, at) ==
  [status |-> "unhealthy", failures |-> previous.failures + 1,
   retry |-> at + Wait(previous.failures)]

NoMarks == [s \in Servers |-> Unmarked]

\* loadState: what does not parse counts as no marks
Load == IF cache.kind = "whole" THEN cache.marks ELSE NoMarks

Fresh(mark, at) == mark.status = "healthy" /\ mark.expires > at
Waits(mark, at) == mark.status = "unhealthy" /\ mark.retry > at

-----------------------------------------------------------------------------
Idle == [pc |-> "idle"]
Done(s, verdict, why) == [pc |-> "done", server |-> s, verdict |-> verdict, why |-> why, at |-> clock]

HealthInit ==
  /\ cache = [kind |-> "missing"]
  /\ check = [h \in Checks |-> Idle]
  /\ up = [s \in Servers |-> TRUE]
  /\ clock = 0
  /\ seenUp = [s \in Servers |-> Never] /\ blamed = [s \in Servers |-> Never]
  /\ last = NoMarks /\ raced = FALSE
  /\ BudgetInit

\* handlePreToolUse: a mark that holds decides; a server without a configuration is not probed
BeforeCall(h, s) ==
  LET marks == Load
  IN  /\ check[h] = Idle /\ Spend("call")
      /\ check' = [check EXCEPT ![h] =
           IF Fresh(marks[s], clock) THEN Done(s, "allow", "mark")
           ELSE IF Waits(marks[s], clock) THEN Done(s, "block", "mark")
           ELSE IF s \notin Configured THEN Done(s, "allow", "unknown")
           ELSE [pc |-> "probe", phase |-> "pre", server |-> s, at |-> clock, marks |-> marks,
                 base |-> cache, then |-> Idle]]
      /\ UNCHANGED <<cache, up, clock, seenUp, blamed, last, raced>>

\* main: of an input that was cut off only the server can be told
BeforeLongCall(h, s) ==
  /\ check[h] = Idle /\ Spend("call")
  /\ check' = [check EXCEPT ![h] = Done(s, "block", "length")]
  /\ UNCHANGED <<cache, up, clock, seenUp, blamed, last, raced>>

\* Mutant: the marks of the other servers are not written.
SavingAlone(h, marks, base, m, then) ==
  [check[h] EXCEPT !.pc = "empty", !.marks = [NoMarks EXCEPT ![check[h].server] = m],
                   !.base = base, !.then = then]

\* to save mark m for the server, and to go on with then
Saving(h, marks, base, m, then) ==
  [check[h] EXCEPT !.pc = "empty", !.marks = [marks EXCEPT ![check[h].server] = m],
                   !.base = base, !.then = then]

\* the mark of a server that does not answer, and the refusal of the call
Refuse(h) ==
  Saving(h, check[h].marks, check[h].base, Unhealthy(check[h].marks[check[h].server], check[h].at),
         Done(check[h].server, "block", "probe"))

Note(s, ok) == IF ok THEN seenUp' = [seenUp EXCEPT ![s] = clock] /\ UNCHANGED blamed
               ELSE blamed' = [blamed EXCEPT ![s] = clock] /\ UNCHANGED seenUp

\* probeServer; a status that calls for it, or a mark, makes the hook reconnect
Probe(h, code) ==
  LET c == check[h]
      ok == up[c.server]
  IN  /\ c.pc = "probe" /\ Note(c.server, ok)
      /\ check' = [check EXCEPT ![h] =
           IF ok THEN Saving(h, c.marks, c.base, Healthy(c.at), Done(c.server, "allow", "probe"))
           ELSE IF code \/ c.marks[c.server].status = "unhealthy" THEN [c EXCEPT !.pc = "reconnect"]
           ELSE Refuse(h)]
      /\ UNCHANGED <<cache, up, clock, last, raced, left>>

\* attemptReconnect, whose command may bring the server up
Reconnect(h, success) ==
  LET c == check[h]
  IN  /\ c.pc = "reconnect" /\ (success => Reconnects)
      /\ up' \in {up} \cup (IF Reconnects THEN {[up EXCEPT ![c.server] = TRUE]} ELSE {})
      /\ check' = [check EXCEPT ![h] =
           IF success /\ (c.phase = "pre" \/ c.server \in Configured) THEN [c EXCEPT !.pc = "reprobe"]
           ELSE IF c.phase = "pre" THEN Refuse(h) ELSE Done(c.server, "allow", "failure")]
      /\ UNCHANGED <<cache, clock, seenUp, blamed, last, raced, left>>

\* after a failed call the file is read once more
Reprobe(h) ==
  LET c == check[h]
      ok == up[c.server]
      post == c.phase = "post"
  IN  /\ c.pc = "reprobe" /\ Note(c.server, ok)
      /\ check' = [check EXCEPT ![h] =
           IF ok /\ post THEN Saving(h, Load, cache, Healthy(c.at), Done(c.server, "allow", "failure"))
           ELSE IF ok THEN Saving(h, c.marks, c.base, Healthy(c.at), Done(c.server, "allow", "probe"))
           ELSE IF post THEN Done(c.server, "allow", "failure") ELSE Refuse(h)]
      /\ UNCHANGED <<cache, up, clock, last, raced, left>>

\* handlePostToolUseFailure, of a failure whose text detectFailureCode knows; that
\* text may come from a server that answers
AfterFailure(h, s) ==
  LET c == [pc |-> "empty", phase |-> "post", server |-> s, at |-> clock, base |-> cache,
            marks |-> [Load EXCEPT ![s] = Unhealthy(@, clock)], then |-> Idle]
  IN  /\ check[h] = Idle /\ Spend("failure")
      /\ check' = [check EXCEPT ![h] = [c EXCEPT !.then = [c EXCEPT !.pc = "reconnect"]]]
      /\ blamed' = [blamed EXCEPT ![s] = clock]
      /\ UNCHANGED <<cache, up, clock, seenUp, last, raced>>

\* saveState: the file is emptied, then filled
SaveEmpties(h) ==
  /\ check[h].pc = "empty"
  /\ raced' = (raced \/ cache # check[h].base \/ \E g \in Checks : check[g].pc = "fill")
  /\ cache' = [kind |-> "empty"]
  /\ check' = [check EXCEPT ![h].pc = "fill", ![h].base = [kind |-> "empty"]]
  /\ UNCHANGED <<up, clock, seenUp, blamed, last, left>>

SaveFills(h) ==
  LET c == check[h]
  IN  /\ c.pc = "fill"
      /\ raced' = (raced \/ cache # c.base)
      /\ cache' = [kind |-> "whole", marks |-> c.marks]
      /\ last' = [last EXCEPT ![c.server] = c.marks[c.server]]
      /\ check' = [check EXCEPT ![h] = IF c.then.pc = "done" THEN [c.then EXCEPT !.at = clock]
                     ELSE [c.then EXCEPT !.marks = c.marks, !.base = cache']]
      /\ UNCHANGED <<up, clock, seenUp, blamed, left>>

\* what saveState cannot write it passes over, before the file is emptied or after;
\* a process that goes on reads the file again before it saves again
SaveFails(h) ==
  LET c == check[h]
  IN  /\ c.pc \in {"empty", "fill"} /\ Spend("unsaved")
      /\ raced' = (raced \/ c.pc = "fill")
      /\ check' = [check EXCEPT ![h] = IF c.then.pc = "done" THEN [c.then EXCEPT !.at = clock]
                     ELSE [c.then EXCEPT !.marks = Load, !.base = cache]]
      /\ UNCHANGED <<cache, up, clock, seenUp, blamed, last>>

Leave(h) ==
  /\ check[h].pc = "done"
  /\ check' = [check EXCEPT ![h] = Idle]
  /\ UNCHANGED <<cache, up, clock, seenUp, blamed, last, raced, left>>

\* run-with-flags.js ends a process of the hook that takes too long
HookTimesOut(h) ==
  /\ check[h].pc \notin {"idle", "done"} /\ Spend("timeout")
  /\ raced' = (raced \/ check[h].pc = "fill")
  /\ check' = [check EXCEPT ![h] = Done(check[h].server, "allow", "timeout")]
  /\ UNCHANGED <<cache, up, clock, seenUp, blamed, last>>

ServerChanges(s) ==
  /\ Spend("server")
  /\ up' = [up EXCEPT ![s] = ~@]
  /\ UNCHANGED <<cache, check, clock, seenUp, blamed, last, raced>>

Pass ==
  /\ Spend("time")
  /\ clock' = clock + 1
  /\ UNCHANGED <<cache, check, up, seenUp, blamed, last, raced>>

HealthNext ==
  \/ \E h \in Checks :
       \/ \E s \in Servers : BeforeCall(h, s) \/ BeforeLongCall(h, s) \/ AfterFailure(h, s)
       \/ \E code \in BOOLEAN : Probe(h, code)
       \/ \E success \in BOOLEAN : Reconnect(h, success)
       \/ Reprobe(h) \/ SaveEmpties(h) \/ SaveFills(h) \/ SaveFails(h) \/ Leave(h) \/ HookTimesOut(h)
  \/ \E s \in Servers : ServerChanges(s)
  \/ Pass

-----------------------------------------------------------------------------
Decided == {check[h] : h \in {g \in Checks : check[g].pc = "done"}}

\* A call is refused only for a server that a probe found not to answer or a
\* failed call of which told a code, in this process or so lately that the
\* longest wait is not over; no failure of another server, no mark of another
\* process written back and no file that does not parse or was not written
\* refuses it (handlePreToolUse, handlePostToolUseFailure, markUnhealthy).
RefusalsFounded ==
  \A d \in Decided : d.verdict = "block" /\ d.why # "length" =>
    /\ blamed[d.server] > Never
    /\ d.why = "mark" => d.at < blamed[d.server] + MaxBackoff

\* A call goes ahead on a mark only if the server was found to answer within the
\* life of a mark, however the processes that save it overlap (markHealthy).
TrustIsFresh ==
  \A d \in Decided : d.why = "mark" /\ d.verdict = "allow" => d.at < seenUp[d.server] + Ttl

\* Whatever is decided on a mark, of this process or another, was found out within
\* the time the mark may be trusted (handlePreToolUse).
VerdictsFounded == RefusalsFounded /\ TrustIsFresh

\* The mark last saved for a server is the one in the file, as long as no process
\* saves a copy older than the file: what a process does for one server leaves
\* the marks of the others, and their waits, as they are (saveState).
MarksKept == ~raced /\ cache.kind = "whole" => cache.marks = last
=============================================================================
