--------------------------- MODULE SessionsProofs ---------------------------
(***************************************************************************)
(* Proofs about session files and the observer: notes of the user stay in  *)
(* session files, a summary is that of the last stop hook, a session goes  *)
(* on from the best of the recent files, and the sessions of a project     *)
(* share one observer that lives as long as one of them holds a lease; for *)
(* any sessions, files, hooks and budgets.                                 *)
(***************************************************************************)
EXTENDS Sessions, SequenceTheorems, FiniteSetTheorems, WellFoundedInduction, TLAPS

-----------------------------------------------------------------------------
(* The observer.                                                           *)

MarkerShape(m) ==
  \/ m.pc \in {"idle", "remove", "list"}
  \/ m.pc \in {"stop", "unlink"} /\ m = [pc |-> m.pc, since |-> m.since]

\* The leases, and what end hooks know of them.
LeaseInv ==
  /\ open = [s \in Sessions |-> open[s]]
  /\ marker = [s \in Sessions |-> marker[s]]
  /\ \A s \in Sessions : MarkerShape(marker[s])
  /\ ObserverOutlivesSessions /\ LeaseHeld

leaseInvVars == <<open, leases, marker, overtaken>>

LEMMA LeaseBegins == Init => LeaseInv
BY DEF Init, LeaseInv, MarkerShape, ObserverOutlivesSessions, LeaseHeld, Idle

\* A lease is added to what every waiting end hook may end the observer under.
LEMMA LeaseKeeps ==
  ASSUME LeaseInv, NEW s \in Sessions, TakeLease(s)
  PROVE  LeaseInv'
<1>1. /\ leases' = leases \cup {s} /\ overtaken' = overtaken \ {s}
      /\ open' = [open EXCEPT ![s] = [pc |-> "list"]]
  BY DEF TakeLease
<1>2. /\ marker' = [t \in Sessions |-> marker'[t]]
      /\ \A t \in Sessions :
           IF marker[t].pc \in {"stop", "unlink"}
           THEN marker'[t] = [pc |-> marker[t].pc, since |-> marker[t].since \cup {s}]
           ELSE marker'[t] = marker[t]
  <2>1. ASSUME NEW t \in Sessions, marker[t].pc \in {"stop", "unlink"}
        PROVE  [marker[t] EXCEPT !.since = @ \cup {s}] = [pc |-> marker[t].pc, since |-> marker[t].since \cup {s}]
    <3>1. marker[t] = [pc |-> marker[t].pc, since |-> marker[t].since]
      BY <2>1 DEF LeaseInv, MarkerShape
    <3> QED
      BY <3>1
  <2>2. marker' = [t \in Sessions |-> IF marker[t].pc \in {"stop", "unlink"}
                                      THEN [marker[t] EXCEPT !.since = @ \cup {s}] ELSE marker[t]]
    BY DEF TakeLease
  <2> QED
    BY <2>1, <2>2
<1>3. \A t \in Sessions : MarkerShape(marker'[t])
  BY <1>2 DEF LeaseInv, MarkerShape
<1>4. ObserverOutlivesSessions'
  BY <1>1, <1>2 DEF LeaseInv, ObserverOutlivesSessions
<1>5. LeaseHeld'
  BY <1>1 DEF LeaseInv, LeaseHeld
<1> QED
  BY <1>1, <1>2, <1>3, <1>4, <1>5 DEF LeaseInv

\* The steps of an end hook.
LEMMA MarkerKeeps ==
  ASSUME LeaseInv, NEW s \in Sessions,
         MarkerRemoves(s) \/ MarkerLists(s) \/ MarkerStops(s) \/ MarkerUnlinks(s)
  PROVE  LeaseInv'
<1>1. open' = open
  BY DEF MarkerRemoves, MarkerLists, MarkerStops, MarkerUnlinks
<1>2. CASE MarkerRemoves(s)
  BY <1>1, <1>2 DEF MarkerRemoves, LeaseInv, MarkerShape, ObserverOutlivesSessions, LeaseHeld
<1>3. CASE MarkerLists(s)
  BY <1>1, <1>3 DEF MarkerLists, LeaseInv, MarkerShape, ObserverOutlivesSessions, LeaseHeld, Idle
<1>4. CASE MarkerStops(s)
  <2>1. /\ marker[s].pc = "stop" /\ marker[s] = [pc |-> marker[s].pc, since |-> marker[s].since]
        /\ leases' = leases /\ overtaken' = overtaken
    BY <1>4 DEF MarkerStops, LeaseInv, MarkerShape
  <2>2. \/ marker' = [marker EXCEPT ![s] = Idle]
        \/ marker' = [marker EXCEPT ![s] = [pc |-> "unlink", since |-> marker[s].since]]
    <3>1. [marker[s] EXCEPT !.pc = "unlink"] = [pc |-> "unlink", since |-> marker[s].since]
      BY <2>1
    <3>2. marker' = [marker EXCEPT ![s] = IF pidFile = {} THEN Idle ELSE [marker[s] EXCEPT !.pc = "unlink"]]
      BY <1>4 DEF MarkerStops
    <3> QED
      BY <3>1, <3>2
  <2> QED
    BY <1>1, <2>1, <2>2 DEF LeaseInv, MarkerShape, ObserverOutlivesSessions, LeaseHeld, Idle
<1>5. CASE MarkerUnlinks(s)
  BY <1>1, <1>5 DEF MarkerUnlinks, LeaseInv, MarkerShape, ObserverOutlivesSessions, LeaseHeld, Idle
<1> QED
  BY <1>2, <1>3, <1>4, <1>5

\* Sessions begin and end.
LEMMA LivesKeep ==
  ASSUME LeaseInv, NEW s \in Sessions,
         CloseSession(s) \/ SessionCrashes(s) \/ Prune(s) \/ ListRecent(s) \/ SelectNext(s) \/ SelectEnds(s)
           \/ Inject(s)
  PROVE  LeaseInv'
<1>3. CASE CloseSession(s)
  BY <1>3 DEF CloseSession, LeaseInv, MarkerShape, ObserverOutlivesSessions, LeaseHeld
<1>4. CASE SessionCrashes(s) \/ Prune(s)
  <2>1. /\ \E o \in {[pc |-> "closed"], [pc |-> "lease"]} : open' = [open EXCEPT ![s] = o]
        /\ leases' = leases /\ marker' = marker /\ overtaken' = overtaken
    BY <1>4 DEF SessionCrashes, Prune, leaseVars
  <2> QED
    BY <2>1 DEF LeaseInv, ObserverOutlivesSessions, LeaseHeld
<1>5. CASE ListRecent(s) \/ SelectNext(s) \/ SelectEnds(s) \/ Inject(s)
  <2>1. /\ \E o : open' = [open EXCEPT ![s] = o]
        /\ open[s].pc \in {"list", "select", "inject"}
        /\ leases' = leases /\ marker' = marker /\ overtaken' = overtaken
    <3>1. CASE ListRecent(s) \/ SelectEnds(s) \/ Inject(s)
      BY <3>1 DEF ListRecent, SelectEnds, Selected, Inject, At, leaseVars
    <3>2. CASE SelectNext(s)
      BY <3>2 DEF SelectNext, LooksOn, Selected, At, leaseVars
    <3>3. QED
      BY <1>5, <3>1, <3>2
  <2> QED
    BY <2>1 DEF LeaseInv, ObserverOutlivesSessions, LeaseHeld
<1> QED
  BY <1>3, <1>4, <1>5

\* What observers and those who start them do.
Runs == StartsObserver \/ \E p \in alive : OpensPidFile(p) \/ FillsPidFile(p) \/ ObserverExits(p) \/ ObserverCrashes(p)

\* Observing leaves the session files and their writers alone.
LEMMA ObservingSpares == Observing => UNCHANGED <<fileVars, day, said, stop, compact>>
<1>1. StartsObserver => UNCHANGED <<fileVars, day, said, stop, compact>>
  BY DEF StartsObserver, ToolHook, Looks, RemovesStale, TakesLock, ScriptEnds, ScriptRemoves
<1>2. ASSUME NEW p, OpensPidFile(p) \/ FillsPidFile(p) \/ ObserverExits(p) \/ ObserverCrashes(p)
      PROVE  UNCHANGED <<fileVars, day, said, stop, compact>>
  BY <1>2 DEF OpensPidFile, FillsPidFile, ObserverExits, ObserverCrashes
<1>3. ASSUME NEW s \in Sessions,
             CloseSession(s) \/ SessionCrashes(s) \/ MarkerRemoves(s) \/ MarkerLists(s) \/ MarkerStops(s)
               \/ MarkerUnlinks(s)
      PROVE  UNCHANGED <<fileVars, day, said, stop, compact>>
  BY <1>3 DEF CloseSession, SessionCrashes, MarkerRemoves, MarkerLists, MarkerStops, MarkerUnlinks
<1> QED
  BY <1>1, <1>2, <1>3 DEF Observing

LEMMA LeaseStep == LeaseInv /\ [Next]_vars => LeaseInv'
<1> SUFFICES ASSUME LeaseInv, [Next]_vars PROVE LeaseInv'
  OBVIOUS
<1>1. CASE Starts
  BY <1>1, LeaseKeeps, LivesKeep DEF Starts
<1>2. CASE UNCHANGED leaseInvVars
  BY <1>2 DEF leaseInvVars, LeaseInv, MarkerShape, ObserverOutlivesSessions, LeaseHeld
<1>3. Runs => UNCHANGED leaseInvVars
  <2>1. StartsObserver => UNCHANGED leaseInvVars
    BY DEF StartsObserver, ToolHook, Looks, RemovesStale, TakesLock, ScriptEnds, ScriptRemoves, leaseInvVars
  <2>2. ASSUME NEW p, OpensPidFile(p) \/ FillsPidFile(p) \/ ObserverExits(p) \/ ObserverCrashes(p)
        PROVE  UNCHANGED leaseInvVars
    BY <2>2 DEF OpensPidFile, FillsPidFile, ObserverExits, ObserverCrashes, leaseInvVars
  <2> QED
    BY <2>1, <2>2 DEF Runs
<1>4. CASE Observing
  BY <1>2, <1>3, <1>4, LivesKeep, MarkerKeeps DEF Observing, Runs
<1>5. StopHooks => UNCHANGED leaseInvVars
  BY DEF StopHooks, StopFires, StopReads, StopOpens, StopFills, StopKilled, leaseInvVars, leaseVars
<1>6. (\E s \in Sessions : UserSays(s) \/ CompactPicks(s)) \/ (\E n \in Names : UserNotes(n))
        \/ CompactAppends \/ NextDay \/ UNCHANGED vars => UNCHANGED leaseInvVars
  BY DEF UserSays, CompactPicks, UserNotes, CompactAppends, NextDay, leaseInvVars, leaseVars, vars
<1> QED
  BY <1>1, <1>2, <1>4, <1>5, <1>6 DEF Next

-----------------------------------------------------------------------------
(* The lock of the starts.                                                 *)

StarterShape(c) == c = Idle \/ c = [pc |-> c.pc, stale |-> c.stale]

Begun(h) == starter[h].pc \in {"relook", "check"}
Inside(h) == starter[h].pc \in {"relook", "check", "wait", "remove"}

\* With flock, who is past the lock holds it, and so does the observer that it
\* has started; there is no observer before.
LockInv ==
  /\ starter = [h \in Starters |-> starter[h]]
  /\ \A h \in Starters : StarterShape(starter[h])
  /\ observers \in Nat /\ alive \subseteq Nat
  /\ Flock =>
       /\ alive \subseteq lock
       /\ \A p, q \in alive : p = q
       /\ \A h \in Starters : Inside(h) => h \in lock
       /\ \A h, k \in Starters : h \in lock /\ k \in lock => h = k
       /\ \A h \in Starters : Begun(h) => alive = {}

lockInvVars == <<starter, observers, alive, lock>>

LEMMA LockBegins == Init => LockInv
BY DEF Init, LockInv, StarterShape, Inside, Begun, Idle

\* A hook, or its script, ends.
LEMMA LeavesKeep ==
  ASSUME LockInv, NEW h \in Starters, LeavesOff(h), NoneStarted
  PROVE  LockInv'
<1>1. /\ starter' = [starter EXCEPT ![h] = Idle] /\ alive' = alive /\ observers' = observers
      /\ Flock => lock' = lock \ {h}
  BY DEF LeavesOff, NoneStarted
<1>2. h \notin Nat
  BY SessionsAssumption
<1>3. \A k \in Starters : starter'[k] = IF k = h THEN Idle ELSE starter[k]
  BY <1>1 DEF LockInv
<1>4. Idle.pc = "idle"
  BY DEF Idle
<1> QED
  BY <1>1, <1>2, <1>3, <1>4 DEF LockInv, StarterShape, Inside, Begun

\* It goes on to the next stage.
LEMMA ProceedsKeep ==
  ASSUME LockInv, NEW h \in Starters, Proceeds(h)
  PROVE  LockInv'
<1>1. CASE StarterAt(h, "look") /\ GoesTo(h, "lock") /\ UNCHANGED lock /\ NoneStarted
  BY <1>1 DEF StarterAt, GoesTo, NoneStarted, LockInv, StarterShape, Inside, Begun
<1>2. CASE StarterAt(h, "relook") /\ GoesTo(h, "check") /\ NoneStarted /\ lock' = IF Flock THEN lock ELSE {}
  BY <1>2 DEF StarterAt, GoesTo, NoneStarted, LockInv, StarterShape, Inside, Begun
<1>3. CASE StarterAt(h, "check") /\ Launches(h)
  <2>1. /\ starter[h].pc = "check" /\ starter' = [starter EXCEPT ![h] = [pc |-> "wait", stale |-> FALSE]]
        /\ observers' = observers + 1 /\ alive' = alive \cup {observers + 1}
        /\ lock' = IF h \in lock THEN lock \cup {observers + 1} ELSE lock
    BY <1>3 DEF StarterAt, Launches, GoesTo
  <2>2. observers + 1 \in Nat /\ \A k \in Starters : k # observers + 1
    BY SessionsAssumption DEF LockInv
  <2>3. Flock => alive = {} /\ h \in lock
    BY <2>1 DEF LockInv, Inside, Begun
  <2>4. \A k \in Starters : starter'[k] = IF k = h THEN [pc |-> "wait", stale |-> FALSE] ELSE starter[k]
    BY <2>1 DEF LockInv
  <2>5. ASSUME Flock, NEW k \in Starters, Begun(k)' PROVE FALSE
    <3>1. k # h /\ Begun(k)
      BY <2>4, <2>5 DEF Begun
    <3>2. k \in lock
      BY <2>5, <3>1 DEF LockInv, Begun, Inside
    <3> QED
      BY <2>3, <2>5, <3>1, <3>2 DEF LockInv
  <2> QED
    BY <2>1, <2>2, <2>3, <2>4, <2>5 DEF LockInv, StarterShape, Inside
<1> QED
  BY <1>1, <1>2, <1>3 DEF Proceeds

\* The steps of a tool hook and of the script it starts.
LEMMA StarterKeeps ==
  ASSUME LockInv, NEW h \in Starters,
         ToolHook(h) \/ Looks(h) \/ RemovesStale(h) \/ TakesLock(h) \/ ScriptEnds(h) \/ ScriptRemoves(h)
  PROVE  LockInv'
<1>1. CASE ToolHook(h)
  BY <1>1 DEF ToolHook, GoesTo, LockInv, StarterShape, Inside, Begun
<1>2. CASE Looks(h)
  <2>1. CASE starter' = [starter EXCEPT ![h] = [pc |-> @.pc, stale |-> TRUE]] /\ UNCHANGED lock /\ NoneStarted
    <3>1. PICK q, d : q = starter[h].pc /\ d = [pc |-> q, stale |-> TRUE]
      OBVIOUS
    <3>2. d.pc = q /\ StarterShape(d)
      BY <3>1 DEF StarterShape
    <3>3. /\ starter' = [k \in Starters |-> starter'[k]]
          /\ \A k \in Starters : starter'[k] = IF k = h THEN d ELSE starter[k]
      BY <2>1, <3>1 DEF LockInv
    <3>4. \A k \in Starters : starter'[k].pc = starter[k].pc /\ StarterShape(starter'[k])
      BY <3>1, <3>2, <3>3 DEF LockInv
    <3> QED
      BY <2>1, <3>3, <3>4 DEF NoneStarted, LockInv, Inside, Begun
  <2> QED
    BY <1>2, <2>1, LeavesKeep, ProceedsKeep DEF Looks
<1>3. CASE RemovesStale(h)
  BY <1>3, ProceedsKeep DEF RemovesStale
<1>4. CASE TakesLock(h)
  <2>1. NoneStarted
    BY <1>4 DEF TakesLock, NoneStarted
  <2>2. CASE lock = {}
    <3>1. lock' = {h} /\ starter' = [starter EXCEPT ![h] = [pc |-> "relook", stale |-> FALSE]]
      BY <1>4, <2>2 DEF TakesLock, GoesTo
    <3>2. Flock => alive = {} /\ \A k \in Starters : ~Inside(k)
      BY <2>2 DEF LockInv
    <3> QED
      BY <2>1, <3>1, <3>2 DEF NoneStarted, LockInv, StarterShape, Inside, Begun
  <2> QED
    BY <1>4, <2>1, <2>2, LeavesKeep DEF TakesLock
<1>5. CASE ScriptEnds(h)
  <2>1. NoneStarted /\ starter[h].pc = "wait"
    BY <1>5 DEF ScriptEnds, NoneStarted, StarterAt
  <2>2. CASE GoesTo(h, "remove") /\ UNCHANGED lock
    BY <2>1, <2>2 DEF GoesTo, NoneStarted, LockInv, StarterShape, Inside, Begun
  <2> QED
    BY <1>5, <2>1, <2>2, LeavesKeep DEF ScriptEnds
<1>6. CASE ScriptRemoves(h)
  <2>1. NoneStarted
    BY <1>6 DEF ScriptRemoves, NoneStarted
  <2> QED
    BY <1>6, <2>1, LeavesKeep DEF ScriptRemoves
<1> QED
  BY <1>1, <1>2, <1>3, <1>4, <1>5, <1>6

\* An observer ends.
LEMMA GoneKeeps ==
  ASSUME LockInv, NEW p \in alive, Gone(p), UNCHANGED <<starter, observers>>
  PROVE  LockInv'
<1>1. p \notin Starters
  BY SessionsAssumption DEF LockInv
<1> QED
  BY <1>1 DEF Gone, LockInv, StarterShape, Inside, Begun

LEMMA LockStep == LockInv /\ [Next]_vars => LockInv'
<1> SUFFICES ASSUME LockInv, [Next]_vars PROVE LockInv'
  OBVIOUS
<1>1. CASE UNCHANGED lockInvVars
  BY <1>1 DEF lockInvVars, LockInv, StarterShape, Inside, Begun
<1>2. CASE StartsObserver
  BY <1>2, StarterKeeps DEF StartsObserver
<1>3. ASSUME NEW p \in alive, OpensPidFile(p) \/ FillsPidFile(p) \/ ObserverExits(p) \/ ObserverCrashes(p)
      PROVE  LockInv'
  <2>1. CASE OpensPidFile(p) \/ FillsPidFile(p)
    BY <1>1, <2>1 DEF OpensPidFile, FillsPidFile, lockInvVars, startVars
  <2>2. CASE ObserverExits(p) \/ ObserverCrashes(p)
    BY <2>2, GoneKeeps DEF ObserverExits, ObserverCrashes
  <2> QED
    BY <1>3, <2>1, <2>2
<1>4. ASSUME NEW s \in Sessions,
             CloseSession(s) \/ SessionCrashes(s) \/ MarkerRemoves(s) \/ MarkerLists(s) \/ MarkerStops(s)
               \/ MarkerUnlinks(s)
      PROVE  UNCHANGED lockInvVars
  BY <1>4 DEF CloseSession, SessionCrashes, MarkerRemoves, MarkerLists, MarkerStops, MarkerUnlinks, lockInvVars,
              leaseVars, startVars
<1>5. CASE Observing
  BY <1>1, <1>2, <1>3, <1>4, <1>5 DEF Observing
<1>6. Starts => UNCHANGED lockInvVars
  BY DEF Starts, Prune, TakeLease, ListRecent, SelectNext, SelectEnds, Inject, lockInvVars, leaseVars, startVars
<1>7. StopHooks => UNCHANGED lockInvVars
  BY DEF StopHooks, StopFires, StopReads, StopOpens, StopFills, StopKilled, lockInvVars, leaseVars, startVars
<1>8. (\E s \in Sessions : UserSays(s) \/ CompactPicks(s)) \/ (\E n \in Names : UserNotes(n))
        \/ CompactAppends \/ NextDay \/ UNCHANGED vars => UNCHANGED lockInvVars
  BY DEF UserSays, CompactPicks, UserNotes, CompactAppends, NextDay, lockInvVars, leaseVars, startVars, vars
<1> QED
  BY <1>1, <1>5, <1>6, <1>7, <1>8 DEF Next

\* Sessions of a project share one observer, where there is a flock, and no end
\* hook ends it under a session it knows of (observe.sh, observer-sessions.js,
\* session-end-marker.js).
THEOREM ObserverIsHeld == Spec => []ObserverHeld
<1>1. LockInv => OneObserver
  <2> SUFFICES ASSUME LockInv, Flock PROVE Cardinality(alive) <= 1
    BY DEF OneObserver
  <2>1. CASE alive = {}
    BY <2>1, FS_EmptySet
  <2>2. CASE alive # {}
    <3>1. PICK p : alive = {p}
      BY <2>2 DEF LockInv
    <3> QED
      BY <3>1, FS_Singleton
  <2> QED
    BY <2>1, <2>2
<1>2. LeaseInv => ObserverOutlivesSessions /\ LeaseHeld
  BY DEF LeaseInv
<1> QED
  BY <1>1, <1>2, LeaseBegins, LeaseStep, LockBegins, LockStep, PTL DEF Spec, ObserverHeld

-----------------------------------------------------------------------------
(* The notes.                                                              *)

\* Sets of numbers have a smallest member.
LEMMA MinOfSet ==
  ASSUME NEW S \in SUBSET Nat, S # {}
  PROVE  Min(S) \in S /\ \A y \in S : Min(S) <= y
<1> DEFINE R == OpToRel(<, Nat)
<1>1. IsWellFoundedOn(R, Nat)
  BY NatLessThanWellFounded
<1>2. \A x, y \in Nat : x < y => <<x, y>> \in R
  BY DEF OpToRel
<1> HIDE DEF R
<1>3. PICK x \in S : \A y \in S : ~(<<y, x>> \in R)
  BY <1>1, WFMin
<1>4. \A y \in S : ~(y < x)
  BY <1>2, <1>3
<1>5. \A y \in S : x <= y
  BY <1>4
<1> QED
  BY <1>5 DEF Min

NotesOf(body) == {body[i].note : i \in {j \in DOMAIN body : body[j].block = "note"}}

\* A new summary leaves a sequence of blocks, and takes no note with it where
\* there is no placeholder.
LEMMA SummarySpares ==
  ASSUME NEW body \in Seq(BlockSet), NEW n \in Nat
  PROVE  /\ WithSummary(body, n) \in Seq(BlockSet)
         /\ {i \in DOMAIN body : body[i].block = "placeholder"} = {}
              => NotesOf(body) \subseteq NotesOf(WithSummary(body, n))
<1> DEFINE summaries == {i \in DOMAIN body : body[i].block = "summary"}
           places == {i \in DOMAIN body : body[i].block = "placeholder"}
<1>1. Summary(n) \in BlockSet /\ Summary(n).block = "summary"
  BY DEF Summary, BlockSet
<1>2. DOMAIN body = 1..Len(body) /\ Len(body) \in Nat /\ summaries \in SUBSET Nat /\ places \in SUBSET Nat
  BY LenProperties
<1>3. CASE n = 0
  BY <1>3 DEF WithSummary
<1>4. CASE n # 0 /\ summaries # {}
  <2> DEFINE m == Min(summaries)
             new == [body EXCEPT ![m] = Summary(n)]
  <2>1. m \in summaries
    BY <1>2, <1>4, MinOfSet
  <2>2. WithSummary(body, n) = new
    BY <1>4 DEF WithSummary
  <2>3. new \in Seq(BlockSet)
    BY <1>1, <1>2, <2>1, ExceptSeq
  <2>4. NotesOf(body) \subseteq NotesOf(new)
    BY <2>1 DEF NotesOf
  <2> QED
    BY <2>2, <2>3, <2>4
<1>5. CASE n # 0 /\ summaries = {} /\ places # {}
  <2> DEFINE m == Min(places)
  <2>1. m \in 1..Len(body)
    BY <1>2, <1>5, MinOfSet
  <2>2. WithSummary(body, n) = Append(SubSeq(body, 1, m - 1), Summary(n))
    BY <1>5 DEF WithSummary
  <2> HIDE DEF m
  <2>3. SubSeq(body, 1, m - 1) \in Seq(BlockSet)
    BY <1>2, <2>1
  <2> QED
    BY <1>1, <1>5, <2>2, <2>3, AppendProperties
<1>6. CASE n # 0 /\ summaries = {} /\ places = {}
  BY <1>6 DEF WithSummary
<1> QED
  BY <1>3, <1>4, <1>5, <1>6

Readable(f) == f \in {Missing, Empty} \/ (f.kind = "whole" /\ IsFile(f))

\* What a stop hook carries: the file it read, and what it is going to write,
\* which has all notes of the first but for those that are excused.
HookShape(k) ==
  \/ k = Idle
  \/ /\ k = [pc |-> "read", session |-> k.session, name |-> k.name, said |-> k.said]
     /\ k.name \in Names /\ k.said \in Nat
  \/ /\ k.pc \in {"open", "fill"}
     /\ k = [pc |-> k.pc, session |-> k.session, name |-> k.name, said |-> k.said,
             read |-> k.read, next |-> k.next]
     /\ k.name \in Names /\ k.said \in Nat /\ k.next.kind = "whole" /\ IsFile(k.next)
     /\ Spared(k.read) \subseteq NotesIn(k.next)
     /\ k.pc = "fill" => NotesIn(k.read) \subseteq NotesIn(k.next) \cup excused

NotesInv ==
  /\ files = [n \in Names |-> files[n]] /\ \A n \in Names : Readable(files[n])
  /\ notes \in Seq(Names)
  /\ said \in [Sessions -> Nat] /\ day \in 1..MaxDay
  /\ stop = [h \in Stops |-> stop[h]] /\ \A h \in Stops : HookShape(stop[h])
  /\ NotesKept

LEMMA NotesBegin == Init => NotesInv
<1> SUFFICES ASSUME Init PROVE NotesInv
  OBVIOUS
<1>1. \A n \in Names : Readable(files[n])
  BY SessionsAssumption DEF Init, Readable, IsFile, File
<1>2. NotesKept
  BY DEF Init, NotesKept
<1>3. files = [n \in Names |-> files[n]] /\ notes \in Seq(Names) /\ said \in [Sessions -> Nat]
  BY EmptySeq DEF Init
<1>4. day \in 1..MaxDay
  BY SessionsAssumption DEF Init
<1> QED
  BY <1>1, <1>2, <1>3, <1>4 DEF Init, NotesInv, HookShape

\* Excuses are not taken back, and what hooks carry does not depend on them otherwise.
LEMMA HooksCarry ==
  ASSUME excused \subseteq excused', NEW g \in Stops, HookShape(stop'[g])
  PROVE  HookShape(stop[g])'
BY DEF HookShape

\* A whole file's notes are those of its body.
LEMMA NotesOfFile == \A f : NotesIn(f) = IF f.kind = "whole" THEN NotesOf(f.body) ELSE {}
BY DEF NotesIn, NotesOf, Blocks

\* A hook starts.
LEMMA FiresKeeps ==
  ASSUME NotesInv, NEW h \in Stops, NEW s \in Sessions, StopFires(h, s)
  PROVE  NotesInv'
<1> DEFINE n == [dir |-> "session-data", day |-> day, id |-> ShortId[s]]
           k == [pc |-> "read", session |-> s, name |-> n, said |-> said[s]]
<1>1. /\ stop[h].pc = "idle" /\ stop' = [stop EXCEPT ![h] = k]
      /\ files' = files /\ notes' = notes /\ said' = said /\ day' = day /\ excused' = excused
  BY DEF StopFires
<1>2. n \in Names
  <2>1. day \in 1..MaxDay /\ ShortId[s] \in Ids
    BY DEF NotesInv, Ids
  <2> QED
    BY <2>1 DEF Names
<1>3. k = [pc |-> "read", session |-> k.session, name |-> k.name, said |-> k.said]
      /\ k.name = n /\ k.said = said[s] /\ said[s] \in Nat /\ k.pc = "read"
  BY DEF NotesInv
<1> HIDE DEF k, n
<1>4. HookShape(k)
  BY <1>2, <1>3 DEF HookShape
<1>5. NotesKept'
  BY <1>1 DEF NotesInv, NotesKept, Writers
<1>6. \A g \in Stops : HookShape(stop[g])'
  <2>1. \A g \in Stops : HookShape(stop'[g])
    BY <1>1, <1>4 DEF NotesInv
  <2> QED
    BY <1>1, <2>1 DEF HookShape
<1> QED
  BY <1>1, <1>5, <1>6 DEF NotesInv

\* What a hook that has read a file is going to write is whole, and has the notes
\* that are to be spared.
LEMMA WrittenSpares ==
  ASSUME NEW k, k.said \in Nat, NEW f, Readable(f), f # Empty
  PROVE  /\ Written(k, f).kind = "whole" /\ IsFile(Written(k, f))
         /\ Spared(f) \subseteq NotesIn(Written(k, f))
<1> DEFINE header == HeaderOf(k.session)
<1>1. \A b \in Seq(BlockSet) : /\ File(header, b, k.name.day).kind = "whole"
                               /\ File(header, b, k.name.day).body = b
                               /\ IsFile(File(header, b, k.name.day))
  BY DEF File, IsFile
<1> HIDE DEF header
<1>2. CASE f = Missing
  <2>1. Summary(k.said) \in BlockSet /\ Placeholder \in BlockSet
    BY DEF Summary, BlockSet
  <2>2. NewBody(k.said) \in Seq(BlockSet)
    BY <2>1 DEF NewBody
  <2>3. Written(k, f) = File(header, NewBody(k.said), k.name.day)
    BY <1>2 DEF Written, header
  <2>4. Spared(f) = {}
    BY <1>2 DEF Spared, NotesIn, Blocks, Missing
  <2> QED
    BY <1>1, <2>2, <2>3, <2>4
<1>3. CASE f # Missing
  <2>1. f.kind = "whole" /\ f.body \in Seq(BlockSet)
    BY <1>3 DEF Readable, IsFile
  <2>2. Written(k, f) = File(header, WithSummary(f.body, k.said), k.name.day)
    BY <1>3 DEF Written, header
  <2>3. WithSummary(f.body, k.said) \in Seq(BlockSet)
    BY <2>1, SummarySpares
  <2>4. NotesIn(Written(k, f)) = NotesOf(WithSummary(f.body, k.said))
    BY <1>1, <2>2, <2>3, NotesOfFile
  <2>5. Spared(f) \subseteq NotesOf(WithSummary(f.body, k.said))
    BY <2>1, SummarySpares, NotesOfFile DEF Spared, Blocks
  <2> QED
    BY <1>1, <2>2, <2>3, <2>4, <2>5
<1> QED
  BY <1>2, <1>3

\* A hook reads the file.
LEMMA ReadsKeeps ==
  ASSUME NotesInv, NEW h \in Stops, StopReads(h)
  PROVE  NotesInv'
<1> DEFINE n == stop[h].name
           k == [pc |-> "open", session |-> stop[h].session, name |-> n, said |-> stop[h].said,
                 read |-> files[n], next |-> Written(stop[h], files[n])]
<1>1. /\ stop[h].pc = "read" /\ stop' = [stop EXCEPT ![h] = IF files[n] = Empty THEN Idle ELSE k]
      /\ files' = files /\ notes' = notes /\ said' = said /\ day' = day /\ excused' = excused
  BY DEF StopReads, fileVars
<1>2. n \in Names /\ stop[h].said \in Nat
  BY <1>1 DEF NotesInv, HookShape, Idle
<1>3. files[n] # Empty => HookShape(k)
  <2>1. files[n] # Empty => /\ Written(stop[h], files[n]).kind = "whole" /\ IsFile(Written(stop[h], files[n]))
                            /\ Spared(files[n]) \subseteq NotesIn(Written(stop[h], files[n]))
    BY <1>2, WrittenSpares DEF NotesInv
  <2>2. /\ k = [pc |-> k.pc, session |-> k.session, name |-> k.name, said |-> k.said,
                read |-> k.read, next |-> k.next]
        /\ k.pc = "open" /\ k.name = n /\ k.said = stop[h].said
        /\ k.read = files[n] /\ k.next = Written(stop[h], files[n])
    OBVIOUS
  <2> HIDE DEF k
  <2> QED
    BY <1>2, <2>1, <2>2 DEF HookShape
<1>4. k.pc # "fill"
  OBVIOUS
<1> HIDE DEF k, n
<1>5. \A g \in Stops : HookShape(stop[g])'
  <2>1. HookShape(Idle)
    BY DEF HookShape
  <2>2. \A g \in Stops : HookShape(stop'[g])
    BY <1>1, <1>3, <2>1 DEF NotesInv
  <2> QED
    BY <1>1, <2>2 DEF HookShape
<1>6. NotesKept'
  BY <1>1, <1>4 DEF NotesInv, NotesKept, Writers
<1> QED
  BY <1>1, <1>5, <1>6 DEF NotesInv

\* A hook empties the file: the notes it has not read are excused, and those it
\* has are in its hands.
LEMMA OpensKeeps ==
  ASSUME NotesInv, NEW h \in Stops, StopOpens(h)
  PROVE  NotesInv'
<1> DEFINE n == stop[h].name
           k == stop[h]
<1>1. /\ k.pc = "open" /\ files' = [files EXCEPT ![n] = Empty]
      /\ stop' = [stop EXCEPT ![h].pc = "fill"]
      /\ excused' = excused \cup (NotesIn(files[n]) \ NotesIn(k.read))
                      \cup (NotesIn(k.read) \ (NotesIn(k.next) \cup Spared(k.read)))
      /\ notes' = notes /\ said' = said /\ day' = day
  BY DEF StopOpens
<1>2. /\ k = [pc |-> k.pc, session |-> k.session, name |-> k.name, said |-> k.said,
              read |-> k.read, next |-> k.next]
      /\ n \in Names /\ k.said \in Nat
      /\ k.next.kind = "whole" /\ IsFile(k.next) /\ Spared(k.read) \subseteq NotesIn(k.next)
  <2>1. HookShape(k)
    BY DEF NotesInv
  <2>2. ASSUME NEW c, HookShape(c), c.pc = "open"
        PROVE  /\ c = [pc |-> c.pc, session |-> c.session, name |-> c.name, said |-> c.said,
                       read |-> c.read, next |-> c.next]
               /\ c.name \in Names /\ c.said \in Nat /\ c.next.kind = "whole" /\ IsFile(c.next)
               /\ Spared(c.read) \subseteq NotesIn(c.next)
    BY <2>2 DEF HookShape, Idle
  <2> QED
    BY <1>1, <2>1, <2>2
<1>3. /\ stop' = [g \in Stops |-> stop'[g]]
      /\ stop'[h] = [pc |-> "fill", session |-> k.session, name |-> n, said |-> k.said,
                     read |-> k.read, next |-> k.next]
      /\ \A g \in Stops \ {h} : stop'[g] = stop[g]
  <2>1. [k EXCEPT !.pc = "fill"] = [pc |-> "fill", session |-> k.session, name |-> k.name, said |-> k.said,
                                    read |-> k.read, next |-> k.next]
    BY <1>2
  <2>2. stop' = [stop EXCEPT ![h] = [stop[h] EXCEPT !.pc = "fill"]]
    BY <1>1
  <2> QED
    BY <2>1, <2>2 DEF NotesInv
<1>4. NotesIn(k.read) \subseteq NotesIn(k.next) \cup excused'
  BY <1>1, <1>2
<1>5. NotesIn(files[n]) \subseteq NotesIn(k.next) \cup excused'
  BY <1>1, <1>4
<1>6. \A g \in Stops : HookShape(stop[g])'
  <2>1. HookShape(stop[h])'
    BY <1>2, <1>3, <1>4 DEF HookShape
  <2>2. ASSUME NEW g \in Stops \ {h} PROVE HookShape(stop[g])'
    BY <1>1, <1>3, HooksCarry DEF NotesInv
  <2> QED
    BY <2>1, <2>2
<1>7. NotesKept'
  <2> SUFFICES ASSUME NEW i \in DOMAIN notes
               PROVE  \/ i \in excused' \/ i \in NotesIn(files'[notes[i]])
                      \/ \E g \in Stops : /\ stop'[g].pc # "idle" /\ stop'[g].name = notes[i]
                                          /\ stop'[g].pc = "fill" /\ i \in NotesIn(stop'[g].next)
    BY <1>1 DEF NotesKept, Writers
  <2>1. CASE i \in excused
    BY <1>1, <2>1
  <2>2. CASE i \in NotesIn(files[notes[i]]) /\ notes[i] # n
    BY <1>1, <2>2 DEF NotesInv
  <2>3. CASE i \in NotesIn(files[notes[i]]) /\ notes[i] = n
    BY <1>3, <1>5, <2>3
  <2>4. CASE \E g \in Writers(notes[i]) : stop[g].pc = "fill" /\ i \in NotesIn(stop[g].next)
    BY <1>1, <1>3, <2>4 DEF Writers
  <2> QED
    BY <2>1, <2>2, <2>3, <2>4 DEF NotesInv, NotesKept
<1>8. files' = [m \in Names |-> files'[m]] /\ \A m \in Names : Readable(files'[m])
  BY <1>1, <1>2 DEF NotesInv, Readable
<1> QED
  BY <1>1, <1>3, <1>6, <1>7, <1>8 DEF NotesInv

\* A hook fills the file: what it holds is where the user looks.
LEMMA FillsKeeps ==
  ASSUME NotesInv, NEW h \in Stops, StopFills(h)
  PROVE  NotesInv'
<1> DEFINE n == stop[h].name
           k == stop[h]
<1>1. /\ k.pc = "fill" /\ files' = [files EXCEPT ![n] = k.next]
      /\ stop' = [stop EXCEPT ![h] = Idle]
      /\ excused' = excused \cup (NotesIn(files[n]) \ NotesIn(k.read))
      /\ notes' = notes /\ said' = said /\ day' = day
  BY DEF StopFills
<1>2. /\ n \in Names /\ k.next.kind = "whole" /\ IsFile(k.next)
      /\ NotesIn(k.read) \subseteq NotesIn(k.next) \cup excused
  BY <1>1 DEF NotesInv, HookShape, Idle
<1>3. NotesIn(files[n]) \subseteq NotesIn(k.next) \cup excused'
  BY <1>1, <1>2
<1>4. \A g \in Stops : HookShape(stop[g])'
  <2>1. HookShape(Idle)
    BY DEF HookShape
  <2>2. \A g \in Stops : HookShape(stop'[g])
    BY <1>1, <2>1 DEF NotesInv
  <2> QED
    BY <1>1, <2>2, HooksCarry
<1>5. NotesKept'
  <2> SUFFICES ASSUME NEW i \in DOMAIN notes
               PROVE  \/ i \in excused' \/ i \in NotesIn(files'[notes[i]])
                      \/ \E g \in Stops : /\ stop'[g].pc # "idle" /\ stop'[g].name = notes[i]
                                          /\ stop'[g].pc = "fill" /\ i \in NotesIn(stop'[g].next)
    BY <1>1 DEF NotesKept, Writers
  <2>1. CASE i \in excused
    BY <1>1, <2>1
  <2>2. CASE i \in NotesIn(files[notes[i]]) /\ notes[i] # n
    BY <1>1, <2>2 DEF NotesInv
  <2>3. CASE i \in NotesIn(files[notes[i]]) /\ notes[i] = n
    BY <1>1, <1>2, <1>3, <2>3 DEF NotesInv
  <2>4. ASSUME NEW g \in Writers(notes[i]), stop[g].pc = "fill" /\ i \in NotesIn(stop[g].next)
        PROVE  \/ i \in NotesIn(files'[notes[i]])
               \/ /\ stop'[g].pc # "idle" /\ stop'[g].name = notes[i]
                  /\ stop'[g].pc = "fill" /\ i \in NotesIn(stop'[g].next)
    BY <1>1, <1>2, <2>4 DEF Writers, NotesInv
  <2> QED
    BY <2>1, <2>2, <2>3, <2>4 DEF NotesInv, NotesKept, Writers
<1>6. files' = [m \in Names |-> files'[m]] /\ \A m \in Names : Readable(files'[m])
  BY <1>1, <1>2 DEF NotesInv, Readable
<1> QED
  BY <1>1, <1>4, <1>5, <1>6 DEF NotesInv

\* A hook is killed: the notes in its hands are excused.
LEMMA KilledKeeps ==
  ASSUME NotesInv, NEW h \in Stops, StopKilled(h)
  PROVE  NotesInv'
<1>1. /\ excused' = excused \cup (IF stop[h].pc = "fill" THEN NotesIn(stop[h].next) ELSE {})
      /\ stop' = [stop EXCEPT ![h] = Idle]
      /\ files' = files /\ notes' = notes /\ said' = said /\ day' = day
  BY DEF StopKilled
<1>2. \A g \in Stops : HookShape(stop[g])'
  <2>1. HookShape(Idle)
    BY DEF HookShape
  <2>2. \A g \in Stops : HookShape(stop'[g])
    BY <1>1, <2>1 DEF NotesInv
  <2> QED
    BY <1>1, <2>2, HooksCarry
<1>3. NotesKept'
  <2> SUFFICES ASSUME NEW i \in DOMAIN notes
               PROVE  \/ i \in excused' \/ i \in NotesIn(files[notes[i]])
                      \/ \E g \in Stops : /\ stop'[g].pc # "idle" /\ stop'[g].name = notes[i]
                                          /\ stop'[g].pc = "fill" /\ i \in NotesIn(stop'[g].next)
    BY <1>1 DEF NotesKept, Writers
  <2>1. ASSUME NEW g \in Writers(notes[i]), stop[g].pc = "fill" /\ i \in NotesIn(stop[g].next)
        PROVE  \/ i \in excused'
               \/ /\ stop'[g].pc # "idle" /\ stop'[g].name = notes[i]
                  /\ stop'[g].pc = "fill" /\ i \in NotesIn(stop'[g].next)
    BY <1>1, <2>1 DEF Writers, NotesInv
  <2> QED
    BY <1>1, <2>1 DEF NotesInv, NotesKept, Writers
<1> QED
  BY <1>1, <1>2, <1>3 DEF NotesInv

\* A block at the end of a body takes no note away.
LEMMA AppendNotes ==
  ASSUME NEW body \in Seq(BlockSet), NEW b \in BlockSet
  PROVE  /\ Append(body, b) \in Seq(BlockSet)
         /\ NotesOf(body) \subseteq NotesOf(Append(body, b))
         /\ b.block = "note" => b.note \in NotesOf(Append(body, b))
<1> DEFINE new == Append(body, b)
<1>1. /\ new \in Seq(BlockSet) /\ Len(new) = Len(body) + 1 /\ new[Len(body) + 1] = b
      /\ \A i \in 1..Len(body) : new[i] = body[i]
  BY AppendProperties
<1>2. DOMAIN new = 1..Len(new) /\ DOMAIN body = 1..Len(body) /\ Len(body) \in Nat
  BY <1>1, LenProperties
<1> HIDE DEF new
<1>3. NotesOf(body) \subseteq NotesOf(new)
  <2>1. \A i \in DOMAIN body : i \in DOMAIN new /\ new[i] = body[i]
    BY <1>1, <1>2
  <2> QED
    BY <2>1 DEF NotesOf
<1>4. b.block = "note" => b.note \in NotesOf(new)
  <2>1. Len(body) + 1 \in DOMAIN new
    BY <1>1, <1>2
  <2> QED
    BY <1>1, <2>1 DEF NotesOf
<1> QED
  BY <1>1, <1>3, <1>4 DEF new

\* Where no hook moves, notes are kept if each file keeps those it holds.
LEMMA FilesKeep ==
  ASSUME NotesInv, stop' = stop, said' = said, day' \in 1..MaxDay, notes' = notes,
         files' = [n \in Names |-> files'[n]], excused \subseteq excused',
         \A n \in Names : Readable(files'[n]) /\ NotesIn(files[n]) \subseteq NotesIn(files'[n]) \cup excused'
  PROVE  NotesInv'
<1>1. \A g \in Stops : HookShape(stop[g])'
  BY HooksCarry DEF NotesInv
<1>2. NotesKept'
  <2> SUFFICES ASSUME NEW i \in DOMAIN notes
               PROVE  \/ i \in excused' \/ i \in NotesIn(files'[notes[i]])
                      \/ \E g \in Writers(notes[i]) : stop[g].pc = "fill" /\ i \in NotesIn(stop[g].next)
    BY DEF NotesKept, Writers
  <2>1. notes[i] \in Names
    BY LenProperties, ElementOfSeq DEF NotesInv
  <2> QED
    BY <2>1 DEF NotesInv, NotesKept
<1> QED
  BY <1>1, <1>2 DEF NotesInv

\* A user writes a note.
LEMMA UserKeeps ==
  ASSUME NotesInv, NEW n \in Names, UserNotes(n)
  PROVE  NotesInv'
<1> DEFINE f == files[n]
           b == Note(Len(notes) + 1)
           new == File(f.header, Append(f.body, b), day)
<1>1. /\ f.kind = "whole" /\ notes' = Append(notes, n) /\ excused' = excused
      /\ files' = [files EXCEPT ![n].body = Append(@, b), ![n].day = day]
      /\ said' = said /\ day' = day /\ stop' = stop
  BY DEF UserNotes
<1>2. f = [kind |-> "whole", header |-> f.header, body |-> f.body, day |-> f.day] /\ f.body \in Seq(BlockSet)
  BY <1>1 DEF NotesInv, Readable, IsFile, File, Missing, Empty
<1>3. files' = [files EXCEPT ![n] = new]
  <2>1. [[f EXCEPT !.body = Append(f.body, b)] EXCEPT !.day = day] = new
    <3>1. [f EXCEPT !.body = Append(f.body, b)]
            = [kind |-> "whole", header |-> f.header, body |-> Append(f.body, b), day |-> f.day]
      <4>1. ASSUME NEW r, NEW x, NEW y, NEW z, NEW c, r = [kind |-> "whole", header |-> x, body |-> y, day |-> z]
            PROVE  [r EXCEPT !.body = c] = [kind |-> "whole", header |-> x, body |-> c, day |-> z]
        BY <4>1
      <4>2. f = [kind |-> "whole", header |-> f.header, body |-> f.body, day |-> f.day]
        BY <1>2
      <4>3. PICK r, x, y, z, c : /\ r = f /\ x = f.header /\ y = f.body /\ z = f.day
                                 /\ c = Append(f.body, b)
        OBVIOUS
      <4> HIDE DEF f, b
      <4>4. r = [kind |-> "whole", header |-> x, body |-> y, day |-> z]
        BY <4>2, <4>3
      <4>5. [r EXCEPT !.body = c] = [kind |-> "whole", header |-> x, body |-> c, day |-> z]
        BY <4>1, <4>4
      <4> QED
        BY <4>3, <4>5
    <3>2. ASSUME NEW r, NEW c, r = [kind |-> "whole", header |-> f.header, body |-> c, day |-> f.day]
          PROVE  [r EXCEPT !.day = day] = [kind |-> "whole", header |-> f.header, body |-> c, day |-> day]
      BY <3>2
    <3> QED
      BY <3>1, <3>2 DEF File
  <2>2. files' = [files EXCEPT ![n] = [[f EXCEPT !.body = Append(f.body, b)] EXCEPT !.day = day]]
    BY <1>1 DEF NotesInv
  <2> QED
    BY <2>1, <2>2
<1>4. Len(notes) \in Nat /\ DOMAIN notes = 1..Len(notes)
  BY LenProperties DEF NotesInv
<1>5. b \in BlockSet /\ b.block = "note" /\ b.note = Len(notes) + 1
  BY <1>4 DEF Note, BlockSet
<1>6. new.kind = "whole" /\ new.body = Append(f.body, b) /\ new = File(new.header, new.body, new.day)
  BY DEF File
<1>7. IsFile(new) /\ NotesOf(f.body) \subseteq NotesOf(new.body) /\ Len(notes) + 1 \in NotesOf(new.body)
  <2>1. /\ Append(f.body, b) \in Seq(BlockSet) /\ NotesOf(f.body) \subseteq NotesOf(Append(f.body, b))
        /\ b.note \in NotesOf(Append(f.body, b))
    BY <1>2, <1>5, AppendNotes
  <2> QED
    BY <1>5, <1>6, <2>1 DEF IsFile
<1> HIDE DEF b, new
<1>8. NotesIn(f) \subseteq NotesIn(new) /\ Len(notes) + 1 \in NotesIn(new)
  BY <1>1, <1>6, <1>7, NotesOfFile
<1>9. /\ notes' \in Seq(Names) /\ notes'[Len(notes) + 1] = n
      /\ DOMAIN notes' = DOMAIN notes \cup {Len(notes) + 1}
      /\ \A i \in DOMAIN notes : notes'[i] = notes[i]
  <2>1. /\ notes' \in Seq(Names) /\ Len(notes') = Len(notes) + 1 /\ notes'[Len(notes) + 1] = n
        /\ \A i \in 1..Len(notes) : notes'[i] = notes[i]
    BY <1>1, AppendProperties DEF NotesInv
  <2>2. DOMAIN notes' = 1..Len(notes')
    BY <2>1, LenProperties
  <2> QED
    BY <1>4, <2>1, <2>2
<1>10. files'[n] = new /\ \A m \in Names \ {n} : files'[m] = files[m]
  BY <1>3 DEF NotesInv
<1>11. NotesKept'
  <2> SUFFICES ASSUME NEW i \in DOMAIN notes'
               PROVE  \/ i \in excused \/ i \in NotesIn(files'[notes'[i]])
                      \/ \E g \in Writers(notes'[i]) : stop[g].pc = "fill" /\ i \in NotesIn(stop[g].next)
    BY <1>1 DEF NotesKept, Writers
  <2>1. CASE i = Len(notes) + 1
    BY <1>8, <1>9, <1>10, <2>1
  <2>2. CASE i \in DOMAIN notes
    <3>1. notes'[i] = notes[i] /\ notes[i] \in Names
      BY <1>4, <1>9, <2>2, ElementOfSeq DEF NotesInv
    <3>2. NotesIn(files[notes[i]]) \subseteq NotesIn(files'[notes[i]])
      BY <1>8, <1>10, <3>1
    <3> QED
      BY <2>2, <3>1, <3>2 DEF NotesInv, NotesKept
  <2> QED
    BY <1>9, <2>1, <2>2
<1>12. files' = [m \in Names |-> files'[m]] /\ \A m \in Names : Readable(files'[m])
  BY <1>3, <1>6, <1>7 DEF NotesInv, Readable
<1>13. \A g \in Stops : HookShape(stop[g])'
  BY <1>1, HooksCarry DEF NotesInv
<1> QED
  BY <1>1, <1>9, <1>11, <1>12, <1>13 DEF NotesInv

\* A compaction appends to a file, or makes it.
LEMMA CompactKeeps ==
  ASSUME NotesInv, CompactAppends
  PROVE  NotesInv'
<1> DEFINE n == compact.name
           f == files[n]
           new == IF f.kind = "whole" THEN File(f.header, Append(f.body, Mark), day)
                  ELSE File(NoHeader, <<Mark>>, day)
<1>1. /\ files' = [files EXCEPT ![n] = new]
      /\ notes' = notes /\ excused' = excused /\ said' = said /\ day' = day /\ stop' = stop
  BY DEF CompactAppends
<1>2. Mark \in BlockSet
  BY DEF BlockSet
<1>3. ASSUME n \in Names
      PROVE  new.kind = "whole" /\ IsFile(new) /\ NotesIn(f) \subseteq NotesIn(new)
  <2>1. ASSUME NEW h, NEW b \in Seq(BlockSet)
        PROVE  File(h, b, day).kind = "whole" /\ File(h, b, day).body = b /\ IsFile(File(h, b, day))
    BY DEF File, IsFile
  <2>2. CASE f.kind = "whole"
    <3>1. f.body \in Seq(BlockSet)
      BY <1>3, <2>2 DEF NotesInv, Readable, IsFile, Missing, Empty
    <3>2. Append(f.body, Mark) \in Seq(BlockSet) /\ NotesOf(f.body) \subseteq NotesOf(Append(f.body, Mark))
      BY <1>2, <3>1, AppendNotes
    <3> QED
      BY <2>1, <2>2, <3>1, <3>2, NotesOfFile
  <2>3. CASE f.kind # "whole"
    <3>1. <<Mark>> \in Seq(BlockSet)
      BY <1>2
    <3> QED
      BY <2>1, <2>3, <3>1, NotesOfFile
  <2> QED
    BY <2>2, <2>3
<1> HIDE DEF new
<1>4. files' = [m \in Names |-> files'[m]]
  BY <1>1 DEF NotesInv
<1>5. \A m \in Names : Readable(files'[m]) /\ NotesIn(files[m]) \subseteq NotesIn(files'[m]) \cup excused'
  BY <1>1, <1>3 DEF NotesInv, Readable
<1>6. day' \in 1..MaxDay /\ excused \subseteq excused'
  BY <1>1 DEF NotesInv
<1> QED
  BY <1>1, <1>4, <1>5, <1>6, FilesKeep

\* Expired files are removed; their notes are excused.
LEMMA PruneKeeps ==
  ASSUME NotesInv, NEW s \in Sessions, Prune(s)
  PROVE  NotesInv'
<1>1. PICK expired \in SUBSET Names :
        /\ files' = [n \in Names |-> IF n \in expired THEN Missing ELSE files[n]]
        /\ excused' = excused \cup UNION {NotesIn(files[n]) : n \in expired}
  BY DEF Prune
<1>2. notes' = notes /\ said' = said /\ day' = day /\ stop' = stop
  BY DEF Prune
<1>3. \A m \in Names : Readable(files'[m]) /\ NotesIn(files[m]) \subseteq NotesIn(files'[m]) \cup excused'
  BY <1>1 DEF NotesInv, Readable
<1> QED
  BY <1>1, <1>2, <1>3, FilesKeep DEF NotesInv

LEMMA NotesStep == NotesInv /\ [Next]_vars => NotesInv'
<1> SUFFICES ASSUME NotesInv, [Next]_vars PROVE NotesInv'
  OBVIOUS
<1>1. CASE StopHooks
  BY <1>1, FiresKeeps, ReadsKeeps, OpensKeeps, FillsKeeps, KilledKeeps DEF StopHooks
<1>2. CASE \E n \in Names : UserNotes(n)
  BY <1>2, UserKeeps
<1>3. CASE CompactAppends
  BY <1>3, CompactKeeps
<1>4. CASE \E s \in Sessions : Prune(s)
  BY <1>4, PruneKeeps
<1>5. CASE \E s \in Sessions : UserSays(s)
  <2>1. /\ files' = files /\ notes' = notes /\ excused' = excused /\ day' = day /\ stop' = stop
        /\ said' \in [Sessions -> Nat]
    BY <1>5 DEF UserSays, fileVars, NotesInv
  <2>2. \A g \in Stops : HookShape(stop[g])'
    BY <2>1, HooksCarry DEF NotesInv
  <2>3. NotesKept'
    BY <2>1 DEF NotesInv, NotesKept, Writers
  <2> QED
    BY <2>1, <2>2, <2>3 DEF NotesInv
<1>6. CASE NextDay
  <2>1. /\ files' = files /\ notes' = notes /\ excused' = excused /\ said' = said /\ stop' = stop
        /\ day' \in 1..MaxDay
    BY <1>6, SessionsAssumption DEF NextDay, fileVars, NotesInv
  <2> QED
    BY <2>1, FilesKeep DEF NotesInv
<1>7. CASE UNCHANGED <<files, notes, excused, said, day, stop>>
  BY <1>7, FilesKeep DEF NotesInv
<1>8. \A s \in Sessions :
        TakeLease(s) \/ ListRecent(s) \/ SelectNext(s) \/ SelectEnds(s) \/ Inject(s) \/ CompactPicks(s)
          => UNCHANGED <<files, notes, excused, said, day, stop>>
  BY DEF TakeLease, ListRecent, SelectNext, SelectEnds, Inject, CompactPicks, fileVars
<1>9. Observing \/ UNCHANGED vars => UNCHANGED <<files, notes, excused, said, day, stop>>
  BY ObservingSpares DEF fileVars, vars
<1> QED
  BY <1>1, <1>2, <1>3, <1>4, <1>5, <1>6, <1>7, <1>8, <1>9 DEF Next, Starts

\* What the user wrote in a session file stays there through any number of
\* hooks, but for the notes that are excused (session-end.js, main).
THEOREM NotesAreKept == Spec => []NotesKept
<1>1. NotesInv => NotesKept
  BY DEF NotesInv
<1> QED
  BY <1>1, NotesBegin, NotesStep, PTL DEF Spec
-----------------------------------------------------------------------------
(* The summary.                                                            *)

SumsOf(body) == {i \in DOMAIN body : body[i].block = "summary"}
PlacesOf(body) == {i \in DOMAIN body : body[i].block = "placeholder"}

\* A body with one summary of n messages, and one with a summary or a
\* placeholder for it.
OneSummary(body, n) == \E i \in SumsOf(body) : SumsOf(body) = {i} /\ body[i].said = n
GoodBody(body) == IF SumsOf(body) = {} THEN PlacesOf(body) # {} ELSE \E i \in SumsOf(body) : SumsOf(body) = {i}

Holds(body, n) == GoodBody(body) /\ (n > 0 => OneSummary(body, n))

\* What the last stop hook told stands in the file, and will stand there when
\* the hook that is at work has written it.
FileTold(n) ==
  /\ files[n].kind = "whole" => Holds(files[n].body, told[n])
  /\ files[n] = Missing => told[n] = 0
  /\ files[n] = Empty => \E h \in Writers(n) : stop[h].pc = "fill"
HookTold(k) ==
  k.pc \in {"open", "fill"} => Holds(k.next.body, IF k.said = 0 THEN told[k.name] ELSE k.said)

SummaryInv ==
  /\ NotesInv /\ told \in [Names -> Nat]
  /\ \A n \in Names \ disturbed : FileTold(n)
  /\ \A n \in Names \ disturbed : \A g, h \in Writers(n) : g = h
  /\ \A h \in Stops : stop[h].pc # "idle" /\ stop[h].name \notin disturbed => HookTold(stop[h])
LEMMA BlocksOfFile == \A f : f.kind = "whole" => /\ Blocks(f, "summary") = SumsOf(f.body)
                                                 /\ Blocks(f, "placeholder") = PlacesOf(f.body)
BY DEF Blocks, SumsOf, PlacesOf

\* The new summary is the only one, or there is still none to be replaced.
LEMMA SummaryMade ==
  ASSUME NEW body \in Seq(BlockSet), NEW n \in Nat, NEW m \in Nat, Holds(body, m)
  PROVE  Holds(WithSummary(body, n), IF n = 0 THEN m ELSE n)
<1>1. /\ DOMAIN body = 1..Len(body) /\ Len(body) \in Nat
      /\ SumsOf(body) \in SUBSET Nat /\ PlacesOf(body) \in SUBSET Nat
  BY LenProperties DEF SumsOf, PlacesOf
<1>2. Summary(n).block = "summary" /\ Summary(n).said = n /\ Summary(n) \in BlockSet
  BY DEF Summary, BlockSet
<1>3. CASE n = 0
  BY <1>3 DEF WithSummary
<1>4. ASSUME n # 0, NEW new, NEW i \in DOMAIN new, SumsOf(new) = {i}, new[i] = Summary(n)
      PROVE  Holds(new, n)
  BY <1>2, <1>4 DEF Holds, OneSummary, GoodBody
<1>5. CASE n # 0 /\ SumsOf(body) # {}
  <2>1. PICK i \in SumsOf(body) : SumsOf(body) = {i}
    BY <1>5 DEF Holds, GoodBody
  <2>2. Min(SumsOf(body)) = i
    BY <1>1, <2>1, MinOfSet
  <2>3. PICK new : new = [body EXCEPT ![i] = Summary(n)]
    OBVIOUS
  <2>4. WithSummary(body, n) = new
    BY <1>5, <2>2, <2>3 DEF WithSummary, SumsOf
  <2>5. i \in DOMAIN new /\ new[i] = Summary(n)
    BY <2>1, <2>3 DEF SumsOf
  <2>6. SumsOf(new) = {i}
    <3>1. DOMAIN new = DOMAIN body /\ \A j \in DOMAIN body \ {i} : new[j] = body[j]
      BY <2>3
    <3>2. \A j \in DOMAIN body : body[j].block = "summary" <=> j = i
      BY <2>1 DEF SumsOf
    <3>3. \A j \in DOMAIN new : new[j].block = "summary" <=> j = i
      BY <1>2, <2>5, <3>1, <3>2
    <3>4. QED
      BY <2>5, <3>3 DEF SumsOf
  <2>7. QED
    BY <1>4, <1>5, <2>4, <2>5, <2>6
<1>6. CASE n # 0 /\ SumsOf(body) = {}
  <2>1. PlacesOf(body) # {}
    BY <1>6 DEF Holds, GoodBody
  <2>2. PICK p : p = Min(PlacesOf(body))
    OBVIOUS
  <2>3. p \in 1..Len(body)
    BY <1>1, <2>1, <2>2, MinOfSet DEF PlacesOf
  <2>4. PICK cut : cut = SubSeq(body, 1, p - 1)
    OBVIOUS
  <2>5. /\ cut \in Seq(BlockSet) /\ Len(cut) = p - 1 /\ p - 1 \in Nat
        /\ \A j \in 1..(p - 1) : cut[j] = body[j]
    BY <1>1, <2>3, <2>4
  <2>6. PICK new : new = Append(cut, Summary(n))
    OBVIOUS
  <2>7. WithSummary(body, n) = new
    <3>1. WithSummary(body, n) = IF n = 0 THEN body
                                 ELSE IF SumsOf(body) # {} THEN [body EXCEPT ![Min(SumsOf(body))] = Summary(n)]
                                 ELSE IF PlacesOf(body) # {}
                                 THEN Append(SubSeq(body, 1, Min(PlacesOf(body)) - 1), Summary(n)) ELSE body
      BY DEF WithSummary, SumsOf, PlacesOf
    <3>2. QED
      BY <1>6, <2>1, <2>2, <2>4, <2>6, <3>1
  <2>8. /\ new \in Seq(BlockSet) /\ Len(new) = p /\ new[p] = Summary(n)
        /\ \A j \in 1..(p - 1) : new[j] = cut[j]
    <3>1. /\ new \in Seq(BlockSet) /\ Len(new) = Len(cut) + 1 /\ new[Len(cut) + 1] = Summary(n)
          /\ \A j \in 1..Len(cut) : new[j] = cut[j]
      BY <1>2, <2>5, <2>6, AppendProperties
    <3>2. Len(cut) = p - 1 /\ Len(cut) + 1 = p
      BY <2>3, <2>5
    <3>3. QED
      BY <3>1, <3>2
  <2>9. DOMAIN new = 1..p
    BY <2>8, LenProperties
  <2>10. \A j \in 1..(p - 1) : new[j].block # "summary"
    BY <1>1, <1>6, <2>3, <2>5, <2>8 DEF SumsOf
  <2>11. SumsOf(new) = {p}
    BY <1>2, <2>3, <2>8, <2>9, <2>10 DEF SumsOf
  <2>12. QED
    BY <1>4, <1>6, <2>3, <2>7, <2>8, <2>9, <2>11
<1>7. QED
  BY <1>3, <1>5, <1>6

LEMMA SummaryBegun ==
  ASSUME NEW n \in Nat
  PROVE  Holds(NewBody(n), n)
<1>1. CASE n = 0
  <2>1. NewBody(n) = <<Placeholder>> /\ Placeholder.block = "placeholder"
    BY <1>1 DEF NewBody, Placeholder
  <2>2. SumsOf(NewBody(n)) = {} /\ 1 \in PlacesOf(NewBody(n))
    BY <2>1 DEF SumsOf, PlacesOf
  <2>3. QED
    BY <1>1, <2>2 DEF Holds, GoodBody
<1>2. CASE n # 0
  <2>1. NewBody(n) = <<Summary(n)>> /\ Summary(n).block = "summary" /\ Summary(n).said = n
    BY <1>2 DEF NewBody, Summary
  <2>2. SumsOf(NewBody(n)) = {1} /\ NewBody(n)[1].said = n
    BY <2>1 DEF SumsOf
  <2>3. QED
    BY <2>2 DEF Holds, GoodBody, OneSummary
<1>3. QED
  BY <1>1, <1>2

\* Notes and marks at the end of a body leave its summary.
LEMMA AppendHolds ==
  ASSUME NEW body \in Seq(BlockSet), NEW b \in BlockSet, b.block # "summary", NEW n \in Nat, Holds(body, n)
  PROVE  Holds(Append(body, b), n)
<1>1. PICK new : new = Append(body, b)
  OBVIOUS
<1>2. /\ Len(new) = Len(body) + 1 /\ new[Len(body) + 1] = b /\ new \in Seq(BlockSet)
      /\ \A i \in 1..Len(body) : new[i] = body[i]
  BY <1>1, AppendProperties
<1>3. DOMAIN new = 1..Len(new) /\ DOMAIN body = 1..Len(body) /\ Len(body) \in Nat
  BY <1>2, LenProperties
<1>4. SumsOf(new) = SumsOf(body) /\ PlacesOf(body) \subseteq PlacesOf(new)
  BY <1>2, <1>3 DEF SumsOf, PlacesOf
<1>5. \A i \in SumsOf(body) : new[i] = body[i]
  BY <1>2, <1>3 DEF SumsOf
<1>6. QED
  BY <1>1, <1>4, <1>5 DEF Holds, GoodBody, OneSummary

LEMMA SummaryBegins == Init => SummaryInv
<1> SUFFICES ASSUME Init
             PROVE  SummaryInv
  OBVIOUS
<1>1. \A n \in Names : told[n] = 0
  BY DEF Init
<1>2. \A n : Writers(n) = {} /\ \A h \in Stops : stop[h].pc = "idle"
  BY DEF Init, Writers, Idle
<1>3. ASSUME NEW n \in Names \ disturbed
      PROVE  FileTold(n)
  <2>1. CASE n \in DOMAIN FirstFiles
    <3>1. PICK f : f = FirstFiles[n]
      OBVIOUS
    <3>2. files[n] = f /\ IsFile(f) /\ Summarised(f)
      BY <2>1, <3>1, SessionsAssumption DEF Init
    <3>3. f.kind = "whole"
      BY <3>2 DEF IsFile, File
    <3>4. GoodBody(f.body)
      BY <3>2, <3>3, BlocksOfFile DEF Summarised, GoodBody
    <3>5. f # Missing /\ f # Empty
      BY <3>3 DEF Missing, Empty
    <3>6. QED
      BY <1>1, <3>2, <3>4, <3>5 DEF FileTold, Holds
  <2>2. CASE n \notin DOMAIN FirstFiles
    <3>1. files[n] = Missing /\ Missing # Empty /\ Missing.kind # "whole"
      BY <2>2 DEF Init, Missing, Empty
    <3>2. QED
      BY <1>1, <3>1 DEF FileTold
  <2>3. QED
    BY <2>1, <2>2
<1>4. told \in [Names -> Nat]
  BY DEF Init
<1>5. QED
  BY <1>2, <1>3, <1>4, NotesBegin DEF SummaryInv, HookTold
\* The file of a hook that is at work.
LEMMA HookNames ==
  ASSUME NotesInv, NEW h \in Stops, stop[h].pc # "idle"
  PROVE  /\ stop[h].name \in Names /\ stop[h].said \in Nat
         /\ stop[h].pc = "fill" => stop[h].next.kind = "whole"
<1>1. HookShape(stop[h])
  BY DEF NotesInv
<1>2. ASSUME NEW c, HookShape(c), c.pc # "idle"
      PROVE  c.name \in Names /\ c.said \in Nat /\ (c.pc = "fill" => c.next.kind = "whole")
  <2>1. c # Idle
    BY <1>2 DEF Idle
  <2>2. c = [pc |-> "read", session |-> c.session, name |-> c.name, said |-> c.said] => c.pc # "fill"
    OBVIOUS
  <2>3. QED
    BY <1>2, <2>1, <2>2 DEF HookShape
<1>3. QED
  BY <1>1, <1>2

\* The steps of stop hooks.
LEMMA FiresSums ==
  ASSUME SummaryInv, NotesInv', NEW h \in Stops, NEW s \in Sessions, StopFires(h, s)
  PROVE  SummaryInv'
<1>1. PICK n : /\ n = [dir |-> "session-data", day |-> day, id |-> ShortId[s]]
               /\ disturbed' = disturbed \cup (IF Writers(n) = {} THEN {} ELSE {n})
               /\ stop' = [stop EXCEPT ![h] = [pc |-> "read", session |-> s, name |-> n, said |-> said[s]]]
  BY DEF StopFires
<1>2. files' = files /\ told' = told /\ stop[h].pc = "idle"
  BY DEF StopFires
<1>3. stop'[h].pc = "read" /\ stop'[h].name = n /\ \A g \in Stops \ {h} : stop'[g] = stop[g]
  BY <1>1 DEF SummaryInv, NotesInv
<1>4. \A m : /\ Writers(m) \subseteq Writers(m)' /\ h \notin Writers(m)
             /\ Writers(m)' \subseteq Writers(m) \cup (IF m = n THEN {h} ELSE {})
  BY <1>2, <1>3 DEF Writers
<1>5. ASSUME NEW m \in Names \ disturbed'
      PROVE  FileTold(m)'
  <2>1. FileTold(m)
    BY <1>1, <1>5 DEF SummaryInv
  <2>2. ASSUME NEW g \in Writers(m), stop[g].pc = "fill"
        PROVE  g \in Writers(m)' /\ stop'[g].pc = "fill"
    BY <1>3, <1>4, <2>2 DEF Writers
  <2>3. QED
    BY <1>2, <2>1, <2>2 DEF FileTold
<1>6. \A m \in Names \ disturbed' : \A f, g \in Writers(m)' : f = g
  BY <1>1, <1>4 DEF SummaryInv
<1>7. \A g \in Stops : stop'[g].pc # "idle" /\ stop'[g].name \notin disturbed' => HookTold(stop[g])'
  BY <1>1, <1>2, <1>3 DEF SummaryInv, HookTold
<1>8. QED
  BY <1>2, <1>5, <1>6, <1>7 DEF SummaryInv

LEMMA ReadsSums ==
  ASSUME SummaryInv, NotesInv', NEW h \in Stops, StopReads(h)
  PROVE  SummaryInv'
<1>1. PICK n, k, f :
        /\ n = stop[h].name /\ f = files[n]
        /\ k = [pc |-> "open", session |-> stop[h].session, name |-> n, said |-> stop[h].said,
                read |-> f, next |-> Written(stop[h], f)]
  OBVIOUS
<1>2. /\ stop[h].pc = "read" /\ stop' = [stop EXCEPT ![h] = IF f = Empty THEN Idle ELSE k]
      /\ files' = files /\ told' = told /\ disturbed' = disturbed
  <2>1. /\ stop[h].pc = "read" /\ files' = files /\ told' = told /\ disturbed' = disturbed
        /\ stop' = [stop EXCEPT ![h] =
             IF files[stop[h].name] = Empty THEN Idle
             ELSE [pc |-> "open", session |-> stop[h].session, name |-> stop[h].name, said |-> stop[h].said,
                   read |-> files[stop[h].name], next |-> Written(stop[h], files[stop[h].name])]]
    BY DEF StopReads, fileVars
  <2>2. QED
    BY <1>1, <2>1
<1>3. /\ k.pc = "open" /\ k.name = n /\ k.said = stop[h].said /\ k.next = Written(stop[h], f)
      /\ n \in Names /\ k.said \in Nat
  <2>1. n \in Names /\ stop[h].said \in Nat
    BY <1>1, <1>2, HookNames DEF SummaryInv
  <2>2. QED
    BY <1>1, <2>1
<1>4. stop'[h] \in {Idle, k} /\ (f = Empty => stop'[h] = Idle) /\ \A g \in Stops \ {h} : stop'[g] = stop[g]
  BY <1>2 DEF SummaryInv, NotesInv
<1>5. \A m : /\ Writers(m)' \subseteq Writers(m)
             /\ \A g \in Writers(m) : stop[g].pc = "fill" => g \in Writers(m)' /\ stop'[g].pc = "fill"
  BY <1>1, <1>2, <1>3, <1>4 DEF Writers, Idle
<1>6. ASSUME NEW m \in Names \ disturbed'
      PROVE  FileTold(m)'
  BY <1>2, <1>5, <1>6 DEF SummaryInv, FileTold
<1>7. \A m \in Names \ disturbed' : \A g, i \in Writers(m)' : g = i
  BY <1>2, <1>5 DEF SummaryInv
<1>8. ASSUME n \notin disturbed, f # Empty
      PROVE  Holds(k.next.body, IF k.said = 0 THEN told[n] ELSE k.said)
  <2>1. FileTold(n) /\ Readable(f) /\ told[n] \in Nat
    BY <1>1, <1>3, <1>8 DEF SummaryInv, NotesInv
  <2>2. CASE f = Missing
    <3>1. k.next.body = NewBody(k.said)
      BY <1>3, <2>2 DEF Written, File
    <3>2. told[n] = 0
      BY <1>1, <2>1, <2>2 DEF FileTold
    <3>3. QED
      BY <1>3, <3>1, <3>2, SummaryBegun
  <2>3. CASE f # Missing
    <3>1. f.kind = "whole" /\ f.body \in Seq(BlockSet)
      BY <1>8, <2>1, <2>3 DEF Readable, IsFile
    <3>2. Holds(f.body, told[n])
      BY <1>1, <2>1, <3>1 DEF FileTold
    <3>3. k.next.body = WithSummary(f.body, k.said)
      BY <1>3, <2>3 DEF Written, File
    <3>4. QED
      BY <1>3, <2>1, <3>1, <3>2, <3>3, SummaryMade
  <2>4. QED
    BY <2>2, <2>3
<1>9. \A g \in Stops : stop'[g].pc # "idle" /\ stop'[g].name \notin disturbed' => HookTold(stop[g])'
  <2>1. stop'[h].pc # "idle" /\ stop'[h].name \notin disturbed' => HookTold(stop[h])'
    BY <1>2, <1>3, <1>4, <1>8 DEF HookTold, Idle
  <2>2. \A g \in Stops \ {h} : stop'[g].pc # "idle" /\ stop'[g].name \notin disturbed' => HookTold(stop[g])'
    BY <1>2, <1>4 DEF SummaryInv, HookTold
  <2>3. QED
    BY <2>1, <2>2
<1>10. QED
  BY <1>2, <1>6, <1>7, <1>9 DEF SummaryInv

LEMMA OpensSums ==
  ASSUME SummaryInv, NotesInv', NEW h \in Stops, StopOpens(h)
  PROVE  SummaryInv'
<1>1. PICK k, n : k = stop[h] /\ n = k.name
  OBVIOUS
<1>2. /\ k.pc = "open" /\ files' = [files EXCEPT ![n] = Empty]
      /\ stop' = [stop EXCEPT ![h] = [k EXCEPT !.pc = "fill"]]
      /\ told' = told /\ disturbed' = disturbed
  BY <1>1 DEF StopOpens
<1>3. /\ k = [pc |-> k.pc, session |-> k.session, name |-> k.name, said |-> k.said,
              read |-> k.read, next |-> k.next] /\ n \in Names
  BY <1>1, <1>2 DEF SummaryInv, NotesInv, HookShape, Idle
<1>4. PICK c : c = [pc |-> "fill", session |-> k.session, name |-> n, said |-> k.said,
                    read |-> k.read, next |-> k.next]
  OBVIOUS
<1>5. [k EXCEPT !.pc = "fill"] = c
  BY <1>1, <1>3, <1>4
<1>6. stop'[h] = c /\ \A g \in Stops \ {h} : stop'[g] = stop[g]
  BY <1>2, <1>5 DEF SummaryInv, NotesInv
<1>7. c.pc = "fill" /\ c.name = n /\ c.said = k.said /\ c.next = k.next
  BY <1>4
<1>8. \A m : /\ Writers(m)' = Writers(m)
             /\ \A g \in Writers(m) : stop[g].pc = "fill" => stop'[g].pc = "fill"
  BY <1>1, <1>2, <1>6, <1>7 DEF Writers
<1>9. ASSUME NEW m \in Names \ disturbed'
      PROVE  FileTold(m)'
  <2>1. CASE m = n
    <3>1. files'[m] = Empty /\ Empty # Missing /\ Empty.kind # "whole"
      BY <1>2, <2>1 DEF SummaryInv, NotesInv, Empty, Missing
    <3>2. h \in Writers(m)' /\ stop'[h].pc = "fill"
      BY <1>6, <1>7, <2>1 DEF Writers
    <3>3. QED
      BY <3>1, <3>2 DEF FileTold
  <2>2. CASE m # n
    <3>1. files'[m] = files[m]
      BY <1>2, <2>2 DEF SummaryInv, NotesInv
    <3>2. FileTold(m)
      BY <1>2, <1>9 DEF SummaryInv
    <3>3. QED
      BY <1>2, <1>8, <3>1, <3>2 DEF FileTold
  <2>3. QED
    BY <2>1, <2>2
<1>10. \A g \in Stops : stop'[g].pc # "idle" /\ stop'[g].name \notin disturbed' => HookTold(stop[g])'
  <2>1. stop'[h].name \notin disturbed' => HookTold(stop[h])'
    BY <1>1, <1>2, <1>6, <1>7 DEF SummaryInv, HookTold
  <2>2. \A g \in Stops \ {h} : stop'[g].pc # "idle" /\ stop'[g].name \notin disturbed' => HookTold(stop[g])'
    BY <1>2, <1>6 DEF SummaryInv, HookTold
  <2>3. QED
    BY <2>1, <2>2
<1>11. QED
  BY <1>2, <1>8, <1>9, <1>10 DEF SummaryInv
LEMMA FillsSums ==
  ASSUME SummaryInv, NotesInv', NEW h \in Stops, StopFills(h)
  PROVE  SummaryInv'
<1>1. PICK k, n : k = stop[h] /\ n = k.name
  OBVIOUS
<1>2. /\ k.pc = "fill" /\ files' = [files EXCEPT ![n] = k.next]
      /\ told' = [told EXCEPT ![n] = IF k.said = 0 THEN told[n] ELSE k.said]
      /\ stop' = [stop EXCEPT ![h] = Idle] /\ disturbed' = disturbed
  BY <1>1 DEF StopFills
<1>3. n \in Names /\ k.said \in Nat /\ k.next.kind = "whole"
  BY <1>1, <1>2, HookNames DEF SummaryInv
<1>4. stop'[h] = Idle /\ Idle.pc = "idle" /\ \A g \in Stops \ {h} : stop'[g] = stop[g]
  BY <1>2 DEF SummaryInv, NotesInv, Idle
<1>5. /\ \A m : Writers(m)' \subseteq Writers(m)
      /\ \A m : m # n => Writers(m)' = Writers(m) /\ h \notin Writers(m)
  BY <1>1, <1>4 DEF Writers
<1>6. /\ files'[n] = k.next /\ \A m \in Names \ {n} : files'[m] = files[m]
      /\ told'[n] = (IF k.said = 0 THEN told[n] ELSE k.said) /\ \A m \in Names \ {n} : told'[m] = told[m]
      /\ told' \in [Names -> Nat]
  BY <1>2, <1>3 DEF SummaryInv, NotesInv
<1>7. ASSUME NEW m \in Names \ disturbed'
      PROVE  FileTold(m)'
  <2>1. CASE m = n
    <3>1. Holds(k.next.body, told'[n])
      BY <1>1, <1>2, <1>6, <1>7, <2>1 DEF SummaryInv, HookTold
    <3>2. k.next # Missing /\ k.next # Empty
      BY <1>3 DEF Missing, Empty
    <3>3. QED
      BY <1>6, <2>1, <3>1, <3>2 DEF FileTold
  <2>2. CASE m # n
    <3>1. FileTold(m) /\ files'[m] = files[m] /\ told'[m] = told[m]
      BY <1>2, <1>6, <1>7, <2>2 DEF SummaryInv
    <3>2. \A g \in Writers(m) : g \in Writers(m)' /\ stop'[g] = stop[g]
      BY <1>4, <1>5, <2>2 DEF Writers
    <3>3. QED
      BY <3>1, <3>2 DEF FileTold
  <2>3. QED
    BY <2>1, <2>2
<1>8. \A m \in Names \ disturbed' : \A f, g \in Writers(m)' : f = g
  BY <1>2, <1>5 DEF SummaryInv
<1>9. ASSUME NEW g \in Stops, stop'[g].pc # "idle", stop'[g].name \notin disturbed'
      PROVE  HookTold(stop[g])'
  <2>1. g # h /\ stop'[g] = stop[g] /\ HookTold(stop[g])
    BY <1>2, <1>4, <1>9 DEF SummaryInv
  <2>2. stop[g].name \in Names
    BY <1>4, <1>9, <2>1 DEF SummaryInv, NotesInv, HookShape
  <2>3. stop[g].name # n
    <3>1. h \in Writers(n) /\ g \in Writers(stop[g].name)
      BY <1>1, <1>2, <1>9, <2>1 DEF Writers
    <3>2. QED
      BY <1>2, <1>9, <2>1, <2>2, <3>1 DEF SummaryInv
  <2>4. QED
    BY <1>6, <2>1, <2>2, <2>3 DEF HookTold
<1>10. QED
  BY <1>6, <1>7, <1>8, <1>9 DEF SummaryInv

\* Steps after which each file that is not disturbed has the same summary, and
\* that no hook that is at work is about.
LEMMA FilesSum ==
  ASSUME SummaryInv, NotesInv', disturbed \subseteq disturbed', told' \in [Names -> Nat],
         \A g \in Stops : stop'[g] = stop[g] \/ (stop'[g] = Idle /\ stop[g].name \in disturbed'),
         \A m \in Names \ disturbed' :
           \/ files'[m] = files[m] /\ told'[m] = told[m]
           \/ /\ files'[m].kind = "whole" /\ files[m].kind = "whole" /\ told'[m] = told[m]
              /\ Holds(files'[m].body, told[m])
           \/ files'[m] = Missing /\ told'[m] = 0 /\ Writers(m) = {}
  PROVE  SummaryInv'
<1>1. Idle.pc = "idle"
  BY DEF Idle
<1>2. \A m : Writers(m)' \subseteq Writers(m)
  BY <1>1 DEF Writers
<1>3. ASSUME NEW m \in Names \ disturbed'
      PROVE  FileTold(m)'
  <2>1. FileTold(m) /\ \A g \in Writers(m) : g \in Writers(m)' /\ stop'[g] = stop[g]
    BY <1>3 DEF SummaryInv, Writers
  <2>2. CASE files'[m] = files[m] /\ told'[m] = told[m]
    BY <2>1, <2>2 DEF FileTold
  <2>3. CASE /\ files'[m].kind = "whole" /\ told'[m] = told[m] /\ Holds(files'[m].body, told[m])
    BY <2>3 DEF FileTold, Missing, Empty
  <2>4. CASE files'[m] = Missing /\ told'[m] = 0
    BY <2>4 DEF FileTold, Missing, Empty
  <2>5. QED
    BY <1>3, <2>2, <2>3, <2>4
<1>4. \A m \in Names \ disturbed' : \A f, g \in Writers(m)' : f = g
  BY <1>2 DEF SummaryInv
<1>5. ASSUME NEW g \in Stops, stop'[g].pc # "idle", stop'[g].name \notin disturbed'
      PROVE  HookTold(stop[g])'
  <2>1. stop'[g] = stop[g] /\ HookTold(stop[g])
    BY <1>1, <1>5 DEF SummaryInv
  <2>2. stop[g].name \in Names /\ g \in Writers(stop[g].name)
    BY <1>5, <2>1 DEF SummaryInv, NotesInv, HookShape, Idle, Writers
  <2>3. told'[stop[g].name] = told[stop[g].name]
    BY <1>5, <2>1, <2>2
  <2>4. QED
    BY <2>1, <2>3 DEF HookTold
<1>6. QED
  BY <1>3, <1>4, <1>5 DEF SummaryInv

LEMMA SummaryStep == SummaryInv /\ [Next]_vars => SummaryInv'
<1> SUFFICES ASSUME SummaryInv, [Next]_vars
             PROVE  SummaryInv'
  OBVIOUS
<1>1. NotesInv' /\ NotesInv
  BY NotesStep DEF SummaryInv
<1>2. ASSUME NEW h \in Stops, StopKilled(h)
      PROVE  SummaryInv'
  <2>1. /\ disturbed' = disturbed \cup {stop[h].name} /\ stop' = [stop EXCEPT ![h] = Idle]
        /\ files' = files /\ told' = told
    BY <1>2 DEF StopKilled
  <2>2. \A g \in Stops : stop'[g] = stop[g] \/ (stop'[g] = Idle /\ stop[g].name \in disturbed')
    BY <1>1, <2>1 DEF NotesInv
  <2>3. QED
    BY <1>1, <2>1, <2>2, FilesSum DEF SummaryInv
<1>3. CASE StopHooks
  BY <1>1, <1>2, <1>3, FiresSums, ReadsSums, OpensSums, FillsSums DEF StopHooks
<1>4. ASSUME NEW n \in Names, UserNotes(n)
      PROVE  SummaryInv'
  <2>1. PICK b : b = Note(Len(notes) + 1)
    OBVIOUS
  <2>2. /\ files' = [files EXCEPT ![n].body = Append(@, b), ![n].day = day]
        /\ files[n].kind = "whole" /\ told' = told /\ disturbed' = disturbed /\ stop' = stop
    BY <1>4, <2>1 DEF UserNotes
  <2>3. b \in BlockSet /\ b.block # "summary"
    <3>1. Len(notes) \in Nat
      BY <1>1, LenProperties DEF NotesInv
    <3>2. QED
      BY <2>1, <3>1 DEF BlockSet, Note
  <2>4. files[n] \notin {Missing, Empty} /\ files[n].body \in Seq(BlockSet)
    BY <1>1, <2>2 DEF NotesInv, Readable, IsFile, Missing, Empty
  <2>5. PICK f : f = files[n]
    OBVIOUS
  <2>6. f = [kind |-> "whole", header |-> f.header, body |-> f.body, day |-> f.day]
    BY <1>1, <2>4, <2>5 DEF NotesInv, Readable, IsFile, File
  <2>7. files'[n].kind = "whole" /\ files'[n].body = Append(f.body, b)
    <3>1. files'[n] = [[f EXCEPT !.body = Append(f.body, b)] EXCEPT !.day = day]
      BY <1>1, <2>2, <2>5 DEF NotesInv
    <3>2. PICK c, e : c = [f EXCEPT !.body = e] /\ e = Append(f.body, b)
      OBVIOUS
    <3>3. c.body = e /\ c.kind = "whole" /\ DOMAIN c = {"kind", "header", "body", "day"}
      BY <2>6, <3>2
    <3>4. [c EXCEPT !.day = day].body = e /\ [c EXCEPT !.day = day].kind = "whole"
      BY <3>3
    <3>5. QED
      BY <3>1, <3>2, <3>4
  <2>8. \A m \in Names \ {n} : files'[m] = files[m]
    BY <1>1, <2>2 DEF NotesInv
  <2>9. n \notin disturbed => Holds(files'[n].body, told[n])
    <3>1. n \notin disturbed => Holds(f.body, told[n]) /\ told[n] \in Nat
      BY <2>2, <2>5 DEF SummaryInv, FileTold
    <3>2. f.body \in Seq(BlockSet)
      BY <2>4, <2>5
    <3>3. n \notin disturbed => Holds(Append(f.body, b), told[n])
      BY <2>3, <3>1, <3>2, AppendHolds
    <3>4. QED
      BY <2>7, <3>3
  <2>10. QED
    BY <1>1, <2>2, <2>7, <2>8, <2>9, FilesSum DEF SummaryInv
<1>5. CASE CompactAppends
  <2>1. PICK n, f : n = compact.name /\ f = files[n]
    OBVIOUS
  <2>2. /\ files' = [files EXCEPT ![n] = IF f.kind = "whole" THEN File(f.header, Append(f.body, Mark), day)
                                         ELSE File(NoHeader, <<Mark>>, day)]
        /\ disturbed' = disturbed \cup (IF f.kind = "whole" THEN {} ELSE {n})
        /\ told' = told /\ stop' = stop
    BY <1>5, <2>1 DEF CompactAppends
  <2>3. \A m \in Names \ {n} : files'[m] = files[m]
    BY <1>1, <2>2 DEF NotesInv
  <2>4. ASSUME n \in Names \ disturbed'
        PROVE  files'[n].kind = "whole" /\ files[n].kind = "whole" /\ Holds(files'[n].body, told[n])
    <3>1. f.kind = "whole" /\ n \notin disturbed
      BY <2>2, <2>4
    <3>2. f \notin {Missing, Empty} /\ f.body \in Seq(BlockSet) /\ Holds(f.body, told[n]) /\ told[n] \in Nat
      BY <1>1, <2>1, <2>4, <3>1 DEF NotesInv, Readable, IsFile, Missing, Empty, SummaryInv, FileTold
    <3>3. files'[n] = File(f.header, Append(f.body, Mark), day)
      BY <1>1, <2>2, <2>4, <3>1 DEF NotesInv
    <3>4. files'[n].kind = "whole" /\ files'[n].body = Append(f.body, Mark)
      BY <3>3 DEF File
    <3>5. Mark \in BlockSet /\ Mark.block # "summary"
      BY DEF Mark, BlockSet
    <3>6. QED
      BY <2>1, <3>1, <3>2, <3>4, <3>5, AppendHolds
  <2>5. QED
    BY <1>1, <2>2, <2>3, <2>4, FilesSum DEF SummaryInv
<1>6. ASSUME NEW s \in Sessions, Prune(s)
      PROVE  SummaryInv'
  <2>1. PICK expired \in SUBSET Names :
          /\ files' = [n \in Names |-> IF n \in expired THEN Missing ELSE files[n]]
          /\ told' = [n \in Names |-> IF n \in expired THEN 0 ELSE told[n]]
          /\ disturbed' = disturbed \cup {n \in expired : Writers(n) # {}}
    BY <1>6 DEF Prune
  <2>2. stop' = stop /\ told' \in [Names -> Nat]
    BY <1>6, <2>1 DEF Prune, SummaryInv
  <2>3. QED
    BY <1>1, <2>1, <2>2, FilesSum DEF SummaryInv
<1>7. CASE UNCHANGED <<files, told, stop, disturbed>>
  BY <1>1, <1>7, FilesSum DEF SummaryInv
<1>8. \A s \in Sessions :
        UserSays(s) \/ TakeLease(s) \/ ListRecent(s) \/ SelectNext(s) \/ SelectEnds(s) \/ Inject(s) \/ CompactPicks(s)
          => UNCHANGED <<files, told, stop, disturbed>>
  BY DEF UserSays, TakeLease, ListRecent, SelectNext, SelectEnds, Inject, CompactPicks, fileVars
<1>9. Observing \/ NextDay \/ UNCHANGED vars => UNCHANGED <<files, told, stop, disturbed>>
  BY ObservingSpares DEF NextDay, fileVars, vars
<1>10. QED
  BY <1>3, <1>4, <1>5, <1>6, <1>7, <1>8, <1>9 DEF Next, Starts

\* A session file holds one summary, that of the last stop hook that wrote it,
\* whatever is said, noted, compacted and removed between, if the writers of the file never
\* met and none was killed (session-end.js, main).
THEOREM SummariesAreCurrent == Spec => []SummaryCurrent
<1>1. SummaryInv => SummaryCurrent
  <2> SUFFICES ASSUME SummaryInv, NEW n \in Names \ disturbed, told[n] > 0, Writers(n) = {}
               PROVE  /\ Cardinality(Blocks(files[n], "summary")) = 1
                      /\ \A i \in Blocks(files[n], "summary") : files[n].body[i].said = told[n]
    BY DEF SummaryCurrent
  <2>1. FileTold(n) /\ Readable(files[n]) /\ told[n] \in Nat
    BY DEF SummaryInv, NotesInv
  <2>2. files[n].kind = "whole"
    BY <2>1 DEF FileTold, Readable
  <2>3. OneSummary(files[n].body, told[n])
    BY <2>1, <2>2 DEF FileTold, Holds
  <2>4. Blocks(files[n], "summary") = SumsOf(files[n].body)
    BY <2>2, BlocksOfFile
  <2>5. QED
    BY <2>3, <2>4, FS_Singleton DEF OneSummary
<1>2. QED
  BY <1>1, SummaryBegins, SummaryStep, PTL DEF Spec
-----------------------------------------------------------------------------
(* The session that is gone on from.                                       *)

IsSeq(q) == q \in Seq({q[i] : i \in DOMAIN q})

\* Of the first n files that were listed, those that could be read; how well
\* one suits a session; and the first of some.
ReadableTo(seen, listed, n) == {i \in 1..n : seen[listed[i]].kind = "whole"}
RankAt(s, seen, listed, i) == Rank(s, seen[listed[i]])
FirstOf(listed, I) == {listed[i] : i \in {j \in I : \A k \in I : j <= k}}

\* What a start hook has found among the first n files.
Found(s, seen, listed, n, byProject, fallback) ==
  LET R == ReadableTo(seen, listed, n)
  IN  /\ \A i \in R : RankAt(s, seen, listed, i) # 1
      /\ fallback = FirstOf(listed, R)
      /\ byProject = FirstOf(listed, {i \in R : RankAt(s, seen, listed, i) = 2})

Best(s, seen, listed, from) ==
  LET R == ReadableTo(seen, listed, Len(listed))
      rank(i) == RankAt(s, seen, listed, i)
  IN  from = {listed[i] : i \in {j \in R : \A k \in R : rank(j) < rank(k) \/ (rank(j) = rank(k) /\ j <= k)}}

Selecting(s, c) ==
  /\ c = [pc |-> "select", rest |-> c.rest, byProject |-> c.byProject, fallback |-> c.fallback,
          seen |-> c.seen, listed |-> c.listed, calm |-> c.calm]
  /\ IsSeq(c.listed) /\ IsSeq(c.rest) /\ Len(c.rest) <= Len(c.listed)
  /\ \A i \in 1..Len(c.rest) : c.rest[i] = c.listed[Len(c.listed) - Len(c.rest) + i]
  /\ c.calm => Found(s, c.seen, c.listed, Len(c.listed) - Len(c.rest), c.byProject, c.fallback)

Choice(s, c) ==
  /\ c.pc = "select" => Selecting(s, c)
  /\ c.pc = "inject" => IsSeq(c.listed) /\ (c.calm => Best(s, c.seen, c.listed, c.from))

\* What a start hook has found, and those files b of it that held nothing.
Chosen(c) == IF c.pc = "select" THEN c.byProject \cup c.fallback ELSE c.from

Blanks(b, c) ==
  c.pc \in {"select", "inject"} /\ c.calm =>
    /\ \A n \in b : HoldsNothing(c.seen[n])
    /\ \A n \in Chosen(c) : HoldsNothing(c.seen[n]) => n \in b

ChoiceInv ==
  /\ IsSeq(order) /\ open = [s \in Sessions |-> open[s]] /\ blank = [s \in Sessions |-> blank[s]]
  /\ \A s \in Sessions : Choice(s, open[s]) /\ Blanks(blank[s], open[s])

\* A step of the start hook of a session, to c.
StepsTo(s, c) ==
  /\ open' = [open EXCEPT ![s] = c] /\ Choice(s, c)
  /\ blank' = [blank EXCEPT ![s] = blank'[s]] /\ Blanks(blank'[s], c)

LEMMA IsSeqOf ==
  ASSUME NEW n \in Nat, NEW q, q = [i \in 1..n |-> q[i]]
  PROVE  IsSeq(q) /\ Len(q) = n
<1>1. PICK S : S = {q[i] : i \in DOMAIN q}
  OBVIOUS
<1>2. DOMAIN q = 1..n /\ \A i \in 1..n : q[i] \in S
  BY <1>1
<1>3. q \in [1..n -> S]
  BY <1>2
<1>4. q \in Seq(S)
  BY <1>3, SeqDef
<1>5. Len(q) = n
  BY <1>2, <1>4, LenProperties
<1>6. IsSeq(q) = (q \in Seq({q[i] : i \in DOMAIN q}))
  BY DEF IsSeq
<1>7. QED
  BY <1>1, <1>4, <1>5, <1>6

LEMMA SeqHas ==
  ASSUME NEW q, IsSeq(q)
  PROVE  Len(q) \in Nat /\ DOMAIN q = 1..Len(q) /\ q = [i \in 1..Len(q) |-> q[i]]
<1>1. PICK S : q \in Seq(S)
  BY DEF IsSeq
<1>2. QED
  BY <1>1, LenProperties

\* The rest of a sequence is one.
LEMMA TailSeq ==
  ASSUME NEW q, IsSeq(q), q # <<>>
  PROVE  /\ IsSeq(Tail(q)) /\ Len(Tail(q)) = Len(q) - 1 /\ Len(q) >= 1 /\ Head(q) = q[1]
         /\ \A i \in 1..Len(Tail(q)) : Tail(q)[i] = q[i + 1]
<1>1. PICK S : q \in Seq(S)
  BY DEF IsSeq
<1>2. /\ Tail(q) \in Seq(S) /\ Len(Tail(q)) = Len(q) - 1 /\ Len(q) \in Nat /\ Len(q) >= 1 /\ Head(q) = q[1]
      /\ \A i \in 1..Len(Tail(q)) : Tail(q)[i] = q[i + 1]
  BY <1>1, HeadTailProperties, LenProperties, EmptySeq
<1>3. PICK n, t : n = Len(q) - 1 /\ t = Tail(q)
  OBVIOUS
<1>4. n \in Nat /\ t = [i \in 1..n |-> t[i]]
  BY <1>2, <1>3, LenProperties
<1>5. QED
  BY <1>2, <1>3, <1>4, IsSeqOf

LEMMA ThoseSeq ==
  ASSUME NEW q, IsSeq(q), NEW S
  PROVE  IsSeq(Those(q, S))
<1>1. PICK places : places = {i \in DOMAIN q : q[i] \in S}
  OBVIOUS
<1>2. places \subseteq 1..Len(q) /\ Len(q) \in Nat
  BY <1>1, SeqHas
<1>3. IsFiniteSet(1..Len(q))
  BY <1>2, FS_Interval
<1>4. IsFiniteSet(places)
  BY <1>2, <1>3, FS_Subset
<1>5. PICK n \in Nat : n = Cardinality(places)
  BY <1>4, FS_CardinalityType
<1>6. PICK t : t = Those(q, S)
  OBVIOUS
<1>7. t = [k \in 1..n |-> q[CHOOSE i \in places : Cardinality({j \in places : j <= i}) = k]]
  BY <1>1, <1>5, <1>6 DEF Those
<1>8. t = [k \in 1..n |-> t[k]]
  BY <1>7
<1>9. QED
  BY <1>6, <1>8, IsSeqOf

LEMMA TouchedSeq ==
  ASSUME IsSeq(order), NEW n
  PROVE  IsSeq(Touched(n))
<1>1. PICK t : t = Those(order, Names \ {n})
  OBVIOUS
<1>2. IsSeq(t)
  BY <1>1, ThoseSeq
<1>3. PICK S : t \in Seq(S)
  BY <1>2 DEF IsSeq
<1>4. PICK T : T = S \cup {n}
  OBVIOUS
<1>5. t \in Seq(T) /\ <<n>> \in Seq(T)
  BY <1>3, <1>4
<1>6. PICK q : q = <<n>> \o t
  OBVIOUS
<1>7. q \in Seq(T)
  BY <1>5, <1>6
<1>8. Len(q) \in Nat /\ q = [i \in 1..Len(q) |-> q[i]]
  BY <1>7, LenProperties
<1>9. IsSeq(q)
  BY <1>8, IsSeqOf
<1>10. QED
  BY <1>1, <1>6, <1>9 DEF Touched

LEMMA RecentSeq ==
  ASSUME IsSeq(order)
  PROVE  IsSeq(Recent)
BY ThoseSeq DEF Recent

\* The first of some and of one that comes after them.
LEMMA FirstGrows ==
  ASSUME NEW listed, NEW m \in Nat, NEW I \in SUBSET (1..m)
  PROVE  /\ FirstOf(listed, I) = {} <=> I = {}
         /\ FirstOf(listed, I \cup {m + 1}) = IF I = {} THEN {listed[m + 1]} ELSE FirstOf(listed, I)
<1>1. CASE I = {}
  BY <1>1 DEF FirstOf
<1>2. CASE I # {}
  <2>1. I \in SUBSET Nat
    OBVIOUS
  <2>2. Min(I) \in I /\ \A k \in I : Min(I) <= k
    BY <1>2, <2>1, MinOfSet
  <2>3. FirstOf(listed, I) # {}
    BY <2>2 DEF FirstOf
  <2>4. {j \in I \cup {m + 1} : \A k \in I \cup {m + 1} : j <= k} = {j \in I : \A k \in I : j <= k}
    <3>1. \A k \in I : k \in Nat /\ k <= m /\ k < m + 1 /\ k <= m + 1
      BY <2>1
    <3>2. PICK k \in I : ~(m + 1 <= k)
      <4>1. PICK k : k \in I
        BY <1>2
      <4>2. k \in Nat /\ k <= m
        BY <3>1, <4>1
      <4>3. ~(m + 1 <= k)
        BY <4>2
      <4>4. QED
        BY <4>1, <4>3
    <3>3. \A j : (j \in I \cup {m + 1} /\ \A i \in I \cup {m + 1} : j <= i) <=> (j \in I /\ \A i \in I : j <= i)
      BY <3>1, <3>2
    <3>4. QED
      BY <3>3
  <2>5. FirstOf(listed, I \cup {m + 1}) = FirstOf(listed, I)
    BY <2>4 DEF FirstOf
  <2>6. QED
    BY <1>2, <2>3, <2>5
<1>3. QED
  BY <1>1, <1>2

\* One more file is looked at that cannot be read, or can but is of another worktree.
LEMMA FoundOn ==
  ASSUME NEW s, NEW seen, NEW listed, NEW n \in Nat, NEW b, NEW f, Found(s, seen, listed, n, b, f)
  PROVE  LET i == n + 1
             one == seen[listed[n + 1]]
         IN  /\ one.kind # "whole" => Found(s, seen, listed, n + 1, b, f)
             /\ one.kind = "whole" /\ Rank(s, one) # 1 =>
                  Found(s, seen, listed, n + 1, IF b = {} /\ Rank(s, one) = 2 THEN {listed[i]} ELSE b,
                        IF f = {} THEN {listed[i]} ELSE f)
<1>1. PICK R, one : R = ReadableTo(seen, listed, n) /\ one = seen[listed[n + 1]]
  OBVIOUS
<1>2. 1..(n + 1) = (1..n) \cup {n + 1}
  OBVIOUS
<1>3. R \in SUBSET (1..n)
  BY <1>1 DEF ReadableTo
<1>4. CASE one.kind # "whole"
  <2>1. ReadableTo(seen, listed, n + 1) = R
    BY <1>1, <1>2, <1>4 DEF ReadableTo
  <2>2. QED
    BY <1>1, <1>4, <2>1 DEF Found
<1>5. CASE one.kind = "whole" /\ Rank(s, one) # 1
  <2>1. ReadableTo(seen, listed, n + 1) = R \cup {n + 1}
    BY <1>1, <1>2, <1>5 DEF ReadableTo
  <2>2. PICK P : P = {i \in R : RankAt(s, seen, listed, i) = 2}
    OBVIOUS
  <2>3. P \in SUBSET (1..n)
    BY <1>3, <2>2
  <2>4. {i \in R \cup {n + 1} : RankAt(s, seen, listed, i) = 2} = IF Rank(s, one) = 2 THEN P \cup {n + 1} ELSE P
    BY <1>1, <2>2 DEF RankAt
  <2>5. f = FirstOf(listed, R) /\ b = FirstOf(listed, P)
    BY <1>1, <2>2 DEF Found
  <2>6. FirstOf(listed, R \cup {n + 1}) = IF f = {} THEN {listed[n + 1]} ELSE f
    <3>1. FirstOf(listed, R) = {} <=> R = {}
      BY <1>3, FirstGrows
    <3>2. FirstOf(listed, R \cup {n + 1}) = IF R = {} THEN {listed[n + 1]} ELSE FirstOf(listed, R)
      BY <1>3, FirstGrows
    <3>3. QED
      BY <2>5, <3>1, <3>2
  <2>7. FirstOf(listed, IF Rank(s, one) = 2 THEN P \cup {n + 1} ELSE P)
          = IF b = {} /\ Rank(s, one) = 2 THEN {listed[n + 1]} ELSE b
    <3>1. FirstOf(listed, P \cup {n + 1}) = IF b = {} THEN {listed[n + 1]} ELSE b
      <4>1. FirstOf(listed, P) = {} <=> P = {}
        BY <2>3, FirstGrows
      <4>2. FirstOf(listed, P \cup {n + 1}) = IF P = {} THEN {listed[n + 1]} ELSE FirstOf(listed, P)
        BY <2>3, FirstGrows
      <4>3. QED
        BY <2>5, <4>1, <4>2
    <3>2. CASE Rank(s, one) = 2
      BY <3>1, <3>2
    <3>3. CASE Rank(s, one) # 2
      BY <2>5, <3>3
    <3>4. QED
      BY <3>2, <3>3
  <2>8. \A i \in R \cup {n + 1} : RankAt(s, seen, listed, i) # 1
    BY <1>1, <1>5 DEF Found, RankAt
  <2>9. QED
    BY <1>1, <1>5, <2>1, <2>4, <2>6, <2>7, <2>8 DEF Found
<1>6. QED
  BY <1>1, <1>4, <1>5

\* A file of the same worktree is the best when there is none before it.
LEMMA BestOfWorktree ==
  ASSUME NEW s, NEW seen, NEW listed, NEW b, NEW f, NEW n \in Nat, Len(listed) \in Nat, n < Len(listed),
         Found(s, seen, listed, n, b, f),
         seen[listed[n + 1]].kind = "whole", Rank(s, seen[listed[n + 1]]) = 1
  PROVE  Best(s, seen, listed, {listed[n + 1]})
<1>1. PICK R : R = ReadableTo(seen, listed, Len(listed))
  OBVIOUS
<1>2. n + 1 \in R /\ RankAt(s, seen, listed, n + 1) = 1 /\ R \subseteq Nat
  BY <1>1 DEF ReadableTo, RankAt
<1>3. \A k \in R : k <= n => RankAt(s, seen, listed, k) # 1
  BY <1>1 DEF Found, ReadableTo
<1>4. \A k \in R : RankAt(s, seen, listed, k) \in {1, 2, 3}
  BY DEF RankAt, Rank
<1>5. PICK J : J = {j \in R : \A k \in R :
                      \/ RankAt(s, seen, listed, j) < RankAt(s, seen, listed, k)
                      \/ RankAt(s, seen, listed, j) = RankAt(s, seen, listed, k) /\ j <= k}
  OBVIOUS
<1>6. n + 1 \in J
  BY <1>2, <1>3, <1>4, <1>5
<1>7. \A j \in J : j = n + 1
  <2> SUFFICES ASSUME NEW j \in J
               PROVE  j = n + 1
    OBVIOUS
  <2>1. /\ j \in R /\ j \in Nat /\ RankAt(s, seen, listed, j) \in {1, 2, 3}
        /\ RankAt(s, seen, listed, j) < 1 \/ (RankAt(s, seen, listed, j) = 1 /\ j <= n + 1)
    BY <1>2, <1>4, <1>5
  <2>2. RankAt(s, seen, listed, j) = 1 /\ j <= n + 1
    BY <2>1
  <2>3. QED
    BY <1>3, <2>1, <2>2
<1>8. J = {n + 1}
  BY <1>6, <1>7
<1>9. QED
  BY <1>1, <1>5, <1>8 DEF Best

\* When none is of the same worktree, the first of the project is, else the first.
LEMMA BestAtEnd ==
  ASSUME NEW s, NEW seen, NEW listed, NEW b, NEW f, Len(listed) \in Nat,
         Found(s, seen, listed, Len(listed), b, f)
  PROVE  Best(s, seen, listed, IF b # {} THEN b ELSE f)
<1>1. PICK R : R = ReadableTo(seen, listed, Len(listed))
  OBVIOUS
<1>2. PICK P : P = {i \in R : RankAt(s, seen, listed, i) = 2}
  OBVIOUS
<1>3. R \in SUBSET (1..Len(listed)) /\ P \in SUBSET (1..Len(listed))
  BY <1>1, <1>2 DEF ReadableTo
<1>4. \A k \in R : RankAt(s, seen, listed, k) \in {2, 3}
  BY <1>1 DEF RankAt, Rank, Found
<1>5. PICK J : J = {j \in R : \A k \in R :
                      \/ RankAt(s, seen, listed, j) < RankAt(s, seen, listed, k)
                      \/ RankAt(s, seen, listed, j) = RankAt(s, seen, listed, k) /\ j <= k}
  OBVIOUS
<1>6. f = FirstOf(listed, R) /\ b = FirstOf(listed, P)
  BY <1>1, <1>2 DEF Found
<1>7. CASE P = {}
  <2>1. \A k \in R : RankAt(s, seen, listed, k) = 3
    BY <1>2, <1>4, <1>7
  <2>2. J = {j \in R : \A k \in R : j <= k}
    BY <1>5, <2>1
  <2>3. b = {}
    BY <1>3, <1>6, <1>7, FirstGrows
  <2>4. QED
    BY <1>1, <1>5, <1>6, <2>2, <2>3 DEF Best, FirstOf
<1>8. CASE P # {}
  <2>1. b # {}
    BY <1>3, <1>6, <1>8, FirstGrows
  <2>2. PICK m \in P : TRUE
    BY <1>8
  <2>3. \A j : j \in J <=> j \in P /\ \A k \in P : j <= k
    <3>1. ASSUME NEW j \in J
          PROVE  j \in P /\ \A k \in P : j <= k
      <4>1. RankAt(s, seen, listed, j) < 2 \/ RankAt(s, seen, listed, j) = 2
        BY <1>2, <1>5, <2>2
      <4>2. j \in P
        BY <1>2, <1>4, <1>5, <4>1
      <4>3. QED
        BY <1>2, <1>5, <4>2
    <3>2. ASSUME NEW j \in P, \A k \in P : j <= k
          PROVE  j \in J
      BY <1>2, <1>4, <1>5, <3>2
    <3>3. QED
      BY <3>1, <3>2
  <2>4. J = {j \in P : \A k \in P : j <= k}
    BY <2>3
  <2>5. QED
    BY <1>1, <1>5, <1>6, <2>1, <2>4 DEF Best, FirstOf
<1>9. QED
  BY <1>7, <1>8

\* What is seen is a record of the hook's findings.
Findings(c) == [pc |-> "select", rest |-> c.rest, byProject |-> c.byProject, fallback |-> c.fallback,
                seen |-> c.seen, listed |-> c.listed, calm |-> c.calm]

\* The same hook with the findings of another record.
FindsAs(c, d) == [c EXCEPT !.rest = d.rest, !.calm = d.calm, !.byProject = d.byProject, !.fallback = d.fallback]

LEMMA RecordOn ==
  ASSUME NEW c, NEW d, c = Findings(c), d = Findings(d), d.seen = c.seen, d.listed = c.listed
  PROVE  FindsAs(c, d) = d
<1>1. PICK r, b, f, m, seen, listed, r2, b2, f2, m2 :
        /\ r = c.rest /\ b = c.byProject /\ f = c.fallback /\ m = c.calm /\ seen = c.seen /\ listed = c.listed
        /\ r2 = d.rest /\ b2 = d.byProject /\ f2 = d.fallback /\ m2 = d.calm
  OBVIOUS
<1>2. /\ c = [pc |-> "select", rest |-> r, byProject |-> b, fallback |-> f, seen |-> seen, listed |-> listed, calm |-> m]
      /\ d = [pc |-> "select", rest |-> r2, byProject |-> b2, fallback |-> f2, seen |-> seen, listed |-> listed, calm |-> m2]
  BY <1>1 DEF Findings
<1>3. PICK c1 : c1 = [c EXCEPT !.rest = r2]
  OBVIOUS
<1>4. c1 = [pc |-> "select", rest |-> r2, byProject |-> b, fallback |-> f, seen |-> seen, listed |-> listed, calm |-> m]
  BY <1>2, <1>3
<1>5. PICK c2 : c2 = [c1 EXCEPT !.calm = m2]
  OBVIOUS
<1>6. c2 = [pc |-> "select", rest |-> r2, byProject |-> b, fallback |-> f, seen |-> seen, listed |-> listed, calm |-> m2]
  BY <1>4, <1>5
<1>7. PICK c3 : c3 = [c2 EXCEPT !.byProject = b2]
  OBVIOUS
<1>8. c3 = [pc |-> "select", rest |-> r2, byProject |-> b2, fallback |-> f, seen |-> seen, listed |-> listed, calm |-> m2]
  BY <1>6, <1>7
<1>9. [c3 EXCEPT !.fallback = f2] = [pc |-> "select", rest |-> r2, byProject |-> b2, fallback |-> f2, seen |-> seen, listed |-> listed, calm |-> m2]
  BY <1>8
<1>10. QED
  BY <1>1, <1>2, <1>3, <1>5, <1>7, <1>9 DEF FindsAs

\* A start hook looks at the next file.
LEMMA SelectKeeps ==
  ASSUME NEW s \in Sessions, SelectNext(s), Selecting(s, open[s]), open = [t \in Sessions |-> open[t]],
         Blanks(blank[s], open[s]), blank = [t \in Sessions |-> blank[t]]
  PROVE  \E c : StepsTo(s, c)
<1>1. PICK c, rest, listed, seen, b, f, n, m :
        /\ c = open[s] /\ rest = c.rest /\ listed = c.listed /\ seen = c.seen /\ b = c.byProject /\ f = c.fallback
        /\ n = Head(rest) /\ m = Len(listed) - Len(rest)
  OBVIOUS
<1>2. /\ c.pc = "select" /\ rest # <<>> /\ IsSeq(listed) /\ IsSeq(rest) /\ Len(rest) <= Len(listed)
      /\ \A i \in 1..Len(rest) : rest[i] = listed[m + i]
      /\ c.calm => Found(s, seen, listed, m, b, f)
      /\ c = [pc |-> "select", rest |-> rest, byProject |-> b, fallback |-> f,
              seen |-> seen, listed |-> listed, calm |-> c.calm]
  BY <1>1 DEF Selecting, SelectNext
<1>3. PICK tl : tl = Tail(rest)
  OBVIOUS
<1>4. /\ Len(listed) \in Nat /\ Len(rest) \in Nat /\ m \in Nat /\ m < Len(listed) /\ n = listed[m + 1]
      /\ IsSeq(tl) /\ Len(tl) = Len(rest) - 1 /\ Len(tl) <= Len(listed) /\ Len(listed) - Len(tl) = m + 1
      /\ \A i \in 1..Len(tl) : tl[i] = listed[(Len(listed) - Len(tl)) + i]
  <2>1. Len(listed) \in Nat /\ Len(rest) \in Nat
    BY <1>2, SeqHas
  <2>2. /\ IsSeq(tl) /\ Len(tl) = Len(rest) - 1 /\ Len(rest) >= 1 /\ n = rest[1]
        /\ \A i \in 1..Len(tl) : tl[i] = rest[i + 1]
    BY <1>1, <1>2, <1>3, TailSeq
  <2>3. m \in Nat /\ m < Len(listed) /\ Len(listed) - Len(tl) = m + 1 /\ Len(tl) <= Len(listed)
    BY <1>1, <1>2, <2>1, <2>2
  <2>4. n = listed[m + 1]
    BY <1>2, <2>1, <2>2
  <2>5. ASSUME NEW i \in 1..Len(tl)
        PROVE  tl[i] = listed[(m + 1) + i]
    <3>1. i + 1 \in 1..Len(rest) /\ m + (i + 1) = (m + 1) + i
      <4>1. PICK k, r : k = Len(tl) /\ r = Len(rest)
        OBVIOUS
      <4>2. r \in Nat /\ k = r - 1 /\ m \in Nat /\ i \in 1..k
        BY <2>1, <2>2, <2>3, <4>1
      <4>3. i + 1 \in 1..r /\ m + (i + 1) = (m + 1) + i
        BY <4>2
      <4>4. QED
        BY <4>1, <4>3
    <3>2. QED
      BY <1>2, <2>2, <3>1
  <2>6. QED
    BY <2>1, <2>2, <2>3, <2>4, <2>5
<1>5. PICK calm : calm = StillCalm(c)
  OBVIOUS
<1>6. calm => c.calm /\ files[n] = seen[n] /\ Found(s, seen, listed, m, b, f)
  BY <1>1, <1>2, <1>5 DEF StillCalm
<1>b. PICK b1, b3 : b1 = blank[s] /\ b3 = blank'[s]
  OBVIOUS
<1>c. /\ blank' = [blank EXCEPT ![s] = b3]
      /\ b3 = IF HoldsNothing(files[n]) THEN b1 \cup {n} ELSE b1
  BY <1>1, <1>b DEF SelectNext, Reads
<1>d. calm => /\ \A k \in b3 : HoldsNothing(seen[k])
              /\ \A k \in (b \cup f) \cup {n} : HoldsNothing(seen[k]) => k \in b3
  <2>1. calm => /\ \A k \in b1 : HoldsNothing(seen[k])
                /\ \A k \in b \cup f : HoldsNothing(seen[k]) => k \in b1
    BY <1>1, <1>2, <1>6, <1>b DEF Blanks, Chosen
  <2> QED
    BY <1>6, <1>c, <2>1
<1>7. CASE files[n].kind # "whole"
  <2>1. PICK d : d = [pc |-> "select", rest |-> tl, byProject |-> b, fallback |-> f,
                      seen |-> seen, listed |-> listed, calm |-> calm]
    OBVIOUS
  <2>2. open' = [open EXCEPT ![s] = d]
    <3>1. open' = [open EXCEPT ![s] = [c EXCEPT !.rest = tl, !.calm = calm, !.byProject = b, !.fallback = f]]
      <4>1. files[Head(open[s].rest)].kind # "whole"
        BY <1>1, <1>7
      <4>2. open' = [open EXCEPT ![s] =
              [open[s] EXCEPT !.rest = Tail(open[s].rest), !.calm = StillCalm(open[s]),
                              !.byProject = open[s].byProject, !.fallback = open[s].fallback]]
        BY <4>1 DEF SelectNext, LooksOn
      <4>3. calm = StillCalm(open[s])
        BY <1>1, <1>5
      <4>4. QED
        BY <1>1, <1>3, <4>2, <4>3
    <3>2. [c EXCEPT !.rest = tl, !.calm = calm, !.byProject = b, !.fallback = f] = d
      <4>1. c = Findings(c)
        BY <1>1, <1>2 DEF Selecting, Findings
      <4>2. /\ d.seen = seen /\ d.listed = listed
            /\ d.rest = tl /\ d.calm = calm /\ d.byProject = b /\ d.fallback = f
        BY <2>1
      <4>3. d = Findings(d)
        BY <2>1, <4>2 DEF Findings
      <4>4. d.seen = c.seen /\ d.listed = c.listed
        BY <1>1, <1>2, <4>2
      <4>5. FindsAs(c, d) = d
        BY <4>1, <4>3, <4>4, RecordOn
      <4>6. QED
        BY <4>2, <4>5 DEF FindsAs
    <3>3. QED
      BY <3>1, <3>2
  <2>3. calm => Found(s, seen, listed, m + 1, b, f)
    BY <1>4, <1>6, <1>7, FoundOn
  <2>4. /\ d = [pc |-> "select", rest |-> d.rest, byProject |-> d.byProject, fallback |-> d.fallback,
                seen |-> d.seen, listed |-> d.listed, calm |-> d.calm]
        /\ d.pc = "select" /\ d.rest = tl /\ d.byProject = b /\ d.fallback = f
        /\ d.seen = seen /\ d.listed = listed /\ d.calm = calm
    BY <2>1
  <2>5. Selecting(s, d)
    BY <1>2, <1>4, <2>3, <2>4 DEF Selecting
  <2>6. Blanks(b3, d)
    BY <1>d, <2>4 DEF Blanks, Chosen
  <2>7. QED
    BY <1>b, <1>c, <2>2, <2>4, <2>5, <2>6 DEF Choice, StepsTo
<1>8. CASE files[n].kind = "whole" /\ files[n].header.worktree = Worktree[s]
  <2>1. PICK d : d = [pc |-> "inject", from |-> {n}, seen |-> seen, listed |-> listed, calm |-> calm]
    OBVIOUS
  <2>2. open' = [open EXCEPT ![s] = d]
    BY <1>1, <1>5, <1>8, <2>1 DEF SelectNext, Selected
  <2>3. calm => Best(s, seen, listed, {listed[m + 1]})
    <3>1. Rank(s, files[n]) = 1
      BY <1>8 DEF Rank
    <3>2. QED
      BY <1>4, <1>6, <1>8, <3>1, BestOfWorktree
  <2>4. d.pc = "inject" /\ d.from = {n} /\ d.seen = seen /\ d.listed = listed /\ d.calm = calm
    BY <2>1
  <2>5. Choice(s, d)
    BY <1>2, <1>4, <2>3, <2>4 DEF Choice
  <2>6. Blanks(b3, d)
    BY <1>d, <2>4 DEF Blanks, Chosen
  <2>7. QED
    BY <1>b, <1>c, <2>2, <2>5, <2>6 DEF StepsTo
<1>9. CASE files[n].kind = "whole" /\ files[n].header.worktree # Worktree[s]
  <2>1. PICK b2, f2 : /\ b2 = IF b = {} /\ files[n].header.project = Project[s] THEN {n} ELSE b
                      /\ f2 = IF f = {} THEN {n} ELSE f
    OBVIOUS
  <2>2. PICK d : d = [pc |-> "select", rest |-> tl, byProject |-> b2, fallback |-> f2,
                      seen |-> seen, listed |-> listed, calm |-> calm]
    OBVIOUS
  <2>3. open' = [open EXCEPT ![s] = d]
    <3>1. open' = [open EXCEPT ![s] = [c EXCEPT !.rest = tl, !.calm = calm, !.byProject = b2, !.fallback = f2]]
      <4>1. files[Head(open[s].rest)].kind = "whole" /\ files[Head(open[s].rest)].header.worktree # Worktree[s]
        BY <1>1, <1>9
      <4>2. open' = [open EXCEPT ![s] =
              [open[s] EXCEPT !.rest = Tail(open[s].rest), !.calm = StillCalm(open[s]),
                 !.byProject = IF open[s].byProject = {} /\ files[Head(open[s].rest)].header.project = Project[s]
                               THEN {Head(open[s].rest)} ELSE open[s].byProject,
                 !.fallback = IF open[s].fallback = {} THEN {Head(open[s].rest)} ELSE open[s].fallback]]
        BY <4>1 DEF SelectNext, LooksOn
      <4>3. calm = StillCalm(open[s])
        BY <1>1, <1>5
      <4>4. QED
        BY <1>1, <1>3, <2>1, <4>2, <4>3
    <3>2. [c EXCEPT !.rest = tl, !.calm = calm, !.byProject = b2, !.fallback = f2] = d
      <4>1. c = Findings(c)
        BY <1>1, <1>2 DEF Selecting, Findings
      <4>2. /\ d.seen = seen /\ d.listed = listed
            /\ d.rest = tl /\ d.calm = calm /\ d.byProject = b2 /\ d.fallback = f2
        BY <2>2
      <4>3. d = Findings(d)
        BY <2>2, <4>2 DEF Findings
      <4>4. d.seen = c.seen /\ d.listed = c.listed
        BY <1>1, <1>2, <4>2
      <4>5. FindsAs(c, d) = d
        BY <4>1, <4>3, <4>4, RecordOn
      <4>6. QED
        BY <4>2, <4>5 DEF FindsAs
    <3>3. QED
      BY <3>1, <3>2
  <2>4. calm => Found(s, seen, listed, m + 1, b2, f2)
    <3>1. Rank(s, files[n]) = IF files[n].header.project = Project[s] THEN 2 ELSE 3
      BY <1>9 DEF Rank
    <3>2. ASSUME calm
          PROVE  Found(s, seen, listed, m + 1, b2, f2)
      <4>1. PICK one : one = seen[listed[m + 1]]
        OBVIOUS
      <4>2. one = files[n] /\ Found(s, seen, listed, m, b, f)
        BY <1>4, <1>6, <3>2, <4>1
      <4>3. one.kind = "whole" /\ Rank(s, one) # 1
        BY <1>9, <3>1, <4>2
      <4>4. Found(s, seen, listed, m + 1, IF b = {} /\ Rank(s, one) = 2 THEN {listed[m + 1]} ELSE b,
                  IF f = {} THEN {listed[m + 1]} ELSE f)
        BY <1>4, <4>1, <4>2, <4>3, FoundOn
      <4>5. Rank(s, one) = 2 <=> files[n].header.project = Project[s]
        BY <3>1, <4>2
      <4>6. b2 = (IF b = {} /\ Rank(s, one) = 2 THEN {listed[m + 1]} ELSE b)
        BY <1>4, <2>1, <4>5
      <4>7. QED
        BY <1>4, <2>1, <4>4, <4>6
    <3>3. QED
      BY <3>2
  <2>5. /\ d = [pc |-> "select", rest |-> d.rest, byProject |-> d.byProject, fallback |-> d.fallback,
                seen |-> d.seen, listed |-> d.listed, calm |-> d.calm]
        /\ d.pc = "select" /\ d.rest = tl /\ d.byProject = b2 /\ d.fallback = f2
        /\ d.seen = seen /\ d.listed = listed /\ d.calm = calm
    BY <2>2
  <2>6. Selecting(s, d)
    BY <1>2, <1>4, <2>4, <2>5 DEF Selecting
  <2>7. Blanks(b3, d)
    <3>1. b2 \cup f2 \subseteq (b \cup f) \cup {n}
      BY <2>1
    <3> QED
      BY <1>d, <2>5, <3>1 DEF Blanks, Chosen
  <2>8. QED
    BY <1>b, <1>c, <2>3, <2>5, <2>6, <2>7 DEF Choice, StepsTo
<1>10. QED
  BY <1>7, <1>8, <1>9

\* A start hook has looked at all of them.
LEMMA SelectEndKeeps ==
  ASSUME NEW s \in Sessions, SelectEnds(s), Selecting(s, open[s]), open = [t \in Sessions |-> open[t]],
         Blanks(blank[s], open[s]), blank = [t \in Sessions |-> blank[t]]
  PROVE  \E c : StepsTo(s, c)
<1>1. PICK c, listed, seen, from, calm :
        /\ c = open[s] /\ listed = c.listed /\ seen = c.seen
        /\ from = IF c.byProject # {} THEN c.byProject ELSE c.fallback
        /\ calm = StillCalm(c)
  OBVIOUS
<1>2. PICK d : d = [pc |-> "inject", from |-> from, seen |-> seen, listed |-> listed, calm |-> calm]
  OBVIOUS
<1>3. open' = [open EXCEPT ![s] = d]
  BY <1>1, <1>2 DEF SelectEnds, Selected
<1>4. c.rest = <<>> /\ IsSeq(listed) /\ (c.calm => Found(s, seen, listed, Len(listed) - Len(c.rest), c.byProject, c.fallback))
  BY <1>1 DEF SelectEnds, Selecting
<1>5. Len(c.rest) = 0 /\ Len(listed) \in Nat
  BY <1>4, SeqHas, EmptySeq
<1>6. calm => Best(s, seen, listed, from)
  <2> SUFFICES ASSUME calm
               PROVE  Best(s, seen, listed, from)
    OBVIOUS
  <2>1. Len(listed) - Len(c.rest) = Len(listed)
    BY <1>5
  <2>2. Found(s, seen, listed, Len(listed), c.byProject, c.fallback)
    BY <1>1, <1>4, <2>1 DEF StillCalm
  <2>3. Best(s, seen, listed, IF c.byProject # {} THEN c.byProject ELSE c.fallback)
    BY <1>5, <2>2, BestAtEnd
  <2>4. QED
    BY <1>1, <2>3
<1>7. d.pc = "inject" /\ d.from = from /\ d.seen = seen /\ d.listed = listed /\ d.calm = calm
  BY <1>2
<1>8. Choice(s, d)
  BY <1>4, <1>6, <1>7 DEF Choice
<1>9. Blanks(blank[s], d)
  <2>1. calm => c.calm /\ c.pc = "select"
    BY <1>1 DEF StillCalm, SelectEnds, At
  <2>2. from \subseteq c.byProject \cup c.fallback
    BY <1>1
  <2> QED
    BY <1>1, <1>7, <2>1, <2>2 DEF Blanks, Chosen
<1>10. blank' = blank
  BY DEF SelectEnds
<1>11. QED
  BY <1>3, <1>8, <1>9, <1>10 DEF StepsTo

\* A start hook lists the recent files.
LEMMA ListKeeps ==
  ASSUME NEW s \in Sessions, ListRecent(s), IsSeq(order), open = [t \in Sessions |-> open[t]],
         blank = [t \in Sessions |-> blank[t]]
  PROVE  \E c : StepsTo(s, c)
<1>1. PICK q, d : /\ q = Recent
                  /\ d = [pc |-> "select", rest |-> q, byProject |-> {}, fallback |-> {},
                          seen |-> files, listed |-> q, calm |-> TRUE]
  OBVIOUS
<1>2. open' = [open EXCEPT ![s] = d]
  BY <1>1 DEF ListRecent
<1>3. IsSeq(q) /\ Len(q) \in Nat
  BY <1>1, RecentSeq, SeqHas
<1>4. /\ d = [pc |-> "select", rest |-> d.rest, byProject |-> d.byProject, fallback |-> d.fallback,
              seen |-> d.seen, listed |-> d.listed, calm |-> d.calm]
      /\ d.pc = "select" /\ d.rest = q /\ d.byProject = {} /\ d.fallback = {} /\ d.seen = files /\ d.listed = q
  BY <1>1
<1>5. Found(s, files, q, 0, {}, {})
  <2>1. ReadableTo(files, q, 0) = {}
    BY DEF ReadableTo
  <2>2. QED
    BY <2>1 DEF Found, FirstOf
<1>6. Len(q) - Len(q) = 0 /\ \A i \in 1..Len(q) : q[i] = q[(Len(q) - Len(q)) + i]
  BY <1>3
<1>7. Selecting(s, d)
  BY <1>3, <1>4, <1>5, <1>6 DEF Selecting
<1>8. Choice(s, d)
  BY <1>4, <1>7 DEF Choice
<1>9. blank' = [blank EXCEPT ![s] = {}] /\ Blanks({}, d)
  BY <1>4 DEF ListRecent, Blanks, Chosen
<1>10. QED
  BY <1>2, <1>8, <1>9 DEF StepsTo

LEMMA ChoiceBegins == Init => ChoiceInv
<1> SUFFICES ASSUME Init
             PROVE  ChoiceInv
  OBVIOUS
<1>1. IsSeq(order)
  <2>1. order \in SetToSeqs(DOMAIN FirstFiles)
    BY DEF Init
  <2>2. PICK n : n = Cardinality(DOMAIN FirstFiles)
    OBVIOUS
  <2>3. n \in Nat
    BY <2>2, SessionsAssumption, FS_CardinalityType
  <2>4. order \in [1..n -> DOMAIN FirstFiles]
    BY <2>1, <2>2 DEF SetToSeqs
  <2>5. order = [i \in 1..n |-> order[i]]
    BY <2>4
  <2>6. QED
    BY <2>3, <2>5, IsSeqOf
<1>2. /\ open = [s \in Sessions |-> open[s]] /\ \A s \in Sessions : open[s].pc = "closed"
      /\ blank = [s \in Sessions |-> blank[s]]
  BY DEF Init
<1>3. QED
  BY <1>1, <1>2 DEF ChoiceInv, Choice, Blanks

LEMMA ChoiceStep == ChoiceInv /\ [Next]_vars => ChoiceInv'
<1> SUFFICES ASSUME ChoiceInv, [Next]_vars
             PROVE  ChoiceInv'
  OBVIOUS
<1>1. ASSUME NEW s \in Sessions, NEW c, StepsTo(s, c), IsSeq(order')
      PROVE  ChoiceInv'
  <2>1. /\ open' = [t \in Sessions |-> open'[t]] /\ blank' = [t \in Sessions |-> blank'[t]]
        /\ \A t \in Sessions : open'[t] = (IF t = s THEN c ELSE open[t]) /\ (t # s => blank'[t] = blank[t])
    BY <1>1 DEF ChoiceInv, StepsTo
  <2>2. ASSUME NEW t \in Sessions
        PROVE  Choice(t, open'[t]) /\ Blanks(blank'[t], open'[t])
    BY <1>1, <2>1 DEF ChoiceInv, StepsTo
  <2> QED
    BY <1>1, <2>1, <2>2 DEF ChoiceInv
<1>2. ASSUME open' = open, blank' = blank, IsSeq(order')
      PROVE  ChoiceInv'
  BY <1>2 DEF ChoiceInv
<1>3. \A n : IsSeq(Touched(n))
  BY TouchedSeq DEF ChoiceInv
<1>4. ASSUME NEW s \in Sessions, SelectNext(s) \/ SelectEnds(s) \/ ListRecent(s)
      PROVE  ChoiceInv'
  <2>1. order' = order /\ (SelectNext(s) \/ SelectEnds(s) => open[s].pc = "select")
    BY <1>4 DEF SelectNext, SelectEnds, ListRecent, fileVars, At
  <2>2. \E c : StepsTo(s, c)
    BY <1>4, <2>1, SelectKeeps, SelectEndKeeps, ListKeeps DEF ChoiceInv, Choice
  <2>3. QED
    BY <1>1, <2>1, <2>2 DEF ChoiceInv
<1>5. ASSUME NEW s \in Sessions,
             Prune(s) \/ TakeLease(s) \/ Inject(s) \/ CloseSession(s) \/ SessionCrashes(s)
      PROVE  ChoiceInv'
  <2>1. PICK c : open' = [open EXCEPT ![s] = c] /\ c.pc \in {"lease", "list", "open", "closed"}
    <3>1. \E c \in {[pc |-> "lease"], [pc |-> "list"], [pc |-> "open"], [pc |-> "closed"]} :
            open' = [open EXCEPT ![s] = c]
      <4>1. CASE Prune(s)
        BY <4>1 DEF Prune
      <4>2. CASE TakeLease(s)
        BY <4>2 DEF TakeLease
      <4>3. CASE Inject(s)
        BY <4>3 DEF Inject
      <4>4. CASE CloseSession(s) \/ SessionCrashes(s)
        BY <4>4 DEF CloseSession, SessionCrashes
      <4>5. QED
        BY <1>5, <4>1, <4>2, <4>3, <4>4
    <3>2. \A c \in {[pc |-> "lease"], [pc |-> "list"], [pc |-> "open"], [pc |-> "closed"]} :
            c.pc \in {"lease", "list", "open", "closed"}
      OBVIOUS
    <3>3. QED
      BY <3>1, <3>2
  <2>2. IsSeq(order')
    <3>1. order' = order \/ \E S : order' = Those(order, S)
      BY <1>5 DEF Prune, TakeLease, Inject, CloseSession, SessionCrashes, fileVars
    <3>2. QED
      BY <3>1, ThoseSeq DEF ChoiceInv
  <2>3. blank' = blank
    BY <1>5 DEF Prune, TakeLease, Inject, CloseSession, SessionCrashes
  <2>4. Choice(s, c) /\ Blanks(blank'[s], c)
    BY <2>1 DEF Choice, Blanks
  <2>5. blank' = [blank EXCEPT ![s] = blank'[s]]
    BY <2>3 DEF ChoiceInv
  <2>6. QED
    BY <1>1, <2>1, <2>2, <2>4, <2>5 DEF StepsTo
<1>6. CASE StopHooks
  <2>1. open' = open /\ blank' = blank /\ (order' = order \/ (\E n : order' = Touched(n)))
    BY <1>6 DEF StopHooks, StopFires, StopReads, StopOpens, StopFills, StopKilled, fileVars
  <2>2. QED
    BY <1>2, <1>3, <2>1 DEF ChoiceInv
<1>7. CASE \/ \E s \in Sessions : UserSays(s) \/ CompactPicks(s)
           \/ \E n \in Names : UserNotes(n)
           \/ CompactAppends \/ NextDay \/ UNCHANGED vars
  <2>1. open' = open /\ blank' = blank /\ (order' = order \/ (\E n : order' = Touched(n)))
    BY <1>7 DEF UserSays, CompactPicks, UserNotes, CompactAppends, NextDay, fileVars, vars
  <2>2. QED
    BY <1>2, <1>3, <2>1 DEF ChoiceInv
<1>8. CASE Runs
  <2>1. open' = open /\ blank' = blank /\ order' = order
    <3>1. StartsObserver => UNCHANGED <<open, blank, order>>
      BY DEF StartsObserver, ToolHook, Looks, RemovesStale, TakesLock, ScriptEnds, ScriptRemoves, fileVars
    <3>2. ASSUME NEW p, OpensPidFile(p) \/ FillsPidFile(p) \/ ObserverExits(p) \/ ObserverCrashes(p)
          PROVE  UNCHANGED <<open, blank, order>>
      BY <3>2 DEF OpensPidFile, FillsPidFile, ObserverExits, ObserverCrashes, fileVars
    <3> QED
      BY <1>8, <3>1, <3>2 DEF Runs
  <2>2. QED
    BY <1>2, <2>1 DEF ChoiceInv
<1>9. ASSUME NEW s \in Sessions, MarkerRemoves(s) \/ MarkerLists(s) \/ MarkerStops(s) \/ MarkerUnlinks(s)
      PROVE  ChoiceInv'
  <2>1. open' = open /\ blank' = blank /\ order' = order
    BY <1>9 DEF MarkerRemoves, MarkerLists, MarkerStops, MarkerUnlinks, fileVars
  <2>2. QED
    BY <1>2, <2>1 DEF ChoiceInv
<1>10. CASE Starts
  BY <1>4, <1>5, <1>10 DEF Starts
<1>11. CASE Observing
  BY <1>5, <1>8, <1>9, <1>11 DEF Observing, Runs
<1>12. QED
  BY <1>6, <1>7, <1>10, <1>11 DEF Next

\* A session that starts is given the newest recent file of its worktree, else
\* of its project, else of all, if no file changed while it looked, and nothing
\* if that holds no summary yet (session-start.js, selectMatchingSession, main).
THEOREM InjectsTheBest == Spec => []InjectedBest
<1>1. ChoiceInv => InjectedBest
  <2> SUFFICES ASSUME ChoiceInv, NEW s \in Sessions, open[s].pc = "inject", open[s].calm
               PROVE  LET listed == open[s].listed
                          R == {i \in DOMAIN listed : open[s].seen[listed[i]].kind = "whole"}
                          rank(i) == Rank(s, open[s].seen[listed[i]])
                          best == {j \in R : \A k \in R : rank(j) < rank(k) \/ (rank(j) = rank(k) /\ j <= k)}
                      IN  Injected(s) = {listed[i] : i \in {j \in best : ~HoldsNothing(open[s].seen[listed[j]])}}
    BY DEF InjectedBest, At
  <2>1. PICK listed, seen, from, b : listed = open[s].listed /\ seen = open[s].seen /\ from = open[s].from /\ b = blank[s]
    OBVIOUS
  <2>2. IsSeq(listed) /\ Best(s, seen, listed, from) /\ Blanks(b, open[s])
    BY <2>1 DEF ChoiceInv, Choice
  <2>3. DOMAIN listed = 1..Len(listed)
    BY <2>2, SeqHas
  <2>4. PICK R : R = {i \in DOMAIN listed : seen[listed[i]].kind = "whole"}
    OBVIOUS
  <2>5. R = ReadableTo(seen, listed, Len(listed))
    BY <2>3, <2>4 DEF ReadableTo
  <2>6. PICK best : best = {j \in R : \A k \in R : \/ Rank(s, seen[listed[j]]) < Rank(s, seen[listed[k]])
                                                  \/ /\ Rank(s, seen[listed[j]]) = Rank(s, seen[listed[k]])
                                                     /\ j <= k}
    OBVIOUS
  <2>7. from = {listed[i] : i \in best}
    BY <2>2, <2>5, <2>6 DEF Best, RankAt
  <2>8. \A n \in from : n \in b <=> HoldsNothing(seen[n])
    BY <2>1, <2>2 DEF Blanks, Chosen
  <2>9. from \ b = {listed[i] : i \in {j \in best : ~HoldsNothing(seen[listed[j]])}}
    BY <2>7, <2>8
  <2>10. QED
    BY <2>1, <2>4, <2>6, <2>9 DEF Injected
<1>2. QED
  BY <1>1, ChoiceBegins, ChoiceStep, PTL DEF Spec
=============================================================================
