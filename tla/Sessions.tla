------------------------------ MODULE Sessions ------------------------------
(***************************************************************************)
(* Session files and the observer of a project                             *)
(* (.cursor/scripts/hooks: session-start.js, session-end.js,               *)
(* session-end-marker.js, pre-compact.js; lib/observer-sessions.js).       *)
(*                                                                         *)
(* After every response a stop hook summarises the transcript in a file    *)
(* named by day and short session id: it reads the file, then writes the   *)
(* whole of it. Stop hooks run beside the next response and are killed     *)
(* when they take too long. Users write notes in the same files, a         *)
(* compaction appends to the newest, and the start of a session removes    *)
(* the expired ones and reads the others to choose what to go on from.     *)
(*                                                                         *)
(* A session with an id holds a lease; the hook that ends the last one     *)
(* stops the observer that the sessions of a project share.                *)
(***************************************************************************)
EXTENDS Integers, Sequences, FiniteSets, SequencesExt, FiniteSetsExt, TLC

CONSTANTS Sessions,   \* sessions of one project
          ShortId,    \* [Sessions -> the last characters of its id]
          Worktree,   \* [Sessions -> where it runs]
          Project,    \* [Sessions -> the name of its repository]
          FirstFiles, \* [names -> content]: session files at the start
          Stops,      \* slots for stop hooks that run at a time
          Starters,   \* slots for tool hooks that start an observer at a time
          Flock,      \* is there a flock command?
          RecentDays, RetentionDays,  \* ages at which a file is not offered, and removed
          MaxDay, MaxSaid,  \* bounds
          Budgets     \* bound: how often hooks run, users act and processes fail

VARIABLES files,    \* [names -> content of the file]
          order,    \* the names of the files there are, newest first
          day,      \* today
          said,     \* [Sessions -> user messages in the transcript]
          stop,     \* [Stops -> what the hook does]
          compact,  \* the pre-compact hook
          open,     \* [Sessions -> what its start hook does, or "open", "closed"]
          blank,    \* [Sessions -> files its start hook read that hold no summary yet]
          leases,   \* sessions with a lease file
          marker,   \* [Sessions -> what its session-end-marker does]
          pidFile,  \* {the observer that .observer.pid names}, {0} while it is written
          alive,    \* observers that run
          young, filling,       \* those that have their pid file to open, or to fill
          ending,   \* those that were sent a signal
          starter,  \* [Starters -> what the tool hook and its start-observer.sh do]
          lock,     \* who holds .observer-start.lock
          observers,            \* how many were started
          notes,                \* [note -> the file the user wrote it in]
          excused,              \* notes lost in a known way
          told,                 \* [names -> messages of the last stop that wrote the file]
          disturbed,            \* files whose writers met, or one of them was killed,
                                \* or that no stop hook has begun
          overtaken,            \* sessions whose lease a late end hook removed
          left      \* [kinds of events -> how many may still happen]

fileVars == <<files, order, notes, excused, told, disturbed>>
startVars == <<starter, lock, young, observers>>
leaseVars == <<leases, marker, pidFile, alive, filling, ending, startVars, overtaken>>
vars == <<fileVars, leaseVars, day, said, stop, compact, open, blank, left>>

Ids == {ShortId[s] : s \in Sessions}
Names == DOMAIN FirstFiles \cup {[dir |-> "session-data", day |-> d, id |-> i] : d \in 1..MaxDay, i \in Ids}

-----------------------------------------------------------------------------
(* What a file holds: a header and a body of blocks.                       *)

Missing == [kind |-> "missing"]
Empty == [kind |-> "empty"]   \* opened for writing, nothing written yet
File(header, body, d) == [kind |-> "whole", header |-> header, body |-> body, day |-> d]
NoHeader == [worktree |-> "none", project |-> "none"]
HeaderOf(s) == [worktree |-> Worktree[s], project |-> Project[s]]

\* buildSummaryBlock, and what stands for it while nothing was said
Summary(n) == [block |-> "summary", said |-> n]
Placeholder == [block |-> "placeholder"]
Note(k) == [block |-> "note", note |-> k]
Mark == [block |-> "compaction"]

BlockSet == {Placeholder, Mark} \cup [block : {"summary"}, said : Nat] \cup [block : {"note"}, note : Nat]

IsFile(f) == f = File(f.header, f.body, f.day) /\ f.body \in Seq(BlockSet)

\* a day to begin with, and session files to begin with
ASSUME SessionsAssumption ==
  /\ Flock \in BOOLEAN /\ Starters \cap Nat = {}
  /\ MaxDay \in Nat \ {0} /\ IsFiniteSet(DOMAIN FirstFiles)
  /\ \A n \in DOMAIN FirstFiles : IsFile(FirstFiles[n])

Blocks(f, b) == IF f.kind = "whole" THEN {i \in DOMAIN f.body : f.body[i].block = b} ELSE {}
NotesIn(f) == {f.body[i].note : i \in Blocks(f, "note")}
Exists(n) == files[n] # Missing

\* a file as stop hooks leave it that do not meet: one summary, or the
\* placeholder of one
Summarised(f) ==
  IF Blocks(f, "summary") = {} THEN Blocks(f, "placeholder") # {}
  ELSE \E i \in Blocks(f, "summary") : Blocks(f, "summary") = {i}

\* the members of seq that are in S, in their order
Those(seq, S) ==
  LET places == {i \in DOMAIN seq : seq[i] \in S}
      Nth(k) == CHOOSE i \in places : Cardinality({j \in places : j <= i}) = k
  IN  [k \in 1..Cardinality(places) |-> seq[Nth(k)]]

\* a write makes the file the newest
Touched(n) == <<n>> \o Those(order, Names \ {n})

\* extractSessionSummary gives none without user messages
NewBody(n) == IF n = 0 THEN <<Placeholder>> ELSE <<Summary(n)>>

\* Mutant: the new summary follows the old one.
WithFurtherSummary(body, n) == IF n = 0 THEN body ELSE Append(body, Summary(n))

\* The summary block is replaced. A placeholder is, with all that follows it.
WithSummary(body, n) ==
  LET summaries == {i \in DOMAIN body : body[i].block = "summary"}
      places == {i \in DOMAIN body : body[i].block = "placeholder"}
  IN  IF n = 0 THEN body
      ELSE IF summaries # {} THEN [body EXCEPT ![Min(summaries)] = Summary(n)]
      ELSE IF places # {} THEN Append(SubSeq(body, 1, Min(places) - 1), Summary(n))
      ELSE body

\* the notes of a file with a summary are not touched
Spared(f) == IF Blocks(f, "placeholder") = {} THEN NotesIn(f) ELSE {}

\* Mutant: the file is written as if it had not been there.
WrittenAnew(h, read) == File(HeaderOf(h.session), NewBody(h.said), h.name.day)

\* what the stop hook writes, given what it read; nothing after an empty file
Written(h, read) ==
  IF read = Missing THEN File(HeaderOf(h.session), NewBody(h.said), h.name.day)
  ELSE File(HeaderOf(h.session), WithSummary(read.body, h.said), h.name.day)

-----------------------------------------------------------------------------
(* session-end.js                                                          *)

Idle == [pc |-> "idle"]

Init ==
  /\ files = [n \in Names |-> IF n \in DOMAIN FirstFiles THEN FirstFiles[n] ELSE Missing]
  /\ order \in SetToSeqs(DOMAIN FirstFiles)
  /\ day = 1
  /\ said = [s \in Sessions |-> 0]
  /\ stop = [h \in Stops |-> Idle]
  /\ compact = Idle
  /\ open = [s \in Sessions |-> [pc |-> "closed"]]
  /\ blank = [s \in Sessions |-> {}]
  /\ leases = {} /\ marker = [s \in Sessions |-> Idle]
  /\ pidFile = {} /\ alive = {} /\ young = {} /\ filling = {} /\ ending = {} /\ observers = 0
  /\ starter = [h \in Starters |-> Idle] /\ lock = {}
  /\ notes = <<>> /\ excused = {}
  /\ told = [n \in Names |-> 0]
  /\ disturbed = {n \in DOMAIN FirstFiles : ~Summarised(FirstFiles[n])}
  /\ overtaken = {}
  /\ left \in Budgets

IsOpen(s) == open[s].pc = "open"
Spend(event) == /\ left[event] > 0
                /\ left' = [left EXCEPT ![event] = @ - 1]

UserSays(s) ==
  /\ IsOpen(s) /\ said[s] < MaxSaid /\ Spend("say")
  /\ said' = [said EXCEPT ![s] = @ + 1]
  /\ UNCHANGED <<fileVars, leaseVars, day, stop, compact, open, blank>>

Writers(n) == {h \in Stops : stop[h].pc # "idle" /\ stop[h].name = n}

\* the hook starts: it takes the date and summarises the transcript
StopFires(h, s) ==
  LET n == [dir |-> "session-data", day |-> day, id |-> ShortId[s]]
  IN  /\ stop[h].pc = "idle" /\ IsOpen(s) /\ Spend("stop")
      /\ stop' = [stop EXCEPT ![h] = [pc |-> "read", session |-> s, name |-> n, said |-> said[s]]]
      /\ disturbed' = disturbed \cup (IF Writers(n) = {} THEN {} ELSE {n})
      /\ UNCHANGED <<files, order, notes, excused, told, leaseVars, day, said, compact, open, blank>>

StopReads(h) ==
  /\ stop[h].pc = "read"
  /\ LET n == stop[h].name
     IN  stop' = [stop EXCEPT ![h] =
                    IF files[n] = Empty THEN Idle
                    ELSE [pc |-> "open", session |-> @.session, name |-> n, said |-> @.said,
                          read |-> files[n], next |-> Written(@, files[n])]]
  /\ UNCHANGED <<fileVars, leaseVars, day, said, compact, open, blank, left>>

\* writeFileSync empties the file and then fills it
StopOpens(h) ==
  /\ stop[h].pc = "open"
  /\ files' = [files EXCEPT ![stop[h].name] = Empty]
  /\ order' = Touched(stop[h].name)
  /\ stop' = [stop EXCEPT ![h].pc = "fill"]
  /\ excused' = excused \cup (NotesIn(files[stop[h].name]) \ NotesIn(stop[h].read))
                    \cup (NotesIn(stop[h].read) \ (NotesIn(stop[h].next) \cup Spared(stop[h].read)))
  /\ UNCHANGED <<notes, told, disturbed, leaseVars, day, said, compact, open, blank, left>>

StopFills(h) ==
  LET n == stop[h].name
  IN  /\ stop[h].pc = "fill"
      /\ files' = [files EXCEPT ![n] = stop[h].next]
      /\ order' = Touched(n)
      /\ told' = [told EXCEPT ![n] = IF stop[h].said = 0 THEN @ ELSE stop[h].said]
      /\ excused' = excused \cup (NotesIn(files[n]) \ NotesIn(stop[h].read))
      /\ stop' = [stop EXCEPT ![h] = Idle]
      /\ UNCHANGED <<notes, disturbed, leaseVars, day, said, compact, open, blank, left>>

\* the runner's timeout
StopKilled(h) ==
  /\ stop[h].pc # "idle" /\ Spend("fault")
  /\ excused' = excused \cup (IF stop[h].pc = "fill" THEN NotesIn(stop[h].next) ELSE {})
  /\ disturbed' = disturbed \cup {stop[h].name}
  /\ stop' = [stop EXCEPT ![h] = Idle]
  /\ UNCHANGED <<files, order, notes, told, leaseVars, day, said, compact, open, blank>>

\* the user writes a note at the end of a file
UserNotes(n) ==
  /\ files[n].kind = "whole" /\ Spend("note")
  /\ notes' = Append(notes, n)
  /\ files' = [files EXCEPT ![n].body = Append(@, Note(Len(notes) + 1)), ![n].day = day]
  /\ order' = Touched(n)
  /\ UNCHANGED <<excused, told, disturbed, leaseVars, day, said, stop, compact, open, blank>>

-----------------------------------------------------------------------------
(* pre-compact.js: the newest session file is taken for the active one.    *)

InMain(n) == n.dir = "session-data"

CompactPicks(s) ==
  LET found == Those(order, {n \in Names : InMain(n)})
  IN  /\ compact.pc = "idle" /\ IsOpen(s) /\ found # <<>> /\ Spend("compact")
      /\ compact' = [pc |-> "append", name |-> Head(found)]
      /\ UNCHANGED <<fileVars, leaseVars, day, said, stop, open, blank>>

\* appendFileSync makes the file if it is gone
CompactAppends ==
  LET n == compact.name
      f == files[n]
  IN  /\ compact.pc = "append"
      /\ files' = [files EXCEPT ![n] = IF f.kind = "whole" THEN File(f.header, Append(f.body, Mark), day)
                                       ELSE File(NoHeader, <<Mark>>, day)]
      /\ disturbed' = disturbed \cup (IF f.kind = "whole" THEN {} ELSE {n})
      /\ order' = Touched(n)
      /\ compact' = Idle
      /\ UNCHANGED <<notes, excused, told, leaseVars, day, said, stop, open, blank, left>>

NextDay ==
  /\ day < MaxDay /\ Spend("day")
  /\ day' = day + 1
  /\ UNCHANGED <<fileVars, leaseVars, said, stop, compact, open, blank>>

-----------------------------------------------------------------------------
(* session-start.js                                                        *)

At(s, pc) == open[s].pc = pc
Age(n) == IF files[n].kind = "whole" THEN day - files[n].day ELSE 0

\* pruneExpiredSessions, in both directories
Prune(s) ==
  LET expired == {n \in Names : Exists(n) /\ Age(n) > RetentionDays}
  IN  /\ At(s, "closed") /\ Spend("start")
      /\ files' = [n \in Names |-> IF n \in expired THEN Missing ELSE files[n]]
      /\ order' = Those(order, Names \ expired)
      /\ excused' = excused \cup UNION {NotesIn(files[n]) : n \in expired}
      /\ told' = [n \in Names |-> IF n \in expired THEN 0 ELSE told[n]]
      /\ disturbed' = disturbed \cup {n \in expired : Writers(n) # {}}
      /\ open' = [open EXCEPT ![s] = [pc |-> "lease"]]
      /\ UNCHANGED <<notes, leaseVars, day, said, stop, compact, blank>>

\* writeSessionLease
TakeLease(s) ==
  /\ At(s, "lease")
  /\ leases' = leases \cup {s}
  /\ overtaken' = overtaken \ {s}
  /\ marker' = [t \in Sessions |-> IF marker[t].pc \in {"stop", "unlink"}
                                   THEN [marker[t] EXCEPT !.since = @ \cup {s}] ELSE marker[t]]
  /\ open' = [open EXCEPT ![s] = [pc |-> "list"]]
  /\ UNCHANGED <<fileVars, day, said, stop, compact, pidFile, alive, filling, ending, startVars, blank, left>>

\* dedupeRecentSessions: of files of one name in both directories the newer
SameName(n, m) == n.day = m.day /\ n.id = m.id

Recent ==
  LET fresh == Those(order, {n \in Names : Age(n) <= RecentDays})
      first == {n \in Names : \A i \in DOMAIN fresh : SameName(fresh[i], n) => \E j \in 1..i : fresh[j] = n}
  IN  Those(fresh, first)

ListRecent(s) ==
  /\ At(s, "list")
  /\ open' = [open EXCEPT ![s] = [pc |-> "select", rest |-> Recent, byProject |-> {}, fallback |-> {},
                                  seen |-> files, listed |-> Recent, calm |-> TRUE]]
  /\ blank' = [blank EXCEPT ![s] = {}]
  /\ UNCHANGED <<fileVars, leaseVars, day, said, stop, compact, left>>

\* nothing has changed since the files were listed
StillCalm(c) == IF files = c.seen THEN c.calm ELSE FALSE

\* selectMatchingSession reads the files one after the other
Selected(s, n) ==
  open' = [open EXCEPT ![s] = [pc |-> "inject", from |-> n, seen |-> @.seen, listed |-> @.listed,
                               calm |-> StillCalm(@)]]

\* goes on to the next, with what it has found by now
LooksOn(s, byProject, fallback) ==
  LET c == open[s]
  IN  open' = [open EXCEPT ![s] = [c EXCEPT !.rest = Tail(c.rest), !.calm = StillCalm(c),
                                           !.byProject = byProject, !.fallback = fallback]]

\* a file that still holds the placeholder has nothing to go on from
HoldsNothing(f) == Blocks(f, "placeholder") # {}

Reads(s, n) == blank' = [blank EXCEPT ![s] = IF HoldsNothing(files[n]) THEN @ \cup {n} ELSE @]

\* Mutant: a file of the same worktree is not preferred.
SelectNextOfProject(s) ==
  LET c == open[s]
      n == Head(c.rest)
      f == files[n]
  IN  /\ c.pc = "select" /\ c.rest # <<>> /\ Reads(s, n)
      /\ IF f.kind # "whole" THEN LooksOn(s, c.byProject, c.fallback)
         ELSE LooksOn(s, IF c.byProject = {} /\ f.header.project = Project[s] THEN {n} ELSE c.byProject,
                         IF c.fallback = {} THEN {n} ELSE c.fallback)
      /\ UNCHANGED <<fileVars, leaseVars, day, said, stop, compact, left>>

SelectNext(s) ==
  LET c == open[s]
      n == Head(c.rest)
      f == files[n]
  IN  /\ c.pc = "select" /\ c.rest # <<>> /\ Reads(s, n)
      /\ IF f.kind # "whole" THEN LooksOn(s, c.byProject, c.fallback)
         ELSE IF f.header.worktree = Worktree[s] THEN Selected(s, {n})
         ELSE LooksOn(s, IF c.byProject = {} /\ f.header.project = Project[s] THEN {n} ELSE c.byProject,
                         IF c.fallback = {} THEN {n} ELSE c.fallback)
      /\ UNCHANGED <<fileVars, leaseVars, day, said, stop, compact, left>>

SelectEnds(s) ==
  /\ At(s, "select") /\ open[s].rest = <<>>
  /\ Selected(s, IF open[s].byProject # {} THEN open[s].byProject ELSE open[s].fallback)
  /\ UNCHANGED <<fileVars, leaseVars, day, said, stop, compact, blank, left>>

\* what the session is given: the file selected, as it was read, unless that held nothing
Injected(s) == open[s].from \ blank[s]

\* the session goes on; what it was given is not used again
Inject(s) ==
  /\ At(s, "inject")
  /\ open' = [open EXCEPT ![s] = [pc |-> "open"]]
  /\ UNCHANGED <<fileVars, leaseVars, day, said, stop, compact, blank, left>>

-----------------------------------------------------------------------------
(* The observer: observe.sh, start-observer.sh and observer-loop.sh of     *)
(* skills/continuous-learning-v2, observer-sessions.js,                    *)
(* session-end-marker.js.                                                  *)
(*                                                                         *)
(* A tool hook looks for a running observer, takes the lock, looks again   *)
(* and leaves the start to a script that looks once more. The pid file     *)
(* appears only when the observer writes it, after all that, and others    *)
(* remove it; but the descriptor that holds the lock of flock goes from    *)
(* the hook to the script and on to the observer, and is closed when the   *)
(* last of them ends. Without flock the lock is a file or a directory: it  *)
(* goes with the hook, and also with one that failed to take it (the traps *)
(* of observe.sh).                                                         *)

\* the running observer that is recorded
Recorded == pidFile \cap alive

StarterAt(h, pc) == starter[h].pc = pc
GoesTo(h, pc) == starter' = [starter EXCEPT ![h] = [pc |-> pc, stale |-> FALSE]]

\* the hook or its script ends
LeavesOff(h) ==
  /\ starter' = [starter EXCEPT ![h] = Idle]
  /\ lock' = IF Flock THEN lock \ {h} ELSE IF starter[h].pc \in {"lock", "relook"} THEN {} ELSE lock

NoneStarted == UNCHANGED <<alive, young, observers>>

\* Mutant: the descriptor of the lock is closed for the observer.
LaunchesUnlocked(h) ==
  /\ observers' = observers + 1
  /\ alive' = alive \cup {observers + 1} /\ young' = young \cup {observers + 1}
  /\ UNCHANGED lock
  /\ GoesTo(h, "wait")

Launches(h) ==
  /\ observers' = observers + 1
  /\ alive' = alive \cup {observers + 1} /\ young' = young \cup {observers + 1}
  /\ lock' = IF h \in lock THEN lock \cup {observers + 1} ELSE lock
  /\ GoesTo(h, "wait")

\* no observer is recorded: on to the next stage
Proceeds(h) ==
  \/ StarterAt(h, "look") /\ GoesTo(h, "lock") /\ UNCHANGED lock /\ NoneStarted
  \/ /\ StarterAt(h, "relook") /\ GoesTo(h, "check") /\ NoneStarted
     /\ lock' = IF Flock THEN lock ELSE {}
  \/ StarterAt(h, "check") /\ Launches(h)

\* a tool hook of an open session finds none running
ToolHook(h) ==
  /\ StarterAt(h, "idle") /\ Recorded = {}
  /\ \E s \in Sessions : IsOpen(s)
  /\ Spend("observer")
  /\ GoesTo(h, "look")
  /\ UNCHANGED <<fileVars, leases, marker, pidFile, alive, filling, ending, lock, young, observers, overtaken,
                 day, said, stop, compact, open, blank>>

\* one of the three looks at the pid file
Looks(h) ==
  /\ starter[h].pc \in {"look", "relook", "check"} /\ ~starter[h].stale
  /\ \/ Recorded # {} /\ LeavesOff(h) /\ NoneStarted
     \/ /\ Recorded = {} /\ pidFile # {}
        /\ starter' = [starter EXCEPT ![h] = [pc |-> @.pc, stale |-> TRUE]] /\ UNCHANGED lock /\ NoneStarted
     \/ pidFile = {} /\ Proceeds(h)
  /\ UNCHANGED <<fileVars, leases, marker, pidFile, filling, ending, overtaken, day, said, stop, compact, open,
                 blank, left>>

\* the file named no running process, when it was read
RemovesStale(h) ==
  /\ starter[h].pc \in {"look", "relook", "check"} /\ starter[h].stale
  /\ pidFile' = {}
  /\ Proceeds(h)
  /\ UNCHANGED <<fileVars, leases, marker, filling, ending, overtaken, day, said, stop, compact, open, blank,
                 left>>

TakesLock(h) ==
  /\ StarterAt(h, "lock")
  /\ IF lock = {} THEN lock' = {h} /\ GoesTo(h, "relook") ELSE LeavesOff(h)
  /\ UNCHANGED <<fileVars, leases, marker, pidFile, alive, filling, ending, young, observers, overtaken, day,
                 said, stop, compact, open, blank, left>>

\* after two seconds the script ends; a log that asks for permission makes it
\* end the observer first
ScriptEnds(h) ==
  /\ StarterAt(h, "wait")
  /\ \/ LeavesOff(h) /\ UNCHANGED ending
     \/ pidFile # {} /\ ending' = ending \cup Recorded /\ GoesTo(h, "remove") /\ UNCHANGED lock
  /\ UNCHANGED <<fileVars, leases, marker, pidFile, alive, filling, young, observers, overtaken, day, said,
                 stop, compact, open, blank, left>>

ScriptRemoves(h) ==
  /\ StarterAt(h, "remove")
  /\ pidFile' = {}
  /\ LeavesOff(h)
  /\ UNCHANGED <<fileVars, leases, marker, alive, filling, ending, young, observers, overtaken, day, said, stop,
                 compact, open, blank, left>>

OpensPidFile(p) ==
  /\ p \in young
  /\ young' = young \ {p} /\ filling' = filling \cup {p}
  /\ pidFile' = {0}
  /\ UNCHANGED <<fileVars, leases, marker, alive, ending, starter, lock, observers, overtaken, day, said, stop,
                 compact, open, blank, left>>

\* or the file was removed since it was opened
FillsPidFile(p) ==
  /\ p \in filling
  /\ filling' = filling \ {p}
  /\ \/ pidFile # {} /\ pidFile' = {p}
     \/ UNCHANGED pidFile
  /\ UNCHANGED <<fileVars, leases, marker, alive, ending, startVars, overtaken, day, said, stop, compact, open,
                 blank, left>>

\* the process is gone, and its hold on the lock
Gone(p) == /\ alive' = alive \ {p} /\ young' = young \ {p} /\ filling' = filling \ {p}
           /\ ending' = ending \ {p} /\ lock' = lock \ {p}

\* cleanup, after a signal or without leases: the pid file goes if it names this one
ObserverExits(p) ==
  /\ p \in alive \ (young \cup filling) /\ (leases = {} \/ p \in ending)
  /\ Gone(p) /\ pidFile' = pidFile \ {p}
  /\ UNCHANGED <<fileVars, leases, marker, starter, observers, overtaken, day, said, stop, compact, open, blank,
                 left>>

\* its pid file stays
ObserverCrashes(p) ==
  /\ p \in alive /\ Spend("fault")
  /\ Gone(p)
  /\ UNCHANGED <<fileVars, leases, marker, pidFile, starter, observers, overtaken, day, said, stop, compact,
                 open, blank>>

\* a session is closed; its end hook runs while another may start
CloseSession(s) ==
  /\ IsOpen(s) /\ marker[s].pc = "idle" /\ Spend("close")
  /\ open' = [open EXCEPT ![s] = [pc |-> "closed"]]
  /\ marker' = [marker EXCEPT ![s] = [pc |-> "remove"]]
  /\ UNCHANGED <<fileVars, leases, pidFile, alive, filling, ending, startVars, overtaken, day, said, stop, compact, blank>>

SessionCrashes(s) ==
  /\ IsOpen(s) /\ Spend("fault")
  /\ open' = [open EXCEPT ![s] = [pc |-> "closed"]]
  /\ UNCHANGED <<fileVars, leaseVars, day, said, stop, compact, blank>>

MarkerRemoves(s) ==
  /\ marker[s].pc = "remove"
  /\ leases' = leases \ {s}
  /\ overtaken' = overtaken \cup (IF open[s].pc \in {"closed", "lease"} THEN {} ELSE {s})
  /\ marker' = [marker EXCEPT ![s] = [pc |-> "list"]]
  /\ UNCHANGED <<fileVars, pidFile, alive, filling, ending, startVars, day, said, stop, compact, open, blank, left>>

\* Mutant: one remaining lease counts as none.
MarkerListsOne(s) ==
  /\ marker[s].pc = "list"
  /\ marker' = [marker EXCEPT ![s] = IF Cardinality(leases) <= 1 THEN [pc |-> "stop", since |-> {}] ELSE Idle]
  /\ UNCHANGED <<fileVars, leases, pidFile, alive, filling, ending, startVars, overtaken, day, said, stop, compact,
                 open, blank, left>>

MarkerLists(s) ==
  /\ marker[s].pc = "list"
  /\ marker' = [marker EXCEPT ![s] = IF leases = {} THEN [pc |-> "stop", since |-> {}] ELSE Idle]
  /\ UNCHANGED <<fileVars, leases, pidFile, alive, filling, ending, startVars, overtaken, day, said, stop, compact,
                 open, blank, left>>

\* stopObserverForContext: no file, or one that names no running process, or a signal
MarkerStops(s) ==
  /\ marker[s].pc = "stop"
  /\ marker' = [marker EXCEPT ![s] = IF pidFile = {} THEN Idle ELSE [@ EXCEPT !.pc = "unlink"]]
  /\ ending' = ending \cup Recorded
  /\ UNCHANGED <<fileVars, leases, pidFile, alive, filling, startVars, overtaken, day, said, stop, compact, open,
                 blank, left>>

MarkerUnlinks(s) ==
  /\ marker[s].pc = "unlink"
  /\ pidFile' = {}
  /\ marker' = [marker EXCEPT ![s] = Idle]
  /\ UNCHANGED <<fileVars, leases, alive, filling, ending, startVars, overtaken, day, said, stop, compact, open,
                 blank, left>>

-----------------------------------------------------------------------------
StopHooks == \E h \in Stops : \/ \E s \in Sessions : StopFires(h, s)
                              \/ StopReads(h) \/ StopOpens(h) \/ StopFills(h) \/ StopKilled(h)

Starts == \E s \in Sessions : Prune(s) \/ TakeLease(s) \/ ListRecent(s) \/ SelectNext(s) \/ SelectEnds(s)
                                \/ Inject(s)

StartsObserver == \E h \in Starters : \/ ToolHook(h) \/ Looks(h) \/ RemovesStale(h) \/ TakesLock(h)
                                       \/ ScriptEnds(h) \/ ScriptRemoves(h)

Observing == \/ StartsObserver
             \/ \E p \in alive : \/ OpensPidFile(p) \/ FillsPidFile(p)
                                \/ ObserverExits(p) \/ ObserverCrashes(p)
             \/ \E s \in Sessions : \/ CloseSession(s) \/ SessionCrashes(s) \/ MarkerRemoves(s)
                                    \/ MarkerLists(s) \/ MarkerStops(s) \/ MarkerUnlinks(s)

Next == \/ StopHooks \/ Starts \/ Observing
        \/ \E s \in Sessions : UserSays(s) \/ CompactPicks(s)
        \/ \E n \in Names : UserNotes(n)
        \/ CompactAppends \/ NextDay

Spec == Init /\ [][Next]_vars

-----------------------------------------------------------------------------
(* Session files.                                                          *)

\* What the user wrote in a session file stays there through any number of
\* stop hooks, unless a hook that read the file before ends after, the hook
\* is killed between emptying and filling the file, the file expires, or the
\* note stands below the placeholder that the first summary replaces
\* (session-end.js, main: "preserves user-authored sections").
NotesKept ==
  \A k \in DOMAIN notes :
    \/ k \in excused \/ k \in NotesIn(files[notes[k]])
    \/ \E h \in Writers(notes[k]) : stop[h].pc = "fill" /\ k \in NotesIn(stop[h].next)

\* However many responses a session has had, its file of the day holds one
\* summary, that of the last stop hook that wrote it, if the writers of the
\* file never met, none was killed and a stop hook began the file
\* (session-end.js, main: "keeps repeated Stop invocations idempotent").
SummaryCurrent ==
  \A n \in Names \ disturbed :
    told[n] > 0 /\ Writers(n) = {} =>
      /\ Cardinality(Blocks(files[n], "summary")) = 1
      /\ \A i \in Blocks(files[n], "summary") : files[n].body[i].said = told[n]

\* A session that starts is given the newest recent file of its worktree, else
\* of its project, else of all; of a name in both directories the newer; and
\* nothing if that file still holds no summary
\* (session-start.js, dedupeRecentSessions, selectMatchingSession, main).
\* Files that change while they are read may be missed.
Rank(s, f) == IF f.header.worktree = Worktree[s] THEN 1 ELSE IF f.header.project = Project[s] THEN 2 ELSE 3

InjectedBest ==
  \A s \in Sessions : At(s, "inject") /\ open[s].calm =>
    LET seen(n) == open[s].seen[n]
        readable == {i \in DOMAIN open[s].listed : seen(open[s].listed[i]).kind = "whole"}
        rank(i) == Rank(s, seen(open[s].listed[i]))
        best == {j \in readable : \A k \in readable : rank(j) < rank(k) \/ (rank(j) = rank(k) /\ j <= k)}
    IN  Injected(s) = {open[s].listed[i] : i \in {j \in best : ~HoldsNothing(seen(open[s].listed[j]))}}

-----------------------------------------------------------------------------
(* The observer.                                                           *)

\* A hook that is about to end the observer ends it under no session but
\* those that took their lease after it had listed the leases
\* (session-end-marker.js, run).
ObserverOutlivesSessions == \A s \in Sessions : marker[s].pc = "stop" => leases \subseteq marker[s].since

\* Where there is a flock, one observer runs for a project, though starts meet,
\* though its pid file is written late, and removed under it by hooks of ended
\* sessions and by those who read it half written (observe.sh: "use flock for
\* atomic check-then-act to prevent race conditions").
OneObserver == Flock => Cardinality(alive) <= 1

\* A session that runs holds its lease, unless the end hook of its own earlier
\* run removed it late (removeSessionLease).
LeaseHeld == \A s \in Sessions : open[s].pc \notin {"closed", "lease"} => s \in leases \cup overtaken

\* Sessions that begin and end beside each other share one observer, which lives as
\* long as one of them holds a lease (observer-sessions.js).
ObserverHeld == ObserverOutlivesSessions /\ OneObserver /\ LeaseHeld
=============================================================================
