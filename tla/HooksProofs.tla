----------------------------- MODULE HooksProofs -----------------------------
(***************************************************************************)
(* What HooksAtWork promises, for any number of hooks, calls, files and    *)
(* servers: the list of edited files is handed over exactly, the share of  *)
(* the time holds for any number of batches, verdicts decide, and what is  *)
(* decided on the mark of a server, by whatever process it was saved, was  *)
(* found out lately enough.                                                *)
(***************************************************************************)
EXTENDS HooksAtWork, FiniteSetTheorems, TLAPS

ReadBy(h) == ToSet(batch[h].lines)

Dirs == {ProjectRoot[f] : f \in Paths} \cup {TsConfig[f] : f \in Paths}
AnyBatch == [kind : {"format", "typecheck"}, dir : Dirs, files : SUBSET Paths]

Work(w) ==
  \/ w = Waiting
  \/ w.pc = "read" /\ w.lines \in Seq(Paths)
  \/ /\ w.pc = "run" /\ DOMAIN w = {"pc", "files", "todo", "spent", "share"}
     /\ w.files \subseteq Paths /\ w.todo \subseteq AnyBatch /\ w.spent \in Nat /\ w.share \in Nat

\* The shapes of the list, the counters and the processes.
ListType ==
  /\ list \in [exists : BOOLEAN, lines : Seq(Paths)]
  /\ handled \in [Paths -> Nat] /\ recorded \in [Paths -> Nat]
  /\ batch = [h \in Stops |-> batch[h]] /\ \A h \in Stops : Work(batch[h])
  /\ present \subseteq Paths

\* What stands on the list has been recorded once more than it was handled;
\* what a process has read is what stands on the list, and two processes have
\* read only files that are counted as missed.
Exact ==
  /\ \A f \in Paths \ missed : handled[f] <= recorded[f] /\ (f \in Listed => handled[f] < recorded[f])
  /\ \A h \in Reading : Listed \ missed \subseteq ReadBy(h) /\ ReadBy(h) \ missed \subseteq Listed
  /\ \A g, h \in Reading : g # h => ReadBy(g) \subseteq missed

ListInv == ListType /\ Exact

-----------------------------------------------------------------------------
(* Sequences as sets.                                                      *)

LEMMA SetOfAppended ==
  ASSUME NEW S, NEW s \in Seq(S), NEW e \in S
  PROVE  /\ Append(s, e) \in Seq(S) /\ ToSet(Append(s, e)) = ToSet(s) \cup {e}
         /\ ToSet(s) \subseteq S
<1>1. /\ Append(s, e) \in Seq(S) /\ Len(Append(s, e)) = Len(s) + 1 /\ Len(s) \in Nat
      /\ DOMAIN s = 1..Len(s) /\ DOMAIN Append(s, e) = 1..(Len(s) + 1)
      /\ Append(s, e)[Len(s) + 1] = e
      /\ \A i \in 1..Len(s) : Append(s, e)[i] = s[i]
  OBVIOUS
<1>2. ToSet(Append(s, e)) \subseteq ToSet(s) \cup {e}
  BY <1>1 DEF ToSet
<1>3. ToSet(s) \subseteq ToSet(Append(s, e))
  BY <1>1 DEF ToSet
<1>4. e \in ToSet(Append(s, e))
  BY <1>1 DEF ToSet
<1>5. QED
  BY <1>1, <1>2, <1>3, <1>4 DEF ToSet

LEMMA SetOfElements ==
  ASSUME NEW S, NEW s \in Seq(S)
  PROVE  ToSet(s) \subseteq S
  BY DEF ToSet

LEMMA SetOfNothing == ToSet(<<>>) = {}
  BY DEF ToSet

-----------------------------------------------------------------------------
(* ListInv is inductive.                                                   *)

LEMMA InitList == Init => ListInv
  BY SetOfNothing DEF Init, BatchInit, ListInv, ListType, Exact, Listed, Reading, NoList, Waiting, Work

LEMMA RecordKeeps ==
  ASSUME ListInv, NEW f \in Paths, Record(f)
  PROVE  ListInv'
<1>1. /\ list'.lines \in Seq(Paths) /\ Listed' = Listed \cup {f} /\ list' \in [exists : BOOLEAN, lines : Seq(Paths)]
  BY SetOfAppended DEF Record, ListInv, ListType, Listed
<1>2. ListType'
  BY <1>1 DEF Record, ListInv, ListType
<1>3. Reading' = Reading /\ \A h \in Reading : ReadBy(h)' = ReadBy(h)
  BY DEF Record, Reading, ReadBy
<1>4. Exact'
  <2>1. missed' = (IF Reading = {} THEN missed ELSE missed \cup {f}) /\ handled' = handled
        /\ recorded' = [recorded EXCEPT ![f] = @ + 1]
    BY DEF Record
  <2>2. \A g \in Paths \ missed' : handled'[g] <= recorded'[g] /\ (g \in Listed' => handled'[g] < recorded'[g])
    BY <1>1, <2>1 DEF ListInv, ListType, Exact
  <2>3. \A h \in Reading' : Listed' \ missed' \subseteq ReadBy(h)' /\ ReadBy(h)' \ missed' \subseteq Listed'
    BY <1>1, <1>3, <2>1 DEF ListInv, Exact
  <2>4. \A g, h \in Reading' : g # h => ReadBy(g)' \subseteq missed'
    BY <1>3, <2>1 DEF ListInv, Exact
  <2>5. QED
    BY <2>2, <2>3, <2>4 DEF Exact
<1>5. QED
  BY <1>2, <1>4 DEF ListInv

LEMMA ReadsKeeps ==
  ASSUME ListInv, NEW h \in Stops, BatchReads(h)
  PROVE  ListInv'
<1>1. ListType'
  BY DEF BatchReads, ListInv, ListType, Work, Waiting
<1>2. /\ Reading' = Reading \cup {h} /\ h \notin Reading /\ ReadBy(h)' = Listed
      /\ \A g \in Reading : ReadBy(g)' = ReadBy(g)
  BY DEF BatchReads, Reading, ReadBy, Listed, ListInv, ListType, Waiting
<1>3. Listed' = Listed
  BY DEF BatchReads, Listed
<1>4. Exact'
  BY <1>2, <1>3 DEF BatchReads, ListInv, Exact
<1>5. QED
  BY <1>1, <1>4 DEF ListInv

\* The batches of a process are finitely many, and each is of files it took.
LEMMA BatchesShape ==
  ASSUME NEW files \in SUBSET Paths
  PROVE  /\ Batches(files) \subseteq AnyBatch /\ IsFiniteSet(Batches(files))
         /\ \A b \in Batches(files) : b.files \subseteq files
         /\ \A f \in files \cap present : Recordable(f) =>
              \E b \in Batches(files) : b.kind = "format" /\ f \in b.files
<1> DEFINE found == files \cap present
<1>1. ASSUME NEW set \in SUBSET files, NEW kind \in {"format", "typecheck"},
             NEW dirOf, \A f \in Paths : dirOf[f] \in Dirs
      PROVE  /\ Grouped(set, kind, dirOf) \subseteq AnyBatch /\ IsFiniteSet(Grouped(set, kind, dirOf))
             /\ \A b \in Grouped(set, kind, dirOf) : b.files \subseteq files
             /\ \A f \in set : dirOf[f] # "none" =>
                  \E b \in Grouped(set, kind, dirOf) : b.kind = kind /\ f \in b.files
  <2> DEFINE somewhere == {f \in set : dirOf[f] # "none"}
             batchOf == [f \in somewhere |-> [kind |-> kind, dir |-> dirOf[f], files |-> {g \in set : dirOf[g] = dirOf[f]}]]
  <2>1. IsFiniteSet(somewhere)
    BY BatchAssumption, FS_Subset
  <2>2. Grouped(set, kind, dirOf) = {batchOf[f] : f \in somewhere}
    BY DEF Grouped
  <2>3. batchOf \in Surjection(somewhere, Grouped(set, kind, dirOf))
    BY <2>2 DEF Surjection
  <2>4. IsFiniteSet(Grouped(set, kind, dirOf))
    BY <2>1, <2>3, FS_Surjection DEF ExistsSurjection
  <2>5. \A f \in somewhere : batchOf[f] \in AnyBatch /\ batchOf[f].files \subseteq files
                              /\ batchOf[f].kind = kind /\ f \in batchOf[f].files
    BY <1>1 DEF AnyBatch
  <2>6. QED
    BY <2>2, <2>4, <2>5
<1>2. \A f \in Paths : ProjectRoot[f] \in Dirs /\ TsConfig[f] \in Dirs
  BY DEF Dirs
<1> DEFINE toFormat == {f \in found : Recordable(f)}
           toCheck == {f \in found : Language[f] = "ts"}
<1>3. /\ Grouped(toFormat, "format", ProjectRoot) \subseteq AnyBatch
      /\ IsFiniteSet(Grouped(toFormat, "format", ProjectRoot))
      /\ \A b \in Grouped(toFormat, "format", ProjectRoot) : b.files \subseteq files
      /\ \A f \in toFormat : ProjectRoot[f] # "none" =>
           \E b \in Grouped(toFormat, "format", ProjectRoot) : b.kind = "format" /\ f \in b.files
  BY <1>1, <1>2
<1>4. /\ Grouped(toCheck, "typecheck", TsConfig) \subseteq AnyBatch
      /\ IsFiniteSet(Grouped(toCheck, "typecheck", TsConfig))
      /\ \A b \in Grouped(toCheck, "typecheck", TsConfig) : b.files \subseteq files
  BY <1>1, <1>2
<1>5. Batches(files) = Grouped(toFormat, "format", ProjectRoot) \cup Grouped(toCheck, "typecheck", TsConfig)
  BY DEF Batches
<1>6. \A f \in files \cap present : Recordable(f) => f \in toFormat /\ ProjectRoot[f] # "none"
  BY BatchAssumption DEF Recordable
<1>7. IsFiniteSet(Batches(files))
  BY <1>3, <1>4, <1>5, FS_Union
<1>8. QED
  BY <1>3, <1>4, <1>5, <1>6, <1>7

Share(batches) == IF batches = {} THEN 0 ELSE TotalBudget \div Cardinality(batches)

LEMMA SharesFit ==
  ASSUME NEW batches, IsFiniteSet(batches)
  PROVE  Share(batches) \in Nat /\ Cardinality(batches) * Share(batches) <= TotalBudget
<1>1. CASE batches = {}
  BY <1>1, FS_EmptySet, BatchAssumption DEF Share
<1>2. CASE batches # {}
  <2>1. Cardinality(batches) \in Nat \ {0}
    BY <1>2, FS_CardinalityType, FS_EmptySet
  <2>2. \A n \in Nat \ {0}, t \in Nat : (t \div n) \in Nat /\ n * (t \div n) <= t
    OBVIOUS
  <2>3. QED
    BY <1>2, <2>1, <2>2, BatchAssumption DEF Share
<1>3. QED
  BY <1>1, <1>2

\* The list is gone, or what was read from it counts as missed.
LEMMA RemovesOrMisses ==
  ASSUME NEW h \in Stops, BatchRemovesList(h)
  PROVE  \/ list' = NoList /\ missed' = missed
         \/ list' = list /\ missed' = missed \cup ReadBy(h)
<1>1. \/ list' = NoList /\ UNCHANGED <<missed, left>>
      \/ list' = list /\ missed' = missed \cup ToSet(batch[h].lines)
  BY Zenon DEF BatchRemovesList
<1>2. QED
  BY <1>1 DEF ReadBy

LEMMA RemovesKeeps ==
  ASSUME ListInv, NEW h \in Stops, BatchRemovesList(h)
  PROVE  ListInv'
<1> DEFINE files == ReadBy(h)
<1>1. files \in SUBSET Paths /\ h \in Reading
  <2>1. batch[h].pc = "read" /\ Work(batch[h])
    BY DEF BatchRemovesList, ListInv, ListType
  <2>2. batch[h].lines \in Seq(Paths)
    BY <2>1 DEF Work, Waiting
  <2>3. QED
    BY <2>1, <2>2, SetOfElements DEF ReadBy, Reading
<1>2. /\ Batches(files) \subseteq AnyBatch /\ IsFiniteSet(Batches(files))
      /\ Share(Batches(files)) \in Nat
  BY <1>1, BatchesShape, SharesFit
<1>3. batch' = [batch EXCEPT ![h] = [pc |-> "run", files |-> files, todo |-> Batches(files),
                                     spent |-> 0, share |-> Share(Batches(files))]]
  BY DEF BatchRemovesList, ReadBy, Share
<1>4. /\ list' \in [exists : BOOLEAN, lines : Seq(Paths)]
      /\ \/ Listed' = {} /\ missed' = missed
         \/ Listed' = Listed /\ missed' = missed \cup files
  <2>1. CASE list' = NoList /\ missed' = missed
    BY <2>1, SetOfNothing DEF Listed, NoList
  <2>2. CASE list' = list /\ missed' = missed \cup files
    BY <2>2 DEF Listed, ListInv, ListType
  <2>3. QED
    BY <2>1, <2>2, RemovesOrMisses
<1>5. /\ handled' = [f \in Paths |-> IF f \in files THEN handled[f] + 1 ELSE handled[f]]
      /\ UNCHANGED <<present, recorded>>
  BY DEF BatchRemovesList, ReadBy
<1>6. ListType'
  <2>1. Work(batch'[h])
    BY <1>1, <1>2, <1>3 DEF ListInv, ListType, Work
  <2>2. batch' = [g \in Stops |-> batch'[g]] /\ \A g \in Stops : Work(batch'[g])
    BY <1>3, <2>1 DEF ListInv, ListType
  <2>3. QED
    BY <1>1, <1>4, <1>5, <2>2 DEF ListInv, ListType
<1>7. Reading' = Reading \ {h} /\ \A g \in Reading \ {h} : ReadBy(g)' = ReadBy(g)
  BY <1>1, <1>3 DEF Reading, ReadBy, ListInv, ListType
<1>8. Exact'
  BY <1>1, <1>4, <1>5, <1>6, <1>7 DEF ListInv, ListType, Exact
<1>9. QED
  BY <1>6, <1>8 DEF ListInv

\* A process that runs batches or ends reads nothing, whatever it does.
LEMMA RunKeeps ==
  ASSUME ListInv, NEW h \in Stops, NEW b \in batch[h].todo, NEW hangs \in BOOLEAN, RunBatch(h, b, hangs)
  PROVE  ListInv'
<1>1. /\ batch[h].pc = "run" /\ DOMAIN batch[h] = {"pc", "files", "todo", "spent", "share"}
      /\ batch[h].files \subseteq Paths /\ batch[h].todo \subseteq AnyBatch
      /\ batch[h].spent \in Nat /\ batch[h].share \in Nat
  <2>1. batch[h].pc = "run" /\ Work(batch[h])
    BY DEF RunBatch, ListInv, ListType
  <2>2. QED
    BY <2>1 DEF Work, Waiting
<1>2. batch' = [g \in Stops |-> batch'[g]] /\ \A g \in Stops \ {h} : batch'[g] = batch[g]
  BY DEF RunBatch, ListInv, ListType
<1>3. /\ DOMAIN batch'[h] = DOMAIN batch[h] /\ batch'[h].pc = "run" /\ batch'[h].files = batch[h].files
      /\ batch'[h].todo = batch[h].todo \ {b} /\ batch'[h].share = batch[h].share
      /\ batch'[h].spent = batch[h].spent + (IF hangs THEN batch[h].share ELSE 0)
  BY <1>1 DEF RunBatch, ListInv, ListType
<1>4. Work(batch'[h])
  BY <1>1, <1>3 DEF Work
<1>5. ListType'
  BY <1>2, <1>4 DEF RunBatch, ListInv, ListType, Work
<1>6. Reading' = Reading /\ (\A g \in Reading : ReadBy(g)' = ReadBy(g)) /\ Listed' = Listed
  BY <1>1, <1>2, <1>3 DEF RunBatch, Reading, ReadBy, Listed, ListInv, ListType
<1>7. Exact'
  BY <1>6 DEF RunBatch, ListInv, Exact
<1>8. QED
  BY <1>5, <1>7 DEF ListInv

LEMMA EndsOrDiesKeeps ==
  ASSUME ListInv, NEW h \in Stops, BatchEnds(h) \/ BatchDies(h)
  PROVE  ListInv'
<1>1. /\ batch' = [batch EXCEPT ![h] = Waiting] /\ UNCHANGED <<list, present, handled, recorded>>
      /\ missed \subseteq missed'
  BY DEF BatchEnds, BatchDies
<1>2. ListType'
  BY <1>1 DEF ListInv, ListType, Work
<1>3. Reading' = Reading \ {h} /\ (\A g \in Reading \ {h} : ReadBy(g)' = ReadBy(g)) /\ Listed' = Listed
  BY <1>1 DEF Reading, ReadBy, Listed, ListInv, ListType, Waiting
<1>4. Exact'
  BY <1>1, <1>3 DEF ListInv, Exact
<1>5. QED
  BY <1>2, <1>4 DEF ListInv

\* All other steps leave the list and the processes alone.
Aside == UNCHANGED <<list, batch, handled, recorded>> /\ missed \subseteq missed' /\ present' \subseteq Paths

LEMMA AsideKeeps ==
  ASSUME ListInv, Aside
  PROVE  ListInv'
<1>1. Reading' = Reading /\ (\A g \in Reading : ReadBy(g)' = ReadBy(g)) /\ Listed' = Listed
  BY DEF Aside, Reading, ReadBy, Listed
<1>2. QED
  BY <1>1 DEF Aside, ListInv, ListType, Exact

-----------------------------------------------------------------------------
(* Calls and the verdicts of their hooks.                                  *)

Guard == "config-protection"

\* A call holds the files it edits and a status of each hook that has ended; the
\* status 2 is the guard's alone, which gave it for its reasons.
CallFields == {"pc", "path", "files", "long", "failed", "status", "todo"}
CallShape ==
  /\ call = [c \in Calls |-> call[c]]
  /\ \A c \in Calls : call[c].pc # "idle" =>
       DOMAIN call[c] = CallFields /\ call[c].files \subseteq Paths /\ call[c].todo \subseteq Paths

Judged(w) ==
  /\ w.failed \subseteq DOMAIN w.status
  /\ \A hook \in DOMAIN w.status : w.status[hook] = 2 =>
       hook = Guard /\ Enabled(Guard) /\ (w.path \in Protected \/ w.long) /\ Guard \notin w.failed
  /\ Guard \in DOMAIN w.status \ w.failed /\ Enabled(Guard) /\ w.path \in Protected => w.status[Guard] = 2

CallInv ==
  /\ CallShape
  /\ \A c \in Calls : call[c].pc # "idle" => Judged(call[c])
  /\ \A c \in Calls : call[c].pc = "refused" => Refuses(call[c])
  /\ ProtectedUntouched

LEMMA InitCalls == Init => CallInv
  BY DEF Init, DispatchInit, CallInv, CallShape, ProtectedUntouched

LEMMA BeginCalls ==
  ASSUME CallInv, NEW c \in Calls, NEW f \in Paths \cup {"none"}, NEW more \in EditLists,
         NEW long \in BOOLEAN, BeginEdit(c, f, more, long)
  PROVE  CallInv'
<1>1. call' = [call EXCEPT ![c] = [pc |-> "before", path |-> f, files |-> more \cup ({f} \cap Paths),
                                   long |-> long, failed |-> {}, status |-> [hook \in {} |-> 0],
                                   todo |-> {}]]
      /\ UNCHANGED <<settings, edited, bypassed>>
  BY DEF BeginEdit
<1>2. \A g \in Calls \ {c} : call'[g] = call[g]
  BY <1>1 DEF CallInv, CallShape
<1>3. /\ call'[c].pc = "before" /\ call'[c].path = f
      /\ call'[c].files = more \cup ({f} \cap Paths) /\ call'[c].todo = {}
      /\ call'[c].failed = {} /\ DOMAIN call'[c].status = {}
      /\ DOMAIN call'[c] = CallFields
  BY <1>1 DEF CallInv, CallShape, CallFields
<1>4. CallShape'
  BY <1>1, <1>2, <1>3, DispatchAssumption DEF CallInv, CallShape
<1>5. \A g \in Calls : call'[g].pc # "idle" => Judged(call[g])'
  BY <1>1, <1>2, <1>3 DEF CallInv, Judged, Enabled, HookProfile
<1>6. \A g \in Calls : call'[g].pc = "refused" => Refuses(call[g])'
  BY <1>1, <1>2, <1>3 DEF CallInv, Refuses
<1>7. ProtectedUntouched'
  BY <1>1 DEF CallInv, ProtectedUntouched, Enabled, HookProfile
<1>8. QED
  BY <1>4, <1>5, <1>6, <1>7 DEF CallInv

LEMMA HookCalls ==
  ASSUME CallInv, NEW c \in Calls, NEW hook \in Before, NEW way \in Ways, HookRuns(c, hook, way)
  PROVE  CallInv'
<1> DEFINE w == call[c]
           answer == ExitStatus(hook, w.path, w.long, way)
<1>1. /\ w.pc = "before" /\ hook \notin DOMAIN w.status
      /\ DOMAIN w = CallFields /\ w.files \subseteq Paths /\ w.todo \subseteq Paths /\ Judged(w)
      /\ UNCHANGED <<settings, edited, bypassed>>
  BY DEF HookRuns, CallInv, CallShape
<1>2. /\ \A g \in Calls \ {c} : call'[g] = call[g]
      /\ call' = [g \in Calls |-> call'[g]]
  BY DEF HookRuns, CallInv, CallShape
<1>3. /\ DOMAIN call'[c] = DOMAIN w /\ call'[c].pc = "before"
      /\ call'[c].path = w.path /\ call'[c].long = w.long
      /\ call'[c].files = w.files /\ call'[c].todo = w.todo
      /\ call'[c].status = With(w.status, hook, answer)
      /\ call'[c].failed = IF Failing(way) THEN w.failed \cup {hook} ELSE w.failed
  BY <1>1 DEF HookRuns, CallInv, CallShape, CallFields
<1>4. /\ DOMAIN call'[c].status = DOMAIN w.status \cup {hook}
      /\ call'[c].status[hook] = answer
      /\ \A o \in DOMAIN w.status : call'[c].status[o] = w.status[o]
  BY <1>1, <1>3 DEF With
<1>5. /\ answer = 2 => hook = Guard /\ Enabled(Guard) /\ (w.path \in Protected \/ w.long) /\ ~Failing(way)
      /\ hook = Guard /\ Enabled(Guard) /\ w.path \in Protected /\ ~Failing(way) => answer = 2
  BY DEF ExitStatus, Answer, Protects, Guard
<1>6. Judged(call[c])'
  BY <1>1, <1>3, <1>4, <1>5 DEF Judged, Enabled, HookProfile
<1>7. CallShape'
  BY <1>1, <1>2, <1>3 DEF CallInv, CallShape
<1>8. \A g \in Calls : call'[g].pc # "idle" => Judged(call[g])'
  BY <1>1, <1>2, <1>6 DEF CallInv, Judged, Enabled, HookProfile
<1>9. \A g \in Calls : call'[g].pc = "refused" => Refuses(call[g])'
  BY <1>2, <1>3 DEF CallInv, Refuses
<1>10. ProtectedUntouched'
  BY <1>1 DEF CallInv, ProtectedUntouched, Enabled, HookProfile
<1>11. QED
  BY <1>7, <1>8, <1>9, <1>10 DEF CallInv

\* A call that none of its hooks refuses edits its files.
LEMMA MakeCalls ==
  ASSUME CallInv, NEW c \in Calls, MakeCall(c)
  PROVE  CallInv'
<1> DEFINE w == call[c]
<1>1. /\ w.pc = "before" /\ DOMAIN w.status = Before
      /\ DOMAIN w = CallFields /\ w.files \subseteq Paths /\ w.todo \subseteq Paths /\ Judged(w)
      /\ UNCHANGED settings
  BY DEF MakeCall, CallInv, CallShape
<1>2. /\ \A g \in Calls \ {c} : call'[g] = call[g]
      /\ call' = [g \in Calls |-> call'[g]]
  BY DEF MakeCall, CallInv, CallShape
<1>3. /\ DOMAIN call'[c] = DOMAIN w /\ call'[c].pc = IF Refuses(w) THEN "refused" ELSE "edited"
      /\ call'[c].path = w.path /\ call'[c].long = w.long /\ call'[c].files = w.files
      /\ call'[c].status = w.status /\ call'[c].failed = w.failed /\ call'[c].todo \subseteq Paths
  BY <1>1 DEF MakeCall, CallInv, CallShape, CallFields
<1>4. CallShape'
  BY <1>1, <1>2, <1>3 DEF CallInv, CallShape
<1>5. \A g \in Calls : call'[g].pc # "idle" => Judged(call[g])'
  BY <1>1, <1>2, <1>3 DEF CallInv, Judged, Enabled, HookProfile
<1>6. \A g \in Calls : call'[g].pc = "refused" => Refuses(call[g])'
  BY <1>1, <1>2, <1>3 DEF CallInv, Refuses
<1>7. ProtectedUntouched'
  <2>1. CASE Refuses(w)
    BY <1>1, <2>1 DEF MakeCall, CallInv, ProtectedUntouched, Enabled, HookProfile
  <2>2. CASE ~Refuses(w)
    <3>1. /\ edited' = edited \cup w.files
          /\ bypassed' = bypassed \cup (IF Guard \in w.failed THEN w.files ELSE w.files \ {w.path})
      BY <2>2 DEF MakeCall, Guard
    <3>2. Enabled(Guard) /\ w.path \in Protected => Guard \in w.failed
      BY <1>1, <2>2 DEF Judged, Refuses, Before, Guard
    <3>3. QED
      BY <1>1, <3>1, <3>2 DEF CallInv, ProtectedUntouched, Enabled, HookProfile, Guard
  <2>3. QED
    BY <2>1, <2>2
<1>8. QED
  BY <1>4, <1>5, <1>6, <1>7 DEF CallInv

LEMMA EndCalls ==
  ASSUME CallInv, NEW c \in Calls, call' = [call EXCEPT ![c] = [pc |-> "idle"]],
         UNCHANGED <<settings, edited, bypassed>>
  PROVE  CallInv'
<1>1. /\ \A g \in Calls \ {c} : call'[g] = call[g]
      /\ call'[c].pc = "idle" /\ call' = [g \in Calls |-> call'[g]]
  BY DEF CallInv, CallShape
<1>2. CallShape'
  BY <1>1 DEF CallInv, CallShape
<1>3. \A g \in Calls : call'[g].pc # "idle" => Judged(call[g])'
  BY <1>1 DEF CallInv, Judged, Enabled, HookProfile
<1>4. \A g \in Calls : call'[g].pc = "refused" => Refuses(call[g])'
  BY <1>1 DEF CallInv, Refuses
<1>5. ProtectedUntouched'
  BY DEF CallInv, ProtectedUntouched, Enabled, HookProfile
<1>6. QED
  BY <1>2, <1>3, <1>4, <1>5 DEF CallInv

\* A call whose files are appended stays as it was judged.
LEMMA AppendsCalls ==
  ASSUME CallInv, NEW c \in Calls, NEW f \in Paths, AppendsPath(c, f)
  PROVE  CallInv'
<1> DEFINE w == call[c]
<1>1. /\ w.pc = "edited" /\ DOMAIN w = CallFields /\ w.files \subseteq Paths /\ w.todo \subseteq Paths
      /\ Judged(w) /\ UNCHANGED <<settings, edited, bypassed>>
  BY DEF AppendsPath, CallInv, CallShape
<1>2. /\ \A g \in Calls \ {c} : call'[g] = call[g]
      /\ call' = [g \in Calls |-> call'[g]]
  BY DEF AppendsPath, CallInv, CallShape
<1>3. /\ DOMAIN call'[c] = DOMAIN w /\ call'[c].pc = "edited" /\ call'[c].path = w.path
      /\ call'[c].long = w.long /\ call'[c].files = w.files /\ call'[c].todo \subseteq Paths
      /\ call'[c].status = w.status /\ call'[c].failed = w.failed
  BY <1>1 DEF AppendsPath, CallInv, CallShape, CallFields
<1>4. CallShape'
  BY <1>1, <1>2, <1>3 DEF CallInv, CallShape
<1>5. \A g \in Calls : call'[g].pc # "idle" => Judged(call[g])'
  BY <1>1, <1>2, <1>3 DEF CallInv, Judged, Enabled, HookProfile
<1>6. \A g \in Calls : call'[g].pc = "refused" => Refuses(call[g])'
  BY <1>1, <1>2, <1>3 DEF CallInv, Refuses
<1>7. ProtectedUntouched'
  BY <1>1 DEF CallInv, ProtectedUntouched, Enabled, HookProfile
<1>8. QED
  BY <1>4, <1>5, <1>6, <1>7 DEF CallInv

LEMMA CallStep ==
  ASSUME CallInv, [Next]_vars
  PROVE  CallInv'
<1>1. CASE UNCHANGED dispatchVars
  BY <1>1 DEF dispatchVars, CallInv, CallShape, Judged, Refuses, ProtectedUntouched, Enabled, HookProfile
<1>2. CASE DispatchNext
  <2>1. ASSUME NEW c \in Calls, MakeCall(c) \/ Forget(c)
        PROVE  CallInv'
    BY <2>1, MakeCalls, EndCalls DEF Forget
  <2>2. ASSUME NEW c \in Calls, NEW way \in Ways, AfterEdit(c, way)
        PROVE  CallInv'
    BY <2>2, EndCalls DEF AfterEdit
  <2>3. QED
    BY <1>2, <2>1, <2>2, BeginCalls, HookCalls, AppendsCalls DEF DispatchNext
<1>3. QED
  BY <1>1, <1>2 DEF Next, vars

\* The verdict of the guard decides (VerdictsDecide), for any number of calls.
THEOREM VerdictDecides == Spec => []VerdictsDecide
<1>1. CallInv => VerdictsDecide
  BY DEF CallInv, Judged, Refuses, VerdictsDecide, ProtectedUntouched, OnlyVerdictsRefuse, Guard
<1>2. QED
  BY <1>1, InitCalls, CallStep, PTL DEF Spec

-----------------------------------------------------------------------------
(* Every step keeps ListInv.                                               *)

LEMMA ListStep ==
  ASSUME ListInv, CallInv, [Next]_vars
  PROVE  ListInv'
<1>1. CASE UNCHANGED batchVars
  BY <1>1, AsideKeeps DEF batchVars, Aside, ListInv, ListType
<1>2. CASE DispatchNext
  <2>1. ASSUME NEW c \in Calls, NEW f \in Paths \cup {"none"}, NEW more \in EditLists,
               NEW long \in BOOLEAN, BeginEdit(c, f, more, long)
        PROVE  UNCHANGED batchVars
    BY <2>1 DEF BeginEdit
  <2>2. ASSUME NEW c \in Calls, NEW hook \in Before, NEW way \in Ways, HookRuns(c, hook, way)
        PROVE  UNCHANGED batchVars
    BY <2>2 DEF HookRuns
  <2>3. ASSUME NEW c \in Calls, MakeCall(c)
        PROVE  ListInv'
    <3>1. call[c].files \subseteq Paths
      BY <2>3 DEF MakeCall, CallInv, CallShape
    <3>2. QED
      BY <2>3, <3>1, AsideKeeps DEF MakeCall, Aside, ListInv, ListType
  <2>4. ASSUME NEW c \in Calls, Forget(c)
        PROVE  UNCHANGED batchVars
    BY <2>4 DEF Forget
  <2>5. ASSUME NEW c \in Calls, NEW way \in Ways, AfterEdit(c, way)
        PROVE  ListInv'
    BY <2>5, AsideKeeps DEF AfterEdit, Aside, ListInv, ListType
  <2>6. ASSUME NEW c \in Calls, NEW f \in Paths, AppendsPath(c, f)
        PROVE  ListInv'
    BY <2>6, RecordKeeps DEF AppendsPath
  <2>7. QED
    BY <1>1, <1>2, <2>1, <2>2, <2>3, <2>4, <2>5, <2>6 DEF DispatchNext
<1>3. CASE BatchNext
  BY <1>3, ReadsKeeps, RemovesKeeps, RunKeeps, EndsOrDiesKeeps DEF BatchNext
<1>4. ASSUME NEW f \in Paths, RemoveFile(f)
      PROVE  ListInv'
  BY <1>4, AsideKeeps DEF RemoveFile, Aside, ListInv, ListType
<1>5. QED
  BY <1>1, <1>2, <1>3, <1>4 DEF Next, vars

\* A record is handled once, unless it is counted as missed (ProcessedOnce).
THEOREM RecordsHandledOnce == Spec => []ProcessedOnce
<1>1. ListInv => ProcessedOnce
  BY DEF ListInv, Exact, ProcessedOnce
<1>2. QED
  BY <1>1, InitCalls, CallStep, InitList, ListStep, PTL DEF Spec

-----------------------------------------------------------------------------
(* The time of the batches.                                                *)

\* What a process has spent and what the shares of its remaining batches come to
\* stay within the budget.
InBudget(w) ==
  w.pc = "run" => /\ IsFiniteSet(w.todo)
                  /\ w.spent + Cardinality(w.todo) * w.share <= TotalBudget

BudgetInv == \A h \in Stops : InBudget(batch[h])

LEMMA BudgetStep ==
  ASSUME ListInv, BudgetInv, [Next]_vars
  PROVE  BudgetInv'
<1>1. CASE batch' = batch
  BY <1>1 DEF BudgetInv, InBudget
<1>2. ASSUME NEW h \in Stops, \A g \in Stops \ {h} : batch'[g] = batch[g], InBudget(batch'[h])
      PROVE  BudgetInv'
  BY <1>2 DEF BudgetInv, InBudget
<1>3. ASSUME NEW h \in Stops, BatchReads(h) \/ BatchEnds(h) \/ BatchDies(h)
      PROVE  BudgetInv'
  <2>1. batch'[h].pc # "run" /\ \A g \in Stops \ {h} : batch'[g] = batch[g]
    BY <1>3 DEF BatchReads, BatchEnds, BatchDies, Waiting, ListInv, ListType
  <2>2. QED
    BY <1>2, <2>1 DEF InBudget
<1>4. ASSUME NEW h \in Stops, BatchRemovesList(h)
      PROVE  BudgetInv'
  <2> DEFINE batches == Batches(ReadBy(h))
  <2>1. batch[h].pc = "read" /\ Work(batch[h])
    BY <1>4 DEF BatchRemovesList, ListInv, ListType
  <2>2. batch[h].lines \in Seq(Paths)
    BY <2>1 DEF Work, Waiting
  <2>3. IsFiniteSet(batches)
    BY <2>2, SetOfElements, BatchesShape DEF ReadBy
  <2>4. /\ batch'[h].todo = batches /\ batch'[h].share = Share(batches) /\ batch'[h].spent = 0
        /\ \A g \in Stops \ {h} : batch'[g] = batch[g]
    BY <1>4 DEF BatchRemovesList, ListInv, ListType, ReadBy, Share
  <2>5. Share(batches) \in Nat /\ Cardinality(batches) * Share(batches) <= TotalBudget
        /\ Cardinality(batches) \in Nat
    BY <2>3, SharesFit, FS_CardinalityType
  <2>6. Cardinality(batches) * Share(batches) \in Nat
    BY <2>5
  <2>7. InBudget(batch'[h])
    BY <2>3, <2>4, <2>5, <2>6 DEF InBudget
  <2>8. QED
    BY <1>2, <2>4, <2>7
<1>5. ASSUME NEW h \in Stops, NEW b \in batch[h].todo, NEW hangs \in BOOLEAN, RunBatch(h, b, hangs)
      PROVE  BudgetInv'
  <2> DEFINE todo == batch[h].todo
             share == batch[h].share
             spent == batch[h].spent
  <2>1. batch[h].pc = "run" /\ Work(batch[h]) /\ InBudget(batch[h])
    BY <1>5 DEF RunBatch, ListInv, ListType, BudgetInv
  <2>2. /\ DOMAIN batch[h] = {"pc", "files", "todo", "spent", "share"}
        /\ spent \in Nat /\ share \in Nat
    BY <2>1 DEF Work, Waiting
  <2>3. /\ batch'[h].todo = todo \ {b} /\ batch'[h].share = share
        /\ batch'[h].spent = spent + (IF hangs THEN share ELSE 0)
        /\ \A g \in Stops \ {h} : batch'[g] = batch[g]
    BY <1>5, <2>2 DEF RunBatch, ListInv, ListType
  <2>4. /\ IsFiniteSet(todo \ {b}) /\ Cardinality(todo) \in Nat
        /\ Cardinality(todo \ {b}) = Cardinality(todo) - 1
    BY <1>5, <2>1, FS_RemoveElement, FS_CardinalityType DEF InBudget
  <2>5. \A n, s, x, t \in Nat : x + n * s <= t => x + s + (n - 1) * s <= t /\ x + 0 + (n - 1) * s <= t
    OBVIOUS
  <2>6. InBudget(batch'[h])
    <3>1. PICK n, s, x, t \in Nat : /\ n = Cardinality(todo) /\ s = share /\ x = spent /\ t = TotalBudget
      BY <2>2, <2>4, BatchAssumption
    <3>2. x + n * s <= t
      BY <2>1, <3>1 DEF InBudget
    <3>3. x + s + (n - 1) * s <= t /\ x + 0 + (n - 1) * s <= t
      BY <2>5, <3>2
    <3>4. Cardinality(batch'[h].todo) = n - 1 /\ batch'[h].share = s /\ IsFiniteSet(batch'[h].todo)
      BY <2>3, <2>4, <3>1
    <3>5. batch'[h].spent = x + s \/ batch'[h].spent = x + 0
      BY <2>3, <3>1
    <3>6. QED
      BY <3>1, <3>3, <3>4, <3>5 DEF InBudget
  <2>7. QED
    BY <1>2, <2>3, <2>6
<1>6. BatchNext => BudgetInv'
  BY <1>3, <1>4, <1>5 DEF BatchNext
<1>7. ~BatchNext => batch' = batch
  BY DEF Next, vars, batchVars, DispatchNext, BeginEdit, HookRuns, MakeCall, AppendsPath, AfterEdit, Record, Forget, RemoveFile
<1>8. QED
  BY <1>1, <1>6, <1>7

\* The time of a process is not exceeded, for any number of batches and files.
THEOREM TimeHolds == Spec => []WithinBudget
<1>1. Init => BudgetInv
  BY DEF Init, BatchInit, BudgetInv, InBudget, Waiting
<1>2. ListInv /\ BudgetInv => WithinBudget
  <2>1. ASSUME ListInv, BudgetInv, NEW h \in Stops, batch[h].pc = "run"
        PROVE  batch[h].spent <= TotalBudget
    <3>1. batch[h].spent \in Nat /\ batch[h].share \in Nat
      <4>1. Work(batch[h])
        BY <2>1 DEF ListInv, ListType
      <4>2. QED
        BY <2>1, <4>1 DEF Work, Waiting
    <3>2. Cardinality(batch[h].todo) \in Nat
          /\ batch[h].spent + Cardinality(batch[h].todo) * batch[h].share <= TotalBudget
      BY <2>1, FS_CardinalityType DEF BudgetInv, InBudget
    <3>3. \A n, s, x, t \in Nat : x + n * s <= t => x <= t
      OBVIOUS
    <3>4. QED
      BY <3>1, <3>2, <3>3, BatchAssumption
  <2>2. QED
    BY <2>1 DEF WithinBudget
<1>3. QED
  BY <1>1, <1>2, InitCalls, CallStep, InitList, ListStep, BudgetStep, PTL DEF Spec

-----------------------------------------------------------------------------
(* Edited files reach a batch that formats them.                           *)

OnTheWay(f) == \E c \in Calls : call[c].pc = "edited" /\ f \in call[c].todo
Taken(f) == \E h \in Stops : batch[h].pc = "read" /\ f \in ReadBy(h)
ToBeFormatted(f) ==
  \E h \in Stops : batch[h].pc = "run" /\ \E b \in batch[h].todo : b.kind = "format" /\ f \in b.files

\* EditsReachBatch, of batches that format; a batch of type checks would not do.
Reach ==
  /\ \A f \in owed : f \in Paths /\ Recordable(f)
  /\ \A f \in (owed \cap present) \ missed : OnTheWay(f) \/ f \in Listed \/ Taken(f) \/ ToBeFormatted(f)
  /\ \A h \in Stops : batch[h].pc = "run" => \A b \in batch[h].todo : b.files \subseteq batch[h].files

LEMMA InitReach == Init => Reach
  BY DEF Init, BatchInit, Reach, Waiting

\* A step of a call that has not edited yet, or will not, changes nothing here.
LEMMA ReachQuiet ==
  ASSUME Reach, UNCHANGED <<list, batch, owed, missed>>, present' \subseteq present,
         \A c \in Calls : call[c].pc = "edited" => call'[c] = call[c]
  PROVE  Reach'
<1>1. Listed' = Listed
  BY DEF Listed
<1>2. \A f \in Paths : OnTheWay(f) => OnTheWay(f)'
  BY DEF OnTheWay
<1>3. \A f \in Paths : (Taken(f) => Taken(f)') /\ (ToBeFormatted(f) => ToBeFormatted(f)')
  BY DEF Taken, ToBeFormatted, ReadBy
<1>4. QED
  BY <1>1, <1>2, <1>3 DEF Reach

LEMMA ReachMakeCall ==
  ASSUME Reach, CallInv, NEW c \in Calls, MakeCall(c)
  PROVE  Reach'
<1> DEFINE w == call[c]
           todo == {f \in w.files : Recordable(f)}
<1>1. /\ w.pc = "before" /\ w.files \subseteq Paths /\ DOMAIN w = CallFields
      /\ \A g \in Calls \ {c} : call'[g] = call[g]
      /\ UNCHANGED <<list, batch, missed>>
  BY DEF MakeCall, CallInv, CallShape
<1>2. CASE Refuses(w)
  BY <1>1, <1>2, ReachQuiet DEF MakeCall, CallInv, CallShape
<1>3. CASE ~Refuses(w)
  <2>1. /\ owed' = owed \cup todo /\ present' = present \cup w.files
        /\ call'[c].pc = "edited" /\ call'[c].todo = todo
    <3>1. call' = [call EXCEPT ![c] = [w EXCEPT !.pc = "edited", !.todo = todo]]
      BY <1>3 DEF MakeCall, CallInv, CallShape
    <3>2. call'[c] = [w EXCEPT !.pc = "edited", !.todo = todo]
      BY <3>1 DEF CallInv, CallShape
    <3>3. owed' = owed \cup todo /\ present' = present \cup w.files
      BY <1>3 DEF MakeCall
    <3>4. QED
      BY <1>1, <3>2, <3>3 DEF CallFields
  <2>2. \A f \in todo : OnTheWay(f)'
    BY <2>1 DEF OnTheWay
  <2>3. Listed' = Listed
    BY <1>1 DEF Listed
  <2>4. \A f \in Paths : OnTheWay(f) => OnTheWay(f)'
    BY <1>1 DEF OnTheWay, CallInv, CallShape
  <2>5. \A f \in Paths : (Taken(f) => Taken(f)') /\ (ToBeFormatted(f) => ToBeFormatted(f)')
    BY <1>1 DEF Taken, ToBeFormatted, ReadBy
  <2>6. \A f \in owed' : f \in Paths /\ Recordable(f)
    BY <1>1, <2>1 DEF Reach
  <2>7. ASSUME NEW f \in (owed' \cap present') \ missed'
        PROVE  OnTheWay(f)' \/ f \in Listed' \/ Taken(f)' \/ ToBeFormatted(f)'
    <3>1. CASE f \in todo
      BY <2>2, <3>1
    <3>2. CASE f \notin todo
      <4>1. f \in owed /\ f \notin missed /\ f \in Paths /\ Recordable(f)
        BY <1>1, <2>1, <2>6, <3>2
      <4>2. f \in present
        BY <2>1, <2>7, <3>2, <4>1
      <4>3. QED
        BY <2>3, <2>4, <2>5, <4>1, <4>2 DEF Reach
    <3>3. QED
      BY <3>1, <3>2
  <2>8. QED
    BY <1>1, <2>6, <2>7 DEF Reach, Recordable
<1>4. QED
  BY <1>2, <1>3

\* A file that is appended is on its way no more, but on the list.
LEMMA ReachAppends ==
  ASSUME Reach, ListInv, CallInv, NEW c \in Calls, NEW e \in Paths, AppendsPath(c, e)
  PROVE  Reach'
<1> DEFINE w == call[c]
<1>1. /\ w.pc = "edited" /\ DOMAIN w = CallFields /\ Record(e)
      /\ \A g \in Calls \ {c} : call'[g] = call[g]
  BY DEF AppendsPath, CallInv, CallShape
<1>2. call'[c].pc = "edited" /\ call'[c].todo = w.todo \ {e}
  BY <1>1 DEF AppendsPath, CallInv, CallShape, CallFields
<1>3. UNCHANGED <<batch, present, owed>> /\ missed \subseteq missed'
      /\ list.lines \in Seq(Paths) /\ list'.lines = Append(list.lines, e)
  BY <1>1 DEF Record, ListInv, ListType
<1>4. Listed' = Listed \cup {e}
  BY <1>3, SetOfAppended DEF Listed
<1>5. \A f \in Paths : OnTheWay(f) => OnTheWay(f)' \/ f = e
  BY <1>1, <1>2 DEF OnTheWay
<1>6. \A f \in Paths : (Taken(f) => Taken(f)') /\ (ToBeFormatted(f) => ToBeFormatted(f)')
  BY <1>3 DEF Taken, ToBeFormatted, ReadBy
<1>7. QED
  BY <1>3, <1>4, <1>5, <1>6 DEF Reach, Recordable

\* A call whose files are not all appended gives up the rest of them.
LEMMA ReachAfterEdit ==
  ASSUME Reach, CallInv, NEW c \in Calls, NEW way \in Ways, AfterEdit(c, way)
  PROVE  Reach'
<1>1. \A g \in Calls \ {c} : call'[g] = call[g]
  BY DEF AfterEdit, CallInv, CallShape
<1>2. UNCHANGED <<list, batch, present, owed>> /\ missed' = missed \cup call[c].todo
  BY DEF AfterEdit
<1>3. \A f \in Paths : OnTheWay(f) => OnTheWay(f)' \/ f \in missed'
  BY <1>1, <1>2 DEF OnTheWay
<1>4. Listed' = Listed
  BY <1>2 DEF Listed
<1>5. \A f \in Paths : (Taken(f) => Taken(f)') /\ (ToBeFormatted(f) => ToBeFormatted(f)')
  BY <1>2 DEF Taken, ToBeFormatted, ReadBy
<1>6. QED
  BY <1>2, <1>3, <1>4, <1>5 DEF Reach, Recordable

\* The process that removes the list has read all of it that is not missed, and
\* makes a batch of each file that is there.
LEMMA ReachRemoves ==
  ASSUME Reach, ListInv, call' = call, NEW h \in Stops, BatchRemovesList(h)
  PROVE  Reach'
<1> DEFINE files == ReadBy(h)
<1>1. h \in Reading /\ files \subseteq Paths
  <2>1. batch[h].pc = "read" /\ Work(batch[h])
    BY DEF BatchRemovesList, ListInv, ListType
  <2>2. batch[h].lines \in Seq(Paths)
    BY <2>1 DEF Work, Waiting
  <2>3. QED
    BY <2>1, <2>2, SetOfElements DEF ReadBy, Reading
<1>2. /\ batch'[h].pc = "run" /\ batch'[h].todo = Batches(files) /\ batch'[h].files = files
      /\ \A g \in Stops \ {h} : batch'[g] = batch[g]
      /\ UNCHANGED <<present, owed>> /\ missed \subseteq missed'
  BY RemovesOrMisses DEF BatchRemovesList, ListInv, ListType, ReadBy
<1>3. \A f \in Paths : OnTheWay(f) => OnTheWay(f)'
  BY DEF OnTheWay
<1>4. Listed \ missed \subseteq files
  BY <1>1 DEF ListInv, Exact
<1>5. \A f \in files \cap present : Recordable(f) => ToBeFormatted(f)'
  BY <1>1, <1>2, BatchesShape DEF ToBeFormatted
<1>6. \A f \in Paths : Taken(f) => Taken(f)' \/ f \in files
  BY <1>2 DEF Taken, ReadBy
<1>7. \A f \in Paths : ToBeFormatted(f) => ToBeFormatted(f)'
  BY <1>1, <1>2 DEF ToBeFormatted, Reading
<1>8. \A b \in Batches(files) : b.files \subseteq files
  BY <1>1, BatchesShape
<1>9. \A f \in (owed' \cap present') \ missed' :
        OnTheWay(f)' \/ f \in Listed' \/ Taken(f)' \/ ToBeFormatted(f)'
  BY <1>2, <1>3, <1>4, <1>5, <1>6, <1>7 DEF Reach
<1>10. \A g \in Stops : batch'[g].pc = "run" => \A b \in batch'[g].todo : b.files \subseteq batch'[g].files
  BY <1>2, <1>8 DEF Reach
<1>11. QED
  BY <1>2, <1>9, <1>10 DEF Reach, Recordable

LEMMA ReachReads ==
  ASSUME Reach, ListInv, call' = call, NEW h \in Stops, BatchReads(h)
  PROVE  Reach'
<1>1. /\ batch[h].pc = "idle" /\ batch'[h].pc = "read" /\ missed \subseteq missed'
      /\ \A g \in Stops \ {h} : batch'[g] = batch[g]
      /\ UNCHANGED <<list, present, owed>>
  BY DEF BatchReads, Waiting, ListInv, ListType
<1>2. \A f \in Paths : /\ OnTheWay(f) => OnTheWay(f)'
                       /\ Taken(f) => Taken(f)'
                       /\ ToBeFormatted(f) => ToBeFormatted(f)'
  BY <1>1 DEF OnTheWay, Taken, ToBeFormatted, ReadBy
<1>3. QED
  BY <1>1, <1>2 DEF Reach, Listed

LEMMA ReachRuns ==
  ASSUME Reach, ListInv, call' = call,
         NEW h \in Stops, NEW b \in batch[h].todo, NEW hangs \in BOOLEAN, RunBatch(h, b, hangs)
  PROVE  Reach'
<1>1. batch[h].pc = "run" /\ DOMAIN batch[h] = {"pc", "files", "todo", "spent", "share"}
  <2>1. batch[h].pc = "run" /\ Work(batch[h])
    BY DEF RunBatch, ListInv, ListType
  <2>2. QED
    BY <2>1 DEF Work, Waiting
<1>2. /\ batch'[h].pc = "run" /\ batch'[h].todo = batch[h].todo \ {b} /\ batch'[h].files = batch[h].files
      /\ \A g \in Stops \ {h} : batch'[g] = batch[g]
      /\ UNCHANGED <<list, present, missed>>
      /\ owed' = owed \ (IF b.kind = "format" THEN b.files ELSE {})
  BY <1>1 DEF RunBatch, ListInv, ListType
<1>3. \A f \in Paths : (OnTheWay(f) => OnTheWay(f)') /\ (Taken(f) => Taken(f)')
  BY <1>1, <1>2 DEF OnTheWay, Taken, ReadBy
<1>4. \A f \in owed' : ToBeFormatted(f) => ToBeFormatted(f)'
  BY <1>1, <1>2 DEF ToBeFormatted
<1>5. owed' \subseteq owed /\ present' = present /\ missed' = missed /\ Listed' = Listed
  BY <1>2 DEF Listed
<1>6. \A f \in (owed' \cap present') \ missed' :
        OnTheWay(f)' \/ f \in Listed' \/ Taken(f)' \/ ToBeFormatted(f)'
  <2>1. SUFFICES ASSUME NEW f \in (owed' \cap present') \ missed'
                 PROVE  OnTheWay(f)' \/ f \in Listed' \/ Taken(f)' \/ ToBeFormatted(f)'
    OBVIOUS
  <2>2. f \in Paths /\ f \in owed' /\ (OnTheWay(f) \/ f \in Listed \/ Taken(f) \/ ToBeFormatted(f))
    BY <1>5, <2>1 DEF Reach
  <2>3. QED
    BY <1>3, <1>4, <1>5, <2>2
<1>7. \A f \in owed' : f \in Paths /\ Recordable(f)'
  BY <1>5 DEF Reach, Recordable
<1>8. \A g \in Stops : batch'[g].pc = "run" => \A x \in batch'[g].todo : x.files \subseteq batch'[g].files
  <2>1. batch[h].pc = "run"
    BY <1>1
  <2>2. \A x \in batch[h].todo : x.files \subseteq batch[h].files
    BY <2>1 DEF Reach
  <2>3. \A x \in batch'[h].todo : x.files \subseteq batch'[h].files
    BY <1>2, <2>2
  <2>4. ASSUME NEW g \in Stops \ {h}, batch'[g].pc = "run"
        PROVE  \A x \in batch'[g].todo : x.files \subseteq batch'[g].files
    <3>1. batch'[g] = batch[g] /\ batch[g].pc = "run"
      BY <1>2, <2>4
    <3>2. \A x \in batch[g].todo : x.files \subseteq batch[g].files
      BY <3>1 DEF Reach
    <3>3. QED
      BY <3>1, <3>2
  <2>5. QED
    BY <2>3, <2>4
<1>9. QED
  BY <1>6, <1>7, <1>8 DEF Reach

\* A process that ends has no batch left; one that dies leaves the list, or what
\* it took counts as missed.
LEMMA ReachLeaves ==
  ASSUME Reach, ListInv, call' = call, NEW h \in Stops, BatchEnds(h) \/ BatchDies(h)
  PROVE  Reach'
<1>1. /\ batch'[h].pc = "idle" /\ \A g \in Stops \ {h} : batch'[g] = batch[g]
      /\ UNCHANGED <<list, present, owed>> /\ missed \subseteq missed'
  BY DEF BatchEnds, BatchDies, Waiting, ListInv, ListType
<1>2. \A f \in Paths : OnTheWay(f) => OnTheWay(f)'
  BY DEF OnTheWay
<1>3. \A f \in Paths : Taken(f) => Taken(f)' \/ f \in Listed \cup missed
  <2>1. \A g \in Stops : batch[g].pc = "read" => ReadBy(g) \subseteq Listed \cup missed
    BY DEF ListInv, Exact, Reading
  <2>2. QED
    BY <1>1, <2>1 DEF Taken, ReadBy
<1>4. \A f \in Paths : ToBeFormatted(f) => ToBeFormatted(f)' \/ f \in missed'
  <2>1. batch[h].pc = "run" => batch[h].todo = {} \/ batch[h].files \subseteq missed'
    BY DEF BatchEnds, BatchDies
  <2>2. QED
    BY <1>1, <2>1 DEF ToBeFormatted, Reach
<1>5. QED
  BY <1>1, <1>2, <1>3, <1>4 DEF Reach, Listed

LEMMA ReachStep ==
  ASSUME Reach, ListInv, CallInv, [Next]_vars
  PROVE  Reach'
<1>1. CASE UNCHANGED <<batchVars, dispatchVars>>
  BY <1>1, ReachQuiet DEF batchVars, dispatchVars
<1>2. CASE DispatchNext
  <2>1. ASSUME NEW c \in Calls, NEW f \in Paths \cup {"none"}, NEW more \in EditLists,
               NEW long \in BOOLEAN, BeginEdit(c, f, more, long)
        PROVE  Reach'
    BY <2>1, ReachQuiet DEF BeginEdit, batchVars, CallInv, CallShape
  <2>2. ASSUME NEW c \in Calls, NEW hook \in Before, NEW way \in Ways, HookRuns(c, hook, way)
        PROVE  Reach'
    BY <2>2, ReachQuiet DEF HookRuns, batchVars, CallInv, CallShape
  <2>3. ASSUME NEW c \in Calls, Forget(c)
        PROVE  Reach'
    BY <2>3, ReachQuiet DEF Forget, batchVars, CallInv, CallShape
  <2>4. QED
    BY <1>2, <2>1, <2>2, <2>3, ReachMakeCall, ReachAppends, ReachAfterEdit DEF DispatchNext
<1>3. CASE BatchNext /\ UNCHANGED dispatchVars
  BY <1>3, ReachReads, ReachRemoves, ReachRuns, ReachLeaves DEF BatchNext, dispatchVars
<1>4. ASSUME NEW f \in Paths, RemoveFile(f), UNCHANGED dispatchVars
      PROVE  Reach'
  BY <1>4, ReachQuiet DEF RemoveFile, dispatchVars
<1>5. QED
  BY <1>1, <1>2, <1>3, <1>4 DEF Next, vars

\* No edited file is forgotten on its way to the formatter (EditsReachBatch), for
\* any number of calls, files and processes.
THEOREM EditsReachFormatter == Spec => []EditsReachBatch
<1>1. Reach => EditsReachBatch
  BY DEF Reach, EditsReachBatch, OnTheWay, Taken, ToBeFormatted, ReadBy
<1>2. QED
  BY <1>1, InitReach, InitCalls, CallStep, InitList, ListStep, ReachStep, PTL DEF Spec

-----------------------------------------------------------------------------
(* The marks of servers. What a process holds and what the file has is     *)
(* judged against the times at which servers were last found to answer, or *)
(* blamed: su, sd and now stand for seenUp, blamed and clock.              *)

Founded(mark, su, sd) ==
  /\ mark.status = "healthy" => mark.expires \in Int /\ mark.expires <= su + Ttl
  /\ mark.status = "unhealthy" => mark.retry \in Int /\ sd > Never /\ mark.retry <= sd + MaxBackoff

Book(marks, su, sd) ==
  marks = [s \in Servers |-> marks[s]] /\ \A s \in Servers : Founded(marks[s], su[s], sd[s])

Decision(d, su, sd) ==
  /\ DOMAIN d = {"pc", "server", "verdict", "why", "at"} /\ d.pc = "done"
  /\ d.server \in Servers /\ d.at \in Nat
  /\ (d.verdict = "block" /\ d.why # "length") => sd[d.server] > Never
  /\ (d.verdict = "block" /\ d.why = "mark") => d.at < sd[d.server] + MaxBackoff
  /\ (d.verdict = "allow" /\ d.why = "mark") => d.at < su[d.server] + Ttl

BusyFields == {"pc", "phase", "server", "at", "base", "marks", "then"}
AtWork == {"probe", "reconnect", "reprobe", "empty", "fill"}

\* what a process does once its mark is saved
Afterwards(w, su, sd, now) ==
  \/ Decision(w, su, sd) /\ w.why # "mark"
  \/ /\ DOMAIN w = BusyFields /\ w.pc = "reconnect" /\ w.server \in Servers
     /\ w.at \in Nat /\ w.at <= now /\ w.at <= sd[w.server]

Working(c, su, sd, now) ==
  /\ DOMAIN c = BusyFields /\ c.pc \in AtWork
  /\ c.server \in Servers /\ c.at \in Nat /\ c.at <= now
  /\ Book(c.marks, su, sd)
  /\ c.pc = "reconnect" => c.at <= sd[c.server]
  /\ c.pc \in {"empty", "fill"} => Afterwards(c.then, su, sd, now)

Process(c, su, sd, now) == c = Idle \/ Decision(c, su, sd) \/ Working(c, su, sd, now)

Clocked(su, sd, now) ==
  /\ now \in Nat /\ DOMAIN su = Servers /\ DOMAIN sd = Servers
  /\ \A s \in Servers : su[s] \in Int /\ sd[s] \in Int /\ su[s] <= now /\ sd[s] <= now

Marked ==
  /\ cache.kind \in {"missing", "empty", "whole"}
  /\ cache.kind = "whole" => Book(cache.marks, seenUp, blamed)
  /\ Clocked(seenUp, blamed, clock)
  /\ check = [h \in Checks |-> check[h]]
  /\ \A h \in Checks : Process(check[h], seenUp, blamed, clock)

-----------------------------------------------------------------------------
(* Marked is inductive.                                                    *)

LEMMA WaitIsBounded ==
  ASSUME NEW failures
  PROVE  Wait(failures) \in 0..MaxBackoff
<1> DEFINE doubled == Backoff * 2 ^ failures
<1>1. Wait(failures) = IF doubled \in 0..MaxBackoff THEN doubled ELSE MaxBackoff
  BY DEF Wait
<1> HIDE DEF doubled
<1>2. QED
  BY <1>1, TimesAssumption

\* A mark made from what was just found out is founded.
LEMMA NewMarks ==
  ASSUME NEW su \in Int, NEW sd \in Int, NEW at \in Nat, NEW previous
  PROVE  /\ at <= su => Founded(Healthy(at), su, sd)
         /\ at <= sd => Founded(Unhealthy(previous, at), su, sd)
<1>1. PICK wait \in 0..MaxBackoff : wait = Wait(previous.failures)
  BY WaitIsBounded
<1>2. Unhealthy(previous, at).status = "unhealthy" /\ Unhealthy(previous, at).retry = at + wait
  BY <1>1 DEF Unhealthy
<1>3. Healthy(at).status = "healthy" /\ Healthy(at).expires = at + Ttl
  BY DEF Healthy
<1>4. QED
  BY <1>1, <1>2, <1>3, TimesAssumption DEF Founded, Never

\* What was founded stays so as servers are found to answer, or not, later on.
Later(su, sd, now, su2, sd2, now2) ==
  /\ Clocked(su, sd, now) /\ Clocked(su2, sd2, now2) /\ now <= now2
  /\ \A s \in Servers : su[s] <= su2[s] /\ sd[s] <= sd2[s]

LEMMA BookLater ==
  ASSUME NEW su, NEW sd, NEW now, NEW su2, NEW sd2, NEW now2, Later(su, sd, now, su2, sd2, now2),
         NEW marks, Book(marks, su, sd)
  PROVE  Book(marks, su2, sd2)
  BY TimesAssumption DEF Later, Clocked, Book, Founded, Never

LEMMA DecisionLater ==
  ASSUME NEW su, NEW sd, NEW now, NEW su2, NEW sd2, NEW now2, Later(su, sd, now, su2, sd2, now2),
         NEW d, Decision(d, su, sd)
  PROVE  Decision(d, su2, sd2)
  BY TimesAssumption DEF Later, Clocked, Decision, Never

LEMMA ProcessLater ==
  ASSUME NEW su, NEW sd, NEW now, NEW su2, NEW sd2, NEW now2, Later(su, sd, now, su2, sd2, now2),
         NEW c, Process(c, su, sd, now)
  PROVE  Process(c, su2, sd2, now2)
<1>1. CASE c = Idle \/ Decision(c, su, sd)
  BY <1>1, DecisionLater DEF Process
<1>2. CASE Working(c, su, sd, now)
  <2>1. Book(c.marks, su2, sd2)
    BY <1>2, BookLater DEF Working
  <2>2. c.pc \in {"empty", "fill"} => Afterwards(c.then, su2, sd2, now2)
    <3>1. CASE Decision(c.then, su, sd) /\ c.then.why # "mark"
      BY <3>1, DecisionLater DEF Afterwards
    <3>2. CASE ~(Decision(c.then, su, sd) /\ c.then.why # "mark")
      BY <1>2, <3>2 DEF Working, Afterwards, Later, Clocked
    <3>3. QED
      BY <3>1, <3>2
  <2>3. c.at <= now2 /\ (c.pc = "reconnect" => c.at <= sd2[c.server])
    BY <1>2 DEF Working, Later, Clocked
  <2>4. QED
    BY <1>2, <2>1, <2>2, <2>3 DEF Working, Process
<1>3. QED
  BY <1>1, <1>2 DEF Process

\* One mark of a book replaced.
LEMMA BookReplaced ==
  ASSUME NEW su, NEW sd, NEW marks, Book(marks, su, sd), NEW s \in Servers, NEW m, Founded(m, su[s], sd[s])
  PROVE  Book([marks EXCEPT ![s] = m], su, sd)
<1>1. DOMAIN marks = Servers
  BY DEF Book
<1>2. \A t \in Servers : [marks EXCEPT ![s] = m][t] = (IF t = s THEN m ELSE marks[t])
  BY <1>1
<1>3. \A t \in Servers : Founded([marks EXCEPT ![s] = m][t], su[t], sd[t])
  BY <1>2 DEF Book
<1>4. [marks EXCEPT ![s] = m] = [t \in Servers |-> [marks EXCEPT ![s] = m][t]]
  BY <1>1
<1>5. QED
  BY <1>3, <1>4 DEF Book

LEMMA NoMarksBook ==
  ASSUME NEW su, NEW sd
  PROVE  Book(NoMarks, su, sd)
  BY DEF Book, NoMarks, Unmarked, Founded

LEMMA LoadBook ==
  ASSUME Marked
  PROVE  Book(Load, seenUp, blamed)
  BY NoMarksBook DEF Marked, Load

LEMMA InitMarked == Init => Marked
  BY DEF Init, HealthInit, Marked, Clocked, Process, Never

\* What a step of one process has to be so that all that is held stays founded.
LEMMA StepOfOne ==
  ASSUME Marked, NEW h \in Checks, NEW w, check' = [check EXCEPT ![h] = w],
         Process(w, seenUp', blamed', clock'),
         Later(seenUp, blamed, clock, seenUp', blamed', clock'),
         \/ cache' = cache
         \/ cache'.kind = "empty"
         \/ cache'.kind = "whole" /\ Book(cache'.marks, seenUp', blamed')
  PROVE  Marked'
<1>1. /\ cache'.kind \in {"missing", "empty", "whole"}
      /\ cache'.kind = "whole" => Book(cache'.marks, seenUp', blamed')
  <2>1. CASE cache' = cache
    BY <2>1, BookLater DEF Marked
  <2>2. QED
    BY <2>1
<1>2. check' = [g \in Checks |-> check'[g]]
  BY DEF Marked
<1>3. \A g \in Checks : Process(check'[g], seenUp', blamed', clock')
  <2>1. ASSUME NEW g \in Checks, g # h
        PROVE  Process(check'[g], seenUp', blamed', clock')
    <3>1. check'[g] = check[g] /\ Process(check[g], seenUp, blamed, clock)
      BY <2>1 DEF Marked
    <3>2. QED
      BY <3>1, ProcessLater
  <2>2. check'[h] = w
    BY DEF Marked
  <2>3. QED
    BY <2>1, <2>2
<1>4. Clocked(seenUp', blamed', clock')
  BY DEF Later
<1>5. QED
  BY <1>1, <1>2, <1>3, <1>4 DEF Marked

LEMMA NothingSeen ==
  ASSUME Marked, UNCHANGED <<seenUp, blamed, clock>>
  PROVE  Later(seenUp, blamed, clock, seenUp', blamed', clock')
  BY DEF Marked, Later, Clocked

LEMMA Seen ==
  ASSUME Marked, NEW s \in Servers, NEW ok \in BOOLEAN, Note(s, ok), UNCHANGED clock
  PROVE  /\ Later(seenUp, blamed, clock, seenUp', blamed', clock')
         /\ ok => seenUp'[s] = clock
         /\ ~ok => blamed'[s] = clock
  BY DEF Marked, Later, Clocked, Note

LEMMA BusyWorks ==
  ASSUME Marked, NEW h \in Checks, check[h].pc \in AtWork
  PROVE  Working(check[h], seenUp, blamed, clock)
<1>1. Process(check[h], seenUp, blamed, clock)
  BY DEF Marked
<1>2. check[h] # Idle /\ ~Decision(check[h], seenUp, blamed)
  BY DEF AtWork, Idle, Decision
<1>3. QED
  BY <1>1, <1>2 DEF Process

\* What saving a founded mark makes of a process.
LEMMA SavingWorks ==
  ASSUME NEW su, NEW sd, NEW now, NEW h \in Checks, NEW marks, NEW base, NEW m, NEW then, NEW s \in Servers,
         DOMAIN check[h] = BusyFields, check[h].server = s, check[h].at \in Nat, check[h].at <= now,
         Book(marks, su, sd), Founded(m, su[s], sd[s]), Afterwards(then, su, sd, now)
  PROVE  Working(Saving(h, marks, base, m, then), su, sd, now)
<1>1. PICK c : c = check[h]
  OBVIOUS
<1>2. PICK new : new = [marks EXCEPT ![s] = m]
  OBVIOUS
<1>3. Book(new, su, sd)
  BY <1>2, BookReplaced
<1>4. PICK w : w = [c EXCEPT !.pc = "empty", !.marks = new, !.base = base, !.then = then]
  OBVIOUS
<1>5. Saving(h, marks, base, m, then) = w
  BY <1>1, <1>2, <1>4 DEF Saving
<1>6. /\ DOMAIN w = BusyFields /\ w.pc = "empty" /\ w.marks = new /\ w.then = then
      /\ w.server = s /\ w.at = c.at
  BY <1>1, <1>4 DEF BusyFields
<1>7. QED
  BY <1>1, <1>3, <1>5, <1>6 DEF Working, AtWork

\* Refusing the call, by a process that has found its server not to answer.
LEMMA RefuseWorks ==
  ASSUME Marked, NEW h \in Checks, NEW su, NEW sd, check[h].pc \in AtWork,
         Later(seenUp, blamed, clock, su, sd, clock), check[h].at <= sd[check[h].server]
  PROVE  Working(Refuse(h), su, sd, clock)
<1>1. PICK s, at, marks :
        s \in Servers /\ at \in Nat /\ s = check[h].server /\ at = check[h].at /\ marks = check[h].marks
  BY BusyWorks DEF Working
<1>2. /\ Working(check[h], seenUp, blamed, clock) /\ at <= sd[s] /\ sd[s] \in Int /\ su[s] \in Int
      /\ clock \in Nat
  BY <1>1, BusyWorks DEF Later, Clocked
<1>3. Book(marks, su, sd) /\ at <= clock /\ DOMAIN check[h] = BusyFields
  BY <1>1, <1>2, BookLater DEF Working
<1>4. PICK m : m = Unhealthy(marks[s], at)
  OBVIOUS
<1>5. Founded(m, su[s], sd[s])
  BY <1>1, <1>2, <1>4, NewMarks
<1>6. PICK then : then = Done(s, "block", "probe")
  OBVIOUS
<1>7. Decision(then, su, sd) /\ then.why # "mark"
  BY <1>1, <1>2, <1>6 DEF Decision, Done, Never
<1>8. Refuse(h) = Saving(h, marks, check[h].base, m, then)
  BY <1>1, <1>4, <1>6 DEF Refuse
<1>9. Afterwards(then, su, sd, clock)
  BY <1>7 DEF Afterwards
<1>10. QED
  BY <1>1, <1>3, <1>5, <1>8, <1>9, SavingWorks

LEMMA IdleDecides ==
  ASSUME Marked, NEW s \in Servers, NEW verdict, NEW why,
         (verdict = "block" /\ why # "length") => blamed[s] > Never,
         (verdict = "block" /\ why = "mark") => clock < blamed[s] + MaxBackoff,
         (verdict = "allow" /\ why = "mark") => clock < seenUp[s] + Ttl
  PROVE  Decision(Done(s, verdict, why), seenUp, blamed)
  BY DEF Decision, Done, Marked, Clocked

LEMMA BeforeCallMarks ==
  ASSUME Marked, NEW h \in Checks, NEW s \in Servers, BeforeCall(h, s)
  PROVE  Marked'
<1>1. PICK marks : marks = Load
  OBVIOUS
<1>2. Book(marks, seenUp, blamed) /\ Founded(marks[s], seenUp[s], blamed[s])
  BY <1>1, LoadBook DEF Book
<1>3. PICK w : w = IF Fresh(marks[s], clock) THEN Done(s, "allow", "mark")
                   ELSE IF Waits(marks[s], clock) THEN Done(s, "block", "mark")
                   ELSE IF s \notin Configured THEN Done(s, "allow", "unknown")
                   ELSE [pc |-> "probe", phase |-> "pre", server |-> s, at |-> clock, marks |-> marks,
                         base |-> cache, then |-> Idle]
  OBVIOUS
<1>4. check' = [check EXCEPT ![h] = w] /\ UNCHANGED <<cache, clock, seenUp, blamed>>
  BY <1>1, <1>3 DEF BeforeCall
<1>5. Process(w, seenUp, blamed, clock)
  <2>0. seenUp[s] \in Int /\ blamed[s] \in Int /\ clock \in Nat
    BY DEF Marked, Clocked
  <2>1. CASE Fresh(marks[s], clock)
    <3>1. clock < seenUp[s] + Ttl
      BY <1>2, <2>0, <2>1, TimesAssumption DEF Fresh, Founded
    <3>2. Decision(Done(s, "allow", "mark"), seenUp, blamed)
      BY <3>1, IdleDecides
    <3>3. QED
      BY <1>3, <2>1, <3>2 DEF Process
  <2>2. CASE ~Fresh(marks[s], clock) /\ Waits(marks[s], clock)
    <3>1. clock < blamed[s] + MaxBackoff /\ blamed[s] > Never
      BY <1>2, <2>0, <2>2, TimesAssumption DEF Waits, Founded
    <3>2. Decision(Done(s, "block", "mark"), seenUp, blamed)
      BY <3>1, IdleDecides
    <3>3. QED
      BY <1>3, <2>2, <3>2 DEF Process
  <2>3. CASE ~Fresh(marks[s], clock) /\ ~Waits(marks[s], clock) /\ s \notin Configured
    <3>1. Decision(Done(s, "allow", "unknown"), seenUp, blamed)
      BY IdleDecides
    <3>2. QED
      BY <1>3, <2>3, <3>1 DEF Process
  <2>4. CASE ~Fresh(marks[s], clock) /\ ~Waits(marks[s], clock) /\ s \in Configured
    BY <1>2, <1>3, <2>0, <2>4 DEF Process, Working, BusyFields, AtWork
  <2>5. QED
    BY <2>1, <2>2, <2>3, <2>4
<1>6. QED
  BY <1>4, <1>5, StepOfOne, NothingSeen

LEMMA BeforeLongCallMarks ==
  ASSUME Marked, NEW h \in Checks, NEW s \in Servers, BeforeLongCall(h, s)
  PROVE  Marked'
<1>1. PICK w : w = Done(s, "block", "length")
  OBVIOUS
<1>2. Process(w, seenUp, blamed, clock)
  BY <1>1, IdleDecides DEF Process
<1>3. QED
  BY <1>1, <1>2, StepOfOne, NothingSeen DEF BeforeLongCall

LEMMA ProbeMarks ==
  ASSUME Marked, NEW h \in Checks, NEW code \in BOOLEAN, Probe(h, code)
  PROVE  Marked'
<1>1. PICK s, at, marks :
        s \in Servers /\ at \in Nat /\ s = check[h].server /\ at = check[h].at /\ marks = check[h].marks
  BY BusyWorks DEF Working, Probe, AtWork
<1>2. PICK ok \in BOOLEAN : ok <=> up[s]
  OBVIOUS
<1>3. /\ Working(check[h], seenUp, blamed, clock) /\ check[h].pc = "probe" /\ check[h].pc \in AtWork
      /\ clock' = clock /\ cache' = cache
  BY BusyWorks DEF Probe, AtWork
<1>4. Note(s, ok)
  BY <1>1, <1>2 DEF Probe, Note
<1>5. PICK w : w = IF ok THEN Saving(h, marks, check[h].base, Healthy(at), Done(s, "allow", "probe"))
                   ELSE IF code \/ marks[s].status = "unhealthy" THEN [check[h] EXCEPT !.pc = "reconnect"]
                   ELSE Refuse(h)
  OBVIOUS
<1>6. check' = [check EXCEPT ![h] = w]
  BY <1>1, <1>2, <1>5 DEF Probe
<1>7. /\ Later(seenUp, blamed, clock, seenUp', blamed', clock')
      /\ ok => seenUp'[s] = clock
      /\ ~ok => blamed'[s] = clock
  BY <1>1, <1>3, <1>4, Seen
<1>8. /\ Book(marks, seenUp', blamed') /\ at <= clock /\ clock \in Nat
      /\ seenUp'[s] \in Int /\ blamed'[s] \in Int
  <2>1. Book(marks, seenUp, blamed) /\ at <= clock
    BY <1>1, <1>3 DEF Working
  <2>2. clock \in Nat /\ seenUp'[s] \in Int /\ blamed'[s] \in Int
    BY <1>1, <1>7 DEF Later, Clocked
  <2>3. QED
    BY <1>7, <2>1, <2>2, BookLater
<1>9. Working(w, seenUp', blamed', clock)
  <2>1. CASE ok
    <3>1. PICK m : m = Healthy(at)
      OBVIOUS
    <3>2. Founded(m, seenUp'[s], blamed'[s])
      BY <1>1, <1>7, <1>8, <2>1, <3>1, NewMarks
    <3>3. PICK then : then = Done(s, "allow", "probe")
      OBVIOUS
    <3>4. Afterwards(then, seenUp', blamed', clock)
      BY <1>1, <1>8, <3>3 DEF Afterwards, Decision, Done
    <3>5. w = Saving(h, marks, check[h].base, m, then)
      BY <1>5, <2>1, <3>1, <3>3
    <3>6. DOMAIN check[h] = BusyFields
      BY <1>3 DEF Working
    <3>7. QED
      BY <1>1, <1>8, <3>2, <3>4, <3>5, <3>6, SavingWorks
  <2>2. CASE ~ok /\ (code \/ marks[s].status = "unhealthy")
    <3>1. w = [check[h] EXCEPT !.pc = "reconnect"]
      BY <1>5, <2>2
    <3>2. /\ DOMAIN w = BusyFields /\ w.pc = "reconnect" /\ w.server = s /\ w.at = at
          /\ w.marks = marks
      BY <1>1, <1>3, <3>1 DEF Working, BusyFields
    <3>3. QED
      BY <1>1, <1>7, <1>8, <2>2, <3>2 DEF Working, AtWork
  <2>3. CASE ~ok /\ ~(code \/ marks[s].status = "unhealthy")
    <3>1. at <= blamed'[s]
      BY <1>7, <1>8, <2>3
    <3>2. Working(Refuse(h), seenUp', blamed', clock)
      BY <1>1, <1>3, <1>7, <3>1, RefuseWorks
    <3>3. QED
      BY <1>5, <2>3, <3>2
  <2>4. QED
    BY <2>1, <2>2, <2>3
<1>10. Process(w, seenUp', blamed', clock')
  BY <1>3, <1>9 DEF Process
<1>11. cache' = cache /\ Later(seenUp, blamed, clock, seenUp', blamed', clock')
  BY <1>3, <1>7
<1>12. QED
  BY <1>6, <1>10, <1>11, StepOfOne

LEMMA ReconnectMarks ==
  ASSUME Marked, NEW h \in Checks, NEW success \in BOOLEAN, Reconnect(h, success)
  PROVE  Marked'
<1>1. PICK s, c : s \in Servers /\ s = check[h].server /\ c = check[h]
  BY BusyWorks DEF Working, Reconnect, AtWork
<1>2. /\ Working(c, seenUp, blamed, clock) /\ c.pc = "reconnect" /\ check[h].pc \in AtWork
      /\ UNCHANGED <<cache, clock, seenUp, blamed>>
  BY <1>1, BusyWorks DEF Reconnect, AtWork
<1>3. PICK w : w = IF success /\ (c.phase = "pre" \/ s \in Configured) THEN [c EXCEPT !.pc = "reprobe"]
                   ELSE IF c.phase = "pre" THEN Refuse(h) ELSE Done(s, "allow", "failure")
  OBVIOUS
<1>4. check' = [check EXCEPT ![h] = w]
  BY <1>1, <1>3 DEF Reconnect
<1>5. Later(seenUp, blamed, clock, seenUp, blamed, clock)
  BY DEF Marked, Later, Clocked
<1>6. Process(w, seenUp, blamed, clock)
  <2>1. Working([c EXCEPT !.pc = "reprobe"], seenUp, blamed, clock)
    <3>1. PICK v : v = [c EXCEPT !.pc = "reprobe"]
      OBVIOUS
    <3>2. /\ DOMAIN v = BusyFields /\ v.pc = "reprobe" /\ v.server = c.server /\ v.at = c.at
          /\ v.marks = c.marks
      BY <1>2, <3>1 DEF Working, BusyFields
    <3>3. QED
      BY <1>2, <3>1, <3>2 DEF Working, AtWork
  <2>2. check[h].at <= blamed[check[h].server]
    BY <1>1, <1>2 DEF Working
  <2>3. Working(Refuse(h), seenUp, blamed, clock)
    BY <1>2, <1>5, <2>2, RefuseWorks
  <2>4. Decision(Done(s, "allow", "failure"), seenUp, blamed)
    BY <1>1, IdleDecides
  <2>5. QED
    BY <1>3, <2>1, <2>3, <2>4 DEF Process
<1>7. QED
  BY <1>2, <1>4, <1>6, StepOfOne, NothingSeen

LEMMA ReprobeMarks ==
  ASSUME Marked, NEW h \in Checks, Reprobe(h)
  PROVE  Marked'
<1>1. PICK s, at, marks :
        s \in Servers /\ at \in Nat /\ s = check[h].server /\ at = check[h].at /\ marks = check[h].marks
  BY BusyWorks DEF Working, Reprobe, AtWork
<1>2. PICK ok \in BOOLEAN, post \in BOOLEAN : (ok <=> up[s]) /\ (post <=> check[h].phase = "post")
  OBVIOUS
<1>3. /\ Working(check[h], seenUp, blamed, clock) /\ check[h].pc = "reprobe" /\ check[h].pc \in AtWork
      /\ clock' = clock /\ cache' = cache
  BY BusyWorks DEF Reprobe, AtWork
<1>4. Note(s, ok)
  BY <1>1, <1>2 DEF Reprobe, Note
<1>5. PICK file, m, then, after :
        /\ file = Load /\ m = Healthy(at) /\ then = Done(s, "allow", "probe")
        /\ after = Done(s, "allow", "failure")
  OBVIOUS
<1>6. PICK w : w = IF ok /\ post THEN Saving(h, file, cache, m, after)
                   ELSE IF ok THEN Saving(h, marks, check[h].base, m, then)
                   ELSE IF post THEN after ELSE Refuse(h)
  OBVIOUS
<1>7. check' = [check EXCEPT ![h] = w]
  BY <1>1, <1>2, <1>5, <1>6 DEF Reprobe
<1>8. /\ Later(seenUp, blamed, clock, seenUp', blamed', clock')
      /\ ok => seenUp'[s] = clock
      /\ ~ok => blamed'[s] = clock
  BY <1>1, <1>3, <1>4, Seen
<1>9. /\ Book(marks, seenUp', blamed') /\ at <= clock /\ clock \in Nat
      /\ seenUp'[s] \in Int /\ blamed'[s] \in Int /\ DOMAIN check[h] = BusyFields
  <2>1. Book(marks, seenUp, blamed) /\ at <= clock /\ DOMAIN check[h] = BusyFields
    BY <1>1, <1>3 DEF Working
  <2>2. clock \in Nat /\ seenUp'[s] \in Int /\ blamed'[s] \in Int
    BY <1>1, <1>8 DEF Later, Clocked
  <2>3. QED
    BY <1>8, <2>1, <2>2, BookLater
<1>10. Book(file, seenUp', blamed')
  BY <1>5, <1>8, LoadBook, BookLater
<1>11. Decision(then, seenUp', blamed') /\ then.why # "mark" /\ Decision(after, seenUp', blamed') /\ after.why # "mark"
  BY <1>1, <1>5, <1>9 DEF Decision, Done
<1>12. Process(w, seenUp', blamed', clock)
  <2>1. CASE ok
    <3>1. Founded(m, seenUp'[s], blamed'[s])
      BY <1>1, <1>5, <1>8, <1>9, <2>1, NewMarks
    <3>2. Afterwards(then, seenUp', blamed', clock) /\ Afterwards(after, seenUp', blamed', clock)
      BY <1>11 DEF Afterwards
    <3>3. Working(Saving(h, file, cache, m, after), seenUp', blamed', clock)
      BY <1>1, <1>9, <1>10, <3>1, <3>2, SavingWorks
    <3>4. Working(Saving(h, marks, check[h].base, m, then), seenUp', blamed', clock)
      BY <1>1, <1>9, <3>1, <3>2, SavingWorks
    <3>5. QED
      BY <1>6, <2>1, <3>3, <3>4 DEF Process
  <2>2. CASE ~ok
    <3>1. Working(Refuse(h), seenUp', blamed', clock)
      BY <1>1, <1>3, <1>8, <1>9, <2>2, RefuseWorks
    <3>2. QED
      BY <1>6, <1>11, <2>2, <3>1 DEF Process
  <2>3. QED
    BY <2>1, <2>2
<1>13. Process(w, seenUp', blamed', clock')
  BY <1>3, <1>12
<1>14. cache' = cache /\ Later(seenUp, blamed, clock, seenUp', blamed', clock')
  BY <1>3, <1>8
<1>15. QED
  BY <1>7, <1>13, <1>14, StepOfOne

LEMMA AfterFailureMarks ==
  ASSUME Marked, NEW h \in Checks, NEW s \in Servers, AfterFailure(h, s)
  PROVE  Marked'
<1>1. PICK file, m, marks : file = Load /\ m = Unhealthy(file[s], clock) /\ marks = [file EXCEPT ![s] = m]
  OBVIOUS
<1>2. PICK c, w :
        /\ c = [pc |-> "empty", phase |-> "post", server |-> s, at |-> clock, base |-> cache, marks |-> marks,
                then |-> Idle]
        /\ w = [c EXCEPT !.then = [c EXCEPT !.pc = "reconnect"]]
  OBVIOUS
<1>3. /\ check' = [check EXCEPT ![h] = w]
      /\ DOMAIN w = BusyFields /\ w.pc = "empty" /\ w.server = s /\ w.at = clock /\ w.marks = marks
      /\ DOMAIN w.then = BusyFields /\ w.then.pc = "reconnect" /\ w.then.server = s /\ w.then.at = clock
  <2>1. marks = [Load EXCEPT ![s] = Unhealthy(@, clock)]
    BY <1>1, LoadBook DEF Book
  <2>2. check' = [check EXCEPT ![h] = w]
    BY <1>2, <2>1 DEF AfterFailure
  <2>3. QED
    BY <1>2, <2>2 DEF BusyFields
<1>4. /\ UNCHANGED <<cache, clock, seenUp>> /\ blamed' = [blamed EXCEPT ![s] = clock]
  BY DEF AfterFailure
<1>5. Later(seenUp, blamed, clock, seenUp', blamed', clock') /\ blamed'[s] = clock
  BY <1>4 DEF Marked, Later, Clocked
<1>6. clock \in Nat /\ seenUp'[s] \in Int /\ blamed'[s] \in Int
  BY <1>5 DEF Later, Clocked
<1>7. Book(marks, seenUp', blamed')
  <2>1. Book(file, seenUp', blamed')
    BY <1>1, <1>5, LoadBook, BookLater
  <2>2. Founded(m, seenUp'[s], blamed'[s])
    BY <1>1, <1>5, <1>6, NewMarks
  <2>3. QED
    BY <1>1, <2>1, <2>2, BookReplaced
<1>8. Afterwards(w.then, seenUp', blamed', clock)
  BY <1>3, <1>5, <1>6 DEF Afterwards
<1>9. Process(w, seenUp', blamed', clock')
  BY <1>3, <1>4, <1>6, <1>7, <1>8 DEF Process, Working, AtWork
<1>10. cache' = cache
  BY <1>4
<1>11. QED
  BY <1>3, <1>5, <1>9, <1>10, StepOfOne

LEMMA SaveEmptiesMarks ==
  ASSUME Marked, NEW h \in Checks, SaveEmpties(h)
  PROVE  Marked'
<1>1. PICK c : c = check[h]
  OBVIOUS
<1>2. PICK w : w = [c EXCEPT !.pc = "fill", !.base = [kind |-> "empty"]]
  OBVIOUS
<1>3. check' = [check EXCEPT ![h] = w] /\ UNCHANGED <<clock, seenUp, blamed>> /\ cache'.kind = "empty"
  BY <1>1, <1>2 DEF SaveEmpties, Marked
<1>4. Working(c, seenUp, blamed, clock) /\ c.pc = "empty"
  BY <1>1, BusyWorks DEF SaveEmpties, AtWork
<1>5. /\ DOMAIN w = BusyFields /\ w.pc = "fill" /\ w.server = c.server /\ w.at = c.at
      /\ w.marks = c.marks /\ w.then = c.then
  BY <1>2, <1>4 DEF Working, BusyFields
<1>6. Process(w, seenUp, blamed, clock)
  BY <1>4, <1>5 DEF Working, AtWork, Process
<1>7. QED
  BY <1>3, <1>6, StepOfOne, NothingSeen

LEMMA SaveFillsMarks ==
  ASSUME Marked, NEW h \in Checks, SaveFills(h)
  PROVE  Marked'
<1>1. PICK c, then : c = check[h] /\ then = c.then
  OBVIOUS
<1>2. PICK w : w = IF then.pc = "done" THEN [then EXCEPT !.at = clock]
                   ELSE [then EXCEPT !.marks = c.marks, !.base = cache']
  OBVIOUS
<1>3. /\ check' = [check EXCEPT ![h] = w] /\ UNCHANGED <<clock, seenUp, blamed>>
      /\ cache' = [kind |-> "whole", marks |-> c.marks]
  BY <1>1, <1>2 DEF SaveFills
<1>4. Working(c, seenUp, blamed, clock) /\ c.pc = "fill" /\ Afterwards(then, seenUp, blamed, clock)
  BY <1>1, BusyWorks DEF SaveFills, AtWork, Working
<1>5. clock \in Nat
  BY DEF Marked, Clocked
<1>6. Process(w, seenUp, blamed, clock)
  <2>1. CASE then.pc = "done"
    <3>1. Decision(then, seenUp, blamed) /\ then.why # "mark"
      BY <1>4, <2>1 DEF Afterwards
    <3>2. /\ DOMAIN w = DOMAIN then /\ w.pc = then.pc /\ w.server = then.server /\ w.verdict = then.verdict
          /\ w.why = then.why /\ w.at = clock
      BY <1>2, <2>1, <3>1 DEF Decision
    <3>3. QED
      BY <1>5, <3>1, <3>2 DEF Decision, Process
  <2>2. CASE then.pc # "done"
    <3>1. /\ DOMAIN then = BusyFields /\ then.pc = "reconnect" /\ then.server \in Servers
          /\ then.at \in Nat /\ then.at <= clock /\ then.at <= blamed[then.server]
      BY <1>4, <2>2 DEF Afterwards, Decision
    <3>2. w = [then EXCEPT !.marks = c.marks, !.base = cache']
      BY <1>2, <2>2
    <3>3. /\ DOMAIN w = BusyFields /\ w.pc = "reconnect" /\ w.server = then.server /\ w.at = then.at
          /\ w.marks = c.marks
      BY <3>1, <3>2 DEF BusyFields
    <3>4. Book(w.marks, seenUp, blamed)
      BY <1>4, <3>3 DEF Working
    <3>5. QED
      BY <3>1, <3>3, <3>4 DEF Working, AtWork, Process
  <2>3. QED
    BY <2>1, <2>2
<1>7. cache'.kind = "whole" /\ Book(cache'.marks, seenUp', blamed')
  BY <1>3, <1>4 DEF Working
<1>8. QED
  BY <1>3, <1>6, <1>7, StepOfOne, NothingSeen

LEMMA SaveFailsMarks ==
  ASSUME Marked, NEW h \in Checks, SaveFails(h)
  PROVE  Marked'
<1>1. PICK c, then : c = check[h] /\ then = c.then
  OBVIOUS
<1>2. PICK w : w = IF then.pc = "done" THEN [then EXCEPT !.at = clock]
                   ELSE [then EXCEPT !.marks = Load, !.base = cache]
  OBVIOUS
<1>3. check' = [check EXCEPT ![h] = w] /\ UNCHANGED <<cache, clock, seenUp, blamed>>
  BY <1>1, <1>2 DEF SaveFails
<1>4. Working(c, seenUp, blamed, clock) /\ c.pc \in {"empty", "fill"} /\ Afterwards(then, seenUp, blamed, clock)
  BY <1>1, BusyWorks DEF SaveFails, AtWork, Working
<1>5. clock \in Nat
  BY DEF Marked, Clocked
<1>6. Process(w, seenUp, blamed, clock)
  <2>1. CASE then.pc = "done"
    <3>1. Decision(then, seenUp, blamed) /\ then.why # "mark"
      BY <1>4, <2>1 DEF Afterwards
    <3>2. /\ DOMAIN w = DOMAIN then /\ w.pc = then.pc /\ w.server = then.server /\ w.verdict = then.verdict
          /\ w.why = then.why /\ w.at = clock
      BY <1>2, <2>1, <3>1 DEF Decision
    <3>3. QED
      BY <1>5, <3>1, <3>2 DEF Decision, Process
  <2>2. CASE then.pc # "done"
    <3>1. /\ DOMAIN then = BusyFields /\ then.pc = "reconnect" /\ then.server \in Servers
          /\ then.at \in Nat /\ then.at <= clock /\ then.at <= blamed[then.server]
      BY <1>4, <2>2 DEF Afterwards, Decision
    <3>2. w = [then EXCEPT !.marks = Load, !.base = cache]
      BY <1>2, <2>2
    <3>3. /\ DOMAIN w = BusyFields /\ w.pc = "reconnect" /\ w.server = then.server /\ w.at = then.at
          /\ w.marks = Load
      BY <3>1, <3>2 DEF BusyFields
    <3>4. Book(w.marks, seenUp, blamed)
      BY <3>3, LoadBook
    <3>5. QED
      BY <3>1, <3>3, <3>4 DEF Working, AtWork, Process
  <2>3. QED
    BY <2>1, <2>2
<1>7. cache' = cache
  BY <1>3
<1>8. QED
  BY <1>3, <1>6, <1>7, StepOfOne, NothingSeen

LEMMA LeaveMarks ==
  ASSUME Marked, NEW h \in Checks, Leave(h)
  PROVE  Marked'
<1>1. PICK w : w = Idle
  OBVIOUS
<1>2. check' = [check EXCEPT ![h] = w] /\ UNCHANGED <<cache, clock, seenUp, blamed>> /\ Process(w, seenUp, blamed, clock)
  BY <1>1 DEF Leave, Process
<1>3. QED
  BY <1>2, StepOfOne, NothingSeen

LEMMA HookTimesOutMarks ==
  ASSUME Marked, NEW h \in Checks, HookTimesOut(h)
  PROVE  Marked'
<1>1. PICK s : s = check[h].server
  OBVIOUS
<1>2. s \in Servers
  <2>1. Process(check[h], seenUp, blamed, clock)
    BY DEF Marked
  <2>2. QED
    BY <1>1, <2>1 DEF Process, Working, Decision, HookTimesOut, Idle
<1>3. PICK w : w = Done(s, "allow", "timeout")
  OBVIOUS
<1>4. check' = [check EXCEPT ![h] = w] /\ UNCHANGED <<cache, clock, seenUp, blamed>>
  BY <1>1, <1>3 DEF HookTimesOut
<1>5. Process(w, seenUp, blamed, clock)
  BY <1>2, <1>3, IdleDecides DEF Process
<1>6. QED
  BY <1>4, <1>5, StepOfOne, NothingSeen

\* time passes, or a server changes, or the step is of other hooks
LEMMA ElsewhereMarks ==
  ASSUME Marked, UNCHANGED <<cache, check, seenUp, blamed>>, clock' = clock \/ clock' = clock + 1
  PROVE  Marked'
<1>1. Later(seenUp, blamed, clock, seenUp', blamed', clock')
  BY DEF Marked, Later, Clocked
<1>2. \A h \in Checks : Process(check[h], seenUp, blamed', clock')
  BY <1>1, ProcessLater DEF Marked
<1>3. QED
  BY <1>1, <1>2 DEF Marked, Later

LEMMA MarkedStep ==
  ASSUME Marked, [Next]_vars
  PROVE  Marked'
<1>1. CASE \E h \in Checks, s \in Servers : BeforeCall(h, s) \/ BeforeLongCall(h, s) \/ AfterFailure(h, s)
  BY <1>1, BeforeCallMarks, BeforeLongCallMarks, AfterFailureMarks
<1>2. CASE \E h \in Checks, code \in BOOLEAN : Probe(h, code)
  BY <1>2, ProbeMarks
<1>3. CASE \E h \in Checks, success \in BOOLEAN : Reconnect(h, success)
  BY <1>3, ReconnectMarks
<1>4. CASE \E h \in Checks : Reprobe(h) \/ SaveEmpties(h) \/ SaveFills(h) \/ SaveFails(h) \/ Leave(h) \/ HookTimesOut(h)
  BY <1>4, ReprobeMarks, SaveEmptiesMarks, SaveFillsMarks, SaveFailsMarks, LeaveMarks, HookTimesOutMarks
<1>5. CASE (\E s \in Servers : ServerChanges(s)) \/ Pass
  BY <1>5, ElsewhereMarks DEF ServerChanges, Pass
<1>6. CASE UNCHANGED <<cache, check, seenUp, blamed, clock>>
  BY <1>6, ElsewhereMarks
<1>7. QED
  BY <1>1, <1>2, <1>3, <1>4, <1>5, <1>6 DEF Next, HealthNext, vars

\* For any number of processes, servers and calls, a call is refused only for a
\* server that a probe found not to answer or a failed call of which told a code,
\* and lately enough, and goes ahead on a mark only if the server was found to
\* answer lately enough, in whatever order the processes probe, save and read the
\* file (handlePreToolUse, handlePostToolUseFailure).
THEOREM MarksAreFounded == Spec => []VerdictsFounded
<1>1. Init => Marked
  BY InitMarked
<1>2. Marked /\ [Next]_vars => Marked'
  BY MarkedStep
<1>3. Marked => VerdictsFounded
  <2>1. ASSUME Marked, NEW h \in Checks, check[h].pc = "done"
        PROVE  Decision(check[h], seenUp, blamed)
    <3>1. Process(check[h], seenUp, blamed, clock)
      BY <2>1 DEF Marked
    <3>2. check[h] # Idle /\ ~Working(check[h], seenUp, blamed, clock)
      BY <2>1 DEF Idle, Working, AtWork
    <3>3. QED
      BY <3>1, <3>2 DEF Process
  <2>2. QED
    BY <2>1 DEF VerdictsFounded, RefusalsFounded, TrustIsFresh, Decided, Decision
<1>4. QED
  BY <1>1, <1>2, <1>3, PTL DEF Spec

-----------------------------------------------------------------------------
(* Saving a mark leaves the marks of the other servers.                    *)

AsOf(base) == IF base.kind = "whole" THEN base.marks ELSE NoMarks

OthersAs(c, marks) == \A s \in Servers \ {c.server} : c.marks[s] = marks[s]

Filling == {h \in Checks : check[h].pc = "fill"}

\* Off its server, a process holds the marks of the file as it read it.
Copied(c) ==
  /\ c.pc \in AtWork \ {"fill"} => OthersAs(c, AsOf(c.base))
  /\ c.pc = "fill" => c.base = [kind |-> "empty"]

\* As long as no process saved an old copy, the file is empty only while the one
\* process that emptied it is about to fill it, with what was saved last.
InStep ==
  /\ cache.kind = "whole" => cache.marks = last
  /\ cache.kind = "missing" => last = NoMarks
  /\ cache.kind = "empty" => Filling # {}
  /\ \A h \in Filling : cache.kind = "empty" /\ OthersAs(check[h], last)
  /\ \A g, h \in Filling : g = h

Kept ==
  /\ last = [s \in Servers |-> last[s]]
  /\ \A h \in Checks : Copied(check[h])
  /\ ~raced => InStep

LEMMA InitKept == Init => Kept
  BY DEF Init, HealthInit, Kept, Copied, InStep, Filling, Idle, AtWork, NoMarks

\* a step that neither empties nor fills the file
LEMMA QuietKept ==
  ASSUME Marked, Kept, NEW h \in Checks, NEW w, check' = [check EXCEPT ![h] = w], Copied(w), w.pc # "fill",
         check[h].pc # "fill", UNCHANGED <<cache, last>>, ~raced' => ~raced
  PROVE  Kept'
<1>1. check'[h] = w /\ \A g \in Checks \ {h} : check'[g] = check[g]
  BY DEF Marked
<1>2. Filling' = Filling /\ \A g \in Filling : check'[g] = check[g]
  BY <1>1 DEF Filling
<1>3. \A g \in Checks : Copied(check'[g])
  BY <1>1 DEF Kept
<1>4. ~raced => InStep'
  BY <1>2 DEF Kept, InStep, OthersAs
<1>5. last' = [s \in Servers |-> last'[s]]
  BY DEF Kept
<1>6. QED
  BY <1>3, <1>4, <1>5 DEF Kept

LEMMA SavingCopies ==
  ASSUME NEW h \in Checks, NEW marks, NEW base, NEW m, NEW then, NEW s \in Servers,
         DOMAIN check[h] = BusyFields, check[h].server = s, DOMAIN marks = Servers,
         \A t \in Servers \ {s} : marks[t] = AsOf(base)[t]
  PROVE  Copied(Saving(h, marks, base, m, then)) /\ Saving(h, marks, base, m, then).pc = "empty"
<1>1. PICK c, new : c = check[h] /\ new = [marks EXCEPT ![s] = m]
  OBVIOUS
<1>2. PICK w : w = [c EXCEPT !.pc = "empty", !.marks = new, !.base = base, !.then = then]
  OBVIOUS
<1>3. Saving(h, marks, base, m, then) = w
  BY <1>1, <1>2 DEF Saving
<1>4. w.pc = "empty" /\ w.marks = new /\ w.server = s /\ w.base = base
  BY <1>1, <1>2 DEF BusyFields
<1>5. \A t \in Servers \ {s} : new[t] = marks[t]
  BY <1>1
<1>6. QED
  BY <1>3, <1>4, <1>5 DEF Copied, OthersAs

\* a process at work that has not begun to save: its shape, and what it copied
LEMMA HeldCopy ==
  ASSUME Marked, Kept, NEW h \in Checks, check[h].pc \in AtWork \ {"fill"}
  PROVE  /\ DOMAIN check[h] = BusyFields /\ check[h].server \in Servers
         /\ DOMAIN check[h].marks = Servers
         /\ \A t \in Servers \ {check[h].server} : check[h].marks[t] = AsOf(check[h].base)[t]
<1>1. Working(check[h], seenUp, blamed, clock)
  BY BusyWorks
<1>2. DOMAIN check[h].marks = Servers
  BY <1>1 DEF Working, Book
<1>3. OthersAs(check[h], AsOf(check[h].base))
  BY DEF Kept, Copied
<1>4. QED
  BY <1>1, <1>2, <1>3 DEF Working, OthersAs

LEMMA HeldSaving ==
  ASSUME Marked, Kept, NEW h \in Checks, check[h].pc \in AtWork \ {"fill"}, NEW m, NEW then
  PROVE  /\ Copied(Saving(h, check[h].marks, check[h].base, m, then))
         /\ Saving(h, check[h].marks, check[h].base, m, then).pc = "empty"
<1>1. PICK s, marks, base : s = check[h].server /\ marks = check[h].marks /\ base = check[h].base
  OBVIOUS
<1>2. QED
  BY <1>1, HeldCopy, SavingCopies

LEMMA RefuseCopies ==
  ASSUME Marked, Kept, NEW h \in Checks, check[h].pc \in AtWork \ {"fill"}
  PROVE  Copied(Refuse(h)) /\ Refuse(h).pc = "empty"
<1>1. PICK m, then : /\ m = Unhealthy(check[h].marks[check[h].server], check[h].at)
                     /\ then = Done(check[h].server, "block", "probe")
  OBVIOUS
<1>2. Refuse(h) = Saving(h, check[h].marks, check[h].base, m, then)
  BY <1>1 DEF Refuse
<1>3. QED
  BY <1>2, HeldSaving

LEMMA MovesOn ==
  ASSUME Marked, Kept, NEW h \in Checks, check[h].pc \in AtWork \ {"fill"}, NEW pc \in AtWork \ {"fill"}
  PROVE  Copied([check[h] EXCEPT !.pc = pc]) /\ [check[h] EXCEPT !.pc = pc].pc = pc
<1>1. PICK w : w = [check[h] EXCEPT !.pc = pc]
  OBVIOUS
<1>2. DOMAIN check[h] = BusyFields
  BY HeldCopy
<1>3. w.pc = pc /\ w.server = check[h].server /\ w.marks = check[h].marks /\ w.base = check[h].base
  BY <1>1, <1>2 DEF BusyFields
<1>4. QED
  BY <1>1, <1>3, HeldCopy DEF Copied, OthersAs

LEMMA DecidedCopies ==
  ASSUME NEW s, NEW verdict, NEW why
  PROVE  Copied(Done(s, verdict, why)) /\ Done(s, verdict, why).pc = "done"
  BY DEF Copied, Done, AtWork

LEMMA BeforeCallKeeps ==
  ASSUME Marked, Kept, NEW h \in Checks, NEW s \in Servers, BeforeCall(h, s)
  PROVE  Kept'
<1>1. PICK probing : probing = [pc |-> "probe", phase |-> "pre", server |-> s, at |-> clock, marks |-> Load,
                                base |-> cache, then |-> Idle]
  OBVIOUS
<1>2. PICK w : w = IF Fresh(Load[s], clock) THEN Done(s, "allow", "mark")
                   ELSE IF Waits(Load[s], clock) THEN Done(s, "block", "mark")
                   ELSE IF s \notin Configured THEN Done(s, "allow", "unknown")
                   ELSE probing
  OBVIOUS
<1>3. /\ check' = [check EXCEPT ![h] = w] /\ check[h].pc # "fill" /\ UNCHANGED <<cache, last, raced>>
  BY <1>1, <1>2 DEF BeforeCall, Idle
<1>4. Copied(probing) /\ probing.pc = "probe"
  BY <1>1 DEF Copied, OthersAs, AsOf, Load
<1>5. Copied(w) /\ w.pc # "fill"
  BY <1>2, <1>4, DecidedCopies
<1>6. QED
  BY <1>3, <1>5, QuietKept

LEMMA BeforeLongCallKeeps ==
  ASSUME Marked, Kept, NEW h \in Checks, NEW s \in Servers, BeforeLongCall(h, s)
  PROVE  Kept'
<1>1. PICK w : w = Done(s, "block", "length")
  OBVIOUS
<1>2. /\ check' = [check EXCEPT ![h] = w] /\ check[h].pc # "fill" /\ UNCHANGED <<cache, last, raced>>
  BY <1>1 DEF BeforeLongCall, Idle
<1>3. Copied(w) /\ w.pc # "fill"
  BY <1>1, DecidedCopies
<1>4. QED
  BY <1>2, <1>3, QuietKept

LEMMA ProbeKeeps ==
  ASSUME Marked, Kept, NEW h \in Checks, NEW code \in BOOLEAN, Probe(h, code)
  PROVE  Kept'
<1>1. check[h].pc = "probe" /\ check[h].pc \in AtWork \ {"fill"} /\ UNCHANGED <<cache, last, raced>>
  BY DEF Probe, AtWork
<1>2. PICK m, then : m = Healthy(check[h].at) /\ then = Done(check[h].server, "allow", "probe")
  OBVIOUS
<1>3. PICK w : /\ \/ w = Saving(h, check[h].marks, check[h].base, m, then)
                  \/ w = [check[h] EXCEPT !.pc = "reconnect"]
                  \/ w = Refuse(h)
               /\ check' = [check EXCEPT ![h] = w]
  BY <1>2 DEF Probe
<1>4. Copied(w) /\ w.pc # "fill"
  <2>1. CASE w = Saving(h, check[h].marks, check[h].base, m, then)
    BY <1>1, <2>1, HeldSaving
  <2>2. CASE w = [check[h] EXCEPT !.pc = "reconnect"]
    <3>1. "reconnect" \in AtWork \ {"fill"}
      BY DEF AtWork
    <3>2. QED
      BY <1>1, <2>2, <3>1, MovesOn
  <2>3. CASE w = Refuse(h)
    BY <1>1, <2>3, RefuseCopies
  <2>4. QED
    BY <1>3, <2>1, <2>2, <2>3
<1>5. QED
  BY <1>1, <1>3, <1>4, QuietKept

LEMMA ReconnectKeeps ==
  ASSUME Marked, Kept, NEW h \in Checks, NEW success \in BOOLEAN, Reconnect(h, success)
  PROVE  Kept'
<1>1. check[h].pc = "reconnect" /\ check[h].pc \in AtWork \ {"fill"} /\ UNCHANGED <<cache, last, raced>>
  BY DEF Reconnect, AtWork
<1>2. PICK w : /\ \/ w = [check[h] EXCEPT !.pc = "reprobe"]
                  \/ w = Refuse(h)
                  \/ w = Done(check[h].server, "allow", "failure")
               /\ check' = [check EXCEPT ![h] = w]
  BY DEF Reconnect
<1>3. Copied(w) /\ w.pc # "fill"
  <2>1. CASE w = [check[h] EXCEPT !.pc = "reprobe"]
    <3>1. "reprobe" \in AtWork \ {"fill"}
      BY DEF AtWork
    <3>2. QED
      BY <1>1, <2>1, <3>1, MovesOn
  <2>2. CASE w = Refuse(h)
    BY <1>1, <2>2, RefuseCopies
  <2>3. CASE w = Done(check[h].server, "allow", "failure")
    BY <2>3, DecidedCopies
  <2>4. QED
    BY <1>2, <2>1, <2>2, <2>3
<1>4. QED
  BY <1>1, <1>2, <1>3, QuietKept

LEMMA ReprobeKeeps ==
  ASSUME Marked, Kept, NEW h \in Checks, Reprobe(h)
  PROVE  Kept'
<1>1. check[h].pc = "reprobe" /\ check[h].pc \in AtWork \ {"fill"} /\ UNCHANGED <<cache, last, raced>>
  BY DEF Reprobe, AtWork
<1>2. PICK m, then, after, file :
        /\ m = Healthy(check[h].at) /\ then = Done(check[h].server, "allow", "probe")
        /\ after = Done(check[h].server, "allow", "failure") /\ file = Load
  OBVIOUS
<1>3. PICK w : /\ \/ w = Saving(h, file, cache, m, after)
                  \/ w = Saving(h, check[h].marks, check[h].base, m, then)
                  \/ w = after
                  \/ w = Refuse(h)
               /\ check' = [check EXCEPT ![h] = w]
  BY <1>2 DEF Reprobe
<1>4. Copied(Saving(h, file, cache, m, after)) /\ Saving(h, file, cache, m, after).pc = "empty"
  <2>1. PICK s \in Servers : s = check[h].server
    BY <1>1, HeldCopy
  <2>2. DOMAIN file = Servers /\ \A t \in Servers \ {s} : file[t] = AsOf(cache)[t]
    BY <1>2, LoadBook DEF Book, AsOf, Load
  <2>3. DOMAIN check[h] = BusyFields
    BY <1>1, HeldCopy
  <2>4. QED
    BY <2>1, <2>2, <2>3, SavingCopies
<1>5. Copied(w) /\ w.pc # "fill"
  BY <1>1, <1>2, <1>3, <1>4, HeldSaving, RefuseCopies, DecidedCopies
<1>6. QED
  BY <1>1, <1>3, <1>5, QuietKept

LEMMA AfterFailureKeeps ==
  ASSUME Marked, Kept, NEW h \in Checks, NEW s \in Servers, AfterFailure(h, s)
  PROVE  Kept'
<1>1. PICK marks : marks = [Load EXCEPT ![s] = Unhealthy(@, clock)]
  OBVIOUS
<1>2. PICK c, w :
        /\ c = [pc |-> "empty", phase |-> "post", server |-> s, at |-> clock, base |-> cache, marks |-> marks,
                then |-> Idle]
        /\ w = [c EXCEPT !.then = [c EXCEPT !.pc = "reconnect"]]
  OBVIOUS
<1>3. /\ check' = [check EXCEPT ![h] = w] /\ check[h].pc # "fill" /\ UNCHANGED <<cache, last, raced>>
  BY <1>1, <1>2 DEF AfterFailure, Idle
<1>4. w.pc = "empty" /\ w.server = s /\ w.base = cache /\ w.marks = marks
  BY <1>2
<1>5. \A t \in Servers \ {s} : marks[t] = AsOf(cache)[t]
  BY <1>1 DEF AsOf, Load
<1>6. Copied(w) /\ w.pc # "fill"
  BY <1>4, <1>5 DEF Copied, OthersAs
<1>7. QED
  BY <1>3, <1>6, QuietKept

LEMMA SaveEmptiesKeeps ==
  ASSUME Marked, Kept, NEW h \in Checks, SaveEmpties(h)
  PROVE  Kept'
<1>1. PICK c : c = check[h]
  OBVIOUS
<1>2. PICK w : w = [c EXCEPT !.pc = "fill", !.base = [kind |-> "empty"]]
  OBVIOUS
<1>3. check' = [check EXCEPT ![h] = w] /\ cache' = [kind |-> "empty"] /\ last' = last
  BY <1>1, <1>2 DEF SaveEmpties, Marked
<1>4. c.pc = "empty" /\ DOMAIN c = BusyFields /\ OthersAs(c, AsOf(c.base))
  BY <1>1, HeldCopy DEF SaveEmpties, AtWork, OthersAs
<1>5. w.pc = "fill" /\ w.base = [kind |-> "empty"] /\ w.server = c.server /\ w.marks = c.marks
  BY <1>2, <1>4 DEF BusyFields
<1>6. check'[h] = w /\ \A g \in Checks \ {h} : check'[g] = check[g]
  BY <1>3 DEF Marked
<1>7. \A g \in Checks : Copied(check'[g])
  <2>1. Copied(w)
    BY <1>5 DEF Copied
  <2>2. QED
    BY <1>6, <2>1 DEF Kept
<1>8. ASSUME ~raced'
      PROVE  InStep'
  <2>1. ~raced /\ cache = c.base /\ Filling = {}
    BY <1>1, <1>8 DEF SaveEmpties, Filling
  <2>2. AsOf(c.base) = last
    BY <2>1 DEF Kept, InStep, AsOf, Marked
  <2>3. Filling' = {h}
    BY <1>5, <1>6, <2>1 DEF Filling
  <2>4. OthersAs(check'[h], last')
    BY <1>3, <1>4, <1>5, <1>6, <2>2 DEF OthersAs
  <2>5. cache'.kind = "empty"
    BY <1>3
  <2>6. QED
    BY <2>3, <2>4, <2>5 DEF InStep
<1>9. QED
  BY <1>3, <1>7, <1>8 DEF Kept

LEMMA SaveFillsKeeps ==
  ASSUME Marked, Kept, NEW h \in Checks, SaveFills(h)
  PROVE  Kept'
<1>1. PICK c, then : c = check[h] /\ then = c.then
  OBVIOUS
<1>2. PICK w : w = IF then.pc = "done" THEN [then EXCEPT !.at = clock]
                   ELSE [then EXCEPT !.marks = c.marks, !.base = cache']
  OBVIOUS
<1>3. /\ check' = [check EXCEPT ![h] = w] /\ cache' = [kind |-> "whole", marks |-> c.marks]
      /\ last' = [last EXCEPT ![c.server] = c.marks[c.server]]
  BY <1>1, <1>2 DEF SaveFills
<1>4. Working(c, seenUp, blamed, clock) /\ c.pc = "fill" /\ Afterwards(then, seenUp, blamed, clock)
  BY <1>1, BusyWorks DEF SaveFills, AtWork, Working
<1>5. Copied(w) /\ w.pc # "fill"
  <2>1. CASE then.pc = "done"
    <3>1. DOMAIN then = {"pc", "server", "verdict", "why", "at"}
      BY <1>4, <2>1 DEF Afterwards, Decision
    <3>2. w.pc = "done"
      BY <1>2, <2>1, <3>1
    <3>3. QED
      BY <3>2 DEF Copied, AtWork
  <2>2. CASE then.pc # "done"
    <3>1. DOMAIN then = BusyFields /\ then.pc = "reconnect"
      BY <1>4, <2>2 DEF Afterwards, Decision
    <3>2. w = [then EXCEPT !.marks = c.marks, !.base = cache']
      BY <1>2, <2>2
    <3>3. w.pc = "reconnect" /\ w.marks = c.marks /\ w.base = cache'
      BY <3>1, <3>2 DEF BusyFields
    <3>4. AsOf(w.base) = w.marks
      BY <1>3, <3>3 DEF AsOf
    <3>5. QED
      BY <3>3, <3>4 DEF Copied, OthersAs
  <2>3. QED
    BY <2>1, <2>2
<1>6. check'[h] = w /\ \A g \in Checks \ {h} : check'[g] = check[g]
  BY <1>3 DEF Marked
<1>7. last' = [s \in Servers |-> last'[s]] /\ c.server \in Servers
      /\ \A s \in Servers : last'[s] = IF s = c.server THEN c.marks[s] ELSE last[s]
  BY <1>3, <1>4 DEF Kept, Working
<1>8. ASSUME ~raced'
      PROVE  InStep'
  <2>1. ~raced /\ h \in Filling
    BY <1>1, <1>4, <1>8 DEF SaveFills, Filling
  <2>2. Filling = {h} /\ OthersAs(c, last)
    BY <1>1, <2>1 DEF Kept, InStep
  <2>3. Filling' = {}
    BY <1>5, <1>6, <2>2 DEF Filling
  <2>4. c.marks = [s \in Servers |-> c.marks[s]]
    BY <1>4 DEF Working, Book
  <2>5. last' = c.marks
    BY <1>7, <2>2, <2>4 DEF OthersAs
  <2>6. cache'.kind = "whole" /\ cache'.marks = last'
    BY <1>3, <2>5
  <2>7. QED
    BY <2>3, <2>6 DEF InStep
<1>9. \A g \in Checks : Copied(check'[g])
  BY <1>5, <1>6 DEF Kept
<1>10. QED
  BY <1>7, <1>8, <1>9 DEF Kept

\* a process that could not save a mark leaves the file, or leaves it empty
LEMMA SaveFailsKeeps ==
  ASSUME Marked, Kept, NEW h \in Checks, SaveFails(h)
  PROVE  Kept'
<1>1. PICK c, then : c = check[h] /\ then = c.then
  OBVIOUS
<1>2. PICK w : w = IF then.pc = "done" THEN [then EXCEPT !.at = clock]
                   ELSE [then EXCEPT !.marks = Load, !.base = cache]
  OBVIOUS
<1>3. /\ check' = [check EXCEPT ![h] = w] /\ UNCHANGED <<cache, last>> /\ c.pc \in {"empty", "fill"}
      /\ raced' = (raced \/ c.pc = "fill")
  BY <1>1, <1>2 DEF SaveFails
<1>4. Afterwards(then, seenUp, blamed, clock)
  BY <1>1, <1>3, BusyWorks DEF AtWork, Working
<1>5. Copied(w) /\ w.pc # "fill"
  <2>1. CASE then.pc = "done"
    <3>1. DOMAIN then = {"pc", "server", "verdict", "why", "at"}
      BY <1>4, <2>1 DEF Afterwards, Decision
    <3>2. w.pc = "done"
      BY <1>2, <2>1, <3>1
    <3>3. QED
      BY <3>2 DEF Copied, AtWork
  <2>2. CASE then.pc # "done"
    <3>1. DOMAIN then = BusyFields /\ then.pc = "reconnect"
      BY <1>4, <2>2 DEF Afterwards, Decision
    <3>2. w = [then EXCEPT !.marks = Load, !.base = cache]
      BY <1>2, <2>2
    <3>3. w.pc = "reconnect" /\ w.marks = Load /\ w.base = cache
      BY <3>1, <3>2 DEF BusyFields
    <3>4. QED
      BY <3>3 DEF Copied, OthersAs, AsOf, Load
  <2>3. QED
    BY <2>1, <2>2
<1>6. CASE c.pc = "fill"
  <2>1. raced'
    BY <1>3, <1>6
  <2>2. \A g \in Checks : Copied(check'[g])
    BY <1>3, <1>5 DEF Kept, Marked
  <2>3. QED
    BY <1>3, <2>1, <2>2 DEF Kept
<1>7. CASE c.pc # "fill"
  <2>1. ~raced' => ~raced
    BY <1>3
  <2>2. check[h].pc # "fill"
    BY <1>1, <1>7
  <2>3. QED
    BY <1>3, <1>5, <2>1, <2>2, QuietKept
<1>8. QED
  BY <1>6, <1>7

LEMMA LeaveKeeps ==
  ASSUME Marked, Kept, NEW h \in Checks, Leave(h)
  PROVE  Kept'
<1>1. PICK w : w = Idle
  OBVIOUS
<1>2. check' = [check EXCEPT ![h] = w] /\ check[h].pc # "fill" /\ UNCHANGED <<cache, last, raced>>
  BY <1>1 DEF Leave
<1>3. Copied(w) /\ w.pc # "fill"
  BY <1>1 DEF Copied, Idle, AtWork
<1>4. QED
  BY <1>2, <1>3, QuietKept

LEMMA HookTimesOutKeeps ==
  ASSUME Marked, Kept, NEW h \in Checks, HookTimesOut(h)
  PROVE  Kept'
<1>1. PICK w : w = Done(check[h].server, "allow", "timeout")
  OBVIOUS
<1>2. check' = [check EXCEPT ![h] = w] /\ UNCHANGED <<cache, last>> /\ raced' = (raced \/ check[h].pc = "fill")
  BY <1>1 DEF HookTimesOut
<1>3. Copied(w) /\ w.pc # "fill"
  BY <1>1, DecidedCopies
<1>4. CASE check[h].pc = "fill"
  <2>1. raced'
    BY <1>2, <1>4
  <2>2. \A g \in Checks : Copied(check'[g])
    BY <1>2, <1>3 DEF Kept, Marked
  <2>3. QED
    BY <1>2, <2>1, <2>2 DEF Kept
<1>5. CASE check[h].pc # "fill"
  <2>1. ~raced' => ~raced
    BY <1>2
  <2>2. QED
    BY <1>2, <1>3, <1>5, <2>1, QuietKept
<1>6. QED
  BY <1>4, <1>5

LEMMA ElsewhereKeeps ==
  ASSUME Kept, UNCHANGED <<cache, check, last, raced>>
  PROVE  Kept'
  BY DEF Kept, Copied, InStep, Filling, OthersAs

LEMMA KeptStep ==
  ASSUME Marked, Kept, [Next]_vars
  PROVE  Kept'
<1>1. CASE \E h \in Checks, s \in Servers : BeforeCall(h, s) \/ BeforeLongCall(h, s) \/ AfterFailure(h, s)
  BY <1>1, BeforeCallKeeps, BeforeLongCallKeeps, AfterFailureKeeps
<1>2. CASE \E h \in Checks, code \in BOOLEAN : Probe(h, code)
  BY <1>2, ProbeKeeps
<1>3. CASE \E h \in Checks, success \in BOOLEAN : Reconnect(h, success)
  BY <1>3, ReconnectKeeps
<1>4. CASE \E h \in Checks : Reprobe(h) \/ SaveEmpties(h) \/ SaveFills(h) \/ SaveFails(h) \/ Leave(h) \/ HookTimesOut(h)
  BY <1>4, ReprobeKeeps, SaveEmptiesKeeps, SaveFillsKeeps, SaveFailsKeeps, LeaveKeeps, HookTimesOutKeeps
<1>5. CASE (\E s \in Servers : ServerChanges(s)) \/ Pass
  BY <1>5, ElsewhereKeeps DEF ServerChanges, Pass
<1>6. CASE UNCHANGED <<cache, check, last, raced>>
  BY <1>6, ElsewhereKeeps
<1>7. QED
  BY <1>1, <1>2, <1>3, <1>4, <1>5, <1>6 DEF Next, HealthNext, vars

\* However many processes share the file, a process that saves a mark leaves the
\* marks of all other servers as they were last saved, unless it saves a copy
\* older than the file or leaves it empty (loadState, saveState).
THEOREM MarksOfOthersKept == Spec => []MarksKept
<1>1. Init => Marked /\ Kept
  BY InitMarked, InitKept
<1>2. Marked /\ Kept /\ [Next]_vars => Marked' /\ Kept'
  BY MarkedStep, KeptStep
<1>3. Kept => MarksKept
  BY DEF Kept, InStep, MarksKept
<1>4. QED
  BY <1>1, <1>2, <1>3, PTL DEF Spec
=============================================================================
