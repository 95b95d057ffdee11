------------------------------ MODULE EditBatch ------------------------------
(***************************************************************************)
(* Formatting and type checks of edited files                              *)
(* (.cursor/scripts/hooks/post-edit-accumulator.js and                     *)
(* stop-format-typecheck.js, .cursor/scripts/lib/resolve-formatter.js).    *)
(*                                                                         *)
(* The hook after an edit appends the file's name to a list of the         *)
(* session. The hook at the end of a response reads the list, removes it   *)
(* and handles the files, one batch for each project root and one for each *)
(* TypeScript configuration, with an equal share of its time for each.     *)
(***************************************************************************)
EXTENDS Integers, Sequences, FiniteSets, SequencesExt, Budget

CONSTANTS Stops,       \* processes of the hook at the end of a response
          Paths,       \* files that are edited
          Language,    \* [Paths -> "ts", "js" or "other"]
          ProjectRoot, \* [Paths -> the directory findProjectRoot finds]
          TsConfig,    \* [Paths -> the directory of its tsconfig.json, or "none"]
          ConfigsOf,   \* [directories -> the formatters configured there]
          TotalBudget  \* the time for all batches; 270 s

\* findProjectRoot ends at the directory of the file itself
ASSUME BatchAssumption ==
  /\ IsFiniteSet(Paths) /\ TotalBudget \in Nat
  /\ \A f \in Paths : Language[f] \in {"ts", "js"} => ProjectRoot[f] # "none"

VARIABLES list,     \* the list of the session: [exists, lines]
          batch,    \* [Stops -> what the process does]
          present,  \* files that exist
          owed,     \* files edited since they were last given to the formatter
          handled,  \* [Paths -> how often a batch took the file from the list]
          recorded, \* [Paths -> how often the file was recorded]
          missed    \* files recorded between reading and removing the list, lost with a process,
                    \* read by two, or read from a list that could not be removed

batchVars == <<list, batch, present, owed, handled, recorded, missed>>

-----------------------------------------------------------------------------
Waiting == [pc |-> "idle"]
NoList == [exists |-> FALSE, lines |-> <<>>]

BatchInit ==
  /\ list = NoList
  /\ batch = [h \in Stops |-> Waiting]
  /\ present = Paths
  /\ owed = {}
  /\ handled = [f \in Paths |-> 0] /\ recorded = [f \in Paths |-> 0]
  /\ missed = {}
  /\ BudgetInit

Reading == {h \in Stops : batch[h].pc = "read"}
Listed == ToSet(list.lines)

\* appendPath: only JavaScript and TypeScript
Recordable(f) == Language[f] \in {"ts", "js"}
Record(f) ==
  /\ list' = [exists |-> TRUE, lines |-> Append(list.lines, f)]
  /\ recorded' = [recorded EXCEPT ![f] = @ + 1]
  /\ missed' = missed \cup (IF Reading = {} THEN {} ELSE {f})
  /\ UNCHANGED <<batch, present, owed, handled>>

RemoveFile(f) ==
  /\ f \in present /\ Spend("remove")
  /\ present' = present \ {f}
  /\ UNCHANGED <<list, batch, owed, handled, recorded, missed>>

\* main: without a list there is nothing to do
BatchReads(h) ==
  /\ batch[h] = Waiting /\ list.exists /\ Spend("stop")
  /\ batch' = [batch EXCEPT ![h] = [pc |-> "read", lines |-> list.lines]]
  /\ missed' = missed \cup (IF Reading = {} THEN {} ELSE Listed)
  /\ UNCHANGED <<list, present, owed, handled, recorded>>

\* detectFormatter: biome before prettier
Formatter(dir) ==
  IF "biome" \in ConfigsOf[dir] THEN "biome"
  ELSE IF "prettier" \in ConfigsOf[dir] THEN "prettier" ELSE "none"

\* the batches of files: those that exist, by project root and by configuration
Grouped(files, kind, dirOf) ==
  {[kind |-> kind, dir |-> d, files |-> {f \in files : dirOf[f] = d}] : d \in {dirOf[f] : f \in files} \ {"none"}}

\* Mutant: only the files of a configuration are formatted.
BatchesOfConfigured(files) ==
  LET found == {f \in files \cap present : TsConfig[f] # "none"}
  IN  Grouped({f \in found : Recordable(f)}, "format", ProjectRoot)
      \cup Grouped({f \in found : Language[f] = "ts"}, "typecheck", TsConfig)

Batches(files) ==
  LET found == files \cap present
  IN  Grouped({f \in found : Recordable(f)}, "format", ProjectRoot)
      \cup Grouped({f \in found : Language[f] = "ts"}, "typecheck", TsConfig)

\* Mutant: each batch may take the whole budget.
BatchOfWholeBudget(h) ==
  LET files == ToSet(batch[h].lines)
  IN  /\ batch[h].pc = "read"
      /\ list' = NoList /\ UNCHANGED left
      /\ batch' = [batch EXCEPT ![h] =
           [pc |-> "run", files |-> files, todo |-> Batches(files), spent |-> 0, share |-> TotalBudget]]
      /\ handled' = [f \in Paths |-> IF f \in files THEN handled[f] + 1 ELSE handled[f]]
      /\ UNCHANGED <<present, owed, recorded, missed>>

\* Mutant: the list stays when it was read.
BatchKeepsList(h) ==
  LET files == ToSet(batch[h].lines)
      batches == Batches(files)
  IN  /\ batch[h].pc = "read"
      /\ list' = list /\ UNCHANGED left
      /\ batch' = [batch EXCEPT ![h] =
           [pc |-> "run", files |-> files, todo |-> batches, spent |-> 0,
            share |-> IF batches = {} THEN 0 ELSE TotalBudget \div Cardinality(batches)]]
      /\ handled' = [f \in Paths |-> IF f \in files THEN handled[f] + 1 ELSE handled[f]]
      /\ UNCHANGED <<present, owed, recorded, missed>>

\* parseAccumulator drops repetitions; the list is removed when it was read, and
\* if it cannot be removed the files are handled all the same
BatchRemovesList(h) ==
  LET files == ToSet(batch[h].lines)
      batches == Batches(files)
  IN  /\ batch[h].pc = "read"
      /\ \/ list' = NoList /\ UNCHANGED <<missed, left>>
         \/ Spend("fault") /\ list' = list /\ missed' = missed \cup files
      /\ batch' = [batch EXCEPT ![h] =
           [pc |-> "run", files |-> files, todo |-> batches, spent |-> 0,
            share |-> IF batches = {} THEN 0 ELSE TotalBudget \div Cardinality(batches)]]
      /\ handled' = [f \in Paths |-> IF f \in files THEN handled[f] + 1 ELSE handled[f]]
      /\ UNCHANGED <<present, owed, recorded>>

\* a formatter that is not there is skipped; one that hangs is ended after its share
RunBatch(h, b, hangs) ==
  /\ batch[h].pc = "run" /\ b \in batch[h].todo
  /\ b.kind = "typecheck" => \A o \in batch[h].todo : o.kind = "typecheck"
  /\ hangs => b.kind = "typecheck" \/ Formatter(b.dir) # "none"
  /\ batch' = [batch EXCEPT ![h].todo = @ \ {b},
                            ![h].spent = @ + (IF hangs THEN batch[h].share ELSE 0)]
  /\ owed' = owed \ (IF b.kind = "format" THEN b.files ELSE {})
  /\ UNCHANGED <<list, present, handled, recorded, missed>>

BatchEnds(h) ==
  /\ batch[h].pc = "run" /\ batch[h].todo = {}
  /\ batch' = [batch EXCEPT ![h] = Waiting]
  /\ UNCHANGED <<list, present, owed, handled, recorded, missed>>

\* before it removes the list, a process that dies loses nothing
BatchDies(h) ==
  /\ batch[h] # Waiting /\ Spend("fault")
  /\ batch' = [batch EXCEPT ![h] = Waiting]
  /\ missed' = missed \cup (IF batch[h].pc = "run" THEN batch[h].files ELSE {})
  /\ UNCHANGED <<list, present, owed, handled, recorded>>

BatchNext ==
  \E h \in Stops :
    \/ BatchReads(h) \/ BatchRemovesList(h) \/ BatchDies(h)
    \/ BatchEnds(h) /\ UNCHANGED left
    \/ /\ batch[h].pc = "run"
       /\ \E b \in batch[h].todo, hangs \in BOOLEAN : RunBatch(h, b, hangs)
       /\ UNCHANGED left

-----------------------------------------------------------------------------
\* The batches of one process never take more than the budget together, however
\* many there are and however many of them hang (stop-format-typecheck.js, main:
\* "the total never exceeds the Stop hook budget").
WithinBudget == \A h \in Stops : batch[h].pc = "run" => batch[h].spent <= TotalBudget

\* What was recorded is taken from the list at most once, with processes that
\* overlap, die or meet further edits; unless two have read the same list or the
\* list could not be removed (stop-format-typecheck.js: "repeated Stop calls do
\* not double-process files").
ProcessedOnce == \A f \in Paths \ missed : handled[f] <= recorded[f]
=============================================================================
