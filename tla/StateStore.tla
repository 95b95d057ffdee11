----------------------------- MODULE StateStore -----------------------------
(***************************************************************************)
(* The state store (.cursor/scripts/lib/state-store/).                     *)
(*                                                                         *)
(* A process that opens the store reads the whole database file into       *)
(* memory and answers from there. Each statement that writes is followed   *)
(* by an export of the memory over the file, and so is each CREATE TABLE   *)
(* IF NOT EXISTS of the opening and the closing itself: a process that     *)
(* only reads writes the file as well. The file is emptied and then        *)
(* filled. Any number of processes may have the store open.                *)
(*                                                                         *)
(* The export closes the database in memory and opens it again, so that    *)
(* what the opening switched on (foreign_keys) is off when the first row   *)
(* is written: a row may refer to one that is not there.                   *)
(***************************************************************************)
EXTENDS Integers, FiniteSets, Budget, TLC

CONSTANTS Stores,    \* processes that open the store
          Keys,      \* records [table, id]: the primary keys rows may have
          Values,    \* [tables -> what the columns other than references hold]
          Valid      \* [tables -> the values that the schema admits]

VARIABLES file,      \* the database file
          store,     \* [Stores -> what the process does, and its memory]
          ledger,    \* [key -> the row last reported as written]
          lapped     \* whether a process was killed while it saved, or saved over what it had not read

storeVars == <<file, store, ledger, lapped, left>>

-----------------------------------------------------------------------------
(* Rows and tables (migrations.js, queries.js).                            *)

Null == [table |-> "none", id |-> 0]
KeysOf(table) == {k \in Keys : k.table = table}

\* the columns that refer to other rows; a decision may refer to one it supersedes
References(key) ==
  CASE key.table = "skill_runs" -> {[session |-> s] : s \in KeysOf("sessions")}
    [] key.table = "decisions" -> {[session |-> s, supersedes |-> d] :
                                     s \in KeysOf("sessions"), d \in KeysOf("decisions") \cup {Null}}
    [] key.table = "governance_events" -> {[session |-> s] : s \in KeysOf("sessions") \cup {Null}}
    [] OTHER -> {[unreferring |-> Null]}

Rows(key) == {[value |-> v, refs |-> r] : v \in Values[key.table], r \in References(key)}

\* schema.js: every entity is checked before it is written
ValidEntity(key, row) == row.value \in Valid[key.table]

NoRows == [k \in {} |-> 0]
NewDatabase == [schema |-> {}, rows |-> NoRows]

\* INSERT ... ON CONFLICT DO UPDATE: the row in place of the one of its key
Upsert(rows, key, row) == [k \in DOMAIN rows \cup {key} |-> IF k = key THEN row ELSE rows[k]]

-----------------------------------------------------------------------------
(* Opening and saving (index.js).                                          *)

Missing == [kind |-> "missing"]
Empty == [kind |-> "empty"]
Whole(db) == [kind |-> "whole", db |-> db]
Shut == [pc |-> "shut"]

StoreInit ==
  /\ file = Missing
  /\ store = [p \in Stores |-> Shut]
  /\ ledger = NoRows /\ lapped = FALSE
  /\ BudgetInit

IsOpen(p) == store[p].pc # "shut"

\* Mutant: a store is opened without what is in the file.
OpenAnew(p) ==
  /\ ~IsOpen(p) /\ Spend("open")
  /\ lapped' = (lapped \/ file = Empty)
  /\ store' = [store EXCEPT ![p] =
       [pc |-> "empty", then |-> "migrate", report |-> {},
        db |-> [NewDatabase EXCEPT !.schema = @ \cup {"migrations"}], base |-> file]]
  /\ UNCHANGED <<file, ledger>>

\* openDatabase: an empty file opens as a new database
Open(p) ==
  /\ ~IsOpen(p) /\ Spend("open")
  /\ lapped' = (lapped \/ file = Empty)
  /\ store' = [store EXCEPT ![p] =
       [pc |-> "empty", then |-> "migrate", report |-> {},
        db |-> [IF file.kind = "whole" THEN file.db ELSE NewDatabase EXCEPT !.schema = @ \cup {"migrations"}],
        base |-> file]]
  /\ UNCHANGED <<file, ledger>>

\* saveToDisk: the file is emptied, then filled with the export of the memory
SaveEmpties(p) ==
  /\ store[p].pc = "empty"
  /\ lapped' = (lapped \/ file # store[p].base)
  /\ file' = Empty
  /\ store' = [store EXCEPT ![p].pc = "fill", ![p].base = Empty]
  /\ UNCHANGED <<ledger, left>>

SaveFills(p) ==
  /\ store[p].pc = "fill"
  /\ lapped' = (lapped \/ file # store[p].base)
  /\ file' = Whole(store[p].db)
  /\ ledger' = [k \in DOMAIN ledger \cup store[p].report |->
                  IF k \in store[p].report THEN store[p].db.rows[k] ELSE ledger[k]]
  /\ store' = [store EXCEPT ![p] = IF @.then = "shut" THEN Shut
                   ELSE [@ EXCEPT !.pc = store[p].then, !.base = Whole(store[p].db), !.report = {}]]
  /\ UNCHANGED left

\* Mutant: the migration is recorded after its transaction.
MigrateBeforeRecording(p) ==
  /\ store[p].pc = "migrate"
  /\ store' = [store EXCEPT ![p].db.schema = @ \cup (IF "tables" \in @ THEN {"version"} ELSE {"tables"}),
                            ![p].pc = "empty",
                            ![p].then = IF "tables" \in store[p].db.schema THEN "list" ELSE "migrate"]
  /\ UNCHANGED <<file, ledger, lapped, left>>

\* applyMigrations: tables and version in one transaction, saved when it is committed;
\* getAppliedMigrations creates its table once more, and so saves again
Migrate(p) ==
  /\ store[p].pc = "migrate"
  /\ store' = [store EXCEPT ![p].db.schema = @ \cup {"tables", "version"},
                            ![p].pc = "empty", ![p].then = "list"]
  /\ UNCHANGED <<file, ledger, lapped, left>>

ListMigrations(p) ==
  /\ store[p].pc = "list"
  /\ store' = [store EXCEPT ![p].pc = "empty", ![p].then = "ready"]
  /\ UNCHANGED <<file, ledger, lapped, left>>

\* upsertSession, insertSkillRun, insertDecision, upsertInstallState, ...
Write(p, key, row) ==
  /\ store[p].pc = "ready" /\ Spend("write")
  /\ ValidEntity(key, row)
  /\ store' = [store EXCEPT ![p].db.rows = Upsert(@, key, row), ![p].report = {key},
                            ![p].pc = "empty", ![p].then = "ready"]
  /\ UNCHANGED <<file, ledger, lapped>>

Close(p) ==
  /\ store[p].pc = "ready"
  /\ store' = [store EXCEPT ![p].pc = "empty", ![p].then = "shut"]
  /\ UNCHANGED <<file, ledger, lapped, left>>

KillStore(p) ==
  /\ IsOpen(p) /\ Spend("kill")
  /\ lapped' = (lapped \/ store[p].pc = "fill")
  /\ store' = [store EXCEPT ![p] = Shut]
  /\ UNCHANGED <<file, ledger>>

StoreNext == \E p \in Stores :
  \/ Open(p) \/ SaveEmpties(p) \/ SaveFills(p) \/ Migrate(p) \/ ListMigrations(p)
  \/ Close(p) \/ KillStore(p)
  \/ \E key \in Keys : \E row \in Rows(key) : Write(p, key, row)

StoreSpec == StoreInit /\ [][StoreNext]_storeVars

-----------------------------------------------------------------------------
(* What a store keeps.                                                     *)

Memories == {store[p].db : p \in {q \in Stores : IsOpen(q)}}
Databases == Memories \cup (IF file.kind = "whole" THEN {file.db} ELSE {})

\* A row that a store reported as written is in the file from then on, however
\* many processes open the store after each other, write, are killed between
\* two saves or close, as long as none saves over a file it has not read
\* (index.js, saveToDisk).
RowsSurvive ==
  ~lapped /\ file.kind = "whole" =>
    \A k \in DOMAIN ledger : k \in DOMAIN file.db.rows /\ file.db.rows[k] = ledger[k]

\* A file that says the migration was applied has its tables, one that has the
\* tables says so, and rows stand only where there are tables, wherever the
\* process that migrated it was killed and whichever processes saved over each
\* other (migrations.js, applyMigrations; index.js, transaction).
MigrationAtomic ==
  file.kind = "whole" =>
    /\ "version" \in file.db.schema <=> "tables" \in file.db.schema
    /\ DOMAIN file.db.rows # {} => "tables" \in file.db.schema

=============================================================================
