-------------------------- MODULE RecordsProofs --------------------------
(***************************************************************************)
(* What the state store and the logs of skills keep, for any processes,    *)
(* keys, rows, evolvers and appends.                                       *)
(*                                                                         *)
(* A database is consistent wherever it is: Consistent holds of the file   *)
(* and of every memory, and each step of a process keeps it of the one     *)
(* database it changes.                                                    *)
(*                                                                         *)
(* That rows survive needs to know what a memory holds of the file it was  *)
(* made from (Holds), that it still is so while the file is empty, and     *)
(* that, as long as no save lapped another, the file is empty only while   *)
(* one process fills it.                                                   *)
(*                                                                         *)
(* That the history is true needs to know what each evolver at work holds  *)
(* (Sound), that two of them that are not mixed up work on different       *)
(* versions (Apart), that nothing is rolled back to what is half written   *)
(* (TargetsWhole), and that rollbacks that are logged had their text       *)
(* restored (RollbacksTrue). Torn lines are counted from the numbers of    *)
(* whole lines and of torn ends (TornInv).                                 *)
(*                                                                         *)
(* The reports are functions of the state. That they agree needs little of *)
(* it (Stored, Dated) and the lemmas on what they are made of: selections  *)
(* of a sequence (Follows), rounding, and counting in boxes.               *)
(***************************************************************************)
EXTENDS Records, FiniteSetTheorems, FunctionTheorems, SequenceTheorems, WellFoundedInduction, TLAPS

Fields == {"pc", "then", "report", "db", "base"}
IsDatabase(db) == DOMAIN db = {"schema", "rows"}

\* the shape of the file and of what a process holds
FileShape == file = Missing \/ file = Empty \/ (file.kind = "whole" /\ IsDatabase(file.db))
StoreShape(p) ==
  IsOpen(p) => /\ DOMAIN store[p] = Fields /\ IsDatabase(store[p].db)
               /\ store[p].then \in {"migrate", "list", "ready", "shut"}
Shape == FileShape /\ DOMAIN store = Stores /\ \A p \in Stores : StoreShape(p)

OthersStay(p) == \A q \in Stores \ {p} : store'[q] = store[q]

-----------------------------------------------------------------------------
(* What each step does to the process that takes it.                       *)

LEMMA OpenEffect ==
  ASSUME Shape, NEW p \in Stores, Open(p)
  PROVE  /\ DOMAIN store' = Stores /\ OthersStay(p) /\ ~IsOpen(p)
         /\ DOMAIN store'[p] = Fields /\ DOMAIN store'[p].db = {"schema", "rows"}
         /\ store'[p].pc = "empty" /\ store'[p].then = "migrate"
         /\ store'[p].report = {} /\ store'[p].base = file
         /\ file.kind = "whole" => /\ store'[p].db.rows = file.db.rows
                                   /\ store'[p].db.schema = file.db.schema \cup {"migrations"}
         /\ file.kind # "whole" => /\ store'[p].db.rows = NoRows
                                   /\ store'[p].db.schema = {"migrations"}
         /\ lapped' = (lapped \/ file = Empty) /\ UNCHANGED <<file, ledger>>
<1> DEFINE found == IF file.kind = "whole" THEN file.db ELSE NewDatabase
           mine == [found EXCEPT !.schema = @ \cup {"migrations"}]
<1>1. store' = [store EXCEPT ![p] =
         [pc |-> "empty", then |-> "migrate", report |-> {}, db |-> mine, base |-> file]]
  BY DEF Open
<1>2. DOMAIN found = {"schema", "rows"}
  BY DEF Shape, FileShape, IsDatabase, NewDatabase, Missing, Empty
<1>3. DOMAIN mine = {"schema", "rows"} /\ mine.rows = found.rows /\ mine.schema = found.schema \cup {"migrations"}
  BY <1>2
<1>4. /\ DOMAIN store' = Stores /\ OthersStay(p)
      /\ store'[p] = [pc |-> "empty", then |-> "migrate", report |-> {}, db |-> mine, base |-> file]
  BY <1>1 DEF Shape, OthersStay
<1> HIDE DEF mine
<1>5. /\ DOMAIN store'[p] = Fields /\ store'[p].db = mine
      /\ store'[p].pc = "empty" /\ store'[p].then = "migrate"
      /\ store'[p].report = {} /\ store'[p].base = file
  BY <1>4 DEF Fields
<1>6. QED
  BY <1>3, <1>4, <1>5 DEF Open, NewDatabase

LEMMA SaveEmptiesEffect ==
  ASSUME Shape, NEW p \in Stores, SaveEmpties(p)
  PROVE  /\ DOMAIN store' = Stores /\ OthersStay(p) /\ store[p].pc = "empty" /\ IsOpen(p)
         /\ DOMAIN store'[p] = Fields /\ store'[p].db = store[p].db
         /\ store'[p].pc = "fill" /\ store'[p].then = store[p].then
         /\ store'[p].report = store[p].report /\ store'[p].base = Empty
         /\ file' = Empty /\ lapped' = (lapped \/ file # store[p].base) /\ UNCHANGED ledger
  BY DEF SaveEmpties, Shape, StoreShape, IsOpen, Fields, OthersStay

LEMMA SaveFillsEffect ==
  ASSUME Shape, NEW p \in Stores, SaveFills(p)
  PROVE  /\ DOMAIN store' = Stores /\ OthersStay(p) /\ store[p].pc = "fill" /\ IsOpen(p)
         /\ store[p].then = "shut" => store'[p] = Shut
         /\ store[p].then # "shut" =>
              /\ DOMAIN store'[p] = Fields /\ store'[p].db = store[p].db
              /\ store'[p].pc = store[p].then /\ store'[p].then = store[p].then
              /\ store'[p].report = {} /\ store'[p].base = Whole(store[p].db)
         /\ file' = Whole(store[p].db) /\ lapped' = (lapped \/ file # store[p].base)
         /\ DOMAIN ledger' = DOMAIN ledger \cup store[p].report
         /\ \A k \in DOMAIN ledger' :
              ledger'[k] = IF k \in store[p].report THEN store[p].db.rows[k] ELSE ledger[k]
<1>1. store[p].pc = "fill" /\ IsOpen(p) /\ DOMAIN store[p] = Fields
  BY DEF SaveFills, Shape, StoreShape, IsOpen
<1>2. DOMAIN store' = Stores /\ OthersStay(p)
  BY DEF SaveFills, Shape, OthersStay
<1>3. store[p].then = "shut" => store'[p] = Shut
  BY DEF SaveFills, Shape
<1>4. ASSUME store[p].then # "shut"
      PROVE  store'[p] = [store[p] EXCEPT !.pc = store[p].then, !.base = Whole(store[p].db), !.report = {}]
  BY <1>4 DEF SaveFills, Shape
<1>5. QED
  BY <1>1, <1>2, <1>3, <1>4 DEF SaveFills, Fields

\* Migrate, ListMigrations and Close go on to save.
Continues(p) ==
  /\ DOMAIN store' = Stores /\ OthersStay(p)
  /\ store[p].pc \in {"migrate", "list", "ready"} /\ IsOpen(p)
  /\ DOMAIN store'[p] = Fields /\ IsDatabase(store'[p].db) /\ store'[p].db.rows = store[p].db.rows
  /\ store[p].pc = "migrate" \/ "tables" \in store[p].db.schema => "tables" \in store'[p].db.schema
  /\ ("version" \in store[p].db.schema <=> "tables" \in store[p].db.schema) =>
       ("version" \in store'[p].db.schema <=> "tables" \in store'[p].db.schema)
  /\ store'[p].pc = "empty" /\ store'[p].then \in {"migrate", "list", "ready", "shut"}
  /\ store'[p].report = store[p].report /\ store'[p].base = store[p].base
  /\ UNCHANGED <<file, ledger, lapped>>

LEMMA ContinuesEffect ==
  ASSUME Shape, NEW p \in Stores, Migrate(p) \/ ListMigrations(p) \/ Close(p)
  PROVE  Continues(p)
<1>1. CASE Migrate(p)
  BY <1>1 DEF Migrate, Continues, Shape, StoreShape, IsOpen, Fields, OthersStay, IsDatabase
<1>2. CASE ListMigrations(p)
  BY <1>2 DEF ListMigrations, Continues, Shape, StoreShape, IsOpen, Fields, OthersStay, IsDatabase
<1>3. CASE Close(p)
  BY <1>3 DEF Close, Continues, Shape, StoreShape, IsOpen, Fields, OthersStay, IsDatabase
<1>4. QED
  BY <1>1, <1>2, <1>3

LEMMA WriteEffect ==
  ASSUME Shape, NEW p \in Stores, NEW key \in Keys, NEW row, Write(p, key, row)
  PROVE  /\ DOMAIN store' = Stores /\ OthersStay(p) /\ store[p].pc = "ready" /\ IsOpen(p)
         /\ DOMAIN store'[p] = Fields /\ IsDatabase(store'[p].db)
         /\ store'[p].db.schema = store[p].db.schema
         /\ store'[p].db.rows = Upsert(store[p].db.rows, key, row)
         /\ store'[p].pc = "empty" /\ store'[p].then = "ready"
         /\ store'[p].report = {key} /\ store'[p].base = store[p].base
         /\ UNCHANGED <<file, ledger, lapped>>
<1>1. IsOpen(p) /\ DOMAIN store[p] = Fields /\ DOMAIN store[p].db = {"schema", "rows"}
  BY DEF Write, Shape, StoreShape, IsOpen, IsDatabase
<1> DEFINE db == [store[p].db EXCEPT !.rows = Upsert(store[p].db.rows, key, row)]
<1>2. /\ OthersStay(p) /\ DOMAIN store' = Stores
      /\ store'[p] = [store[p] EXCEPT !.db = db, !.report = {key}, !.pc = "empty", !.then = "ready"]
  BY DEF Write, Shape, OthersStay
<1>3. DOMAIN db = {"schema", "rows"} /\ db.schema = store[p].db.schema
      /\ db.rows = Upsert(store[p].db.rows, key, row)
  BY <1>1
<1> HIDE DEF db
<1>4. QED
  BY <1>1, <1>2, <1>3 DEF Write, Fields, IsDatabase

LEMMA KillEffect ==
  ASSUME Shape, NEW p \in Stores, KillStore(p)
  PROVE  /\ DOMAIN store' = Stores /\ OthersStay(p) /\ store'[p] = Shut /\ IsOpen(p)
         /\ lapped' = (lapped \/ store[p].pc = "fill") /\ UNCHANGED <<file, ledger>>
  BY DEF KillStore, Shape, OthersStay

LEMMA InitShape == StoreInit => Shape
<1>1. StoreInit => file = Missing /\ DOMAIN store = Stores /\ \A p \in Stores : store[p] = Shut
  BY DEF StoreInit
<1>2. Shut.pc = "shut"
  BY DEF Shut
<1>3. QED
  BY <1>1, <1>2 DEF Shape, FileShape, StoreShape, IsOpen

\* The step of one process leaves the shape of the others alone.
LEMMA ShapeOfAll ==
  ASSUME Shape, NEW p \in Stores, FileShape', DOMAIN store' = Stores, OthersStay(p), StoreShape(p)'
  PROVE  Shape'
<1>1. ASSUME NEW q \in Stores \ {p}
      PROVE  StoreShape(q)'
  <2>1. store'[q] = store[q] /\ StoreShape(q)
    BY <1>1 DEF Shape, OthersStay
  <2>2. QED
    BY <2>1 DEF StoreShape, IsOpen
<1>2. QED
  BY <1>1 DEF Shape

LEMMA ShapeStep == Shape /\ [StoreNext]_storeVars => Shape'
<1> SUFFICES ASSUME Shape, [StoreNext]_storeVars
             PROVE  Shape'
  OBVIOUS
<1>1. ASSUME NEW p \in Stores, Open(p)
      PROVE  Shape'
  <2>1. FileShape' /\ StoreShape(p)'
    BY <1>1, OpenEffect DEF Shape, FileShape, StoreShape, IsDatabase
  <2>2. QED
    BY <1>1, <2>1, OpenEffect, ShapeOfAll
<1>2. ASSUME NEW p \in Stores, SaveEmpties(p)
      PROVE  Shape'
  <2>1. FileShape' /\ StoreShape(p)'
    <3>1. StoreShape(p) /\ IsOpen(p)
      BY <1>2, SaveEmptiesEffect DEF Shape
    <3>2. QED
      BY <1>2, <3>1, SaveEmptiesEffect DEF FileShape, StoreShape, IsDatabase
  <2>2. QED
    BY <1>2, <2>1, SaveEmptiesEffect, ShapeOfAll
<1>3. ASSUME NEW p \in Stores, SaveFills(p)
      PROVE  Shape'
  <2>1. FileShape'
    <3>1. file' = [kind |-> "whole", db |-> store[p].db] /\ StoreShape(p) /\ IsOpen(p)
      BY <1>3, SaveFillsEffect DEF Shape, Whole
    <3>2. IsDatabase(store[p].db)
      BY <3>1 DEF StoreShape
    <3>3. file'.kind = "whole" /\ file'.db = store[p].db
      BY <3>1
    <3>4. QED
      BY <3>2, <3>3 DEF FileShape, IsDatabase
  <2>2. StoreShape(p)'
    <3>1. CASE store[p].then = "shut"
      <4>1. store'[p] = Shut /\ Shut.pc = "shut"
        BY <1>3, <3>1, SaveFillsEffect DEF Shut
      <4>2. QED
        BY <4>1 DEF StoreShape, IsOpen
    <3>2. CASE store[p].then # "shut"
      <4>1. StoreShape(p) /\ IsOpen(p)
        BY <1>3, SaveFillsEffect DEF Shape
      <4>2. /\ DOMAIN store'[p] = Fields /\ store'[p].db = store[p].db
            /\ store'[p].then = store[p].then
        BY <1>3, <3>2, SaveFillsEffect
      <4>3. QED
        BY <4>1, <4>2 DEF StoreShape, IsDatabase
    <3>3. QED
      BY <3>1, <3>2
  <2>3. QED
    BY <1>3, <2>1, <2>2, SaveFillsEffect, ShapeOfAll
<1>4. ASSUME NEW p \in Stores, Migrate(p) \/ ListMigrations(p) \/ Close(p)
      PROVE  Shape'
  <2>1. Continues(p)
    BY <1>4, ContinuesEffect
  <2>2. FileShape' /\ StoreShape(p)'
    BY <2>1 DEF Continues, Shape, FileShape, StoreShape
  <2>3. QED
    BY <2>1, <2>2, ShapeOfAll DEF Continues
<1>5. ASSUME NEW p \in Stores, NEW key \in Keys, NEW row \in Rows(key), Write(p, key, row)
      PROVE  Shape'
  <2>1. FileShape' /\ StoreShape(p)'
    BY <1>5, WriteEffect DEF Shape, FileShape, StoreShape
  <2>2. QED
    BY <1>5, <2>1, WriteEffect, ShapeOfAll
<1>6. ASSUME NEW p \in Stores, KillStore(p)
      PROVE  Shape'
  <2>1. FileShape' /\ StoreShape(p)'
    BY <1>6, KillEffect DEF Shape, FileShape, StoreShape, IsOpen, Shut
  <2>2. QED
    BY <1>6, <2>1, KillEffect, ShapeOfAll
<1>7. CASE UNCHANGED storeVars
  BY <1>7 DEF storeVars, Shape, FileShape, StoreShape, IsOpen
<1>8. QED
  BY <1>1, <1>2, <1>3, <1>4, <1>5, <1>6, <1>7 DEF StoreNext

-----------------------------------------------------------------------------
(* Every database is consistent.                                           *)

Consistent(db) ==
  /\ "version" \in db.schema <=> "tables" \in db.schema
  /\ DOMAIN db.rows # {} => "tables" \in db.schema

\* what is past the migration has the tables
MemoryConsistent(p) ==
  IsOpen(p) => /\ Consistent(store[p].db)
               /\ store[p].pc \in {"list", "ready"} \/ store[p].then \in {"list", "ready", "shut"}
                    => "tables" \in store[p].db.schema

\* MigrationAtomic, of the memories as well
Consistency ==
  /\ file.kind = "whole" => Consistent(file.db)
  /\ \A p \in Stores : MemoryConsistent(p)

LEMMA InitConsistency == StoreInit => Consistency
<1>1. StoreInit => file = Missing /\ \A p \in Stores : store[p] = Shut
  BY DEF StoreInit
<1>2. Shut.pc = "shut" /\ Missing.kind # "whole"
  BY DEF Shut, Missing
<1>3. QED
  BY <1>1, <1>2 DEF Consistency, MemoryConsistent, IsOpen

LEMMA OthersConsistent ==
  ASSUME Consistency, NEW p \in Stores, OthersStay(p),
         MemoryConsistent(p)', file'.kind = "whole" => Consistent(file'.db)
  PROVE  Consistency'
<1>1. ASSUME NEW q \in Stores \ {p}
      PROVE  MemoryConsistent(q)'
  <2>1. store'[q] = store[q] /\ MemoryConsistent(q)
    BY <1>1 DEF Consistency, OthersStay
  <2>2. QED
    BY <2>1 DEF MemoryConsistent, Consistent, IsOpen
<1>2. (file.kind = "whole" => Consistent(file.db))'
  BY DEF Consistent
<1>3. QED
  BY <1>1, <1>2 DEF Consistency

LEMMA ConsistencyStep == Shape /\ Consistency /\ [StoreNext]_storeVars => Consistency'
<1> SUFFICES ASSUME Shape, Consistency, [StoreNext]_storeVars
             PROVE  Consistency'
  OBVIOUS
<1>1. ASSUME NEW p \in Stores, Open(p)
      PROVE  Consistency'
  <2>1. MemoryConsistent(p)'
    <3>1. store'[p].pc = "empty" /\ store'[p].then = "migrate"
      BY <1>1, OpenEffect
    <3>2. CASE file.kind = "whole"
      <4>1. Consistent(file.db)
        BY <3>2 DEF Consistency
      <4>2. /\ store'[p].db.rows = file.db.rows
            /\ store'[p].db.schema = file.db.schema \cup {"migrations"}
        BY <1>1, <3>2, OpenEffect
      <4>3. QED
        BY <3>1, <4>1, <4>2 DEF MemoryConsistent, Consistent
    <3>3. CASE file.kind # "whole"
      <4>1. store'[p].db.rows = NoRows /\ store'[p].db.schema = {"migrations"} /\ DOMAIN NoRows = {}
        BY <1>1, <3>3, OpenEffect DEF NoRows
      <4>2. QED
        BY <3>1, <4>1 DEF MemoryConsistent, Consistent
    <3>4. QED
      BY <3>2, <3>3
  <2>2. QED
    BY <1>1, <2>1, OpenEffect, OthersConsistent DEF Consistency
<1>2. ASSUME NEW p \in Stores, SaveEmpties(p)
      PROVE  Consistency'
  <2>1. MemoryConsistent(p) /\ Empty.kind # "whole"
    BY DEF Consistency, Empty
  <2>2. MemoryConsistent(p)'
    BY <1>2, <2>1, SaveEmptiesEffect DEF MemoryConsistent, Consistent
  <2>3. QED
    BY <1>2, <2>1, <2>2, SaveEmptiesEffect, OthersConsistent
<1>3. ASSUME NEW p \in Stores, SaveFills(p)
      PROVE  Consistency'
  <2>1. MemoryConsistent(p) /\ IsOpen(p) /\ StoreShape(p)
    BY <1>3, SaveFillsEffect DEF Consistency, Shape
  <2>2. file'.db = store[p].db
    <3>1. file' = [kind |-> "whole", db |-> store[p].db]
      BY <1>3, SaveFillsEffect DEF Whole
    <3>2. QED
      BY <3>1
  <2>3. MemoryConsistent(p)'
    <3>1. CASE store[p].then = "shut"
      <4>1. store'[p] = Shut /\ Shut.pc = "shut"
        BY <1>3, <3>1, SaveFillsEffect DEF Shut
      <4>2. QED
        BY <4>1 DEF MemoryConsistent, IsOpen
    <3>2. CASE store[p].then # "shut"
      BY <1>3, <2>1, <3>2, SaveFillsEffect DEF MemoryConsistent, Consistent
    <3>3. QED
      BY <3>1, <3>2
  <2>4. Consistent(file'.db)
    BY <2>1, <2>2 DEF MemoryConsistent, Consistent
  <2>5. QED
    BY <1>3, <2>3, <2>4, SaveFillsEffect, OthersConsistent
<1>4. ASSUME NEW p \in Stores, Migrate(p) \/ ListMigrations(p) \/ Close(p)
      PROVE  Consistency'
  <2>1. Continues(p)
    BY <1>4, ContinuesEffect
  <2>2. MemoryConsistent(p)
    BY DEF Consistency
  <2>3. MemoryConsistent(p)'
    BY <2>1, <2>2 DEF Continues, MemoryConsistent, Consistent
  <2>4. QED
    BY <2>1, <2>3, OthersConsistent DEF Continues, Consistency
<1>5. ASSUME NEW p \in Stores, NEW key \in Keys, NEW row \in Rows(key), Write(p, key, row)
      PROVE  Consistency'
  <2>1. MemoryConsistent(p) /\ "tables" \in store[p].db.schema
    BY <1>5, WriteEffect DEF Consistency, MemoryConsistent
  <2>2. MemoryConsistent(p)'
    BY <1>5, <2>1, WriteEffect DEF MemoryConsistent, Consistent
  <2>3. QED
    BY <1>5, <2>2, WriteEffect, OthersConsistent DEF Consistency
<1>6. ASSUME NEW p \in Stores, KillStore(p)
      PROVE  Consistency'
  <2>1. Shut.pc = "shut"
    BY DEF Shut
  <2>2. MemoryConsistent(p)'
    BY <1>6, <2>1, KillEffect DEF MemoryConsistent, IsOpen
  <2>3. QED
    BY <1>6, <2>2, KillEffect, OthersConsistent DEF Consistency
<1>7. CASE UNCHANGED storeVars
  BY <1>7 DEF storeVars, Consistency, MemoryConsistent, Consistent, IsOpen
<1>8. QED
  BY <1>1, <1>2, <1>3, <1>4, <1>5, <1>6, <1>7 DEF StoreNext

\* No file is half migrated, whichever processes open it, are killed or save over
\* each other (migrations.js, applyMigrations; index.js, transaction).
THEOREM StoreMigrates == StoreSpec => []MigrationAtomic
<1>1. Consistency => MigrationAtomic
  BY DEF Consistency, Consistent, MigrationAtomic
<1>2. QED
  BY <1>1, InitShape, ShapeStep, InitConsistency, ConsistencyStep, PTL DEF StoreSpec

-----------------------------------------------------------------------------
(* What was reported as written stays.                                     *)

\* the memory of p has the rows, but for those it is about to report
Holds(p, rows) ==
  \A k \in DOMAIN rows : /\ k \in DOMAIN store[p].db.rows
                         /\ k \in store[p].report \/ store[p].db.rows[k] = rows[k]

Filling == {p \in Stores : store[p].pc = "fill"}

\* what the memory of p is to its base, and to the ledger while it fills the file
MemoryFaithful(p) ==
  IsOpen(p) =>
    /\ store[p].base.kind = "whole" => Holds(p, store[p].base.db.rows)
    /\ store[p].report \subseteq DOMAIN store[p].db.rows
    /\ store[p].pc \in {"migrate", "list", "ready"} => store[p].report = {}
    /\ store[p].base = Missing \/ store[p].base = Empty \/ store[p].base.kind = "whole"
    /\ ~lapped => /\ store[p].pc = "fill" => file = Empty /\ Holds(p, ledger)
                  /\ store[p].pc # "fill" => store[p].base # Empty

\* RowsSurvive, with what makes up for an empty file
Survival ==
  /\ file = Missing => DOMAIN ledger = {}
  /\ RowsSurvive
  /\ ~lapped /\ file = Empty => Filling # {}
  /\ ~lapped => \A p, q \in Filling : p = q
  /\ \A p \in Stores : MemoryFaithful(p)

LEMMA Kinds == Missing # Empty /\ Missing.kind # "whole" /\ Empty.kind # "whole" /\ Shut.pc = "shut"
  BY DEF Missing, Empty, Shut

LEMMA InitSurvival == StoreInit => Survival
<1> SUFFICES ASSUME StoreInit
             PROVE  Survival
  OBVIOUS
<1>1. file = Missing /\ ledger = NoRows /\ \A p \in Stores : store[p] = Shut
  BY DEF StoreInit
<1>2. DOMAIN NoRows = {} /\ Filling = {}
  BY <1>1, Kinds DEF NoRows, Filling
<1>3. \A p \in Stores : MemoryFaithful(p)
  BY <1>1, Kinds DEF MemoryFaithful, IsOpen
<1>4. QED
  BY <1>1, <1>2, <1>3, Kinds DEF Survival, RowsSurvive

\* A step that leaves the file and the ledger alone, or that makes the file empty
\* or fills it with no other process at it, leaves another process faithful.
LEMMA OtherFaithful ==
  ASSUME NEW p \in Stores, NEW q \in Stores \ {p}, OthersStay(p), MemoryFaithful(q), ~lapped' => ~lapped,
         (file' = file /\ ledger' = ledger) \/ (~lapped' => store[q].pc # "fill")
  PROVE  MemoryFaithful(q)'
<1>1. store'[q] = store[q]
  BY DEF OthersStay
<1>2. CASE ~IsOpen(q)
  BY <1>1, <1>2 DEF MemoryFaithful, IsOpen
<1>3. CASE IsOpen(q)
  <2>1. /\ store[q].base.kind = "whole" => Holds(q, store[q].base.db.rows)'
        /\ store[q].report \subseteq DOMAIN store[q].db.rows
        /\ store[q].pc \in {"migrate", "list", "ready"} => store[q].report = {}
        /\ store[q].base = Missing \/ store[q].base = Empty \/ store[q].base.kind = "whole"
    BY <1>1, <1>3 DEF MemoryFaithful, Holds
  <2>2. ASSUME ~lapped', store[q].pc = "fill"
        PROVE  file' = Empty /\ Holds(q, ledger)'
    BY <1>1, <1>3, <2>2 DEF MemoryFaithful, Holds
  <2>3. ~lapped' /\ store[q].pc # "fill" => store[q].base # Empty
    BY <1>3 DEF MemoryFaithful
  <2>4. QED
    BY <1>1, <2>1, <2>2, <2>3 DEF MemoryFaithful
<1>4. QED
  BY <1>2, <1>3

\* Opening reads the file, so that the memory is faithful to it.
LEMMA SurvivalOpen ==
  ASSUME Shape, Survival, NEW p \in Stores, Open(p)
  PROVE  Survival'
<1>1. /\ OthersStay(p) /\ ~IsOpen(p) /\ store'[p].pc = "empty" /\ store'[p].report = {}
      /\ store'[p].base = file /\ file' = file /\ ledger' = ledger
      /\ file.kind = "whole" => store'[p].db.rows = file.db.rows
      /\ lapped' = (lapped \/ file = Empty)
  BY OpenEffect
<1>2. \A q \in Stores \ {p} : MemoryFaithful(q)'
  BY <1>1, OtherFaithful DEF Survival
<1>3. MemoryFaithful(p)'
  <2>1. file.kind = "whole" => Holds(p, file.db.rows)'
    BY <1>1 DEF Holds
  <2>2. file = Missing \/ file = Empty \/ file.kind = "whole"
    BY DEF Shape, FileShape
  <2>3. /\ store'[p].base.kind = "whole" => Holds(p, store[p].base.db.rows)'
        /\ ~lapped' => store'[p].base # Empty
    BY <1>1, <2>1 DEF Holds
  <2>4. QED
    BY <1>1, <2>2, <2>3 DEF MemoryFaithful
<1>4. Filling' = Filling
  BY <1>1 DEF Filling, OthersStay, IsOpen
<1>5. QED
  BY <1>1, <1>2, <1>3, <1>4 DEF Survival, RowsSurvive

\* A save empties only the file its memory was made from: nobody else fills it.
LEMMA SurvivalSaveEmpties ==
  ASSUME Shape, Survival, NEW p \in Stores, SaveEmpties(p)
  PROVE  Survival'
<1>1. /\ OthersStay(p) /\ store[p].pc = "empty" /\ IsOpen(p) /\ store'[p].pc = "fill"
      /\ store'[p].db = store[p].db /\ store'[p].report = store[p].report /\ store'[p].base = Empty
      /\ file' = Empty /\ ledger' = ledger /\ lapped' = (lapped \/ file # store[p].base)
  BY SaveEmptiesEffect
<1>2. ASSUME ~lapped'
      PROVE  ~lapped /\ file = store[p].base /\ file # Empty /\ Filling = {}
  <2>1. ~lapped /\ file = store[p].base
    BY <1>1, <1>2
  <2>2. file # Empty
    BY <1>1, <2>1 DEF Survival, MemoryFaithful
  <2>3. ASSUME NEW q \in Filling
        PROVE  FALSE
    <3>1. IsOpen(q) /\ store[q].pc = "fill" /\ MemoryFaithful(q)
      BY <2>3 DEF Filling, IsOpen, Survival
    <3>2. QED
      BY <2>1, <2>2, <3>1 DEF MemoryFaithful
  <2>4. QED
    BY <2>1, <2>2, <2>3
<1>3. \A q \in Stores \ {p} : MemoryFaithful(q)'
  <2>1. ASSUME NEW q \in Stores \ {p}
        PROVE  MemoryFaithful(q)'
    <3>1. (~lapped' => ~lapped /\ store[q].pc # "fill") /\ MemoryFaithful(q)
      BY <1>2 DEF Filling, Survival
    <3>2. QED
      BY <1>1, <3>1, OtherFaithful
  <2>2. QED
    BY <2>1
<1>4. MemoryFaithful(p)'
  <2>1. ASSUME ~lapped'
        PROVE  Holds(p, ledger)
    <3>1. file = Missing \/ file.kind = "whole"
      BY <1>2, <2>1 DEF Shape, FileShape
    <3>2. CASE file = Missing
      BY <3>2 DEF Survival, Holds
    <3>3. CASE file.kind = "whole"
      <4>1. \A k \in DOMAIN ledger : k \in DOMAIN file.db.rows /\ file.db.rows[k] = ledger[k]
        BY <1>2, <2>1, <3>3 DEF Survival, RowsSurvive
      <4>2. Holds(p, file.db.rows)
        BY <1>1, <1>2, <2>1, <3>3 DEF Survival, MemoryFaithful
      <4>3. QED
        BY <4>1, <4>2 DEF Holds
    <3>4. QED
      BY <3>1, <3>2, <3>3
  <2>2. ~lapped' => Holds(p, ledger)'
    BY <1>1, <2>1 DEF Holds
  <2>3. store[p].report \subseteq DOMAIN store[p].db.rows
    BY <1>1 DEF Survival, MemoryFaithful
  <2>4. QED
    BY <1>1, <2>2, <2>3, Kinds DEF MemoryFaithful
<1>5. ~lapped' => Filling' = {p}
  BY <1>1, <1>2 DEF Filling, OthersStay
<1>6. QED
  BY <1>1, <1>3, <1>4, <1>5, Kinds DEF Survival, RowsSurvive

\* What is filled in has the rows of the ledger and those that are reported now.
LEMMA SurvivalSaveFills ==
  ASSUME Shape, Survival, NEW p \in Stores, SaveFills(p)
  PROVE  Survival'
<1> DEFINE db == store[p].db
           report == store[p].report
<1>1. /\ OthersStay(p) /\ store[p].pc = "fill" /\ IsOpen(p) /\ p \in Filling
      /\ lapped' = (lapped \/ file # store[p].base)
      /\ DOMAIN ledger' = DOMAIN ledger \cup report
      /\ \A k \in DOMAIN ledger' : ledger'[k] = IF k \in report THEN db.rows[k] ELSE ledger[k]
  BY SaveFillsEffect DEF Filling
<1>2. file'.kind = "whole" /\ file'.db = db /\ file' # Missing /\ file' # Empty /\ file' = Whole(db)
  <2>1. file' = [kind |-> "whole", db |-> db] /\ file' = Whole(db)
    BY SaveFillsEffect DEF Whole
  <2>2. QED
    BY <2>1, Kinds
<1>3. \A q \in Stores \ {p} : MemoryFaithful(q)'
  <2>1. ASSUME NEW q \in Stores \ {p}
        PROVE  MemoryFaithful(q)'
    <3>1. (~lapped' => ~lapped /\ store[q].pc # "fill") /\ MemoryFaithful(q)
      BY <1>1 DEF Filling, Survival
    <3>2. QED
      BY <1>1, <3>1, OtherFaithful
  <2>2. QED
    BY <2>1
<1>4. MemoryFaithful(p)'
  <2>1. CASE store[p].then = "shut"
    <3>1. store'[p] = Shut
      BY <2>1, SaveFillsEffect
    <3>2. QED
      BY <3>1, Kinds DEF MemoryFaithful, IsOpen
  <2>2. CASE store[p].then # "shut"
    <3>1. /\ store'[p].db = db /\ store'[p].pc = store[p].then /\ store'[p].pc # "fill"
          /\ store'[p].report = {} /\ store'[p].base = file'
      BY <1>1, <2>2, SaveFillsEffect DEF Shape, StoreShape
    <3>2. Holds(p, store[p].base.db.rows)'
      BY <1>2, <3>1 DEF Holds
    <3>3. QED
      BY <1>2, <3>1, <3>2 DEF MemoryFaithful
  <2>3. QED
    BY <2>1, <2>2
<1>5. RowsSurvive'
  <2>1. ASSUME ~lapped', NEW k \in DOMAIN ledger'
        PROVE  k \in DOMAIN db.rows /\ db.rows[k] = ledger'[k]
    <3>1. Holds(p, ledger) /\ report \subseteq DOMAIN db.rows
      BY <1>1, <2>1 DEF Survival, MemoryFaithful
    <3>2. CASE k \in report
      BY <1>1, <2>1, <3>1, <3>2
    <3>3. CASE k \notin report
      BY <1>1, <2>1, <3>1, <3>3 DEF Holds
    <3>4. QED
      BY <3>2, <3>3
  <2>2. QED
    BY <1>2, <2>1 DEF RowsSurvive
<1>6. ~lapped' => Filling' = {}
  <2>1. store'[p].pc # "fill"
    BY <1>1, SaveFillsEffect, Kinds DEF Shape, StoreShape
  <2>2. QED
    <3>1. ASSUME ~lapped', NEW q \in Stores \ {p}
          PROVE  store'[q].pc # "fill"
      <4>1. q \notin Filling
        BY <1>1, <3>1 DEF Survival
      <4>2. QED
        BY <1>1, <4>1 DEF Filling, OthersStay
    <3>2. QED
      BY <2>1, <3>1 DEF Filling
<1>7. QED
  BY <1>2, <1>3, <1>4, <1>5, <1>6 DEF Survival

LEMMA SurvivalContinues ==
  ASSUME Survival, NEW p \in Stores, Continues(p)
  PROVE  Survival'
<1>1. \A q \in Stores \ {p} : MemoryFaithful(q)'
  BY OtherFaithful DEF Survival, Continues
<1>2. MemoryFaithful(p)'
  <2>1. MemoryFaithful(p) /\ IsOpen(p) /\ store[p].pc # "fill"
    BY DEF Survival, Continues
  <2>2. store[p].base.kind = "whole" => Holds(p, store[p].base.db.rows)'
    BY <2>1 DEF MemoryFaithful, Holds, Continues
  <2>3. QED
    BY <2>1, <2>2 DEF MemoryFaithful, Continues, Holds
<1>3. Filling' = Filling
  BY DEF Filling, Continues, OthersStay
<1>4. QED
  BY <1>1, <1>2, <1>3 DEF Survival, RowsSurvive, Continues

\* A write changes the row it is going to report, and no other.
LEMMA SurvivalWrite ==
  ASSUME Shape, Survival, NEW p \in Stores, NEW key \in Keys, NEW row, Write(p, key, row)
  PROVE  Survival'
<1>1. /\ OthersStay(p) /\ store[p].pc = "ready" /\ IsOpen(p) /\ store'[p].pc = "empty"
      /\ store'[p].db.rows = Upsert(store[p].db.rows, key, row)
      /\ store'[p].report = {key} /\ store'[p].base = store[p].base
      /\ file' = file /\ ledger' = ledger /\ lapped' = lapped
  BY WriteEffect
<1>2. \A q \in Stores \ {p} : MemoryFaithful(q)'
  BY <1>1, OtherFaithful DEF Survival
<1>3. MemoryFaithful(p)'
  <2>1. MemoryFaithful(p) /\ store[p].report = {}
    BY <1>1 DEF Survival, MemoryFaithful
  <2>2. /\ DOMAIN store'[p].db.rows = DOMAIN store[p].db.rows \cup {key}
        /\ \A k \in DOMAIN store[p].db.rows \ {key} : store'[p].db.rows[k] = store[p].db.rows[k]
    BY <1>1 DEF Upsert
  <2>3. store[p].base.kind = "whole" => Holds(p, store[p].base.db.rows)'
    BY <1>1, <2>1, <2>2 DEF MemoryFaithful, Holds
  <2>4. QED
    BY <1>1, <2>1, <2>2, <2>3 DEF MemoryFaithful, Holds
<1>4. Filling' = Filling
  BY <1>1 DEF Filling, OthersStay
<1>5. QED
  BY <1>1, <1>2, <1>3, <1>4 DEF Survival, RowsSurvive

\* A process killed while it fills the file leaves it lapped.
LEMMA SurvivalKill ==
  ASSUME Shape, Survival, NEW p \in Stores, KillStore(p)
  PROVE  Survival'
<1>1. /\ OthersStay(p) /\ store'[p] = Shut /\ lapped' = (lapped \/ store[p].pc = "fill")
      /\ file' = file /\ ledger' = ledger
  BY KillEffect
<1>2. \A q \in Stores \ {p} : MemoryFaithful(q)'
  BY <1>1, OtherFaithful DEF Survival
<1>3. MemoryFaithful(p)'
  BY <1>1, Kinds DEF MemoryFaithful, IsOpen
<1>4. ~lapped' => Filling' = Filling
  BY <1>1, Kinds DEF Filling, OthersStay
<1>5. QED
  BY <1>1, <1>2, <1>3, <1>4 DEF Survival, RowsSurvive

LEMMA SurvivalStep == Shape /\ Survival /\ [StoreNext]_storeVars => Survival'
<1> SUFFICES ASSUME Shape, Survival, [StoreNext]_storeVars
             PROVE  Survival'
  OBVIOUS
<1>1. CASE UNCHANGED storeVars
  BY <1>1 DEF storeVars, Survival, RowsSurvive, Filling, MemoryFaithful, Holds, IsOpen
<1>2. ASSUME NEW p \in Stores, Migrate(p) \/ ListMigrations(p) \/ Close(p)
      PROVE  Survival'
  BY <1>2, ContinuesEffect, SurvivalContinues
<1>3. QED
  BY <1>1, <1>2, SurvivalOpen, SurvivalSaveEmpties, SurvivalSaveFills, SurvivalWrite, SurvivalKill DEF StoreNext

\* What a store reported as written is in every whole file from then on, as long
\* as no save lapped another (index.js, saveToDisk).
THEOREM ReportedRowsSurvive == StoreSpec => []RowsSurvive
<1>1. Survival => RowsSurvive
  BY DEF Survival
<1>2. QED
  BY <1>1, InitShape, ShapeStep, InitSurvival, SurvivalStep, PTL DEF StoreSpec

-----------------------------------------------------------------------------
(* Greatest members.                                                       *)

LEMMA LeastNumber ==
  ASSUME NEW S \in SUBSET Nat, S # {}
  PROVE  \E x \in S : \A y \in S : x <= y
<1> DEFINE R == OpToRel(<, Nat)
<1>1. IsWellFoundedOn(R, Nat)
  BY NatLessThanWellFounded
<1>2. \A x, y \in Nat : x < y => <<x, y>> \in R
  BY DEF OpToRel
<1> HIDE DEF R
<1>3. PICK x \in S : \A y \in S : ~(<<y, x>> \in R)
  BY <1>1, WFMin
<1>4. \A y \in S : ~(y < x)
  BY <1>2, <1>3
<1>5. \A y \in S : x <= y
  BY <1>4
<1> QED
  BY <1>5

\* A finite set of numbers has a greatest member: a smallest one without would
\* lack one after a member is taken away, too.
LEMMA FiniteMax ==
  ASSUME NEW S \in SUBSET Nat, IsFiniteSet(S), S # {}
  PROVE  Max(S) \in S /\ \A y \in S : Max(S) >= y
<1> DEFINE Topped(T) == \E x \in T : \A y \in T : x >= y
           Sizes == {n \in Nat : \E T \in SUBSET S : T # {} /\ ~Topped(T) /\ Cardinality(T) = n}
<1>1. SUFFICES ASSUME ~Topped(S) PROVE FALSE
  BY DEF Max
<1>2. \A T \in SUBSET S : IsFiniteSet(T) /\ Cardinality(T) \in Nat
  BY FS_Subset, FS_CardinalityType
<1>3. Sizes \in SUBSET Nat /\ Sizes # {}
  BY <1>1, <1>2
<1>4. PICK n \in Sizes : \A m \in Sizes : n <= m
  BY <1>3, LeastNumber
<1>5. PICK T \in SUBSET S : T # {} /\ ~Topped(T) /\ Cardinality(T) = n
  BY <1>4
<1>6. PICK x : x \in T
  BY <1>5
<1>7. Cardinality(T \ {x}) = n - 1 /\ n - 1 \in Nat
  <2>1. IsFiniteSet(T)
    BY <1>2
  <2>2. Cardinality(T \ {x}) = Cardinality(T) - 1
    BY <2>1, <1>6, FS_RemoveElement
  <2>3. Cardinality(T \ {x}) \in Nat
    BY <1>2
  <2>4. QED
    BY <2>2, <2>3, <1>5
<1>8. T \ {x} # {}
  BY <1>5, <1>6
<1>9. n - 1 \notin Sizes
  BY <1>4, <1>7
<1>10. Topped(T \ {x})
  BY <1>7, <1>8, <1>9
<1>11. PICK m \in T \ {x} : \A y \in T \ {x} : m >= y
  BY <1>10
<1>12. (\A y \in T : m >= y) \/ (\A y \in T : x >= y)
  BY <1>6, <1>11
<1>13. QED
  BY <1>5, <1>6, <1>11, <1>12

-----------------------------------------------------------------------------
(* The versions of a skill and their history.                              *)

AllTexts == Texts \cup {Blank, FirstText} \cup {FirstVersions[n] : n \in DOMAIN FirstVersions}

Told == {"snapshot", "rollback"}
Entries == [event : Told \cup {"proposal", "cut", "glued"}, version : Nat, target : Nat, source : Nat]

Working == [pc : {"empty", "restore", "number", "copy", "snapshot", "fill", "log", "rollback"},
            target : Nat, source : Nat, text : AllTexts, version : Nat, copy : AllTexts]

VersionTypes ==
  /\ skill \in AllTexts
  /\ DOMAIN versions \subseteq Nat \ {0} /\ IsFiniteSet(DOMAIN versions)
  /\ versions \in [DOMAIN versions -> AllTexts]
  /\ log \in Seq(Entries)
  /\ evolver \in [Evolvers -> Working \cup {Resting}]

Names(entry, n) == entry.event \in Told /\ entry.version = n

\* what may stand for the record of the version of a rollback
Announces(entry, n) == \/ entry.event = "snapshot" /\ entry.version = n
                       \/ entry.event = "glued"

\* What an evolver that is at work knows of the numbers it works with: its own
\* number is new until it writes it, unless another evolver chose it as well,
\* and has the text rolled back to from when it was copied.
Sound(e) ==
  LET w == evolver[e] IN
  w.pc # "idle" =>
    /\ w.pc \in {"fill", "log", "rollback"} => w.version \in DOMAIN versions
    /\ w.pc \in {"copy", "snapshot"} /\ w.version \in DOMAIN versions => w.version \in mixed
    /\ w.pc \in {"copy", "snapshot", "fill", "log"} =>
         \A i \in DOMAIN log : Names(log[i], w.version) => w.version \in mixed
    /\ w.pc = "rollback" => \E i \in DOMAIN log : Announces(log[i], w.version)
    /\ w.pc \in {"copy", "snapshot", "fill", "log", "rollback"} => w.version > 0
    /\ w.target > 0 =>
         /\ w.target \in DOMAIN versions
         /\ w.target \in mixed \/ versions[w.target] = w.text
         /\ w.pc = "copy" => w.version \in mixed \/ skill = w.text
         /\ w.pc \in {"snapshot", "fill"} => w.version \in mixed \/ w.copy = w.text
         /\ w.pc \in {"log", "rollback"} => w.version \in mixed \/ versions[w.version] = w.text

\* A number that two evolvers work with is one they both chose.
Apart ==
  \A e, f \in Taking : e # f /\ evolver[e].version = evolver[f].version => evolver[e].version \in mixed

\* Nothing is rolled back to a version that is half written.
TargetsWhole ==
  \A n \in HalfWritten \ mixed :
    /\ \A e \in Evolvers : evolver[e].pc # "idle" => evolver[e].target # n
    /\ \A i \in DOMAIN log : log[i].target # n

\* What a rollback led to has the text of what it led back to.
RollbacksTrue ==
  \A i \in DOMAIN log : log[i].target > 0 =>
    /\ log[i].target \in DOMAIN versions
    /\ \/ {log[i].version, log[i].target} \cap mixed # {}
       \/ versions[log[i].version] = versions[log[i].target]

OthersNameNothing == \A i \in DOMAIN log : log[i].event \notin Told => log[i].target = 0 /\ log[i].version = 0

LogTrue == LogDescribesVersions /\ RollbacksTrue /\ OthersNameNothing

HistoryInv ==
  /\ VersionTypes
  /\ \A e \in Evolvers : Sound(e)
  /\ Apart
  /\ TargetsWhole
  /\ LogTrue

\* An evolver that rests stays sound while numbers get mixed up, versions are
\* added and the log grows by what is not its own.
LEMMA OtherSound ==
  ASSUME NEW e \in Evolvers, Sound(e), evolver'[e] = evolver[e],
         DOMAIN versions \subseteq DOMAIN versions', mixed \subseteq mixed',
         evolver[e].pc # "idle" /\ evolver[e].target > 0 =>
           versions'[evolver[e].target] = versions[evolver[e].target] \/ evolver[e].target \in mixed',
         evolver[e].pc \in {"log", "rollback"} =>
           versions'[evolver[e].version] = versions[evolver[e].version] \/ evolver[e].version \in mixed',
         skill' = skill \/ (evolver[e].pc = "copy" => evolver[e].version \in mixed'),
         evolver[e].pc \in {"copy", "snapshot"} /\ evolver[e].version \in DOMAIN versions' \ DOMAIN versions
           => evolver[e].version \in mixed',
         \A i \in DOMAIN log : log[i].event # "cut" => i \in DOMAIN log' /\ log'[i] = log[i],
         evolver[e].pc \in {"copy", "snapshot", "fill", "log"} =>
           \A i \in DOMAIN log' : \/ i \in DOMAIN log /\ log'[i] = log[i]
                                  \/ Names(log'[i], evolver[e].version) => evolver[e].version \in mixed'
  PROVE  Sound(e)'
<1>1. CASE evolver[e].pc = "idle"
  BY <1>1 DEF Sound
<1>2. CASE evolver[e].pc # "idle"
  <2>1. evolver[e].pc = "rollback" => \E i \in DOMAIN log' : Announces(log'[i], evolver[e].version)
    BY <1>2 DEF Sound, Announces
  <2>2. evolver[e].pc \in {"copy", "snapshot", "fill", "log"} =>
          \A i \in DOMAIN log' : Names(log'[i], evolver[e].version) => evolver[e].version \in mixed'
    BY <1>2 DEF Sound
  <2>3. QED
    BY <1>2, <2>1, <2>2 DEF Sound
<1>3. QED
  BY <1>1, <1>2

\* It does so in particular while the versions and the log are left alone.
LEMMA StillSound ==
  ASSUME NEW e \in Evolvers, Sound(e), evolver'[e] = evolver[e], versions' = versions, log' = log,
         mixed \subseteq mixed', skill' = skill \/ (evolver[e].pc = "copy" => evolver[e].version \in mixed')
  PROVE  Sound(e)'
BY OtherSound

\* Targets stay whole while none that is half written is made one.
LEMMA WholeStays ==
  ASSUME TargetsWhole, HalfWritten' \subseteq HalfWritten, mixed \subseteq mixed',
         \A e \in Evolvers : evolver'[e].pc # "idle" =>
           \/ evolver[e].pc # "idle" /\ evolver'[e].target = evolver[e].target
           \/ evolver'[e].target \notin HalfWritten \ mixed',
         \A i \in DOMAIN log' : \/ i \in DOMAIN log /\ log'[i] = log[i]
                                \/ log'[i].target \notin HalfWritten \ mixed'
  PROVE  TargetsWhole'
<1>1. SUFFICES ASSUME NEW n \in HalfWritten' \ mixed'
               PROVE  /\ \A e \in Evolvers : evolver'[e].pc # "idle" => evolver'[e].target # n
                      /\ \A i \in DOMAIN log' : log'[i].target # n
  BY DEF TargetsWhole
<1>2. n \in HalfWritten \ mixed /\ n \in HalfWritten \ mixed'
  BY <1>1
<1>3. QED
  BY <1>2 DEF TargetsWhole

\* What is half written when one evolver has moved on to where it fills nothing.
LEMMA HalfShrinks ==
  ASSUME NEW e \in Evolvers, \A f \in Evolvers \ {e} : evolver'[f] = evolver[f], evolver'[e].pc # "fill"
  PROVE  HalfWritten' \subseteq HalfWritten
BY DEF HalfWritten

LEMMA NoneHalfWritten ==
  ASSUME HistoryInv
  PROVE  0 \notin HalfWritten
<1>1. ASSUME NEW e \in Evolvers, evolver[e].pc = "fill"
      PROVE  evolver[e].version # 0
  BY <1>1 DEF HistoryInv, Sound
<1>2. QED
  BY <1>1 DEF HalfWritten

\* The log and what it says stay true while versions are added and numbers get
\* mixed up.
LEMMA LogStays ==
  ASSUME LogTrue, log' = log,
         DOMAIN versions \subseteq DOMAIN versions', mixed \subseteq mixed',
         \A i \in DOMAIN log : log[i].target > 0 =>
           \A n \in {log[i].version, log[i].target} : versions'[n] = versions[n] \/ n \in mixed'
  PROVE  LogTrue'
<1>1. LogDescribesVersions'
  BY DEF LogTrue, LogDescribesVersions
<1>2. RollbacksTrue'
  BY DEF LogTrue, RollbacksTrue
<1>3. OthersNameNothing'
  BY DEF LogTrue, OthersNameNothing
<1>4. QED
  BY <1>1, <1>2, <1>3 DEF LogTrue

LEMMA NextIsNew ==
  ASSUME VersionTypes
  PROVE  NextVersion \in Nat \ {0} /\ NextVersion \notin DOMAIN versions /\ CurrentVersion \in Nat
<1>1. CASE DOMAIN versions = {}
  BY <1>1 DEF NextVersion, Latest, CurrentVersion
<1>2. CASE DOMAIN versions # {}
  <2>1. DOMAIN versions \in SUBSET Nat /\ IsFiniteSet(DOMAIN versions)
    BY DEF VersionTypes
  <2>2. PICK m : m = Max(DOMAIN versions)
    OBVIOUS
  <2>3. m \in DOMAIN versions /\ \A n \in DOMAIN versions : m >= n
    BY <1>2, <2>1, <2>2, FiniteMax
  <2>4. NextVersion = m + 1 /\ CurrentVersion = m
    BY <1>2, <2>2 DEF NextVersion, Latest, CurrentVersion
  <2>5. QED
    BY <2>1, <2>3, <2>4
<1>3. QED
  BY <1>1, <1>2

LEMMA CutsAndGlue ==
  /\ Cut \in Entries /\ Cut.event = "cut" /\ Cut.target = 0 /\ Cut.version = 0
  /\ Glued \in Entries /\ Glued.event = "glued" /\ Glued.target = 0 /\ Glued.version = 0
<1>1. Glued = [event |-> "glued", version |-> 0, target |-> 0, source |-> 0]
  BY DEF Cut, Glued
<1>2. QED
  BY <1>1 DEF Cut, Entries, Told

\* The log with its last line, which is an entry or glued to one that was cut off.
EndsWith(last, line) ==
  /\ log' \in Seq(Entries) /\ last \in Nat \ {0}
  /\ DOMAIN log' = 1..last /\ log'[last] = line
  /\ DOMAIN log = 1..(last - 1) \/ (DOMAIN log = 1..last /\ log[last].event = "cut")
  /\ \A i \in 1..(last - 1) : log'[i] = log[i]

LEMMA LogGrows ==
  ASSUME log \in Seq(Entries), NEW entry \in Entries, Logged(entry)
  PROVE  \E last, line : line \in {entry, Glued} /\ line \in Entries /\ EndsWith(last, line)
<1>1. Len(log) \in Nat /\ DOMAIN log = 1..Len(log) /\ (log # <<>> => Len(log) > 0)
  BY LenProperties, EmptySeq
<1>2. CASE log # <<>> /\ log[Len(log)].event = "cut"
  <2>1. PICK line : line = IF entry = Cut THEN Cut ELSE Glued
    OBVIOUS
  <2>2. line \in {entry, Glued} /\ line \in Entries
    BY <2>1, CutsAndGlue
  <2>3. log' = [log EXCEPT ![Len(log)] = line]
    BY <1>2, <2>1 DEF Logged
  <2>4. log' \in Seq(Entries) /\ DOMAIN log' = DOMAIN log
    BY <1>1, <1>2, <2>2, <2>3, ExceptSeq
  <2>5. PICK last : last = Len(log)
    OBVIOUS
  <2>6. /\ last \in Nat \ {0} /\ last \in DOMAIN log /\ DOMAIN log = 1..last
        /\ log' = [log EXCEPT ![last] = line] /\ log[last].event = "cut"
    BY <1>1, <1>2, <2>3, <2>5
  <2>7. log'[last] = line /\ \A i \in 1..(last - 1) : log'[i] = log[i]
    BY <2>6
  <2>8. EndsWith(last, line)
    BY <2>4, <2>6, <2>7 DEF EndsWith
  <2>9. QED
    BY <2>2, <2>8
<1>3. CASE ~ (log # <<>> /\ log[Len(log)].event = "cut")
  <2>1. log' = Append(log, entry)
    BY <1>3 DEF Logged
  <2>2. EndsWith(Len(log) + 1, entry)
    BY <1>1, <2>1, AppendProperties DEF EndsWith
  <2>3. QED
    BY <2>2
<1>4. QED
  BY <1>2, <1>3

\* What the end of the log means for what was there.
LEMMA EndKeeps ==
  ASSUME NEW last, NEW line, EndsWith(last, line)
  PROVE  /\ \A i \in DOMAIN log : log[i].event # "cut" => i \in DOMAIN log' /\ log'[i] = log[i]
         /\ \A i \in DOMAIN log' : \/ i \in DOMAIN log /\ log'[i] = log[i]
                                   \/ i = last /\ log'[i] = line
BY DEF EndsWith

\* Numbers stay apart when one evolver moves to a number that is its own, or is
\* known to be shared.
LEMMA StaysApart ==
  ASSUME Apart, mixed \subseteq mixed', NEW e \in Evolvers,
         \A f \in Evolvers \ {e} : evolver'[f] = evolver[f],
         evolver'[e].pc \in {"copy", "snapshot", "fill", "log", "rollback"} =>
           \A f \in Taking \ {e} : evolver[f].version = evolver'[e].version => evolver'[e].version \in mixed'
  PROVE  Apart'
<1>1. SUFFICES ASSUME NEW f \in Taking', NEW g \in Taking', f # g, evolver'[f].version = evolver'[g].version
               PROVE  evolver'[f].version \in mixed'
  BY DEF Apart
<1>2. f \in Evolvers /\ g \in Evolvers
  BY DEF Taking
<1>3. CASE f # e /\ g # e
  <2>1. f \in Taking /\ g \in Taking
    BY <1>2, <1>3 DEF Taking
  <2>2. QED
    BY <1>1, <1>2, <1>3, <2>1 DEF Apart
<1>4. CASE f = e
  <2>1. g \in Taking \ {e} /\ evolver'[e].pc \in {"copy", "snapshot", "fill", "log", "rollback"}
    BY <1>1, <1>2, <1>4 DEF Taking
  <2>2. QED
    BY <1>1, <1>2, <1>4, <2>1
<1>5. CASE g = e
  <2>1. f \in Taking \ {e} /\ evolver'[e].pc \in {"copy", "snapshot", "fill", "log", "rollback"}
    BY <1>1, <1>2, <1>5 DEF Taking
  <2>2. QED
    BY <1>1, <1>2, <1>5, <2>1
<1>6. QED
  BY <1>3, <1>4, <1>5

\* An evolver that goes on with the number it has stays apart.
LEMMA GoesOnApart ==
  ASSUME Apart, mixed \subseteq mixed', NEW e \in Taking,
         \A f \in Evolvers \ {e} : evolver'[f] = evolver[f],
         evolver'[e] = Resting \/ evolver'[e].version = evolver[e].version
  PROVE  Apart'
<1>1. e \in Evolvers
  BY DEF Taking
<1>2. evolver'[e].pc \in {"copy", "snapshot", "fill", "log", "rollback"} => evolver'[e].version = evolver[e].version
  BY DEF Resting
<1>3. \A f \in Taking \ {e} : evolver[f].version = evolver[e].version => evolver[e].version \in mixed'
  BY DEF Apart
<1>4. QED
  BY <1>1, <1>2, <1>3, StaysApart

LEMMA StartKeeps ==
  ASSUME HistoryInv, NEW e \in Evolvers,
         StartVersion(e) \/ (\E n \in DOMAIN versions : StartRollback(e, n))
  PROVE  HistoryInv'
<1>1. /\ skill' = skill /\ versions' = versions /\ log' = log /\ mixed \subseteq mixed'
      /\ \/ evolver' = [evolver EXCEPT ![e] = Evolving("number", 0, 0, FirstText)]
         \/ \E n \in DOMAIN versions :
              /\ evolver' = [evolver EXCEPT ![e] = Evolving("empty", n, CurrentVersion, versions[n])]
              /\ n \notin HalfWritten \ mixed'
  BY DEF StartVersion, StartRollback
<1>2. /\ evolver'[e] \in Working
      /\ evolver'[e].pc \in {"number", "empty"}
      /\ evolver'[e].target = 0 \/ evolver'[e].target \notin HalfWritten \ mixed'
      /\ evolver'[e].target > 0 =>
           evolver'[e].target \in DOMAIN versions /\ versions[evolver'[e].target] = evolver'[e].text
  <2>1. CASE evolver' = [evolver EXCEPT ![e] = Evolving("number", 0, 0, FirstText)]
    BY <2>1 DEF HistoryInv, VersionTypes, Evolving, Working, AllTexts
  <2>2. ASSUME NEW n \in DOMAIN versions, n \notin HalfWritten \ mixed',
               evolver' = [evolver EXCEPT ![e] = Evolving("empty", n, CurrentVersion, versions[n])]
        PROVE  /\ evolver'[e] \in Working /\ evolver'[e].pc = "empty" /\ evolver'[e].target = n
               /\ versions[n] = evolver'[e].text
    <3>1. CurrentVersion \in Nat /\ versions[n] \in AllTexts /\ FirstText \in AllTexts /\ n \in Nat
      BY NextIsNew DEF HistoryInv, VersionTypes, AllTexts
    <3>2. evolver'[e] = Evolving("empty", n, CurrentVersion, versions[n])
      BY <2>2 DEF HistoryInv, VersionTypes
    <3>3. QED
      BY <3>1, <3>2 DEF Evolving, Working
  <2>3. QED
    BY <1>1, <2>1, <2>2
<1>3. evolver' \in [Evolvers -> Working \cup {Resting}] /\ \A f \in Evolvers \ {e} : evolver'[f] = evolver[f]
  BY <1>1, <1>2 DEF HistoryInv, VersionTypes
<1>4. Sound(e)'
  BY <1>1, <1>2 DEF Sound
<1>5. \A f \in Evolvers \ {e} : Sound(f)'
  BY <1>1, <1>3, StillSound DEF HistoryInv
<1>6. Apart'
  BY <1>1, <1>2, <1>3, StaysApart DEF HistoryInv
<1>7. VersionTypes'
  BY <1>1, <1>3 DEF HistoryInv, VersionTypes
<1>8. TargetsWhole'
  <2>1. HalfWritten' \subseteq HalfWritten
    BY <1>2, <1>3, HalfShrinks
  <2>2. evolver'[e].target \notin HalfWritten \ mixed'
    BY <1>2, NoneHalfWritten
  <2>3. QED
    BY <1>1, <1>3, <2>1, <2>2, WholeStays DEF HistoryInv
<1>9. QED
  BY <1>1, <1>4, <1>5, <1>6, <1>7, <1>8, LogStays DEF HistoryInv

\* The text of the skill is replaced, and what was about to be copied is mixed up.
LEMMA OtherTextSound ==
  ASSUME NEW f \in Evolvers, Sound(f), evolver'[f] = evolver[f], versions' = versions, log' = log,
         mixed' = mixed \cup Chosen
  PROVE  Sound(f)'
<1>1. evolver[f].pc = "copy" => evolver[f].version \in mixed'
  BY DEF Chosen, Taking
<1>2. QED
  BY <1>1, StillSound

LEMMA EditKeeps ==
  ASSUME HistoryInv, NEW text \in Texts, EditSkill(text)
  PROVE  HistoryInv'
<1>1. skill' = text /\ mixed' = mixed \cup Chosen /\ versions' = versions /\ log' = log /\ evolver' = evolver
  BY DEF EditSkill
<1>2. VersionTypes'
  BY <1>1 DEF HistoryInv, VersionTypes, AllTexts
<1>3. \A f \in Evolvers : Sound(f)'
  BY <1>1, OtherTextSound DEF HistoryInv
<1>4. Apart'
  BY <1>1 DEF HistoryInv, Apart, Taking
<1>5. TargetsWhole'
  BY <1>1 DEF HistoryInv, TargetsWhole, HalfWritten
<1>6. QED
  BY <1>1, <1>2, <1>3, <1>4, <1>5, LogStays DEF HistoryInv

LEMMA RestoreKeeps ==
  ASSUME HistoryInv, NEW e \in Evolvers, EmptySkill(e) \/ RestoreText(e)
  PROVE  HistoryInv'
<1>1. PICK pc \in {"restore", "number"}, text \in {Blank, evolver[e].text} :
        /\ evolver[e].pc \in {"empty", "restore"} /\ skill' = text /\ mixed' = mixed \cup Chosen
        /\ versions' = versions /\ log' = log /\ evolver' = [evolver EXCEPT ![e].pc = pc]
  BY DEF EmptySkill, RestoreText
<1>2. evolver[e] \in Working
  BY <1>1 DEF HistoryInv, VersionTypes, Resting
<1>3. evolver'[e] = [evolver[e] EXCEPT !.pc = pc] /\ \A f \in Evolvers \ {e} : evolver'[f] = evolver[f]
  BY <1>1 DEF HistoryInv, VersionTypes
<1>4. evolver'[e] \in Working /\ evolver'[e].pc = pc /\ evolver'[e].target = evolver[e].target
      /\ evolver'[e].text = evolver[e].text
  BY <1>2, <1>3 DEF Working
<1>5. VersionTypes'
  <2>1. skill' \in AllTexts
    BY <1>1, <1>2 DEF Working, AllTexts
  <2>2. evolver' \in [Evolvers -> Working \cup {Resting}]
    BY <1>1, <1>3, <1>4 DEF HistoryInv, VersionTypes
  <2>3. QED
    BY <1>1, <2>1, <2>2 DEF HistoryInv, VersionTypes
<1>6. Sound(e)'
  <2>1. Sound(e)
    BY DEF HistoryInv
  <2>2. QED
    BY <1>1, <1>4, <2>1 DEF Sound
<1>7. \A f \in Evolvers \ {e} : Sound(f)'
  BY <1>1, <1>3, OtherTextSound DEF HistoryInv
<1>8. Apart'
  BY <1>1, <1>3, <1>4, StaysApart DEF HistoryInv
<1>9. TargetsWhole'
  <2>1. HalfWritten' \subseteq HalfWritten
    BY <1>1, <1>3, <1>4, HalfShrinks
  <2>2. \A f \in Evolvers : evolver'[f].pc # "idle" =>
          evolver[f].pc # "idle" /\ evolver'[f].target = evolver[f].target
    BY <1>1, <1>3, <1>4
  <2>3. QED
    BY <1>1, <2>1, <2>2, WholeStays DEF HistoryInv
<1>10. QED
  BY <1>1, <1>5, <1>6, <1>7, <1>8, <1>9, LogStays DEF HistoryInv

\* A new number is in no version, so in no entry of the log either.
LEMMA ChooseKeeps ==
  ASSUME HistoryInv, NEW e \in Evolvers, ChooseNumber(e)
  PROVE  HistoryInv'
<1>1. PICK n, w : n = NextVersion /\ w = [evolver[e] EXCEPT !.pc = "copy", !.version = n]
  OBVIOUS
<1>2. /\ evolver[e].pc = "number" /\ skill' = skill /\ versions' = versions /\ log' = log
      /\ evolver' = [evolver EXCEPT ![e] = w]
      /\ mixed \subseteq mixed' /\ {n} \cap Chosen \subseteq mixed'
      /\ evolver[e].target > 0 /\ skill # evolver[e].text => n \in mixed'
  <2>1. mixed' = mixed \cup ({n} \cap Chosen)
                   \cup (IF evolver[e].target > 0 /\ skill # evolver[e].text THEN {n} ELSE {})
    BY <1>1 DEF ChooseNumber
  <2>2. evolver' = [evolver EXCEPT ![e].pc = "copy", ![e].version = n]
    BY <1>1 DEF ChooseNumber
  <2>3. evolver' = [evolver EXCEPT ![e] = w]
    BY <1>1, <2>2 DEF HistoryInv, VersionTypes
  <2>4. QED
    BY <2>1, <2>3 DEF ChooseNumber
<1>3. evolver[e] \in Working
  BY <1>2 DEF HistoryInv, VersionTypes, Resting
<1>4. n \in Nat \ {0} /\ n \notin DOMAIN versions
  BY <1>1, NextIsNew DEF HistoryInv
<1>5. /\ w \in Working /\ w.pc = "copy" /\ w.version = n /\ w.target = evolver[e].target
      /\ w.text = evolver[e].text
  BY <1>1, <1>3, <1>4 DEF Working
<1>6. evolver'[e] = w /\ \A f \in Evolvers \ {e} : evolver'[f] = evolver[f]
  BY <1>2 DEF HistoryInv, VersionTypes
<1>7. VersionTypes'
  <2>1. evolver' \in [Evolvers -> Working \cup {Resting}]
    BY <1>2, <1>5 DEF HistoryInv, VersionTypes
  <2>2. QED
    BY <1>2, <2>1 DEF HistoryInv, VersionTypes
<1>8. Sound(e)'
  <2>1. Sound(e)
    BY DEF HistoryInv
  <2>2. \A i \in DOMAIN log : ~ Names(log[i], n)
    BY <1>4 DEF HistoryInv, LogTrue, LogDescribesVersions, Names, Told
  <2>3. evolver[e].target > 0 =>
          /\ evolver[e].target \in DOMAIN versions
          /\ evolver[e].target \in mixed \/ versions[evolver[e].target] = evolver[e].text
    BY <1>2, <2>1 DEF Sound
  <2>4. QED
    BY <1>2, <1>4, <1>5, <1>6, <2>2, <2>3 DEF Sound
<1>9. \A f \in Evolvers \ {e} : Sound(f)'
  BY <1>2, <1>6, StillSound DEF HistoryInv
<1>10. Apart'
  <2>1. \A f \in Taking \ {e} : evolver[f].version = n => n \in mixed'
    BY <1>2 DEF Chosen
  <2>2. QED
    BY <1>2, <1>5, <1>6, <2>1, StaysApart DEF HistoryInv
<1>11. TargetsWhole'
  <2>1. HalfWritten' \subseteq HalfWritten
    BY <1>5, <1>6, HalfShrinks
  <2>2. \A f \in Evolvers : evolver'[f].pc # "idle" =>
          evolver[f].pc # "idle" /\ evolver'[f].target = evolver[f].target
    BY <1>2, <1>5, <1>6
  <2>3. QED
    BY <1>2, <2>1, <2>2, WholeStays DEF HistoryInv
<1>12. QED
  BY <1>2, <1>7, <1>8, <1>9, <1>10, <1>11, LogStays DEF HistoryInv

LEMMA ReadKeeps ==
  ASSUME HistoryInv, NEW e \in Evolvers, ReadSkill(e)
  PROVE  HistoryInv'
<1>1. PICK w : w = [evolver[e] EXCEPT !.pc = "snapshot", !.copy = skill]
  OBVIOUS
<1>2. /\ evolver[e].pc = "copy" /\ skill' = skill /\ versions' = versions /\ log' = log /\ mixed' = mixed
      /\ evolver' = [evolver EXCEPT ![e] = w]
  BY <1>1 DEF ReadSkill, HistoryInv, VersionTypes
<1>3. evolver[e] \in Working
  BY <1>2 DEF HistoryInv, VersionTypes, Resting
<1>4. /\ w \in Working /\ w.pc = "snapshot" /\ w.version = evolver[e].version /\ w.target = evolver[e].target
      /\ w.text = evolver[e].text /\ w.copy = skill
  BY <1>1, <1>3 DEF Working, HistoryInv, VersionTypes
<1>5. evolver'[e] = w /\ \A f \in Evolvers \ {e} : evolver'[f] = evolver[f]
  BY <1>2 DEF HistoryInv, VersionTypes
<1>6. VersionTypes'
  <2>1. evolver' \in [Evolvers -> Working \cup {Resting}]
    BY <1>2, <1>4 DEF HistoryInv, VersionTypes
  <2>2. QED
    BY <1>2, <2>1 DEF HistoryInv, VersionTypes
<1>7. Sound(e)'
  <2>1. Sound(e)
    BY DEF HistoryInv
  <2>2. QED
    BY <1>2, <1>4, <1>5, <2>1 DEF Sound
<1>8. \A f \in Evolvers \ {e} : Sound(f)'
  BY <1>2, <1>5, StillSound DEF HistoryInv
<1>9. Apart'
  <2>1. e \in Taking
    BY <1>2 DEF Taking
  <2>2. QED
    BY <1>2, <1>4, <1>5, <2>1, GoesOnApart DEF HistoryInv
<1>10. TargetsWhole'
  <2>1. HalfWritten' \subseteq HalfWritten
    BY <1>4, <1>5, HalfShrinks
  <2>2. \A f \in Evolvers : evolver'[f].pc # "idle" =>
          evolver[f].pc # "idle" /\ evolver'[f].target = evolver[f].target
    BY <1>2, <1>4, <1>5
  <2>3. QED
    BY <1>2, <2>1, <2>2, WholeStays DEF HistoryInv
<1>11. QED
  BY <1>2, <1>6, <1>7, <1>8, <1>9, <1>10, LogStays DEF HistoryInv

\* A snapshot of one evolver, as the versions show it.
LEMMA SnapshotEffect ==
  ASSUME NEW n, NEW text, versions' = Snapshot(n, text)
  PROVE  /\ DOMAIN versions' = DOMAIN versions \cup {n} /\ versions'[n] = text
         /\ \A k \in DOMAIN versions \ {n} : versions'[k] = versions[k]
BY DEF Snapshot

\* A snapshot goes on: its file is emptied, or filled with what was copied.
Takes(e, pc, text) ==
  /\ skill' = skill /\ log' = log /\ mixed' = mixed
  /\ versions' = Snapshot(evolver[e].version, text)
  /\ evolver' = [evolver EXCEPT ![e].pc = pc]
  /\ \/ evolver[e].pc = "snapshot" /\ pc = "fill" /\ text = Blank
     \/ evolver[e].pc = "fill" /\ pc = "log" /\ text = evolver[e].copy

\* What is written over a version is written over one that is mixed up, or
\* that nothing refers to yet.
LEMMA WriteKeeps ==
  ASSUME HistoryInv, NEW e \in Evolvers, OpenSnapshot(e) \/ WriteSnapshot(e)
  PROVE  HistoryInv'
<1>1. PICK pc, text : Takes(e, pc, text)
  BY DEF OpenSnapshot, WriteSnapshot, Takes
<1>2. PICK w, n : w = [evolver[e] EXCEPT !.pc = pc] /\ n = evolver[e].version
  OBVIOUS
<1>3. evolver[e] \in Working /\ evolver[e].pc \in {"snapshot", "fill"} /\ pc \in {"fill", "log"}
  BY <1>1 DEF Takes, HistoryInv, VersionTypes, Resting
<1>4. /\ w \in Working /\ w.pc = pc /\ w.version = n /\ w.target = evolver[e].target
      /\ w.text = evolver[e].text /\ w.copy = evolver[e].copy /\ n \in Nat /\ text \in AllTexts
  BY <1>1, <1>2, <1>3 DEF Working, Takes, AllTexts
<1>5. evolver'[e] = w /\ \A f \in Evolvers \ {e} : evolver'[f] = evolver[f]
  BY <1>1, <1>2 DEF Takes, HistoryInv, VersionTypes
<1>6. Sound(e)
  BY DEF HistoryInv
<1>7. n > 0 /\ (n \in DOMAIN versions /\ evolver[e].pc = "snapshot" => n \in mixed)
  BY <1>2, <1>3, <1>6 DEF Sound
<1>8. /\ DOMAIN versions' = DOMAIN versions \cup {n} /\ versions'[n] = text
      /\ \A k \in DOMAIN versions \ {n} : versions'[k] = versions[k]
  BY <1>1, <1>2, SnapshotEffect DEF Takes
<1>9. skill' = skill /\ log' = log /\ mixed' = mixed
  BY <1>1 DEF Takes
<1>10. n \notin mixed => /\ \A f \in Evolvers : evolver[f].pc # "idle" => evolver[f].target # n
                         /\ \A i \in DOMAIN log : log[i].target # n /\ ~ Names(log[i], n)
  <2>1. \A i \in DOMAIN log : Names(log[i], n) => n \in mixed
    BY <1>2, <1>3, <1>6 DEF Sound
  <2>2. CASE evolver[e].pc = "fill"
    <3>1. n \in HalfWritten
      BY <1>2, <2>2 DEF HalfWritten
    <3>2. QED
      BY <2>1, <3>1 DEF HistoryInv, TargetsWhole
  <2>3. CASE evolver[e].pc = "snapshot" /\ n \notin mixed
    <3>1. n \notin DOMAIN versions /\ n # 0
      BY <1>7, <2>3
    <3>2. ASSUME NEW f \in Evolvers, evolver[f].pc # "idle"
          PROVE  evolver[f].target # n
      <4>1. evolver[f] \in Working /\ Sound(f)
        BY <3>2 DEF HistoryInv, VersionTypes, Resting
      <4>2. evolver[f].target \in Nat
        BY <4>1 DEF Working
      <4>3. QED
        BY <3>1, <3>2, <4>1, <4>2 DEF Sound
    <3>3. ASSUME NEW i \in DOMAIN log
          PROVE  log[i].target # n
      <4>1. log[i] \in Entries
        BY DEF HistoryInv, VersionTypes
      <4>2. log[i].target \in Nat
        BY <4>1 DEF Entries
      <4>3. QED
        BY <3>1, <4>2 DEF HistoryInv, LogTrue, RollbacksTrue
    <3>4. QED
      BY <2>1, <2>3, <3>2, <3>3
  <2>4. QED
    BY <1>3, <2>2, <2>3
<1>11. VersionTypes'
  <2>1. evolver' \in [Evolvers -> Working \cup {Resting}]
    BY <1>1, <1>4, <1>5 DEF Takes, HistoryInv, VersionTypes
  <2>2. IsFiniteSet(DOMAIN versions \cup {n})
    BY FS_AddElement DEF HistoryInv, VersionTypes
  <2>3. versions' \in [DOMAIN versions' -> AllTexts] /\ DOMAIN versions' \subseteq Nat \ {0}
    <3>1. versions' = [k \in DOMAIN versions' |-> versions'[k]]
      BY <1>1 DEF Takes, Snapshot
    <3>2. \A k \in DOMAIN versions' : versions'[k] \in AllTexts /\ k \in Nat \ {0}
      BY <1>4, <1>7, <1>8 DEF HistoryInv, VersionTypes
    <3>3. QED
      BY <3>1, <3>2
  <2>4. IsFiniteSet(DOMAIN versions')
    BY <1>8, <2>2
  <2>5. QED
    BY <1>9, <2>1, <2>3, <2>4 DEF HistoryInv, VersionTypes
<1>12. Sound(e)'
  <2>1. evolver[e].target > 0 =>
          /\ evolver[e].target \in DOMAIN versions
          /\ evolver[e].target \in mixed \/ versions'[evolver[e].target] = evolver[e].text
          /\ n \in mixed \/ evolver[e].copy = evolver[e].text
    BY <1>2, <1>3, <1>6, <1>8, <1>10 DEF Sound
  <2>2. \A i \in DOMAIN log : Names(log[i], n) => n \in mixed
    BY <1>10
  <2>3. pc = "log" => text = evolver[e].copy
    BY <1>1 DEF Takes
  <2>4. QED
    BY <1>3, <1>4, <1>5, <1>7, <1>8, <1>9, <2>1, <2>2, <2>3 DEF Sound
<1>13. e \in Taking
  BY <1>3 DEF Taking
<1>14. ASSUME NEW f \in Evolvers \ {e}
       PROVE  Sound(f)'
  <2>1. evolver[f].pc \in {"copy", "snapshot", "log", "rollback"} /\ evolver[f].version = n => n \in mixed
    <3>1. evolver[f].pc \in {"copy", "snapshot", "log", "rollback"} => f \in Taking
      BY DEF Taking
    <3>2. QED
      BY <1>2, <1>13, <1>14, <3>1 DEF HistoryInv, Apart
  <2>2. Sound(f)
    BY DEF HistoryInv
  <2>3. evolver[f].pc # "idle" /\ evolver[f].target > 0 =>
          versions'[evolver[f].target] = versions[evolver[f].target] \/ evolver[f].target \in mixed'
    BY <1>8, <1>9, <1>10, <2>2 DEF Sound
  <2>4. evolver[f].pc \in {"log", "rollback"} =>
          versions'[evolver[f].version] = versions[evolver[f].version] \/ evolver[f].version \in mixed'
    BY <1>8, <1>9, <2>1, <2>2 DEF Sound
  <2>5. evolver[f].pc \in {"copy", "snapshot"} /\ evolver[f].version \in DOMAIN versions' \ DOMAIN versions
          => evolver[f].version \in mixed'
    BY <1>8, <1>9, <2>1
  <2>6. QED
    BY <1>5, <1>8, <1>9, <2>2, <2>3, <2>4, <2>5, OtherSound
<1>15. Apart'
  BY <1>2, <1>4, <1>5, <1>9, <1>13, GoesOnApart DEF HistoryInv
<1>16. TargetsWhole'
  <2>1. HalfWritten' \subseteq HalfWritten \cup {n}
    BY <1>4, <1>5 DEF HalfWritten
  <2>2. \A f \in Evolvers : evolver'[f].pc # "idle" =>
          evolver[f].pc # "idle" /\ evolver'[f].target = evolver[f].target
    BY <1>3, <1>4, <1>5
  <2>3. QED
    BY <1>9, <1>10, <2>1, <2>2 DEF HistoryInv, TargetsWhole
<1>17. LogTrue'
  <2>1. ASSUME NEW i \in DOMAIN log, log[i].target > 0, NEW k \in {log[i].version, log[i].target}
        PROVE  versions'[k] = versions[k] \/ k \in mixed'
    <3>1. log[i].event \in Told
      BY <2>1 DEF HistoryInv, LogTrue, OthersNameNothing
    <3>2. k = n => n \in mixed
      BY <1>10, <2>1, <3>1 DEF Names
    <3>3. k \in DOMAIN versions
      BY <2>1, <3>1 DEF HistoryInv, LogTrue, LogDescribesVersions, RollbacksTrue, Told
    <3>4. QED
      BY <1>8, <1>9, <3>2, <3>3
  <2>2. QED
    BY <1>8, <1>9, <2>1, LogStays DEF HistoryInv
<1>18. QED
  BY <1>11, <1>12, <1>14, <1>15, <1>16, <1>17 DEF HistoryInv

\* What may be added to the log: an entry that is true of the versions.
True(entry) ==
  /\ entry \in Entries
  /\ entry.event \in Told => entry.version \in DOMAIN versions
  /\ entry.event \notin Told => entry.target = 0 /\ entry.version = 0
  /\ entry.event = "snapshot" => \A i \in DOMAIN log : Names(log[i], entry.version) => entry.version \in mixed
  /\ entry.event = "rollback" => \E i \in DOMAIN log : Announces(log[i], entry.version)
  /\ entry.target > 0 =>
       /\ entry.target \in DOMAIN versions
       /\ \/ {entry.version, entry.target} \cap mixed # {}
          \/ versions[entry.version] = versions[entry.target]

\* The log stays true when it ends with such a line.
LEMMA EntryKeeps ==
  ASSUME HistoryInv, NEW last, NEW line, EndsWith(last, line), True(line), versions' = versions, mixed' = mixed
  PROVE  LogTrue'
<1>1. /\ last \in Nat \ {0} /\ DOMAIN log' = 1..last /\ 1..(last - 1) \subseteq DOMAIN log
      /\ \A i \in 1..(last - 1) : log'[i] = log[i]
      /\ log'[last] = line
      /\ \A i \in DOMAIN log : log[i].event # "cut" => i \in 1..(last - 1)
  BY DEF EndsWith
<1>2. \A i \in DOMAIN log' : log'[i].event \in Told => log'[i].version \in DOMAIN versions'
  BY <1>1 DEF HistoryInv, LogTrue, LogDescribesVersions, True, Told
<1>3. ASSUME NEW i \in DOMAIN log', NEW j \in DOMAIN log', i # j,
             log'[i].event = "snapshot", log'[j].event = "snapshot", log'[i].version = log'[j].version
      PROVE  log'[i].version \in mixed'
  <2>1. CASE i # last /\ j # last
    BY <1>1, <1>3, <2>1 DEF HistoryInv, LogTrue, LogDescribesVersions
  <2>2. CASE i = last
    BY <1>1, <1>3, <2>2 DEF Names, Told, True
  <2>3. CASE j = last
    BY <1>1, <1>3, <2>3 DEF Names, Told, True
  <2>4. QED
    BY <2>1, <2>2, <2>3
<1>4. ASSUME NEW i \in DOMAIN log', log'[i].event = "rollback"
      PROVE  \E j \in 1..(i - 1) : Announces(log'[j], log'[i].version)
  <2>1. CASE i # last
    <3>1. i \in DOMAIN log /\ i \in 1..(last - 1) /\ log[i].event = "rollback" /\ log'[i] = log[i]
      BY <1>1, <1>4, <2>1
    <3>2. PICK j \in 1..(i - 1) : Announces(log[j], log[i].version)
      BY <3>1 DEF HistoryInv, LogTrue, LogDescribesVersions, Announces
    <3>3. log'[j] = log[j]
      BY <1>1, <3>1
    <3>4. QED
      BY <3>1, <3>2, <3>3
  <2>2. CASE i = last
    <3>1. PICK j \in DOMAIN log : Announces(log[j], line.version)
      BY <1>1, <1>4, <2>2 DEF True
    <3>2. j \in 1..(i - 1) /\ log'[j] = log[j]
      BY <1>1, <2>2, <3>1 DEF Announces
    <3>3. QED
      BY <1>1, <2>2, <3>1, <3>2
  <2>3. QED
    BY <2>1, <2>2
<1>5. LogDescribesVersions'
  <2>1. \A i \in DOMAIN log' : log'[i].event = "rollback" =>
          \E j \in 1..(i - 1) : \/ log'[j].event = "snapshot" /\ log'[j].version = log'[i].version
                                \/ log'[j].event = "glued"
    BY <1>4 DEF Announces
  <2>2. QED
    BY <1>2, <1>3, <2>1 DEF LogDescribesVersions, Told
<1>6. RollbacksTrue'
  BY <1>1 DEF HistoryInv, LogTrue, RollbacksTrue, True
<1>7. OthersNameNothing'
  BY <1>1 DEF HistoryInv, LogTrue, OthersNameNothing, True
<1>8. QED
  BY <1>5, <1>6, <1>7 DEF LogTrue

\* A line that is glued to another says nothing.
LEMMA GluedTrue ==
  ASSUME NEW entry, True(entry), NEW line \in {entry, Glued}
  PROVE  True(line) /\ line.target \in {0, entry.target}
         /\ \A n : Names(line, n) => Names(entry, n)
<1>1. True(Glued) /\ Glued.target = 0 /\ \A n : ~ Names(Glued, n)
  BY CutsAndGlue DEF True, Names, Told
<1>2. QED
  BY <1>1

\* An evolver does not mind what another one adds to the log.
LEMMA EntrySound ==
  ASSUME NEW last, NEW line, EndsWith(last, line), versions' = versions, mixed' = mixed, skill' = skill,
         NEW e \in Evolvers, Sound(e), evolver'[e] = evolver[e],
         evolver[e].pc \in {"copy", "snapshot", "fill", "log"} =>
           (Names(line, evolver[e].version) => evolver[e].version \in mixed)
  PROVE  Sound(e)'
BY EndKeeps, OtherSound

LEMMA ProposeKeeps ==
  ASSUME HistoryInv, Propose
  PROVE  HistoryInv'
<1>1. PICK entry : entry = [event |-> "proposal", version |-> 0, target |-> 0, source |-> 0]
  OBVIOUS
<1>2. /\ Logged(entry) /\ skill' = skill /\ versions' = versions /\ mixed' = mixed /\ evolver' = evolver
      /\ True(entry) /\ entry.target = 0 /\ \A n : ~ Names(entry, n)
  BY <1>1 DEF Propose, Entries, True, Told, Names
<1>3. PICK last, line : line \in {entry, Glued} /\ EndsWith(last, line)
  BY <1>2, LogGrows DEF HistoryInv, VersionTypes, True
<1>4. True(line) /\ line.target = 0 /\ \A n : ~ Names(line, n)
  BY <1>2, <1>3, GluedTrue
<1>5. VersionTypes'
  BY <1>2, <1>3 DEF HistoryInv, VersionTypes, EndsWith
<1>6. \A e \in Evolvers : Sound(e)'
  BY <1>2, <1>3, <1>4, EntrySound DEF HistoryInv
<1>7. Apart'
  BY <1>2 DEF HistoryInv, Apart, Taking
<1>8. TargetsWhole'
  <2>1. HalfWritten' = HalfWritten
    BY <1>2 DEF HalfWritten
  <2>2. \A i \in DOMAIN log' : \/ i \in DOMAIN log /\ log'[i] = log[i]
                               \/ log'[i].target \notin HalfWritten \ mixed'
    BY <1>3, <1>4, EndKeeps, NoneHalfWritten
  <2>3. QED
    BY <1>2, <2>1, <2>2, WholeStays DEF HistoryInv
<1>9. LogTrue'
  BY <1>2, <1>3, <1>4, EntryKeeps
<1>10. QED
  BY <1>5, <1>6, <1>7, <1>8, <1>9 DEF HistoryInv

LEMMA StopKeeps ==
  ASSUME HistoryInv, NEW e \in Evolvers, StopEvolver(e)
  PROVE  HistoryInv'
<1>1. /\ skill' = skill /\ versions' = versions /\ mixed' = mixed
      /\ evolver' = [evolver EXCEPT ![e] = Resting]
      /\ log' = log \/ Logged(Cut)
  BY DEF StopEvolver
<1>2. /\ evolver' \in [Evolvers -> Working \cup {Resting}] /\ evolver'[e] = Resting
      /\ \A f \in Evolvers \ {e} : evolver'[f] = evolver[f]
  BY <1>1 DEF HistoryInv, VersionTypes
<1>3. Resting.pc = "idle"
  BY DEF Resting
<1>4. Sound(e)' /\ Apart'
  <2>1. Sound(e)'
    BY <1>2, <1>3 DEF Sound
  <2>2. Apart'
    BY <1>1, <1>2, <1>3, StaysApart DEF HistoryInv
  <2>3. QED
    BY <2>1, <2>2
<1>5. HalfWritten' \subseteq HalfWritten
  BY <1>2, <1>3, HalfShrinks
<1>6. \A f \in Evolvers : evolver'[f].pc # "idle" =>
        evolver[f].pc # "idle" /\ evolver'[f].target = evolver[f].target
  BY <1>2, <1>3
<1>7. CASE log' = log
  <2>1. VersionTypes'
    BY <1>1, <1>2, <1>7 DEF HistoryInv, VersionTypes
  <2>2. \A f \in Evolvers \ {e} : Sound(f)'
    BY <1>1, <1>2, <1>7, StillSound DEF HistoryInv
  <2>3. TargetsWhole'
    BY <1>1, <1>5, <1>6, <1>7, WholeStays DEF HistoryInv
  <2>4. QED
    BY <1>1, <1>4, <1>7, <2>1, <2>2, <2>3, LogStays DEF HistoryInv
<1>8. CASE Logged(Cut)
  <2>1. True(Cut) /\ Cut.target = 0 /\ \A n : ~ Names(Cut, n)
    BY CutsAndGlue DEF True, Told, Names
  <2>2. PICK last, line : line \in {Cut, Glued} /\ EndsWith(last, line)
    BY <1>8, LogGrows, CutsAndGlue DEF HistoryInv, VersionTypes
  <2>3. True(line) /\ line.target = 0 /\ \A n : ~ Names(line, n)
    BY <2>1, <2>2, GluedTrue
  <2>4. VersionTypes'
    BY <1>1, <1>2, <2>2 DEF HistoryInv, VersionTypes, EndsWith
  <2>5. \A f \in Evolvers \ {e} : Sound(f)'
    BY <1>1, <1>2, <2>2, <2>3, EntrySound DEF HistoryInv
  <2>6. TargetsWhole'
    <3>1. \A i \in DOMAIN log' : \/ i \in DOMAIN log /\ log'[i] = log[i]
                                 \/ log'[i].target \notin HalfWritten \ mixed'
      BY <2>2, <2>3, EndKeeps, NoneHalfWritten
    <3>2. QED
      BY <1>1, <1>5, <1>6, <3>1, WholeStays DEF HistoryInv
  <2>7. LogTrue'
    BY <1>1, <2>2, <2>3, EntryKeeps
  <2>8. QED
    BY <1>4, <2>4, <2>5, <2>6, <2>7 DEF HistoryInv
<1>9. QED
  BY <1>1, <1>7, <1>8

LEMMA LogKeeps ==
  ASSUME HistoryInv, NEW e \in Evolvers, LogSnapshot(e) \/ LogRollback(e)
  PROVE  HistoryInv'
<1>1. PICK w, n, t, entry :
        /\ w = evolver[e] /\ n = w.version /\ t = w.target
        /\ entry = IF w.pc = "log" THEN [event |-> "snapshot", version |-> n, target |-> t, source |-> 0]
                   ELSE [event |-> "rollback", version |-> n, target |-> t, source |-> w.source]
  OBVIOUS
<1>2. /\ skill' = skill /\ versions' = versions /\ mixed' = mixed /\ Logged(entry)
      /\ w.pc \in {"log", "rollback"}
      /\ evolver' = [evolver EXCEPT ![e] = IF w.pc = "rollback" \/ t = 0 THEN Resting ELSE [w EXCEPT !.pc = "rollback"]]
  <2>1. CASE LogSnapshot(e)
    BY <1>1, <2>1 DEF LogSnapshot, HistoryInv, VersionTypes
  <2>2. CASE LogRollback(e)
    BY <1>1, <2>2 DEF LogRollback
  <2>3. QED
    BY <2>1, <2>2
<1>3. w \in Working /\ n \in Nat /\ t \in Nat
  BY <1>1, <1>2 DEF HistoryInv, VersionTypes, Resting, Working
<1>4. /\ entry \in Entries /\ entry.version = n /\ entry.target = t
      /\ entry.event = (IF w.pc = "log" THEN "snapshot" ELSE "rollback")
  BY <1>1, <1>3 DEF Entries, Working, Told
<1>5. /\ \A f \in Evolvers \ {e} : evolver'[f] = evolver[f]
      /\ \/ evolver'[e] = Resting
         \/ w.pc = "log" /\ evolver'[e] = [w EXCEPT !.pc = "rollback"]
  BY <1>2 DEF HistoryInv, VersionTypes
<1>6. /\ [w EXCEPT !.pc = "rollback"] \in Working
      /\ [w EXCEPT !.pc = "rollback"].pc = "rollback" /\ [w EXCEPT !.pc = "rollback"].version = n
      /\ [w EXCEPT !.pc = "rollback"].target = t /\ [w EXCEPT !.pc = "rollback"].text = w.text
  BY <1>1, <1>3 DEF Working
<1>7. /\ n \in DOMAIN versions
      /\ w.pc = "log" => \A i \in DOMAIN log : Names(log[i], n) => n \in mixed
      /\ w.pc = "rollback" => \E i \in DOMAIN log : Announces(log[i], n)
      /\ n > 0
      /\ t > 0 => /\ t \in DOMAIN versions
                  /\ t \in mixed \/ versions[t] = w.text
                  /\ n \in mixed \/ versions[n] = w.text
  <2>1. Sound(e)
    BY DEF HistoryInv
  <2>2. QED
    BY <1>1, <1>2, <2>1 DEF Sound
<1>8. True(entry)
  BY <1>2, <1>4, <1>7 DEF True, Told
<1>9. PICK last, line : line \in {entry, Glued} /\ EndsWith(last, line)
  BY <1>2, <1>4, LogGrows DEF HistoryInv, VersionTypes
<1>10. True(line) /\ line.target \in {0, t} /\ \A k : Names(line, k) => k = n
  BY <1>4, <1>8, <1>9, GluedTrue DEF Names
<1>11. VersionTypes'
  <2>1. evolver' \in [Evolvers -> Working \cup {Resting}]
    BY <1>2, <1>6 DEF HistoryInv, VersionTypes
  <2>2. QED
    BY <1>2, <1>9, <2>1 DEF HistoryInv, VersionTypes, EndsWith
<1>12. Sound(e)'
  <2>1. CASE evolver'[e] = Resting
    BY <2>1 DEF Sound, Resting
  <2>2. CASE w.pc = "log" /\ evolver'[e] = [w EXCEPT !.pc = "rollback"]
    <3>1. \E i \in DOMAIN log' : Announces(log'[i], n)
      <4>1. last \in DOMAIN log' /\ log'[last] = line
        BY <1>9 DEF EndsWith
      <4>2. Announces(line, n)
        BY <1>4, <1>9, <2>2, CutsAndGlue DEF Announces
      <4>3. QED
        BY <4>1, <4>2
    <3>2. /\ evolver'[e].pc = "rollback" /\ evolver'[e].version = n /\ evolver'[e].target = t
          /\ evolver'[e].text = w.text
      BY <1>6, <2>2
    <3>3. QED
      BY <1>2, <1>7, <3>1, <3>2 DEF Sound
  <2>3. QED
    BY <1>5, <2>1, <2>2
<1>13. e \in Taking
  BY <1>1, <1>2 DEF Taking
<1>14. ASSUME NEW f \in Evolvers \ {e}
       PROVE  Sound(f)'
  <2>1. evolver[f].pc \in {"copy", "snapshot", "fill", "log"} =>
          (Names(line, evolver[f].version) => evolver[f].version \in mixed)
    <3>1. SUFFICES ASSUME evolver[f].pc \in {"copy", "snapshot", "fill", "log"}, evolver[f].version = n
                   PROVE  n \in mixed
      BY <1>10
    <3>2. f \in Taking
      BY <3>1 DEF Taking
    <3>3. QED
      BY <1>1, <1>13, <1>14, <3>1, <3>2 DEF HistoryInv, Apart
  <2>2. QED
    BY <1>2, <1>5, <1>9, <2>1, EntrySound DEF HistoryInv
<1>15. Apart'
  BY <1>1, <1>2, <1>5, <1>6, <1>13, GoesOnApart DEF HistoryInv
<1>16. TargetsWhole'
  <2>1. evolver'[e].pc # "fill" /\ (evolver'[e].pc # "idle" => evolver'[e].target = t)
    <3>1. CASE evolver'[e] = Resting
      BY <3>1 DEF Resting
    <3>2. CASE evolver'[e] = [w EXCEPT !.pc = "rollback"]
      BY <1>6, <3>2
    <3>3. QED
      BY <1>5, <3>1, <3>2
  <2>2. HalfWritten' \subseteq HalfWritten
    BY <1>5, <2>1, HalfShrinks
  <2>3. t \notin HalfWritten \ mixed
    BY <1>1, <1>2 DEF HistoryInv, TargetsWhole
  <2>4. \A i \in DOMAIN log' : \/ i \in DOMAIN log /\ log'[i] = log[i]
                               \/ log'[i].target \notin HalfWritten \ mixed'
    BY <1>2, <1>9, <1>10, <2>3, EndKeeps, NoneHalfWritten
  <2>5. \A f \in Evolvers : evolver'[f].pc # "idle" =>
          evolver[f].pc # "idle" /\ evolver'[f].target = evolver[f].target
    BY <1>1, <1>2, <1>5, <2>1
  <2>6. QED
    BY <1>2, <2>2, <2>4, <2>5, WholeStays DEF HistoryInv
<1>17. LogTrue'
  BY <1>2, <1>9, <1>10, EntryKeeps
<1>18. QED
  BY <1>11, <1>12, <1>14, <1>15, <1>16, <1>17 DEF HistoryInv

LEMMA HistoryBegins == SkillInit => HistoryInv
<1>1. SUFFICES ASSUME SkillInit PROVE HistoryInv
  OBVIOUS
<1>2. log = <<>> /\ DOMAIN log = {} /\ versions = FirstVersions /\ evolver = [e \in Evolvers |-> Resting]
  BY <1>1 DEF SkillInit
<1>3. VersionTypes
  <2>1. versions = [n \in DOMAIN versions |-> versions[n]]
    BY <1>2, VersionsAssumption
  <2>2. \A n \in DOMAIN versions : versions[n] \in AllTexts
    BY <1>2 DEF AllTexts
  <2>3. QED
    BY <1>1, <1>2, <2>1, <2>2, VersionsAssumption DEF SkillInit, VersionTypes, AllTexts
<1>4. \A e \in Evolvers : evolver[e].pc = "idle"
  BY <1>2 DEF Resting
<1>5. Apart /\ TargetsWhole
  BY <1>4 DEF Apart, Taking, TargetsWhole, HalfWritten
<1>6. LogTrue
  BY <1>2 DEF LogTrue, LogDescribesVersions, RollbacksTrue, OthersNameNothing
<1>7. QED
  BY <1>3, <1>4, <1>5, <1>6 DEF HistoryInv, Sound

LEMMA HistoryStep == HistoryInv /\ [Next]_vars => HistoryInv'
<1> SUFFICES ASSUME HistoryInv, [Next]_vars PROVE HistoryInv'
  OBVIOUS
<1>1. CASE UNCHANGED <<skill, versions, log, evolver, mixed>>
  BY <1>1 DEF HistoryInv, VersionTypes, Sound, Apart, Taking, TargetsWhole, HalfWritten, LogTrue,
              LogDescribesVersions, RollbacksTrue, OthersNameNothing
<1>2. CASE SkillNext
  BY <1>2, StartKeeps, StopKeeps, RestoreKeeps, ChooseKeeps, ReadKeeps, WriteKeeps, LogKeeps, ProposeKeeps, EditKeeps
  DEF SkillNext
<1>3. QED
  BY <1>1, <1>2 DEF Next, vars

\* The last entry that names a version is in the log.
LEMMA LastEntry ==
  ASSUME HistoryInv, NEW n, ReasonFor(n) > 0
  PROVE  \E i \in DOMAIN log : log[i].version = n /\ ReasonFor(n) = log[i].target
<1>1. PICK entries : entries = {i \in DOMAIN log : log[i].event = "snapshot" /\ log[i].version = n /\ log[i].target > 0}
  OBVIOUS
<1>2. entries # {} /\ ReasonFor(n) = log[Max(entries)].target
  BY <1>1 DEF ReasonFor
<1>3. entries \in SUBSET Nat /\ IsFiniteSet(entries)
  <2>1. Len(log) \in Nat /\ DOMAIN log = 1..Len(log)
    BY LenProperties DEF HistoryInv, VersionTypes
  <2>2. IsFiniteSet(1..Len(log)) /\ entries \subseteq 1..Len(log)
    BY <1>1, <2>1, FS_Interval
  <2>3. IsFiniteSet(entries)
    BY <2>2, FS_Subset
  <2>4. entries \in SUBSET Nat
    BY <2>1, <2>2
  <2>5. QED
    BY <2>3, <2>4
<1>4. Max(entries) \in entries
  BY <1>2, <1>3, FiniteMax
<1>5. QED
  BY <1>1, <1>2, <1>4

LEMMA HistoryShows == HistoryInv => HistoryTrue
<1> SUFFICES ASSUME HistoryInv PROVE HistoryTrue
  OBVIOUS
<1>1. ASSUME NEW n \in DOMAIN versions, ReasonFor(n) > 0
      PROVE  {n, ReasonFor(n)} \cap mixed # {} \/ versions[n] = versions[ReasonFor(n)]
  <2>1. PICK i \in DOMAIN log : log[i].version = n /\ ReasonFor(n) = log[i].target
    BY <1>1, LastEntry
  <2>2. QED
    BY <1>1, <2>1 DEF HistoryInv, LogTrue, RollbacksTrue
<1>2. TimelineTrue
  BY <1>1 DEF TimelineTrue, Timeline
<1>3. QED
  BY <1>2 DEF HistoryInv, LogTrue, HistoryTrue

\* What the log of a skill says of its versions, and what the dashboard reads
\* out of it, is so, however evolvers interleave and wherever they are stopped:
\* a snapshot names a version that exists and no other snapshot named, a
\* rollback the version it led to, and that version has the text rolled back
\* to, but for the versions that two evolvers or an evolver and a user mixed up.
THEOREM HistoryIsTrue == Spec => []HistoryTrue
<1>1. Init => HistoryInv
  BY HistoryBegins DEF Init
<1>2. HistoryInv /\ [Next]_vars => HistoryInv'
  BY HistoryStep
<1>3. HistoryInv => HistoryTrue
  BY HistoryShows
<1> QED
  BY <1>1, <1>2, <1>3, PTL DEF Spec

-----------------------------------------------------------------------------
(* Torn lines.                                                             *)

Lines == [kind : {"run"}, skill : Skills, outcome : {"success", "partial", "failure"},
          reason : Reasons \cup {"none"}, at : Nat] \cup Observations \cup {Torn}

WholeLines(s) == {i \in DOMAIN s : s[i].kind # "torn"}

\* Every line that is lost is one that was glued to a torn one, and a torn line
\* that has no end yet can take no more than one with it.
TornInv ==
  /\ lines \in [Logs -> Seq(Lines)] /\ torn \in [Logs -> BOOLEAN] /\ reported \in [Logs -> Nat]
  /\ tears \in Nat /\ now \in Nat
  /\ \A l \in Logs : torn[l] => lines[l] # <<>> /\ lines[l][Len(lines[l])] = Torn
  /\ \A l \in Logs : reported[l] + (IF torn[l] THEN 1 ELSE 0) <= tears + Cardinality(WholeLines(lines[l]))

LEMMA WholeFinite ==
  ASSUME NEW s \in Seq(Lines)
  PROVE  /\ Len(s) \in Nat /\ DOMAIN s = 1..Len(s) /\ WholeLines(s) \subseteq 1..Len(s)
         /\ IsFiniteSet(WholeLines(s)) /\ Cardinality(WholeLines(s)) \in Nat
<1>1. Len(s) \in Nat /\ DOMAIN s = 1..Len(s)
  BY LenProperties
<1>2. WholeLines(s) \subseteq 1..Len(s) /\ IsFiniteSet(1..Len(s))
  BY <1>1, FS_Interval DEF WholeLines
<1>3. IsFiniteSet(WholeLines(s))
  BY <1>2, FS_Subset
<1>4. Cardinality(WholeLines(s)) \in Nat
  BY <1>3, FS_CardinalityType
<1>5. QED
  BY <1>1, <1>2, <1>3, <1>4

\* A reader counts the lines that parse.
LEMMA ReadLength ==
  ASSUME NEW l \in Logs, lines[l] \in Seq(Lines)
  PROVE  Len(Read(l)) = Cardinality(WholeLines(lines[l]))
<1>1. PICK n : n = Cardinality(WholeLines(lines[l]))
  OBVIOUS
<1>2. n \in Nat
  BY <1>1, WholeFinite
<1>3. \E nth : Read(l) = [k \in 1..n |-> nth[k]]
  <2>1. PICK nth : nth = [k \in 1..n |->
          lines[l][CHOOSE i \in WholeLines(lines[l]) : Cardinality({j \in WholeLines(lines[l]) : j <= i}) = k]]
    OBVIOUS
  <2>2. Read(l) = nth
    BY <1>1, <2>1 DEF Read, Those, WholeLines
  <2>3. nth = [k \in 1..n |-> nth[k]]
    BY <2>1
  <2>4. QED
    BY <2>2, <2>3
<1>4. PICK nth : Read(l) = [k \in 1..n |-> nth[k]]
  BY <1>3
<1>5. Len([k \in 1..n |-> nth[k]]) = n
  BY <1>2
<1>6. QED
  BY <1>1, <1>4, <1>5

LEMMA AppendWhole ==
  ASSUME NEW s \in Seq(Lines), NEW line \in Lines
  PROVE  /\ Append(s, line) \in Seq(Lines)
         /\ Cardinality(WholeLines(Append(s, line)))
              = Cardinality(WholeLines(s)) + (IF line.kind = "torn" THEN 0 ELSE 1)
         /\ Append(s, line) # <<>> /\ Append(s, line)[Len(Append(s, line))] = line
<1>1. PICK t, n : t = Append(s, line) /\ n = Len(s)
  OBVIOUS
<1>2. /\ n \in Nat /\ DOMAIN s = 1..n /\ t \in Seq(Lines) /\ Len(t) = n + 1 /\ DOMAIN t = 1..(n + 1)
      /\ t[n + 1] = line /\ \A i \in 1..n : t[i] = s[i]
  BY <1>1, AppendProperties, LenProperties
<1>3. WholeLines(s) \subseteq 1..n /\ IsFiniteSet(WholeLines(s)) /\ Cardinality(WholeLines(s)) \in Nat
  BY <1>1, WholeFinite
<1>4. CASE line.kind = "torn"
  <2>1. WholeLines(t) = WholeLines(s)
    BY <1>2, <1>4 DEF WholeLines
  <2>2. QED
    BY <1>1, <1>2, <1>3, <1>4, <2>1
<1>5. CASE line.kind # "torn"
  <2>1. WholeLines(t) = WholeLines(s) \cup {n + 1}
    BY <1>2, <1>5 DEF WholeLines
  <2>2. n + 1 \notin WholeLines(s)
    BY <1>2, <1>3
  <2>3. Cardinality(WholeLines(s) \cup {n + 1}) = Cardinality(WholeLines(s)) + 1
    BY <1>3, <2>2, FS_AddElement
  <2>4. QED
    BY <1>1, <1>2, <1>5, <2>1, <2>3
<1>6. QED
  BY <1>4, <1>5

\* What is glued to a torn line leaves a torn line.
LEMMA GluedSame ==
  ASSUME NEW s \in Seq(Lines), s # <<>>, s[Len(s)] = Torn
  PROVE  Append(Front(s), Torn) = s
<1>1. PICK f, n : f = Front(s) /\ n = Len(s)
  OBVIOUS
<1>2. n \in Nat \ {0} /\ DOMAIN s = 1..n /\ s \in [1..n -> Lines]
  BY <1>1, LenProperties, EmptySeq
<1>3. f \in Seq(Lines) /\ Len(f) = n - 1 /\ \A i \in 1..(n - 1) : f[i] = s[i]
  BY <1>1, <1>2, SubSeqProperties DEF Front
<1>4. Torn \in Lines
  BY DEF Lines
<1>5. PICK t : t = Append(f, Torn)
  OBVIOUS
<1>6. t \in Seq(Lines) /\ Len(t) = n /\ DOMAIN t = 1..n /\ t[n] = Torn /\ \A i \in 1..(n - 1) : t[i] = f[i]
  BY <1>2, <1>3, <1>4, <1>5, AppendProperties, LenProperties
<1>7. \A i \in 1..n : t[i] = s[i]
  BY <1>1, <1>2, <1>3, <1>6
<1>8. QED
  BY <1>1, <1>2, <1>5, <1>6, <1>7, SeqEqual

LEMMA AppendedEffect ==
  ASSUME TornInv, NEW l \in Logs, NEW line \in Lines, lines' = Appended(l, line)
  PROVE  /\ lines' \in [Logs -> Seq(Lines)]
         /\ \A m \in Logs \ {l} : lines'[m] = lines[m]
         /\ lines'[l] # <<>>
         /\ torn[l] \/ line = Torn => lines'[l][Len(lines'[l])] = Torn
         /\ Cardinality(WholeLines(lines[l])) \in Nat
         /\ Cardinality(WholeLines(lines'[l]))
              = Cardinality(WholeLines(lines[l])) + (IF torn[l] \/ line.kind = "torn" THEN 0 ELSE 1)
<1>1. PICK s : s = lines[l]
  OBVIOUS
<1>2. s \in Seq(Lines) /\ Cardinality(WholeLines(s)) \in Nat
  BY <1>1, WholeFinite DEF TornInv
<1>3. CASE torn[l]
  <2>1. s # <<>> /\ s[Len(s)] = Torn
    BY <1>1, <1>3 DEF TornInv
  <2>2. lines' = [lines EXCEPT ![l] = Append(Front(s), Torn)]
    BY <1>1, <1>3 DEF Appended
  <2>3. lines' = [lines EXCEPT ![l] = s]
    BY <1>2, <2>1, <2>2, GluedSame
  <2>4. lines' = lines
    BY <1>1, <2>3 DEF TornInv
  <2>5. QED
    BY <1>1, <1>2, <1>3, <2>1, <2>4 DEF TornInv
<1>4. CASE ~torn[l]
  <2>1. PICK t : t = Append(s, line)
    OBVIOUS
  <2>2. lines' = [lines EXCEPT ![l] = t]
    BY <1>1, <1>4, <2>1 DEF Appended
  <2>3. /\ t \in Seq(Lines) /\ t # <<>> /\ t[Len(t)] = line
        /\ Cardinality(WholeLines(t)) = Cardinality(WholeLines(s)) + (IF line.kind = "torn" THEN 0 ELSE 1)
    BY <1>2, <2>1, AppendWhole
  <2>4. lines' \in [Logs -> Seq(Lines)] /\ lines'[l] = t /\ \A m \in Logs \ {l} : lines'[m] = lines[m]
    BY <2>2, <2>3 DEF TornInv
  <2>5. QED
    BY <1>1, <1>2, <1>4, <2>3, <2>4
<1>5. QED
  BY <1>3, <1>4

LEMMA AddKeeps ==
  ASSUME TornInv, NEW l \in Logs, NEW line \in Lines, line.kind # "torn", Add(l, line)
  PROVE  TornInv'
<1>1. /\ lines' = Appended(l, line) /\ torn' = [torn EXCEPT ![l] = FALSE]
      /\ reported' = [reported EXCEPT ![l] = reported[l] + 1] /\ tears' = tears /\ now' = now
  BY DEF Add
<1>2. /\ lines' \in [Logs -> Seq(Lines)] /\ \A m \in Logs \ {l} : lines'[m] = lines[m]
      /\ Cardinality(WholeLines(lines[l])) \in Nat
      /\ Cardinality(WholeLines(lines'[l])) = Cardinality(WholeLines(lines[l])) + (IF torn[l] THEN 0 ELSE 1)
  BY <1>1, AppendedEffect
<1>3. /\ torn' \in [Logs -> BOOLEAN] /\ reported' \in [Logs -> Nat] /\ tears' \in Nat /\ now' \in Nat
      /\ torn'[l] = FALSE /\ reported'[l] = reported[l] + 1 /\ reported[l] \in Nat /\ tears \in Nat
      /\ \A m \in Logs \ {l} : torn'[m] = torn[m] /\ reported'[m] = reported[m]
  BY <1>1 DEF TornInv
<1>4. ASSUME NEW m \in Logs
      PROVE  reported'[m] + (IF torn'[m] THEN 1 ELSE 0) <= tears' + Cardinality(WholeLines(lines'[m]))
  <2>1. CASE m = l
    <3>1. PICK a, b : a = Cardinality(WholeLines(lines[l])) /\ b = Cardinality(WholeLines(lines'[l]))
      OBVIOUS
    <3>2. reported[l] + (IF torn[l] THEN 1 ELSE 0) <= tears + a
      BY <3>1 DEF TornInv
    <3>3. reported[l] + 1 <= tears + b
      BY <1>2, <1>3, <3>1, <3>2
    <3>4. QED
      BY <1>1, <1>3, <2>1, <3>1, <3>3
  <2>2. CASE m # l
    BY <1>1, <1>2, <1>3, <2>2 DEF TornInv
  <2>3. QED
    BY <2>1, <2>2
<1>5. ASSUME NEW m \in Logs, torn'[m]
      PROVE  lines'[m] # <<>> /\ lines'[m][Len(lines'[m])] = Torn
  BY <1>2, <1>3, <1>5 DEF TornInv
<1>6. QED
  BY <1>2, <1>3, <1>4, <1>5 DEF TornInv

LEMMA TearKeeps ==
  ASSUME TornInv, NEW l \in Logs, Tear(l)
  PROVE  TornInv'
<1>1. /\ lines' = Appended(l, Torn) /\ torn' = [torn EXCEPT ![l] = TRUE]
      /\ reported' = reported /\ tears' = tears + 1 /\ now' = now
  BY DEF Tear
<1>2. Torn \in Lines /\ Torn.kind = "torn"
  BY DEF Lines, Torn
<1>3. /\ lines' \in [Logs -> Seq(Lines)] /\ \A m \in Logs \ {l} : lines'[m] = lines[m]
      /\ lines'[l] # <<>> /\ lines'[l][Len(lines'[l])] = Torn
      /\ Cardinality(WholeLines(lines'[l])) = Cardinality(WholeLines(lines[l])) + 0
      /\ Cardinality(WholeLines(lines[l])) \in Nat
  BY <1>1, <1>2, AppendedEffect
<1>4. /\ torn' \in [Logs -> BOOLEAN] /\ reported' \in [Logs -> Nat] /\ tears' \in Nat /\ now' \in Nat
      /\ torn'[l] = TRUE /\ \A m \in Logs \ {l} : torn'[m] = torn[m]
      /\ tears \in Nat
  BY <1>1 DEF TornInv
<1>5. ASSUME NEW m \in Logs
      PROVE  reported'[m] + (IF torn'[m] THEN 1 ELSE 0) <= tears' + Cardinality(WholeLines(lines'[m]))
  <2>1. PICK a, b : a = Cardinality(WholeLines(lines[m])) /\ b = Cardinality(WholeLines(lines'[m]))
    OBVIOUS
  <2>2. a \in Nat /\ b = a
    <3>1. CASE m = l
      BY <1>3, <2>1, <3>1
    <3>2. CASE m # l
      BY <1>3, <2>1, <3>2, WholeFinite DEF TornInv
    <3>3. QED
      BY <3>1, <3>2
  <2>3. reported[m] + (IF torn[m] THEN 1 ELSE 0) <= tears + a /\ reported[m] \in Nat
    BY <2>1 DEF TornInv
  <2>4. reported[m] + 1 <= (tears + 1) + b
    BY <1>4, <2>2, <2>3
  <2>5. reported[m] + 0 <= (tears + 1) + b
    BY <1>4, <2>2, <2>3
  <2>6. QED
    BY <1>1, <2>1, <2>4, <2>5
<1>6. ASSUME NEW m \in Logs, torn'[m]
      PROVE  lines'[m] # <<>> /\ lines'[m][Len(lines'[m])] = Torn
  BY <1>3, <1>4, <1>6 DEF TornInv
<1>7. QED
  BY <1>3, <1>4, <1>5, <1>6 DEF TornInv

LEMMA TornStep == TornInv /\ [Next]_vars => TornInv'
<1> SUFFICES ASSUME TornInv, [Next]_vars PROVE TornInv'
  OBVIOUS
<1>1. CASE UNCHANGED <<lines, torn, reported, tears, now>>
  BY <1>1 DEF TornInv
<1>2. CASE RunsNext
  <2>1. ASSUME NEW run \in Executions, RecordExecution(run)
        PROVE  TornInv'
    <3>1. PICK line : line = [kind |-> "run", skill |-> run.skill, outcome |-> run.outcome,
                              reason |-> run.reason, at |-> now]
      OBVIOUS
    <3>2. line \in Lines /\ line.kind # "torn"
      BY <3>1 DEF Executions, Lines, TornInv
    <3>3. Add("runs", line)
      BY <2>1, <3>1 DEF RecordExecution
    <3>4. QED
      BY <3>2, <3>3, AddKeeps DEF Logs
  <2>2. ASSUME NEW obs \in Observations, AppendObservation(obs)
        PROVE  TornInv'
    <3>1. obs \in Lines /\ obs.kind # "torn"
      BY DEF Observations, Lines
    <3>2. QED
      BY <2>2, <3>1, AddKeeps DEF Logs, AppendObservation
  <2>3. ASSUME Tick
        PROVE  TornInv'
    <3>1. /\ lines' = lines /\ torn' = torn /\ reported' = reported /\ tears' = tears /\ now' \in Nat
      BY <2>3 DEF Tick, TornInv
    <3>2. QED
      BY <3>1 DEF TornInv
  <2>4. QED
    BY <1>2, <2>1, <2>2, <2>3, TearKeeps DEF RunsNext
<1>3. QED
  BY <1>1, <1>2 DEF Next, vars

LEMMA TornBegins == RunsInit => TornInv
<1>1. SUFFICES ASSUME RunsInit PROVE TornInv
  OBVIOUS
<1>2. /\ lines = [l \in Logs |-> <<>>] /\ torn = [l \in Logs |-> FALSE] /\ reported = [l \in Logs |-> 0]
      /\ tears = 0 /\ now = 0
  BY <1>1 DEF RunsInit
<1>3. lines \in [Logs -> Seq(Lines)]
  BY <1>2
<1>4. \A l \in Logs : Cardinality(WholeLines(lines[l])) \in Nat
  BY <1>3, WholeFinite
<1>5. QED
  BY <1>2, <1>3, <1>4 DEF TornInv

\* A writer that dies in mid-line costs the line it wrote and at most one
\* other: of all lines that were reported as written at most as many are not
\* read as writers died, in either log, whoever appends when.
THEOREM TornLinesCost == Spec => []TornLinesCostOne
<1>1. Init => TornInv
  BY TornBegins DEF Init
<1>2. TornInv /\ [Next]_vars => TornInv'
  BY TornStep
<1>3. TornInv => TornLinesCostOne
  <2>1. SUFFICES ASSUME TornInv, NEW l \in Logs
                 PROVE  reported[l] - Len(Read(l)) <= tears
    BY DEF TornLinesCostOne
  <2>2. PICK n : n = Cardinality(WholeLines(lines[l]))
    OBVIOUS
  <2>3. n \in Nat /\ Len(Read(l)) = n
    <3>1. lines[l] \in Seq(Lines)
      BY <2>1 DEF TornInv
    <3>2. QED
      BY <2>1, <2>2, <3>1, WholeFinite, ReadLength
  <2>4. reported[l] + (IF torn[l] THEN 1 ELSE 0) <= tears + n /\ reported[l] \in Nat /\ tears \in Nat
    BY <2>1, <2>2 DEF TornInv
  <2>5. reported[l] <= tears + n
    BY <2>3, <2>4
  <2>6. QED
    BY <2>3, <2>4, <2>5
<1> QED
  BY <1>1, <1>2, <1>3, PTL DEF Spec

-----------------------------------------------------------------------------
(* The rows of a store.                                                    *)

\* A database has finitely many rows, each admitted by the schema.
Sane(db) == IsFiniteSet(DOMAIN db.rows) /\ \A k \in DOMAIN db.rows : db.rows[k].value \in Valid[k.table]

Stored ==
  /\ file.kind = "whole" => Sane(file.db)
  /\ \A p \in Stores : IsOpen(p) => Sane(store[p].db)

LEMMA StoredBegins == StoreInit => Stored
<1>1. StoreInit => file = Missing /\ \A p \in Stores : store[p] = Shut
  BY DEF StoreInit
<1>2. Shut.pc = "shut" /\ Missing.kind # "whole"
  BY DEF Shut, Missing
<1>3. QED
  BY <1>1, <1>2 DEF Stored, IsOpen

LEMMA OthersStored ==
  ASSUME Stored, NEW p \in Stores, OthersStay(p), IsOpen(p)' => Sane(store'[p].db),
         file'.kind = "whole" => Sane(file'.db)
  PROVE  Stored'
<1>1. ASSUME NEW q \in Stores \ {p}, IsOpen(q)'
      PROVE  Sane(store'[q].db)
  <2>1. store'[q] = store[q]
    BY DEF OthersStay
  <2>2. QED
    BY <1>1, <2>1 DEF Stored, IsOpen
<1>2. QED
  BY <1>1 DEF Stored, Sane, IsOpen

LEMMA UpsertSane ==
  ASSUME NEW rows, NEW key, NEW row, NEW new, new = Upsert(rows, key, row), row.value \in Valid[key.table],
         IsFiniteSet(DOMAIN rows), \A k \in DOMAIN rows : rows[k].value \in Valid[k.table]
  PROVE  IsFiniteSet(DOMAIN new) /\ \A k \in DOMAIN new : new[k].value \in Valid[k.table]
<1>1. DOMAIN new = DOMAIN rows \cup {key} /\ \A k \in DOMAIN new : new[k] = IF k = key THEN row ELSE rows[k]
  BY DEF Upsert
<1>2. IsFiniteSet(DOMAIN new)
  BY <1>1, FS_AddElement
<1>3. QED
  BY <1>1, <1>2

LEMMA StoredStep == Shape /\ Stored /\ [StoreNext]_storeVars => Stored'
<1> SUFFICES ASSUME Shape, Stored, [StoreNext]_storeVars
             PROVE  Stored'
  OBVIOUS
<1>1. ASSUME NEW p \in Stores, Open(p)
      PROVE  Stored'
  <2>1. OthersStay(p) /\ file' = file
    BY <1>1, OpenEffect
  <2>2. Sane(store'[p].db)
    <3>1. CASE file.kind = "whole"
      <4>1. store'[p].db.rows = file.db.rows
        BY <1>1, <3>1, OpenEffect
      <4>2. QED
        BY <3>1, <4>1 DEF Stored, Sane
    <3>2. CASE file.kind # "whole"
      <4>1. store'[p].db.rows = NoRows
        BY <1>1, <3>2, OpenEffect
      <4>2. DOMAIN NoRows = {}
        BY DEF NoRows
      <4>3. QED
        BY <4>1, <4>2, FS_EmptySet DEF Sane
    <3>3. QED
      BY <3>1, <3>2
  <2>3. file'.kind = "whole" => Sane(file'.db)
    BY <2>1 DEF Stored
  <2>4. QED
    BY <2>1, <2>2, <2>3, OthersStored
<1>2. ASSUME NEW p \in Stores, SaveEmpties(p)
      PROVE  Stored'
  <2>1. OthersStay(p) /\ store'[p].db = store[p].db /\ IsOpen(p) /\ file' = Empty
    BY <1>2, SaveEmptiesEffect
  <2>2. file'.kind # "whole"
    BY <2>1 DEF Empty
  <2>3. Sane(store'[p].db)
    BY <2>1 DEF Stored
  <2>4. QED
    BY <2>1, <2>2, <2>3, OthersStored
<1>3. ASSUME NEW p \in Stores, SaveFills(p)
      PROVE  Stored'
  <2>1. OthersStay(p) /\ IsOpen(p) /\ file' = Whole(store[p].db)
    BY <1>3, SaveFillsEffect
  <2>2. Sane(store[p].db) /\ file'.db = store[p].db
    BY <2>1 DEF Stored, Whole
  <2>3. IsOpen(p)' => Sane(store'[p].db)
    <3>1. CASE store[p].then = "shut"
      <4>1. store'[p] = Shut
        BY <1>3, <3>1, SaveFillsEffect
      <4>2. QED
        BY <4>1 DEF IsOpen, Shut
    <3>2. CASE store[p].then # "shut"
      <4>1. store'[p].db = store[p].db
        BY <1>3, <3>2, SaveFillsEffect
      <4>2. QED
        BY <2>2, <4>1
    <3>3. QED
      BY <3>1, <3>2
  <2>4. file'.kind = "whole" => Sane(file'.db)
    BY <2>2
  <2>5. QED
    BY <2>1, <2>3, <2>4, OthersStored
<1>4. ASSUME NEW p \in Stores, Migrate(p) \/ ListMigrations(p) \/ Close(p)
      PROVE  Stored'
  <2>1. Continues(p)
    BY <1>4, ContinuesEffect
  <2>2. OthersStay(p) /\ IsOpen(p) /\ store'[p].db.rows = store[p].db.rows /\ file' = file
    BY <2>1 DEF Continues
  <2>3. Sane(store'[p].db) /\ (file'.kind = "whole" => Sane(file'.db))
    BY <2>2 DEF Stored, Sane
  <2>4. QED
    BY <2>2, <2>3, OthersStored
<1>5. ASSUME NEW p \in Stores, NEW key \in Keys, NEW row \in Rows(key), Write(p, key, row)
      PROVE  Stored'
  <2>1. OthersStay(p) /\ IsOpen(p) /\ store'[p].db.rows = Upsert(store[p].db.rows, key, row) /\ file' = file
    BY <1>5, WriteEffect
  <2>2. row.value \in Valid[key.table]
    BY <1>5 DEF Write, ValidEntity
  <2>3. Sane(store[p].db)
    BY <2>1 DEF Stored
  <2>4. PICK rows, new : rows = store[p].db.rows /\ new = store'[p].db.rows
    OBVIOUS
  <2>5. IsFiniteSet(DOMAIN new) /\ \A k \in DOMAIN new : new[k].value \in Valid[k.table]
    <3>1. new = Upsert(rows, key, row)
      BY <2>1, <2>4
    <3>2. IsFiniteSet(DOMAIN rows) /\ \A k \in DOMAIN rows : rows[k].value \in Valid[k.table]
      BY <2>3, <2>4 DEF Sane
    <3>3. QED
      BY <2>2, <3>1, <3>2, UpsertSane
  <2>6. Sane(store'[p].db) /\ (file'.kind = "whole" => Sane(file'.db))
    BY <2>1, <2>4, <2>5 DEF Stored, Sane
  <2>7. QED
    BY <2>1, <2>6, OthersStored
<1>6. ASSUME NEW p \in Stores, KillStore(p)
      PROVE  Stored'
  <2>1. OthersStay(p) /\ store'[p] = Shut /\ file' = file
    BY <1>6, KillEffect
  <2>2. ~IsOpen(p)' /\ (file'.kind = "whole" => Sane(file'.db))
    BY <2>1 DEF IsOpen, Shut, Stored
  <2>3. QED
    BY <2>1, <2>2, OthersStored
<1>7. CASE UNCHANGED storeVars
  <2>1. file' = file /\ store' = store
    BY <1>7 DEF storeVars
  <2>2. QED
    BY <2>1 DEF Stored, IsOpen
<1>8. QED
  BY <1>1, <1>2, <1>3, <1>4, <1>5, <1>6, <1>7 DEF StoreNext

-----------------------------------------------------------------------------
(* Counting.                                                               *)

LEMMA SmallestSet ==
  ASSUME NEW W, W # {}, \A T \in W : IsFiniteSet(T)
  PROVE  \E T \in W : \A R \in W : Cardinality(R) \in Nat /\ Cardinality(T) <= Cardinality(R)
<1>1. PICK sizes : sizes = {Cardinality(T) : T \in W}
  OBVIOUS
<1>2. sizes \in SUBSET Nat /\ sizes # {}
  BY <1>1, FS_CardinalityType
<1>3. PICK n \in sizes : \A k \in sizes : n <= k
  BY <1>2, LeastNumber
<1>4. PICK T \in W : n = Cardinality(T)
  BY <1>1
<1>5. \A R \in W : Cardinality(R) \in sizes /\ Cardinality(R) \in Nat
  BY <1>1, <1>2
<1> QED
  BY <1>3, <1>4, <1>5

LEMMA Smaller ==
  ASSUME NEW T, IsFiniteSet(T), NEW x \in T
  PROVE  /\ IsFiniteSet(T \ {x})
         /\ Cardinality(T) \in Nat /\ Cardinality(T \ {x}) \in Nat
         /\ Cardinality(T) = Cardinality(T \ {x}) + 1
<1>1. IsFiniteSet(T \ {x}) /\ Cardinality(T \ {x}) = Cardinality(T) - 1
  BY FS_RemoveElement
<1>2. Cardinality(T) \in Nat
  BY FS_CardinalityType
<1>3. Cardinality(T \ {x}) \in Nat
  BY <1>1, FS_CardinalityType
<1> QED
  BY <1>1, <1>2, <1>3

LEMMA Disjoint ==
  ASSUME NEW S, IsFiniteSet(S), NEW T, IsFiniteSet(T), S \cap T = {}
  PROVE  /\ IsFiniteSet(S \cup T)
         /\ Cardinality(S) \in Nat /\ Cardinality(T) \in Nat
         /\ Cardinality(S \cup T) = Cardinality(S) + Cardinality(T)
<1>1. IsFiniteSet(S \cup T) /\ Cardinality(S \cup T) = Cardinality(S) + Cardinality(T) - Cardinality(S \cap T)
  BY FS_Union
<1>2. Cardinality(S) \in Nat /\ Cardinality(T) \in Nat /\ Cardinality(S \cap T) = 0
  BY FS_CardinalityType, FS_EmptySet
<1> QED
  BY <1>1, <1>2

\* the members that f sends to Q
Hits(f, F, Q) == {k \in F : f[k] \in Q}

\* If many are put into few holes, there are several in one.
LEMMA Crowded ==
  ASSUME NEW F, IsFiniteSet(F), NEW R, IsFiniteSet(R), NEW f \in [F -> R], NEW n \in Nat,
         Cardinality(F) > Cardinality(R) * n
  PROVE  \E r \in R : Cardinality(Hits(f, F, {r})) > n
<1> DEFINE W == {Q \in SUBSET R : Cardinality(Hits(f, F, Q)) > Cardinality(Q) * n}
<1>1. \A Q \in SUBSET R : IsFiniteSet(Q) /\ Cardinality(Q) \in Nat
  BY FS_Subset, FS_CardinalityType
<1>2. \A Q : IsFiniteSet(Hits(f, F, Q)) /\ Cardinality(Hits(f, F, Q)) \in Nat
  BY FS_Subset, FS_CardinalityType DEF Hits
<1>3. R \in W
  <2>1. Hits(f, F, R) = F
    BY DEF Hits
  <2>2. QED
    BY <2>1
<1>4. PICK Q \in W : \A P \in W : Cardinality(P) \in Nat /\ Cardinality(Q) <= Cardinality(P)
  <2>1. \A P \in W : IsFiniteSet(P)
    BY <1>1
  <2> HIDE DEF W
  <2>2. QED
    BY <1>3, <2>1, SmallestSet
<1>5. Q \in SUBSET R /\ IsFiniteSet(Q) /\ Cardinality(Hits(f, F, Q)) > Cardinality(Q) * n
  BY <1>1
<1>6. Q # {}
  <2>1. SUFFICES ASSUME Q = {} PROVE FALSE
    OBVIOUS
  <2>2. Hits(f, F, Q) = {}
    BY <2>1 DEF Hits
  <2>3. Cardinality(Q) = 0 /\ Cardinality(Hits(f, F, Q)) = 0
    BY <2>1, <2>2, FS_EmptySet
  <2>4. QED
    BY <1>5, <2>3
<1>7. PICK r \in Q : TRUE
  BY <1>6
<1>8. PICK P : P = Q \ {r}
  OBVIOUS
<1>9. Cardinality(Q) = Cardinality(P) + 1 /\ Cardinality(P) \in Nat
  BY <1>5, <1>8, Smaller
<1>10. Cardinality(Hits(f, F, P)) <= Cardinality(P) * n
  <2>1. P \notin W
    <3> HIDE DEF W
    <3>1. QED
      BY <1>4, <1>9
  <2>2. P \in SUBSET R
    BY <1>5, <1>8
  <2>3. PICK a, b : a = Cardinality(Hits(f, F, P)) /\ b = Cardinality(P) * n
    OBVIOUS
  <2>4. ~(a > b) /\ a \in Nat /\ b \in Nat
    BY <1>2, <1>9, <2>1, <2>2, <2>3
  <2>5. QED
    BY <2>3, <2>4
<1>11. Cardinality(Hits(f, F, Q)) = Cardinality(Hits(f, F, P)) + Cardinality(Hits(f, F, {r}))
  <2>1. Hits(f, F, Q) = Hits(f, F, P) \cup Hits(f, F, {r}) /\ Hits(f, F, P) \cap Hits(f, F, {r}) = {}
    BY <1>8 DEF Hits
  <2>2. QED
    BY <1>2, <2>1, Disjoint
<1>12. PICK q, p, a, b, c :
         /\ q = Cardinality(Q) /\ p = Cardinality(P) /\ a = Cardinality(Hits(f, F, Q))
         /\ b = Cardinality(Hits(f, F, P)) /\ c = Cardinality(Hits(f, F, {r}))
  OBVIOUS
<1>13. /\ a \in Nat /\ b \in Nat /\ c \in Nat /\ p \in Nat /\ q = p + 1
       /\ a > q * n /\ b <= p * n /\ a = b + c
  BY <1>2, <1>5, <1>9, <1>10, <1>11, <1>12
<1>14. (p + 1) * n = p * n + n /\ p * n \in Nat
  BY <1>13
<1>15. PICK pn : pn = p * n
  OBVIOUS
<1>16. a > pn + n /\ b <= pn /\ pn \in Nat
  BY <1>13, <1>14, <1>15
<1>17. c > n
  BY <1>13, <1>16
<1>18. QED
  BY <1>5, <1>7, <1>12, <1>17

-----------------------------------------------------------------------------
(* The inspection.                                                         *)

LEMMA InspectionIsRight ==
  ASSUME NEW db, Sane(db)
  PROVE  LET window == Newest(db, WindowSize)
         IN  /\ Inspection(db).failures <= StatusSummary(db, window).failure
             /\ \A s \in Skills :
                  Cardinality({k \in RunsThat(db, window, "failure") : Held(db, k).skill = s})
                    > Cardinality(Reasons) * (PatternThreshold - 1) => s \in Inspection(db).affected
<1>1. PICK window, failed : window = Newest(db, WindowSize) /\ failed = RunsThat(db, window, "failure")
  OBVIOUS
<1>2. window \subseteq RunsOf(db) /\ failed \subseteq window
  BY <1>1 DEF Newest, RunsThat
<1>3. IsFiniteSet(failed)
  <2>1. failed \subseteq DOMAIN db.rows
    BY <1>2 DEF RunsOf
  <2>2. QED
    BY <2>1, FS_Subset DEF Sane
<1>4. \A k \in failed : Held(db, k).outcome = "failure" /\ Held(db, k).reason \in Reasons
  <2>1. \A k \in failed : Held(db, k).outcome = "failure"
    BY <1>1 DEF RunsThat
  <2>2. \A k \in failed : Held(db, k) \in Valid["skill_runs"]
    BY <1>2 DEF RunsOf, Held, Sane
  <2>3. QED
    BY <2>1, <2>2, ReportsAssumption
<1>5. PICK patterns, all :
        /\ patterns = Patterns(db, window)
        /\ all = UNION {FailuresOf(db, window, g[1], g[2]) : g \in patterns}
  OBVIOUS
<1>6. Inspection(db).failures = Cardinality(all) /\ Inspection(db).affected = {g[1] : g \in patterns}
  BY <1>1, <1>5 DEF Inspection
<1>7. Inspection(db).failures <= StatusSummary(db, window).failure
  <2>1. \A s, r : FailuresOf(db, window, s, r) \subseteq failed
    BY <1>1 DEF FailuresOf
  <2>2. all \subseteq failed
    BY <1>5, <2>1
  <2>3. Cardinality(all) <= Cardinality(failed)
    BY <1>3, <2>2, FS_Subset
  <2>4. StatusSummary(db, window).failure = Cardinality(failed)
    BY <1>1 DEF StatusSummary
  <2>5. QED
    BY <1>6, <2>3, <2>4
<1>8. ASSUME NEW s \in Skills,
             Cardinality({k \in failed : Held(db, k).skill = s}) > Cardinality(Reasons) * (PatternThreshold - 1)
      PROVE  s \in Inspection(db).affected
  <2>1. PICK F : F = {k \in failed : Held(db, k).skill = s}
    OBVIOUS
  <2>2. IsFiniteSet(F) /\ F \subseteq failed
    BY <1>3, <2>1, FS_Subset
  <2>3. PICK f : f = [k \in F |-> Held(db, k).reason]
    OBVIOUS
  <2>4. f \in [F -> Reasons]
    BY <1>4, <2>2, <2>3
  <2>5. PICK n : n = PatternThreshold - 1
    OBVIOUS
  <2>6. n \in Nat /\ PatternThreshold \in Nat /\ IsFiniteSet(Reasons)
    BY <2>5, ReportsAssumption
  <2>7. PICK r \in Reasons : Cardinality(Hits(f, F, {r})) > n
    <3>1. Cardinality(F) > Cardinality(Reasons) * n
      BY <1>8, <2>1, <2>5
    <3>2. QED
      BY <2>2, <2>4, <2>6, <3>1, Crowded
  <2>8. Hits(f, F, {r}) = FailuresOf(db, window, s, r)
    BY <1>1, <2>1, <2>3 DEF Hits, FailuresOf
  <2>9. Cardinality(FailuresOf(db, window, s, r)) >= PatternThreshold
    <3>1. Cardinality(Hits(f, F, {r})) \in Nat
      BY <2>2, FS_Subset, FS_CardinalityType DEF Hits
    <3>2. PICK c : c = Cardinality(Hits(f, F, {r}))
      OBVIOUS
    <3>3. c >= PatternThreshold
      BY <2>5, <2>6, <2>7, <3>1, <3>2
    <3>4. QED
      BY <2>8, <3>2, <3>3
  <2>10. <<s, r>> \in patterns
    BY <1>5, <2>9 DEF Patterns
  <2>11. QED
    BY <1>6, <2>10
<1>9. QED
  BY <1>1, <1>7, <1>8

-----------------------------------------------------------------------------
(* Selections of a sequence.                                               *)

\* r numbers the members of P from 1 to n
Ranking(P, n, r) ==
  /\ n = Cardinality(P)
  /\ \A i \in P : r[i] = Cardinality({j \in P : j <= i})
  /\ \A i, k \in P : r[i] = r[k] => i = k
  /\ \A k \in 1..n : \E i \in P : r[i] = k

\* The places of a sequence, each with its number among them.
LEMMA Ranks ==
  ASSUME NEW m \in Nat, NEW P \in SUBSET (1..m)
  PROVE  \E n \in Nat : \E r \in [P -> 1..n] : Ranking(P, n, r)
<1> DEFINE Upto(i) == {j \in P : j <= i}
<1>16. IsFiniteSet(1..m) /\ P \subseteq 1..m /\ \A i \in P : i \in Int
  BY FS_Interval
<1>1. IsFiniteSet(P) /\ Cardinality(P) \in Nat
  BY <1>16, FS_Subset, FS_CardinalityType
<1>2. PICK n \in Nat : n = Cardinality(P)
  BY <1>1
<1>3. \A i \in P : IsFiniteSet(Upto(i)) /\ Cardinality(Upto(i)) \in Nat /\ Cardinality(Upto(i)) <= n
  BY <1>1, <1>2, FS_Subset, FS_CardinalityType
<1>4. \A i \in P : Upto(i) # {}
  BY DEF Upto
<1>5. \A i \in P : Cardinality(Upto(i)) # 0
  BY <1>3, <1>4, FS_EmptySet
<1>6. PICK r : r = [i \in P |-> Cardinality(Upto(i))]
  OBVIOUS
<1>7. ASSUME NEW i \in P, NEW k \in P, i < k PROVE r[i] < r[k]
  <2>1. Upto(i) \subseteq Upto(k) \ {k} /\ k \in Upto(k)
    <3>1. i \in Int /\ k \in Int /\ \A j \in P : j \in Int
      BY <1>16
    <3>2. \A j \in P : j <= i => j <= k /\ j # k
      BY <3>1, <1>7
    <3>3. k <= k
      BY <3>1
    <3>4. QED
      BY <3>2, <3>3
  <2> HIDE DEF Upto
  <2>2. Cardinality(Upto(k) \ {k}) = Cardinality(Upto(k)) - 1
    BY <2>1, <1>3, FS_RemoveElement
  <2>3. IsFiniteSet(Upto(k) \ {k})
    BY <1>3, FS_Subset
  <2>4. Cardinality(Upto(i)) <= Cardinality(Upto(k) \ {k})
    BY <2>1, <2>3, FS_Subset
  <2>5. QED
    BY <2>2, <2>4, <1>3, <1>6
<1>8. \A i \in P : r[i] \in 1..n /\ r[i] = Cardinality(Upto(i))
  <2> HIDE DEF Upto
  <2>1. QED
    BY <1>3, <1>5, <1>6
<1>9. r \in [P -> 1..n]
  <2> HIDE DEF Upto
  <2>1. QED
    BY <1>6, <1>8
<1>10. \A i, k \in P : r[i] = r[k] => i = k
  <2>1. SUFFICES ASSUME NEW i \in P, NEW k \in P, r[i] = r[k], i # k PROVE FALSE
    OBVIOUS
  <2>2. i \in Int /\ k \in Int
    BY <1>16
  <2>6. r[i] \in 1..n
    BY <1>8
  <2>3. i < k \/ k < i
    BY <2>1, <2>2
  <2>4. r[i] < r[k] \/ r[k] < r[i]
    BY <2>3, <1>7
  <2>5. QED
    BY <2>1, <2>6, <2>4
<1>11. r \in Injection(P, 1..n)
  BY <1>9, <1>10 DEF Injection, IsInjective
<1>12. IsFiniteSet(1..n) /\ Cardinality(1..n) = n
  BY FS_Interval
<1>13. r \in Surjection(P, 1..n)
  BY <1>2, <1>11, <1>12, FS_Injection
<1>14. \A k \in 1..n : \E i \in P : r[i] = k
  BY <1>13 DEF Surjection
<1>15. Ranking(P, n, r)
  <2>1. \A i \in P : r[i] = Cardinality({j \in P : j <= i})
    BY <1>8
  <2>2. QED
    BY <1>2, <1>10, <1>14, <2>1 DEF Ranking
<1>17. QED
  BY <1>9, <1>15

\* what stands at the places P of q, in their order; Those for a set of places
Selected(q, P) ==
  [k \in 1..Cardinality(P) |-> q[CHOOSE i \in P : Cardinality({j \in P : j <= i}) = k]]

\* t is what stands at the places P of q, each taken once
Follows(t, q, P) ==
  /\ IsFiniteSet(P)
  /\ \E nth \in Bijection(1..Cardinality(P), P) : t = [k \in 1..Cardinality(P) |-> q[nth[k]]]

LEMMA ChosenFollows ==
  ASSUME NEW m \in Nat, NEW P \in SUBSET (1..m), NEW q
  PROVE  Follows(Selected(q, P), q, P)
<1>1. PICK n \in Nat : \E r \in [P -> 1..n] : Ranking(P, n, r)
  BY Ranks
<1>2. PICK r \in [P -> 1..n] :
           /\ n = Cardinality(P)
           /\ \A i \in P : r[i] = Cardinality({j \in P : j <= i})
           /\ \A i, k \in P : r[i] = r[k] => i = k
           /\ \A k \in 1..n : \E i \in P : r[i] = k
  BY <1>1 DEF Ranking
<1>3. PICK f : f = [k \in 1..n |-> CHOOSE i \in P : Cardinality({j \in P : j <= i}) = k]
  OBVIOUS
<1>4. ASSUME NEW k \in 1..n PROVE f[k] \in P /\ r[f[k]] = k
  <2>1. \E i \in P : Cardinality({j \in P : j <= i}) = k
    <3>1. PICK i \in P : r[i] = k
      BY <1>2
    <3>2. QED
      BY <3>1, <1>2
  <2>2. f[k] \in P /\ Cardinality({j \in P : j <= f[k]}) = k
    BY <2>1, <1>3
  <2>3. QED
    BY <2>2, <1>2
<1>5. f \in Bijection(1..n, P)
  <2>1. f \in [1..n -> P]
    BY <1>3, <1>4
  <2>2. \A k, l \in 1..n : f[k] = f[l] => k = l
    BY <1>4
  <2>3. \A i \in P : \E k \in 1..n : f[k] = i
    <3>1. SUFFICES ASSUME NEW i \in P PROVE f[r[i]] = i
      OBVIOUS
    <3>2. r[i] \in 1..n /\ f[r[i]] \in P /\ r[f[r[i]]] = r[i]
      BY <1>2, <1>4
    <3>3. QED
      BY <3>2, <1>2
  <2>4. QED
    BY <2>1, <2>2, <2>3, Fun_IsBij
<1>6. PICK t : t = Selected(q, P)
  OBVIOUS
<1>7. t = [k \in 1..n |-> q[f[k]]]
  <2>1. t = [k \in 1..n |-> q[CHOOSE i \in P : Cardinality({j \in P : j <= i}) = k]]
    BY <1>2, <1>6 DEF Selected
  <2>2. \A k \in 1..n : t[k] = q[f[k]]
    BY <2>1, <1>3
  <2>3. QED
    BY <2>1, <2>2
<1>8. IsFiniteSet(P)
  <2>1. IsFiniteSet(1..m)
    BY FS_Interval
  <2>2. QED
    BY <2>1, FS_Subset
<1>9. QED
  BY <1>2, <1>5, <1>6, <1>7, <1>8 DEF Follows

LEMMA FollowsLen ==
  ASSUME NEW t, NEW q, NEW P, Follows(t, q, P)
  PROVE  /\ Len(t) \in Nat /\ Len(t) = Cardinality(P) /\ DOMAIN t = 1..Len(t)
         /\ t = <<>> => P = {}
<1>1. PICK n \in Nat : n = Cardinality(P)
  BY FS_CardinalityType DEF Follows
<1>2. PICK nth \in Bijection(1..n, P) : t = [k \in 1..n |-> q[nth[k]]]
  BY <1>1 DEF Follows
<1>3. Len(t) = n /\ DOMAIN t = 1..n
  BY <1>2
<1>4. t = <<>> => P = {}
  <2>1. SUFFICES ASSUME t = <<>> PROVE P = {}
    OBVIOUS
  <2>2. Len(t) = 0
    BY <2>1
  <2>3. QED
    BY <1>1, <1>3, <2>2, FS_EmptySet DEF Follows
<1>5. QED
  BY <1>1, <1>3, <1>4

\* K are the places of t that have what the places R of q have.
Answers(K, t, P, R, q) ==
  /\ K \subseteq DOMAIN t /\ R \subseteq P
  /\ \A k \in DOMAIN t : \A i \in P : t[k] = q[i] => (k \in K <=> i \in R)

LEMMA FollowsCount ==
  ASSUME NEW t, NEW q, NEW P, Follows(t, q, P), NEW K, NEW R, Answers(K, t, P, R, q)
  PROVE  IsFiniteSet(K) /\ IsFiniteSet(R) /\ Cardinality(K) = Cardinality(R) /\ Cardinality(R) \in Nat
<1>1. PICK n \in Nat : n = Cardinality(P)
  BY FS_CardinalityType DEF Follows
<1>2. PICK nth \in Bijection(1..n, P) : t = [k \in 1..n |-> q[nth[k]]]
  BY <1>1 DEF Follows
<1>3. /\ nth \in [1..n -> P] /\ \A a, b \in 1..n : nth[a] = nth[b] => a = b
      /\ \A i \in P : \E k \in 1..n : nth[k] = i
  BY <1>2, Fun_BijectionProperties
<1>4. DOMAIN t = 1..n /\ \A k \in 1..n : t[k] = q[nth[k]]
  BY <1>2
<1>5. \A k \in 1..n : k \in K <=> nth[k] \in R
  BY <1>3, <1>4 DEF Answers
<1>6. PICK g : g = [k \in K |-> nth[k]]
  OBVIOUS
<1>7. K \subseteq 1..n /\ R \subseteq P
  BY <1>4 DEF Answers
<1>8. g \in Bijection(K, R)
  <2>1. g \in [K -> R]
    BY <1>5, <1>6, <1>7
  <2>2. \A a, b \in K : g[a] = g[b] => a = b
    BY <1>3, <1>6, <1>7
  <2>3. \A i \in R : \E k \in K : g[k] = i
    BY <1>3, <1>5, <1>6, <1>7
  <2>4. QED
    BY <2>1, <2>2, <2>3, Fun_IsBij
<1>9. IsFiniteSet(K)
  <2>1. IsFiniteSet(1..n)
    BY FS_Interval
  <2>2. QED
    BY <1>7, <2>1, FS_Subset
<1>10. ExistsBijection(K, R)
  BY <1>8 DEF ExistsBijection
<1>11. QED
  BY <1>9, <1>10, FS_Bijection, FS_CardinalityType

\* What is chosen of a selection is a selection.
LEMMA FollowsOn ==
  ASSUME NEW t, NEW q, NEW P, Follows(t, q, P), NEW K, NEW R, Answers(K, t, P, R, q)
  PROVE  Follows(Selected(t, K), q, R)
<1>1. PICK n \in Nat : n = Cardinality(P)
  BY FS_CardinalityType DEF Follows
<1>2. PICK nth \in Bijection(1..n, P) : t = [k \in 1..n |-> q[nth[k]]]
  BY <1>1 DEF Follows
<1>3. /\ nth \in [1..n -> P] /\ \A a, b \in 1..n : nth[a] = nth[b] => a = b
      /\ \A i \in P : \E k \in 1..n : nth[k] = i
  BY <1>2, Fun_BijectionProperties
<1>4. DOMAIN t = 1..n /\ \A k \in 1..n : t[k] = q[nth[k]]
  BY <1>2
<1>5. \A k \in 1..n : k \in K <=> nth[k] \in R
  BY <1>3, <1>4 DEF Answers
<1>6. K \subseteq 1..n /\ R \subseteq P
  BY <1>4 DEF Answers
<1>7. PICK u : u = Selected(t, K)
  OBVIOUS
<1>8. Follows(u, t, K)
  BY <1>6, <1>7, ChosenFollows
<1>9. PICK c \in Nat : c = Cardinality(K) /\ c = Cardinality(R) /\ IsFiniteSet(R)
  BY FollowsCount
<1>10. PICK f \in Bijection(1..c, K) : u = [k \in 1..c |-> t[f[k]]]
  BY <1>8, <1>9 DEF Follows
<1>11. /\ f \in [1..c -> K] /\ \A a, b \in 1..c : f[a] = f[b] => a = b
       /\ \A i \in K : \E k \in 1..c : f[k] = i
  BY <1>10, Fun_BijectionProperties
<1>12. PICK h : h = [k \in 1..c |-> nth[f[k]]]
  OBVIOUS
<1>13. h \in Bijection(1..c, R)
  <2>1. h \in [1..c -> R]
    BY <1>5, <1>6, <1>11, <1>12
  <2>2. ASSUME NEW a \in 1..c, NEW b \in 1..c, h[a] = h[b] PROVE a = b
    <3>1. f[a] \in 1..n /\ f[b] \in 1..n
      BY <1>6, <1>11
    <3>2. nth[f[a]] = nth[f[b]]
      BY <1>12, <2>2
    <3>3. f[a] = f[b]
      BY <1>3, <3>1, <3>2
    <3>4. QED
      BY <1>11, <3>3
  <2>3. ASSUME NEW i \in R PROVE \E k \in 1..c : h[k] = i
    <3>1. PICK l \in 1..n : nth[l] = i
      BY <1>3, <1>6
    <3>2. l \in K
      BY <1>5, <2>3, <3>1
    <3>3. PICK k \in 1..c : f[k] = l
      BY <1>11, <3>2
    <3>4. QED
      BY <1>12, <3>1, <3>3
  <2>4. QED
    BY <2>1, <2>2, <2>3, Fun_IsBij
<1>14. u = [k \in 1..c |-> q[h[k]]]
  <2>1. \A k \in 1..c : t[f[k]] = q[h[k]]
    BY <1>4, <1>6, <1>11, <1>12
  <2>2. QED
    BY <1>10, <2>1
<1>15. QED
  BY <1>7, <1>9, <1>13, <1>14 DEF Follows

-----------------------------------------------------------------------------
(* What is concluded from the observations.                                *)

\* the observations of some variants of a skill, and the successes among them
ObservationsOf(s, variants) ==
  {i \in DOMAIN lines["observations"] :
     /\ lines["observations"][i].kind # "torn"
     /\ lines["observations"][i].skill = s
     /\ lines["observations"][i].variant \in variants}
Won(places) == {i \in places : lines["observations"][i].success}

LEMMA ReadIs ==
  ASSUME TornInv, NEW l \in Logs
  PROVE  /\ IsFiniteSet(WholeLines(lines[l]))
         /\ Follows(Read(l), lines[l], WholeLines(lines[l]))
<1>1. PICK q, P : q = lines[l] /\ P = WholeLines(q)
  OBVIOUS
<1>2. q \in Seq(Lines)
  BY <1>1 DEF TornInv
<1>3. PICK m \in Nat : P \in SUBSET (1..m) /\ IsFiniteSet(P)
  BY <1>1, <1>2, WholeFinite
<1>4. Read(l) = Selected(q, P)
  BY <1>1 DEF Read, Those, Selected, WholeLines
<1>5. QED
  BY <1>1, <1>3, <1>4, ChosenFollows

LEMMA ObservedAre ==
  ASSUME TornInv, NEW s, NEW variants
  PROVE  Follows(OfVariants(s, variants), lines["observations"], ObservationsOf(s, variants))
<1>1. PICK q, P : q = lines["observations"] /\ P = WholeLines(q)
  OBVIOUS
<1>2. PICK t : t = Read("observations")
  OBVIOUS
<1>3. Follows(t, q, P)
  BY <1>1, <1>2, ReadIs DEF Logs
<1>4. PICK K, R : K = {i \in DOMAIN t : t[i].skill = s} /\ R = {i \in P : q[i].skill = s}
  OBVIOUS
<1>5. Answers(K, t, P, R, q)
  BY <1>4 DEF Answers
<1>6. PICK u : u = OfSkill(t, s)
  OBVIOUS
<1>7. u = Selected(t, K)
  BY <1>4, <1>6 DEF OfSkill, Those, Selected
<1>8. Follows(u, q, R)
  BY <1>3, <1>5, <1>7, FollowsOn
<1>9. PICK J, V : J = {i \in DOMAIN u : u[i].variant \in variants} /\ V = {i \in R : q[i].variant \in variants}
  OBVIOUS
<1>10. Answers(J, u, R, V, q)
  BY <1>9 DEF Answers
<1>11. OfVariants(s, variants) = Selected(u, J)
  BY <1>2, <1>6, <1>9 DEF OfVariants, Those, Selected
<1>12. V = ObservationsOf(s, variants)
  BY <1>1, <1>4, <1>9 DEF ObservationsOf, WholeLines
<1>13. QED
  BY <1>1, <1>8, <1>10, <1>11, <1>12, FollowsOn

LEMMA SummaryIs ==
  ASSUME TornInv, NEW s, NEW variants
  PROVE  LET sum == Summary(OfVariants(s, variants))
             all == ObservationsOf(s, variants)
         IN  /\ sum.runs = Cardinality(all) /\ Cardinality(all) \in Nat
             /\ Cardinality(Won(all)) \in Nat
             /\ sum.rate = IF Cardinality(all) = 0 THEN 0
                           ELSE Round(Cardinality(Won(all)), Cardinality(all), 1000)
<1>1. PICK t, q, P : t = OfVariants(s, variants) /\ q = lines["observations"] /\ P = ObservationsOf(s, variants)
  OBVIOUS
<1>2. Follows(t, q, P)
  BY <1>1, ObservedAre
<1>3. PICK K : K = {i \in DOMAIN t : t[i].success}
  OBVIOUS
<1>4. Answers(K, t, P, Won(P), q)
  BY <1>1, <1>3 DEF Answers, Won
<1>5. PICK runs, successes : runs = Len(t) /\ successes = Cardinality(K)
  OBVIOUS
<1>6. runs = Cardinality(P) /\ runs \in Nat
  BY <1>2, <1>5, FollowsLen
<1>7. successes = Cardinality(Won(P)) /\ successes \in Nat
  BY <1>2, <1>4, <1>5, FollowsCount
<1>8. Summary(t) = [runs |-> runs, successes |-> successes, failures |-> runs - successes,
                    rate |-> IF runs = 0 THEN 0 ELSE Round(successes, runs, 1000)]
  BY <1>3, <1>5 DEF Summary, Count
<1>9. QED
  BY <1>1, <1>6, <1>7, <1>8

\* Rounding keeps the order: what is more after it was more before.
LEMMA RoundKeepsOrder ==
  ASSUME NEW p \in Nat, NEW w \in Nat \ {0}, NEW b \in Nat, NEW v \in Nat \ {0},
         Round(p, w, 1000) > Round(b, v, 1000)
  PROVE  p * v > b * w
<1>1. SUFFICES ASSUME p * v <= b * w PROVE FALSE
  <2>1. p * v \in Nat /\ b * w \in Nat
    OBVIOUS
  <2>2. PICK x, y : x = p * v /\ y = b * w
    OBVIOUS
  <2>3. x > y
    BY <1>1, <2>1, <2>2
  <2>4. QED
    BY <2>2, <2>3
<1>2. PICK x \in Nat : x = (2000 * p + w) \div (2 * w)
  OBVIOUS
<1>3. PICK y \in Nat : y = (2000 * b + v) \div (2 * v)
  OBVIOUS
<1>4. x > y
  BY <1>2, <1>3 DEF Round
<1>5. (2 * w) * x <= 2000 * p + w
  BY <1>2
<1>6. 2000 * b + v < (2 * v) * (y + 1)
  BY <1>3
<1>7. ((2 * w) * x) * v <= (2000 * p + w) * v
  BY <1>5
<1>8. (2000 * p + w) * v = 2000 * (p * v) + w * v
  OBVIOUS
<1>9. (2000 * b + v) * w = 2000 * (b * w) + w * v
  OBVIOUS
<1>10. 2000 * (p * v) + w * v <= 2000 * (b * w) + w * v
  BY <1>1
<1>11. (2000 * b + v) * w < ((2 * v) * (y + 1)) * w
  BY <1>6
<1>12. ((2 * v) * (y + 1)) * w <= ((2 * w) * x) * v
  <2>1. ((2 * v) * (y + 1)) * w = (2 * w * v) * (y + 1)
    OBVIOUS
  <2>2. ((2 * w) * x) * v = (2 * w * v) * x
    OBVIOUS
  <2>3. PICK c \in Nat : c = 2 * w * v
    OBVIOUS
  <2>4. c * (y + 1) <= c * x
    BY <1>4
  <2>5. QED
    BY <2>1, <2>2, <2>3, <2>4
<1>13. PICK i \in Int, j \in Int, k \in Int, l \in Int :
         i = ((2 * w) * x) * v /\ j = (2000 * p + w) * v /\ k = (2000 * b + v) * w /\ l = ((2 * v) * (y + 1)) * w
  OBVIOUS
<1>14. i <= j /\ j <= k /\ k < l /\ l <= i
  BY <1>7, <1>8, <1>9, <1>10, <1>11, <1>12, <1>13
<1>15. QED
  BY <1>14

LEMMA PromotionIsEarned == TornInv => PromotionEarned
<1>1. SUFFICES ASSUME TornInv, NEW s \in Skills, NEW a \in Trials, Recommendation(s, a) = "promote-amendment"
               PROVE  LET trial == ObservationsOf(s, a)
                          base == ObservationsOf(s, Variants \ Amended)
                      IN  /\ Cardinality(Won(trial)) * Cardinality(base) > Cardinality(Won(base)) * Cardinality(trial)
                          /\ Cardinality(trial) >= MinRuns /\ Cardinality(base) >= MinRuns
  BY DEF PromotionEarned, ObservationsOf, Won
<1>2. PICK trial, base, st, sb :
        /\ trial = ObservationsOf(s, a) /\ base = ObservationsOf(s, Variants \ Amended)
        /\ st = Summary(OfVariants(s, a)) /\ sb = Summary(OfVariants(s, Variants \ Amended))
  OBVIOUS
<1>3. ~(sb.runs < MinRuns) /\ ~(st.runs < MinRuns) /\ st.rate > sb.rate
  <2>1. Recommendation(s, a) =
          IF sb.runs < MinRuns \/ st.runs < MinRuns THEN "insufficient-data"
          ELSE IF st.rate > sb.rate THEN "promote-amendment" ELSE "keep-baseline"
    BY <1>2 DEF Recommendation
  <2>2. QED
    BY <1>1, <2>1
<1>4. PICK p, w, b, v :
        /\ p = Cardinality(Won(trial)) /\ w = Cardinality(trial)
        /\ b = Cardinality(Won(base)) /\ v = Cardinality(base)
  OBVIOUS
<1>5. /\ p \in Nat /\ w \in Nat /\ st.runs = w
      /\ st.rate = IF w = 0 THEN 0 ELSE Round(p, w, 1000)
  BY <1>1, <1>2, <1>4, SummaryIs
<1>6. /\ b \in Nat /\ v \in Nat /\ sb.runs = v
      /\ sb.rate = IF v = 0 THEN 0 ELSE Round(b, v, 1000)
  BY <1>1, <1>2, <1>4, SummaryIs
<1>7. MinRuns \in Nat \ {0}
  BY ReportsAssumption
<1>8. w >= MinRuns /\ v >= MinRuns /\ w # 0 /\ v # 0
  BY <1>3, <1>5, <1>6, <1>7
<1>9. Round(p, w, 1000) > Round(b, v, 1000)
  BY <1>3, <1>5, <1>6, <1>8
<1>10. p * v > b * w
  BY <1>5, <1>6, <1>8, <1>9, RoundKeepsOrder
<1>11. QED
  BY <1>2, <1>4, <1>8, <1>10

-----------------------------------------------------------------------------
(* The panels.                                                             *)

\* every whole line of the log of runs has the time of the run
Dated == \A i \in WholeLines(lines["runs"]) : lines["runs"][i].at \in Nat

LEMMA DatedStep == TornInv /\ Dated /\ [Next]_vars => Dated'
<1> SUFFICES ASSUME TornInv, Dated, [Next]_vars PROVE Dated'
  OBVIOUS
<1>1. ASSUME NEW l \in Logs, NEW line \in Lines, lines' = Appended(l, line),
             l = "runs" /\ line.kind # "torn" => line.at \in Nat
      PROVE  Dated'
  <2>1. CASE torn[l]
    <3>1. lines' = [lines EXCEPT ![l] = Append(Front(lines[l]), Torn)]
      BY <1>1, <2>1 DEF Appended
    <3>2. Append(Front(lines[l]), Torn) = lines[l]
      BY <2>1, GluedSame DEF TornInv
    <3>3. lines' = lines
      BY <3>1, <3>2 DEF TornInv
    <3>4. QED
      BY <3>3 DEF Dated
  <2>2. CASE ~torn[l]
    <3>1. lines' = [lines EXCEPT ![l] = Append(lines[l], line)]
      BY <1>1, <2>2 DEF Appended
    <3>2. CASE l = "runs"
      <4>1. PICK s, t, n : s = lines["runs"] /\ t = Append(s, line) /\ n = Len(s)
        OBVIOUS
      <4>2. s \in Seq(Lines) /\ lines'["runs"] = t
        BY <3>1, <3>2, <4>1 DEF TornInv, Logs
      <4>3. /\ n \in Nat /\ DOMAIN s = 1..n /\ DOMAIN t = 1..(n + 1)
            /\ t[n + 1] = line /\ \A i \in 1..n : t[i] = s[i]
        BY <4>1, <4>2, AppendProperties, LenProperties
      <4>4. ASSUME NEW i \in WholeLines(t) PROVE t[i].at \in Nat
        <5>1. CASE i = n + 1
          BY <1>1, <3>2, <4>3, <4>4, <5>1 DEF WholeLines
        <5>2. CASE i # n + 1
          <6>1. i \in 1..n /\ t[i] = s[i]
            BY <4>3, <4>4, <5>2 DEF WholeLines
          <6>2. i \in WholeLines(s)
            BY <4>3, <4>4, <6>1 DEF WholeLines
          <6>3. QED
            BY <4>1, <6>1, <6>2 DEF Dated
        <5>3. QED
          BY <5>1, <5>2
      <4>5. QED
        BY <4>2, <4>4 DEF Dated
    <3>3. CASE l # "runs"
      <4>1. lines'["runs"] = lines["runs"]
        BY <3>1, <3>3 DEF TornInv, Logs
      <4>2. QED
        BY <4>1 DEF Dated
    <3>4. QED
      BY <3>2, <3>3
  <2>3. QED
    BY <2>1, <2>2
<1>2. CASE UNCHANGED <<lines, torn, reported, tears, now>>
  BY <1>2 DEF Dated
<1>3. CASE RunsNext
  <2>1. ASSUME NEW run \in Executions, RecordExecution(run)
        PROVE  Dated'
    <3>1. PICK line : line = [kind |-> "run", skill |-> run.skill, outcome |-> run.outcome,
                              reason |-> run.reason, at |-> now]
      OBVIOUS
    <3>2. line \in Lines /\ line.at \in Nat
      BY <3>1 DEF Executions, Lines, TornInv
    <3>3. lines' = Appended("runs", line)
      BY <2>1, <3>1 DEF RecordExecution, Add
    <3>4. QED
      BY <1>1, <3>2, <3>3 DEF Logs
  <2>2. ASSUME NEW obs \in Observations, AppendObservation(obs)
        PROVE  Dated'
    <3>1. obs \in Lines
      BY DEF Lines
    <3>2. lines' = Appended("observations", obs)
      BY <2>2 DEF AppendObservation, Add
    <3>3. QED
      BY <1>1, <3>1, <3>2 DEF Logs
  <2>3. ASSUME NEW l \in Logs, Tear(l)
        PROVE  Dated'
    <3>1. Torn \in Lines /\ Torn.kind = "torn" /\ lines' = Appended(l, Torn)
      BY <2>3 DEF Lines, Torn, Tear
    <3>2. QED
      BY <1>1, <3>1
  <2>4. ASSUME Tick
        PROVE  Dated'
    BY <2>4 DEF Tick, Dated
  <2>5. QED
    BY <1>3, <2>1, <2>2, <2>3, <2>4 DEF RunsNext
<1>4. QED
  BY <1>2, <1>3 DEF Next, vars

LEMMA DatedBegins == RunsInit => Dated
<1>1. SUFFICES ASSUME RunsInit PROVE Dated
  OBVIOUS
<1>2. lines["runs"] = <<>>
  BY <1>1 DEF RunsInit, Logs
<1>3. DOMAIN <<>> = {}
  OBVIOUS
<1>4. QED
  BY <1>2, <1>3 DEF Dated, WholeLines

-----------------------------------------------------------------------------
(* Sums over days.                                                         *)

One(S) == CHOOSE x \in S : TRUE

\* boxes that have finitely many in them, and none that is in another
Boxes(box, D) ==
  /\ \A d \in D : IsFiniteSet(box[d])
  /\ \A d, e \in D : d # e => box[d] \cap box[e] = {}
Boxed(box, T) == UNION {box[d] : d \in T}

\* How many there are in the boxes adds up to how many there are.
AddUp(box, D) ==
  /\ \A T \in SUBSET D : IsFiniteSet(Boxed(box, T)) /\ Cardinality(Boxed(box, T)) \in Nat
  /\ \A T \in SUBSET D : \A d \in T :
       Cardinality(Boxed(box, T)) = Cardinality(box[d]) + Cardinality(Boxed(box, T \ {d}))


LEMMA BoxesAddUp ==
  ASSUME NEW D, IsFiniteSet(D), NEW box, Boxes(box, D)
  PROVE  AddUp(box, D)
<1>1. ASSUME NEW T \in SUBSET D
      PROVE  IsFiniteSet(Boxed(box, T)) /\ Cardinality(Boxed(box, T)) \in Nat
  <2>1. PICK B : B = {box[d] : d \in T}
    OBVIOUS
  <2>2. PICK img : img = [d \in T |-> box[d]]
    OBVIOUS
  <2>3. img \in Surjection(T, B)
    <3>1. img \in [T -> B]
      BY <2>1, <2>2
    <3>2. \A b \in B : \E d \in T : img[d] = b
      BY <2>1, <2>2
    <3>3. QED
      BY <3>1, <3>2, Fun_IsSurj
  <2>4. IsFiniteSet(T)
    BY FS_Subset
  <2>5. IsFiniteSet(B)
    BY <2>3, <2>4, FS_Surjection
  <2>6. \A b \in B : IsFiniteSet(b)
    BY <2>1 DEF Boxes
  <2>7. IsFiniteSet(UNION B)
    BY <2>5, <2>6, FS_UNION
  <2>8. QED
    BY <2>1, <2>7, FS_CardinalityType DEF Boxed
<1>2. ASSUME NEW T \in SUBSET D, NEW d \in T
      PROVE  Cardinality(Boxed(box, T)) = Cardinality(box[d]) + Cardinality(Boxed(box, T \ {d}))
  <2>1. Boxed(box, T) = box[d] \cup Boxed(box, T \ {d})
    BY DEF Boxed
  <2>2. box[d] \cap Boxed(box, T \ {d}) = {} /\ IsFiniteSet(box[d])
    BY DEF Boxed, Boxes
  <2>3. T \ {d} \in SUBSET D
    OBVIOUS
  <2>4. QED
    BY <1>1, <2>1, <2>2, <2>3, Disjoint
<1>3. QED
  BY <1>1, <1>2 DEF AddUp

LEMMA DailySum ==
  ASSUME NEW D, IsFiniteSet(D), NEW box, Boxes(box, D),
         NEW fun, DOMAIN fun = D, \A d \in D : fun[d] = Cardinality(box[d])
  PROVE  SumFunction(fun) = Cardinality(Boxed(box, D))
<1>1. /\ \A T \in SUBSET D : IsFiniteSet(Boxed(box, T)) /\ Cardinality(Boxed(box, T)) \in Nat
      /\ \A T \in SUBSET D : \A d \in T :
           Cardinality(Boxed(box, T)) = Cardinality(box[d]) + Cardinality(Boxed(box, T \ {d}))
  <2>1. AddUp(box, D)
    BY BoxesAddUp
  <2>2. QED
    BY <2>1 DEF AddUp
<1>2. PICK one : one = [T \in SUBSET D |-> One(T)]
  OBVIOUS
<1>3. \A T \in SUBSET D : T # {} => one[T] \in T
  BY <1>2 DEF One
<1>4. PICK f : f = [T \in SUBSET D |-> Cardinality(Boxed(box, T))]
  OBVIOUS
<1>5. f[{}] = 0
  <2>1. Boxed(box, {}) = {}
    BY DEF Boxed
  <2>2. QED
    BY <1>4, <2>1, FS_EmptySet
<1>6. ASSUME NEW T \in SUBSET D, T # {}
      PROVE  f[T] = fun[one[T]] + f[T \ {one[T]}]
  <2>1. PICK d \in T : d = one[T]
    BY <1>3, <1>6
  <2>2. f[T] = fun[d] + f[T \ {d}]
    BY <1>1, <1>4
  <2>3. QED
    BY <2>1, <2>2
<1>7. f = [s \in SUBSET D |-> IF s = {} THEN 0 ELSE fun[One(s)] + f[s \ {One(s)}]]
  <2>1. \A T \in SUBSET D : f[T] = IF T = {} THEN 0 ELSE fun[One(T)] + f[T \ {One(T)}]
    BY <1>2, <1>5, <1>6
  <2>2. QED
    BY <1>4, <2>1
<1>8. PICK g : g = CHOOSE h : h = [s \in SUBSET D |-> IF s = {} THEN 0 ELSE fun[One(s)] + h[s \ {One(s)}]]
  OBVIOUS
<1>9. g = [s \in SUBSET D |-> IF s = {} THEN 0 ELSE fun[One(s)] + g[s \ {One(s)}]]
  BY <1>7, <1>8
<1>10. g[{}] = 0 /\ \A T \in SUBSET D : T # {} => g[T] = fun[one[T]] + g[T \ {one[T]}]
  BY <1>2, <1>9
<1> DEFINE W == {T \in SUBSET D : f[T] # g[T]}
<1>11. W = {}
  <2>1. SUFFICES ASSUME W # {} PROVE FALSE
    OBVIOUS
  <2>2. \A T \in W : IsFiniteSet(T)
    BY FS_Subset
  <2>3. PICK T \in W : \A R \in W : Cardinality(R) \in Nat /\ Cardinality(T) <= Cardinality(R)
    <3> HIDE DEF W
    <3>1. QED
      BY <2>1, <2>2, SmallestSet
  <2>4. T \in SUBSET D /\ T # {} /\ IsFiniteSet(T)
    BY <1>5, <1>10, <2>2
  <2>5. PICK d \in T : d = one[T]
    BY <1>3, <2>4
  <2>6. f[T] = fun[d] + f[T \ {d}] /\ g[T] = fun[d] + g[T \ {d}]
    BY <1>6, <1>10, <2>4, <2>5
  <2>7. T \ {d} \notin W
    <3>1. Cardinality(T) \in Nat /\ Cardinality(T \ {d}) \in Nat /\ Cardinality(T) = Cardinality(T \ {d}) + 1
      BY <2>4, Smaller
    <3> HIDE DEF W
    <3>2. QED
      BY <2>3, <3>1
  <2>8. QED
    BY <2>4, <2>6, <2>7
<1>12. SumFunction(fun) = g[D]
  BY <1>8 DEF SumFunction, SumFunctionOnSet, FoldFunctionOnSet, MapThenFoldSet, One
<1>13. g[D] = f[D]
  BY <1>11
<1>14. QED
  BY <1>4, <1>12, <1>13

\* the first tick of the long window is in no day
WindowStart == now - LongDays * TicksPerDay

\* A whole number of days and a remainder: every time of the long window but for
\* its first tick is in one day.
LEMMA DayOf ==
  ASSUME NEW age \in Nat, age < LongDays * TicksPerDay
  PROVE  \E d \in 0..(LongDays - 1) : d * TicksPerDay <= age /\ age < d * TicksPerDay + TicksPerDay
<1>1. PICK t \in Nat \ {0} : t = TicksPerDay
  BY ReportsAssumption
<1>2. PICK n \in Nat \ {0} : n = LongDays
  BY ReportsAssumption
<1>3. PICK d \in Nat : d = age \div t
  OBVIOUS
<1>4. d * t <= age /\ age < d * t + t
  BY <1>3
<1>5. d < n
  <2>1. SUFFICES ASSUME d >= n PROVE FALSE
    OBVIOUS
  <2>2. d * t >= n * t
    BY <2>1
  <2>3. d * t \in Nat /\ n * t \in Nat
    OBVIOUS
  <2>4. PICK x, y : x = d * t /\ y = n * t
    OBVIOUS
  <2>5. x <= age /\ age < y /\ x >= y /\ x \in Nat /\ y \in Nat
    BY <1>1, <1>2, <1>4, <2>2, <2>3, <2>4
  <2>6. QED
    BY <2>5
<1>6. d \in 0..(LongDays - 1)
  BY <1>2, <1>5
<1>7. QED
  BY <1>1, <1>4, <1>6

LEMMA OneDay ==
  ASSUME NEW age \in Nat, NEW d \in Nat, NEW e \in Nat,
         d * TicksPerDay <= age, age < d * TicksPerDay + TicksPerDay,
         e * TicksPerDay <= age, age < e * TicksPerDay + TicksPerDay
  PROVE  d = e
<1>1. PICK t \in Nat \ {0} : t = TicksPerDay
  BY ReportsAssumption
<1>2. ASSUME NEW a \in Nat, NEW b \in Nat, a < b, b * t <= age, age < a * t + t PROVE FALSE
  <2>1. a + 1 <= b
    BY <1>2
  <2>2. (a + 1) * t <= b * t
    BY <2>1
  <2>3. (a + 1) * t = a * t + t /\ a * t \in Nat /\ b * t \in Nat
    OBVIOUS
  <2>4. PICK x, y : x = a * t /\ y = b * t
    OBVIOUS
  <2>5. x + t <= y /\ y <= age /\ age < x + t /\ x \in Nat /\ y \in Nat
    BY <1>2, <2>2, <2>3, <2>4
  <2>6. QED
    BY <2>5
<1>3. d < e \/ e < d \/ d = e
  OBVIOUS
<1>4. QED
  BY <1>1, <1>2, <1>3

LEMMA DayAt ==
  ASSUME now \in Nat, NEW at \in Nat
  PROVE  /\ at <= now /\ at > WindowStart => \E d \in 0..(LongDays - 1) :
              at > now - d * TicksPerDay - TicksPerDay /\ at <= now - d * TicksPerDay
         /\ \A d \in 0..(LongDays - 1) :
              at > now - d * TicksPerDay - TicksPerDay /\ at <= now - d * TicksPerDay =>
                at <= now /\ at > WindowStart
         /\ \A d, e \in 0..(LongDays - 1) :
              /\ at > now - d * TicksPerDay - TicksPerDay /\ at <= now - d * TicksPerDay
              /\ at > now - e * TicksPerDay - TicksPerDay /\ at <= now - e * TicksPerDay
              => d = e
<1>1. PICK t \in Nat \ {0} : t = TicksPerDay
  BY ReportsAssumption
<1>2. PICK n \in Nat \ {0} : n = LongDays
  BY ReportsAssumption
<1>3. PICK age \in Int : age = now - at
  OBVIOUS
<1>4. \A d \in 0..(n - 1) : d \in Nat /\ d * t \in Nat /\ d * t + t <= n * t
  <2>1. ASSUME NEW d \in 0..(n - 1) PROVE d * t + t <= n * t
    <3>1. d + 1 <= n
      OBVIOUS
    <3>2. (d + 1) * t <= n * t
      BY <3>1
    <3>3. QED
      BY <3>2
  <2>2. QED
    BY <2>1
<1>5. ASSUME NEW d \in 0..(n - 1)
      PROVE  (at > now - d * t - t /\ at <= now - d * t) <=> (d * t <= age /\ age < d * t + t)
  <2>1. PICK x : x = d * t
    OBVIOUS
  <2>2. x \in Nat
    BY <1>4, <2>1
  <2>3. (at > now - x - t /\ at <= now - x) <=> (x <= age /\ age < x + t)
    BY <1>3, <2>2
  <2>4. QED
    BY <2>1, <2>3
<1>6. PICK w : w = n * t
  OBVIOUS
<1>7. w \in Nat /\ WindowStart = now - w
  BY <1>1, <1>2, <1>6 DEF WindowStart
<1>8. ASSUME at <= now, at > WindowStart
      PROVE  \E d \in 0..(n - 1) : at > now - d * t - t /\ at <= now - d * t
  <2>1. age \in Nat /\ age < w
    BY <1>3, <1>7, <1>8
  <2>2. age < LongDays * TicksPerDay
    BY <1>1, <1>2, <1>6, <2>1
  <2>3. PICK d \in 0..(LongDays - 1) : d * TicksPerDay <= age /\ age < d * TicksPerDay + TicksPerDay
    BY <2>1, <2>2, DayOf
  <2>4. QED
    BY <1>1, <1>2, <1>5, <2>3
<1>9. ASSUME NEW d \in 0..(n - 1), at > now - d * t - t, at <= now - d * t
      PROVE  at <= now /\ at > WindowStart
  <2>1. PICK x : x = d * t
    OBVIOUS
  <2>2. x \in Nat /\ x + t <= w
    BY <1>4, <1>6, <2>1
  <2>3. at > now - x - t /\ at <= now - x
    BY <1>9, <2>1
  <2>4. QED
    BY <1>7, <2>2, <2>3
<1>10. ASSUME NEW d \in 0..(n - 1), NEW e \in 0..(n - 1),
              at > now - d * t - t, at <= now - d * t, at > now - e * t - t, at <= now - e * t
       PROVE  d = e
  <2>1. d * t <= age /\ age < d * t + t /\ e * t <= age /\ age < e * t + t
    BY <1>5, <1>10
  <2>2. age \in Nat
    <3>1. PICK x : x = d * t
      OBVIOUS
    <3>2. x \in Nat /\ x <= age
      BY <1>4, <2>1, <3>1
    <3>3. QED
      BY <3>2
  <2>3. QED
    BY <1>1, <1>4, <2>1, <2>2, OneDay
<1>11. QED
  BY <1>1, <1>2, <1>8, <1>9, <1>10

LEMMA FollowsIn ==
  ASSUME NEW t, NEW q, NEW P, Follows(t, q, P)
  PROVE  \A k \in DOMAIN t : \E i \in P : t[k] = q[i]
<1>1. PICK n : n = Cardinality(P)
  OBVIOUS
<1>2. PICK nth \in Bijection(1..n, P) : t = [k \in 1..n |-> q[nth[k]]]
  BY <1>1 DEF Follows
<1>3. nth \in [1..n -> P]
  BY <1>2, Fun_BijectionProperties
<1>4. QED
  BY <1>2, <1>3

\* A selection of a sequence has as many members as places were selected.
LEMMA SelectedLen ==
  ASSUME NEW m \in Nat, NEW P \in SUBSET (1..m), NEW q
  PROVE  /\ Len(Selected(q, P)) = Cardinality(P) /\ Cardinality(P) \in Nat /\ IsFiniteSet(P)
         /\ Selected(q, P) = <<>> => P = {}
<1>1. PICK t : t = Selected(q, P)
  OBVIOUS
<1>2. Follows(t, q, P)
  BY <1>1, ChosenFollows
<1>3. QED
  BY <1>1, <1>2, FollowsLen DEF Follows

\* the executions of a skill that are read, and their times
LEMMA RunsRead ==
  ASSUME TornInv, Dated, NEW s
  PROVE  \E m \in Nat : /\ DOMAIN OfSkill(Read("runs"), s) = 1..m
                        /\ \A i \in 1..m : OfSkill(Read("runs"), s)[i].at \in Nat
<1>1. PICK q, P, t, u : q = lines["runs"] /\ P = WholeLines(q) /\ t = Read("runs") /\ u = OfSkill(t, s)
  OBVIOUS
<1>2. Follows(t, q, P)
  BY <1>1, ReadIs DEF Logs
<1>3. PICK K, R : K = {i \in DOMAIN t : t[i].skill = s} /\ R = {i \in P : q[i].skill = s}
  OBVIOUS
<1>4. Answers(K, t, P, R, q)
  BY <1>3 DEF Answers
<1>5. u = Selected(t, K)
  BY <1>1, <1>3 DEF OfSkill, Those, Selected
<1>6. Follows(u, q, R)
  BY <1>2, <1>4, <1>5, FollowsOn
<1>7. \A k \in DOMAIN u : u[k].at \in Nat
  <2>1. \A k \in DOMAIN u : \E i \in R : u[k] = q[i]
    BY <1>6, FollowsIn
  <2>2. QED
    BY <1>1, <1>3, <2>1 DEF Dated
<1>8. QED
  BY <1>1, <1>6, <1>7, FollowsLen

\* The days of a skill add up to the long window without its first tick.
LEMMA DaysAddUp ==
  ASSUME now \in Nat, NEW records, NEW m \in Nat, DOMAIN records = 1..m, \A i \in 1..m : records[i].at \in Nat
  PROVE  SumFunction(DailyRuns(records))
           = Len(WithinDays(records, LongDays)) - Count(records, LAMBDA r : r.at = now - LongDays * TicksPerDay)
<1>1. PICK D, box, fun :
        /\ D = 0..(LongDays - 1)
        /\ box = [d \in D |-> {i \in 1..m : /\ records[i].at > now - d * TicksPerDay - TicksPerDay
                                            /\ records[i].at <= now - d * TicksPerDay}]
        /\ fun = DailyRuns(records)
  OBVIOUS
<1>2. IsFiniteSet(D) /\ IsFiniteSet(1..m)
  <2>1. PICK n \in Int : n = LongDays - 1
    BY ReportsAssumption
  <2>2. IsFiniteSet(0..n)
    BY FS_Interval
  <2>3. IsFiniteSet(1..m)
    BY FS_Interval
  <2>4. QED
    BY <1>1, <2>1, <2>2, <2>3
<1>3. DOMAIN fun = D /\ \A d \in D : fun[d] = Cardinality(box[d])
  <2>1. DOMAIN fun = D /\ \A d \in D : fun[d] = Len(Bucket(records, d))
    BY <1>1 DEF DailyRuns
  <2>2. ASSUME NEW d \in D PROVE Bucket(records, d) = Selected(records, box[d])
    <3>1. box[d] = {i \in DOMAIN records : /\ records[i].at > now - d * TicksPerDay - TicksPerDay
                                          /\ records[i].at <= now - d * TicksPerDay}
      BY <1>1
    <3>2. QED
      BY <3>1 DEF Bucket, Those, Selected
  <2>3. \A d \in D : box[d] \in SUBSET (1..m)
    BY <1>1
  <2>4. ASSUME NEW d \in D PROVE Len(Selected(records, box[d])) = Cardinality(box[d])
    <3>1. PICK b \in SUBSET (1..m) : b = box[d]
      BY <2>3
    <3>2. QED
      BY <3>1, SelectedLen
  <2>5. QED
    BY <2>1, <2>2, <2>4
<1>4. Boxes(box, D)
  <2>1. \A d \in D : IsFiniteSet(box[d])
    BY <1>1, <1>2, FS_Subset
  <2>2. ASSUME NEW d \in D, NEW e \in D, NEW i \in box[d] \cap box[e] PROVE d = e
    <3>1. records[i].at \in Nat
      BY <1>1
    <3>2. PICK at \in Nat : at = records[i].at
      BY <3>1
    <3>3. /\ at > now - d * TicksPerDay - TicksPerDay /\ at <= now - d * TicksPerDay
          /\ at > now - e * TicksPerDay - TicksPerDay /\ at <= now - e * TicksPerDay
      BY <1>1, <2>2, <3>2
    <3>4. QED
      BY <1>1, <3>3, DayAt
  <2>3. QED
    BY <2>1, <2>2 DEF Boxes
<1>5. SumFunction(fun) = Cardinality(Boxed(box, D))
  BY <1>2, <1>3, <1>4, DailySum
<1>6. PICK all, first :
        /\ all = {i \in 1..m : records[i].at >= now - LongDays * TicksPerDay /\ records[i].at <= now}
        /\ first = {i \in 1..m : records[i].at = now - LongDays * TicksPerDay}
  OBVIOUS
<1>7. IsFiniteSet(all) /\ IsFiniteSet(first) /\ Cardinality(first) \in Nat /\ all \in SUBSET (1..m)
  BY <1>2, <1>6, FS_Subset, FS_CardinalityType
<1>8. WindowStart \in Int /\ WindowStart <= now /\ WindowStart = now - LongDays * TicksPerDay
  <2>1. PICK w : w = LongDays * TicksPerDay
    OBVIOUS
  <2>2. w \in Nat
    BY <2>1, ReportsAssumption
  <2>3. QED
    BY <2>1, <2>2 DEF WindowStart
<1>9. Boxed(box, D) = {i \in 1..m : records[i].at <= now /\ records[i].at > WindowStart}
  <2>1. ASSUME NEW i \in 1..m
        PROVE  i \in Boxed(box, D) <=> records[i].at <= now /\ records[i].at > WindowStart
    <3>1. PICK at \in Nat : at = records[i].at
      OBVIOUS
    <3>2. i \in Boxed(box, D) <=> \E d \in D : at > now - d * TicksPerDay - TicksPerDay /\ at <= now - d * TicksPerDay
      BY <1>1, <3>1 DEF Boxed
    <3>3. QED
      BY <1>1, <3>1, <3>2, DayAt
  <2>2. Boxed(box, D) \subseteq 1..m
    BY <1>1 DEF Boxed
  <2>3. QED
    BY <2>1, <2>2
<1>10. all = Boxed(box, D) \cup first /\ Boxed(box, D) \cap first = {}
  BY <1>6, <1>8, <1>9
<1>11. IsFiniteSet(Boxed(box, D))
  BY <1>7, <1>10, FS_Subset
<1>12. /\ Cardinality(all) = Cardinality(Boxed(box, D)) + Cardinality(first)
       /\ Cardinality(Boxed(box, D)) \in Nat
  BY <1>7, <1>10, <1>11, Disjoint
<1>13. Len(WithinDays(records, LongDays)) = Cardinality(all)
  <2>1. WithinDays(records, LongDays) = Selected(records, all)
    BY <1>6 DEF WithinDays, Those, Selected
  <2>2. QED
    BY <1>7, <2>1, SelectedLen
<1>14. Count(records, LAMBDA r : r.at = now - LongDays * TicksPerDay) = Cardinality(first)
  BY <1>6 DEF Count
<1>15. QED
  BY <1>1, <1>5, <1>7, <1>12, <1>13, <1>14

LEMMA RateType ==
  ASSUME NEW m \in Nat, NEW P \in SUBSET (1..m), NEW q
  PROVE  /\ SuccessRate(Selected(q, P)) \in Int
         /\ Cardinality(P) = 0 => SuccessRate(Selected(q, P)) = NoRate
<1>1. PICK t, n : t = Selected(q, P) /\ n = Len(t)
  OBVIOUS
<1>2. Follows(t, q, P)
  BY <1>1, ChosenFollows
<1>3. n \in Nat /\ n = Cardinality(P) /\ DOMAIN t = 1..n /\ IsFiniteSet(P)
  BY <1>1, <1>2, FollowsLen DEF Follows
<1>4. t = <<>> \/ n # 0
  <2>1. SUFFICES ASSUME n = 0 PROVE t = <<>>
    OBVIOUS
  <2>2. t = [k \in 1..Cardinality(P) |-> q[CHOOSE i \in P : Cardinality({j \in P : j <= i}) = k]]
    BY <1>1 DEF Selected
  <2>3. DOMAIN t = {}
    BY <1>3, <2>1
  <2>4. PICK g : g = [k \in 1..Cardinality(P) |-> q[CHOOSE i \in P : Cardinality({j \in P : j <= i}) = k]]
    OBVIOUS
  <2>5. t = [k \in 1..0 |-> g[k]]
    BY <1>3, <2>1, <2>2, <2>4
  <2>6. QED
    BY <2>5
<1>5. CASE t = <<>>
  <2>1. SuccessRate(t) = NoRate
    BY <1>5 DEF SuccessRate
  <2>2. QED
    BY <1>1, <2>1 DEF NoRate
<1>6. CASE t # <<>>
  <2>1. PICK c : c = Count(t, LAMBDA r : r.outcome = "success")
    OBVIOUS
  <2>2. c \in Nat
    <3>1. c = Cardinality({i \in DOMAIN t : t[i].outcome = "success"})
      BY <2>1 DEF Count
    <3>2. IsFiniteSet(1..n)
      BY <1>3, FS_Interval
    <3>3. IsFiniteSet({i \in DOMAIN t : t[i].outcome = "success"})
      BY <1>3, <3>2, FS_Subset
    <3>4. QED
      BY <3>1, <3>3, FS_CardinalityType
  <2>3. SuccessRate(t) = (2 * 10000 * c + n) \div (2 * n)
    BY <1>1, <1>6, <2>1 DEF SuccessRate, Round
  <2>4. n \in Nat \ {0}
    BY <1>3, <1>4, <1>6
  <2>5. SuccessRate(t) \in Int
    BY <2>2, <2>3, <2>4
  <2>6. QED
    BY <1>1, <1>3, <2>4, <2>5
<1>7. QED
  BY <1>5, <1>6

\* Where an arrow points.
LEMMA ArrowsPoint ==
  ASSUME NEW delta \in Int
  PROVE  /\ delta < 0 => Arrows(delta) \subseteq {"down", "flat"}
         /\ delta > 0 => Arrows(delta) \subseteq {"up", "flat"}
         /\ delta < -ArrowThreshold => Arrows(delta) = {"down"}
         /\ delta > ArrowThreshold => Arrows(delta) = {"up"}
         /\ -ArrowThreshold < delta /\ delta < ArrowThreshold => Arrows(delta) = {"flat"}
<1>1. CASE delta > 1000
  <2>1. Arrows(delta) = {"up"}
    BY <1>1 DEF Arrows, ArrowThreshold
  <2>2. QED
    BY <1>1, <2>1 DEF ArrowThreshold
<1>2. CASE delta = 1000
  <2>1. Arrows(delta) = {"up", "flat"}
    BY <1>2 DEF Arrows, ArrowThreshold
  <2>2. QED
    BY <1>2, <2>1 DEF ArrowThreshold
<1>3. CASE -1000 < delta /\ delta < 1000
  <2>1. Arrows(delta) = {"flat"}
    BY <1>3 DEF Arrows, ArrowThreshold
  <2>2. QED
    BY <1>3, <2>1 DEF ArrowThreshold
<1>4. CASE delta = -1000
  <2>1. Arrows(delta) = {"down", "flat"}
    BY <1>4 DEF Arrows, ArrowThreshold
  <2>2. QED
    BY <1>4, <2>1 DEF ArrowThreshold
<1>5. CASE delta < -1000
  <2>1. Arrows(delta) = {"down"}
    BY <1>5 DEF Arrows, ArrowThreshold
  <2>2. QED
    BY <1>5, <2>1 DEF ArrowThreshold
<1>6. QED
  BY <1>1, <1>2, <1>3, <1>4, <1>5

LEMMA PanelsDoAgree == TornInv /\ Dated => PanelsAgree
<1>1. SUFFICES ASSUME TornInv, Dated, NEW s \in DOMAIN HealthReport,
                      NEW records, records = OfSkill(Read("runs"), s),
                      NEW health, health = HealthReport[s],
                      NEW delta, delta = Delta(health.rate7, health.rate30)
               PROVE  /\ SumFunction(DailyRuns(records))
                           = health.runs30 - Count(records, LAMBDA r : r.at = now - LongDays * TicksPerDay)
                      /\ health.trend = "worsening" => Arrows(delta) \subseteq {"down", "flat"} /\ health.runs7 > 0
                      /\ health.trend = "improving" => Arrows(delta) \subseteq {"up", "flat"} /\ health.runs7 > 0
                      /\ Threshold = ArrowThreshold /\ delta \notin {-Threshold, Threshold} =>
                           Arrows(delta) = {CASE health.trend = "worsening" -> "down"
                                              [] health.trend = "improving" -> "up" [] OTHER -> "flat"}
  BY DEF PanelsAgree
<1>2. PICK short, long : short = WithinDays(records, ShortDays) /\ long = WithinDays(records, LongDays)
  OBVIOUS
<1>3. /\ health.rate7 = SuccessRate(short) /\ health.rate30 = SuccessRate(long)
      /\ health.trend = FailureTrend(delta) /\ health.runs7 = Len(short) /\ health.runs30 = Len(long)
  <2>1. health = SkillHealth(s)
    BY <1>1 DEF HealthReport
  <2>2. QED
    BY <1>1, <1>2, <2>1 DEF SkillHealth
<1>4. PICK m \in Nat : DOMAIN records = 1..m /\ \A i \in 1..m : records[i].at \in Nat
  BY <1>1, RunsRead
<1>5. now \in Nat
  BY <1>1 DEF TornInv
<1>6. SumFunction(DailyRuns(records))
        = health.runs30 - Count(records, LAMBDA r : r.at = now - LongDays * TicksPerDay)
  BY <1>2, <1>3, <1>4, <1>5, DaysAddUp
<1>7. PICK S, L :
        /\ S = {i \in 1..m : records[i].at >= now - ShortDays * TicksPerDay /\ records[i].at <= now}
        /\ L = {i \in 1..m : records[i].at >= now - LongDays * TicksPerDay /\ records[i].at <= now}
  OBVIOUS
<1>8. short = Selected(records, S) /\ long = Selected(records, L)
  BY <1>2, <1>4, <1>7 DEF WithinDays, Those, Selected
<1>9. S \in SUBSET (1..m) /\ L \in SUBSET (1..m)
  BY <1>7
<1>10. /\ SuccessRate(short) \in Int /\ SuccessRate(long) \in Int
       /\ Cardinality(S) = 0 => SuccessRate(short) = NoRate
  BY <1>8, <1>9, RateType
<1>11. Len(short) = Cardinality(S) /\ Cardinality(S) \in Nat
  BY <1>8, <1>9, SelectedLen
<1>12. delta \in Int /\ (Len(short) = 0 => delta = 0)
  BY <1>1, <1>3, <1>10, <1>11 DEF Delta
<1>13. Threshold \in Nat \ {0}
  BY ReportsAssumption
<1>14. /\ health.trend = "worsening" <=> delta <= -Threshold
       /\ health.trend = "improving" <=> delta >= Threshold
  BY <1>3, <1>12, <1>13 DEF FailureTrend
<1>15. ASSUME health.trend = "worsening"
       PROVE  Arrows(delta) \subseteq {"down", "flat"} /\ health.runs7 > 0
  BY <1>3, <1>11, <1>12, <1>13, <1>14, <1>15, ArrowsPoint
<1>16. ASSUME health.trend = "improving"
       PROVE  Arrows(delta) \subseteq {"up", "flat"} /\ health.runs7 > 0
  BY <1>3, <1>11, <1>12, <1>13, <1>14, <1>16, ArrowsPoint
<1>17. ASSUME Threshold = ArrowThreshold, delta \notin {-Threshold, Threshold}
       PROVE  Arrows(delta) = {CASE health.trend = "worsening" -> "down"
                                 [] health.trend = "improving" -> "up" [] OTHER -> "flat"}
  <2>1. CASE health.trend = "worsening"
    <3>1. delta < -ArrowThreshold
      BY <1>12, <1>13, <1>14, <1>17, <2>1
    <3>2. QED
      BY <1>12, <2>1, <3>1, ArrowsPoint
  <2>2. CASE health.trend = "improving"
    <3>1. delta > ArrowThreshold
      BY <1>12, <1>13, <1>14, <1>17, <2>2
    <3>2. QED
      BY <1>12, <2>2, <3>1, ArrowsPoint
  <2>3. CASE health.trend # "worsening" /\ health.trend # "improving"
    <3>1. -ArrowThreshold < delta /\ delta < ArrowThreshold
      BY <1>12, <1>13, <1>14, <1>17, <2>3
    <3>2. QED
      BY <1>12, <2>3, <3>1, ArrowsPoint
  <2>4. QED
    BY <2>1, <2>2, <2>3
<1>18. QED
  BY <1>6, <1>15, <1>16, <1>17

\* Reports that are made of the same runs agree with each other and with the
\* exact numbers, whatever was recorded by whom and when, for any windows and
\* thresholds (inspection.js; evaluate.js; health.js; dashboard.js).
THEOREM ReportsDoAgree == Spec => []ReportsAgree
<1> DEFINE Inv == Shape /\ Stored /\ TornInv /\ Dated
<1>1. Init => Inv
  BY InitShape, StoredBegins, TornBegins, DatedBegins DEF Init
<1>2. Inv /\ [Next]_vars => Inv'
  <2>1. [Next]_vars => [StoreNext]_storeVars \/ UNCHANGED <<file, store, ledger, lapped>>
    BY DEF Next, vars, storeVars
  <2>2. UNCHANGED <<file, store, ledger, lapped>> /\ Shape /\ Stored => Shape' /\ Stored'
    BY DEF Shape, FileShape, StoreShape, IsOpen, Stored
  <2>3. QED
    BY <2>1, <2>2, ShapeStep, StoredStep, TornStep, DatedStep
<1>3. Inv => ReportsAgree
  <2>1. ASSUME Inv, NEW db \in Databases PROVE Sane(db)
    BY <2>1 DEF Databases, Memories, Stored
  <2>2. ASSUME Inv PROVE InspectionAgrees
    BY <2>1, <2>2, InspectionIsRight DEF InspectionAgrees
  <2>3. QED
    BY <2>2, PromotionIsEarned, PanelsDoAgree DEF ReportsAgree
<1>4. QED
  BY <1>1, <1>2, <1>3, PTL DEF Spec
=============================================================================
