---------------------------- MODULE AliasesProofs ----------------------------
(***************************************************************************)
(* Proofs about the names for sessions and the records of inspections:     *)
(* readers find the aliases and a copy of them remains, a command reports  *)
(* what it did, and a recording is a consistent history, for any number of *)
(* names, session files, commands, inspections and faults.                 *)
(***************************************************************************)
EXTENDS Aliases, SequenceTheorems, TLAPS

-----------------------------------------------------------------------------
(* The inductive invariant of the aliases.                                 *)

PCs == Saving \cup {"clean", "restore", "fill main", "tidy"}

Good(c) == \E m \in expected : c = Whole(m)

Reads(c) == IF c.kind = "whole" THEN c.map ELSE NoAliases

Shape ==
  /\ file = [f \in {"main", "bak", "temp"} |-> file[f]]
  /\ past \in [killed : BOOLEAN, reused : BOOLEAN, cut : BOOLEAN, leftover : BOOLEAN]
  /\ past.reused => past.killed \/ past.cut
  /\ past.killed => past.reused \/ cmd = Idle
  /\ \/ cmd = Idle
     \/ /\ cmd = [pc |-> cmd.pc, do |-> cmd.do, old |-> cmd.old, new |-> cmd.new,
                  saving |-> cmd.saving, again |-> cmd.again, faults |-> cmd.faults]
        /\ cmd.pc \in PCs /\ cmd.again \in BOOLEAN /\ cmd.faults \in Nat

\* What a command carries and has just written.
Carried ==
  /\ cmd.pc \in PCs => cmd.old \in expected /\ cmd.saving \in expected
  /\ cmd.pc \in {"unlink", "rename"} => file["temp"] = Whole(cmd.saving)
  /\ cmd.pc = "clean" => file["main"] = Whole(cmd.saving)
  /\ cmd.pc = "fill main" => Exists("bak")

\* Where rename replaces, and no foreign backup is restored, the file and every
\* backup that may be restored read as expected.
ReadersInv ==
  ~windows /\ ~past.cut /\ ~past.leftover =>
    /\ cmd.pc # "fill main" => Load \in expected
    /\ cmd.pc \in PCs \ {"fill backup"} /\ Exists("bak") => Reads(file["bak"]) \in expected
    /\ cmd.pc # "unlink"

\* Which of the file and its backup is good at which point of a save.
CopiesInv ==
  ~past.reused =>
    /\ cmd.pc \in PCs =>
         /\ cmd.pc # "fill main" => file["main"] = Missing \/ Good(file["main"])
         /\ cmd.pc # "fill backup" => file["bak"] = Missing \/ Good(file["bak"])
         /\ cmd.pc = "fill backup" => Good(file["main"])
         /\ cmd.pc \in {"write", "fill", "unlink", "rename", "fill main"} => Good(file["bak"])
         /\ cmd.pc \in {"backup", "restore", "tidy"} => Good(file["main"]) \/ Good(file["bak"])
    /\ cmd.pc = "idle" => \E f \in DOMAIN file : Good(file[f])
    /\ cmd.pc \in {"idle", "tidy"} /\ ~past.killed /\ ~past.cut =>
         Good(file["main"]) /\ file["bak"] \in {Missing, file["main"]}

\* Until a second file operation fails, it is known which aliases these are.
OutcomeInv ==
  ~past.reused /\ cmd.pc \in PCs /\ cmd.faults <= 1 =>
    /\ cmd.pc \in Saving \cup {"clean"} =>
         IF cmd.again THEN cmd.faults = 1 /\ cmd.saving = cmd.old
                      ELSE cmd.faults = 0 /\ cmd.saving = cmd.new
    /\ cmd.pc \in {"restore", "fill main", "tidy"} => cmd.faults = 1
    /\ cmd.pc \in {"backup", "fill backup", "write", "fill", "unlink", "tidy"} =>
         file["main"] = Whole(cmd.old)
    /\ cmd.pc \in {"write", "fill", "unlink", "rename", "clean", "fill main"} =>
         file["bak"] = Whole(cmd.old)
    /\ cmd.pc \in {"backup", "tidy"} => file["bak"] \in {Missing, Whole(cmd.old)}
    /\ cmd.pc = "restore" =>
         \/ file["bak"] = Missing /\ file["main"] = Whole(cmd.old)
         \/ file["bak"] = Whole(cmd.old)

AliasInv == Shape /\ Carried /\ ReadersInv /\ CopiesInv /\ OutcomeInv

-----------------------------------------------------------------------------
(* Each step of a command keeps it.                                        *)

\* A content is read as what was written, and no two kinds are confused.
LEMMA Contents ==
  /\ Missing # Torn
  /\ \A m : Whole(m).kind = "whole" /\ Whole(m).map = m /\ Whole(m) # Missing /\ Whole(m) # Torn
  /\ \A m : Reads(Whole(m)) = m
  /\ Missing.kind # "whole" /\ Torn.kind # "whole"
  /\ Idle.pc = "idle" /\ "idle" \notin PCs
BY DEF Missing, Torn, Whole, Reads, Idle, PCs, Saving

\* Every run begins with good aliases and no backup.
LEMMA AliasesBegin == Init => AliasInv
<1> SUFFICES ASSUME Init PROVE AliasInv
  OBVIOUS
<1>1. Good(file["main"]) /\ file["bak"] = Missing /\ file["main"] = Whole(FirstAliases)
  BY DEF Init, Good, Missing
<1>2. Shape
  BY DEF Init, Shape
<1>3. cmd.pc = "idle" /\ "idle" \notin PCs
  BY Contents DEF Init
<1>4. Carried
  BY <1>3 DEF Carried, PCs, Saving
<1>5. ReadersInv
  BY <1>1, <1>3, Contents DEF ReadersInv, Load, Init
<1>6. CopiesInv
  BY <1>1, <1>2, <1>3 DEF CopiesInv, Shape
<1>7. OutcomeInv
  BY <1>3 DEF OutcomeInv
<1> QED
  BY <1>2, <1>4, <1>5, <1>6, <1>7 DEF AliasInv

\* A command begins beside aliases and a backup that are known or excepted.
LEMMA IssueKeeps ==
  ASSUME AliasInv, NEW op \in Commands, Issue(op)
  PROVE  AliasInv'
<1> DEFINE new == Changed(op)
<1>1. /\ cmd = Idle /\ file' = file /\ windows' = windows
      /\ expected' = {Load, new}
      /\ past' = [past EXCEPT !.reused = past.killed \/ past.cut,
                              !.leftover = Exists("bak") /\ file["bak"] # file["main"]]
      /\ cmd' = [pc |-> "backup", do |-> op.do, old |-> Load, new |-> new,
                 saving |-> new, again |-> FALSE, faults |-> 0]
  BY DEF Issue
<1> HIDE DEF new
<1>2. /\ past'.cut = past.cut /\ past'.killed = past.killed
      /\ past'.reused = (past.killed \/ past.cut)
      /\ past'.leftover = (Exists("bak") /\ file["bak"] # file["main"])
  BY <1>1 DEF AliasInv, Shape
<1>3. /\ cmd'.pc = "backup" /\ cmd'.old = Load /\ cmd'.new = new /\ cmd'.saving = new
      /\ cmd'.again = FALSE /\ cmd'.faults = 0 /\ cmd'.do = op.do
  BY <1>1
<1>4. Shape'
  <2>1. past' \in [killed : BOOLEAN, reused : BOOLEAN, cut : BOOLEAN, leftover : BOOLEAN]
    BY <1>1 DEF AliasInv, Shape, Exists
  <2> QED
    BY <2>1, <1>1, <1>2, <1>3 DEF AliasInv, Shape, PCs, Saving
<1>5. Carried'
  BY <1>1, <1>3 DEF Carried
<1>6. ReadersInv'
  BY <1>1, <1>2, <1>3 DEF ReadersInv, Load, Reads, Exists
<1>7. ~past'.reused => /\ file["main"] = Whole(Load)
                       /\ file["bak"] \in {Missing, Whole(Load)}
  BY <1>1, <1>2, Contents DEF AliasInv, Shape, CopiesInv, Good, Load
<1>8. CopiesInv'
  BY <1>1, <1>2, <1>3, <1>7, Contents DEF CopiesInv, Good
<1>9. OutcomeInv'
  BY <1>1, <1>3, <1>7 DEF OutcomeInv, Saving
<1> QED
  BY <1>4, <1>5, <1>6, <1>8, <1>9 DEF AliasInv

\* What Put and GoTo do to a well-formed state.
LEMMA PutWrites ==
  ASSUME Shape, NEW f \in {"main", "bak", "temp"}, NEW c, Put(f, c)
  PROVE  /\ file' = [g \in {"main", "bak", "temp"} |-> file'[g]]
         /\ file'[f] = c
         /\ \A g \in {"main", "bak", "temp"} \ {f} : file'[g] = file[g]
BY DEF Shape, Put

\* The command goes to pc, with n failures so far, and nothing else of it changes.
Moves(pc, n) ==
  /\ cmd' = [pc |-> cmd'.pc, do |-> cmd'.do, old |-> cmd'.old, new |-> cmd'.new,
             saving |-> cmd'.saving, again |-> cmd'.again, faults |-> cmd'.faults]
  /\ cmd'.pc = pc /\ pc \in PCs
  /\ cmd'.old = cmd.old /\ cmd'.new = cmd.new /\ cmd'.saving = cmd.saving
  /\ cmd'.again = cmd.again /\ cmd'.again \in BOOLEAN
  /\ cmd'.faults = n /\ cmd.faults \in Nat /\ cmd'.faults \in Nat

LEMMA CommandMoves ==
  ASSUME Shape, cmd # Idle, NEW pc \in PCs
  PROVE  /\ GoTo(pc) => Moves(pc, cmd.faults)
         /\ cmd' = [cmd EXCEPT !.pc = pc, !.faults = @ + 1] => Moves(pc, cmd.faults + 1)
<1>1. /\ cmd = [pc |-> cmd.pc, do |-> cmd.do, old |-> cmd.old, new |-> cmd.new,
                saving |-> cmd.saving, again |-> cmd.again, faults |-> cmd.faults]
      /\ cmd.again \in BOOLEAN /\ cmd.faults \in Nat
  BY DEF Shape
<1>2. ASSUME GoTo(pc) PROVE Moves(pc, cmd.faults)
  <2>1. cmd' = [pc |-> pc, do |-> cmd.do, old |-> cmd.old, new |-> cmd.new,
                saving |-> cmd.saving, again |-> cmd.again, faults |-> cmd.faults]
    BY <1>1, <1>2 DEF GoTo
  <2> QED
    BY <1>1, <2>1 DEF Moves
<1>3. ASSUME cmd' = [cmd EXCEPT !.pc = pc, !.faults = @ + 1] PROVE Moves(pc, cmd.faults + 1)
  <2>1. cmd' = [pc |-> pc, do |-> cmd.do, old |-> cmd.old, new |-> cmd.new,
                saving |-> cmd.saving, again |-> cmd.again, faults |-> cmd.faults + 1]
    BY <1>1, <1>3
  <2> QED
    BY <1>1, <2>1 DEF Moves
<1> QED
  BY <1>2, <1>3

\* The backup is begun, or there is nothing to back up.
LEMMA BackupKeeps ==
  ASSUME AliasInv, SaveStep, cmd.pc = "backup"
  PROVE  AliasInv'
<1>1. /\ GoTo(After("backup")) /\ Effect("backup") /\ cmd # Idle
      /\ windows' = windows /\ expected' = expected /\ past' = past
  BY Contents DEF SaveStep, PCs, Saving
<1>2. CASE Exists("main")
  <2>1. Put("bak", Torn) /\ GoTo("fill backup")
    BY <1>1, <1>2 DEF Effect, After
  <2>2. /\ file'["bak"] = Torn /\ file'["main"] = file["main"] /\ file'["temp"] = file["temp"]
        /\ file' = [g \in {"main", "bak", "temp"} |-> file'[g]]
    BY <2>1, PutWrites DEF AliasInv
  <2>3. Moves("fill backup", cmd.faults)
    BY <1>1, <2>1, CommandMoves DEF AliasInv, PCs, Saving
  <2>4. Shape'
    BY <1>1, <2>2, <2>3 DEF AliasInv, Shape, Moves
  <2>5. Carried'
    BY <1>1, <2>2, <2>3 DEF AliasInv, Carried, PCs, Saving, Moves
  <2>6. ReadersInv'
    BY <1>1, <2>2, <2>3 DEF AliasInv, ReadersInv, Load, Moves
  <2>7. CopiesInv'
    BY <1>1, <1>2, <2>2, <2>3 DEF AliasInv, CopiesInv, Good, Exists, PCs, Saving, Moves
  <2>8. OutcomeInv'
    BY <1>1, <2>2, <2>3 DEF AliasInv, OutcomeInv, PCs, Saving, Moves
  <2> QED
    BY <2>4, <2>5, <2>6, <2>7, <2>8 DEF AliasInv
<1>3. CASE ~Exists("main")
  <2>1. file' = file /\ GoTo("write")
    BY <1>1, <1>3 DEF Effect, After
  <2>3. Moves("write", cmd.faults)
    BY <1>1, <2>1, CommandMoves DEF AliasInv, PCs, Saving
  <2>4. Shape'
    BY <1>1, <2>1, <2>3 DEF AliasInv, Shape, Moves
  <2>5. Carried'
    BY <1>1, <2>1, <2>3 DEF AliasInv, Carried, PCs, Saving, Moves
  <2>6. ReadersInv'
    BY <1>1, <2>1, <2>3 DEF AliasInv, ReadersInv, Load, PCs, Saving, Exists, Moves
  <2>7. CopiesInv'
    BY <1>1, <1>3, <2>1, <2>3, Contents DEF AliasInv, CopiesInv, Good, Exists, PCs, Saving, Moves
  <2>8. OutcomeInv'
    BY <1>1, <1>3, <2>1, <2>3, Contents DEF AliasInv, OutcomeInv, Exists, PCs, Saving, Moves
  <2> QED
    BY <2>4, <2>5, <2>6, <2>7, <2>8 DEF AliasInv
<1> QED
  BY <1>2, <1>3

\* The backup holds what the aliases were.
LEMMA BackupMadeKeeps ==
  ASSUME AliasInv, SaveStep, cmd.pc = "fill backup"
  PROVE  AliasInv'
<1>1. /\ Effect("fill backup") /\ GoTo(After("fill backup")) /\ cmd # Idle
      /\ windows' = windows /\ expected' = expected /\ past' = past
  BY Contents DEF SaveStep, PCs, Saving
<1>2. /\ file'["bak"] = file["main"] /\ file'["main"] = file["main"] /\ file'["temp"] = file["temp"]
      /\ file' = [g \in {"main", "bak", "temp"} |-> file'[g]]
  <2> Put("bak", file["main"])
    BY <1>1 DEF Effect
  <2> QED
    BY PutWrites DEF AliasInv
<1>3. Moves("write", cmd.faults)
  <2> GoTo("write")
    BY <1>1 DEF After
  <2> QED
    BY <1>1, CommandMoves DEF AliasInv, PCs, Saving
<1>4. Shape'
  BY <1>1, <1>2, <1>3, Contents DEF AliasInv, Shape, Moves
<1>5. Carried'
  BY <1>1, <1>2, <1>3, Contents DEF AliasInv, Carried, PCs, Saving, Moves
<1>6. ReadersInv'
  BY <1>1, <1>2, <1>3, Contents DEF AliasInv, ReadersInv, Load, Reads, Exists, PCs, Saving, Moves
<1>7. CopiesInv'
  BY <1>1, <1>2, <1>3, Contents DEF AliasInv, CopiesInv, Good, Exists, PCs, Saving, Moves
<1>8. OutcomeInv'
  BY <1>1, <1>2, <1>3, Contents DEF AliasInv, OutcomeInv, PCs, Saving, Moves
<1> QED
  BY <1>4, <1>5, <1>6, <1>7, <1>8 DEF AliasInv

\* The temporary file is begun.
LEMMA WriteKeeps ==
  ASSUME AliasInv, SaveStep, cmd.pc = "write"
  PROVE  AliasInv'
<1>1. /\ Effect("write") /\ GoTo(After("write")) /\ cmd # Idle
      /\ windows' = windows /\ expected' = expected /\ past' = past
  BY Contents DEF SaveStep, PCs, Saving
<1>2. /\ file'["temp"] = Torn /\ file'["main"] = file["main"] /\ file'["bak"] = file["bak"]
      /\ file' = [g \in {"main", "bak", "temp"} |-> file'[g]]
  <2> Put("temp", Torn)
    BY <1>1 DEF Effect
  <2> QED
    BY PutWrites DEF AliasInv
<1>3. Moves("fill", cmd.faults)
  <2> GoTo("fill")
    BY <1>1 DEF After
  <2> QED
    BY <1>1, CommandMoves DEF AliasInv, PCs, Saving
<1>4. Shape'
  BY <1>1, <1>2, <1>3, Contents DEF AliasInv, Shape, Moves
<1>5. Carried'
  BY <1>1, <1>2, <1>3, Contents DEF AliasInv, Carried, PCs, Saving, Moves
<1>6. ReadersInv'
  BY <1>1, <1>2, <1>3, Contents DEF AliasInv, ReadersInv, Load, Reads, Exists, PCs, Saving, Moves
<1>7. CopiesInv'
  BY <1>1, <1>2, <1>3, Contents DEF AliasInv, CopiesInv, Good, Exists, PCs, Saving, Moves
<1>8. OutcomeInv'
  BY <1>1, <1>2, <1>3, Contents DEF AliasInv, OutcomeInv, PCs, Saving, Moves
<1> QED
  BY <1>4, <1>5, <1>6, <1>7, <1>8 DEF AliasInv

\* The temporary file is whole; the target is removed first where rename does not replace.
LEMMA WrittenKeeps ==
  ASSUME AliasInv, SaveStep, cmd.pc = "fill"
  PROVE  AliasInv'
<1>1. /\ Effect("fill") /\ GoTo(After("fill")) /\ cmd # Idle
      /\ windows' = windows /\ expected' = expected /\ past' = past
  BY Contents DEF SaveStep, PCs, Saving
<1>2. /\ file'["temp"] = Whole(cmd.saving) /\ file'["main"] = file["main"] /\ file'["bak"] = file["bak"]
      /\ file' = [g \in {"main", "bak", "temp"} |-> file'[g]]
  <2> Put("temp", Whole(cmd.saving))
    BY <1>1 DEF Effect
  <2> QED
    BY PutWrites DEF AliasInv
<1>3. IF windows /\ Exists("main") THEN Moves("unlink", cmd.faults) ELSE Moves("rename", cmd.faults)
  <2>1. IF windows /\ Exists("main") THEN GoTo("unlink") ELSE GoTo("rename")
    BY <1>1 DEF After
  <2> QED
    BY <1>1, <2>1, CommandMoves DEF AliasInv, PCs, Saving
<1>4. Shape'
  BY <1>1, <1>2, <1>3, Contents DEF AliasInv, Shape, Moves
<1>5. Carried'
  BY <1>1, <1>2, <1>3, Contents DEF AliasInv, Carried, PCs, Saving, Moves
<1>6. ReadersInv'
  BY <1>1, <1>2, <1>3, Contents DEF AliasInv, ReadersInv, Load, Reads, Exists, PCs, Saving, Moves
<1>7. CopiesInv'
  BY <1>1, <1>2, <1>3, Contents DEF AliasInv, CopiesInv, Good, Exists, PCs, Saving, Moves
<1>8. OutcomeInv'
  BY <1>1, <1>2, <1>3, Contents DEF AliasInv, OutcomeInv, PCs, Saving, Moves
<1> QED
  BY <1>4, <1>5, <1>6, <1>7, <1>8 DEF AliasInv

\* Between removal and rename the backup and the temporary file are good.
LEMMA UnlinkKeeps ==
  ASSUME AliasInv, SaveStep, cmd.pc = "unlink"
  PROVE  AliasInv'
<1>1. /\ Effect("unlink") /\ GoTo(After("unlink")) /\ cmd # Idle
      /\ windows' = windows /\ expected' = expected /\ past' = past
  BY Contents DEF SaveStep, PCs, Saving
<1>2. /\ file'["main"] = Missing /\ file'["bak"] = file["bak"] /\ file'["temp"] = file["temp"]
      /\ file' = [g \in {"main", "bak", "temp"} |-> file'[g]]
  <2> Put("main", Missing)
    BY <1>1 DEF Effect
  <2> QED
    BY PutWrites DEF AliasInv
<1>3. Moves("rename", cmd.faults)
  <2> GoTo("rename")
    BY <1>1 DEF After
  <2> QED
    BY <1>1, CommandMoves DEF AliasInv, PCs, Saving
<1>4. Shape'
  BY <1>1, <1>2, <1>3, Contents DEF AliasInv, Shape, Moves
<1>5. Carried'
  BY <1>1, <1>2, <1>3, Contents DEF AliasInv, Carried, PCs, Saving, Moves
<1>6. ReadersInv'
  BY <1>1, <1>2, <1>3, Contents DEF AliasInv, ReadersInv, Load, Reads, Exists, PCs, Saving, Moves
<1>7. CopiesInv'
  BY <1>1, <1>2, <1>3, Contents DEF AliasInv, CopiesInv, Good, Exists, PCs, Saving, Moves
<1>8. OutcomeInv'
  BY <1>1, <1>2, <1>3, Contents DEF AliasInv, OutcomeInv, PCs, Saving, Moves
<1> QED
  BY <1>4, <1>5, <1>6, <1>7, <1>8 DEF AliasInv

\* The new aliases take the place of the old ones at once.
LEMMA RenameKeeps ==
  ASSUME AliasInv, SaveStep, cmd.pc = "rename"
  PROVE  AliasInv'
<1>1. /\ Effect("rename") /\ GoTo(After("rename")) /\ cmd # Idle
      /\ windows' = windows /\ expected' = expected /\ past' = past
  BY Contents DEF SaveStep, PCs, Saving
<1>2. /\ file'["main"] = file["temp"] /\ file'["temp"] = Missing /\ file'["bak"] = file["bak"]
      /\ file' = [g \in {"main", "bak", "temp"} |-> file'[g]]
  BY <1>1 DEF Effect, AliasInv, Shape
<1>3. file'["main"] = Whole(cmd.saving) /\ Load' = cmd.saving /\ cmd.saving \in expected
  BY <1>2, Contents DEF AliasInv, Carried, Load, PCs, Saving
<1>4. Moves("clean", cmd.faults)
  <2> GoTo("clean")
    BY <1>1 DEF After
  <2> QED
    BY <1>1, CommandMoves DEF AliasInv, PCs, Saving
<1>5. Shape'
  BY <1>1, <1>2, <1>4, Contents DEF AliasInv, Shape, Moves
<1>6. Carried'
  BY <1>1, <1>2, <1>4, Contents DEF AliasInv, Carried, PCs, Saving, Moves
<1>7. ReadersInv'
  BY <1>1, <1>2, <1>4, Contents, <1>3 DEF AliasInv, ReadersInv, Reads, Exists, PCs, Saving, Moves
<1>8. CopiesInv'
  BY <1>1, <1>2, <1>4, Contents, <1>3 DEF AliasInv, CopiesInv, Good, Exists, PCs, Saving, Moves
<1>9. OutcomeInv'
  BY <1>1, <1>2, <1>4, Contents DEF AliasInv, OutcomeInv, PCs, Saving, Moves
<1> QED
  BY <1>5, <1>6, <1>7, <1>8, <1>9 DEF AliasInv

\* A command that is done leaves no backup and the aliases it saved.
LEMMA SavedKeeps ==
  ASSUME AliasInv, Saved
  PROVE  AliasInv'
<1>1. /\ cmd.pc = "clean" /\ Put("bak", Missing) /\ cmd' = Idle
      /\ expected' = {cmd.saving} /\ windows' = windows /\ past' = past
  BY DEF Saved
<1>2. /\ file'["bak"] = Missing /\ file'["main"] = Whole(cmd.saving)
      /\ file' = [g \in {"main", "bak", "temp"} |-> file'[g]]
  BY <1>1, PutWrites DEF AliasInv, Carried
<1>3. cmd'.pc = "idle" /\ "idle" \notin PCs
  BY <1>1, Contents
<1>4. Shape'
  BY <1>1, <1>2 DEF AliasInv, Shape
<1>5. Carried'
  BY <1>3, <1>1 DEF Carried, PCs, Saving
<1>6. ReadersInv'
  BY <1>1, <1>2, <1>3, Contents DEF ReadersInv, Load
<1>7. CopiesInv'
  <2>1. Good(file["main"])' /\ DOMAIN file' = {"main", "bak", "temp"}
    BY <1>1, <1>2 DEF Good
  <2> QED
    BY <1>2, <1>3, <2>1 DEF CopiesInv
<1>8. OutcomeInv'
  BY <1>3 DEF OutcomeInv
<1> QED
  BY <1>4, <1>5, <1>6, <1>7, <1>8 DEF AliasInv

\* A save that fails has left something to restore, or the aliases as they were.
LEMMA SaveFailsKeeps ==
  ASSUME AliasInv, SaveFails
  PROVE  AliasInv'
<1>1. /\ cmd # Idle /\ cmd.pc \in PCs /\ cmd.pc \in Saving \cup {"clean"}
      /\ windows' = windows /\ expected' = expected /\ past' = past
  BY Contents DEF SaveFails, PCs
<1>2. /\ IF cmd.pc = "fill backup" THEN file'["bak"] = Missing ELSE file'["bak"] = file["bak"]
      /\ file'["main"] = file["main"] /\ file'["temp"] = file["temp"]
      /\ file' = [g \in {"main", "bak", "temp"} |-> file'[g]]
  BY PutWrites DEF SaveFails, AliasInv, Shape
<1>3. Moves("restore", cmd.faults + 1)
  BY <1>1, CommandMoves DEF SaveFails, AliasInv, PCs
<1>4. Shape'
  BY <1>1, <1>2, <1>3, Contents DEF AliasInv, Shape, Moves
<1>5. Carried'
  BY <1>1, <1>2, <1>3, Contents DEF AliasInv, Carried, PCs, Saving, Moves
<1>6. ReadersInv'
  BY <1>1, <1>2, <1>3, Contents DEF AliasInv, ReadersInv, Load, Reads, Exists, PCs, Saving, Moves
<1>7. CopiesInv'
  <2>1. cmd'.pc = "restore"
    BY <1>3 DEF Moves
  <2>2. \A f : Good(f)' <=> Good(f)
    BY <1>1 DEF Good
  <2>3. ASSUME ~past.reused
        PROVE  /\ file["main"] = Missing \/ Good(file["main"])
               /\ cmd.pc # "fill backup" => file["bak"] = Missing \/ Good(file["bak"])
               /\ Good(file["main"]) \/ (cmd.pc # "fill backup" /\ Good(file["bak"]))
    <3>1. /\ file["main"] = Missing \/ Good(file["main"])
          /\ cmd.pc # "fill backup" => file["bak"] = Missing \/ Good(file["bak"])
          /\ cmd.pc = "fill backup" => Good(file["main"])
          /\ cmd.pc \in {"write", "fill", "unlink", "rename"} => Good(file["bak"])
          /\ cmd.pc = "backup" => Good(file["main"]) \/ Good(file["bak"])
      BY <1>1, <2>3 DEF AliasInv, CopiesInv, PCs, Saving
    <3>2. cmd.pc = "clean" => Good(file["main"])
      BY <1>1 DEF AliasInv, Carried, Good
    <3>3. cmd.pc \in {"backup", "fill backup", "write", "fill", "unlink", "rename", "clean"}
      BY <1>1 DEF Saving
    <3>4. cmd.pc # "fill backup" => Good(file["main"]) \/ Good(file["bak"])
      BY <3>1, <3>2, <3>3
    <3> QED
      BY <3>1, <3>4
  <2>4. ASSUME ~past.reused
        PROVE  /\ file'["main"] = Missing \/ Good(file'["main"])
               /\ file'["bak"] = Missing \/ Good(file'["bak"])
               /\ Good(file'["main"]) \/ Good(file'["bak"])
    BY <1>2, <2>3, <2>4
  <2> QED
    BY <1>1, <2>1, <2>2, <2>4 DEF CopiesInv
<1>8. OutcomeInv'
  <2>1. cmd'.faults <= 1 => cmd.faults <= 1 /\ cmd'.faults = 1
    BY <1>3 DEF Moves
  <2>2. cmd'.pc = "restore" /\ cmd'.old = cmd.old
    BY <1>3 DEF Moves
  <2>3. ASSUME ~past.reused, cmd.faults <= 1
        PROVE  \/ file'["bak"] = Missing /\ file'["main"] = Whole(cmd.old)
               \/ file'["bak"] = Whole(cmd.old)
    BY <1>1, <1>2, <2>3 DEF AliasInv, OutcomeInv, Saving
  <2> QED
    BY <1>1, <2>1, <2>2, <2>3 DEF OutcomeInv, Saving
<1> QED
  BY <1>4, <1>5, <1>6, <1>7, <1>8 DEF AliasInv

\* Restoring begins, or there is nothing to restore and no need to.
LEMMA RestoreKeeps ==
  ASSUME AliasInv, Restore
  PROVE  AliasInv'
<1>1. /\ cmd # Idle /\ cmd.pc = "restore"
      /\ windows' = windows /\ expected' = expected /\ past' = past
  BY Contents DEF Restore, PCs
<1>2. /\ IF Exists("bak") THEN file'["main"] = Torn ELSE file'["main"] = file["main"]
      /\ file'["bak"] = file["bak"] /\ file'["temp"] = file["temp"]
      /\ file' = [g \in {"main", "bak", "temp"} |-> file'[g]]
  BY PutWrites DEF Restore, AliasInv, Shape
<1>3. IF Exists("bak") THEN Moves("fill main", cmd.faults) ELSE Moves("tidy", cmd.faults)
  BY <1>1, CommandMoves DEF Restore, AliasInv, PCs
<1>4. Shape'
  BY <1>1, <1>2, <1>3, Contents DEF AliasInv, Shape, Moves
<1>5. Carried'
  BY <1>1, <1>2, <1>3, Contents DEF AliasInv, Carried, Exists, PCs, Saving, Moves
<1>6. ReadersInv'
  BY <1>1, <1>2, <1>3, Contents DEF AliasInv, ReadersInv, Load, Reads, Exists, PCs, Saving, Moves
<1>7. CopiesInv'
  <2>1. \A f : Good(f)' <=> Good(f)
    BY <1>1 DEF Good
  <2>2. ASSUME ~past.reused
        PROVE  /\ file["main"] = Missing \/ Good(file["main"])
               /\ file["bak"] = Missing \/ Good(file["bak"])
               /\ Good(file["main"]) \/ Good(file["bak"])
    <3>1. cmd.pc \in PCs
      BY <1>1 DEF PCs
    <3> QED
      BY <1>1, <2>2, <3>1 DEF AliasInv, CopiesInv
  <2>3. CASE Exists("bak")
    <3>1. /\ cmd'.pc = "fill main" /\ file["bak"] # Missing
          /\ file'["bak"] = file["bak"]
      BY <1>2, <1>3, <2>3 DEF Moves, Exists
    <3> QED
      BY <1>1, <2>1, <2>2, <3>1 DEF CopiesInv
  <2>4. CASE ~Exists("bak")
    <3>1. /\ cmd'.pc = "tidy" /\ file["bak"] = Missing /\ file' = file
      BY <1>2, <1>3, <2>4 DEF Moves, Exists, AliasInv, Shape
    <3>2. \A m : Missing # Whole(m)
      BY Contents
    <3>3. ~past.reused => Good(file["main"])
      BY <2>2, <3>1, <3>2 DEF Good
    <3> QED
      BY <1>1, <2>1, <2>2, <3>1, <3>3 DEF CopiesInv
  <2> QED
    BY <2>3, <2>4
<1>8. OutcomeInv'
  BY <1>1, <1>2, <1>3, Contents DEF AliasInv, OutcomeInv, Exists, PCs, Saving, Moves
<1> QED
  BY <1>4, <1>5, <1>6, <1>7, <1>8 DEF AliasInv

\* The backup is where readers look.
LEMMA RestoredKeeps ==
  ASSUME AliasInv, Restored
  PROVE  AliasInv'
<1>1. /\ cmd # Idle /\ cmd.pc = "fill main"
      /\ windows' = windows /\ expected' = expected /\ past' = past
  BY Contents DEF Restored, PCs
<1>2. /\ file'["main"] = file["bak"] /\ file'["bak"] = file["bak"] /\ file'["temp"] = file["temp"]
      /\ file' = [g \in {"main", "bak", "temp"} |-> file'[g]]
  BY PutWrites DEF Restored, AliasInv
<1>3. Moves("tidy", cmd.faults)
  BY <1>1, CommandMoves DEF Restored, AliasInv, PCs
<1>4. Shape'
  BY <1>1, <1>2, <1>3, Contents DEF AliasInv, Shape, Moves
<1>5. Carried'
  BY <1>1, <1>2, <1>3, Contents DEF AliasInv, Carried, PCs, Saving, Moves
<1>6. ReadersInv'
  BY <1>1, <1>2, <1>3, Contents DEF AliasInv, Carried, ReadersInv, Load, Reads, Exists, PCs, Saving, Moves
<1>7. CopiesInv'
  BY <1>1, <1>2, <1>3, Contents DEF AliasInv, CopiesInv, Good, Exists, PCs, Saving, Moves
<1>8. OutcomeInv'
  BY <1>1, <1>2, <1>3, Contents DEF AliasInv, OutcomeInv, PCs, Saving, Moves
<1> QED
  BY <1>4, <1>5, <1>6, <1>7, <1>8 DEF AliasInv

\* A restore that fails leaves the backup.
LEMMA RestoreFailsKeeps ==
  ASSUME AliasInv, RestoreFails
  PROVE  AliasInv'
<1>1. /\ cmd # Idle /\ cmd.pc \in {"restore", "fill main"}
      /\ windows' = windows /\ expected' = expected /\ Exists("bak")
  BY Contents DEF RestoreFails, PCs
<1>2. /\ IF cmd.pc = "fill main" THEN file'["main"] = Missing ELSE file'["main"] = file["main"]
      /\ file'["bak"] = file["bak"] /\ file'["temp"] = file["temp"]
      /\ file' = [g \in {"main", "bak", "temp"} |-> file'[g]]
  BY PutWrites DEF RestoreFails, AliasInv, Shape
<1>3. Moves("tidy", cmd.faults + 1)
  BY <1>1, CommandMoves DEF RestoreFails, AliasInv, PCs
<1>4. /\ past' \in [killed : BOOLEAN, reused : BOOLEAN, cut : BOOLEAN, leftover : BOOLEAN]
      /\ past'.cut /\ past'.reused = past.reused /\ past'.killed = past.killed
  BY DEF RestoreFails, AliasInv, Shape
<1>5. Shape'
  BY <1>1, <1>2, <1>3, <1>4, Contents DEF AliasInv, Shape, Moves
<1>6. Carried'
  BY <1>1, <1>2, <1>3, <1>4, Contents DEF AliasInv, Carried, PCs, Saving, Moves
<1>7. ReadersInv'
  BY <1>1, <1>2, <1>3, <1>4, Contents DEF AliasInv, ReadersInv, Load, Reads, Exists, PCs, Saving, Moves
<1>8. CopiesInv'
  <2>1. cmd.pc \in PCs /\ cmd'.pc = "tidy"
    BY <1>1, <1>3 DEF PCs, Moves
  <2>2. ASSUME ~past.reused
        PROVE  /\ (file["main"] = Missing \/ Good(file["main"])) \/ cmd.pc = "fill main"
               /\ file["bak"] = Missing \/ Good(file["bak"])
               /\ Good(file["main"]) \/ Good(file["bak"])
               /\ cmd.pc = "fill main" => Good(file["bak"])
    BY <1>1, <2>1, <2>2 DEF AliasInv, CopiesInv
  <2>3. \A c : Good(c) => Good(c)'
    BY <1>1 DEF Good
  <2> QED
    BY <1>1, <1>2, <1>4, <2>1, <2>2, <2>3 DEF CopiesInv
<1>9. OutcomeInv'
  <2>1. cmd'.faults <= 1 => cmd.faults = 0
    BY <1>3 DEF Moves
  <2>2. past.reused \/ cmd.faults # 0
    <3> SUFFICES ASSUME ~past.reused, cmd.faults = 0 PROVE FALSE
      OBVIOUS
    <3>1. cmd.pc \in PCs
      BY <1>1 DEF PCs
    <3>2. cmd.faults <= 1
      OBVIOUS
    <3>3. cmd.faults = 1
      BY <1>1, <3>1, <3>2 DEF AliasInv, OutcomeInv
    <3> QED
      BY <3>3
  <2> QED
    BY <1>1, <1>4, <2>1, <2>2 DEF OutcomeInv
<1> QED
  BY <1>5, <1>6, <1>7, <1>8, <1>9 DEF AliasInv

\* A failed command ends, or a rename saves once more what was there before.
LEMMA TidyKeeps ==
  ASSUME AliasInv, Tidy
  PROVE  AliasInv'
<1>1. /\ cmd # Idle /\ cmd.pc = "tidy" /\ cmd.pc \in PCs
      /\ windows' = windows /\ expected' = expected /\ past' = past
  BY Contents DEF Tidy, PCs
<1>2. /\ file'["main"] = file["main"] /\ file'["bak"] = file["bak"]
      /\ file' = [g \in {"main", "bak", "temp"} |-> file'[g]] /\ DOMAIN file' = DOMAIN file
  BY DEF Tidy, AliasInv, Shape
<1>3. \A c : Good(c) => Good(c)'
  BY <1>1 DEF Good
<1>4. CASE cmd' = Idle
  <2>1. cmd'.pc = "idle" /\ "idle" \notin PCs
    BY <1>4, Contents
  <2>2. Shape'
    BY <1>1, <1>2, <1>4 DEF AliasInv, Shape
  <2>3. Carried'
    BY <2>1 DEF Carried, PCs, Saving
  <2>4. ReadersInv'
    BY <1>1, <1>2, <2>1 DEF AliasInv, ReadersInv, Load
  <2>5. CopiesInv'
    <3>1. ASSUME ~past.reused
          PROVE  /\ Good(file["main"]) \/ Good(file["bak"])
                 /\ ~past.killed /\ ~past.cut =>
                      Good(file["main"]) /\ file["bak"] \in {Missing, file["main"]}
      BY <1>1, <3>1 DEF AliasInv, CopiesInv
    <3>2. DOMAIN file' = {"main", "bak", "temp"}
      BY <1>2
    <3> QED
      BY <1>1, <1>2, <1>3, <2>1, <3>1, <3>2 DEF CopiesInv
  <2>6. OutcomeInv'
    BY <2>1 DEF OutcomeInv
  <2> QED
    BY <2>2, <2>3, <2>4, <2>5, <2>6 DEF AliasInv
<1>5. CASE cmd' # Idle
  <2>1. cmd' = [cmd EXCEPT !.pc = "backup", !.saving = cmd.old, !.again = TRUE]
    BY <1>5 DEF Tidy
  <2>2. /\ cmd = [pc |-> cmd.pc, do |-> cmd.do, old |-> cmd.old, new |-> cmd.new,
                  saving |-> cmd.saving, again |-> cmd.again, faults |-> cmd.faults]
        /\ cmd.faults \in Nat
    BY <1>1 DEF AliasInv, Shape
  <2>3. cmd' = [pc |-> "backup", do |-> cmd.do, old |-> cmd.old, new |-> cmd.new,
                saving |-> cmd.old, again |-> TRUE, faults |-> cmd.faults]
    BY <2>1, <2>2
  <2>4. /\ cmd'.pc = "backup" /\ cmd'.old = cmd.old /\ cmd'.saving = cmd.old
        /\ cmd'.again /\ cmd'.faults = cmd.faults /\ cmd'.new = cmd.new /\ cmd'.do = cmd.do
        /\ cmd'.again \in BOOLEAN
    BY <2>3
  <2>5. Shape'
    BY <1>1, <1>2, <2>2, <2>3, <2>4 DEF AliasInv, Shape, PCs, Saving
  <2>6. Carried'
    BY <1>1, <2>4 DEF AliasInv, Carried
  <2>7. ReadersInv'
    BY <1>1, <1>2, <2>4 DEF AliasInv, ReadersInv, Load, Reads, Exists
  <2>8. CopiesInv'
    <3>1. ASSUME ~past.reused
          PROVE  /\ file["main"] = Missing \/ Good(file["main"])
                 /\ file["bak"] = Missing \/ Good(file["bak"])
                 /\ Good(file["main"]) \/ Good(file["bak"])
      BY <1>1, <3>1 DEF AliasInv, CopiesInv
    <3> QED
      BY <1>1, <1>2, <1>3, <2>4, <3>1 DEF CopiesInv
  <2>9. OutcomeInv'
    BY <1>1, <1>2, <2>4 DEF AliasInv, OutcomeInv
  <2> QED
    BY <2>5, <2>6, <2>7, <2>8, <2>9 DEF AliasInv
<1> QED
  BY <1>4, <1>5

\* Wherever a command is killed, a copy remains.
LEMMA KillKeeps ==
  ASSUME AliasInv, KillCommand
  PROVE  AliasInv'
<1>1. /\ cmd # Idle /\ cmd.pc \in PCs /\ cmd' = Idle
      /\ file' = file /\ windows' = windows /\ expected' = expected
  BY DEF KillCommand, AliasInv, Shape
<1>2. /\ past' \in [killed : BOOLEAN, reused : BOOLEAN, cut : BOOLEAN, leftover : BOOLEAN]
      /\ past'.killed /\ past'.cut = (past.cut \/ cmd.pc = "fill main")
      /\ past'.reused = past.reused /\ past'.leftover = past.leftover
  BY DEF KillCommand, AliasInv, Shape
<1>3. cmd'.pc = "idle" /\ "idle" \notin PCs
  BY <1>1, Contents
<1>4. Shape'
  BY <1>1, <1>2 DEF AliasInv, Shape
<1>5. Carried'
  BY <1>3 DEF Carried, PCs, Saving
<1>6. ReadersInv'
  BY <1>1, <1>2, <1>3 DEF AliasInv, ReadersInv, Load
<1>7. CopiesInv'
  <2>1. \A c : Good(c) => Good(c)'
    BY <1>1 DEF Good
  <2>2. ASSUME ~past.reused
        PROVE  Good(file["main"]) \/ Good(file["bak"])
    <3>1. cmd.pc = "clean" => Good(file["main"])
      BY <1>1 DEF AliasInv, Carried, Good
    <3> QED
      BY <1>1, <2>2, <3>1 DEF AliasInv, CopiesInv, PCs, Saving
  <2>3. DOMAIN file' = {"main", "bak", "temp"}
    BY <1>1 DEF AliasInv, Shape
  <2> QED
    BY <1>1, <1>2, <1>3, <2>1, <2>2, <2>3 DEF CopiesInv
<1>8. OutcomeInv'
  BY <1>3 DEF OutcomeInv
<1> QED
  BY <1>4, <1>5, <1>6, <1>7, <1>8 DEF AliasInv

\* Inspections and pruning leave the aliases alone.
LEMMA OthersKeep ==
  ASSUME AliasInv, UNCHANGED aliasVars
  PROVE  AliasInv'
<1>1. /\ file' = file /\ windows' = windows /\ cmd' = cmd
      /\ expected' = expected /\ past' = past
  BY DEF aliasVars
<1>2. Shape' /\ Carried'
  BY <1>1 DEF AliasInv, Shape, Carried, Exists
<1>3. ReadersInv'
  BY <1>1 DEF AliasInv, ReadersInv, Load, Exists
<1>4. CopiesInv'
  BY <1>1 DEF AliasInv, CopiesInv, Good
<1>5. OutcomeInv'
  BY <1>1 DEF AliasInv, OutcomeInv
<1> QED
  BY <1>2, <1>3, <1>4, <1>5 DEF AliasInv

\* Every step keeps the invariant of the aliases.
LEMMA AliasesStep == AliasInv /\ [Next]_vars => AliasInv'
<1> SUFFICES ASSUME AliasInv, [Next]_vars PROVE AliasInv'
  OBVIOUS
<1>1. CASE \E op \in Commands : Issue(op)
  BY <1>1, IssueKeeps
<1>2. CASE SaveStep
  BY <1>2, BackupKeeps, BackupMadeKeeps, WriteKeeps, WrittenKeeps, UnlinkKeeps, RenameKeeps
     DEF SaveStep, Saving
<1>3. CASE Saved \/ SaveFails \/ Restore \/ Restored \/ RestoreFails \/ Tidy \/ KillCommand
  BY <1>3, SavedKeeps, SaveFailsKeeps, RestoreKeeps, RestoredKeeps, RestoreFailsKeeps, TidyKeeps, KillKeeps
<1>4. CASE UNCHANGED aliasVars
  BY <1>4, OthersKeep
<1>5. ASSUME NEW p \in Inspectors,
             (\E t \in Targets : OpenSession(p, t)) \/ EmptyRecording(p) \/ FillRecording(p) \/ KillInspector(p)
      PROVE  UNCHANGED aliasVars
  BY <1>5 DEF OpenSession, EmptyRecording, FillRecording, KillInspector
<1>6. SessionPruned \/ UNCHANGED vars => UNCHANGED aliasVars
  BY DEF SessionPruned, vars
<1> QED
  BY <1>1, <1>2, <1>3, <1>4, <1>5, <1>6 DEF Next, CommandStep

\* The invariant gives what readers are promised.
LEMMA AliasInvSafe == AliasInv => AliasesSafe
<1> SUFFICES ASSUME AliasInv PROVE AliasesSafe
  OBVIOUS
<1>1. ReadersFindAliases
  BY DEF AliasInv, ReadersInv, ReadersFindAliases
<1>2. CopyRemains
  <2>1. \A c : Good(c) => c.kind = "whole" /\ c.map \in expected
    BY Contents DEF Good
  <2>2. DOMAIN file = {"main", "bak", "temp"}
    BY DEF AliasInv, Shape
  <2>3. cmd.pc = "idle" \/ cmd.pc \in PCs
    BY Contents DEF AliasInv, Shape
  <2>4. cmd.pc = "clean" => Good(file["main"])
    BY DEF AliasInv, Carried, Good, PCs
  <2>5. ASSUME ~past.reused
        PROVE  \E f \in DOMAIN file : Good(file[f])
    BY <2>2, <2>3, <2>4, <2>5 DEF AliasInv, CopiesInv, PCs, Saving
  <2> QED
    BY <2>1, <2>5 DEF CopyRemains
<1> QED
  BY <1>1, <1>2 DEF AliasesSafe

\* What a step of a command that ends one says of it.
LEMMA ReportStep ==
  ASSUME AliasInv, [Next]_vars,
         cmd.pc \in {"clean", "tidy"}, cmd' = Idle, past' = past, ~past.reused
  PROVE  \/ cmd.faults = 0 /\ Load' = cmd.new
         \/ cmd.faults = 1 /\ Load' = cmd.old
         \/ cmd.faults > 1
<1>1. /\ cmd # Idle /\ cmd.pc \in PCs /\ cmd.faults \in Nat /\ cmd.again \in BOOLEAN
      /\ ~past.killed
  BY Contents DEF AliasInv, Shape, PCs
<1>2. Saved \/ Tidy
  <2>1. ~ \E op \in Commands : Issue(op)
    BY <1>1 DEF Issue
  <2>2. ~SaveStep /\ ~Restore /\ ~Restored /\ ~RestoreFails
    BY DEF SaveStep, Restore, Restored, RestoreFails, Saving
  <2>3. ~SaveFails
    <3> SUFFICES ASSUME SaveFails PROVE FALSE
      OBVIOUS
    <3>1. Moves("restore", cmd.faults + 1)
      BY <1>1, CommandMoves DEF SaveFails, AliasInv, PCs
    <3> QED
      BY <3>1, Contents DEF Moves
  <2>4. ~KillCommand
    BY <1>1 DEF KillCommand, AliasInv, Shape
  <2>5. ~UNCHANGED cmd
    BY <1>1
  <2>6. ASSUME NEW p \in Inspectors
        PROVE  ~((\E t \in Targets : OpenSession(p, t)) \/ EmptyRecording(p)
                   \/ FillRecording(p) \/ KillInspector(p))
    BY <2>5 DEF OpenSession, EmptyRecording, FillRecording, KillInspector, aliasVars
  <2>7. ~SessionPruned /\ ~UNCHANGED vars
    BY <2>5 DEF SessionPruned, vars, aliasVars
  <2> QED
    BY <2>1, <2>2, <2>3, <2>4, <2>6, <2>7 DEF Next, CommandStep
<1>3. CASE Saved
  <2>1. cmd.pc = "clean" /\ Load' = cmd.saving
    <3>1. cmd.pc = "clean" /\ Put("bak", Missing)
      BY <1>3 DEF Saved
    <3>2. file'["main"] = Whole(cmd.saving)
      BY <3>1, PutWrites DEF AliasInv, Carried
    <3> QED
      BY <3>1, <3>2, Contents DEF Load
  <2>2. cmd.faults <= 1 => IF cmd.again THEN cmd.faults = 1 /\ cmd.saving = cmd.old
                                        ELSE cmd.faults = 0 /\ cmd.saving = cmd.new
    BY <1>1, <2>1 DEF AliasInv, OutcomeInv
  <2> QED
    BY <1>1, <2>1, <2>2
<1>4. CASE Tidy
  <2>1. cmd.pc = "tidy" /\ file'["main"] = file["main"]
    BY <1>4 DEF Tidy, AliasInv, Shape
  <2>2. cmd.faults <= 1 => cmd.faults = 1 /\ Load' = cmd.old
    BY <1>1, <2>1, Contents DEF AliasInv, OutcomeInv, Load
  <2> QED
    BY <1>1, <2>2
<1> QED
  BY <1>2, <1>3, <1>4

-----------------------------------------------------------------------------
(* The recordings.                                                         *)

Snapshot(i) == {c \in [kind : {"whole"}, latest : SessionFiles, history : Seq(SessionFiles)] :
  /\ c.history # <<>>
  /\ c.history[Len(c.history)] = c.latest
  /\ \A k \in 2..Len(c.history) : c.history[k] # c.history[k - 1]
  /\ \A k \in DOMAIN c.history : RecordId(c.history[k]) = i}

\* Every recording that can be read, and every one that is about to be written,
\* is a history of one session.
RecordInv ==
  /\ existing \subseteq SessionFiles
  /\ recording = [i \in Ids |-> recording[i]]
  /\ \A i \in Ids : recording[i] \in {Missing, Torn} \cup Snapshot(i)
  /\ inspector = [p \in Inspectors |-> inspector[p]]
  /\ \A p \in Inspectors :
       \/ inspector[p] = Idle
       \/ /\ inspector[p] = [pc |-> inspector[p].pc, id |-> inspector[p].id, payload |-> inspector[p].payload]
          /\ inspector[p].pc \in {"write", "fill"}
          /\ inspector[p].id \in Ids
          /\ inspector[p].payload \in Snapshot(inspector[p].id)

\* Whatever is asked for, only a session file that exists is found.
LEMMA FoundExists ==
  ASSUME existing \subseteq SessionFiles, NEW t \in Targets
  PROVE  Resolve(t) \subseteq existing
<1>1. \A W : Deduped(W) \subseteq existing
  BY DEF Deduped, Found
<1>2. ASSUME NEW S \in SUBSET existing, S # {} PROVE Newest(S) \in S
  <2>1. S \in SUBSET SessionFiles
    OBVIOUS
  <2>2. \E f \in S : \A g \in S : f.age <= g.age
    BY <1>2, <2>1, NewestExists
  <2> QED
    BY <2>2 DEF Newest
<1>3. \A v : ById(v) \subseteq existing
  BY <1>1, <1>2 DEF ById
<1>4. Latest \subseteq existing
  BY <1>1, <1>2 DEF Latest
<1>5. \A path : ByPath(path) \subseteq existing
  BY DEF ByPath
<1>6. t.kind \in {"latest", "alias", "path", "id", "date"}
  BY DEF Targets
<1> QED
  BY <1>3, <1>4, <1>5, <1>6 DEF Resolve

\* A snapshot is added at the end of a history only if it differs from the last.
LEMMA SnapshotAdded ==
  ASSUME NEW f \in SessionFiles, NEW old,
         recording[RecordId(f)] \in {Missing, Torn} \cup Snapshot(RecordId(f)),
         old = IF recording[RecordId(f)].kind = "whole" THEN recording[RecordId(f)].history ELSE <<>>
  PROVE  [kind |-> "whole", latest |-> f,
          history |-> IF old # <<>> /\ recording[RecordId(f)].latest = f THEN old ELSE Append(old, f)]
            \in Snapshot(RecordId(f))
<1> DEFINE i == RecordId(f)
           c == recording[i]
<1>1. CASE c.kind # "whole"
  <2>1. old = <<>>
    BY <1>1
  <2> DEFINE h == Append(old, f)
  <2>2. /\ old \in Seq(SessionFiles) /\ Len(old) = 0
        /\ h \in Seq(SessionFiles) /\ Len(h) = 1 /\ h # <<>> /\ h[1] = f /\ DOMAIN h = 1..1
    <3>1. old \in Seq(SessionFiles) /\ Len(old) = 0
      BY <2>1, EmptySeq
    <3>2. h \in Seq(SessionFiles) /\ Len(h) = Len(old) + 1 /\ h[Len(old) + 1] = f /\ h # <<>>
      BY <3>1, AppendProperties
    <3> HIDE DEF h
    <3>3. Len(h) = 1 /\ h[1] = f
      BY <3>1, <3>2
    <3>4. DOMAIN h = 1..1
      BY <3>2, <3>3, LenProperties
    <3> QED
      BY <3>1, <3>2, <3>3, <3>4
  <2> HIDE DEF h
  <2>3. [kind |-> "whole", latest |-> f, history |-> h] \in Snapshot(i)
    BY <2>2 DEF Snapshot
  <2> QED
    BY <2>1, <2>3 DEF h
<1>2. CASE c.kind = "whole"
  <2>1. c \in Snapshot(i) /\ old = c.history
    BY <1>2, Contents
  <2>2. CASE c.latest = f
    BY <2>1, <2>2 DEF Snapshot
  <2>3. CASE c.latest # f
    <3> DEFINE h == Append(old, f)
    <3>1. /\ old \in Seq(SessionFiles) /\ old # <<>> /\ old[Len(old)] # f
          /\ \A k \in 2..Len(old) : old[k] # old[k - 1]
          /\ \A k \in DOMAIN old : RecordId(old[k]) = i
      BY <2>1, <2>3 DEF Snapshot
    <3>2. /\ h \in Seq(SessionFiles) /\ Len(h) = Len(old) + 1 /\ h # <<>> /\ h[Len(h)] = f
          /\ DOMAIN h = 1..Len(h) /\ DOMAIN old = 1..Len(old) /\ Len(old) \in Nat
          /\ \A k \in 1..Len(old) : h[k] = old[k]
      <4>1. old \in Seq(SessionFiles) /\ f \in SessionFiles
        BY <3>1
      <4>2. /\ h \in Seq(SessionFiles) /\ Len(h) = Len(old) + 1 /\ h[Len(old) + 1] = f
            /\ h # <<>> /\ Len(old) \in Nat /\ DOMAIN old = 1..Len(old)
        BY <4>1, AppendProperties, LenProperties
      <4>3. \A k \in 1..Len(old) : h[k] = old[k]
        BY <4>1, AppendProperties
      <4>4. DOMAIN h = 1..Len(h) /\ h[Len(h)] = f
        BY <4>2, LenProperties
      <4>5. QED
        BY <4>2, <4>3, <4>4
    <3>3. \A k \in 2..Len(h) : h[k] # h[k - 1]
      <4> SUFFICES ASSUME NEW k \in 2..Len(h) PROVE h[k] # h[k - 1]
        OBVIOUS
      <4>1. CASE k = Len(h)
        BY <4>1, <3>1, <3>2
      <4>2. CASE k # Len(h)
        BY <4>2, <3>1, <3>2
      <4> QED
        BY <4>1, <4>2
    <3>4. \A k \in DOMAIN h : RecordId(h[k]) = i
      BY <3>1, <3>2
    <3> HIDE DEF h
    <3>5. [kind |-> "whole", latest |-> f, history |-> h] \in Snapshot(i)
      BY <3>2, <3>3, <3>4 DEF Snapshot
    <3> QED
      BY <3>5, <2>3 DEF h
  <2> QED
    BY <2>2, <2>3
<1> QED
  BY <1>1, <1>2

LEMMA RecordsBegin == Init => RecordInv
BY DEF Init, RecordInv, Ids

\* Every step of an inspection keeps the invariant of the recordings.
LEMMA RecordsStep == RecordInv /\ [Next]_vars => RecordInv'
<1> SUFFICES ASSUME RecordInv, [Next]_vars PROVE RecordInv'
  OBVIOUS
<1>1. ASSUME NEW p \in Inspectors, NEW t \in Targets, OpenSession(p, t)
      PROVE  RecordInv'
  <2>1. existing' = existing /\ recording' = recording
    BY <1>1 DEF OpenSession
  <2>2. PICK f \in Resolve(t) :
          inspector' = [inspector EXCEPT ![p] =
            [pc |-> "write", id |-> RecordId(f), payload |-> [kind |-> "whole", latest |-> f, history |->
               LET old == IF recording[RecordId(f)].kind = "whole" THEN recording[RecordId(f)].history ELSE <<>>
               IN  IF old # <<>> /\ recording[RecordId(f)].latest = f THEN old ELSE Append(old, f)]]]
    BY <1>1 DEF OpenSession
  <2>3. f \in SessionFiles
    BY FoundExists DEF RecordInv
  <2>4. RecordId(f) \in Ids
    BY <2>3 DEF Ids
  <2> DEFINE old == IF recording[RecordId(f)].kind = "whole" THEN recording[RecordId(f)].history ELSE <<>>
             payload == [kind |-> "whole", latest |-> f,
                         history |-> IF old # <<>> /\ recording[RecordId(f)].latest = f THEN old ELSE Append(old, f)]
  <2>5. payload \in Snapshot(RecordId(f))
    BY <2>3, <2>4, SnapshotAdded DEF RecordInv
  <2>6. inspector' = [inspector EXCEPT ![p] = [pc |-> "write", id |-> RecordId(f), payload |-> payload]]
    BY <2>2
  <2> HIDE DEF payload
  <2> QED
    BY <2>1, <2>4, <2>5, <2>6 DEF RecordInv
<1>2. ASSUME NEW p \in Inspectors, EmptyRecording(p)
      PROVE  RecordInv'
  <2>1. /\ inspector[p].pc = "write" /\ existing' = existing
        /\ recording' = [recording EXCEPT ![inspector[p].id] = Torn]
        /\ inspector' = [inspector EXCEPT ![p].pc = "fill"]
    BY <1>2 DEF EmptyRecording, aliasVars
  <2>2. /\ inspector[p] = [pc |-> inspector[p].pc, id |-> inspector[p].id, payload |-> inspector[p].payload]
        /\ inspector[p].id \in Ids /\ inspector[p].payload \in Snapshot(inspector[p].id)
    BY <2>1, Contents DEF RecordInv
  <2>3. inspector' = [inspector EXCEPT ![p] =
          [pc |-> "fill", id |-> inspector[p].id, payload |-> inspector[p].payload]]
    <3>1. inspector' = [inspector EXCEPT ![p] = [inspector[p] EXCEPT !.pc = "fill"]]
      BY <2>1
    <3>2. [inspector[p] EXCEPT !.pc = "fill"] =
            [pc |-> "fill", id |-> inspector[p].id, payload |-> inspector[p].payload]
      BY <2>2
    <3> QED
      BY <3>1, <3>2
  <2>4. \A i \in Ids : recording'[i] \in {Missing, Torn} \cup Snapshot(i)
    BY <2>1, <2>2 DEF RecordInv
  <2>5. recording' = [i \in Ids |-> recording'[i]]
    BY <2>1 DEF RecordInv
  <2> QED
    BY <2>1, <2>2, <2>3, <2>4, <2>5 DEF RecordInv
<1>3. ASSUME NEW p \in Inspectors, FillRecording(p)
      PROVE  RecordInv'
  <2>1. /\ inspector[p].pc = "fill" /\ existing' = existing
        /\ recording' = [recording EXCEPT ![inspector[p].id] = inspector[p].payload]
        /\ inspector' = [inspector EXCEPT ![p] = Idle]
    BY <1>3 DEF FillRecording
  <2>2. inspector[p].id \in Ids /\ inspector[p].payload \in Snapshot(inspector[p].id)
    BY <2>1, Contents DEF RecordInv
  <2> QED
    BY <2>1, <2>2 DEF RecordInv
<1>4. ASSUME NEW p \in Inspectors, KillInspector(p)
      PROVE  RecordInv'
  BY <1>4 DEF KillInspector, RecordInv
<1>5. CASE SessionPruned
  BY <1>5 DEF SessionPruned, recordVars, RecordInv
<1>6. CASE UNCHANGED <<existing, recordVars>>
  BY <1>6 DEF recordVars, RecordInv
<1>7. (\E op \in Commands : Issue(op)) \/ CommandStep \/ SaveFails \/ RestoreFails \/ KillCommand
        => UNCHANGED <<existing, recordVars>>
  BY DEF Issue, CommandStep, SaveStep, Saved, Restore, Restored, Tidy, SaveFails, RestoreFails, KillCommand
<1>8. UNCHANGED vars => UNCHANGED <<existing, recordVars>>
  BY DEF vars
<1> QED
  BY <1>1, <1>2, <1>3, <1>4, <1>5, <1>6, <1>7, <1>8 DEF Next

LEMMA RecordInvConsistent == RecordInv => HistoryConsistent
BY Contents DEF RecordInv, HistoryConsistent, Snapshot

-----------------------------------------------------------------------------
(* The theorems.                                                           *)

\* Through any number of commands, failing operations and kills, a reader finds
\* the aliases before or after the command where rename replaces, and a copy of
\* them remains everywhere (session-aliases.js, saveAliases).
THEOREM AliasesAreSafe == Spec => []AliasesSafe
<1>1. Spec => []AliasInv
  <2>1. AliasInv /\ UNCHANGED vars => AliasInv'
    BY AliasesStep
  <2> QED
    BY AliasesBegin, AliasesStep, PTL DEF Spec
<1> QED
  BY <1>1, AliasInvSafe, PTL

\* A command reports success only if its change is in place, and failure after
\* one failing operation only if it is not (session-aliases.js, saveAliases and
\* renameAlias).
THEOREM ReportsTrue == Spec => ReportTrue
<1>1. AliasInv /\ [Next]_vars =>
        [cmd.pc \in {"clean", "tidy"} /\ cmd' = Idle /\ past' = past /\ ~past.reused =>
           \/ cmd.faults = 0 /\ Load' = cmd.new
           \/ cmd.faults = 1 /\ Load' = cmd.old
           \/ cmd.faults > 1]_vars
  BY ReportStep
<1> QED
  BY <1>1, AliasesBegin, AliasesStep, PTL DEF Spec, ReportTrue

\* A recording that can be read ends with its latest snapshot and repeats none,
\* whichever inspections overlapped or were killed (canonical-session.js).
THEOREM HistoriesConsistent == Spec => []HistoryConsistent
BY RecordsBegin, RecordsStep, RecordInvConsistent, PTL DEF Spec
=============================================================================
