-------------------------- MODULE Rollback_proofs --------------------------
(***************************************************************************)
(* The safety of Rollback, for any prompts, migrations and budgets.        *)
(***************************************************************************)
EXTENDS Rollback, WellFoundedInduction, TLAPS

-----------------------------------------------------------------------------
(***************************************************************************)
(* The operators the model is built from.                                  *)
(***************************************************************************)

(* What is written next is one of the files still to be written.           *)
LEMMA FirstExists ==
  ASSUME NEW files \in SUBSET Name, files # {}
  PROVE  FirstOf(files) \in files
<1> DEFINE at == {i \in DOMAIN Names : Names[i] \in files}
<1> DEFINE less == {ss \in Nat \X Nat : ss[1] < ss[2]}
<1>1. at \subseteq Nat /\ at # {}
  BY RollbackAssumption DEF Name, Range, RollbackAssumption
<1>2. IsWellFoundedOn(less, Nat)
  BY NatLessThanWellFounded DEF OpToRel
<1>3. PICK i \in at : \A j \in at : ~(<<j, i>> \in less)
  <2> HIDE DEF at, less
  <2> QED BY <1>1, <1>2, WFMin
<1>4. \A j \in at : ~(j < i)
  BY <1>1, <1>3
<1>5. /\ i \in DOMAIN Names /\ Names[i] \in files
      /\ \A j \in 1..(i - 1) : Names[j] \notin files
  BY <1>3, <1>4, RollbackAssumption DEF RollbackAssumption
<1> QED BY <1>5 DEF FirstOf

(* Ids are drawn from the serial, so one migration has the highest, and    *)
(* agentic_schema_version() is a migration's name or the base version.     *)
LEMMA VersionType ==
  ASSUME NEW r \in [Migration -> Nat], NEW s \in Nat,
         \A m \in Migration : r[m] < s
  PROVE  Version(r) \in Migration \cup {Base}
<1> DEFINE below == {s - r[m] : m \in Migration}
<1> DEFINE less == {ss \in Nat \X Nat : ss[1] < ss[2]}
<1>1. CASE \A m \in Migration : r[m] = 0
  BY <1>1 DEF Version
<1>2. CASE \E m \in Migration : r[m] # 0
  <2>1. below \subseteq Nat /\ below # {}
    BY <1>2
  <2>2. IsWellFoundedOn(less, Nat)
    BY NatLessThanWellFounded DEF OpToRel
  <2>3. PICK d \in below : \A e \in below : ~(<<e, d>> \in less)
    <3> HIDE DEF below, less
    <3> QED BY <2>1, <2>2, WFMin
  <2>4. PICK k \in Migration : d = s - r[k]
    BY <2>3
  <2>5. \A m \in Migration : r[m] <= r[k]
    <3>1. \A m \in Migration : s - r[m] \in below /\ ~(s - r[m] < d)
      BY <2>1, <2>3
    <3> QED BY <2>4, <3>1
  <2>6. r[k] # 0
    BY <1>2, <2>5
  <2> QED BY <1>2, <2>5, <2>6 DEF Version
<1> QED BY <1>1, <1>2

(* A commit has memory and its schema version, or neither.                 *)
LEMMA CommitParts ==
  ASSUME NEW c \in Commit
  PROVE  /\ c.prompts \in Trees \cup {None}
         /\ c.schema # None =>
              c.schema \in Migration \cup {Base} /\ c.memory \in Memory
         /\ c.schema = None => c.memory = None
BY ValuesDiffer DEF Commit, ValuesDiffer, Memory

LEMMA TreePrompts ==
  ASSUME NEW c \in Commit, c.prompts # None
  PROVE  /\ c.prompts \in [Name -> File]
         /\ FilesOf(c) \subseteq Name /\ FilesOf(c) # {}
         /\ \A n \in Name \ FilesOf(c) : c.prompts[n] = NoFile
<1>1. c.prompts \in Trees
  BY CommitParts
<1>2. \E n \in Name : c.prompts[n] # NoFile
  BY <1>1 DEF Trees, NoFiles
<1> QED BY <1>1, <1>2 DEF Trees, FilesOf

LEMMA FilesAreNames ==
  ASSUME NEW c
  PROVE  FilesOf(c) \subseteq Name
BY DEF FilesOf

(* A branch only grows at its end.                                         *)
LEMMA AppendKeeps ==
  ASSUME NEW s \in Seq(Commit), NEW c \in Commit
  PROVE  /\ Append(s, c) \in Seq(Commit)
         /\ Len(Append(s, c)) = Len(s) + 1
         /\ DOMAIN s \subseteq DOMAIN Append(s, c)
         /\ \A i \in DOMAIN s : Append(s, c)[i] = s[i]
         /\ Append(s, c)[Len(s) + 1] = c
         /\ DOMAIN Append(s, c) = DOMAIN s \cup {Len(s) + 1}
OBVIOUS

-----------------------------------------------------------------------------
(***************************************************************************)
(* The inductive invariant, in parts.                                      *)
(***************************************************************************)
Types ==
  /\ TypeOK
  /\ req \in [ref : Nat, dry : BOOLEAN, accept : BOOLEAN, token : Nat]
  /\ \A m \in Migration : rows[m] < serial

(* What each stage has ahead of it.                                        *)
Course ==
  /\ pc \in {"version", "plan", "reverse", "check", "restore"} =>
       rest = Wanted /\ Goal.schema # None
  /\ pc \in {"write", "rename"} =>
       Goal.prompts # None /\ rest # {} /\ rest \subseteq Wanted
  /\ pc = "sweep" => Goal.prompts # None

(* What was granted when the rollback began, and what was planned.         *)
Gate ==
  /\ pc \in Working \ {"begin"} =>
       /\ req.accept => req.token = target
       /\ \A m \in names : MayReverse(m)
  /\ pc \in {"reverse", "check", "restore", "write", "rename", "sweep", "record"} =>
       ~req.dry

(* The migrations to reverse are later than the target's, for as long as   *)
(* it takes to begin the transaction.                                      *)
Above ==
  pc = "reverse" =>
    /\ Recorded(rows, Goal.schema)
    /\ \A m \in names : rows[m] > IdOf(rows, Goal.schema)

(* Only a temporary file is cut short: on disk, in what a client has read, *)
(* and in commits; and what is about to be renamed is whole.               *)
Whole(files) == \A n \in Name \ Range(Tmp) : files[n] # Partial

Clean ==
  /\ Whole(disk) /\ Whole(draft)
  /\ \A i \in DOMAIN commits : commits[i].prompts # None => Whole(commits[i].prompts)

Written ==
  pc = "rename" => disk[Tmp[FirstOf(rest)]] = Goal.prompts[FirstOf(rest)]

(* What of the target is in place.                                         *)
SchemaSet ==
  /\ pc \in {"restore", "write", "rename", "sweep", "record", "done"} /\ ~req.dry
  /\ Goal.schema # None /\ "schema" \notin since
  => Version(rows) = Goal.schema

MemorySet ==
  /\ pc \in {"write", "rename", "sweep", "record", "done"} /\ ~req.dry
  /\ Goal.memory # None /\ "memory" \notin since
  => data = Goal.memory

PromptsSet ==
  ~Clash =>
    /\ pc \in {"write", "rename"} => \A n \in Wanted \ rest : Restored(n)
    /\ pc = "sweep" => \A n \in Wanted \cup (Name \ rest) : Restored(n)
    /\ pc = "record" \/ (pc = "done" /\ ~req.dry) => \A n \in Name : Restored(n)

Inv == Types /\ Course /\ Gate /\ Above /\ Clean /\ Written
       /\ SchemaSet /\ MemorySet /\ PromptsSet

-----------------------------------------------------------------------------
(***************************************************************************)
(* Initially.                                                              *)
(***************************************************************************)
LEMMA InitInv == Init => Inv
<1> SUFFICES ASSUME Init PROVE Inv
  OBVIOUS
<1>1. PICK past \in Past : commits =
        Append(past, [memory |-> data, schema |-> Base, prompts |-> Tree(disk)])
  BY DEF Init
<1> DEFINE last == [memory |-> data, schema |-> Base, prompts |-> Tree(disk)]
<1>2. disk \in [Name -> File] /\ Whole(disk)
  BY ValuesDiffer DEF Init, File, ValuesDiffer, Whole
<1>3. Tree(disk) \in Trees \cup {None}
  BY <1>2 DEF Tree, Trees
<1>4. last \in Commit
  BY <1>3 DEF Init, Commit, Memory
<1> DEFINE bare == [memory : {None}, schema : {None},
        prompts : [Name -> Content \cup {NoFile}] \ {[n \in Name |-> NoFile]}]
<1>5. past \in Seq(bare)
  BY RollbackAssumption DEF RollbackAssumption
<1>6. \A i \in DOMAIN past : past[i] \in Commit /\ Whole(past[i].prompts)
  <2> SUFFICES ASSUME NEW i \in DOMAIN past
               PROVE  past[i] \in Commit /\ Whole(past[i].prompts)
    OBVIOUS
  <2>1. past[i] \in bare
    <3> HIDE DEF bare
    <3> QED BY <1>5
  <2>2. past[i].prompts \in Trees
    BY <2>1 DEF Trees, File, NoFiles
  <2>3. past[i] \in Commit
    BY <2>1, <2>2 DEF Commit
  <2>4. Whole(past[i].prompts)
    BY <2>1, ValuesDiffer DEF Whole, ValuesDiffer
  <2> QED BY <2>3, <2>4
<1>7. past \in Seq(Commit)
  BY <1>5, <1>6
<1>8. /\ commits \in Seq(Commit) /\ Len(commits) = Len(past) + 1
      /\ \A i \in DOMAIN commits : i \in DOMAIN past \/ commits[i] = last
      /\ \A i \in DOMAIN past : commits[i] = past[i]
  <2> HIDE DEF last
  <2> QED BY <1>1, <1>4, <1>7, AppendKeeps DEF last
<1>9. Types
  <2>1. Resolve(req.ref) \in DOMAIN commits /\ target \in DOMAIN commits
    BY <1>5, <1>8 DEF Init, NoRequest, Resolve
  <2>2. budget \in [Event -> Nat]
    BY RollbackAssumption DEF Init, RollbackAssumption
  <2>3. req.token \in 0..Len(commits)
    BY <1>5, <1>8 DEF Init, NoRequest
  <2> QED BY <1>2, <1>8, <2>1, <2>2, <2>3
    DEF Init, Types, TypeOK, NoRequest, Memory, Working, Unopened
<1>10. Clean
  <2>1. Whole(draft)
    BY ValuesDiffer DEF Init, Whole, Unopened, ValuesDiffer
  <2>2. ASSUME NEW i \in DOMAIN commits, commits[i].prompts # None
        PROVE  Whole(commits[i].prompts)
    <3>1. CASE i \in DOMAIN past
      BY <3>1, <1>6, <1>8
    <3>2. CASE commits[i] = last
      BY <3>2, <2>2, <1>2 DEF Tree
    <3> QED BY <3>1, <3>2, <1>8
  <2> QED BY <1>2, <2>1, <2>2 DEF Clean
<1> QED BY <1>9, <1>10 DEF Init, Inv, Course, Gate, Above, Written, SchemaSet,
      MemorySet, PromptsSet, Working

-----------------------------------------------------------------------------
(***************************************************************************)
(* The types.                                                              *)
(***************************************************************************)
LEMMA GoalIsCommit ==
  ASSUME TypeOK
  PROVE  Goal \in Commit /\ Wanted \subseteq Name
BY FilesAreNames DEF TypeOK, Goal, Wanted

(* A commit is only ever added at the end: what was resolved stays.        *)
LEMMA BranchGrows ==
  ASSUME TypeOK, req \in [ref : Nat, dry : BOOLEAN, accept : BOOLEAN, token : Nat],
         NEW c \in Commit, commits' = Append(commits, c),
         target' = target, req' = req
  PROVE  /\ commits' \in Seq(Commit) /\ target' \in DOMAIN commits'
         /\ Resolve(req.ref)' \in DOMAIN commits'
         /\ req'.token \in 0..Len(commits')
         /\ Goal' = Goal
BY AppendKeeps DEF TypeOK, Resolve, Goal

LEMMA SpendType ==
  ASSUME TypeOK, NEW e \in Event, Spend(e)
  PROVE  budget' \in [Event -> Nat]
<1>1. budget[e] - 1 \in Nat
  BY DEF TypeOK, Spend
<1> QED BY <1>1 DEF TypeOK, Spend

LEMMA TouchType ==
  ASSUME TypeOK, NEW part \in Name \cup {"schema", "memory"}, Touch(part)
  PROVE  since' \subseteq Name \cup {"schema", "memory"}
BY DEF TypeOK, Touch

LEMMA TypesStep ==
  ASSUME Types, Course, [Next]_vars
  PROVE  Types'
<1> USE DEF Types
<1>0. Goal \in Commit /\ Wanted \subseteq Name
  BY GoalIsCommit
<1>1. CASE UNCHANGED vars
  BY <1>1 DEF vars, world, TypeOK, Resolve
<1>2. ASSUME NEW r \in Request, Ask(r) PROVE Types'
  <2>1. budget' \in [Event -> Nat]
    BY <1>2, SpendType DEF Ask, Event
  <2>2. r \in [ref : 0..Len(commits), dry : BOOLEAN, accept : BOOLEAN,
              token : 0..Len(commits)]
    BY DEF Request
  <2> QED BY <1>2, <2>1, <2>2 DEF Ask, world, TypeOK, Resolve, Working
<1>3. CASE Retry
  BY <1>3 DEF Retry, world, TypeOK, Resolve, Working
<1>4. CASE Begin
  <2> DEFINE t == Resolve(req.ref)
  <2>1. FilesOf(commits[t]) \subseteq Name
    BY FilesAreNames
  <2>2. pc' \in Working \cup {"done", "failed"}
    BY <1>4 DEF Begin, PromptsStage, Working
  <2>3. target' \in DOMAIN commits /\ rest' \subseteq Name
    BY <1>4, <2>1 DEF Begin, TypeOK
  <2> QED BY <1>4, <2>2, <2>3 DEF Begin, world, TypeOK, Resolve
<1>5. CASE ReadVersion
  BY <1>5 DEF ReadVersion, MemoryStage, world, TypeOK, Resolve, Working
<1>6. CASE PlanMigrations
  BY <1>6 DEF PlanMigrations, MigrationsAfter, world, TypeOK, Resolve, Working
<1>7. CASE ApplyReverse
  <2>1. /\ rows' \in [Migration -> Nat] /\ \A m \in Migration : rows'[m] <= rows[m]
    <3>1. CASE rows' = RowsWithout(rows, names)
      BY <3>1 DEF RowsWithout, TypeOK
    <3>2. CASE rows' = rows
      BY <3>2 DEF TypeOK
    <3> QED BY <1>7, <3>1, <3>2 DEF ApplyReverse
  <2>3. data' \in Memory
    BY <1>7 DEF ApplyReverse, TypeOK, Memory
  <2>2. \A m \in Migration : rows'[m] < serial'
    BY <1>7, <2>1 DEF ApplyReverse, TypeOK
  <2> QED BY <1>7, <2>1, <2>2, <2>3 DEF ApplyReverse, TypeOK, Resolve, Working
<1>8. CASE CheckVersion
  BY <1>8 DEF CheckVersion, world, TypeOK, Resolve, Working
<1>9. CASE RestoreTables
  <2>1. data' \in Memory
    BY <1>9, <1>0, CommitParts DEF RestoreTables, Course
  <2>2. pc' \in Working \cup {"done"}
    BY <1>9 DEF RestoreTables, PromptsStage, Working
  <2> QED BY <1>9, <2>1, <2>2 DEF RestoreTables, TypeOK, Resolve
<1>10. CASE WriteTemp
  <2>1. FirstOf(rest) \in rest /\ rest \subseteq Name
    BY <1>10, FirstExists DEF WriteTemp, Course, TypeOK
  <2>2. Goal.prompts \in [Name -> File]
    BY <1>10, <1>0, TreePrompts DEF WriteTemp, Course
  <2>3. disk' \in [Name -> File]
    BY <1>10, <2>1, <2>2 DEF WriteTemp, TypeOK
  <2>4. since' \subseteq Name \cup {"schema", "memory"}
    BY <1>10 DEF WriteTemp, TypeOK
  <2> QED BY <1>10, <2>3, <2>4 DEF WriteTemp, TypeOK, Resolve, Working
<1>11. CASE RenameTemp
  <2>1. FirstOf(rest) \in rest /\ rest \subseteq Name
    BY <1>11, FirstExists DEF RenameTemp, Course, TypeOK
  <2>2. Scratch(FirstOf(rest)) \in Name
    BY <2>1, RollbackAssumption DEF Scratch, RollbackAssumption
  <2>3. disk' \in [Name -> File]
    BY <1>11, <2>1, <2>2 DEF RenameTemp, TypeOK, File
  <2>4. since' \subseteq Name \cup {"schema", "memory"} /\ rest' \subseteq Name
    BY <1>11 DEF RenameTemp, TypeOK
  <2> QED BY <1>11, <2>3, <2>4 DEF RenameTemp, TypeOK, Resolve, Working
<1>12. ASSUME NEW n \in Name, SweepFile(n) PROVE Types'
  <2>1. disk' \in [Name -> File]
    BY <1>12 DEF SweepFile, TypeOK, File
  <2>2. since' \subseteq Name \cup {"schema", "memory"} /\ rest' \subseteq Name
    BY <1>12 DEF SweepFile, TypeOK
  <2> QED BY <1>12, <2>1, <2>2 DEF SweepFile, TypeOK, Resolve, Working
<1>13. CASE RecordForward
  <2>1. /\ commits' \in Seq(Commit) /\ target' \in DOMAIN commits'
        /\ Resolve(req.ref)' \in DOMAIN commits'
        /\ req'.token \in 0..Len(commits')
    BY <1>13, <1>0, BranchGrows DEF RecordForward
  <2> QED BY <1>13, <2>1 DEF RecordForward, world, TypeOK
<1>14. CASE Interrupt
  <2>1. disk' \in [Name -> File]
    BY <1>14 DEF Interrupt, TypeOK, File
  <2>2. budget' \in [Event -> Nat]
    BY <1>14, SpendType DEF Interrupt, Event
  <2> QED BY <1>14, <2>1, <2>2 DEF Interrupt, TypeOK, Resolve
<1>15. ASSUME NEW n \in Name, ReadPrompt(n) PROVE Types'
  BY <1>15 DEF ReadPrompt, world, TypeOK, Resolve
<1>16. ASSUME NEW noMemory \in BOOLEAN, MakeCommit(noMemory) PROVE Types'
  <2>1. draft \in [Name -> File]
    BY <1>16 DEF MakeCommit, Unseen, TypeOK
  <2>2. Tree(draft) \in Trees \cup {None}
    BY <2>1 DEF Tree, Trees
  <2>3. Version(rows) \in Migration \cup {Base}
    BY VersionType DEF TypeOK
  <2> DEFINE m == SnapshotMemory(noMemory)
  <2> DEFINE c == [memory |-> m.memory, schema |-> m.schema, prompts |-> Tree(draft)]
  <2>4. c \in Commit
    BY <2>2, <2>3 DEF SnapshotMemory, Commit, TypeOK
  <2>5. commits' = Append(commits, c)
    BY <1>16 DEF MakeCommit
  <2>6. /\ commits' \in Seq(Commit) /\ target' \in DOMAIN commits'
        /\ Resolve(req.ref)' \in DOMAIN commits'
        /\ req'.token \in 0..Len(commits')
    <3> HIDE DEF c
    <3> QED BY <1>16, <2>4, <2>5, BranchGrows DEF MakeCommit
  <2> HIDE DEF c, m
  <2>7. budget' \in [Event -> Nat]
    BY <1>16, SpendType DEF MakeCommit, Event
  <2> QED BY <1>16, <2>6, <2>7 DEF MakeCommit, world, TypeOK, Unopened
<1>17. ASSUME NEW i \in Image, AppWrite(i) PROVE Types'
  <2>1. budget' \in [Event -> Nat] /\ since' \subseteq Name \cup {"schema", "memory"}
    BY <1>17, SpendType, TouchType DEF AppWrite, Event
  <2> QED BY <1>17, <2>1 DEF AppWrite, TypeOK, Resolve, Memory
<1>18. ASSUME NEW n \in Name, NEW c \in Content \cup {NoFile}, EditPrompt(n, c)
       PROVE  Types'
  <2>1. disk' \in [Name -> File]
    BY <1>18 DEF EditPrompt, TypeOK, File
  <2>2. budget' \in [Event -> Nat] /\ since' \subseteq Name \cup {"schema", "memory"}
    BY <1>18, SpendType, TouchType DEF EditPrompt, Event
  <2> QED BY <1>18, <2>1, <2>2 DEF EditPrompt, TypeOK, Resolve
<1>19. ASSUME NEW m \in Migration, MigrateUp(m) PROVE Types'
  <2>1. rows' \in [Migration -> Nat] /\ serial' = serial + 1 /\ serial \in Nat \ {0}
        /\ \A k \in Migration : rows'[k] = rows[k] \/ rows'[k] = serial
    BY <1>19 DEF MigrateUp, TypeOK
  <2>2. \A k \in Migration : rows'[k] < serial'
    <3> SUFFICES ASSUME NEW k \in Migration PROVE rows'[k] < serial'
      OBVIOUS
    <3>1. rows[k] < serial /\ rows[k] \in Nat
      BY DEF TypeOK
    <3> QED BY <2>1, <3>1
  <2>3. budget' \in [Event -> Nat] /\ since' \subseteq Name \cup {"schema", "memory"}
    BY <1>19, SpendType, TouchType DEF MigrateUp, Event
  <2> QED BY <1>19, <2>1, <2>2, <2>3 DEF MigrateUp, TypeOK, Resolve
<1> QED BY <1>1, <1>2, <1>3, <1>4, <1>5, <1>6, <1>7, <1>8, <1>9, <1>10, <1>11, <1>12,
      <1>13, <1>14, <1>15, <1>16, <1>17, <1>18, <1>19 DEF Next, EngineStep

-----------------------------------------------------------------------------
(***************************************************************************)
(* What the rollback knows of itself. Steps of others do not touch it, and *)
(* its target stays the commit it began with.                              *)
(***************************************************************************)
OtherStep ==
  \/ UNCHANGED vars
  \/ \E n \in Name : ReadPrompt(n)
  \/ \E noMemory \in BOOLEAN : MakeCommit(noMemory)
  \/ \E i \in Image : AppWrite(i)
  \/ \E n \in Name, c \in Content \cup {NoFile} : EditPrompt(n, c)
  \/ \E m \in Migration : MigrateUp(m)

LEMMA GoalStays ==
  ASSUME Types, Types', [Next]_vars, ~Begin
  PROVE  Goal' = Goal /\ Wanted' = Wanted
<1>1. CASE UNCHANGED <<commits, target>>
  BY <1>1 DEF Goal, Wanted
<1>2. CASE target' = target /\ \E c : commits' = Append(commits, c)
  BY <1>2 DEF Types, TypeOK, Goal, Wanted
<1>3. ASSUME NEW r \in Request, Ask(r) PROVE UNCHANGED <<commits, target>>
  BY <1>3 DEF Ask
<1>4. ASSUME NEW n \in Name, SweepFile(n) PROVE UNCHANGED <<commits, target>>
  BY <1>4 DEF SweepFile
<1>5. ASSUME NEW n \in Name, NEW c \in Content \cup {NoFile}, EditPrompt(n, c)
      PROVE  UNCHANGED <<commits, target>>
  BY <1>5 DEF EditPrompt
<1>6. ASSUME NEW noMemory \in BOOLEAN, MakeCommit(noMemory)
      PROVE  target' = target /\ \E c : commits' = Append(commits, c)
  BY <1>6 DEF MakeCommit
<1>7. ASSUME RecordForward
      PROVE  target' = target /\ \E c : commits' = Append(commits, c)
  BY <1>7 DEF RecordForward
<1>8. CASE Retry \/ ReadVersion \/ PlanMigrations \/ ApplyReverse \/ CheckVersion
        \/ RestoreTables \/ WriteTemp \/ RenameTemp \/ Interrupt \/ UNCHANGED vars
  BY <1>1, <1>8 DEF Retry, ReadVersion, PlanMigrations, ApplyReverse, CheckVersion,
     RestoreTables, WriteTemp, RenameTemp, Interrupt, vars
<1>9. CASE \/ \E n \in Name : ReadPrompt(n)
           \/ \E i \in Image : AppWrite(i)
           \/ \E m \in Migration : MigrateUp(m)
  BY <1>1, <1>9 DEF ReadPrompt, AppWrite, MigrateUp
<1> QED BY <1>1, <1>2, <1>3, <1>4, <1>5, <1>6, <1>7, <1>8, <1>9 DEF Next, EngineStep

LEMMA OthersApart ==
  ASSUME OtherStep
  PROVE  UNCHANGED <<pc, req, target, names, rest>>
BY DEF OtherStep, vars, ReadPrompt, MakeCommit, AppWrite, EditPrompt, MigrateUp

LEMMA CourseStep ==
  ASSUME Types, Types', Course, [Next]_vars
  PROVE  Course'
<1>0. Goal' \in Commit
  BY DEF Types, TypeOK, Goal
<1>1. CASE OtherStep
  <2>1. ~Begin
    BY <1>1, OthersApart DEF Begin, PromptsStage
  <2> QED BY <1>1, <2>1, OthersApart, GoalStays DEF Course
<1>2. CASE Retry \/ Interrupt \/ \E r \in Request : Ask(r)
  BY <1>2 DEF Retry, Interrupt, Ask, Course
<1>3. CASE Begin
  <2>1. pc' = "failed" \/ (Goal' = commits[target'] /\ rest' = Wanted')
    BY <1>3 DEF Begin, Goal, Wanted
  <2>2. pc' = "version" => Goal'.schema # None
    BY <1>3 DEF Begin, Goal, PromptsStage
  <2>3. pc' = "write" => Goal'.prompts # None
    BY <1>3 DEF Begin, Goal, PromptsStage
  <2>4. pc' = "write" => rest' # {}
    BY <1>0, <2>1, <2>3, TreePrompts DEF Wanted
  <2>5. pc' \in {"failed", "version", "done", "record", "write"}
    BY <1>3 DEF Begin, PromptsStage
  <2> QED BY <2>1, <2>2, <2>3, <2>4, <2>5 DEF Course
<1>5. CASE ReadVersion \/ PlanMigrations \/ ApplyReverse \/ CheckVersion
  <2>1. ~Begin /\ Goal.schema # None /\ rest = Wanted /\ rest' = rest
    BY <1>5 DEF Begin, ReadVersion, PlanMigrations, ApplyReverse, CheckVersion, Course
  <2>2. pc' \in {"failed", "done", "plan", "reverse", "check", "restore"}
    BY <1>5 DEF ReadVersion, PlanMigrations, ApplyReverse, CheckVersion, MemoryStage
  <2> QED BY <2>1, <2>2, GoalStays DEF Course
<1>6. CASE RestoreTables
  <2>1. ~Begin /\ rest = Wanted /\ rest' = rest
    BY <1>6 DEF Begin, RestoreTables, Course
  <2>2. pc' = "write" => Goal.prompts # None
    BY <1>6 DEF RestoreTables, PromptsStage
  <2>3. pc' = "write" => rest # {}
    BY <1>0, <2>1, <2>2, GoalStays, TreePrompts DEF Wanted
  <2>4. pc' \in {"done", "record", "write"}
    BY <1>6 DEF RestoreTables, PromptsStage
  <2> QED BY <2>1, <2>2, <2>3, <2>4, GoalStays DEF Course
<1>7. CASE WriteTemp
  BY <1>7, GoalStays DEF WriteTemp, Begin, Course
<1>8. CASE RenameTemp
  <2>1. ~Begin /\ Goal.prompts # None /\ rest \subseteq Wanted
    BY <1>8 DEF RenameTemp, Begin, Course
  <2>2. FirstOf(rest) \in rest
    BY <1>8, FirstExists DEF RenameTemp, Course, Types, TypeOK
  <2>3. \/ pc' = "sweep"
        \/ pc' = "write" /\ rest' = rest \ {FirstOf(rest)} /\ rest # {FirstOf(rest)}
    BY <1>8 DEF RenameTemp
  <2> QED BY <2>1, <2>2, <2>3, GoalStays DEF Course
<1>9. ASSUME NEW n \in Name, SweepFile(n) PROVE Course'
  <2>1. ~Begin /\ Goal.prompts # None /\ pc' \in {"sweep", "record"}
    BY <1>9 DEF SweepFile, Begin, Course
  <2> QED BY <2>1, GoalStays DEF Course
<1>10. CASE RecordForward
  BY <1>10 DEF RecordForward, Course
<1> QED BY <1>1, <1>2, <1>3, <1>5, <1>6, <1>7, <1>8, <1>9, <1>10
  DEF Next, EngineStep, OtherStep

LEMMA GateStep ==
  ASSUME Types, Gate, [Next]_vars
  PROVE  Gate'
<1>1. CASE OtherStep
  BY <1>1, OthersApart DEF Gate, MayReverse
<1>2. CASE Retry \/ Interrupt \/ \E r \in Request : Ask(r)
  BY <1>2 DEF Retry, Interrupt, Ask, Gate, Working
<1>3. CASE Begin
  BY <1>3 DEF Begin, MayBegin, PromptsStage, Gate, Working
<1>4. CASE ReadVersion
  BY <1>4 DEF ReadVersion, MemoryStage, Gate, Working, MayReverse
<1>5. CASE PlanMigrations
  BY <1>5 DEF PlanMigrations, Loadable, MayReverse, Gate, Working
<1>6. CASE ApplyReverse \/ CheckVersion \/ WriteTemp \/ RenameTemp \/ RecordForward
  BY <1>6 DEF ApplyReverse, CheckVersion, WriteTemp, RenameTemp, RecordForward,
     MayReverse, Gate, Working
<1>7. CASE RestoreTables
  BY <1>7 DEF RestoreTables, PromptsStage, MayReverse, Gate, Working
<1>8. ASSUME NEW n \in Name, SweepFile(n) PROVE Gate'
  BY <1>8 DEF SweepFile, MayReverse, Gate, Working
<1> QED BY <1>1, <1>2, <1>3, <1>4, <1>5, <1>6, <1>7, <1>8
  DEF Next, EngineStep, OtherStep

(* A migration recorded meanwhile had no row: it is neither the target's   *)
(* version nor one of those to be reversed.                                *)
LEMMA AboveStep ==
  ASSUME Types, Types', Course, Above, [Next]_vars
  PROVE  Above'
<1> SUFFICES ASSUME pc' = "reverse" PROVE Above'
  BY DEF Above
<1>1. CASE PlanMigrations
  <2>1. Goal' = Goal
    BY <1>1, GoalStays DEF PlanMigrations, Begin
  <2> QED BY <1>1, <2>1 DEF PlanMigrations, MigrationsAfter, Above, Recorded, IdOf, world
<1>2. CASE OtherStep
  <2>1. pc = "reverse" /\ names' = names /\ Goal' = Goal
    BY <1>2, OthersApart, GoalStays DEF Begin
  <2>2. \A m \in names : rows[m] > IdOf(rows, Goal.schema)
    BY <2>1 DEF Above
  <2>3. Recorded(rows, Goal.schema)
    BY <2>1 DEF Above
  <2>4. CASE rows' = rows
    BY <2>1, <2>2, <2>3, <2>4 DEF Above, Recorded, IdOf
  <2>5. ASSUME NEW k \in Migration, MigrateUp(k) PROVE Above'
    <3>1. rows[k] = 0 /\ rows' = [rows EXCEPT ![k] = serial]
      BY <2>5 DEF MigrateUp
    <3>2. Goal.schema = Base \/ rows[Goal.schema] # 0
      BY <2>3 DEF Recorded
    <3>3. Goal.schema = Base \/ rows'[Goal.schema] = rows[Goal.schema]
      BY <3>1, <3>2 DEF Types, TypeOK
    <3>4. IdOf(rows', Goal.schema) = IdOf(rows, Goal.schema)
      BY <3>3 DEF IdOf
    <3>5. ASSUME NEW m \in names PROVE rows'[m] > IdOf(rows', Goal.schema)
      <4>1. m \in Migration /\ rows[m] \in Nat
        BY DEF Types, TypeOK
      <4>2. rows[m] # 0
        <5>1. Goal.schema \in Migration \cup {Base}
          BY <2>1, GoalIsCommit, CommitParts DEF Course, Types
        <5>2. IdOf(rows, Goal.schema) \in Nat
          BY <5>1 DEF IdOf, Types, TypeOK
        <5> QED BY <2>2, <4>1, <5>2
      <4>3. rows'[m] = rows[m]
        BY <3>1, <4>1, <4>2 DEF Types, TypeOK
      <4> QED BY <2>2, <3>4, <4>3
    <3> QED BY <2>1, <3>2, <3>3, <3>5 DEF Above, Recorded
  <2> QED BY <1>2, <2>4, <2>5
    DEF OtherStep, vars, world, ReadPrompt, MakeCommit, AppWrite, EditPrompt
<1>3. ASSUME ~OtherStep, ~PlanMigrations PROVE FALSE
  <2>1. ~(\E r \in Request : Ask(r)) /\ ~(\E n \in Name : SweepFile(n))
    BY DEF Ask, SweepFile
  <2>2. ~(Retry \/ Begin \/ ReadVersion \/ ApplyReverse \/ CheckVersion \/ RestoreTables
          \/ WriteTemp \/ RenameTemp \/ RecordForward \/ Interrupt)
    BY DEF Retry, Begin, ReadVersion, MemoryStage, ApplyReverse, CheckVersion,
       RestoreTables, PromptsStage, WriteTemp, RenameTemp, RecordForward, Interrupt
  <2> QED BY <1>3, <2>1, <2>2 DEF Next, EngineStep, OtherStep
<1> QED BY <1>1, <1>2, <1>3

-----------------------------------------------------------------------------
(***************************************************************************)
(* No prompt is cut short. The engine writes under a temporary name only,  *)
(* which no editor touches, so what it renames is what it wrote.           *)
(***************************************************************************)
LEMMA NextFile ==
  ASSUME Types, Course, pc \in {"write", "rename"}
  PROVE  /\ FirstOf(rest) \in rest /\ FirstOf(rest) \in Wanted
         /\ FirstOf(rest) \in Name
         /\ Tmp[FirstOf(rest)] \in Name /\ Tmp[FirstOf(rest)] \in Range(Tmp)
         /\ Goal.prompts \in [Name -> File]
<1>1. FirstOf(rest) \in rest /\ FirstOf(rest) \in Name /\ FirstOf(rest) \in Wanted
  BY FirstExists DEF Types, TypeOK, Course
<1>2. Tmp[FirstOf(rest)] \in Name /\ Tmp[FirstOf(rest)] \in Range(Tmp)
  BY <1>1, RollbackAssumption DEF RollbackAssumption, Range
<1>3. Goal.prompts \in [Name -> File]
  BY GoalIsCommit, TreePrompts DEF Types, Course
<1> QED BY <1>1, <1>2, <1>3

LEMMA WrittenStep ==
  ASSUME Types, Types', Course, Written, [Next]_vars
  PROVE  Written'
<1> SUFFICES ASSUME pc' = "rename" PROVE Written'
  BY DEF Written
<1>1. CASE WriteTemp
  <2>1. rest' = rest /\ Goal' = Goal
    BY <1>1, GoalStays DEF WriteTemp, Begin
  <2>2. disk'[Tmp[FirstOf(rest)]] = Goal.prompts[FirstOf(rest)]
    BY <1>1, NextFile DEF WriteTemp, Scratch, Types, TypeOK
  <2>3. FirstOf(rest') = FirstOf(rest)
    BY <2>1
  <2> QED BY <2>1, <2>2, <2>3 DEF Written
<1>2. CASE OtherStep
  <2>1. pc = "rename" /\ rest' = rest /\ Goal' = Goal
    BY <1>2, OthersApart, GoalStays DEF Begin
  <2>2. disk'[Tmp[FirstOf(rest)]] = disk[Tmp[FirstOf(rest)]]
    <3>1. ASSUME NEW n \in Name, NEW c \in Content \cup {NoFile}, EditPrompt(n, c)
          PROVE  disk'[Tmp[FirstOf(rest)]] = disk[Tmp[FirstOf(rest)]]
      BY <2>1, <3>1, NextFile DEF EditPrompt, Types, TypeOK
    <3>2. CASE disk' = disk
      BY <3>2
    <3> QED BY <1>2, <3>1, <3>2
        DEF OtherStep, vars, world, ReadPrompt, MakeCommit, AppWrite, MigrateUp
  <2>3. FirstOf(rest') = FirstOf(rest)
    BY <2>1
  <2> QED BY <2>1, <2>2, <2>3 DEF Written
<1>3. ASSUME ~OtherStep, ~WriteTemp PROVE FALSE
  <2>1. ~(\E r \in Request : Ask(r)) /\ ~(\E n \in Name : SweepFile(n))
    BY DEF Ask, SweepFile
  <2>2. ~(Retry \/ Begin \/ ReadVersion \/ PlanMigrations \/ ApplyReverse \/ CheckVersion
          \/ RestoreTables \/ RenameTemp \/ RecordForward \/ Interrupt)
    BY DEF Retry, Begin, ReadVersion, MemoryStage, PlanMigrations, ApplyReverse,
       CheckVersion, RestoreTables, PromptsStage, RenameTemp, RecordForward, Interrupt
  <2> QED BY <1>3, <2>1, <2>2 DEF Next, EngineStep, OtherStep
<1> QED BY <1>1, <1>2, <1>3

LEMMA GoalWhole ==
  ASSUME Types, Clean, Goal.prompts # None
  PROVE  Whole(Goal.prompts)
BY DEF Types, TypeOK, Clean, Goal

LEMMA DiskWholeStep ==
  ASSUME Types, Course, Clean, Written, [Next]_vars
  PROVE  Whole(disk')
<1>0. NoFile # Partial /\ \A c \in Content : c # Partial
  BY ValuesDiffer DEF ValuesDiffer
<1>1. CASE disk' = disk
  BY <1>1 DEF Clean
<1>2. CASE WriteTemp
  BY <1>2, NextFile DEF WriteTemp, Scratch, Clean, Whole, Types, TypeOK
<1>3. CASE RenameTemp
  <2>1. pc = "rename"
    BY <1>3 DEF RenameTemp
  <2> DEFINE n == FirstOf(rest)
  <2>2. disk[Scratch(n)] = Goal.prompts[n] /\ n \in Name
    BY <2>1, NextFile DEF Written, Scratch
  <2>3. Whole(Goal.prompts)
    BY <2>1, GoalWhole DEF Course
  <2>4. disk' = [disk EXCEPT ![Scratch(n)] = NoFile, ![n] = disk[Scratch(n)]]
    BY <1>3 DEF RenameTemp
  <2> HIDE DEF n
  <2> QED BY <1>0, <2>2, <2>3, <2>4 DEF Clean, Whole, Types, TypeOK
<1>4. ASSUME NEW n \in Name, SweepFile(n) PROVE Whole(disk')
  BY <1>0, <1>4 DEF SweepFile, Clean, Whole, Types, TypeOK
<1>5. CASE Interrupt
  <2>1. CASE pc = "write" /\ disk' = [disk EXCEPT ![Scratch(FirstOf(rest))] = Partial]
    BY <2>1, NextFile DEF Scratch, Clean, Whole, Types, TypeOK
  <2> QED BY <1>1, <1>5, <2>1 DEF Interrupt
<1>6. ASSUME NEW n \in Name, NEW c \in Content \cup {NoFile}, EditPrompt(n, c)
      PROVE  Whole(disk')
  BY <1>0, <1>6 DEF EditPrompt, Clean, Whole, Types, TypeOK
<1>7. CASE \E r \in Request : Ask(r)
  BY <1>1, <1>7 DEF Ask, world
<1>8. CASE Retry \/ Begin \/ ReadVersion \/ PlanMigrations \/ ApplyReverse \/ CheckVersion
           \/ RestoreTables \/ RecordForward \/ UNCHANGED vars
  BY <1>1, <1>8 DEF Retry, Begin, ReadVersion, PlanMigrations, ApplyReverse,
     CheckVersion, RestoreTables, RecordForward, world, vars
<1>9. CASE \/ \E n \in Name : ReadPrompt(n)
           \/ \E noMemory \in BOOLEAN : MakeCommit(noMemory)
           \/ \E i \in Image : AppWrite(i)
           \/ \E m \in Migration : MigrateUp(m)
  BY <1>1, <1>9 DEF ReadPrompt, MakeCommit, AppWrite, MigrateUp, world
<1> QED BY <1>2, <1>3, <1>4, <1>5, <1>6, <1>7, <1>8, <1>9 DEF Next, EngineStep

LEMMA CleanStep ==
  ASSUME Types, Types', Course, Clean, Written, [Next]_vars
  PROVE  Clean'
<1>1. Whole(disk')
  BY DiskWholeStep
<1>2. Whole(draft')
  <2>1. CASE draft' = draft
    BY <2>1 DEF Clean
  <2>2. ASSUME NEW n \in Name, ReadPrompt(n) PROVE Whole(draft')
    BY <2>2 DEF ReadPrompt, Clean, Whole, Types, TypeOK
  <2>3. ASSUME NEW noMemory \in BOOLEAN, MakeCommit(noMemory) PROVE Whole(draft')
    BY <2>3, ValuesDiffer DEF MakeCommit, Unopened, Whole, ValuesDiffer
  <2>4. CASE \/ \E r \in Request : Ask(r)
             \/ \E n \in Name : SweepFile(n)
             \/ \E i \in Image : AppWrite(i)
             \/ \E n \in Name, c \in Content \cup {NoFile} : EditPrompt(n, c)
             \/ \E m \in Migration : MigrateUp(m)
    BY <2>1, <2>4 DEF Ask, SweepFile, AppWrite, EditPrompt, MigrateUp
  <2>5. CASE Retry \/ Begin \/ ReadVersion \/ PlanMigrations \/ ApplyReverse
             \/ CheckVersion \/ RestoreTables \/ WriteTemp \/ RenameTemp
             \/ RecordForward \/ Interrupt \/ UNCHANGED vars
    BY <2>1, <2>5 DEF Retry, Begin, ReadVersion, PlanMigrations, ApplyReverse,
       CheckVersion, RestoreTables, WriteTemp, RenameTemp, RecordForward, Interrupt, vars
  <2> QED BY <2>2, <2>3, <2>4, <2>5 DEF Next, EngineStep
<1>3. ASSUME NEW i \in DOMAIN commits', commits'[i].prompts # None
      PROVE  Whole(commits'[i].prompts)
  <2>1. CASE commits' = commits
    BY <1>3, <2>1 DEF Clean
  <2>2. ASSUME NEW c, commits' = Append(commits, c), c.prompts # None => Whole(c.prompts)
        PROVE  Whole(commits'[i].prompts)
    <3>1. (i \in DOMAIN commits /\ commits'[i] = commits[i]) \/ commits'[i] = c
      BY <2>2 DEF Types, TypeOK
    <3> QED BY <1>3, <2>2, <3>1 DEF Clean
  <2>3. CASE RecordForward
    BY <2>2, <2>3, GoalWhole DEF RecordForward
  <2>4. ASSUME NEW noMemory \in BOOLEAN, MakeCommit(noMemory)
        PROVE  Whole(commits'[i].prompts)
    <3> DEFINE m == SnapshotMemory(noMemory)
    <3> DEFINE c == [memory |-> m.memory, schema |-> m.schema, prompts |-> Tree(draft)]
    <3>1. commits' = Append(commits, c)
      BY <2>4 DEF MakeCommit
    <3>2. c.prompts # None => Whole(c.prompts)
      BY DEF Clean, Tree
    <3> HIDE DEF c
    <3> QED BY <2>2, <3>1, <3>2
  <2>5. CASE \/ \E r \in Request : Ask(r)
             \/ \E n \in Name : SweepFile(n) \/ ReadPrompt(n)
             \/ \E k \in Image : AppWrite(k)
             \/ \E n \in Name, c \in Content \cup {NoFile} : EditPrompt(n, c)
             \/ \E m \in Migration : MigrateUp(m)
    BY <2>1, <2>5 DEF Ask, SweepFile, ReadPrompt, AppWrite, EditPrompt, MigrateUp
  <2>6. CASE Retry \/ Begin \/ ReadVersion \/ PlanMigrations \/ ApplyReverse
             \/ CheckVersion \/ RestoreTables \/ WriteTemp \/ RenameTemp
             \/ Interrupt \/ UNCHANGED vars
    BY <2>1, <2>6 DEF Retry, Begin, ReadVersion, PlanMigrations, ApplyReverse,
       CheckVersion, RestoreTables, WriteTemp, RenameTemp, Interrupt, vars
  <2> QED BY <2>3, <2>4, <2>5, <2>6 DEF Next, EngineStep
<1> QED BY <1>1, <1>2, <1>3 DEF Clean

-----------------------------------------------------------------------------
(***************************************************************************)
(* What is in place stays in place, or somebody else changed it.           *)
(***************************************************************************)

(* Those who hold no lock are on record for what they change.              *)
LEMMA OthersRecorded ==
  ASSUME Types, OtherStep, pc \notin {"idle", "failed"}
  PROVE  /\ since \subseteq since'
         /\ rows' = rows \/ "schema" \in since'
         /\ data' = data \/ "memory" \in since'
         /\ \A k \in Name : disk'[k] = disk[k] \/ k \in since'
<1>1. CASE UNCHANGED vars
  BY <1>1 DEF vars, world
<1>2. ASSUME NEW n \in Name, ReadPrompt(n) PROVE UNCHANGED <<world, since>>
  BY <1>2 DEF ReadPrompt
<1>3. ASSUME NEW noMemory \in BOOLEAN, MakeCommit(noMemory) PROVE UNCHANGED <<world, since>>
  BY <1>3 DEF MakeCommit
<1>4. ASSUME NEW i \in Image, AppWrite(i)
      PROVE  since' = since \cup {"memory"} /\ rows' = rows /\ disk' = disk
  BY <1>4 DEF AppWrite, Touch
<1>5. ASSUME NEW n \in Name, NEW c \in Content \cup {NoFile}, EditPrompt(n, c)
      PROVE  /\ since' = since \cup {n} /\ rows' = rows /\ data' = data
             /\ disk' = [disk EXCEPT ![n] = c]
  BY <1>5 DEF EditPrompt, Touch
<1>6. ASSUME NEW m \in Migration, MigrateUp(m)
      PROVE  since' = since \cup {"schema"} /\ data' = data /\ disk' = disk
  BY <1>6 DEF MigrateUp, Touch
<1>7. ASSUME NEW n \in Name, NEW c \in Content \cup {NoFile}, EditPrompt(n, c),
             NEW k \in Name
      PROVE  disk'[k] = disk[k] \/ k \in since'
  BY <1>5, <1>7 DEF Types, TypeOK
<1> QED BY <1>1, <1>2, <1>3, <1>4, <1>5, <1>6, <1>7 DEF OtherStep, world

LEMMA SchemaStep ==
  ASSUME Types, Types', Course, SchemaSet, [Next]_vars
  PROVE  SchemaSet'
<1>1. CASE OtherStep
  <2>1. ~Begin
    BY <1>1, OthersApart DEF Begin, PromptsStage
  <2>2. pc' = pc /\ req' = req /\ Goal' = Goal
    BY <1>1, <2>1, OthersApart, GoalStays
  <2>3. CASE pc \in {"idle", "failed"}
    BY <2>2, <2>3 DEF SchemaSet
  <2>4. CASE pc \notin {"idle", "failed"}
    <3>1. since \subseteq since' /\ (rows' = rows \/ "schema" \in since')
      BY <1>1, <2>4, OthersRecorded
    <3> QED BY <2>2, <3>1 DEF SchemaSet
  <2> QED BY <2>3, <2>4
<1>2. CASE Retry \/ Interrupt \/ \E r \in Request : Ask(r)
  BY <1>2 DEF Retry, Interrupt, Ask, SchemaSet
<1>3. CASE Begin
  BY <1>3 DEF Begin, PromptsStage, Goal, SchemaSet
<1>4. CASE ReadVersion \/ PlanMigrations \/ ApplyReverse
  BY <1>4 DEF ReadVersion, PlanMigrations, ApplyReverse, MemoryStage, SchemaSet
<1>5. CASE CheckVersion
  <2>1. Goal' = Goal
    BY <1>5, GoalStays DEF CheckVersion, Begin
  <2> QED BY <1>5, <2>1 DEF CheckVersion, VersionFits, world, SchemaSet
<1>6. CASE RestoreTables
  <2>1. Goal' = Goal
    BY <1>6, GoalStays DEF RestoreTables, Begin
  <2> QED BY <1>6, <2>1 DEF RestoreTables, SchemaSet
<1>7. CASE WriteTemp
  <2>1. Goal' = Goal /\ Scratch(FirstOf(rest)) # "schema"
    BY <1>7, GoalStays, NextFile, ValuesDiffer
      DEF WriteTemp, Begin, Scratch, ValuesDiffer
  <2> QED BY <1>7, <2>1 DEF WriteTemp, SchemaSet
<1>8. CASE RenameTemp
  <2>1. Goal' = Goal /\ FirstOf(rest) # "schema"
    BY <1>8, GoalStays, NextFile, ValuesDiffer DEF RenameTemp, Begin, ValuesDiffer
  <2> QED BY <1>8, <2>1 DEF RenameTemp, SchemaSet
<1>9. ASSUME NEW n \in Name, SweepFile(n) PROVE SchemaSet'
  <2>1. Goal' = Goal /\ n # "schema"
    BY <1>9, GoalStays, ValuesDiffer DEF SweepFile, Begin, ValuesDiffer
  <2> QED BY <1>9, <2>1 DEF SweepFile, SchemaSet
<1>10. CASE RecordForward
  <2>1. Goal' = Goal
    BY <1>10, GoalStays DEF RecordForward, Begin
  <2> QED BY <1>10, <2>1 DEF RecordForward, world, SchemaSet
<1> QED BY <1>1, <1>2, <1>3, <1>4, <1>5, <1>6, <1>7, <1>8, <1>9, <1>10
  DEF Next, EngineStep, OtherStep

LEMMA MemoryStep ==
  ASSUME Types, Types', Course, MemorySet, [Next]_vars
  PROVE  MemorySet'
<1>1. CASE OtherStep
  <2>1. ~Begin
    BY <1>1, OthersApart DEF Begin, PromptsStage
  <2>2. pc' = pc /\ req' = req /\ Goal' = Goal
    BY <1>1, <2>1, OthersApart, GoalStays
  <2>3. CASE pc \in {"idle", "failed"}
    BY <2>2, <2>3 DEF MemorySet
  <2>4. CASE pc \notin {"idle", "failed"}
    <3>1. since \subseteq since' /\ (data' = data \/ "memory" \in since')
      BY <1>1, <2>4, OthersRecorded
    <3> QED BY <2>2, <3>1 DEF MemorySet
  <2> QED BY <2>3, <2>4
<1>2. CASE Retry \/ Interrupt \/ \E r \in Request : Ask(r)
  BY <1>2 DEF Retry, Interrupt, Ask, MemorySet
<1>3. CASE Begin
  <2>1. Goal' \in Commit
    BY DEF Types, TypeOK, Goal
  <2>2. pc' \in {"write", "record", "done"} => Goal'.schema = None
    BY <1>3 DEF Begin, Goal
  <2>3. pc' \in {"write", "record", "done"} => Goal'.memory = None
    BY <2>1, <2>2, CommitParts
  <2> QED BY <1>3, <2>3 DEF Begin, PromptsStage, MemorySet
<1>4. CASE ReadVersion \/ PlanMigrations \/ ApplyReverse \/ CheckVersion
  BY <1>4 DEF ReadVersion, PlanMigrations, ApplyReverse, CheckVersion, MemoryStage, MemorySet
<1>5. CASE RestoreTables
  <2>1. Goal' = Goal
    BY <1>5, GoalStays DEF RestoreTables, Begin
  <2> QED BY <1>5, <2>1 DEF RestoreTables, MemorySet
<1>6. CASE WriteTemp
  <2>1. Goal' = Goal /\ Scratch(FirstOf(rest)) # "memory"
    BY <1>6, GoalStays, NextFile, ValuesDiffer
      DEF WriteTemp, Begin, Scratch, ValuesDiffer
  <2> QED BY <1>6, <2>1 DEF WriteTemp, MemorySet
<1>7. CASE RenameTemp
  <2>1. Goal' = Goal /\ FirstOf(rest) # "memory"
    BY <1>7, GoalStays, NextFile, ValuesDiffer DEF RenameTemp, Begin, ValuesDiffer
  <2> QED BY <1>7, <2>1 DEF RenameTemp, MemorySet
<1>8. ASSUME NEW n \in Name, SweepFile(n) PROVE MemorySet'
  <2>1. Goal' = Goal /\ n # "memory"
    BY <1>8, GoalStays, ValuesDiffer DEF SweepFile, Begin, ValuesDiffer
  <2> QED BY <1>8, <2>1 DEF SweepFile, MemorySet
<1>9. CASE RecordForward
  <2>1. Goal' = Goal
    BY <1>9, GoalStays DEF RecordForward, Begin
  <2> QED BY <1>9, <2>1 DEF RecordForward, world, MemorySet
<1> QED BY <1>1, <1>2, <1>3, <1>4, <1>5, <1>6, <1>7, <1>8, <1>9
  DEF Next, EngineStep, OtherStep

LEMMA StillRestored ==
  ASSUME Goal' = Goal, NEW k \in Name, Restored(k),
         k \in since => k \in since', disk'[k] = disk[k] \/ k \in since'
  PROVE  Restored(k)'
BY DEF Restored

LEMMA ClashStays == ASSUME Wanted' = Wanted PROVE Clash' = Clash
BY DEF Clash

LEMMA PromptsStep ==
  ASSUME Types, Types', Course, Written, PromptsSet, [Next]_vars
  PROVE  PromptsSet'
<1> SUFFICES ASSUME ~Clash' PROVE PromptsSet'
  BY DEF PromptsSet
<1>0. Wanted \subseteq Name
  BY GoalIsCommit DEF Types
<1>1. CASE OtherStep
  <2>1. ~Begin
    BY <1>1, OthersApart DEF Begin, PromptsStage
  <2>2. pc' = pc /\ req' = req /\ rest' = rest /\ Goal' = Goal /\ Wanted' = Wanted /\ ~Clash
    BY <1>1, <2>1, OthersApart, GoalStays, ClashStays
  <2>3. CASE pc \in {"idle", "failed"}
    BY <2>2, <2>3 DEF PromptsSet
  <2>4. CASE pc \notin {"idle", "failed"}
    <3>1. \A k \in Name : Restored(k) => Restored(k)'
      BY <1>1, <2>2, <2>4, OthersRecorded, StillRestored
    <3> QED BY <1>0, <2>2, <3>1 DEF PromptsSet
  <2> QED BY <2>3, <2>4
<1>2. CASE Retry \/ Interrupt \/ \E r \in Request : Ask(r)
  BY <1>2 DEF Retry, Interrupt, Ask, PromptsSet
<1>3. CASE Begin
  <2>1. pc' \in {"write", "record"} => rest' = Wanted'
    BY <1>3 DEF Begin, Goal, Wanted
  <2>2. pc' = "record" => Goal'.prompts = None
    BY <1>3 DEF Begin, Goal, PromptsStage
  <2>3. pc' = "done" => req'.dry
    BY <1>3 DEF Begin, PromptsStage
  <2>4. pc' \in {"failed", "version", "done", "record", "write"}
    BY <1>3 DEF Begin, PromptsStage
  <2> QED BY <2>1, <2>2, <2>3, <2>4 DEF PromptsSet, Restored
<1>4. CASE ReadVersion \/ PlanMigrations \/ ApplyReverse \/ CheckVersion
  BY <1>4 DEF ReadVersion, PlanMigrations, ApplyReverse, CheckVersion, MemoryStage, PromptsSet
<1>5. CASE RestoreTables
  <2>1. Goal' = Goal /\ Wanted' = Wanted
    BY <1>5, GoalStays DEF RestoreTables, Begin
  <2>2. rest' = Wanted'
    BY <1>5, <2>1 DEF RestoreTables, Course
  <2>3. pc' = "record" => Goal'.prompts = None
    BY <1>5, <2>1 DEF RestoreTables, PromptsStage
  <2>4. pc' \in {"record", "write"} \/ (pc' = "done" /\ req'.dry)
    BY <1>5 DEF RestoreTables, PromptsStage
  <2> QED BY <2>2, <2>3, <2>4 DEF PromptsSet, Restored
<1>6. CASE WriteTemp
  <2> DEFINE n == FirstOf(rest)
  <2>1. pc = "write" /\ pc' = "rename" /\ rest' = rest
    BY <1>6 DEF WriteTemp
  <2>2. Goal' = Goal /\ Wanted' = Wanted /\ ~Clash
    BY <1>6, GoalStays, ClashStays DEF WriteTemp, Begin
  <2>3. n \in rest /\ n \in Wanted
    BY <2>1, NextFile
  <2>4. \A k \in Wanted \ rest : k # Tmp[n]
    BY <2>2, <2>3 DEF Clash
  <2>5. \A k \in Wanted \ rest :
          disk'[k] = disk[k] /\ (k \in since => k \in since')
    BY <1>6, <1>0, <2>4 DEF WriteTemp, Scratch, Types, TypeOK
  <2>6. \A k \in Wanted \ rest : Restored(k)
    BY <2>1, <2>2 DEF PromptsSet
  <2>7. \A k \in Wanted \ rest : Restored(k)'
    BY <1>0, <2>2, <2>5, <2>6, StillRestored
  <2> QED BY <2>1, <2>2, <2>7 DEF PromptsSet
<1>7. CASE RenameTemp
  <2>1. pc = "rename"
    BY <1>7 DEF RenameTemp
  <2>0. PICK n \in Name : n = FirstOf(rest)
    BY <2>1, NextFile
  <2>2. Goal' = Goal /\ Wanted' = Wanted /\ ~Clash
    BY <1>7, GoalStays, ClashStays DEF RenameTemp, Begin
  <2>3. n \in rest /\ n \in Wanted /\ n \in Name /\ disk[Tmp[n]] = Goal.prompts[n]
    BY <2>0, <2>1, NextFile DEF Written
  <2>4. Restored(n)'
    <3>1. disk' = [disk EXCEPT ![Tmp[n]] = NoFile, ![n] = disk[Tmp[n]]]
      BY <1>7, <2>0 DEF RenameTemp, Scratch
    <3>2. disk'[n] = Goal.prompts[n]
      BY <2>3, <3>1 DEF Types, TypeOK
    <3> QED BY <2>2, <3>2 DEF Restored
  <2>5. \A k \in Wanted \ rest : k # Tmp[n] /\ k # n
    BY <2>2, <2>3 DEF Clash
  <2>6. \A k \in Wanted \ rest :
          disk'[k] = disk[k] /\ (k \in since => k \in since')
    BY <1>7, <1>0, <2>0, <2>5 DEF RenameTemp, Scratch, Types, TypeOK
  <2>7. \A k \in Wanted \ rest : Restored(k)'
    <3>1. \A k \in Wanted \ rest : Restored(k)
      BY <2>1, <2>2 DEF PromptsSet
    <3> QED BY <1>0, <2>2, <2>6, <3>1, StillRestored
  <2>8. \/ pc' = "sweep" /\ rest' = Name /\ rest = {n}
        \/ pc' = "write" /\ rest' = rest \ {n}
    BY <1>7, <2>0 DEF RenameTemp
  <2> QED BY <2>2, <2>4, <2>7, <2>8 DEF PromptsSet
<1>8. ASSUME NEW n \in Name, SweepFile(n) PROVE PromptsSet'
  <2>1. Goal' = Goal /\ Wanted' = Wanted /\ ~Clash
    BY <1>8, GoalStays, ClashStays DEF SweepFile, Begin
  <2>2. \A k \in Wanted \cup (Name \ rest) : Restored(k)
    BY <1>8, <2>1 DEF SweepFile, PromptsSet
  <2>3. Goal.prompts # None
    BY <1>8 DEF SweepFile, Course
  <2>4. \A k \in Name \ {n} : Restored(k) => Restored(k)'
    <3>1. \A k \in Name \ {n} : disk'[k] = disk[k] /\ (k \in since => k \in since')
      BY <1>8 DEF SweepFile, Types, TypeOK
    <3> QED BY <2>1, <3>1, StillRestored
  <2>5. Restored(n)'
    <3>1. CASE Orphan(n)
      <4>1. Goal.prompts[n] = NoFile
        BY <2>3, <3>1, GoalIsCommit, TreePrompts DEF Types, Orphan, Wanted
      <4>2. disk'[n] = NoFile
        BY <1>8, <3>1 DEF SweepFile, Types, TypeOK
      <4> QED BY <2>1, <4>1, <4>2 DEF Restored
    <3>2. CASE ~Orphan(n)
      <4>1. disk' = disk /\ since' = since /\ Restored(n)
        BY <1>8, <2>2, <3>2 DEF SweepFile, Orphan
      <4> QED BY <2>1, <4>1, StillRestored
    <3> QED BY <3>1, <3>2
  <2>6. \A k \in Wanted \cup (Name \ rest') : Restored(k)'
    BY <1>0, <1>8, <2>2, <2>4, <2>5 DEF SweepFile
  <2>7. pc' = "sweep" \/ (pc' = "record" /\ rest' = {})
    BY <1>8 DEF SweepFile
  <2> QED BY <2>1, <2>6, <2>7 DEF PromptsSet
<1>9. CASE RecordForward
  <2>1. Goal' = Goal /\ Wanted' = Wanted /\ ~Clash
    BY <1>9, GoalStays, ClashStays DEF RecordForward, Begin
  <2>2. \A k \in Name : Restored(k)
    BY <1>9, <2>1 DEF RecordForward, PromptsSet
  <2>3. \A k \in Name : Restored(k)'
    BY <1>9, <2>1, <2>2, StillRestored DEF RecordForward, world
  <2> QED BY <1>9, <2>3 DEF RecordForward, PromptsSet
<1> QED BY <1>1, <1>2, <1>3, <1>4, <1>5, <1>6, <1>7, <1>8, <1>9
  DEF Next, EngineStep, OtherStep

-----------------------------------------------------------------------------
(***************************************************************************)
(* The theorems.                                                           *)
(***************************************************************************)
LEMMA InvStep == Inv /\ [Next]_vars => Inv'
<1> SUFFICES ASSUME Inv, [Next]_vars PROVE Inv'
  OBVIOUS
<1>1. Types'
  BY TypesStep DEF Inv
<1>2. Course' /\ Gate' /\ Above'
  BY <1>1, CourseStep, GateStep, AboveStep DEF Inv
<1>3. Clean' /\ Written'
  BY <1>1, CleanStep, WrittenStep DEF Inv
<1>4. SchemaSet' /\ MemorySet' /\ PromptsSet'
  BY <1>1, SchemaStep, MemoryStep, PromptsStep DEF Inv
<1> QED BY <1>1, <1>2, <1>3, <1>4 DEF Inv

(* The strengthening of all that follows: what a rollback in any stage     *)
(* (execute, mod.rs) may rely on, whatever others do beside it.            *)
THEOREM Invariance == Spec => []Inv
<1>1. Init => Inv
  BY InitInv
<1>2. Inv /\ [Next]_vars => Inv'
  BY InvStep
<1> QED BY <1>1, <1>2, PTL DEF Spec

(* Every value the rollback keeps or writes (execute, mod.rs) is of the    *)
(* type TypeOK gives; what it restores is an image, a commit's target is   *)
(* on the branch.                                                          *)
THEOREM TypeCorrect == Spec => []TypeOK
<1>1. Inv => TypeOK
  BY DEF Inv, Types
<1> QED BY <1>1, Invariance, PTL

(* execute (mod.rs) says it succeeded only with the schema, the tables and *)
(* each prompt as the target has them, but for what others changed after   *)
(* the rollback had put them there; any migrations, names and crashes.     *)
THEOREM RollbackSucceedsWhole == Spec => []SuccessIsWhole
<1>1. Inv => SuccessIsWhole
  BY DEF Inv, SchemaSet, MemorySet, PromptsSet, SuccessIsWhole
<1> QED BY <1>1, Invariance, PTL

(* write_blob_safely (writeback.rs) never leaves a prompt cut short, in a  *)
(* write-back or after a crash in one, nor brings one back from a commit.  *)
THEOREM PromptsStayWhole == Spec => []PromptsNeverPartial
<1>1. Inv => PromptsNeverPartial
  BY DEF Inv, Clean, Whole, PromptsNeverPartial
<1> QED BY <1>1, Invariance, PTL

(* A rollback that approval_gate (mod.rs) or check_irreversible            *)
(* (migrate.rs) refuses, and a dry run, change nothing.                    *)
THEOREM RefusalChangesNothing == Spec => RefusedChangesNothing
<1> DEFINE Granted ==
      EngineStep /\ world' # world =>
        /\ ~req.dry
        /\ req.accept => req.token = target
        /\ \A m \in names : MayReverse(m)
<1>1. Inv /\ [Next]_vars => [Granted]_vars
  <2> SUFFICES ASSUME Inv, EngineStep, world' # world
               PROVE  /\ ~req.dry
                      /\ req.accept => req.token = target
                      /\ \A m \in names : MayReverse(m)
    OBVIOUS
  <2>1. pc \in {"reverse", "check", "restore", "write", "rename", "sweep", "record"}
    BY DEF EngineStep, Begin, ReadVersion, PlanMigrations, ApplyReverse, CheckVersion,
       RestoreTables, WriteTemp, RenameTemp, SweepFile, RecordForward
  <2> QED BY <2>1 DEF Inv, Gate, Working
<1> QED BY <1>1, Invariance, PTL DEF Spec, RefusedChangesNothing

(* apply_reverse_migrations (postgres.rs) never deletes the row of a       *)
(* migration that was recorded up to the target's own, though the list was *)
(* read before others migrated further.                                    *)
THEOREM TargetSchemaKept == Spec => NeverBelowTarget
<1> DEFINE Kept == \A m \in Migration : EngineStep /\ TargetHad(m) => rows'[m] # 0
<1>1. Inv /\ [Next]_vars => [Kept]_vars
  <2> SUFFICES ASSUME Inv, NEW m \in Migration, EngineStep, TargetHad(m)
               PROVE  rows'[m] # 0
    OBVIOUS
  <2>1. CASE ApplyReverse
    <3>1. \A k \in names : rows[k] > IdOf(rows, Goal.schema)
      BY <2>1 DEF ApplyReverse, Inv, Above
    <3>2. Goal.schema \in Migration \cup {Base}
      BY <2>1, GoalIsCommit, CommitParts DEF ApplyReverse, Inv, Types, Course
    <3>3. IdOf(rows, Goal.schema) \in Nat /\ rows[m] \in Nat
      BY <3>2 DEF IdOf, Inv, Types, TypeOK
    <3>4. m \notin names /\ rows[m] # 0
      BY <3>1, <3>3 DEF TargetHad
    <3> QED BY <2>1, <3>4 DEF ApplyReverse, RowsWithout
  <2>2. CASE ~ApplyReverse
    <3>1. rows' = rows
      BY <2>2 DEF EngineStep, Begin, ReadVersion, PlanMigrations, CheckVersion,
         RestoreTables, WriteTemp, RenameTemp, SweepFile, RecordForward, world
    <3> QED BY <3>1 DEF TargetHad
  <2> QED BY <2>1, <2>2
<1> QED BY <1>1, Invariance, PTL DEF Spec, NeverBelowTarget

=============================================================================
