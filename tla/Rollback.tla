------------------------------ MODULE Rollback ------------------------------
(***************************************************************************)
(* What a rollback does to the world outside the object store: the         *)
(* migrations recorded in Postgres, the rows of the tracked tables, the    *)
(* prompts directory. agentic commit is here too, for the client reads     *)
(* the prompts before its request waits for commit_lock.                   *)
(*                                                                         *)
(* commit_lock lets one request at a time into the engine (AgentDaemon);   *)
(* the application, the operator and an editor hold no lock at all. A      *)
(* restore brings back the image its snapshot holds (MemoryCapture says    *)
(* when that image is the right one).                                      *)
(***************************************************************************)
EXTENDS Integers, Sequences, Functions

CONSTANTS
  Names,       (* The file names under prompts/, in byte order.            *)
  Tmp,         (* Path::with_extension("tmp"), on those names.             *)
  Content,     (* What a prompt may say.                                   *)
  Image,       (* What the tracked tables may hold.                        *)
  Down,        (* Down[m], for migration m: what its .down.sql is.         *)
  Past,        (* Bounds: what the branch may hold before its first commit *)
               (* with a memory snapshot ...                               *)
  Budgets,     (* ... and how often each kind of event may happen.         *)
  NoFile, Partial, Unread, Lost, None

Name == Range(Names)
Migration == DOMAIN Down
Base == 0      (* Version 0.0.0: no migration recorded.                    *)
Event == {"ask", "commit", "write", "edit", "migrate", "interrupt"}

ASSUME RollbackAssumption ==
  /\ Names \in Seq(Name)
  /\ Tmp \in [Name -> Name]
  /\ Down \in Seq({"reversible", "irreversible", "missing"})
  /\ Budgets \subseteq [Event -> Nat]
  /\ \A past \in Past : past \in Seq([memory : {None}, schema : {None},
       prompts : [Name -> Content \cup {NoFile}] \ {[n \in Name |-> NoFile]}])

(* The special values are none of the others.                              *)
ASSUME ValuesDiffer ==
  /\ NoFile \notin Content \cup {Partial, Unread, None}
  /\ Partial \notin Content \cup {Unread}
  /\ Unread \notin Content
  /\ None \notin Image \cup {Lost} \cup Migration \cup {Base}
  /\ None \notin [Name -> Content \cup {NoFile, Partial}]
  /\ Name \cap {"schema", "memory"} = {}     (* Labels in since.          *)

VARIABLES
  rows,      (* agentic_migrations: each name's id, 0 where it has no row. *)
  serial,    (* The next id.                                               *)
  data,      (* What the tracked tables hold.                              *)
  disk,      (* prompts/.                                                  *)
  commits,   (* The branch, oldest first.                                  *)
  pc, req,   (* The rollback in the engine, and its request.               *)
  target,    (* The commit it goes back to, by its place on the branch.    *)
  names,     (* The migrations it is to reverse, in one transaction.       *)
  rest,      (* The files it has yet to write, or to look at.              *)
  draft,     (* What a client read of prompts/ for its commit.             *)
  since,     (* History: what others changed since the rollback set it.    *)
  budget

world == <<rows, serial, data, disk>>
vars == <<world, commits, pc, req, target, names, rest, draft, since, budget>>

-----------------------------------------------------------------------------
(* agentic_schema_version(): the row with the highest id.                  *)
Version(r) ==
  IF \A m \in Migration : r[m] = 0 THEN Base
  ELSE CHOOSE m \in Migration : r[m] # 0 /\ \A k \in Migration : r[k] <= r[m]

IdOf(r, v) == IF v = Base THEN 0 ELSE r[v]
Recorded(r, v) == v = Base \/ r[v] # 0

NoFiles == [n \in Name |-> NoFile]
Unopened == [n \in Name |-> Unread]

(* stage_blob_tree: no entries, no tree.                                   *)
Tree(files) == IF files = NoFiles THEN None ELSE files

Goal == commits[target]
FilesOf(c) == IF c.prompts = None THEN {}
              ELSE {n \in Name : c.prompts[n] # NoFile}
Wanted == FilesOf(Goal)

(* The entries of a tree are visited in byte order.                        *)
FirstOf(files) == Names[CHOOSE i \in DOMAIN Names :
  Names[i] \in files /\ \A j \in 1..(i - 1) : Names[j] \notin files]

(* A token is good for one commit; 0 stands for every other one, and none. *)
NoRequest == [ref |-> 0, dry |-> FALSE, accept |-> FALSE, token |-> 0]

(* A ref is a commit, or (0) the branch, whose tip it stands for.          *)
Resolve(ref) == IF ref = 0 THEN Len(commits) ELSE ref

Spend(e) == budget[e] > 0 /\ budget' = [budget EXCEPT ![e] = @ - 1]

Memory == Image \cup {Lost}
File == Content \cup {NoFile, Partial}
(* With memory and its schema version, or with neither.                    *)
Trees == [Name -> File] \ {NoFiles}
Commit == [memory : Memory, schema : Migration \cup {Base},
           prompts : Trees \cup {None}]
     \cup [memory : {None}, schema : {None}, prompts : Trees \cup {None}]
Working == {"begin", "version", "plan", "reverse", "check", "restore", "write",
            "rename", "sweep", "record"}

TypeOK ==
  /\ rows \in [Migration -> Nat] /\ serial \in Nat \ {0}
  /\ data \in Memory /\ disk \in [Name -> File]
  /\ commits \in Seq(Commit)
  /\ pc \in Working \cup {"idle", "done", "failed"}
  /\ Resolve(req.ref) \in DOMAIN commits /\ req.token \in 0..Len(commits)
  /\ target \in DOMAIN commits
  /\ names \subseteq Migration /\ rest \subseteq Name
  /\ draft \in [Name -> File \cup {Unread}]
  /\ since \subseteq Name \cup {"schema", "memory"}
  /\ budget \in [Event -> Nat]

(* A repository whose last commit is of the world as it is; commits before *)
(* that were made without memory.                                          *)
Init ==
  /\ rows = [m \in Migration |-> 0] /\ serial = 1 /\ data \in Image
  /\ disk \in [Name -> Content \cup {NoFile}]
  /\ \A n \in Range(Tmp) : disk[n] = NoFile
  /\ \E past \in Past : commits =
       Append(past, [memory |-> data, schema |-> Base, prompts |-> Tree(disk)])
  /\ pc = "idle" /\ req = NoRequest /\ target = 1
  /\ names = {} /\ rest = {} /\ draft = Unopened /\ since = {}
  /\ budget \in Budgets

-----------------------------------------------------------------------------
(***************************************************************************)
(* The rollback. A failed one may be asked for again; nothing of it is     *)
(* left but what it did to the world.                                      *)
(***************************************************************************)
Ask(r) ==
  /\ pc \notin Working
  /\ Spend("ask")
  /\ req' = r /\ pc' = "begin"
  /\ UNCHANGED <<world, commits, target, names, rest, draft, since>>

Retry ==
  /\ pc = "failed"
  /\ pc' = "begin"
  /\ UNCHANGED <<world, commits, req, target, names, rest, draft, since, budget>>

(* The prompts come after the memory, and a dry run ends before them.      *)
PromptsStage(goal) ==
  IF req.dry THEN "done" ELSE IF goal.prompts = None THEN "record" ELSE "write"

(* Variant: no approval is asked for.                                      *)
MayBeginUnapproved(t) == TRUE

(* approval_gate, for the commit the ref stands for now.                   *)
MayBegin(t) == req.accept => req.token = t

Begin ==
  /\ pc = "begin"
  /\ LET t == Resolve(req.ref) IN
       IF MayBegin(t)
       THEN /\ target' = t
            /\ rest' = FilesOf(commits[t])
            /\ pc' = IF commits[t].schema = None THEN PromptsStage(commits[t])
                     ELSE "version"
       ELSE pc' = "failed" /\ UNCHANGED <<target, rest>>
  /\ names' = {} /\ since' = {}
  /\ UNCHANGED <<world, commits, req, draft, budget>>

MemoryStage == IF req.dry THEN "done" ELSE "check"

ReadVersion ==
  /\ pc = "version"
  /\ pc' = IF Version(rows) = Goal.schema THEN MemoryStage ELSE "plan"
  /\ UNCHANGED <<world, commits, req, target, names, rest, draft, since, budget>>

(* Variant: id >= the target's.                                            *)
MigrationsFrom(r, v) == {m \in Migration : r[m] # 0 /\ r[m] >= IdOf(r, v)}

(* id > the target's.                                                      *)
MigrationsAfter(r, v) == {m \in Migration : r[m] > IdOf(r, v)}

(* load_steps and check_irreversible.                                      *)
Loadable(m) ==
  \/ Down[m] = "reversible"
  \/ /\ Down[m] = "irreversible"
     /\ req.accept

PlanMigrations ==
  /\ pc = "plan"
  /\ IF /\ Recorded(rows, Goal.schema)
        /\ \A m \in MigrationsAfter(rows, Goal.schema) : Loadable(m)
     THEN /\ names' = MigrationsAfter(rows, Goal.schema)
          /\ pc' = IF req.dry THEN "done" ELSE "reverse"
     ELSE pc' = "failed" /\ UNCHANGED names
  /\ UNCHANGED <<world, commits, req, target, rest, draft, since, budget>>

(* Variant: the bookkeeping rows are not deleted.                          *)
RowsKept(r, gone) == r

RowsWithout(r, gone) == [m \in Migration |-> IF m \in gone THEN 0 ELSE r[m]]

(* One transaction; each step has to delete exactly one row.               *)
ApplyReverse ==
  /\ pc = "reverse"
  /\ IF \A m \in names : rows[m] # 0
     THEN /\ rows' = RowsWithout(rows, names)
          /\ data' = IF \E m \in names : Down[m] = "irreversible"
                     THEN Lost ELSE data
          /\ pc' = "check"
     ELSE pc' = "failed" /\ UNCHANGED <<rows, data>>
  /\ UNCHANGED <<serial, disk, commits, req, target, names, rest, draft, since, budget>>

(* Variant: the live version is not looked at again.                       *)
VersionAtHand == TRUE

(* restore_with_guard's gate.                                              *)
VersionFits == Version(rows) = Goal.schema

CheckVersion ==
  /\ pc = "check"
  /\ pc' = IF VersionFits THEN "restore" ELSE "failed"
  /\ since' = since \ {"schema"}
  /\ UNCHANGED <<world, commits, req, target, names, rest, draft, budget>>

RestoreTables ==
  /\ pc = "restore"
  /\ data' = Goal.memory
  /\ since' = since \ {"memory"}
  /\ pc' = PromptsStage(Goal)
  /\ UNCHANGED <<rows, serial, disk, commits, req, target, names, rest, draft, budget>>

(* Variant: the prompt is written in place.                                *)
ScratchInPlace(n) == n

(* The sibling a prompt is written to first.                               *)
Scratch(n) == Tmp[n]

WriteTemp ==
  /\ pc = "write"
  /\ LET n == FirstOf(rest) IN
       /\ disk' = [disk EXCEPT ![Scratch(n)] = Goal.prompts[n]]
       /\ since' = since \ {Scratch(n)}
  /\ pc' = "rename"
  /\ UNCHANGED <<rows, serial, data, commits, req, target, names, rest, draft, budget>>

(* Once the last prompt is in place, every file is looked at.              *)
RenameTemp ==
  /\ pc = "rename"
  /\ LET n == FirstOf(rest) IN
       /\ disk' = [disk EXCEPT ![Scratch(n)] = NoFile, ![n] = disk[Scratch(n)]]
       /\ since' = since \ {n}
       /\ rest' = IF rest = {n} THEN Name ELSE rest \ {n}
       /\ pc' = IF rest = {n} THEN "sweep" ELSE "write"
  /\ UNCHANGED <<rows, serial, data, commits, req, target, names, draft, budget>>

(* Not in the target's tree.                                                *)
Orphan(n) == n \notin Wanted

(* sweep_orphans comes to a file; a directory is read in any order.        *)
SweepFile(n) ==
  /\ pc = "sweep" /\ n \in rest
  /\ disk' = IF Orphan(n) THEN [disk EXCEPT ![n] = NoFile] ELSE disk
  /\ since' = IF Orphan(n) THEN since \ {n} ELSE since
  /\ rest' = rest \ {n}
  /\ pc' = IF rest' = {} THEN "record" ELSE pc
  /\ UNCHANGED <<rows, serial, data, commits, req, target, names, draft, budget>>

(* A new commit with the target's dimensions, on the tip.                  *)
RecordForward ==
  /\ pc = "record"
  /\ commits' = Append(commits, Goal)
  /\ pc' = "done"
  /\ UNCHANGED <<world, req, target, names, rest, draft, since, budget>>

EngineStep ==
  \/ Begin \/ ReadVersion \/ PlanMigrations \/ ApplyReverse
  \/ CheckVersion \/ RestoreTables \/ WriteTemp \/ RenameTemp
  \/ \E n \in Name : SweepFile(n)
  \/ RecordForward

(* An error of Postgres, the disk or the object store, or a crash. What    *)
(* fs::write had got down by then stays.                                   *)
Interrupt ==
  /\ pc \in Working
  /\ Spend("interrupt")
  /\ pc' = "failed"
  /\ \/ disk' = disk
     \/ pc = "write" /\ disk' = [disk EXCEPT ![Scratch(FirstOf(rest))] = Partial]
  /\ names' = {} /\ rest' = {} /\ since' = {}
  /\ UNCHANGED <<rows, serial, data, commits, req, target, draft>>

-----------------------------------------------------------------------------
(***************************************************************************)
(* agentic commit. The client reads prompts/, each file at its own time    *)
(* (byte order stands for whatever order the directory has), and then      *)
(* asks; the daemon snapshots memory under commit_lock.                    *)
(***************************************************************************)
Unseen == {n \in Name : draft[n] = Unread}

ReadPrompt(n) ==
  /\ budget["commit"] > 0 /\ Unseen # {} /\ n = FirstOf(Unseen)
  /\ draft' = [draft EXCEPT ![n] = disk[n]]
  /\ UNCHANGED <<world, commits, pc, req, target, names, rest, since, budget>>

(* Variant: the version is recorded although memory is not.                *)
SnapshotMemoryLabelled(noMemory) ==
  [memory |-> IF noMemory THEN None ELSE data, schema |-> Version(rows)]

SnapshotMemory(noMemory) ==
  IF noMemory THEN [memory |-> None, schema |-> None]
  ELSE [memory |-> data, schema |-> Version(rows)]

MakeCommit(noMemory) ==
  /\ pc \notin Working
  /\ Unseen = {}
  /\ Spend("commit")
  /\ LET m == SnapshotMemory(noMemory) IN
       commits' = Append(commits,
         [memory |-> m.memory, schema |-> m.schema, prompts |-> Tree(draft)])
  /\ draft' = Unopened
  /\ UNCHANGED <<world, pc, req, target, names, rest, since>>

(* Who holds no lock: the application, an editor, the operator.            *)
Touch(part) == since' = IF pc \in {"idle", "failed"} THEN {} ELSE since \cup {part}

AppWrite(i) ==
  /\ data # i
  /\ Spend("write")
  /\ data' = i /\ Touch("memory")
  /\ UNCHANGED <<rows, serial, disk, commits, pc, req, target, names, rest, draft>>

EditPrompt(n, c) ==
  /\ n \notin Range(Tmp) /\ disk[n] # c
  /\ Spend("edit")
  /\ disk' = [disk EXCEPT ![n] = c] /\ Touch(n)
  /\ UNCHANGED <<rows, serial, data, commits, pc, req, target, names, rest, draft>>

(* The oldest migration that is not there.                                 *)
MigrateUp(m) ==
  /\ rows[m] = 0 /\ \A k \in Migration : k < m => rows[k] # 0
  /\ Spend("migrate")
  /\ rows' = [rows EXCEPT ![m] = serial] /\ serial' = serial + 1 /\ Touch("schema")
  /\ UNCHANGED <<data, disk, commits, pc, req, target, names, rest, draft>>

(* A token is only looked at where data loss is accepted.                  *)
Request == {r \in [ref : 0..Len(commits), dry : BOOLEAN, accept : BOOLEAN,
                   token : 0..Len(commits)] : ~r.accept => r.token = 0}

Next ==
  \/ \E r \in Request : Ask(r)
  \/ Retry \/ EngineStep \/ Interrupt
  \/ \E n \in Name : ReadPrompt(n)
  \/ \E noMemory \in BOOLEAN : MakeCommit(noMemory)
  \/ \E i \in Image : AppWrite(i)
  \/ \E n \in Name, c \in Content \cup {NoFile} : EditPrompt(n, c)
  \/ \E m \in Migration : MigrateUp(m)

Spec == Init /\ [][Next]_vars

(* The daemon runs what it has begun; whoever was refused asks again.      *)
FairSpec == Spec /\ WF_vars(EngineStep) /\ WF_vars(Retry)

-----------------------------------------------------------------------------
(* A name that is another prompt's temporary name: writing that prompt     *)
(* takes it away again.                                                    *)
Clash == \E n \in Wanted : Tmp[n] \in Wanted \ {n}

Restored(n) == Goal.prompts = None \/ n \in since \/ disk[n] = Goal.prompts[n]

(* A rollback that says it was executed left each dimension its target has *)
(* as the target has it, but for what others changed after the rollback    *)
(* had put (or checked) it there: whatever ran beside it, and whatever an  *)
(* earlier attempt left half done, its temporary files included.           *)
SuccessIsWhole ==
  pc = "done" /\ ~req.dry =>
    /\ Goal.schema # None /\ "schema" \notin since => Version(rows) = Goal.schema
    /\ Goal.memory # None /\ "memory" \notin since => data = Goal.memory
    /\ ~Clash => \A n \in Name : Restored(n)

(* A prompt is whole at every moment of a write-back and after every crash *)
(* in one: only a temporary file is ever seen cut short.                   *)
PromptsNeverPartial == \A n \in Name \ Range(Tmp) : disk[n] # Partial

MayReverse(m) == Down[m] = "reversible" \/ (Down[m] = "irreversible" /\ req.accept)

(* A rollback that is a dry run, was not approved, or whose plan has a     *)
(* migration it may not reverse, changes nothing, not even at first.       *)
RefusedChangesNothing ==
  [][EngineStep /\ world' # world =>
       /\ ~req.dry
       /\ req.accept => req.token = target
       /\ \A m \in names : MayReverse(m)]_vars

(* Whatever is migrated while the plan is made and carried out, a rollback *)
(* takes away no migration its target was recorded under.                  *)
TargetHad(m) ==
  /\ Goal.schema # None /\ Recorded(rows, Goal.schema)
  /\ rows[m] # 0 /\ rows[m] <= IdOf(rows, Goal.schema)

NeverBelowTarget ==
  [][\A m \in Migration : EngineStep /\ TargetHad(m) => rows'[m] # 0]_vars

(* What an attempt that got nowhere left behind keeps no later attempt     *)
(* from its end: as long as nothing forbids the rollback it comes about.   *)
Feasible ==
  LET t == Resolve(req.ref) IN
  /\ req.accept => req.token = t
  /\ commits[t].schema # None =>
       /\ Recorded(rows, commits[t].schema)
       /\ \A m \in MigrationsAfter(rows, commits[t].schema) : MayReverse(m)

RetryCompletes == (pc \in Working \cup {"failed"} /\ []Feasible) ~> (pc = "done")
=============================================================================
