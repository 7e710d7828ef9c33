------------------------------ MODULE Adapters ------------------------------
(***************************************************************************)
(* What agentic-memory's two backends make of the migrations part of the   *)
(* MemoryAdapter trait (adapter.rs), by which a rollback brings a schema   *)
(* down: the in-memory one, which the daemon's rollback tests run on, and  *)
(* Postgres.  Each operation runs under a mutex or in one transaction, so  *)
(* it is a function of the state; Rollback has what comes between them.    *)
(*                                                                         *)
(* The fixture [applied, live, tables] keeps a list of names, oldest       *)
(* first; Postgres has rows, each name's id in agentic_migrations and 0    *)
(* for a name that has no row.                                             *)
(***************************************************************************)
EXTENDS Integers, Sequences, SequencesExt

CONSTANTS Name, Base      (* Base is "0.0.0": before any migration.        *)

(* What the trait asks of migrations_after: the names recorded after the   *)
(* target, each once and newest first.                                     *)
IdOf(rows, target) == IF target = Base THEN 0 ELSE rows[target]

Promised(steps, rows, target) ==
  /\ IsInjective(steps)
  /\ Range(steps) = {n \in Name : rows[n] > IdOf(rows, target)}
  /\ \A i, j \in DOMAIN steps : i < j => rows[steps[i]] > rows[steps[j]]

-----------------------------------------------------------------------------
(* Postgres.                                                               *)
PostgresVersion(rows) ==
  IF \A n \in Name : rows[n] = 0 THEN Base
  ELSE CHOOSE n \in Name : rows[n] # 0 /\ \A m \in Name : rows[m] <= rows[n]

PostgresKnows(rows, target) == target = Base \/ rows[target] # 0

(* A .down.sql that runs; its name's row is there, and one, to be deleted. *)
PostgresAccepts(rows, steps) ==
  IsInjective(steps) /\ \A i \in DOMAIN steps : rows[steps[i]] # 0

PostgresReversed(rows, steps) ==
  [n \in Name |-> IF n \in Range(steps) THEN 0 ELSE rows[n]]

(* The operator's INSERT: name is UNIQUE, id is serial.                    *)
Inserted(rows, name, id) == [rows EXCEPT ![name] = id]

MayInsert(rows, name, id) ==
  rows[name] = 0 /\ id > 0 /\ \A n \in Name : rows[n] < id

-----------------------------------------------------------------------------
(* The fixture.                                                            *)
NewFixture == [applied |-> <<>>, live |-> Base, tables |-> <<>>]

LiveOf(applied) == IF applied = <<>> THEN Base ELSE applied[Len(applied)]

SetSchemaVersion(f, version) == [f EXCEPT !.live = version]

ApplyMigration(f, name) ==
  [f EXCEPT !.applied = Append(@, name), !.live = name]

FixtureKnows(f, target) ==
  target = Base \/ target \in Range(f.applied) \/ target = f.live

(* A live version that is not on the list has nothing after it.            *)
PlaceOf(applied, target) ==
  IF target = Base THEN 0
  ELSE IF target \notin Range(applied) THEN Len(applied)
  ELSE CHOOSE i \in DOMAIN applied : /\ applied[i] = target
                                     /\ \A j \in 1..(i - 1) : applied[j] # target

FixtureAfter(f, target) ==
  Reverse(SubSeq(f.applied, PlaceOf(f.applied, target) + 1, Len(f.applied)))

(* The steps must be the newest of the list, newest first.                 *)
FixtureAccepts(f, steps) ==
  /\ Len(steps) <= Len(f.applied)
  /\ \A i \in DOMAIN steps : steps[i] = f.applied[Len(f.applied) + 1 - i]

FixtureReversed(f, steps) ==
  IF steps = <<>> THEN f
  ELSE LET kept == SubSeq(f.applied, 1, Len(f.applied) - Len(steps))
       IN  [f EXCEPT !.applied = kept, !.live = LiveOf(kept)]

(* Its snapshots: a segment for each table that has rows; a restore puts   *)
(* them in the place of all there is.                                      *)
RowsOf(f, table) == IF table \in DOMAIN f.tables THEN f.tables[table] ELSE <<>>

InsertRows(f, table, new) ==
  [f EXCEPT !.tables = [t \in DOMAIN f.tables \cup {table} |->
                          IF t = table THEN RowsOf(f, t) \o new ELSE f.tables[t]]]

Snapshot(f) ==
  [schema |-> f.live,
   segments |-> [t \in {u \in DOMAIN f.tables : f.tables[u] # <<>>} |-> f.tables[t]]]

MayRestore(f, snapshot) == f.live = snapshot.schema
Restored(f, snapshot) == [f EXCEPT !.tables = snapshot.segments]

-----------------------------------------------------------------------------
(* The two have seen the same migrations.                                  *)
Same(f, rows) ==
  /\ IsInjective(f.applied)
  /\ Range(f.applied) = {n \in Name : rows[n] # 0}
  /\ \A i, j \in DOMAIN f.applied : i < j => rows[f.applied[i]] < rows[f.applied[j]]
  /\ f.live = LiveOf(f.applied)
=============================================================================
