----------------------------- MODULE RollbackMC -----------------------------
(***************************************************************************)
(* Constants of the runs of Rollback.                                      *)
(***************************************************************************)
EXTENDS Rollback, TLC

CONSTANTS c1, c2, i1, i2

(* a.md and a.txt share a temporary name.                                  *)
SharedTmp == <<"a.md", "a.tmp", "a.txt">>
ToTmp == [n \in {"a.md", "a.tmp", "a.txt"} |-> "a.tmp"]

TwoMigrations == <<"reversible", "irreversible">>

Counts(ask, commit, write, edit, migrate, interrupt) ==
  [e \in Event |-> CASE e = "ask" -> ask [] e = "commit" -> commit
                     [] e = "write" -> write [] e = "edit" -> edit
                     [] e = "migrate" -> migrate [] e = "interrupt" -> interrupt]

(* Writes and migrations beside a rollback; edits beside one.              *)
StepsBudgets == {Counts(1, 1, 1, 0, 2, 1), Counts(1, 1, 0, 1, 1, 1)}
RetryBudgets == {Counts(1, 0, 0, 1, 2, 2)}

NoPast == {<<>>}

(***************************************************************************)
(* The two adapters over three migrations: wherever they have seen the     *)
(* same ones they agree on the version, the plan and its outcome; and a    *)
(* restore, at the schema of its snapshot only, leaves no row written      *)
(* since.                                                                  *)
(***************************************************************************)
A == INSTANCE Adapters WITH Name <- 1..3, Base <- 0

Fixtures == {[A!NewFixture EXCEPT !.applied = s, !.live = A!LiveOf(s)] :
               s \in UNION {[1..n -> 1..3] : n \in 0..3}}

Alike == {w \in Fixtures \X [1..3 -> 0..3] : A!Same(w[1], w[2])}

ASSUME AdaptersAgree ==
  \A w \in Alike, t \in 0..3 :
    LET f == w[1]  ids == w[2]  steps == A!FixtureAfter(f, t)
    IN  /\ f.live = A!PostgresVersion(ids)
        /\ A!FixtureKnows(f, t) <=> A!PostgresKnows(ids, t)
        /\ A!PostgresKnows(ids, t) =>
             /\ A!Promised(steps, ids, t)
             /\ A!FixtureAccepts(f, steps) /\ A!PostgresAccepts(ids, steps)
             /\ A!Same(A!FixtureReversed(f, steps), A!PostgresReversed(ids, steps))

ASSUME StalePlansDiffer ==
  \E w \in Alike, t \in 0..3, n \in 1..3 :
    LET f == w[1]  ids == w[2]  steps == A!FixtureAfter(f, t)
    IN  /\ A!PostgresKnows(ids, t) /\ steps # <<>> /\ A!MayInsert(ids, n, 4)
        /\ ~A!FixtureAccepts(A!ApplyMigration(f, n), steps)
        /\ A!PostgresAccepts(A!Inserted(ids, n, 4), steps)

ASSUME FixtureRestores ==
  \A f \in Fixtures, n \in 1..3 :
    LET g == A!InsertRows(f, "t", <<1>>)
        h == A!InsertRows(A!InsertRows(g, "t", <<2>>), "u", <<3>>)
    IN  /\ A!MayRestore(h, A!Snapshot(g)) /\ A!Restored(h, A!Snapshot(g)) = g
        /\ A!MayRestore(A!SetSchemaVersion(h, n), A!Snapshot(g)) <=> n = g.live

Symmetry == Permutations({c1, c2}) \cup Permutations({i1, i2})
=============================================================================
