--------------------------- MODULE Adapters_proofs ---------------------------
(***************************************************************************)
(* Where the two backends agree, for any number of migrations, and where   *)
(* they do not.                                                            *)
(***************************************************************************)
EXTENDS Adapters, TLAPS

Rows == [Name -> Nat]
Fixtures == [applied : Seq(Name), live : Name \cup {Base}, tables : {<<>>}]

(***************************************************************************)
(* Where a known target stands on the list, and what comes after it.       *)
(***************************************************************************)
LEMMA Place ==
  ASSUME Base \notin Name,
         NEW f \in Fixtures, NEW rows \in Rows, Same(f, rows),
         NEW target \in Name \cup {Base}, PostgresKnows(rows, target)
  PROVE  /\ PlaceOf(f.applied, target) \in 0..Len(f.applied)
         /\ target = Base => PlaceOf(f.applied, target) = 0
         /\ target # Base => /\ PlaceOf(f.applied, target) # 0
                             /\ f.applied[PlaceOf(f.applied, target)] = target
<1> DEFINE s == f.applied
<1>1. s \in Seq(Name)
  BY DEF Fixtures
<1>2. CASE target = Base
  BY <1>1, <1>2 DEF PlaceOf
<1>3. CASE target # Base
  <2>1. target \in Name /\ rows[target] # 0
    BY <1>3 DEF PostgresKnows
  <2>2. target \in Range(s)
    BY <2>1 DEF Same
  <2>3. PICK i \in DOMAIN s : s[i] = target
    BY <2>2 DEF Range
  <2>4. \A j \in 1..(i - 1) : s[j] # target
    BY <1>1, <2>3 DEF Same, IsInjective
  <2>5. PlaceOf(s, target)
          = CHOOSE k \in DOMAIN s : s[k] = target /\ \A j \in 1..(k - 1) : s[j] # target
    BY <1>3, <2>2 DEF PlaceOf
  <2>6. PlaceOf(s, target) \in DOMAIN s /\ s[PlaceOf(s, target)] = target
    BY <2>3, <2>4, <2>5
  <2> QED
    BY <1>1, <1>3, <2>6
<1> QED
  BY <1>2, <1>3

LEMMA After ==
  ASSUME NEW s \in Seq(Name), NEW p \in 0..Len(s), NEW steps,
         steps = Reverse(SubSeq(s, p + 1, Len(s)))
  PROVE  /\ steps \in Seq(Name) /\ Len(steps) = Len(s) - p
         /\ \A i \in 1..(Len(s) - p) : steps[i] = s[Len(s) + 1 - i]
<1> DEFINE t == SubSeq(s, p + 1, Len(s))
<1>1. t \in Seq(Name) /\ Len(t) = Len(s) - p
  OBVIOUS
<1>2. \A i \in 1..(Len(s) - p) : t[i] = s[p + i]
  OBVIOUS
<1> HIDE DEF t
<1>3. steps = [i \in 1..Len(t) |-> t[Len(t) - i + 1]]
  BY DEF Reverse, t
<1>4. \A i \in 1..Len(t) : Len(t) - i + 1 \in 1..Len(t)
  BY <1>1
<1>5. \A i \in 1..Len(t) : t[Len(t) - i + 1] \in Name
  BY <1>1, <1>4
<1>6. steps \in [1..Len(t) -> Name] /\ Len(t) \in Nat
  BY <1>1, <1>3, <1>5
<1>7. steps \in Seq(Name) /\ Len(steps) = Len(t)
  BY <1>6
<1>8. ASSUME NEW i \in 1..Len(t) PROVE steps[i] = s[Len(s) + 1 - i]
  <2>1. steps[i] = t[Len(t) - i + 1]
    BY <1>3
  <2>2. t[Len(t) - i + 1] = s[p + (Len(t) - i + 1)]
    BY <1>1, <1>2, <1>4
  <2>3. p + (Len(t) - i + 1) = Len(s) + 1 - i
    BY <1>1
  <2> QED
    BY <2>1, <2>2, <2>3
<1> QED
  BY <1>1, <1>7, <1>8

-----------------------------------------------------------------------------
(***************************************************************************)
(* Of a list that stands for the rows, the names after the target are      *)
(* those whose row came after its.                                         *)
(***************************************************************************)
LEMMA AfterTarget ==
  ASSUME Base \notin Name,
         NEW f \in Fixtures, NEW rows \in Rows, Same(f, rows),
         NEW target \in Name \cup {Base}, PostgresKnows(rows, target),
         NEW i \in DOMAIN f.applied
  PROVE  (rows[f.applied[i]] > IdOf(rows, target))
           <=> (i > PlaceOf(f.applied, target))
<1> DEFINE s == f.applied
           p == PlaceOf(s, target)
<1>1. s \in Seq(Name) /\ s[i] \in Name /\ rows[s[i]] # 0 /\ rows[s[i]] \in Nat
  BY DEF Fixtures, Rows, Same, Range
<1>2. p \in 0..Len(s)
  BY Place
<1>3. CASE target = Base
  <2>1. p = 0 /\ IdOf(rows, target) = 0
    BY <1>3, Place DEF IdOf
  <2> QED
    BY <1>1, <2>1
<1>4. CASE target # Base
  <2>1. p \in DOMAIN s /\ s[p] = target /\ IdOf(rows, target) = rows[s[p]]
    BY <1>1, <1>2, <1>4, Place DEF IdOf
  <2> HIDE DEF p
  <2>2. rows[s[p]] \in Nat
    BY <1>4, <2>1 DEF Rows
  <2>3. p < i => rows[s[p]] < rows[s[i]]
    BY <2>1 DEF Same
  <2>4. i < p => rows[s[i]] < rows[s[p]]
    BY <2>1 DEF Same
  <2>5. i \in 1..Len(s) /\ p \in 1..Len(s)
    BY <1>1, <2>1
  <2>6. (rows[s[i]] > rows[s[p]]) <=> (i > p)
    BY <1>1, <2>2, <2>3, <2>4, <2>5
  <2> QED
    BY <2>1, <2>6 DEF p
<1> QED
  BY <1>3, <1>4

(***************************************************************************)
(* The fixture's migrations_after is what the trait asks: the names        *)
(* Postgres records after the target, each once and newest first.          *)
(***************************************************************************)
THEOREM FixturePlansAsPromised ==
  ASSUME Base \notin Name,
         NEW f \in Fixtures, NEW rows \in Rows, Same(f, rows),
         NEW target \in Name \cup {Base}, PostgresKnows(rows, target)
  PROVE  FixtureKnows(f, target) /\ Promised(FixtureAfter(f, target), rows, target)
<1> DEFINE s == f.applied
           p == PlaceOf(s, target)
           steps == FixtureAfter(f, target)
<1>1. s \in Seq(Name) /\ IsInjective(s)
  BY DEF Fixtures, Same
<1>2. p \in 0..Len(s)
  BY Place
<1>3. /\ steps \in Seq(Name) /\ Len(steps) = Len(s) - p
      /\ DOMAIN steps = 1..(Len(s) - p)
      /\ \A i \in 1..(Len(s) - p) : steps[i] = s[Len(s) + 1 - i]
  <2>1. steps = Reverse(SubSeq(s, p + 1, Len(s)))
    BY DEF FixtureAfter
  <2> HIDE DEF p, steps, s
  <2>2. /\ steps \in Seq(Name) /\ Len(steps) = Len(s) - p
        /\ \A i \in 1..(Len(s) - p) : steps[i] = s[Len(s) + 1 - i]
    BY <1>1, <1>2, <2>1, After
  <2> QED
    BY <1>1, <1>2, <2>2
<1>4. \A i \in DOMAIN s : (rows[s[i]] > IdOf(rows, target)) <=> (i > p)
  BY AfterTarget
<1>5. FixtureKnows(f, target)
  BY DEF FixtureKnows, PostgresKnows, Same
<1>6. IdOf(rows, target) \in Nat
  BY DEF IdOf, Rows
<1> HIDE DEF p, steps
<1>7. \A i \in DOMAIN steps : Len(s) + 1 - i \in DOMAIN s /\ Len(s) + 1 - i > p
  BY <1>1, <1>2, <1>3
<1>8. IsInjective(steps)
  <2> SUFFICES ASSUME NEW i \in DOMAIN steps, NEW j \in DOMAIN steps,
                      steps[i] = steps[j]
               PROVE  i = j
    BY DEF IsInjective
  <2>1. s[Len(s) + 1 - i] = s[Len(s) + 1 - j]
    BY <1>3
  <2>2. Len(s) + 1 - i = Len(s) + 1 - j
    BY <1>1, <1>7, <2>1 DEF IsInjective
  <2> QED
    BY <1>1, <1>3, <2>2
<1>9. Range(steps) = {n \in Name : rows[n] > IdOf(rows, target)}
  <2>1. ASSUME NEW n \in Range(steps)
        PROVE  n \in Name /\ rows[n] > IdOf(rows, target)
    <3>1. PICK i \in DOMAIN steps : steps[i] = n
      BY DEF Range
    <3>2. n = s[Len(s) + 1 - i]
      BY <1>3, <3>1
    <3>3. rows[n] > IdOf(rows, target)
      BY <1>4, <1>7, <3>2
    <3> QED
      BY <1>3, <3>1, <3>3
  <2>2. ASSUME NEW n \in Name, rows[n] > IdOf(rows, target)
        PROVE  n \in Range(steps)
    <3>1. rows[n] # 0
      BY <1>6, <2>2 DEF Rows
    <3>2. PICK k \in DOMAIN s : s[k] = n
      BY <3>1 DEF Same, Range
    <3>3. k > p
      BY <1>4, <2>2, <3>2
    <3>4. Len(s) + 1 - k \in 1..(Len(s) - p) /\ Len(s) + 1 - (Len(s) + 1 - k) = k
      BY <1>1, <1>2, <3>2, <3>3
    <3>5. Len(s) + 1 - k \in DOMAIN steps /\ steps[Len(s) + 1 - k] = n
      BY <1>3, <3>2, <3>4
    <3> QED
      BY <3>5 DEF Range
  <2> QED
    BY <2>1, <2>2
<1>10. ASSUME NEW i \in DOMAIN steps, NEW j \in DOMAIN steps, i < j
       PROVE  rows[steps[i]] > rows[steps[j]]
  <2>1. Len(s) + 1 - j < Len(s) + 1 - i
    BY <1>1, <1>3, <1>10
  <2>2. rows[s[Len(s) + 1 - j]] < rows[s[Len(s) + 1 - i]]
    BY <1>7, <2>1 DEF Same
  <2>3. steps[i] = s[Len(s) + 1 - i] /\ steps[j] = s[Len(s) + 1 - j]
    BY <1>3
  <2>4. steps[i] \in Name /\ steps[j] \in Name
    BY <1>3
  <2> QED
    BY <2>2, <2>3, <2>4 DEF Rows
<1> QED
  BY <1>5, <1>8, <1>9, <1>10 DEF Promised, steps

-----------------------------------------------------------------------------
(***************************************************************************)
(* A plan made of what is there is accepted by both, and leaves both with  *)
(* the same migrations, none after the target.                             *)
(***************************************************************************)
THEOREM FixtureReverses ==
  ASSUME Base \notin Name,
         NEW f \in Fixtures, NEW rows \in Rows, Same(f, rows),
         NEW target \in Name \cup {Base}, PostgresKnows(rows, target),
         FixtureAfter(f, target) # <<>>
  PROVE  /\ FixtureAccepts(f, FixtureAfter(f, target))
         /\ PostgresAccepts(rows, FixtureAfter(f, target))
         /\ Same(FixtureReversed(f, FixtureAfter(f, target)),
                 PostgresReversed(rows, FixtureAfter(f, target)))
         /\ FixtureReversed(f, FixtureAfter(f, target)).live = target
<1> DEFINE s == f.applied
           p == PlaceOf(s, target)
           steps == FixtureAfter(f, target)
           kept == SubSeq(s, 1, p)
           left == PostgresReversed(rows, steps)
<1>1. s \in Seq(Name) /\ IsInjective(s)
  BY DEF Fixtures, Same
<1>2. p \in 0..Len(s)
  BY Place
<1>3. /\ Len(steps) = Len(s) - p
      /\ DOMAIN steps = 1..(Len(s) - p)
      /\ \A i \in 1..(Len(s) - p) : steps[i] = s[Len(s) + 1 - i]
  <2>1. steps = Reverse(SubSeq(s, p + 1, Len(s)))
    BY DEF FixtureAfter
  <2> HIDE DEF p, steps, s
  <2>2. /\ steps \in Seq(Name) /\ Len(steps) = Len(s) - p
        /\ \A i \in 1..(Len(s) - p) : steps[i] = s[Len(s) + 1 - i]
    BY <1>1, <1>2, <2>1, After
  <2> QED
    BY <1>1, <1>2, <2>2
<1>4. Promised(steps, rows, target)
  BY FixturePlansAsPromised
<1>5. FixtureReversed(f, steps) = [f EXCEPT !.applied = kept, !.live = LiveOf(kept)]
  <2>1. Len(s) - Len(steps) = p
    BY <1>1, <1>2, <1>3
  <2> QED
    BY <2>1 DEF FixtureReversed
<1>6. LiveOf(kept) = target
  <2>1. p = 0 => target = Base /\ kept = <<>>
    BY <1>1, Place
  <2>2. p # 0 => Len(kept) = p /\ kept # <<>> /\ kept[p] = s[p] /\ s[p] = target
    BY <1>1, <1>2, Place
  <2> QED
    BY <2>1, <2>2 DEF LiveOf
<1>7. FixtureAccepts(f, steps)
  BY <1>1, <1>2, <1>3 DEF FixtureAccepts
<1>8. PostgresAccepts(rows, steps)
  <2>1. IdOf(rows, target) \in Nat
    BY DEF IdOf, Rows
  <2> HIDE DEF steps
  <2>2. \A n \in Range(steps) : n \in Name /\ rows[n] > IdOf(rows, target)
    BY <1>4 DEF Promised
  <2>3. \A n \in Range(steps) : rows[n] # 0
    BY <2>1, <2>2
  <2> QED
    BY <1>4, <2>3 DEF PostgresAccepts, Promised, Range
<1>9. kept \in Seq(Name) /\ Len(kept) = p /\ \A i \in 1..p : kept[i] = s[i]
  BY <1>1, <1>2
<1>10. \A n \in Name : left[n] = IF n \in Range(steps) THEN 0 ELSE rows[n]
  BY DEF PostgresReversed
<1>11. \A i \in 1..p : /\ kept[i] \in Name /\ kept[i] \notin Range(steps)
                       /\ left[kept[i]] = rows[kept[i]] /\ rows[kept[i]] # 0
  <2> SUFFICES ASSUME NEW i \in 1..p
               PROVE  /\ kept[i] \in Name /\ kept[i] \notin Range(steps)
                      /\ left[kept[i]] = rows[kept[i]] /\ rows[kept[i]] # 0
    OBVIOUS
  <2>1. i \in DOMAIN s /\ kept[i] = s[i] /\ ~(i > p)
    BY <1>1, <1>2, <1>9
  <2>2. ~(rows[s[i]] > IdOf(rows, target))
    BY <2>1, AfterTarget
  <2>3. s[i] \in Name /\ rows[s[i]] # 0
    BY <1>1, <2>1 DEF Same, Range
  <2>4. s[i] \notin Range(steps)
    BY <1>4, <2>2 DEF Promised
  <2> QED
    BY <1>10, <2>1, <2>3, <2>4
<1>12. ASSUME NEW n \in Name, left[n] # 0
       PROVE  \E i \in 1..p : kept[i] = n
  <2>1. n \notin Range(steps) /\ rows[n] # 0
    BY <1>10, <1>12
  <2>2. PICK k \in DOMAIN s : s[k] = n
    BY <2>1 DEF Same, Range
  <2>3. ~(k > p)
    BY <1>4, <2>1, <2>2, AfterTarget DEF Promised
  <2>4. k \in 1..p
    BY <1>1, <1>2, <2>2, <2>3
  <2> QED
    BY <1>9, <2>2, <2>4
<1> HIDE DEF p, steps, kept, left
<1>13. DOMAIN kept = 1..p
  BY <1>2, <1>9
<1>14. IsInjective(kept)
  <2>1. \A i \in 1..p : i \in DOMAIN s
    BY <1>1, <1>2
  <2> QED
    BY <1>1, <1>9, <1>13, <2>1 DEF IsInjective
<1>15. Range(kept) = {n \in Name : left[n] # 0}
  BY <1>11, <1>12, <1>13 DEF Range
<1>16. \A i, j \in 1..p : i < j => left[kept[i]] < left[kept[j]]
  <2>1. \A i \in 1..p : i \in DOMAIN s /\ kept[i] = s[i]
    BY <1>1, <1>2, <1>9
  <2>2. \A i, j \in DOMAIN s : i < j => rows[s[i]] < rows[s[j]]
    BY DEF Same
  <2> QED
    BY <1>11, <2>1, <2>2
<1> DEFINE g == FixtureReversed(f, steps)
<1>17. g.applied = kept /\ g.live = LiveOf(kept)
  BY <1>5 DEF Fixtures
<1> HIDE DEF g
<1>18. Same(g, left)
  BY <1>13, <1>14, <1>15, <1>16, <1>17 DEF Same
<1> QED
  BY <1>6, <1>7, <1>8, <1>17, <1>18 DEF g, left, steps

(***************************************************************************)
(* A migration applied after the plan was made: the fixture refuses the    *)
(* plan, Postgres carries it out and is left at the new migration.  What a *)
(* test on the fixture shows of a stale plan, it does not show of Postgres.*)
(***************************************************************************)
THEOREM StalePlan ==
  ASSUME Base \notin Name,
         NEW f \in Fixtures, NEW rows \in Rows, Same(f, rows),
         NEW target \in Name \cup {Base}, PostgresKnows(rows, target),
         FixtureAfter(f, target) # <<>>,
         NEW n \in Name, NEW id \in Nat, MayInsert(rows, n, id)
  PROVE  /\ ~FixtureAccepts(ApplyMigration(f, n), FixtureAfter(f, target))
         /\ PostgresAccepts(Inserted(rows, n, id), FixtureAfter(f, target))
         /\ PostgresVersion(PostgresReversed(Inserted(rows, n, id),
                                             FixtureAfter(f, target))) = n
         /\ n # target
<1> DEFINE steps == FixtureAfter(f, target)
           more  == Inserted(rows, n, id)
           left  == PostgresReversed(more, steps)
           s     == Append(f.applied, n)
<1>1. Promised(steps, rows, target)
  BY FixturePlansAsPromised
<1>2. PostgresAccepts(rows, steps)
  BY FixtureReverses
<1>3. rows[n] = 0 /\ id > 0 /\ \A m \in Name : rows[m] < id
  BY DEF MayInsert
<1>4. n # target
  BY <1>3 DEF PostgresKnows
<1>5. steps \in Seq(Name)
  <2>1. f.applied \in Seq(Name) /\ PlaceOf(f.applied, target) \in 0..Len(f.applied)
    BY Place DEF Fixtures
  <2> QED
    BY <2>1, After DEF FixtureAfter
<1>6. 1 \in DOMAIN steps
  BY <1>5
<1>7. more \in Rows /\ \A m \in Name : more[m] = IF m = n THEN id ELSE rows[m]
  BY DEF Inserted, Rows
<1> HIDE DEF steps, more
<1>8. n \notin Range(steps)
  BY <1>2, <1>3 DEF PostgresAccepts, Range
<1>9. ~FixtureAccepts(ApplyMigration(f, n), steps)
  <2>1. ApplyMigration(f, n).applied = s /\ f.applied \in Seq(Name)
    BY DEF ApplyMigration, Fixtures
  <2>2. Len(s) + 1 - 1 = Len(s) /\ s[Len(s)] = n
    BY <2>1
  <2>3. steps[1] # n
    BY <1>6, <1>8 DEF Range
  <2> QED
    BY <1>6, <2>1, <2>2, <2>3 DEF FixtureAccepts
<1>10. PostgresAccepts(more, steps)
  <2>1. \A i \in DOMAIN steps : steps[i] \in Name /\ steps[i] # n
    BY <1>5, <1>8 DEF Range
  <2> QED
    BY <1>2, <1>7, <2>1 DEF PostgresAccepts
<1>11. \A m \in Name : left[m] \in Nat /\ left[m] <= id /\ (m # n => left[m] < id)
  BY <1>3, <1>7 DEF PostgresReversed, Rows
<1>12. left[n] = id
  BY <1>7, <1>8 DEF PostgresReversed
<1> HIDE DEF left
<1>13. PostgresVersion(left)
         = CHOOSE m \in Name : left[m] # 0 /\ \A k \in Name : left[k] <= left[m]
  BY <1>3, <1>12 DEF PostgresVersion
<1>14. \A m \in Name : (left[m] # 0 /\ \A k \in Name : left[k] <= left[m]) <=> m = n
  BY <1>3, <1>11, <1>12
<1>15. PostgresVersion(left) = n
  BY <1>13, <1>14
<1> QED
  BY <1>4, <1>9, <1>10, <1>15 DEF steps, more, left
=============================================================================
