------------------------ MODULE MemoryCapture_proofs ------------------------
(***************************************************************************)
(* Proofs about MemoryCapture, for any keys, values, writers, batch and    *)
(* segment sizes, channel depth and bounds.                                *)
(***************************************************************************)
EXTENDS MemoryCapture, FiniteSetTheorems, WellFoundedInduction, TLAPS

USE ManifestAssumption, CaptureAssumption

-----------------------------------------------------------------------------
(* A set of naturals that is not empty has a least element.                *)
LEMMA Least ==
  ASSUME NEW S \in SUBSET Nat, S # {}
  PROVE  \E n \in S : \A m \in S : n <= m
<1>1. IsWellFoundedOn(OpToRel(<, Nat), Nat)
  BY NatLessThanWellFounded
<1>2. PICK n \in S : \A m \in S : ~ (<<m, n>> \in OpToRel(<, Nat))
  BY <1>1, WFMin
<1>3. \A m \in S : ~ (m < n)
  BY <1>2 DEF OpToRel
<1> QED BY <1>3

(* There are n naturals from 1 to n.                                       *)
LEMMA UpTo ==
  ASSUME NEW n \in Nat
  PROVE  IsFiniteSet(1..n) /\ Cardinality(1..n) = n
<1>1. 1 \in Int /\ n \in Int
  OBVIOUS
<1>2. IsFiniteSet(1..n) /\ Cardinality(1..n) = IF 1 > n THEN 0 ELSE n - 1 + 1
  BY <1>1, FS_Interval, Zenon
<1> QED BY <1>2

(***************************************************************************)
(* ORDER BY. A finite set whose elements have different numbers can be put *)
(* in the order of these: an element's place is one more than how many are *)
(* below it.                                                               *)
(***************************************************************************)
Below(S, num, r) == {s \in S : num[s] < num[r]}
Rank(S, num, r) == Cardinality(Below(S, num, r)) + 1

LEMMA Ranked ==
  ASSUME NEW S, IsFiniteSet(S), NEW num \in [S -> Int]
  PROVE  /\ \A r \in S : Rank(S, num, r) \in 1..Cardinality(S)
         /\ \A r, s \in S : num[r] < num[s] => Rank(S, num, r) < Rank(S, num, s)
<1>1. \A r \in S : IsFiniteSet(Below(S, num, r)) /\ Cardinality(Below(S, num, r)) \in Nat
  BY FS_Subset, FS_CardinalityType DEF Below
<1>2. Cardinality(S) \in Nat
  BY FS_CardinalityType
<1>3. ASSUME NEW r \in S PROVE Rank(S, num, r) \in 1..Cardinality(S)
  <2>1. Below(S, num, r) \in SUBSET S /\ r \notin Below(S, num, r)
    BY DEF Below
  <2>2. Cardinality(Below(S, num, r)) <= Cardinality(S) /\ Cardinality(S) # Cardinality(Below(S, num, r))
    BY <2>1, FS_Subset
  <2> QED BY <1>1, <1>2, <2>2 DEF Rank
<1>4. ASSUME NEW r \in S, NEW s \in S, num[r] < num[s] PROVE Rank(S, num, r) < Rank(S, num, s)
  <2>1. Below(S, num, r) \in SUBSET Below(S, num, s) /\ r \in Below(S, num, s) /\ r \notin Below(S, num, r)
    BY <1>4 DEF Below
  <2>2. /\ Cardinality(Below(S, num, r)) <= Cardinality(Below(S, num, s))
        /\ Cardinality(Below(S, num, s)) # Cardinality(Below(S, num, r))
    BY <1>1, <2>1, FS_Subset
  <2> QED BY <1>1, <2>2 DEF Rank
<1> QED BY <1>3, <1>4

LEMMA Sortable ==
  ASSUME NEW S, IsFiniteSet(S), NEW num \in [S -> Int],
         \A r, s \in S : num[r] = num[s] => r = s
  PROVE  \E f \in SetToSeqs(S) : \A i, j \in DOMAIN f : i < j => num[f[i]] < num[f[j]]
<1> DEFINE D == 1..Cardinality(S)
           g == [r \in S |-> Rank(S, num, r)]
<1>1. Cardinality(S) \in Nat /\ IsFiniteSet(D) /\ Cardinality(D) = Cardinality(S)
  BY FS_CardinalityType, UpTo
<1>2. \A r, s \in S : g[r] = g[s] => r = s
  <2> SUFFICES ASSUME NEW r \in S, NEW s \in S, r # s PROVE g[r] # g[s]
    OBVIOUS
  <2>1. num[r] < num[s] \/ num[s] < num[r]
    OBVIOUS
  <2>2. Rank(S, num, r) < Rank(S, num, s) \/ Rank(S, num, s) < Rank(S, num, r)
    BY <2>1, Ranked
  <2>3. Rank(S, num, r) \in Int /\ Rank(S, num, s) \in Int
    BY <1>1, Ranked
  <2> QED BY <2>2, <2>3
<1>3. g \in Injection(S, D)
  BY <1>2, Ranked DEF Injection, IsInjective
<1>4. g \in Surjection(S, D)
  BY <1>1, <1>3, FS_Injection
<1> DEFINE f == [i \in D |-> CHOOSE r \in S : g[r] = i]
<1>5. \A i \in D : f[i] \in S /\ g[f[i]] = i
  BY <1>4 DEF Surjection
<1> HIDE DEF f
<1>6. \A i, j \in D : i < j => num[f[i]] < num[f[j]]
  <2> SUFFICES ASSUME NEW i \in D, NEW j \in D, i < j, ~(num[f[i]] < num[f[j]]) PROVE FALSE
    OBVIOUS
  <2>1. f[i] \in S /\ f[j] \in S /\ Rank(S, num, f[i]) = i /\ Rank(S, num, f[j]) = j
    BY <1>5
  <2>2. num[f[i]] = num[f[j]] \/ num[f[j]] < num[f[i]]
    BY <2>1
  <2>3. CASE num[f[i]] = num[f[j]]
    BY <2>1, <2>3
  <2>4. CASE num[f[j]] < num[f[i]]
    BY <2>1, <2>4, Ranked
  <2> QED BY <2>2, <2>3, <2>4
<1>7. \A i, j \in D : i # j => f[i] # f[j]
  <2> HIDE DEF g, D
  <2> QED BY <1>5
<1>8. f \in [D -> S]
  BY <1>5 DEF f
<1>9. f \in SetToSeqs(S) /\ DOMAIN f = D
  BY <1>7, <1>8 DEF SetToSeqs
<1> QED BY <1>6, <1>9

(***************************************************************************)
(* Whoever is put in order is all there: a sequence of all of S, each once.*)
(***************************************************************************)
LEMMA SeqOfAll ==
  ASSUME NEW S, IsFiniteSet(S), NEW f \in SetToSeqs(S)
  PROVE  /\ f \in Seq(S) /\ Len(f) = Cardinality(S) /\ Len(f) \in Nat
         /\ \A r \in S : \E i \in 1..Len(f) : f[i] = r
<1> DEFINE D == 1..Cardinality(S)
<1>1. Cardinality(S) \in Nat /\ IsFiniteSet(D) /\ Cardinality(D) = Cardinality(S)
  BY FS_CardinalityType, UpTo
<1>2. f \in [D -> S] /\ \A i, j \in D : i # j => f[i] # f[j]
  BY DEF SetToSeqs
<1>3. f \in Seq(S) /\ Len(f) = Cardinality(S)
  BY <1>1, <1>2
<1>4. f \in Injection(D, S)
  BY <1>2 DEF Injection, IsInjective
<1>5. f \in Surjection(D, S)
  BY <1>1, <1>4, FS_Injection
<1> QED BY <1>1, <1>3, <1>5 DEF Surjection

-----------------------------------------------------------------------------
(***************************************************************************)
(* Folds over a finite set S: f says which element is taken next, F what a *)
(* step makes of it and of the result for the rest.                        *)
(***************************************************************************)
Takes(f, S) == \A s \in (SUBSET S) \ {{}} : f[s] \in s

IsFold(g, S, base, f, F) ==
  \A s \in SUBSET S : g[s] = IF s = {} THEN base ELSE F[<<f[s], g[s \ {f[s]}]>>]

SameSteps(g, h, S, f) ==
  /\ g[{}] = h[{}]
  /\ \A s \in (SUBSET S) \ {{}} : g[s \ {f[s]}] = h[s \ {f[s]}] => g[s] = h[s]

(* There is such a function ...                                            *)
LEMMA FoldExists ==
  ASSUME NEW S, IsFiniteSet(S), NEW X, NEW base \in X,
         NEW f, Takes(f, S), NEW F \in [S \X X -> X]
  PROVE  \E g \in [SUBSET S -> X] : IsFold(g, S, base, f, F)
<1> USE DEF Takes, IsFold
<1> DEFINE UpToCard(n) == {s \in SUBSET S : Cardinality(s) <= n}
           Step(g, s) == IF s = {} THEN base ELSE F[<<f[s], g[s \ {f[s]}]>>]
           Partial(n) == \E g \in [UpToCard(n) -> X] : \A s \in UpToCard(n) : g[s] = Step(g, s)
           Bad == {n \in Nat : ~Partial(n)}
<1>1. \A s \in SUBSET S : IsFiniteSet(s) /\ Cardinality(s) \in Nat
  BY FS_Subset, FS_CardinalityType
<1>2. \A s \in (SUBSET S) \ {{}} : /\ f[s] \in S /\ s \ {f[s]} \in SUBSET S
                                   /\ Cardinality(s \ {f[s]}) = Cardinality(s) - 1
  BY <1>1, FS_RemoveElement
<1>3. Partial(0)
  <2> DEFINE g == [s \in UpToCard(0) |-> base]
  <2>1. \A s \in UpToCard(0) : s = {}
    BY <1>1, FS_EmptySet
  <2>2. g \in [UpToCard(0) -> X] /\ \A s \in UpToCard(0) : g[s] = Step(g, s)
    BY <2>1
  <2> HIDE DEF g
  <2> QED BY <2>2
<1>4. ASSUME NEW n \in Nat, Partial(n) PROVE Partial(n + 1)
  <2>1. PICK g \in [UpToCard(n) -> X] : \A s \in UpToCard(n) : g[s] = Step(g, s)
    BY <1>4
  <2> DEFINE h == [s \in UpToCard(n + 1) |-> Step(g, s)]
  <2>2. ASSUME NEW s \in UpToCard(n + 1), s # {}
        PROVE  f[s] \in S /\ s \ {f[s]} \in UpToCard(n)
    BY <1>1, <1>2, <2>2
  <2>3. \A s \in UpToCard(n + 1) : Step(g, s) \in X
    BY <2>2
  <2>4. \A s \in UpToCard(n) : s \in UpToCard(n + 1) /\ h[s] = g[s]
    BY <1>1, <2>1
  <2>5. h \in [UpToCard(n + 1) -> X]
    BY <2>3
  <2>6. ASSUME NEW s \in UpToCard(n + 1) PROVE h[s] = Step(h, s)
    <3>1. h[s] = Step(g, s)
      OBVIOUS
    <3>2. CASE s = {}
      BY <3>1, <3>2
    <3>3. CASE s # {}
      <4>1. h[s \ {f[s]}] = g[s \ {f[s]}]
        BY <2>2, <2>4, <3>3
      <4> HIDE DEF h
      <4> QED BY <3>1, <4>1
    <3> QED BY <3>2, <3>3
  <2> HIDE DEF h
  <2> QED BY <2>5, <2>6
<1>5. Bad = {}
  <2> SUFFICES ASSUME Bad # {} PROVE FALSE
    OBVIOUS
  <2>1. PICK n \in Bad : \A m \in Bad : n <= m
    <3> HIDE DEF Partial
    <3> QED BY Least
  <2> HIDE DEF Partial
  <2>2. n # 0
    BY <1>3
  <2>3. n - 1 \in Nat /\ Partial(n - 1)
    BY <2>1, <2>2
  <2> QED BY <1>4, <2>1, <2>3
<1>6. Cardinality(S) \in Nat /\ UpToCard(Cardinality(S)) = SUBSET S
  BY FS_Subset, FS_CardinalityType
<1>7. Partial(Cardinality(S))
  <2> HIDE DEF Partial
  <2> QED BY <1>5, <1>6
<1> QED BY <1>6, <1>7

(* ... and there is no other.                                              *)
LEMMA FoldAgrees ==
  ASSUME NEW S, IsFiniteSet(S), NEW f, Takes(f, S), NEW g, NEW h, SameSteps(g, h, S, f)
  PROVE  \A s \in SUBSET S : g[s] = h[s]
<1> USE DEF Takes, SameSteps
<1> SUFFICES ASSUME NEW z \in SUBSET S, g[z] # h[z] PROVE FALSE
  OBVIOUS
<1> DEFINE N == {n \in Nat : \E s \in SUBSET S : Cardinality(s) = n /\ g[s] # h[s]}
<1>1. \A s \in SUBSET S : IsFiniteSet(s) /\ Cardinality(s) \in Nat
  BY FS_Subset, FS_CardinalityType
<1>2. N \in SUBSET Nat /\ N # {}
  BY <1>1
<1>3. PICK n \in N : \A m \in N : n <= m
  BY <1>2, Least
<1>4. PICK s \in SUBSET S : Cardinality(s) = n /\ g[s] # h[s]
  BY <1>3
<1>5. s # {} /\ f[s] \in s
  BY <1>4
<1>6. s \ {f[s]} \in SUBSET S /\ g[s \ {f[s]}] # h[s \ {f[s]}]
  BY <1>4, <1>5
<1>7. Cardinality(s \ {f[s]}) = n - 1 /\ n - 1 \in Nat
  <2>1. Cardinality(s \ {f[s]}) = Cardinality(s) - 1
    BY <1>1, <1>5, FS_RemoveElement, SMTT(30)
  <2> QED BY <1>1, <1>4, <1>6, <2>1
<1>8. n - 1 \in N
  BY <1>6, <1>7
<1> QED BY <1>3, <1>6, <1>8

(* The last place of a sequence is the greatest of its domain.             *)
LEMMA Greatest ==
  ASSUME NEW n \in Nat, NEW s \in SUBSET (1..n), s # {}
  PROVE  Max(s) \in s /\ \A m \in s : m <= Max(s)
<1> DEFINE T == {n - m : m \in s}
<1>0. \A m \in s : m \in Int /\ n - m \in Nat /\ n - m \in T
  OBVIOUS
<1>1. T \in SUBSET Nat /\ T # {}
  BY <1>0
<1>2. PICK l \in T : \A m \in T : l <= m
  BY <1>1, Least
<1>3. PICK x \in s : l = n - x
  BY <1>2
<1>4. \A m \in s : x >= m
  <2> HIDE DEF T
  <2>1. ASSUME NEW m \in s PROVE x >= m
    <3>1. n - x <= n - m
      BY <1>0, <1>2, <1>3
    <3> QED BY <1>0, <3>1
  <2> QED BY <2>1
<1> QED BY <1>3, <1>4 DEF Max

(***************************************************************************)
(* Rows applied in turn: what the last of a set of rows makes of what the  *)
(* others make of t.                                                       *)
(***************************************************************************)
LastFirst(g, t, rows) ==
  /\ g[{}] = t
  /\ \A s \in (SUBSET (1..Len(rows))) \ {{}} : g[s] = ApplyRow(g[s \ {Max(s)}], rows[Max(s)])

LEMMA ApplyRowsIs ==
  ASSUME NEW t \in [Key -> Stored], NEW rows \in Seq(Change)
  PROVE  \E g \in [SUBSET (1..Len(rows)) -> [Key -> Stored]] :
           LastFirst(g, t, rows) /\ ApplyRows(t, rows) = g[1..Len(rows)]
<1> DEFINE D == 1..Len(rows)
           X == [Key -> Stored]
           last == [s \in (SUBSET D) |-> Max(s)]
           F == [p \in D \X X |-> [p[2] EXCEPT ![rows[p[1]].key] = rows[p[1]].val]]
           Is(c) == c = [s \in SUBSET D |-> IF s = {} THEN t
                           ELSE [c[s \ {Max(s)}] EXCEPT ![rows[Max(s)].key] = rows[Max(s)].val]]
           it == CHOOSE c : Is(c)
<1>1. Len(rows) \in Nat /\ IsFiniteSet(D) /\ DOMAIN rows = D
  BY UpTo
<1>2. \A s \in (SUBSET D) \ {{}} : last[s] = Max(s) /\ Max(s) \in s /\ Max(s) \in D
  BY <1>1, Greatest
<1>3. F \in [D \X X -> X]
  <2>1. ASSUME NEW i \in D, NEW x \in X
        PROVE  [x EXCEPT ![rows[i].key] = rows[i].val] \in X
    <3>1. rows[i] \in Change
      BY <1>1
    <3>2. rows[i].key \in Key /\ rows[i].val \in Stored
      BY <3>1 DEF Change
    <3> QED BY <3>2
  <2> QED BY <2>1
<1>4. PICK g \in [SUBSET D -> X] : IsFold(g, D, t, last, F)
  <2>1. t \in X /\ Takes(last, D)
    BY <1>2 DEF Takes
  <2> HIDE DEF F, D, X, last
  <2> QED BY <1>1, <1>3, <2>1, FoldExists
<1>5. \A s \in (SUBSET D) \ {{}} :
        g[s] = [g[s \ {Max(s)}] EXCEPT ![rows[Max(s)].key] = rows[Max(s)].val]
  <2> SUFFICES ASSUME NEW s \in (SUBSET D) \ {{}}
               PROVE  g[s] = [g[s \ {Max(s)}] EXCEPT ![rows[Max(s)].key] = rows[Max(s)].val]
    OBVIOUS
  <2>1. Max(s) \in D /\ g[s \ {Max(s)}] \in X /\ last[s] = Max(s)
    BY <1>2
  <2>2. g[s] = F[<<Max(s), g[s \ {Max(s)}]>>]
    BY <1>4, <2>1 DEF IsFold
  <2> QED BY <2>1, <2>2
<1>6. Is(g)
  BY <1>4, <1>5 DEF IsFold
<1>7. Is(it)
  <2> HIDE DEF Is
  <2> QED BY <1>6
<1>8. SameSteps(it, g, D, last)
  <2> HIDE DEF it, last
  <2>1. it[{}] = g[{}]
    BY <1>6, <1>7
  <2>2. ASSUME NEW s \in (SUBSET D) \ {{}}, it[s \ {last[s]}] = g[s \ {last[s]}]
        PROVE  it[s] = g[s]
    <3>1. last[s] = Max(s)
      BY <1>2
    <3>2. it[s] = [it[s \ {Max(s)}] EXCEPT ![rows[Max(s)].key] = rows[Max(s)].val]
      BY <1>7
    <3> QED BY <1>5, <2>2, <3>1, <3>2
  <2> QED BY <2>1, <2>2 DEF SameSteps
<1>9. \A s \in SUBSET D : it[s] = g[s]
  <2>1. Takes(last, D)
    BY <1>2 DEF Takes
  <2> HIDE DEF it, D, last
  <2> QED BY <1>1, <1>8, <2>1, FoldAgrees
<1>10. ApplyRows(t, rows) = it[D]
  BY <1>1 DEF ApplyRows, FoldLeft, MapThenFoldSet, ApplyRow
<1>11. it[D] = g[D]
  <2> HIDE DEF it
  <2> QED BY <1>9
<1>12. LastFirst(g, t, rows)
  <2>1. g[{}] = t
    BY <1>6
  <2> HIDE DEF Is, it, last
  <2> QED BY <1>5, <2>1 DEF LastFirst, ApplyRow
<1> HIDE DEF it, Is, F, last
<1> QED BY <1>10, <1>11, <1>12

(* They leave a table a table.                                             *)
LEMMA ApplyRowsType ==
  ASSUME NEW t \in [Key -> Stored], NEW rows \in Seq(Change)
  PROVE  ApplyRows(t, rows) \in [Key -> Stored]
<1> DEFINE D == 1..Len(rows)
<1>1. PICK g \in [SUBSET D -> [Key -> Stored]] : ApplyRows(t, rows) = g[D]
  BY ApplyRowsIs
<1>2. D \in SUBSET D
  OBVIOUS
<1> HIDE DEF D
<1> QED BY <1>1, <1>2

(* Whatever is put together so is what they make.                          *)
LEMMA ApplyRowsOnly ==
  ASSUME NEW t \in [Key -> Stored], NEW rows \in Seq(Change), NEW h, LastFirst(h, t, rows)
  PROVE  ApplyRows(t, rows) = h[1..Len(rows)]
<1> DEFINE D == 1..Len(rows)
           last == [s \in (SUBSET D) |-> Max(s)]
<1>1. Len(rows) \in Nat /\ IsFiniteSet(D)
  BY UpTo
<1>2. \A s \in (SUBSET D) \ {{}} : last[s] = Max(s) /\ Max(s) \in s
  BY <1>1, Greatest
<1>3. PICK g : LastFirst(g, t, rows) /\ ApplyRows(t, rows) = g[D]
  BY ApplyRowsIs
<1>4. SameSteps(g, h, D, last)
  <2>1. g[{}] = h[{}]
    BY <1>3 DEF LastFirst
  <2>2. ASSUME NEW s \in (SUBSET D) \ {{}}, g[s \ {last[s]}] = h[s \ {last[s]}]
        PROVE  g[s] = h[s]
    <3>1. last[s] = Max(s)
      BY <1>2
    <3>2. g[s] = ApplyRow(g[s \ {Max(s)}], rows[Max(s)]) /\ h[s] = ApplyRow(h[s \ {Max(s)}], rows[Max(s)])
      BY <1>3 DEF LastFirst
    <3> HIDE DEF last
    <3> QED BY <2>2, <3>1, <3>2
  <2> HIDE DEF last, D
  <2> QED BY <2>1, <2>2 DEF SameSteps
<1>5. Takes(last, D)
  BY <1>2 DEF Takes
<1>6. D \in SUBSET D
  OBVIOUS
<1> HIDE DEF last, D
<1>7. g[D] = h[D]
  BY <1>1, <1>4, <1>5, <1>6, FoldAgrees
<1> QED BY <1>3, <1>7 DEF D

(* The last of the places up to n + 1.                                     *)
LEMMA LastUpTo ==
  ASSUME NEW n \in Nat
  PROVE  /\ Max(1..(n + 1)) = n + 1 /\ (1..(n + 1)) \ {n + 1} = 1..n
         /\ 1..(n + 1) # {} /\ SUBSET (1..n) \subseteq SUBSET (1..(n + 1))
<1>1. Max(1..(n + 1)) \in 1..(n + 1) /\ \A m \in 1..(n + 1) : m <= Max(1..(n + 1))
  <2>1. n + 1 \in Nat /\ 1..(n + 1) \in SUBSET (1..(n + 1)) /\ n + 1 \in 1..(n + 1)
    OBVIOUS
  <2> QED BY <2>1, Greatest
<1>2. Max(1..(n + 1)) = n + 1
  <2> DEFINE m == Max(1..(n + 1))
  <2>1. m \in 1..(n + 1) /\ n + 1 <= m
    BY <1>1
  <2> HIDE DEF m
  <2>2. m = n + 1
    BY <2>1
  <2> QED BY <2>2 DEF m
<1>3. n \in Int /\ n + 1 \in 1..(n + 1)
  OBVIOUS
<1>4. \A i : i \in 1..(n + 1) <=> i \in 1..n \/ i = n + 1
  BY <1>3
<1>5. n + 1 \notin 1..n
  BY <1>3
<1>6. (1..(n + 1)) \ {n + 1} = 1..n /\ 1..n \subseteq 1..(n + 1)
  BY <1>4, <1>5, Zenon
<1> QED BY <1>2, <1>3, <1>6

(* One row more.                                                           *)
LEMMA ApplyRowsNext ==
  ASSUME NEW t \in [Key -> Stored], NEW rows \in Seq(Change), NEW row \in Change
  PROVE  ApplyRows(t, Append(rows, row)) = ApplyRow(ApplyRows(t, rows), row)
<1> DEFINE n == Len(rows)
           more == Append(rows, row)
<1>1. n \in Nat /\ more \in Seq(Change) /\ Len(more) = n + 1 /\ more[n + 1] = row
      /\ \A i \in 1..n : more[i] = rows[i]
  OBVIOUS
<1> HIDE DEF more
<1>2. PICK g : LastFirst(g, t, more) /\ ApplyRows(t, more) = g[1..(n + 1)]
  BY <1>1, ApplyRowsIs
<1>3. LastFirst(g, t, rows)
  <2>1. ASSUME NEW s \in (SUBSET (1..n)) \ {{}}
        PROVE  g[s] = ApplyRow(g[s \ {Max(s)}], rows[Max(s)])
    <3>1. Max(s) \in 1..n
      BY <1>1, Greatest
    <3>2. s \in (SUBSET (1..Len(more))) \ {{}}
      BY <1>1
    <3>3. g[s] = ApplyRow(g[s \ {Max(s)}], more[Max(s)])
      BY <1>2, <3>2 DEF LastFirst
    <3> QED BY <1>1, <3>1, <3>3
  <2> QED BY <1>2, <2>1 DEF LastFirst
<1>4. ApplyRows(t, rows) = g[1..n]
  BY <1>3, ApplyRowsOnly
<1>5. g[1..(n + 1)] = ApplyRow(g[1..n], row)
  <2>1. 1..(n + 1) \in (SUBSET (1..Len(more))) \ {{}}
    BY <1>1, LastUpTo
  <2>2. g[1..(n + 1)] = ApplyRow(g[(1..(n + 1)) \ {Max(1..(n + 1))}], more[Max(1..(n + 1))])
    BY <1>2, <2>1 DEF LastFirst
  <2> HIDE DEF n
  <2> QED BY <1>1, <2>2, LastUpTo
<1> QED BY <1>2, <1>4, <1>5 DEF more

(***************************************************************************)
(* A key has the value its last row gives it, and without a row the one it *)
(* had.                                                                    *)
(***************************************************************************)
LEMMA ApplyRowsLast ==
  ASSUME NEW t \in [Key -> Stored], NEW rows \in Seq(Change), NEW k \in Key
  PROVE  /\ (\A i \in 1..Len(rows) : rows[i].key # k) => ApplyRows(t, rows)[k] = t[k]
         /\ \A i \in 1..Len(rows) :
              rows[i].key = k /\ (\A j \in (i + 1)..Len(rows) : rows[j].key # k)
                => ApplyRows(t, rows)[k] = rows[i].val
<1> DEFINE D == 1..Len(rows)
           Its(s, m) == {i \in s : rows[i].key = m}
           h == [s \in SUBSET D |-> [m \in Key |->
                   IF Its(s, m) = {} THEN t[m] ELSE rows[Max(Its(s, m))].val]]
<1>1. Len(rows) \in Nat
  OBVIOUS
<1>2. ASSUME NEW s \in (SUBSET D) \ {{}} PROVE h[s] = ApplyRow(h[s \ {Max(s)}], rows[Max(s)])
  <2> DEFINE l == Max(s)
             u == s \ {l}
  <2>1. l \in s /\ \A i \in s : i <= l
    BY <1>1, Greatest
  <2>2. u \in SUBSET D /\ s \in SUBSET D /\ l \in D /\ l \in Nat
    <3>1. s \in SUBSET D /\ \A i \in D : i \in Nat
      OBVIOUS
    <3> HIDE DEF D, l
    <3> QED BY <2>1, <3>1
  <2> HIDE DEF l
  <2>3. rows[l] \in Change
    BY <2>2
  <2>4. rows[l].key \in Key
    BY <2>3 DEF Change
  <2>5. ASSUME NEW m \in Key PROVE h[s][m] = IF m = rows[l].key THEN rows[l].val ELSE h[u][m]
    <3>1. CASE m = rows[l].key
      <4>1. l \in Its(s, m) /\ Its(s, m) \in SUBSET (1..Len(rows)) /\ Its(s, m) \subseteq s
        BY <2>1, <2>2, <3>1
      <4> DEFINE I == Its(s, m)
                 x == Max(I)
      <4>2. l \in I /\ I \in SUBSET (1..Len(rows)) /\ I \subseteq s /\ h[s][m] = rows[x].val
        BY <2>2, <4>1
      <4> HIDE DEF I
      <4>3. x \in I /\ l <= x
        BY <1>1, <4>2, Greatest
      <4>4. x = l
        <5> HIDE DEF x
        <5>1. x <= l /\ x \in Nat
          BY <2>1, <4>2, <4>3
        <5> QED BY <2>2, <4>3, <5>1
      <4> QED BY <3>1, <4>2, <4>4
    <3>2. CASE m # rows[l].key
      <4>1. Its(s, m) = Its(u, m)
        BY <3>2
      <4> QED BY <2>2, <3>2, <4>1
    <3> QED BY <3>1, <3>2, SMTT(30)
  <2>6. h[s] \in [Key -> {h[s][m] : m \in Key}] /\ h[u] \in [Key -> {h[u][m] : m \in Key}]
    BY <2>2
  <2> HIDE DEF h, u
  <2>7. h[s] = [h[u] EXCEPT ![rows[l].key] = rows[l].val]
    BY <2>4, <2>5, <2>6
  <2> QED BY <2>7 DEF ApplyRow, l, u
<1>3. LastFirst(h, t, rows)
  <2>1. h[{}] = t
    <3>1. h[{}] = [m \in Key |-> t[m]]
      OBVIOUS
    <3> QED BY <3>1
  <2> HIDE DEF h
  <2> QED BY <1>2, <2>1 DEF LastFirst
<1>4. ApplyRows(t, rows) = h[D]
  <2> HIDE DEF h
  <2> QED BY <1>3, ApplyRowsOnly
<1>5. h[D][k] = IF Its(D, k) = {} THEN t[k] ELSE rows[Max(Its(D, k))].val
  OBVIOUS
<1> HIDE DEF h
<1>6. ASSUME NEW i \in 1..Len(rows), rows[i].key = k, \A j \in (i + 1)..Len(rows) : rows[j].key # k
      PROVE  ApplyRows(t, rows)[k] = rows[i].val
  <2> DEFINE I == Its(D, k)
             x == Max(I)
  <2>1. i \in I /\ I \in SUBSET (1..Len(rows)) /\ h[D][k] = rows[x].val
        /\ \A j \in I : j \in 1..Len(rows) /\ rows[j].key = k
    BY <1>5, <1>6
  <2> HIDE DEF I
  <2>2. x \in I /\ i <= x
    BY <1>1, <2>1, Greatest
  <2> HIDE DEF x
  <2>3. x = i
    BY <1>1, <1>6, <2>1, <2>2, SMTT(30)
  <2> QED BY <1>4, <2>1, <2>3
<1> QED BY <1>4, <1>5, <1>6


(* The changes of a transaction, in any order.                             *)
OneOf(s) == CHOOSE row \in s : TRUE

AnyFirst(g, t, C) ==
  /\ g[{}] = t
  /\ \A s \in (SUBSET C) \ {{}} : g[s] = ApplyRow(g[s \ {OneOf(s)}], OneOf(s))

LEMMA AppliedToIs ==
  ASSUME NEW t \in [Key -> Stored], NEW C \in SUBSET Change, IsFiniteSet(C)
  PROVE  \E g \in [SUBSET C -> [Key -> Stored]] : AnyFirst(g, t, C) /\ AppliedTo(t, C) = g[C]
<1> DEFINE X == [Key -> Stored]
           any == [s \in SUBSET C |-> CHOOSE row \in s : TRUE]
           F == [p \in C \X X |-> [p[2] EXCEPT ![p[1].key] = p[1].val]]
           Of(c, s) == [c[s \ {CHOOSE row \in s : TRUE}]
                          EXCEPT ![(CHOOSE row \in s : TRUE).key] = (CHOOSE row \in s : TRUE).val]
           Is(c) == c = [s \in SUBSET C |-> IF s = {} THEN t ELSE Of(c, s)]
           it == CHOOSE c : Is(c)
<1>1. \A s \in (SUBSET C) \ {{}} : any[s] = (CHOOSE row \in s : TRUE) /\ any[s] \in s /\ any[s] \in C
  OBVIOUS
<1>2. F \in [C \X X -> X]
  <2>1. ASSUME NEW row \in C, NEW x \in X
        PROVE  [x EXCEPT ![row.key] = row.val] \in X
    <3>1. row.key \in Key /\ row.val \in Stored
      BY DEF Change
    <3> QED BY <3>1
  <2> QED BY <2>1
<1>3. t \in X /\ Takes(any, C)
  BY <1>1 DEF Takes
<1>4. PICK g \in [SUBSET C -> X] : IsFold(g, C, t, any, F)
  <2> HIDE DEF F, X, any
  <2> QED BY <1>2, <1>3, FoldExists
<1>5. ASSUME NEW s \in (SUBSET C) \ {{}} PROVE g[s] = Of(g, s)
  <2>1. any[s] \in C /\ g[s \ {any[s]}] \in X
    BY <1>1
  <2>2. g[s] = F[<<any[s], g[s \ {any[s]}]>>]
    BY <1>4, <2>1 DEF IsFold
  <2>3. g[s] = [g[s \ {any[s]}] EXCEPT ![any[s].key] = any[s].val]
    BY <2>1, <2>2
  <2> QED BY <1>1, <2>3
<1>6. Is(g)
  <2> HIDE DEF Of
  <2>1. g[{}] = t
    BY <1>4 DEF IsFold
  <2>2. \A s \in SUBSET C : g[s] = IF s = {} THEN t ELSE Of(g, s)
    BY <1>5, <2>1
  <2> QED BY <2>2
<1>7. Is(it)
  <2> HIDE DEF Is
  <2> QED BY <1>6
<1>8. SameSteps(it, g, C, any)
  <2> HIDE DEF it, any, Of
  <2>1. it[{}] = g[{}]
    BY <1>6, <1>7
  <2>2. ASSUME NEW s \in (SUBSET C) \ {{}}, it[s \ {any[s]}] = g[s \ {any[s]}]
        PROVE  it[s] = g[s]
    <3>1. it[s] = Of(it, s)
      BY <1>7
    <3>2. Of(it, s) = Of(g, s)
      BY <1>1, <2>2 DEF Of
    <3> QED BY <1>5, <3>1, <3>2
  <2> QED BY <2>1, <2>2 DEF SameSteps
<1>9. \A s \in SUBSET C : it[s] = g[s]
  <2> HIDE DEF it, any
  <2> QED BY <1>3, <1>8, FoldAgrees
<1>10. AppliedTo(t, C) = it[C]
  BY DEF AppliedTo, FoldSet, MapThenFoldSet, ApplyRow
<1>11. it[C] = g[C]
  <2> HIDE DEF it
  <2> QED BY <1>9
<1>12. AnyFirst(g, t, C)
  <2>1. g[{}] = t
    BY <1>4 DEF IsFold
  <2>2. ASSUME NEW s \in (SUBSET C) \ {{}} PROVE g[s] = ApplyRow(g[s \ {OneOf(s)}], OneOf(s))
    BY <1>5 DEF OneOf, ApplyRow
  <2> QED BY <2>1, <2>2 DEF AnyFirst
<1> HIDE DEF it, Is, F, any, Of
<1> QED BY <1>10, <1>11, <1>12

(* They leave a table a table.                                             *)
LEMMA AppliedToType ==
  ASSUME NEW t \in [Key -> Stored], NEW C \in SUBSET Change, IsFiniteSet(C)
  PROVE  AppliedTo(t, C) \in [Key -> Stored]
<1>1. PICK g \in [SUBSET C -> [Key -> Stored]] : AppliedTo(t, C) = g[C]
  BY AppliedToIs
<1>2. C \in SUBSET C
  OBVIOUS
<1> QED BY <1>1, <1>2

(* With one change for a key at the most, its value is that change's.      *)
LEMMA AppliedToEach ==
  ASSUME NEW t \in [Key -> Stored], NEW C \in SUBSET Change, IsFiniteSet(C),
         \A r, q \in C : r.key = q.key => r = q, NEW k \in Key
  PROVE  /\ (\A row \in C : row.key # k) => AppliedTo(t, C)[k] = t[k]
         /\ \A row \in C : row.key = k => AppliedTo(t, C)[k] = row.val
<1> DEFINE any == [s \in SUBSET C |-> OneOf(s)]
           Its(s, m) == {row \in s : row.key = m}
           h == [s \in SUBSET C |-> [m \in Key |->
                   IF Its(s, m) = {} THEN t[m] ELSE OneOf(Its(s, m)).val]]
<1>1. PICK g \in [SUBSET C -> [Key -> Stored]] : AnyFirst(g, t, C) /\ AppliedTo(t, C) = g[C]
  BY AppliedToIs
<1>2. \A s \in (SUBSET C) \ {{}} : any[s] = OneOf(s) /\ OneOf(s) \in s
  BY DEF OneOf
<1>3. ASSUME NEW s \in (SUBSET C) \ {{}} PROVE h[s] = ApplyRow(h[s \ {OneOf(s)}], OneOf(s))
  <2> DEFINE l == OneOf(s)
             u == s \ {l}
  <2>1. l \in s /\ l \in C /\ u \in SUBSET C /\ s \in SUBSET C
    BY <1>2
  <2>2. l.key \in Key
    BY <2>1 DEF Change
  <2> HIDE DEF l
  <2>3. ASSUME NEW m \in Key PROVE h[s][m] = IF m = l.key THEN l.val ELSE h[u][m]
    <3>1. CASE m = l.key
      <4>1. Its(s, m) = {l}
        BY <2>1, <3>1
      <4>2. OneOf({l}) = l
        BY DEF OneOf
      <4>3. h[s][m] = IF Its(s, m) = {} THEN t[m] ELSE OneOf(Its(s, m)).val
        BY <2>1
      <4> HIDE DEF Its, h
      <4> QED BY <3>1, <4>1, <4>2, <4>3
    <3>2. CASE m # l.key
      <4>1. Its(s, m) = Its(u, m)
        BY <3>2
      <4> QED BY <2>1, <3>2, <4>1
    <3> QED BY <3>1, <3>2
  <2>4. h[s] \in [Key -> {h[s][m] : m \in Key}] /\ h[u] \in [Key -> {h[u][m] : m \in Key}]
    BY <2>1
  <2> HIDE DEF h, u
  <2>5. h[s] = [h[u] EXCEPT ![l.key] = l.val]
    BY <2>2, <2>3, <2>4
  <2> QED BY <2>5 DEF ApplyRow, l, u
<1>4. SameSteps(g, h, C, any)
  <2>1. g[{}] = h[{}]
    <3>1. h[{}] = [m \in Key |-> t[m]]
      OBVIOUS
    <3> HIDE DEF h
    <3> QED BY <1>1, <3>1 DEF AnyFirst
  <2>2. ASSUME NEW s \in (SUBSET C) \ {{}}, g[s \ {any[s]}] = h[s \ {any[s]}]
        PROVE  g[s] = h[s]
    <3>1. any[s] = OneOf(s)
      BY <1>2
    <3> HIDE DEF any, h
    <3> QED BY <1>1, <1>3, <2>2, <3>1 DEF AnyFirst
  <2> HIDE DEF any, h
  <2> QED BY <2>1, <2>2 DEF SameSteps
<1>5. AppliedTo(t, C) = h[C]
  <2>1. Takes(any, C) /\ C \in SUBSET C
    BY <1>2 DEF Takes
  <2> HIDE DEF any, h
  <2>2. g[C] = h[C]
    BY <1>4, <2>1, FoldAgrees
  <2> QED BY <1>1, <2>2
<1>6. h[C][k] = IF Its(C, k) = {} THEN t[k] ELSE OneOf(Its(C, k)).val
  OBVIOUS
<1> HIDE DEF h
<1>7. ASSUME NEW row \in C, row.key = k PROVE AppliedTo(t, C)[k] = row.val
  <2>1. Its(C, k) = {row}
    BY <1>7
  <2>2. OneOf({row}) = row
    BY DEF OneOf
  <2> HIDE DEF Its
  <2> QED BY <1>5, <1>6, <2>1, <2>2
<1> QED BY <1>5, <1>6, <1>7


(***************************************************************************)
(* Sealed segments, replayed on an empty table.                            *)
(***************************************************************************)
Segments == {Segment(rows) : rows \in Seq(Change) \ {<<>>}}

LEMMA SegmentRows == \A s \in Segments : s.rows \in Seq(Change) \ {<<>>}
BY DEF Segments, Segment

LastReplayed(g, segments) ==
  /\ g[{}] = NoRows
  /\ \A s \in (SUBSET (1..Len(segments))) \ {{}} :
       g[s] = ApplyRows(g[s \ {Max(s)}], segments[Max(s)].rows)

LEMMA ReplayIs ==
  ASSUME NEW segments \in Seq(Segments)
  PROVE  \E g \in [SUBSET (1..Len(segments)) -> [Key -> Stored]] :
           LastReplayed(g, segments) /\ Replay(segments) = g[1..Len(segments)]
<1> DEFINE D == 1..Len(segments)
           X == [Key -> Stored]
           last == [s \in (SUBSET D) |-> Max(s)]
           F == [p \in D \X X |-> ApplyRows(p[2], segments[p[1]].rows)]
           Of(c, s) == ApplyRows(c[s \ {Max(s)}], segments[Max(s)].rows)
           Is(c) == c = [s \in SUBSET D |-> IF s = {} THEN NoRows ELSE Of(c, s)]
           it == CHOOSE c : Is(c)
<1>1. Len(segments) \in Nat /\ IsFiniteSet(D) /\ DOMAIN segments = D
  BY UpTo
<1>2. \A s \in (SUBSET D) \ {{}} : last[s] = Max(s) /\ Max(s) \in s /\ Max(s) \in D
  BY <1>1, Greatest
<1>3. F \in [D \X X -> X]
  <2>1. ASSUME NEW i \in D, NEW x \in X
        PROVE  ApplyRows(x, segments[i].rows) \in X
    <3>1. segments[i].rows \in Seq(Change)
      BY SegmentRows
    <3> QED BY <3>1, ApplyRowsType
  <2> QED BY <2>1
<1>4. NoRows \in X /\ Takes(last, D)
  BY <1>2 DEF Takes, NoRows, Stored, Row
<1>5. PICK g \in [SUBSET D -> X] : IsFold(g, D, NoRows, last, F)
  <2> HIDE DEF F, D, X, last
  <2> QED BY <1>1, <1>3, <1>4, FoldExists
<1>6. ASSUME NEW s \in (SUBSET D) \ {{}} PROVE g[s] = Of(g, s)
  <2>1. Max(s) \in D /\ g[s \ {Max(s)}] \in X /\ last[s] = Max(s)
    BY <1>2
  <2>2. g[s] = F[<<Max(s), g[s \ {Max(s)}]>>]
    BY <1>5, <2>1 DEF IsFold
  <2> QED BY <2>1, <2>2
<1>7. Is(g)
  BY <1>5, <1>6 DEF IsFold
<1>8. Is(it)
  <2> HIDE DEF Is
  <2> QED BY <1>7
<1>9. SameSteps(it, g, D, last)
  <2> HIDE DEF it, last, Of
  <2>1. it[{}] = g[{}]
    BY <1>7, <1>8
  <2>2. ASSUME NEW s \in (SUBSET D) \ {{}}, it[s \ {last[s]}] = g[s \ {last[s]}]
        PROVE  it[s] = g[s]
    <3>1. it[s] = Of(it, s)
      BY <1>8
    <3>2. Of(it, s) = Of(g, s)
      BY <1>2, <2>2 DEF Of
    <3> QED BY <1>6, <3>1, <3>2
  <2> QED BY <2>1, <2>2 DEF SameSteps
<1>10. \A s \in SUBSET D : it[s] = g[s]
  <2> HIDE DEF it, D, last
  <2> QED BY <1>1, <1>4, <1>9, FoldAgrees
<1>11. Replay(segments) = it[D]
  BY <1>1 DEF Replay, FoldLeft, MapThenFoldSet
<1>12. it[D] = g[D]
  <2> HIDE DEF it
  <2> QED BY <1>10
<1>13. LastReplayed(g, segments)
  <2>1. g[{}] = NoRows
    BY <1>7
  <2> HIDE DEF Is, it, last
  <2> QED BY <1>6, <2>1 DEF LastReplayed
<1> HIDE DEF it, Is, F, last, Of
<1> QED BY <1>11, <1>12, <1>13

LEMMA ReplayType ==
  ASSUME NEW segments \in Seq(Segments)
  PROVE  Replay(segments) \in [Key -> Stored]
<1> DEFINE D == 1..Len(segments)
<1>1. PICK g \in [SUBSET D -> [Key -> Stored]] : Replay(segments) = g[D]
  BY ReplayIs
<1>2. D \in SUBSET D
  OBVIOUS
<1> HIDE DEF D
<1> QED BY <1>1, <1>2

LEMMA ReplayOnly ==
  ASSUME NEW segments \in Seq(Segments), NEW h, LastReplayed(h, segments)
  PROVE  Replay(segments) = h[1..Len(segments)]
<1> DEFINE D == 1..Len(segments)
           last == [s \in (SUBSET D) |-> Max(s)]
<1>1. Len(segments) \in Nat /\ IsFiniteSet(D)
  BY UpTo
<1>2. \A s \in (SUBSET D) \ {{}} : last[s] = Max(s) /\ Max(s) \in s
  BY <1>1, Greatest
<1>3. PICK g : LastReplayed(g, segments) /\ Replay(segments) = g[D]
  BY ReplayIs
<1>4. SameSteps(g, h, D, last)
  <2>1. g[{}] = h[{}]
    BY <1>3 DEF LastReplayed
  <2>2. ASSUME NEW s \in (SUBSET D) \ {{}}, g[s \ {last[s]}] = h[s \ {last[s]}]
        PROVE  g[s] = h[s]
    <3>1. last[s] = Max(s)
      BY <1>2
    <3>2. /\ g[s] = ApplyRows(g[s \ {Max(s)}], segments[Max(s)].rows)
          /\ h[s] = ApplyRows(h[s \ {Max(s)}], segments[Max(s)].rows)
      BY <1>3 DEF LastReplayed
    <3> HIDE DEF last
    <3> QED BY <2>2, <3>1, <3>2
  <2> HIDE DEF last, D
  <2> QED BY <2>1, <2>2 DEF SameSteps
<1>5. Takes(last, D)
  BY <1>2 DEF Takes
<1>6. D \in SUBSET D
  OBVIOUS
<1> HIDE DEF last, D
<1>7. g[D] = h[D]
  BY <1>1, <1>4, <1>5, <1>6, FoldAgrees
<1> QED BY <1>3, <1>7 DEF D

(* One segment more.                                                       *)
LEMMA ReplayNext ==
  ASSUME NEW segments \in Seq(Segments), NEW segment \in Segments
  PROVE  Replay(Append(segments, segment)) = ApplyRows(Replay(segments), segment.rows)
<1> DEFINE n == Len(segments)
           more == Append(segments, segment)
<1>1. n \in Nat /\ more \in Seq(Segments) /\ Len(more) = n + 1 /\ more[n + 1] = segment
      /\ \A i \in 1..n : more[i] = segments[i]
  OBVIOUS
<1> HIDE DEF more
<1>2. PICK g : LastReplayed(g, more) /\ Replay(more) = g[1..(n + 1)]
  BY <1>1, ReplayIs
<1>3. LastReplayed(g, segments)
  <2>1. ASSUME NEW s \in (SUBSET (1..n)) \ {{}}
        PROVE  g[s] = ApplyRows(g[s \ {Max(s)}], segments[Max(s)].rows)
    <3>1. Max(s) \in 1..n
      BY <1>1, Greatest
    <3>2. s \in (SUBSET (1..Len(more))) \ {{}}
      BY <1>1
    <3>3. g[s] = ApplyRows(g[s \ {Max(s)}], more[Max(s)].rows)
      BY <1>2, <3>2 DEF LastReplayed
    <3> QED BY <1>1, <3>1, <3>3
  <2> QED BY <1>2, <2>1 DEF LastReplayed
<1>4. Replay(segments) = g[1..n]
  BY <1>3, ReplayOnly
<1>5. g[1..(n + 1)] = ApplyRows(g[1..n], segment.rows)
  <2>1. 1..(n + 1) \in (SUBSET (1..Len(more))) \ {{}}
    BY <1>1, LastUpTo
  <2>2. g[1..(n + 1)] =
          ApplyRows(g[(1..(n + 1)) \ {Max(1..(n + 1))}], more[Max(1..(n + 1))].rows)
    BY <1>2, <2>1 DEF LastReplayed
  <2> HIDE DEF n
  <2> QED BY <1>1, <2>2, LastUpTo
<1> QED BY <1>2, <1>4, <1>5 DEF more

(* Segments that hold a table's rows, and nothing else, leave that table.  *)
RowsOf(segments, t) ==
  \A j \in 1..Len(segments) : \A i \in 1..Len(segments[j].rows) :
    segments[j].rows[i].val = t[segments[j].rows[i].key]

AllRowsOf(segments, t) ==
  \A k \in Key : t[k] # NoRow =>
    \E j \in 1..Len(segments) : \E i \in 1..Len(segments[j].rows) : segments[j].rows[i].key = k

LEMMA ReplayOf ==
  ASSUME NEW segments \in Seq(Segments), NEW t \in [Key -> Stored],
         RowsOf(segments, t), AllRowsOf(segments, t)
  PROVE  Replay(segments) = t
<1> DEFINE D == 1..Len(segments)
           Holding(j, k) == \E i \in 1..Len(segments[j].rows) : segments[j].rows[i].key = k
           h == [s \in SUBSET D |-> [k \in Key |->
                   IF \E j \in s : Holding(j, k) THEN t[k] ELSE NoRow]]
<1>1. Len(segments) \in Nat
  OBVIOUS
<1>2. ASSUME NEW s \in SUBSET D PROVE h[s] \in [Key -> Stored]
  BY DEF Stored, Row
<1>3. ASSUME NEW s \in (SUBSET D) \ {{}}
      PROVE  h[s] = ApplyRows(h[s \ {Max(s)}], segments[Max(s)].rows)
  <2> DEFINE l == Max(s)
             u == s \ {l}
             rows == segments[l].rows
  <2>1. l \in s /\ l \in D /\ u \in SUBSET D /\ s \in SUBSET D
    BY <1>1, Greatest
  <2>2. rows \in Seq(Change)
    BY <2>1, SegmentRows
  <2>3. h[u] \in [Key -> Stored] /\ h[s] \in [Key -> Stored]
    BY <1>2, <2>1
  <2> HIDE DEF l
  <2>4. ASSUME NEW k \in Key PROVE h[s][k] = ApplyRows(h[u], rows)[k]
    <3>1. CASE Holding(l, k)
      <4> DEFINE I == {i \in 1..Len(rows) : rows[i].key = k}
                 x == Max(I)
      <4>0. Len(rows) \in Nat /\ \E i \in 1..Len(rows) : rows[i].key = k
        <5>1. Len(rows) \in Nat
          BY <2>2, SMTT(30)
        <5> QED BY <3>1, <5>1
      <4> HIDE DEF rows
      <4>1. I # {} /\ I \in SUBSET (1..Len(rows)) /\ Len(rows) \in Nat
            /\ (\A i \in I : i \in 1..Len(rows) /\ rows[i].key = k)
            /\ (\A i \in 1..Len(rows) : rows[i].key = k => i \in I)
        BY <4>0
      <4> HIDE DEF I
      <4>2. x \in I /\ \A i \in I : i <= x
        BY <4>1, Greatest
      <4> HIDE DEF x
      <4>7. x \in 1..Len(rows) /\ rows[x].key = k
        BY <4>1, <4>2
      <4>8. ASSUME NEW j \in (x + 1)..Len(rows) PROVE rows[j].key # k
        <5>1. j \in 1..Len(rows) /\ ~(j <= x)
          BY <4>1, <4>7
        <5> QED BY <4>1, <4>2, <5>1
      <4>3. x \in 1..Len(rows) /\ rows[x].key = k /\ \A j \in (x + 1)..Len(rows) : rows[j].key # k
        BY <4>7, <4>8
      <4> HIDE DEF h, u
      <4>4. ApplyRows(h[u], rows)[k] = rows[x].val
        <5> DEFINE y == h[u]
        <5>1. y \in [Key -> Stored]
          BY <2>3
        <5> HIDE DEF y
        <5>2. ApplyRows(y, rows)[k] = rows[x].val
          BY <2>2, <4>3, <5>1, ApplyRowsLast, SMTT(30)
        <5> QED BY <5>2 DEF y
      <4>5. rows[x].val = t[k]
        BY <2>1, <4>3 DEF rows, RowsOf
      <4>6. h[s][k] = t[k]
        BY <2>1, <3>1 DEF h
      <4> QED BY <4>4, <4>5, <4>6
    <3>2. CASE ~Holding(l, k)
      <4>1. \A i \in 1..Len(rows) : rows[i].key # k
        BY <3>2
      <4>2. h[s][k] = h[u][k]
        <5>1. (\E j \in s : Holding(j, k)) <=> (\E j \in u : Holding(j, k))
          BY <3>2
        <5> QED BY <2>1, <5>1
      <4> HIDE DEF h, u, rows
      <4>3. ApplyRows(h[u], rows)[k] = h[u][k]
        <5> DEFINE y == h[u]
        <5>1. y \in [Key -> Stored]
          BY <2>3
        <5> HIDE DEF y
        <5>2. ApplyRows(y, rows)[k] = y[k]
          BY <2>2, <4>1, <5>1, ApplyRowsLast, ZenonT(60)
        <5> QED BY <5>2 DEF y
      <4> QED BY <4>2, <4>3
    <3> QED BY <3>1, <3>2
  <2> HIDE DEF h, u, rows
  <2>5. ApplyRows(h[u], rows) \in [Key -> Stored]
    BY <2>2, <2>3, ApplyRowsType
  <2>6. h[s] = ApplyRows(h[u], rows)
    <3> DEFINE x == h[s]
               y == ApplyRows(h[u], rows)
    <3>1. x \in [Key -> Stored] /\ y \in [Key -> Stored] /\ \A k \in Key : x[k] = y[k]
      BY <2>3, <2>4, <2>5
    <3> HIDE DEF x, y
    <3>2. x = y
      BY <3>1, SMTT(30)
    <3> QED BY <3>2 DEF x, y
  <2> QED BY <2>6 DEF l, u, rows
<1>4. LastReplayed(h, segments)
  <2>1. h[{}] = NoRows
    BY DEF NoRows
  <2> HIDE DEF h
  <2> QED BY <1>3, <2>1 DEF LastReplayed
<1>5. Replay(segments) = h[D]
  <2> HIDE DEF h
  <2> QED BY <1>4, ReplayOnly
<1>6. \A k \in Key : h[D][k] = t[k]
  BY DEF AllRowsOf
<1>7. h[D] \in [Key -> Stored]
  BY <1>2
<1> HIDE DEF h
<1>8. h[D] = t
  <2> DEFINE x == h[D]
  <2>1. x \in [Key -> Stored] /\ \A k \in Key : x[k] = t[k]
    BY <1>6, <1>7
  <2> HIDE DEF x
  <2>2. x = t
    BY <2>1, SMTT(30)
  <2> QED BY <2>2 DEF x
<1> QED BY <1>5, <1>8


(* A manifest of a snapshot holds segments.                                *)
LEMMA PushType ==
  ASSUME NEW entries \in Seq(Segments), NEW s \in Segments
  PROVE  Push(entries, s) \in Seq(Segments)
<1> DEFINE pos == SelectInSeq(entries, LAMBDA e : e.lo >= s.lo)
           at == IF pos = 0 THEN Len(entries) + 1 ELSE pos
           I == {i \in 1..Len(entries) : entries[i].lo >= s.lo}
<1>1. pos = IF I # {} THEN Min(I) ELSE 0
  BY DEF SelectInSeq
<1>2. I # {} => Min(I) \in 1..Len(entries)
  <2> SUFFICES ASSUME I # {} PROVE Min(I) \in I
    OBVIOUS
  <2>1. I \in SUBSET Nat
    OBVIOUS
  <2>2. PICK n \in I : \A m \in I : n <= m
    <3> HIDE DEF I
    <3> QED BY <2>1, Least
  <2> HIDE DEF I
  <2> QED BY <2>2 DEF Min
<1>3. at \in 1..(Len(entries) + 1)
  <2> HIDE DEF I, pos
  <2>1. Len(entries) \in Nat
    OBVIOUS
  <2> QED BY <1>1, <1>2, <2>1
<1> HIDE DEF at
<1>4. SubSeq(entries, 1, at - 1) \in Seq(Segments) /\ SubSeq(entries, at, Len(entries)) \in Seq(Segments)
  BY <1>3, SMTT(30)
<1>5. <<s>> \in Seq(Segments)
  OBVIOUS
<1>6. InsertAt(entries, at, s) \in Seq(Segments)
  BY <1>4, <1>5, SMTT(30) DEF InsertAt
<1> QED BY <1>6 DEF Push, at

LEMMA ManifestType ==
  ASSUME NEW segments \in Seq(Segments)
  PROVE  ManifestOf(segments) \in Seq(Segments)
<1> DEFINE D == 1..Len(segments)
           X == Seq(Segments)
           last == [s \in (SUBSET D) |-> Max(s)]
           F == [p \in D \X X |-> Push(p[2], segments[p[1]])]
           Of(c, s) == Push(c[s \ {Max(s)}], segments[Max(s)])
           Is(c) == c = [s \in SUBSET D |-> IF s = {} THEN <<>> ELSE Of(c, s)]
           it == CHOOSE c : Is(c)
<1>1. Len(segments) \in Nat /\ IsFiniteSet(D) /\ DOMAIN segments = D
  BY UpTo
<1>2. \A s \in (SUBSET D) \ {{}} : last[s] = Max(s) /\ Max(s) \in s /\ Max(s) \in D
  BY <1>1, Greatest
<1>3. F \in [D \X X -> X]
  <2>1. ASSUME NEW i \in D, NEW x \in X
        PROVE  Push(x, segments[i]) \in X
    <3>1. segments[i] \in Segments
      BY <1>1
    <3> QED BY <3>1, PushType
  <2> QED BY <2>1
<1>4. <<>> \in X /\ Takes(last, D)
  <2>1. <<>> \in X
    OBVIOUS
  <2>2. Takes(last, D)
    BY <1>2 DEF Takes
  <2> QED BY <2>1, <2>2
<1>5. PICK g \in [SUBSET D -> X] : IsFold(g, D, <<>>, last, F)
  <2> HIDE DEF F, D, X, last
  <2> QED BY <1>1, <1>3, <1>4, FoldExists
<1>6. ASSUME NEW s \in (SUBSET D) \ {{}} PROVE g[s] = Of(g, s)
  <2>1. Max(s) \in D /\ g[s \ {Max(s)}] \in X /\ last[s] = Max(s)
    BY <1>2
  <2>2. g[s] = F[<<Max(s), g[s \ {Max(s)}]>>]
    BY <1>5, <2>1 DEF IsFold
  <2> QED BY <2>1, <2>2
<1>7. Is(g)
  BY <1>5, <1>6 DEF IsFold
<1>8. Is(it)
  <2> HIDE DEF Is
  <2> QED BY <1>7
<1>9. SameSteps(it, g, D, last)
  <2> HIDE DEF it, last, Of
  <2>1. it[{}] = g[{}]
    BY <1>7, <1>8
  <2>2. ASSUME NEW s \in (SUBSET D) \ {{}}, it[s \ {last[s]}] = g[s \ {last[s]}]
        PROVE  it[s] = g[s]
    <3>1. it[s] = Of(it, s)
      BY <1>8
    <3>2. Of(it, s) = Of(g, s)
      BY <1>2, <2>2 DEF Of
    <3> QED BY <1>6, <3>1, <3>2
  <2> QED BY <2>1, <2>2 DEF SameSteps
<1>10. \A s \in SUBSET D : it[s] = g[s]
  <2> HIDE DEF it, D, last
  <2> QED BY <1>1, <1>4, <1>9, FoldAgrees
<1>11. ManifestOf(segments) = it[D]
  BY <1>1 DEF ManifestOf, FoldLeft, MapThenFoldSet
<1>12. it[D] \in X
  <2> HIDE DEF it, X
  <2> QED BY <1>10
<1> QED BY <1>11, <1>12

LEMMA Divided ==
  ASSUME NEW a \in Nat, NEW n \in Nat \ {0}
  PROVE  a \div n \in Nat /\ n * (a \div n) <= a /\ a < n * (a \div n) + n
OBVIOUS

(***************************************************************************)
(* A baseline is cut into segments none of which is empty.                 *)
(***************************************************************************)
LEMMA Cuts ==
  ASSUME NEW l \in Nat, NEW n \in Nat \ {0}, NEW j \in 1..((l + n - 1) \div n)
  PROVE  (j - 1) * n \in Nat /\ (j - 1) * n < l /\ j \in Nat
<1> DEFINE q == (l + n - 1) \div n
<1>1. q \in Int /\ q * n <= l + n - 1
  OBVIOUS
<1>2. j \in Nat /\ j >= 1 /\ j <= q
  BY <1>1
<1> HIDE DEF q
<1>3. j * n <= q * n
  BY <1>1, <1>2
<1>4. (j - 1) * n = j * n - n
  BY <1>2
<1>5. (j - 1) * n \in Nat
  BY <1>2
<1>6. j * n \in Int /\ q * n \in Int
  BY <1>1, <1>2
<1> QED BY <1>1, <1>2, <1>3, <1>4, <1>5, <1>6

End(rows, j) == IF j * SealAt < Len(rows) THEN j * SealAt ELSE Len(rows)
Piece(rows, j) == SubSeq(rows, (j - 1) * SealAt + 1, End(rows, j))
Pieces(rows) ==
  [j \in 1..((Len(rows) + SealAt - 1) \div SealAt) |-> Segment(Piece(rows, j))]

LEMMA PieceIs ==
  ASSUME NEW rows \in Seq(Change), NEW j \in 1..((Len(rows) + SealAt - 1) \div SealAt)
  PROVE  /\ (j - 1) * SealAt \in Nat
         /\ Piece(rows, j) \in Seq(Change)
         /\ Len(Piece(rows, j)) \in Nat \ {0}
         /\ Len(Piece(rows, j)) = End(rows, j) - (j - 1) * SealAt
         /\ \A i \in 1..Len(Piece(rows, j)) :
              /\ (j - 1) * SealAt + i \in 1..Len(rows)
              /\ Piece(rows, j)[i] = rows[(j - 1) * SealAt + i]
<1> DEFINE l == Len(rows)
           n == SealAt
           b == (j - 1) * n
           e == End(rows, j)
<1>1. l \in Nat /\ n \in Nat \ {0}
  OBVIOUS
<1>2. b \in Nat /\ b < l /\ j \in Nat
  <2> HIDE DEF l, n
  <2> QED BY <1>1, Cuts DEF l, n
<1>3. j * n = b + n
  BY <1>1, <1>2
<1>4. e \in 1..l /\ b + 1 \in 1..e
  <2>1. e = IF b + n < l THEN b + n ELSE l
    BY <1>3 DEF End
  <2> HIDE DEF b, n, l, e
  <2> QED BY <1>1, <1>2, <2>1
<1> DEFINE q == Piece(rows, j)
<1>5. q = SubSeq(rows, b + 1, e)
  BY DEF Piece
<1> HIDE DEF b, e, q, l, n
<1>6. q \in Seq(Change) /\ Len(q) = e - b
      /\ \A i \in 1..Len(q) : b + i \in 1..l /\ q[i] = rows[b + i]
  <2>1. rows \in Seq(Change) /\ l = Len(rows)
    BY DEF l
  <2> QED BY <1>1, <1>2, <1>4, <1>5, <2>1, SMTT(30)
<1>7. Len(q) \in Nat \ {0}
  BY <1>2, <1>4, <1>6, <1>1
<1> QED BY <1>2, <1>6, <1>7 DEF b, e, q, l, n

(* Every row is in a piece.                                                *)
LEMMA InPiece ==
  ASSUME NEW rows \in Seq(Change), NEW i \in 1..Len(rows)
  PROVE  \E j \in 1..((Len(rows) + SealAt - 1) \div SealAt) :
           \E m \in 1..Len(Piece(rows, j)) : Piece(rows, j)[m] = rows[i]
<1> DEFINE l == Len(rows)
           n == SealAt
           d == (i - 1) \div n
           q == (l + n - 1) \div n
           j == d + 1
           b == d * n
<1>1. l \in Nat /\ n \in Nat \ {0} /\ i \in 1..l
  OBVIOUS
<1>2. d \in Nat /\ n * d <= i - 1 /\ i - 1 < n * d + n
  <2> DEFINE a == i - 1
  <2>1. a \in Nat
    BY <1>1
  <2> HIDE DEF l, n, a
  <2>2. a \div n \in Nat /\ n * (a \div n) <= a /\ a < n * (a \div n) + n
    BY <1>1, <2>1, Divided
  <2> QED BY <2>2 DEF a
<1>3. q \in Nat /\ l + n - 1 < n * q + n
  <2> DEFINE a == l + n - 1
  <2>1. a \in Nat
    BY <1>1
  <2> HIDE DEF l, n, a
  <2>2. a \div n \in Nat /\ a < n * (a \div n) + n
    BY <1>1, <2>1, Divided
  <2> QED BY <2>2 DEF a
<1> HIDE DEF d, q
<1>4. b \in Nat /\ b = n * d /\ (j - 1) * SealAt = b /\ j * SealAt = b + n
  BY <1>1, <1>2
<1>5. d < q
  <2> HIDE DEF l, n, b, j
  <2> SUFFICES ASSUME q <= d PROVE FALSE
    BY <1>2, <1>3
  <2>1. n * q <= n * d /\ n * q \in Nat /\ n * d \in Nat
    BY <1>1, <1>2, <1>3
  <2> QED BY <1>1, <1>2, <1>3, <2>1
<1>6. j \in 1..q
  BY <1>2, <1>3, <1>5
<1>7. i - b \in 1..(End(rows, j) - b)
  <2>1. End(rows, j) = IF b + n < l THEN b + n ELSE l
    BY <1>4 DEF End
  <2> HIDE DEF b, n, l, j
  <2> QED BY <1>1, <1>2, <1>4, <2>1
<1>8. i - b \in 1..Len(Piece(rows, j)) /\ Piece(rows, j)[i - b] = rows[b + (i - b)]
  <2>1. j \in 1..((Len(rows) + SealAt - 1) \div SealAt)
    BY <1>6 DEF q
  <2> HIDE DEF b, n, l, j
  <2>2. Len(Piece(rows, j)) = End(rows, j) - b
    BY <1>4, <2>1, PieceIs
  <2>3. i - b \in 1..Len(Piece(rows, j))
    BY <1>7, <2>2
  <2>4. \A m \in 1..Len(Piece(rows, j)) : Piece(rows, j)[m] = rows[b + m]
    BY <1>4, <2>1, PieceIs, ZenonT(60)
  <2> QED BY <2>3, <2>4
<1>9. b + (i - b) = i
  <2> HIDE DEF b
  <2> QED BY <1>1, <1>4
<1> HIDE DEF b, j
<1> QED BY <1>6, <1>8, <1>9 DEF q

LEMMA PiecesType ==
  ASSUME NEW rows \in Seq(Change)
  PROVE  /\ Pieces(rows) \in Seq(Segments)
         /\ Len(Pieces(rows)) = (Len(rows) + SealAt - 1) \div SealAt
         /\ \A j \in 1..Len(Pieces(rows)) : Pieces(rows)[j].rows = Piece(rows, j)
<1> DEFINE q == (Len(rows) + SealAt - 1) \div SealAt
<1>1. q \in Nat
  <2>1. Len(rows) \in Nat /\ SealAt \in Nat \ {0}
    OBVIOUS
  <2> QED BY <2>1
<1>2. ASSUME NEW j \in 1..q
      PROVE  Segment(Piece(rows, j)) \in Segments /\ Segment(Piece(rows, j)).rows = Piece(rows, j)
  <2>1. Piece(rows, j) \in Seq(Change) /\ Len(Piece(rows, j)) # 0
    BY <1>2, PieceIs
  <2>2. Len(<<>>) = 0
    OBVIOUS
  <2>3. Piece(rows, j) # <<>>
    BY <2>1, <2>2
  <2> QED BY <2>1, <2>3 DEF Segments, Segment
<1>3. Pieces(rows) = [j \in 1..q |-> Segment(Piece(rows, j))]
  BY DEF Pieces
<1> HIDE DEF q
<1>4. Pieces(rows) \in [1..q -> Segments]
  BY <1>2, <1>3
<1>5. Pieces(rows) \in Seq(Segments) /\ Len(Pieces(rows)) = q
  BY <1>1, <1>4
<1> QED BY <1>2, <1>3, <1>5 DEF q

LEMMA BootstrapIs ==
  ASSUME NEW t \in [Key -> Stored]
  PROVE  \E rows \in Seq(Change) :
           /\ Bootstrap(t, SealAt) = Pieces(rows)
           /\ \A i \in 1..Len(rows) : rows[i].val = t[rows[i].key]
           /\ \A k \in Key : t[k] # NoRow => \E i \in 1..Len(rows) : rows[i].key = k
<1> DEFINE K == {k \in Key : t[k] # NoRow}
           n == SealAt
           Sorted(ks) == \A i, j \in DOMAIN ks : i < j => ks[i] < ks[j]
           keys == CHOOSE ks \in SetToSeqs(K) : Sorted(ks)
           rows == [i \in DOMAIN keys |-> [id |-> 0, key |-> keys[i], val |-> t[keys[i]]]]
<1>1. IsFiniteSet(K) /\ K \subseteq Key /\ n \in Nat \ {0}
  BY FS_Subset
<1>2. \E ks \in SetToSeqs(K) : Sorted(ks)
  <2> DEFINE num == [k \in K |-> k]
  <2>1. num \in [K -> Int] /\ \A r, s \in K : num[r] = num[s] => r = s
    BY <1>1
  <2>2. PICK ks \in SetToSeqs(K) : \A i, j \in DOMAIN ks : i < j => num[ks[i]] < num[ks[j]]
    <3> HIDE DEF num, K
    <3> QED BY <1>1, <2>1, Sortable
  <2>3. \A i \in DOMAIN ks : ks[i] \in K
    BY DEF SetToSeqs
  <2>4. Sorted(ks)
    BY <2>2, <2>3
  <2> QED BY <2>4
<1>3. keys \in SetToSeqs(K)
  <2> HIDE DEF K, Sorted
  <2> QED BY <1>2
<1>4. keys \in Seq(K) /\ Len(keys) \in Nat
  <2> HIDE DEF K, keys
  <2> QED BY <1>1, <1>3, SeqOfAll
<1>5. \A i \in DOMAIN keys : rows[i] \in Change
  <2> SUFFICES ASSUME NEW i \in DOMAIN keys PROVE rows[i] \in Change
    OBVIOUS
  <2> HIDE DEF keys
  <2>1. keys[i] \in Key /\ t[keys[i]] \in Stored
    BY <1>1, <1>4, SMTT(30)
  <2>2. rows[i] = [id |-> 0, key |-> keys[i], val |-> t[keys[i]]]
    OBVIOUS
  <2> QED BY <2>1, <2>2 DEF Change
<1>6. rows \in Seq(Change) /\ Len(rows) = Len(keys)
  <2> HIDE DEF keys
  <2>1. DOMAIN keys = 1..Len(keys)
    BY <1>4
  <2>2. rows \in [1..Len(keys) -> Change]
    BY <1>5, <2>1
  <2> HIDE DEF rows
  <2> QED BY <1>4, <2>2
<1>7. Bootstrap(t, SealAt) = Pieces(rows)
  BY DEF Bootstrap, Pieces, Piece, End
<1>8. \A i \in 1..Len(rows) : rows[i].key = keys[i] /\ rows[i].val = t[keys[i]]
  <2> HIDE DEF keys
  <2> QED BY <1>4, <1>6
<1>9. \A k \in Key : t[k] # NoRow => \E i \in 1..Len(rows) : rows[i].key = k
  <2> SUFFICES ASSUME NEW k \in K PROVE \E i \in 1..Len(rows) : rows[i].key = k
    OBVIOUS
  <2> HIDE DEF keys, rows, K
  <2>1. \E i \in 1..Len(keys) : keys[i] = k
    BY <1>1, <1>3, SeqOfAll
  <2> QED BY <1>6, <1>8, <2>1
<1> HIDE DEF rows, keys
<1> QED BY <1>6, <1>7, <1>8, <1>9

LEMMA BootstrapType ==
  ASSUME NEW t \in [Key -> Stored]
  PROVE  Bootstrap(t, SealAt) \in Seq(Segments)
BY BootstrapIs, PiecesType

(* Replayed, a baseline is the table it was made of.                       *)
LEMMA BootstrapReplays ==
  ASSUME NEW t \in [Key -> Stored]
  PROVE  Replay(Bootstrap(t, SealAt)) = t
<1>1. PICK rows \in Seq(Change) :
        /\ Bootstrap(t, SealAt) = Pieces(rows)
        /\ \A i \in 1..Len(rows) : rows[i].val = t[rows[i].key]
        /\ \A k \in Key : t[k] # NoRow => \E i \in 1..Len(rows) : rows[i].key = k
  BY BootstrapIs
<1> DEFINE segments == Pieces(rows)
           q == (Len(rows) + SealAt - 1) \div SealAt
<1>2. /\ segments \in Seq(Segments) /\ Len(segments) = q
      /\ \A j \in 1..q : segments[j].rows = Piece(rows, j)
  BY PiecesType
<1> HIDE DEF segments
<1>3. RowsOf(segments, t)
  <2>1. ASSUME NEW j \in 1..q, NEW i \in 1..Len(Piece(rows, j))
        PROVE  Piece(rows, j)[i].val = t[Piece(rows, j)[i].key]
    <3> DEFINE m == (j - 1) * SealAt + i
    <3>1. m \in 1..Len(rows) /\ Piece(rows, j)[i] = rows[m]
      BY <2>1, PieceIs
    <3> HIDE DEF m
    <3> QED BY <1>1, <3>1
  <2> HIDE DEF q
  <2> QED BY <1>2, <2>1, SMTT(30) DEF RowsOf
<1>4. AllRowsOf(segments, t)
  <2>1. ASSUME NEW k \in Key, t[k] # NoRow
        PROVE  \E j \in 1..q : \E i \in 1..Len(Piece(rows, j)) : Piece(rows, j)[i].key = k
    <3>1. PICK i \in 1..Len(rows) : rows[i].key = k
      BY <1>1, <2>1
    <3>2. PICK j \in 1..q : \E m \in 1..Len(Piece(rows, j)) : Piece(rows, j)[m] = rows[i]
      BY InPiece
    <3> HIDE DEF q
    <3> QED BY <3>1, <3>2
  <2> HIDE DEF q
  <2> SUFFICES ASSUME NEW k \in Key, t[k] # NoRow
               PROVE  \E j \in 1..q : \E i \in 1..Len(segments[j].rows) : segments[j].rows[i].key = k
    BY <1>2 DEF AllRowsOf
  <2>2. PICK j \in 1..q : \E i \in 1..Len(Piece(rows, j)) : Piece(rows, j)[i].key = k
    BY <2>1
  <2>3. segments[j].rows = Piece(rows, j)
    BY <1>2
  <2> QED BY <2>2, <2>3
<1> QED BY <1>1, <1>2, <1>3, <1>4, ReplayOf DEF segments

-----------------------------------------------------------------------------
(* The log, finite and its rows numbered apart, put in order.              *)
DistinctIds(rows) == \A r, s \in rows : r.id = s.id => r = s

LEMMA LogInOrder ==
  ASSUME log \subseteq Change, IsFiniteSet(log), DistinctIds(log)
  PROVE  /\ InOrder \in Seq(log) /\ Len(InOrder) \in Nat
         /\ \A i, j \in DOMAIN InOrder : i < j => InOrder[i].id < InOrder[j].id
         /\ \A row \in log : \E i \in 1..Len(InOrder) : InOrder[i] = row
<1> DEFINE Sorted(f) == \A i, j \in DOMAIN f : i < j => f[i].id < f[j].id
           num == [row \in log |-> row.id]
<1>1. \A row \in log : row.id \in Nat
  BY DEF Change
<1>2. \E f \in SetToSeqs(log) : Sorted(f)
  <2>1. num \in [log -> Int] /\ \A r, s \in log : num[r] = num[s] => r = s
    BY <1>1 DEF DistinctIds
  <2>2. PICK f \in SetToSeqs(log) : \A i, j \in DOMAIN f : i < j => num[f[i]] < num[f[j]]
    <3> HIDE DEF num
    <3> QED BY <2>1, Sortable
  <2>3. \A i \in DOMAIN f : f[i] \in log
    BY DEF SetToSeqs
  <2> QED BY <2>2, <2>3
<1>3. InOrder \in SetToSeqs(log) /\ Sorted(InOrder)
  BY <1>2 DEF InOrder
<1> QED BY <1>3, SeqOfAll

(***************************************************************************)
(* The batch of drain_once: when the log is not empty it is not, it holds  *)
(* rows of the log in their order, and all of them up to its last.         *)
(***************************************************************************)
LEMMA BatchOldest ==
  ASSUME log \subseteq Change, IsFiniteSet(log), DistinctIds(log), log # {}
  PROVE  /\ Batch \in Seq(log) /\ Len(Batch) \in Nat \ {0}
         /\ \A i, j \in 1..Len(Batch) : i < j => Batch[i].id < Batch[j].id
         /\ \A row \in log : row.id <= Batch[Len(Batch)].id =>
              \E i \in 1..Len(Batch) : Batch[i] = row
<1> DEFINE Sorted(f) == \A i, j \in DOMAIN f : i < j => f[i].id < f[j].id
           n == IF Len(InOrder) < BatchSize THEN Len(InOrder) ELSE BatchSize
<1>1. \A row \in log : row.id \in Nat
  BY DEF Change
<1>3. Sorted(InOrder)
  BY LogInOrder
<1>4. /\ InOrder \in Seq(log) /\ Len(InOrder) \in Nat
      /\ \A row \in log : \E i \in 1..Len(InOrder) : InOrder[i] = row
  BY LogInOrder
<1>5. Len(InOrder) # 0
  <2>1. PICK row \in log : TRUE
    OBVIOUS
  <2>2. PICK i \in 1..Len(InOrder) : InOrder[i] = row
    BY <1>4, <2>1
  <2> QED BY <1>4, <2>2
<1>6. BatchSize \in Nat \ {0}
  OBVIOUS
<1>7. n \in 1..Len(InOrder)
  <2> DEFINE l == Len(InOrder)
  <2>1. l \in Nat \ {0}
    BY <1>4, <1>5
  <2> HIDE DEF l
  <2>2. (IF l < BatchSize THEN l ELSE BatchSize) \in 1..l
    BY <1>6, <2>1
  <2> QED BY <2>2 DEF l
<1>a. Batch = SubSeq(InOrder, 1, n)
  BY DEF Batch
<1>b. DOMAIN InOrder = 1..Len(InOrder)
  BY <1>4
<1> HIDE DEF n
<1>8. Batch \in Seq(log) /\ Len(Batch) = n /\ \A i \in 1..n : Batch[i] = InOrder[i]
  <2>1. n \in Nat /\ n <= Len(InOrder) /\ Len(InOrder) \in Nat /\ n >= 1
    BY <1>4, <1>7
  <2>2. ASSUME NEW i \in 1..n PROVE InOrder[i] \in log
    <3>1. i \in 1..Len(InOrder)
      BY <2>1
    <3>2. InOrder \in Seq(log)
      BY <1>4
    <3> QED BY <3>1, <3>2
  <2>3. Batch = [i \in 1..n |-> InOrder[i]]
    <3>1. InOrder \in Seq(log)
      BY <1>4
    <3> QED BY <1>a, <2>1, <3>1
  <2>4. Batch \in [1..n -> log]
    BY <2>2, <2>3
  <2> QED BY <2>1, <2>3, <2>4
<1>9. ASSUME NEW row \in log, row.id <= Batch[Len(Batch)].id
      PROVE  \E i \in 1..Len(Batch) : Batch[i] = row
  <2>1. PICK i \in 1..Len(InOrder) : InOrder[i] = row
    BY <1>4
  <2>2. Batch[Len(Batch)] = InOrder[n] /\ InOrder[n] \in log
    <3>1. n \in 1..n
      BY <1>4, <1>7
    <3>2. Batch[n] = InOrder[n] /\ Len(Batch) = n /\ Batch \in Seq(log)
      BY <1>8, <3>1
    <3>3. Batch[n] \in log
      BY <3>1, <3>2
    <3> QED BY <3>2, <3>3
  <2>3. ~(n < i)
    <3> SUFFICES ASSUME n < i PROVE FALSE
      OBVIOUS
    <3>1. n \in DOMAIN InOrder /\ i \in DOMAIN InOrder
      BY <1>7, <1>b, <2>1
    <3>2. InOrder[n].id < row.id
      BY <1>3, <2>1, <3>1
    <3> QED BY <1>1, <1>9, <2>2, <3>2, SMTT(30)
  <2>4. i \in 1..n
    BY <1>7, <2>3
  <2> QED BY <1>8, <2>1, <2>4
<1>10. \A i, j \in 1..Len(Batch) : i < j => Batch[i].id < Batch[j].id
  <2>1. 1..n \subseteq DOMAIN InOrder
    BY <1>4, <1>7, <1>b
  <2>2. \A i, j \in 1..n : i < j => InOrder[i].id < InOrder[j].id
    BY <1>3, <2>1
  <2> QED BY <1>8, <2>2
<1> QED BY <1>7, <1>8, <1>9, <1>10

-----------------------------------------------------------------------------
(* Who changes what.                                                       *)
OthersKeep ==
  /\ \/ UNCHANGED dbVars
     \/ (\E w \in Writer : Application(w)) \/ (\E d \in Drainers : DeleteBatch(d)) \/ RestoreTables
  /\ UNCHANGED streamVars \/ (\E d \in Drainers : Send(d)) \/ Streamer \/ AskStreamer \/ Restart
  /\ UNCHANGED drain \/ (\E d \in Drainers : Drain(d) \/ DrainFails(d)) \/ Restart
  /\ \/ UNCHANGED engineVars
     \/ (\E d \in Drainers : DrainFails(d)) \/ Streamer \/ Engine
     \/ BeginSnapshot \/ BeginRestore \/ Restart
  /\ \/ UNCHANGED pastVars
     \/ (\E w \in Writer : CommitWrites(w)) \/ PassFence \/ RestoreTables \/ Restart

LEMMA Frames == ASSUME [Next]_vars PROVE OthersKeep
<1>1. ASSUME NEW w \in Writer, NEW k \in Key, NEW v \in Row, Write(w, k, v)
      PROVE  OthersKeep
  <2>1. Application(w)
    BY <1>1 DEF Application
  <2>2. UNCHANGED streamVars /\ UNCHANGED drain /\ UNCHANGED engineVars /\ UNCHANGED pastVars
    BY <1>1 DEF Write, Changed, dbVars, streamVars, engineVars, pastVars, boundVars
  <2> QED BY <1>1, <2>1, <2>2 DEF OthersKeep
<1>2. ASSUME NEW w \in Writer, NEW k \in Key, WriteOpaque(w, k)
      PROVE  OthersKeep
  <2>1. Application(w)
    BY <1>2 DEF Application
  <2>2. UNCHANGED streamVars /\ UNCHANGED drain /\ UNCHANGED engineVars /\ UNCHANGED pastVars
    BY <1>2 DEF WriteOpaque, Changed, dbVars, streamVars, engineVars, pastVars, boundVars
  <2> QED BY <1>2, <2>1, <2>2 DEF OthersKeep
<1>3. ASSUME NEW w \in Writer, NEW k \in Key, NEW m \in Key, Rekey(w, k, m)
      PROVE  OthersKeep
  <2>1. Application(w)
    BY <1>3 DEF Application
  <2>2. UNCHANGED streamVars /\ UNCHANGED drain /\ UNCHANGED engineVars /\ UNCHANGED pastVars
    BY <1>3 DEF Rekey, Changed, dbVars, streamVars, engineVars, pastVars, boundVars
  <2> QED BY <1>3, <2>1, <2>2 DEF OthersKeep
<1>4. ASSUME NEW w \in Writer, Truncate(w)
      PROVE  OthersKeep
  <2>1. Application(w)
    BY <1>4 DEF Application
  <2>2. UNCHANGED streamVars /\ UNCHANGED drain /\ UNCHANGED engineVars /\ UNCHANGED pastVars
    BY <1>4 DEF Truncate, dbVars, streamVars, engineVars, pastVars, boundVars
  <2> QED BY <1>4, <2>1, <2>2 DEF OthersKeep
<1>5. ASSUME NEW w \in Writer, CommitWrites(w)
      PROVE  OthersKeep
  <2>1. Application(w)
    BY <1>5 DEF Application
  <2>2. UNCHANGED streamVars /\ UNCHANGED drain /\ UNCHANGED engineVars
    BY <1>5 DEF CommitWrites, dbVars, streamVars, engineVars, pastVars, boundVars
  <2> QED BY <1>5, <2>1, <2>2 DEF OthersKeep
<1>6. ASSUME NEW w \in Writer, AbortWrites(w)
      PROVE  OthersKeep
  <2>1. Application(w)
    BY <1>6 DEF Application
  <2>2. UNCHANGED streamVars /\ UNCHANGED drain /\ UNCHANGED engineVars /\ UNCHANGED pastVars
    BY <1>6 DEF AbortWrites, dbVars, streamVars, engineVars, pastVars, boundVars
  <2> QED BY <1>6, <2>1, <2>2 DEF OthersKeep
<1>7. ASSUME NEW d \in Drainers, Fetch(d)
      PROVE  OthersKeep
  <2>1. Drain(d)
    BY <1>7 DEF Drain
  <2>2. UNCHANGED dbVars /\ UNCHANGED streamVars /\ UNCHANGED engineVars /\ UNCHANGED pastVars
    BY <1>7 DEF Fetch, dbVars, streamVars, engineVars, pastVars, boundVars
  <2> QED BY <1>7, <2>1, <2>2 DEF OthersKeep
<1>8. ASSUME NEW d \in Drainers, Send(d)
      PROVE  OthersKeep
  <2>1. Drain(d)
    BY <1>8 DEF Drain
  <2>2. UNCHANGED dbVars /\ UNCHANGED engineVars /\ UNCHANGED pastVars
    BY <1>8 DEF Send, dbVars, streamVars, engineVars, pastVars, boundVars
  <2> QED BY <1>8, <2>1, <2>2 DEF OthersKeep
<1>9. ASSUME NEW d \in Drainers, Skip(d)
      PROVE  OthersKeep
  <2>1. Drain(d)
    BY <1>9 DEF Drain
  <2>2. UNCHANGED dbVars /\ UNCHANGED streamVars /\ UNCHANGED engineVars /\ UNCHANGED pastVars
    BY <1>9 DEF Skip, dbVars, streamVars, engineVars, pastVars, boundVars
  <2> QED BY <1>9, <2>1, <2>2 DEF OthersKeep
<1>10. ASSUME NEW d \in Drainers, DeleteBatch(d)
      PROVE  OthersKeep
  <2>1. Drain(d)
    BY <1>10 DEF Drain
  <2>2. UNCHANGED streamVars /\ UNCHANGED engineVars /\ UNCHANGED pastVars
    BY <1>10 DEF DeleteBatch, dbVars, streamVars, engineVars, pastVars, boundVars
  <2> QED BY <1>10, <2>1, <2>2 DEF OthersKeep
<1>11. ASSUME NEW d \in Drainers, DrainFails(d)
      PROVE  OthersKeep
  <2>1. UNCHANGED dbVars /\ UNCHANGED streamVars /\ UNCHANGED pastVars
    BY <1>11 DEF DrainFails, dbVars, streamVars, engineVars, pastVars, boundVars
  <2> QED BY <1>11, <2>1 DEF OthersKeep
<1>12. CASE ApplyEvent
  <2>1. Streamer
    BY <1>12 DEF Streamer
  <2>2. UNCHANGED dbVars /\ UNCHANGED drain /\ UNCHANGED engineVars /\ UNCHANGED pastVars
    BY <1>12 DEF ApplyEvent, dbVars, streamVars, engineVars, pastVars, boundVars
  <2> QED BY <1>12, <2>1, <2>2 DEF OthersKeep
<1>13. CASE TakeSnapshot
  <2>1. Streamer
    BY <1>13 DEF Streamer
  <2>2. UNCHANGED dbVars /\ UNCHANGED drain /\ UNCHANGED pastVars
    BY <1>13 DEF TakeSnapshot, dbVars, streamVars, engineVars, pastVars, boundVars
  <2> QED BY <1>13, <2>1, <2>2 DEF OthersKeep
<1>14. CASE TakeSnapshotFails
  <2>1. Streamer
    BY <1>14 DEF Streamer
  <2>2. UNCHANGED dbVars /\ UNCHANGED drain /\ UNCHANGED pastVars
    BY <1>14 DEF TakeSnapshotFails, dbVars, streamVars, engineVars, pastVars, boundVars
  <2> QED BY <1>14, <2>1, <2>2 DEF OthersKeep
<1>15. CASE BeginSnapshot
  <2>1. UNCHANGED dbVars /\ UNCHANGED streamVars /\ UNCHANGED drain /\ UNCHANGED pastVars
    BY <1>15 DEF BeginSnapshot, dbVars, streamVars, engineVars, pastVars, boundVars
  <2> QED BY <1>15, <2>1 DEF OthersKeep
<1>16. CASE PassFence
  <2>1. Engine
    BY <1>16 DEF Engine
  <2>2. UNCHANGED dbVars /\ UNCHANGED streamVars /\ UNCHANGED drain
    BY <1>16 DEF PassFence, dbVars, streamVars, engineVars, pastVars, boundVars
  <2> QED BY <1>16, <2>1, <2>2 DEF OthersKeep
<1>17. CASE SnapshotFails
  <2>1. Engine
    BY <1>17 DEF Engine
  <2>2. UNCHANGED dbVars /\ UNCHANGED streamVars /\ UNCHANGED drain /\ UNCHANGED pastVars
    BY <1>17 DEF SnapshotFails, dbVars, streamVars, engineVars, pastVars, boundVars
  <2> QED BY <1>17, <2>1, <2>2 DEF OthersKeep
<1>18. CASE FenceRefuses
  <2>1. Engine
    BY <1>18 DEF Engine
  <2>2. UNCHANGED dbVars /\ UNCHANGED streamVars /\ UNCHANGED drain /\ UNCHANGED pastVars
    BY <1>18 DEF FenceRefuses, dbVars, streamVars, engineVars, pastVars, boundVars
  <2> QED BY <1>18, <2>1, <2>2 DEF OthersKeep
<1>19. CASE AskStreamer
  <2>1. Engine
    BY <1>19 DEF Engine
  <2>2. UNCHANGED dbVars /\ UNCHANGED drain /\ UNCHANGED pastVars
    BY <1>19 DEF AskStreamer, dbVars, streamVars, engineVars, pastVars, boundVars
  <2> QED BY <1>19, <2>1, <2>2 DEF OthersKeep
<1>20. CASE BeginRestore
  <2>1. UNCHANGED dbVars /\ UNCHANGED streamVars /\ UNCHANGED drain /\ UNCHANGED pastVars
    BY <1>20 DEF BeginRestore, dbVars, streamVars, engineVars, pastVars, boundVars
  <2> QED BY <1>20, <2>1 DEF OthersKeep
<1>21. CASE RestoreTables
  <2>1. Engine
    BY <1>21 DEF Engine
  <2>2. UNCHANGED streamVars /\ UNCHANGED drain
    BY <1>21 DEF RestoreTables, dbVars, streamVars, engineVars, pastVars, boundVars
  <2> QED BY <1>21, <2>1, <2>2 DEF OthersKeep
<1>22. CASE RestoreFails
  <2>1. Engine
    BY <1>22 DEF Engine
  <2>2. UNCHANGED dbVars /\ UNCHANGED streamVars /\ UNCHANGED drain /\ UNCHANGED pastVars
    BY <1>22 DEF RestoreFails, dbVars, streamVars, engineVars, pastVars, boundVars
  <2> QED BY <1>22, <2>1, <2>2 DEF OthersKeep
<1>23. CASE Restart
  <2>1. UNCHANGED dbVars
    BY <1>23 DEF Restart, dbVars, streamVars, engineVars, pastVars, boundVars
  <2> QED BY <1>23, <2>1 DEF OthersKeep
<1>24. CASE UNCHANGED vars
  <2>1. UNCHANGED dbVars /\ UNCHANGED streamVars /\ UNCHANGED drain /\ UNCHANGED engineVars /\ UNCHANGED pastVars
    BY <1>24 DEF vars, dbVars, streamVars, engineVars, pastVars, boundVars
  <2> QED BY <1>24, <2>1 DEF OthersKeep
<1> QED
  BY <1>1, <1>2, <1>3, <1>4, <1>5, <1>6, <1>7, <1>8, <1>9, <1>10, <1>11,
     <1>12, <1>13, <1>14, <1>15, <1>16, <1>17, <1>18, <1>19, <1>20, <1>21,
     <1>22, <1>23, <1>24
     DEF Next, Application, Drain, Streamer, Engine

-----------------------------------------------------------------------------
(***************************************************************************)
(* Types, by who owns the variables: TypeOK, and what it needs to be kept. *)
(* Rows of the log and of open transactions have numbers of their own.     *)
(***************************************************************************)
DbType ==
  /\ table \in [Key -> Stored]
  /\ log \subseteq Change /\ IsFiniteSet(log)
  /\ nextId \in Nat /\ nextId >= 1 /\ nextId <= MaxWrites + 1
  /\ unreadable \subseteq 1..(nextId - 1)
  /\ open \in [Writer -> SUBSET Change] /\ \A w \in Writer : IsFiniteSet(open[w])
  /\ gone \in [Writer -> SUBSET Key]
  /\ \A row \in log \cup Held : row.id \in 1..(nextId - 1)
  /\ DistinctIds(log \cup Held)

StreamType ==
  /\ chan \in Seq(Change \cup {Snap}) /\ Len(chan) <= Depth
  /\ active \in Seq(Change)
  /\ sealed \in Seq(Segments)

DrainType == drain \in [Drainers -> [busy : BOOLEAN, batch : Seq(Change), sent : Nat]]

Snapshots == [segments : Seq(Segments), since : [Key -> SUBSET Stored], due : SUBSET Nat]

EngineType ==
  /\ engine \in {"idle", "drain", "take", "wait", "restore"}
  /\ target \in Seq(Segments) /\ snaps \in Seq(Snapshots)

PastType ==
  /\ due \subseteq 1..(nextId - 1) /\ due \cap unreadable = {}
  /\ heard \in [Key -> Stored] /\ since \in [Key -> SUBSET Stored]
  /\ fenced \subseteq 1..(nextId - 1)

BoundType == odd \in Nat /\ restores \in Nat

Types == DbType /\ StreamType /\ DrainType /\ EngineType /\ PastType /\ BoundType

LEMMA HeldBy == \A row : row \in Held <=> \E w \in Writer : row \in open[w]
BY DEF Held

(* A change takes the next number.                                         *)
LEMMA ChangedStep ==
  ASSUME DbType, odd \in Nat, NEW w \in Writer, NEW k \in Key, NEW v \in Stored,
         Changed(w, k, v), table' = table, log' = log, gone' \in [Writer -> SUBSET Key]
  PROVE  DbType'
<1> DEFINE new == [id |-> nextId, key |-> k, val |-> v]
<1> USE DEF DbType
<1>1. new \in Change /\ new.id = nextId
  BY DEF Change
<1>2. open' = [open EXCEPT ![w] = @ \cup {new}] /\ nextId' = nextId + 1 /\ nextId + odd <= MaxWrites
  BY DEF Changed
<1>3. unreadable' \subseteq unreadable \cup {nextId}
  BY DEF Changed
<1> HIDE DEF new
<1>4. \A u \in Writer : open'[u] = IF u = w THEN open[u] \cup {new} ELSE open[u]
  BY <1>2
<1>5. open' \in [Writer -> SUBSET Change]
  BY <1>1, <1>2
<1>6. \A u \in Writer : IsFiniteSet(open'[u])
  <2> SUFFICES ASSUME NEW u \in Writer PROVE IsFiniteSet(open'[u])
    OBVIOUS
  <2>1. IsFiniteSet(open[u])
    OBVIOUS
  <2>2. IsFiniteSet(open[u] \cup {new})
    BY <2>1, FS_AddElement
  <2> QED BY <1>4, <2>1, <2>2
<1>7. \A row \in Held' : row \in Held \/ row = new
  <2> SUFFICES ASSUME NEW row, NEW u \in Writer, row \in open'[u] PROVE row \in Held \/ row = new
    BY DEF Held
  <2> HIDE DEF DbType
  <2>1. row \in open[u] \/ row = new
    BY <1>4
  <2> QED BY <2>1, HeldBy
<1>8. MaxWrites \in Nat /\ nextId' \in Nat /\ nextId' >= 1 /\ nextId' <= MaxWrites + 1
  BY <1>2
<1>9. \A row \in log' \cup Held' : row \in log \cup Held \/ row = new
  BY <1>7
<1> HIDE DEF DbType
<1>10. \A row \in log \cup Held : row.id \in 1..(nextId - 1)
  BY DEF DbType
<1>11. nextId \in Nat
  BY DEF DbType
<1>12. \A row \in log' \cup Held' : row.id \in 1..(nextId' - 1)
  <2> SUFFICES ASSUME NEW row \in log' \cup Held' PROVE row.id \in 1..(nextId' - 1)
    OBVIOUS
  <2>1. CASE row \in log \cup Held
    BY <1>2, <1>10, <1>11, <2>1
  <2>2. CASE row = new
    <3>1. row.id = nextId /\ nextId \in Nat /\ nextId >= 1 /\ nextId' = nextId + 1
      BY <1>1, <1>2, <2>2 DEF DbType
    <3> QED BY <3>1
  <2> QED BY <1>9, <2>1, <2>2
<1>13. DistinctIds(log' \cup Held')
  <2>1. DistinctIds(log \cup Held)
    BY DEF DbType
  <2>2. \A row \in log \cup Held : row.id # new.id
    BY <1>1, <1>10, <1>11
  <2> QED BY <1>9, <2>1, <2>2 DEF DistinctIds
<1>14. unreadable' \subseteq 1..(nextId' - 1)
  BY <1>2, <1>3, <1>8, <1>11 DEF DbType
<1>15. table' \in [Key -> Stored] /\ log' \subseteq Change /\ IsFiniteSet(log')
  BY DEF DbType
<1> QED BY <1>5, <1>6, <1>8, <1>12, <1>13, <1>14, <1>15 DEF DbType, DistinctIds

(* Rows only leave, or go from an open transaction into the log.           *)
LEMMA FewerRows ==
  ASSUME DbType, table' \in [Key -> Stored], UNCHANGED <<nextId, unreadable>>,
         open' \in [Writer -> SUBSET Change], \A w \in Writer : open'[w] \subseteq open[w],
         gone' \in [Writer -> SUBSET Key], IsFiniteSet(log'),
         log' \subseteq log \cup Held
  PROVE  DbType'
<1>1. Held' \subseteq Held
  BY DEF Held
<1>2. Held \subseteq Change
  BY DEF Held, DbType
<1>3. \A w \in Writer : IsFiniteSet(open'[w])
  BY FS_Subset DEF DbType
<1>4. log' \cup Held' \subseteq log \cup Held
  BY <1>1
<1>5. DistinctIds(log' \cup Held') /\ \A row \in log' \cup Held' : row.id \in 1..(nextId - 1)
  BY <1>4 DEF DbType, DistinctIds
<1> QED BY <1>2, <1>3, <1>5 DEF DbType, DistinctIds

LEMMA DbStep ==
  ASSUME Types, [Next]_vars
  PROVE  DbType'
<1> USE DEF Types, BoundType
<1>1. ASSUME UNCHANGED dbVars PROVE DbType'
  BY <1>1 DEF DbType, dbVars, Held, DistinctIds
<1>2. ASSUME NEW w \in Writer, Application(w) PROVE DbType'
  <2>1. ASSUME NEW k \in Key, NEW v \in Row, Write(w, k, v) PROVE DbType'
    <3>1. v \in Stored /\ gone' \in [Writer -> SUBSET Key]
      BY <2>1 DEF Write, DbType, Stored
    <3> QED BY <2>1, <3>1, ChangedStep DEF Write
  <2>2. ASSUME NEW k \in Key, WriteOpaque(w, k) PROVE DbType'
    <3>1. Opaque \in Stored /\ gone' \in [Writer -> SUBSET Key]
      BY <2>2 DEF WriteOpaque, DbType, Stored
    <3> QED BY <2>2, <3>1, ChangedStep DEF WriteOpaque
  <2>3. ASSUME NEW k \in Key, NEW m \in Key, Rekey(w, k, m) PROVE DbType'
    <3>1. table[k] \in Stored /\ gone' \in [Writer -> SUBSET Key]
      BY <2>3 DEF Rekey, DbType
    <3> QED BY <2>3, <3>1, ChangedStep DEF Rekey
  <2>4. CASE Truncate(w)
    <3>1. UNCHANGED <<table, log, nextId, unreadable, open>> /\ gone' \in [Writer -> SUBSET Key]
      BY <2>4 DEF Truncate, DbType
    <3> QED BY <3>1 DEF DbType, Held, DistinctIds
  <2>5. CASE CommitWrites(w)
    <3>1. /\ table' = AppliedTo([k \in Key |-> IF k \in gone[w] THEN NoRow ELSE table[k]], open[w])
          /\ log' = log \cup open[w] /\ UNCHANGED <<nextId, unreadable>>
          /\ open' = [open EXCEPT ![w] = {}] /\ gone' = [gone EXCEPT ![w] = {}]
      BY <2>5 DEF CommitWrites
    <3>2. [k \in Key |-> IF k \in gone[w] THEN NoRow ELSE table[k]] \in [Key -> Stored]
      BY DEF DbType, Stored, Row
    <3>3. open[w] \in SUBSET Change /\ IsFiniteSet(open[w]) /\ IsFiniteSet(log)
      BY DEF DbType
    <3>4. table' \in [Key -> Stored]
      BY <3>1, <3>2, <3>3, AppliedToType
    <3>5. IsFiniteSet(log') /\ log' \subseteq log \cup Held
      BY <3>1, <3>3, FS_Union DEF Held
    <3>6. /\ open' \in [Writer -> SUBSET Change] /\ gone' \in [Writer -> SUBSET Key]
          /\ \A u \in Writer : open'[u] \subseteq open[u]
      BY <3>1 DEF DbType
    <3> QED BY <3>1, <3>4, <3>5, <3>6, FewerRows
  <2>6. CASE AbortWrites(w)
    <3>1. /\ UNCHANGED <<table, log, nextId, unreadable>>
          /\ open' = [open EXCEPT ![w] = {}] /\ gone' = [gone EXCEPT ![w] = {}]
      BY <2>6 DEF AbortWrites
    <3>2. /\ open' \in [Writer -> SUBSET Change] /\ gone' \in [Writer -> SUBSET Key]
          /\ \A u \in Writer : open'[u] \subseteq open[u]
      BY <3>1 DEF DbType
    <3>3. table' \in [Key -> Stored] /\ IsFiniteSet(log') /\ log' \subseteq log \cup Held
      BY <3>1 DEF DbType
    <3> QED BY <3>1, <3>2, <3>3, FewerRows
  <2> QED BY <1>2, <2>1, <2>2, <2>3, <2>4, <2>5, <2>6 DEF Application
<1>3. ASSUME NEW d \in Drainers, DeleteBatch(d) PROVE DbType'
  <2>1. log' \subseteq log /\ UNCHANGED <<table, nextId, unreadable, open, gone>>
    BY <1>3 DEF DeleteBatch
  <2>2. IsFiniteSet(log')
    BY <2>1, FS_Subset DEF DbType
  <2>3. /\ table' \in [Key -> Stored] /\ open' \in [Writer -> SUBSET Change]
        /\ gone' \in [Writer -> SUBSET Key] /\ \A u \in Writer : open'[u] \subseteq open[u]
    BY <2>1 DEF DbType
  <2> QED BY <2>1, <2>2, <2>3, FewerRows
<1>4. CASE RestoreTables
  <2>1. log' = {} /\ table' = Replay(target) /\ UNCHANGED <<nextId, unreadable, open, gone>>
    BY <1>4 DEF RestoreTables
  <2>2. table' \in [Key -> Stored]
    BY <2>1, ReplayType DEF EngineType
  <2>3. IsFiniteSet(log')
    BY <2>1, FS_EmptySet
  <2>4. /\ open' \in [Writer -> SUBSET Change] /\ gone' \in [Writer -> SUBSET Key]
        /\ \A u \in Writer : open'[u] \subseteq open[u]
    BY <2>1 DEF DbType
  <2> QED BY <2>1, <2>2, <2>3, <2>4, FewerRows
<1> QED BY <1>1, <1>2, <1>3, <1>4, Frames DEF OthersKeep

(* What is sent next is a change of the batch.                             *)
LEMMA Nth ==
  ASSUME NEW S, NEW seq \in Seq(S), NEW i \in Nat, i < Len(seq)
  PROVE  seq[i + 1] \in S
<1>1. i + 1 \in 1..Len(seq)
  OBVIOUS
<1> QED BY <1>1

LEMMA NextRowType ==
  ASSUME Types, NEW d \in Drainers, Unsent(d)
  PROVE  NextRow(d) \in Change
<1> DEFINE b == drain[d].batch
           i == drain[d].sent
<1>1. b \in Seq(Change) /\ i \in Nat
  BY DEF Types, DrainType
<1>2. i < Len(b) /\ NextRow(d) = b[i + 1]
  BY DEF Unsent, NextRow
<1> HIDE DEF b, i
<1> QED BY <1>1, <1>2, Nth

LEMMA StreamStep ==
  ASSUME Types, [Next]_vars
  PROVE  StreamType'
<1>1. StreamType /\ Depth \in Nat /\ Len(chan) \in Nat
  BY DEF Types, StreamType
<1>2. CASE UNCHANGED streamVars
  BY <1>1, <1>2 DEF StreamType, streamVars
<1>3. ASSUME NEW d \in Drainers, Send(d) PROVE StreamType'
  <2>2. NextRow(d) \in Change
    BY <1>3, NextRowType DEF Send
  <2>3. /\ chan' = Append(chan, NextRow(d)) /\ UNCHANGED <<active, sealed>>
        /\ Len(chan) < Depth
    BY <1>3 DEF Send, HasRoom
  <2>4. chan' \in Seq(Change \cup {Snap}) /\ Len(chan') <= Depth
    BY <1>1, <2>2, <2>3 DEF StreamType
  <2> QED BY <1>1, <2>3, <2>4 DEF StreamType
<1>4. CASE AskStreamer
  <2>1. chan' = Append(chan, Snap) /\ UNCHANGED <<active, sealed>> /\ Len(chan) < Depth
    BY <1>4 DEF AskStreamer, HasRoom
  <2>2. Snap \in Change \cup {Snap}
    OBVIOUS
  <2>3. chan' \in Seq(Change \cup {Snap}) /\ Len(chan') <= Depth
    BY <1>1, <2>1, <2>2 DEF StreamType
  <2> QED BY <1>1, <2>1, <2>3 DEF StreamType
<1>5. ASSUME chan # <<>>, chan' = Tail(chan)
      PROVE  chan' \in Seq(Change \cup {Snap}) /\ Len(chan') <= Depth
  BY <1>1, <1>5 DEF StreamType
<1>6. ASSUME NEW rows \in Seq(Change), Len(rows) > 0 PROVE Append(sealed, Segment(rows)) \in Seq(Segments)
  <2>1. rows # <<>>
    BY <1>6
  <2>2. Segment(rows) \in Segments
    BY <2>1 DEF Segments
  <2> QED BY <1>1, <2>2 DEF StreamType
<1>7. CASE ApplyEvent
  <2> DEFINE rows == Append(active, Head(chan))
  <2>1. chan # <<>> /\ chan' = Tail(chan) /\ Head(chan) # Snap
    BY <1>7 DEF ApplyEvent
  <2>2. Head(chan) \in Change
    BY <1>1, <2>1 DEF StreamType
  <2>3. rows \in Seq(Change) /\ Len(rows) > 0
    BY <1>1, <2>2 DEF StreamType
  <2>4. \/ active' = rows /\ UNCHANGED sealed
        \/ active' = <<>> /\ sealed' = Append(sealed, Segment(rows))
    BY <1>7 DEF ApplyEvent
  <2> HIDE DEF rows
  <2>5. Append(sealed, Segment(rows)) \in Seq(Segments)
    BY <1>6, <2>3
  <2>6. active' \in Seq(Change) /\ sealed' \in Seq(Segments)
    <3>1. sealed \in Seq(Segments)
      BY <1>1 DEF StreamType
    <3>2. CASE active' = rows /\ UNCHANGED sealed
      BY <2>3, <3>1, <3>2
    <3>3. CASE active' = <<>> /\ sealed' = Append(sealed, Segment(rows))
      BY <2>5, <3>3
    <3> QED BY <2>4, <3>2, <3>3
  <2> QED BY <1>5, <2>1, <2>6 DEF StreamType
<1>8. CASE TakeSnapshot
  <2>1. chan # <<>> /\ chan' = Tail(chan) /\ active' = <<>> /\ sealed' = SealedForSnapshot
    BY <1>8 DEF TakeSnapshot
  <2>2. active = <<>> \/ Len(active) > 0
    BY <1>1 DEF StreamType
  <2>3. SealedForSnapshot \in Seq(Segments)
    BY <1>1, <1>6, <2>2 DEF SealedForSnapshot, StreamType
  <2>4. active' \in Seq(Change)
    BY <2>1
  <2> QED BY <1>5, <2>1, <2>3, <2>4 DEF StreamType
<1>9. CASE TakeSnapshotFails
  <2>1. chan # <<>> /\ chan' = Tail(chan) /\ UNCHANGED <<active, sealed>>
    BY <1>9 DEF TakeSnapshotFails
  <2> QED BY <1>1, <1>5, <2>1 DEF StreamType
<1>10. CASE Restart
  <2>1. chan' = <<>> /\ active' = <<>> /\ sealed' = Bootstrap(table, SealAt)
    BY <1>10 DEF Restart
  <2>2. sealed' \in Seq(Segments)
    BY <2>1, BootstrapType DEF Types, DbType
  <2>3. chan' \in Seq(Change \cup {Snap}) /\ Len(chan') = 0 /\ active' \in Seq(Change)
    BY <2>1
  <2> QED BY <1>1, <2>2, <2>3 DEF StreamType
<1> QED BY <1>2, <1>3, <1>4, <1>7, <1>8, <1>9, <1>10, Frames DEF OthersKeep, Streamer

LEMMA BatchRows ==
  ASSUME Types, log # {}
  PROVE  Batch \in Seq(Change) /\ Len(Batch) \in Nat \ {0} /\ \A i \in 1..Len(Batch) : Batch[i] \in log
<1>1. DistinctIds(log) /\ log \subseteq Change /\ IsFiniteSet(log)
  BY DEF Types, DbType, DistinctIds
<1>2. Batch \in Seq(log) /\ Len(Batch) \in Nat \ {0}
  BY <1>1, BatchOldest
<1> QED BY <1>1, <1>2

LEMMA DrainStep ==
  ASSUME Types, [Next]_vars
  PROVE  DrainType'
<1> DEFINE D == [busy : BOOLEAN, batch : Seq(Change), sent : Nat]
<1>1. drain \in [Drainers -> D]
  BY DEF Types, DrainType
<1>2. NoDrain \in D
  BY DEF NoDrain
<1>3. ASSUME NEW d \in Drainers, NEW x \in D, drain' = [drain EXCEPT ![d] = x] PROVE DrainType'
  <2> HIDE DEF D
  <2>1. drain' \in [Drainers -> D]
    BY <1>1, <1>3
  <2> QED BY <2>1 DEF DrainType, D
<1>4. ASSUME NEW d \in Drainers, Drain(d) \/ DrainFails(d) PROVE DrainType'
  <2>1. CASE Fetch(d)
    <3> DEFINE x == [busy |-> TRUE, batch |-> Batch, sent |-> 0]
    <3>1. drain' = [drain EXCEPT ![d] = x] /\ log # {}
      BY <2>1 DEF Fetch
    <3>2. x \in D
      BY <3>1, BatchRows
    <3> HIDE DEF x, D
    <3> QED BY <1>3, <3>1, <3>2
  <2>2. ASSUME drain' = [drain EXCEPT ![d].sent = @ + 1] PROVE DrainType'
    <3> DEFINE x == [drain[d] EXCEPT !.sent = @ + 1]
    <3>1. drain' = [drain EXCEPT ![d] = x]
      BY <1>1, <2>2
    <3>2. x \in D
      <4> DEFINE y == drain[d]
      <4>1. y \in D
        BY <1>1
      <4> HIDE DEF y
      <4>2. [y EXCEPT !.sent = @ + 1] \in D
        BY <4>1, SMTT(30)
      <4> QED BY <4>2 DEF y
    <3> HIDE DEF x, D
    <3> QED BY <1>3, <3>1, <3>2
  <2>3. CASE DeleteBatch(d)
    BY <1>2, <1>3, <2>3 DEF DeleteBatch
  <2>4. CASE DrainFails(d)
    BY <1>2, <1>3, <2>4 DEF DrainFails
  <2> QED BY <1>4, <2>1, <2>2, <2>3, <2>4 DEF Drain, Send, Skip
<1>5. CASE Restart
  <2>1. drain' = [d \in Drainers |-> NoDrain]
    BY <1>5 DEF Restart
  <2> HIDE DEF D
  <2>2. drain' \in [Drainers -> D]
    BY <1>2, <2>1
  <2> QED BY <2>2 DEF DrainType, D
<1>6. CASE UNCHANGED drain
  BY <1>1, <1>6 DEF DrainType
<1> QED BY <1>4, <1>5, <1>6, Frames DEF OthersKeep

LEMMA EngineStep ==
  ASSUME Types, [Next]_vars
  PROVE  EngineType'
<1>1. engine \in {"idle", "drain", "take", "wait", "restore"} /\ target \in Seq(Segments) /\ snaps \in Seq(Snapshots)
  BY DEF Types, EngineType
<1>2. CASE UNCHANGED engineVars
  BY <1>1, <1>2 DEF EngineType, engineVars
<1>3. ASSUME NEW d \in Drainers, DrainFails(d) PROVE EngineType'
  BY <1>1, <1>3 DEF DrainFails, EngineType
<1>4. CASE Streamer
  <2>1. CASE ApplyEvent
    BY <1>1, <2>1 DEF ApplyEvent, EngineType, engineVars
  <2>2. CASE TakeSnapshotFails
    BY <1>1, <2>2 DEF TakeSnapshotFails, EngineType
  <2>3. CASE TakeSnapshot
    <3>1. /\ snaps' = Append(snaps, [segments |-> SealedForSnapshot, since |-> since, due |-> fenced])
          /\ sealed' = SealedForSnapshot /\ engine' = "idle" /\ UNCHANGED target
      BY <2>3 DEF TakeSnapshot
    <3>2. SealedForSnapshot \in Seq(Segments)
      BY <3>1, StreamStep DEF StreamType
    <3>a. fenced \subseteq Nat
      BY DEF Types, PastType, DbType
    <3>3. [segments |-> SealedForSnapshot, since |-> since, due |-> fenced] \in Snapshots
      BY <3>2, <3>a DEF Snapshots, Types, PastType
    <3>4. snaps' \in Seq(Snapshots)
      BY <1>1, <3>1, <3>3
    <3> QED BY <1>1, <3>1, <3>4 DEF EngineType
  <2> QED BY <1>4, <2>1, <2>2, <2>3 DEF Streamer
<1>5. CASE Engine
  <2>1. UNCHANGED snaps /\ (UNCHANGED target \/ target' = <<>>)
        /\ engine' \in {"idle", "drain", "take", "wait", "restore"}
    BY <1>5 DEF Engine, PassFence, FenceRefuses, AskStreamer, SnapshotFails, RestoreTables, RestoreFails
  <2>2. target' \in Seq(Segments)
    <3>1. CASE UNCHANGED target
      BY <1>1, <3>1
    <3>2. CASE target' = <<>>
      BY <3>2
    <3> QED BY <2>1, <3>1, <3>2
  <2> QED BY <1>1, <2>1, <2>2 DEF EngineType
<1>6. CASE BeginSnapshot
  BY <1>1, <1>6 DEF BeginSnapshot, EngineType
<1>7. CASE BeginRestore
  <2>1. /\ UNCHANGED snaps /\ engine' = "restore"
        /\ \E i \in DOMAIN snaps : target' = ManifestOf(snaps[i].segments)
    BY <1>7 DEF BeginRestore
  <2>2. PICK i \in DOMAIN snaps : target' = ManifestOf(snaps[i].segments)
    BY <2>1
  <2>3. snaps[i] \in Snapshots
    BY <1>1
  <2>4. snaps[i].segments \in Seq(Segments)
    BY <2>3 DEF Snapshots
  <2>5. target' \in Seq(Segments)
    BY <2>2, <2>4, ManifestType
  <2> QED BY <1>1, <2>1, <2>5 DEF EngineType
<1>8. CASE Restart
  <2>1. engine' = "idle" /\ target' = <<>> /\ UNCHANGED snaps
    BY <1>8 DEF Restart
  <2> QED BY <1>1, <2>1 DEF EngineType
<1> QED BY <1>2, <1>3, <1>4, <1>5, <1>6, <1>7, <1>8, Frames DEF OthersKeep

(* The log's numbers are given out one at a time, to rows it may not be    *)
(* able to read.                                                           *)
LEMMA Numbers ==
  ASSUME Types, [Next]_vars
  PROVE  /\ nextId' = nextId \/ nextId' = nextId + 1
         /\ unreadable \subseteq unreadable' /\ unreadable' \subseteq unreadable \cup {nextId}
<1>1. CASE UNCHANGED <<nextId, unreadable>>
  BY <1>1
<1>2. ASSUME NEW w \in Writer, NEW k \in Key, NEW v, Changed(w, k, v)
      PROVE  /\ nextId' = nextId + 1 /\ unreadable \subseteq unreadable'
             /\ unreadable' \subseteq unreadable \cup {nextId}
  BY <1>2 DEF Changed
<1>3. ASSUME NEW w \in Writer, Application(w)
      PROVE  UNCHANGED <<nextId, unreadable>> \/ \E k \in Key : \E v : Changed(w, k, v)
  BY <1>3 DEF Application, Write, WriteOpaque, Rekey, Truncate, CommitWrites, AbortWrites
<1>4. (\E d \in Drainers : DeleteBatch(d)) \/ RestoreTables \/ UNCHANGED dbVars
        => UNCHANGED <<nextId, unreadable>>
  BY DEF DeleteBatch, RestoreTables, dbVars
<1> QED BY <1>1, <1>2, <1>3, <1>4, Frames DEF OthersKeep

LEMMA PastStep ==
  ASSUME Types, [Next]_vars
  PROVE  PastType'
<1>1. /\ due \subseteq 1..(nextId - 1) /\ due \cap unreadable = {} /\ nextId \in Nat
      /\ heard \in [Key -> Stored] /\ since \in [Key -> SUBSET Stored]
      /\ fenced \subseteq 1..(nextId - 1)
  BY DEF Types, PastType, DbType
<1>2. /\ nextId' = nextId \/ nextId' = nextId + 1
      /\ unreadable' \subseteq unreadable \cup {nextId}
  BY Numbers
<1>3. due \subseteq 1..(nextId' - 1) /\ due \cap unreadable' = {} /\ fenced \subseteq 1..(nextId' - 1)
  BY <1>1, <1>2
<1>4. CASE UNCHANGED pastVars
  BY <1>1, <1>3, <1>4 DEF PastType, pastVars
<1>5. ASSUME NEW w \in Writer, CommitWrites(w) PROVE PastType'
  <2>1. /\ due' = due \cup (Ids(open[w]) \ unreadable) /\ heard' = AppliedTo(heard, open[w])
        /\ since' = [k \in Key |-> since[k] \cup {heard'[k]}]
        /\ UNCHANGED <<nextId, unreadable, fenced>>
    BY <1>5 DEF CommitWrites
  <2>2. open[w] \in SUBSET Change /\ IsFiniteSet(open[w])
    BY DEF Types, DbType
  <2>3. heard' \in [Key -> Stored]
    BY <1>1, <2>1, <2>2, AppliedToType
  <2>4. since' \in [Key -> SUBSET Stored]
    BY <1>1, <2>1, <2>3
  <2>5. \A row \in open[w] : row.id \in 1..(nextId - 1)
    BY HeldBy DEF Types, DbType
  <2>6. Ids(open[w]) \subseteq 1..(nextId - 1)
    BY <2>5 DEF Ids
  <2>7. due' \subseteq 1..(nextId' - 1) /\ due' \cap unreadable' = {}
    BY <1>1, <2>1, <2>6
  <2> QED BY <1>3, <2>1, <2>3, <2>4, <2>7 DEF PastType
<1>6. CASE PassFence
  <2>1. since' = [k \in Key |-> {heard[k]}] /\ fenced' = due /\ UNCHANGED <<due, heard>>
    BY <1>6 DEF PassFence
  <2>2. since' \in [Key -> SUBSET Stored]
    BY <1>1, <2>1
  <2> QED BY <1>1, <1>3, <2>1, <2>2 DEF PastType
<1>7. CASE RestoreTables
  <2>1. due' = {} /\ heard' = table' /\ UNCHANGED <<since, fenced>>
    BY <1>7 DEF RestoreTables
  <2> QED BY <1>1, <1>3, <2>1, DbStep DEF PastType, DbType
<1>8. CASE Restart
  <2>1. due' = {} /\ heard' = ApplyRows(table, InOrder) /\ UNCHANGED <<since, fenced>>
    BY <1>8 DEF Restart, ApplyRows
  <2>2. log \subseteq Change /\ IsFiniteSet(log) /\ DistinctIds(log) /\ table \in [Key -> Stored]
    BY DEF Types, DbType, DistinctIds
  <2>3. InOrder \in Seq(log)
    BY <2>2, LogInOrder
  <2>4. InOrder \in Seq(Change)
    BY <2>2, <2>3
  <2>5. heard' \in [Key -> Stored]
    BY <2>1, <2>2, <2>4, ApplyRowsType
  <2> QED BY <1>1, <1>3, <2>1, <2>5 DEF PastType
<1> QED BY <1>4, <1>5, <1>6, <1>7, <1>8, Frames DEF OthersKeep

LEMMA BoundStep ==
  ASSUME odd \in Nat, [Next]_vars
  PROVE  odd' \in Nat
<1>1. ASSUME NEW w \in Writer, NEW k \in Key, NEW v \in Row, Write(w, k, v)
      PROVE  odd' \in Nat
  BY <1>1 DEF Write, boundVars
<1>2. ASSUME NEW w \in Writer, NEW k \in Key, WriteOpaque(w, k)
      PROVE  odd' \in Nat
  BY <1>2 DEF WriteOpaque, boundVars
<1>3. ASSUME NEW w \in Writer, NEW k \in Key, NEW m \in Key, Rekey(w, k, m)
      PROVE  odd' \in Nat
  BY <1>3 DEF Rekey, boundVars
<1>4. ASSUME NEW w \in Writer, Truncate(w)
      PROVE  odd' \in Nat
  BY <1>4 DEF Truncate, boundVars
<1>5. ASSUME NEW w \in Writer, CommitWrites(w)
      PROVE  odd' \in Nat
  BY <1>5 DEF CommitWrites, boundVars
<1>6. ASSUME NEW w \in Writer, AbortWrites(w)
      PROVE  odd' \in Nat
  BY <1>6 DEF AbortWrites, boundVars
<1>7. ASSUME NEW d \in Drainers, Fetch(d)
      PROVE  odd' \in Nat
  BY <1>7 DEF Fetch, boundVars
<1>8. ASSUME NEW d \in Drainers, Send(d)
      PROVE  odd' \in Nat
  BY <1>8 DEF Send, boundVars
<1>9. ASSUME NEW d \in Drainers, Skip(d)
      PROVE  odd' \in Nat
  BY <1>9 DEF Skip, boundVars
<1>10. ASSUME NEW d \in Drainers, DeleteBatch(d)
      PROVE  odd' \in Nat
  BY <1>10 DEF DeleteBatch, boundVars
<1>11. ASSUME NEW d \in Drainers, DrainFails(d)
      PROVE  odd' \in Nat
  BY <1>11 DEF DrainFails, boundVars
<1>12. CASE ApplyEvent
  BY <1>12 DEF ApplyEvent, boundVars
<1>13. CASE TakeSnapshot
  BY <1>13 DEF TakeSnapshot, boundVars
<1>14. CASE TakeSnapshotFails
  BY <1>14 DEF TakeSnapshotFails, boundVars
<1>15. CASE BeginSnapshot
  BY <1>15 DEF BeginSnapshot, boundVars
<1>16. CASE PassFence
  BY <1>16 DEF PassFence, boundVars
<1>17. CASE SnapshotFails
  BY <1>17 DEF SnapshotFails, boundVars
<1>18. CASE FenceRefuses
  BY <1>18 DEF FenceRefuses, boundVars
<1>19. CASE AskStreamer
  BY <1>19 DEF AskStreamer, boundVars
<1>20. CASE BeginRestore
  BY <1>20 DEF BeginRestore, boundVars
<1>21. CASE RestoreTables
  BY <1>21 DEF RestoreTables, boundVars
<1>22. CASE RestoreFails
  BY <1>22 DEF RestoreFails, boundVars
<1>23. CASE Restart
  BY <1>23 DEF Restart, boundVars
<1>24. CASE UNCHANGED vars
  BY <1>24 DEF vars, boundVars
<1> QED
  BY <1>1, <1>2, <1>3, <1>4, <1>5, <1>6, <1>7, <1>8, <1>9, <1>10, <1>11,
     <1>12, <1>13, <1>14, <1>15, <1>16, <1>17, <1>18, <1>19, <1>20, <1>21,
     <1>22, <1>23, <1>24
     DEF Next, Application, Drain, Streamer, Engine

(* Only a restore that rewrites the tables counts.                         *)
LEMMA OnlyRestores ==
  ASSUME [Next]_vars
  PROVE  restores' = restores \/ RestoreTables
<1>1. ASSUME NEW w \in Writer, NEW k \in Key, NEW v \in Row, Write(w, k, v)
      PROVE  restores' = restores \/ RestoreTables
  BY <1>1 DEF Write, vars, boundVars
<1>2. ASSUME NEW w \in Writer, NEW k \in Key, WriteOpaque(w, k)
      PROVE  restores' = restores \/ RestoreTables
  BY <1>2 DEF WriteOpaque, vars, boundVars
<1>3. ASSUME NEW w \in Writer, NEW k \in Key, NEW m \in Key, Rekey(w, k, m)
      PROVE  restores' = restores \/ RestoreTables
  BY <1>3 DEF Rekey, vars, boundVars
<1>4. ASSUME NEW w \in Writer, Truncate(w)
      PROVE  restores' = restores \/ RestoreTables
  BY <1>4 DEF Truncate, vars, boundVars
<1>5. ASSUME NEW w \in Writer, CommitWrites(w)
      PROVE  restores' = restores \/ RestoreTables
  BY <1>5 DEF CommitWrites, vars, boundVars
<1>6. ASSUME NEW w \in Writer, AbortWrites(w)
      PROVE  restores' = restores \/ RestoreTables
  BY <1>6 DEF AbortWrites, vars, boundVars
<1>7. ASSUME NEW d \in Drainers, Fetch(d)
      PROVE  restores' = restores \/ RestoreTables
  BY <1>7 DEF Fetch, vars, boundVars
<1>8. ASSUME NEW d \in Drainers, Send(d)
      PROVE  restores' = restores \/ RestoreTables
  BY <1>8 DEF Send, vars, boundVars
<1>9. ASSUME NEW d \in Drainers, Skip(d)
      PROVE  restores' = restores \/ RestoreTables
  BY <1>9 DEF Skip, vars, boundVars
<1>10. ASSUME NEW d \in Drainers, DeleteBatch(d)
      PROVE  restores' = restores \/ RestoreTables
  BY <1>10 DEF DeleteBatch, vars, boundVars
<1>11. ASSUME NEW d \in Drainers, DrainFails(d)
      PROVE  restores' = restores \/ RestoreTables
  BY <1>11 DEF DrainFails, vars, boundVars
<1>12. CASE ApplyEvent
  BY <1>12 DEF ApplyEvent, vars, boundVars
<1>13. CASE TakeSnapshot
  BY <1>13 DEF TakeSnapshot, vars, boundVars
<1>14. CASE TakeSnapshotFails
  BY <1>14 DEF TakeSnapshotFails, vars, boundVars
<1>15. CASE BeginSnapshot
  BY <1>15 DEF BeginSnapshot, vars, boundVars
<1>16. CASE PassFence
  BY <1>16 DEF PassFence, vars, boundVars
<1>17. CASE SnapshotFails
  BY <1>17 DEF SnapshotFails, vars, boundVars
<1>18. CASE FenceRefuses
  BY <1>18 DEF FenceRefuses, vars, boundVars
<1>19. CASE AskStreamer
  BY <1>19 DEF AskStreamer, vars, boundVars
<1>20. CASE BeginRestore
  BY <1>20 DEF BeginRestore, vars, boundVars
<1>21. CASE RestoreTables
  BY <1>21
<1>22. CASE RestoreFails
  BY <1>22 DEF RestoreFails, vars, boundVars
<1>23. CASE Restart
  BY <1>23 DEF Restart, vars, boundVars
<1>24. CASE UNCHANGED vars
  BY <1>24 DEF vars, boundVars
<1> QED
  BY <1>1, <1>2, <1>3, <1>4, <1>5, <1>6, <1>7, <1>8, <1>9, <1>10, <1>11,
     <1>12, <1>13, <1>14, <1>15, <1>16, <1>17, <1>18, <1>19, <1>20, <1>21,
     <1>22, <1>23, <1>24
     DEF Next, Application, Drain, Streamer, Engine

LEMMA TypesInit == ASSUME Init PROVE Types
<1>1. table \in [Key -> Stored] /\ heard = table
  BY DEF Init, Stored
<1>2. sealed \in Seq(Segments)
  BY <1>1, BootstrapType DEF Init
<1>3. open = [w \in Writer |-> {}] /\ gone = [w \in Writer |-> {}] /\ log = {}
  BY DEF Init
<1>4. Held = {} /\ IsFiniteSet({})
  BY <1>3, FS_EmptySet DEF Held
<1>5. MaxWrites \in Nat /\ Depth \in Nat
  OBVIOUS
<1>6. nextId = 1 /\ unreadable = {} /\ nextId <= MaxWrites + 1
  BY <1>5 DEF Init
<1>7. DbType
  <2>1. open \in [Writer -> SUBSET Change] /\ gone \in [Writer -> SUBSET Key]
        /\ \A w \in Writer : IsFiniteSet(open[w])
    BY <1>3, <1>4
  <2>2. log \subseteq Change /\ IsFiniteSet(log) /\ log \cup Held = {}
    BY <1>3, <1>4
  <2> QED BY <1>1, <1>6, <2>1, <2>2 DEF DbType, DistinctIds
<1>8. StreamType
  <2>1. chan = <<>> /\ active = <<>>
    BY DEF Init
  <2>2. chan \in Seq(Change \cup {Snap}) /\ Len(chan) = 0 /\ active \in Seq(Change)
    BY <2>1
  <2> QED BY <1>2, <1>5, <2>2 DEF StreamType
<1>9. DrainType
  <2>1. NoDrain \in [busy : BOOLEAN, batch : Seq(Change), sent : Nat]
    BY DEF NoDrain
  <2> QED BY <2>1 DEF Init, DrainType
<1>10. EngineType
  BY DEF Init, EngineType
<1>11. PastType
  BY <1>1, <1>6 DEF Init, PastType
<1>12. BoundType
  BY DEF Init, BoundType
<1> QED BY <1>7, <1>8, <1>9, <1>10, <1>11, <1>12 DEF Types

LEMMA TypesStep == ASSUME Types, [Next]_vars PROVE Types'
<1>1. restores' = restores \/ restores' = restores + 1
  BY OnlyRestores DEF RestoreTables
<1>2. BoundType'
  BY <1>1, BoundStep DEF Types, BoundType
<1> QED BY <1>2, DbStep, StreamStep, DrainStep, EngineStep, PastStep DEF Types

(* Every variable keeps to the values its comment gives it.                *)
LEMMA TypesOK == ASSUME Types PROVE TypeOK
<1>1. nextId \in Nat /\ nextId <= MaxWrites + 1 /\ MaxWrites \in Nat
  BY DEF Types, DbType
<1>2. 1..(nextId - 1) \subseteq 1..MaxWrites
  BY <1>1
<1>3. \A i \in DOMAIN sealed : sealed[i].rows \in Seq(Change) \ {<<>>}
  BY SegmentRows DEF Types, StreamType
<1> QED BY <1>2, <1>3 DEF Types, TypeOK, DbType, StreamType, DrainType, EngineType, PastType

(* Type correctness of the pipeline, whatever the bounds.                  *)
THEOREM CaptureTypeCorrect == Spec => []TypeOK
<1>1. Init => Types
  BY TypesInit
<1>2. Types /\ [Next]_vars => Types'
  BY TypesStep
<1>3. Types => TypeOK
  BY TypesOK
<1> QED BY <1>1, <1>2, <1>3, PTL DEF Spec

-----------------------------------------------------------------------------
(***************************************************************************)
(* A restore finds the poller between ticks: it waited for that to begin,  *)
(* and the poller begins none while it is under way.                       *)
(***************************************************************************)
Quiet == engine = "restore" => ~drain["poller"].busy

LEMMA QuietStep ==
  ASSUME Types, Quiet, [Next]_vars
  PROVE  Quiet'
<1> USE DEF Quiet
<1>1. drain \in [Drainers -> [busy : BOOLEAN, batch : Seq(Change), sent : Nat]] /\ "poller" \in Drainers
  BY DEF Types, DrainType, Drainers
<1>2. CASE BeginRestore
  BY <1>2 DEF BeginRestore, PollerQuiet
<1>3. CASE Restart
  BY <1>3 DEF Restart
<1>4. CASE BeginSnapshot \/ Streamer \/ Engine
  <2>1. engine' # "restore" \/ UNCHANGED <<engine, drain>>
    BY <1>4 DEF BeginSnapshot, Streamer, ApplyEvent, TakeSnapshot, TakeSnapshotFails, Engine, PassFence,
               FenceRefuses, AskStreamer, SnapshotFails, RestoreTables, RestoreFails, engineVars
  <2> QED BY <2>1
<1>5. ASSUME NEW d \in Drainers, Drain(d) \/ DrainFails(d) PROVE Quiet'
  <2>1. engine' = engine \/ engine' = "idle"
    BY <1>5 DEF Drain, Fetch, Send, Skip, DeleteBatch, DrainFails, engineVars
  <2>2. CASE Fetch(d)
    <3>1. engine = "restore" => d # "poller"
      BY <2>2 DEF Fetch, MayFetch
    <3>2. engine = "restore" => drain'["poller"] = drain["poller"]
      BY <1>1, <2>2, <3>1 DEF Fetch
    <3> QED BY <2>1, <3>2
  <2>3. CASE Send(d) \/ Skip(d)
    <3>1. drain' = [drain EXCEPT ![d].sent = @ + 1]
      BY <2>3 DEF Send, Skip
    <3>2. drain'["poller"].busy = drain["poller"].busy
      BY <1>1, <3>1
    <3> QED BY <2>1, <3>2
  <2>4. CASE DeleteBatch(d) \/ DrainFails(d)
    <3>1. drain' = [drain EXCEPT ![d] = NoDrain]
      BY <2>4 DEF DeleteBatch, DrainFails
    <3>2. drain'["poller"] = drain["poller"] \/ drain'["poller"] = NoDrain
      BY <1>1, <3>1
    <3> QED BY <2>1, <3>2 DEF NoDrain
  <2> QED BY <1>5, <2>2, <2>3, <2>4 DEF Drain
<1>6. CASE UNCHANGED engineVars /\ UNCHANGED drain
  BY <1>6 DEF engineVars
<1> QED BY <1>2, <1>3, <1>4, <1>5, <1>6, Frames DEF OthersKeep

(* A restore rewrites the tables only while the poller is between ticks.   *)
THEOREM RestoresQuiesced == Spec => RestoreQuiesced
<1>1. Init => Types /\ Quiet
  BY TypesInit DEF Init, Quiet
<1>2. Types /\ Quiet /\ [Next]_vars => Types' /\ Quiet'
  BY TypesStep, QuietStep
<1>3. Quiet /\ [Next]_vars => [restores' # restores => ~drain["poller"].busy]_vars
  BY OnlyRestores DEF Quiet, RestoreTables
<1> QED BY <1>1, <1>2, <1>3, PTL DEF Spec, RestoreQuiesced

-----------------------------------------------------------------------------
(***************************************************************************)
(* The numbers in the stream: no step but a restart takes one out of it.   *)
(* TakeSnapshot has the number 0, no change does. Settled is what the      *)
(* streamer has applied, whether it is sealed or not.                      *)
(***************************************************************************)
Has(seq, n) == \E i \in 1..Len(seq) : seq[i].id = n
Settled(n) == Has(active, n) \/ \E i \in 1..Len(sealed) : Has(sealed[i].rows, n)
InStream(n) == Has(chan, n) \/ Settled(n)

LEMMA HasAppend ==
  ASSUME NEW S, NEW seq \in Seq(S), NEW x \in S, NEW n
  PROVE  Has(Append(seq, x), n) <=> Has(seq, n) \/ x.id = n
<1> DEFINE l == Len(seq)
           app == Append(seq, x)
<1>1. l \in Nat /\ Len(app) = l + 1 /\ app[l + 1] = x /\ \A i \in 1..l : app[i] = seq[i]
  OBVIOUS
<1> HIDE DEF app
<1>2. (\E i \in 1..(l + 1) : app[i].id = n) <=> (\E i \in 1..l : app[i].id = n) \/ app[l + 1].id = n
  <2> HIDE DEF l
  <2>1. l \in Nat
    BY <1>1 DEF l
  <2>2. \A i : i \in 1..(l + 1) <=> i \in 1..l \/ i = l + 1
    BY <2>1, SMTT(30)
  <2> QED BY <2>2, Zenon
<1> QED BY <1>1, <1>2 DEF Has, app

LEMMA HasTail ==
  ASSUME NEW S, NEW seq \in Seq(S), seq # <<>>, NEW n, Has(seq, n)
  PROVE  Head(seq).id = n \/ Has(Tail(seq), n)
<1>1. PICK i \in 1..Len(seq) : seq[i].id = n
  BY DEF Has
<1>2. CASE i = 1
  BY <1>1, <1>2
<1>3. CASE i # 1
  <2>1. i - 1 \in 1..Len(Tail(seq)) /\ Tail(seq)[i - 1] = seq[i]
    BY <1>3
  <2> QED BY <1>1, <2>1 DEF Has
<1> QED BY <1>2, <1>3

LEMMA StreamIds ==
  ASSUME StreamType, NEW n
  PROVE  n \in Ids(Streamed) <=> InStream(n)
<1>1. chan \in Seq(Change \cup {Snap}) /\ active \in Seq(Change) /\ sealed \in Seq(Segments)
  BY DEF StreamType
<1>2. ASSUME NEW S, NEW seq \in Seq(S) PROVE (\E row \in ToSet(seq) : row.id = n) <=> Has(seq, n)
  BY <1>2 DEF ToSet, Has
<1>3. ASSUME NEW i \in 1..Len(sealed)
      PROVE  (\E row \in ToSet(sealed[i].rows) : row.id = n) <=> Has(sealed[i].rows, n)
  <2>1. sealed[i] \in Segments
    BY <1>1, <1>3
  <2> QED BY <1>2, <2>1, SegmentRows
<1>4. DOMAIN sealed = 1..Len(sealed)
  BY <1>1
<1>5. n \in Ids(Streamed) <=> \E row \in Streamed : row.id = n
  BY DEF Ids
<1>6. (\E row \in Streamed : row.id = n) <=>
        \/ \E row \in ToSet(chan) : row.id = n
        \/ \E row \in ToSet(active) : row.id = n
        \/ \E i \in 1..Len(sealed) : \E row \in ToSet(sealed[i].rows) : row.id = n
  BY <1>4 DEF Streamed
<1> QED BY <1>1, <1>2, <1>3, <1>5, <1>6 DEF InStream, Settled

LEMMA SettledKept ==
  ASSUME Types, NEW n
  PROVE  /\ UNCHANGED <<active, sealed>> /\ Settled(n) => Settled(n)'
         /\ ApplyEvent /\ (Settled(n) \/ Head(chan).id = n) => Settled(n)'
         /\ TakeSnapshot /\ Settled(n) => Settled(n)'
<1>1. chan \in Seq(Change \cup {Snap}) /\ active \in Seq(Change) /\ sealed \in Seq(Segments)
  BY DEF Types, StreamType
<1>2. UNCHANGED <<active, sealed>> /\ Settled(n) => Settled(n)'
  BY DEF Settled
<1>3. ASSUME NEW rows \in Seq(Change), rows # <<>>, sealed' = Append(sealed, Segment(rows)),
             Has(rows, n) \/ \E i \in 1..Len(sealed) : Has(sealed[i].rows, n)
      PROVE  Settled(n)'
  <2>1. Segment(rows) \in Segments /\ Segment(rows).rows = rows
    BY <1>3 DEF Segments, Segment
  <2>2. /\ \A i \in 1..Len(sealed) : i \in 1..Len(sealed') /\ sealed'[i] = sealed[i]
        /\ Len(sealed) + 1 \in 1..Len(sealed') /\ sealed'[Len(sealed) + 1] = Segment(rows)
    BY <1>1, <1>3, <2>1, SMTT(30)
  <2> QED BY <1>3, <2>1, <2>2 DEF Settled
<1>4. ASSUME ApplyEvent, Settled(n) \/ Head(chan).id = n PROVE Settled(n)'
  <2> DEFINE rows == Append(active, Head(chan))
  <2>1. chan # <<>> /\ Head(chan) # Snap
    BY <1>4 DEF ApplyEvent
  <2>2. Head(chan) \in Change
    BY <1>1, <2>1
  <2>3. rows \in Seq(Change) /\ rows # <<>>
    <3>1. rows \in Seq(Change) /\ Len(rows) = Len(active) + 1 /\ Len(active) \in Nat
      BY <1>1, <2>2
    <3> HIDE DEF rows
    <3>2. Len(rows) # 0
      BY <3>1
    <3> QED BY <3>1, <3>2
  <2>4. \/ active' = rows /\ UNCHANGED sealed
        \/ active' = <<>> /\ sealed' = Append(sealed, Segment(rows))
    BY <1>4 DEF ApplyEvent
  <2>5. Has(rows, n) <=> Has(active, n) \/ Head(chan).id = n
    BY <1>1, <2>2, HasAppend
  <2> HIDE DEF rows
  <2>6. Has(rows, n) \/ \E i \in 1..Len(sealed) : Has(sealed[i].rows, n)
    BY <1>4, <2>5 DEF Settled
  <2>7. CASE active' = rows /\ UNCHANGED sealed
    BY <2>6, <2>7 DEF Settled
  <2>8. CASE active' = <<>> /\ sealed' = Append(sealed, Segment(rows))
    BY <1>3, <2>3, <2>6, <2>8
  <2> QED BY <2>4, <2>7, <2>8
<1>5. ASSUME TakeSnapshot, Settled(n) PROVE Settled(n)'
  <2>1. \/ active = <<>> /\ UNCHANGED <<active, sealed>>
        \/ active # <<>> /\ sealed' = Append(sealed, Segment(active))
    BY <1>5 DEF TakeSnapshot, SealedForSnapshot
  <2>2. CASE active # <<>> /\ sealed' = Append(sealed, Segment(active))
    BY <1>1, <1>3, <1>5, <2>2 DEF Settled
  <2> QED BY <1>2, <1>5, <2>1, <2>2
<1> QED BY <1>2, <1>4, <1>5

LEMMA StreamKept ==
  ASSUME Types, [Next]_vars, ~Restart, NEW n \in Nat \ {0}, InStream(n)
  PROVE  InStream(n)'
<1>1. chan \in Seq(Change \cup {Snap}) /\ (Has(chan, n) \/ Settled(n))
  BY DEF Types, StreamType, InStream
<1>2. CASE UNCHANGED streamVars
  <2>1. chan' = chan /\ UNCHANGED <<active, sealed>>
    BY <1>2 DEF streamVars
  <2> QED BY <1>1, <2>1, SettledKept DEF InStream
<1>3. ASSUME NEW x \in Change \cup {Snap}, chan' = Append(chan, x), UNCHANGED <<active, sealed>>
      PROVE  InStream(n)'
  BY <1>1, <1>3, HasAppend, SettledKept DEF InStream
<1>4. ASSUME NEW d \in Drainers, Send(d) PROVE InStream(n)'
  <2>1. NextRow(d) \in Change
    BY <1>4, NextRowType DEF Send
  <2> QED BY <1>3, <1>4, <2>1 DEF Send
<1>5. CASE AskStreamer
  BY <1>3, <1>5 DEF AskStreamer
<1>6. CASE ApplyEvent
  <2>1. Has(chan, n) => Head(chan).id = n \/ Has(chan', n)
    BY <1>1, <1>6, HasTail DEF ApplyEvent
  <2> QED BY <1>1, <1>6, <2>1, SettledKept DEF InStream
<1>7. CASE TakeSnapshot \/ TakeSnapshotFails
  <2>1. chan # <<>> /\ Head(chan) = Snap /\ chan' = Tail(chan)
    BY <1>7 DEF TakeSnapshot, TakeSnapshotFails
  <2>2. Has(chan, n) => Has(chan', n)
    BY <1>1, <2>1, HasTail DEF Snap
  <2>3. TakeSnapshotFails => UNCHANGED <<active, sealed>>
    BY DEF TakeSnapshotFails
  <2> QED BY <1>1, <1>7, <2>2, <2>3, SettledKept DEF InStream
<1> QED BY <1>2, <1>4, <1>5, <1>6, <1>7, Frames DEF OthersKeep, Streamer

LEMMA SentInStream ==
  ASSUME Types, NEW d \in Drainers, Send(d), NEW n, n = NextRow(d).id
  PROVE  InStream(n)'
<1>1. NextRow(d) \in Change /\ chan \in Seq(Change \cup {Snap}) /\ chan' = Append(chan, NextRow(d))
  BY NextRowType DEF Send, Types, StreamType
<1>2. Has(chan', n)
  BY <1>1, HasAppend, SMTT(30)
<1> QED BY <1>2 DEF InStream

-----------------------------------------------------------------------------
(***************************************************************************)
(* No change is lost, when transactions commit in the order of their       *)
(* changes' numbers: a change that becomes visible is older than those     *)
(* still uncommitted. (LateCommitLost shows what happens otherwise.)       *)
(***************************************************************************)
CommitsInOrder == \A row \in log' \ log, other \in Held' : row.id < other.id

(* What is uncommitted is newer than the log and than what was fetched.    *)
Ordered ==
  \A row \in Held :
    /\ \A old \in log : old.id < row.id
    /\ \A d \in Drainers : \A i \in 1..Len(drain[d].batch) : drain[d].batch[i].id < row.id

(* Sent, or skipped.                                                       *)
Known == unreadable \cup {n \in Nat \ {0} : InStream(n)}

(* A batch holds every row of the log that deleting it deletes, and up to  *)
(* sent each of its rows is known.                                         *)
Fetched(d) ==
  LET batch == drain[d].batch
      sent == drain[d].sent
  IN  /\ \A i \in 1..Len(batch) : batch[i].id \in 1..(nextId - 1)
      /\ drain[d].busy =>
           /\ Len(batch) > 0 /\ sent <= Len(batch)
           /\ \A row \in log : row.id <= batch[Len(batch)].id => \E i \in 1..Len(batch) : batch[i] = row
           /\ \A i \in 1..sent : batch[i].id \in Known

Accounted == \A n \in due : n \in Ids(log) \/ InStream(n)

InOrderInv == Types /\ Ordered /\ (\A d \in Drainers : Fetched(d)) /\ Accounted

LEMMA HeldMoves ==
  ASSUME Types, [Next]_vars
  PROVE  \A row \in Held' : row \in Held \/ row.id = nextId
<1>1. CASE UNCHANGED open
  BY <1>1 DEF Held
<1>2. ASSUME NEW w \in Writer, NEW k \in Key, NEW v, Changed(w, k, v), NEW row \in Held'
      PROVE  row \in Held \/ row.id = nextId
  <2>1. open \in [Writer -> SUBSET Change]
    BY DEF Types, DbType
  <2>2. open' = [open EXCEPT ![w] = @ \cup {[id |-> nextId, key |-> k, val |-> v]}]
    BY <1>2 DEF Changed
  <2>3. PICK u \in Writer : row \in open'[u]
    BY <1>2 DEF Held
  <2>4. row \in open[u] \/ row = [id |-> nextId, key |-> k, val |-> v]
    BY <2>1, <2>2, <2>3
  <2> QED BY <2>4, HeldBy
<1>3. ASSUME NEW w \in Writer, open' = [open EXCEPT ![w] = {}], NEW row \in Held' PROVE row \in Held
  <2>1. open \in [Writer -> SUBSET Change]
    BY DEF Types, DbType
  <2>2. PICK u \in Writer : row \in open'[u]
    BY <1>3 DEF Held
  <2>3. row \in open[u]
    BY <1>3, <2>1, <2>2
  <2> QED BY <2>3, HeldBy
<1>4. ASSUME NEW w \in Writer, Application(w)
      PROVE  \/ UNCHANGED open \/ open' = [open EXCEPT ![w] = {}]
             \/ \E k \in Key : \E v : Changed(w, k, v)
  BY <1>4 DEF Application, Write, WriteOpaque, Rekey, Truncate, CommitWrites, AbortWrites
<1>5. (\E d \in Drainers : DeleteBatch(d)) \/ RestoreTables \/ UNCHANGED dbVars => UNCHANGED open
  BY DEF DeleteBatch, RestoreTables, dbVars
<1> QED BY <1>1, <1>2, <1>3, <1>4, <1>5, Frames DEF OthersKeep

LEMMA LogMoves ==
  ASSUME Types, [Next]_vars
  PROVE  /\ \A row \in log' : row \in log \/ row \in Held
         /\ \A row \in log : row \in log' \/ RestoreTables \/ \E d \in Drainers : DeleteBatch(d)
<1>1. ASSUME NEW w \in Writer, Application(w) PROVE log' = log \/ log' = log \cup open[w]
  BY <1>1 DEF Application, Write, WriteOpaque, Rekey, Truncate, CommitWrites, AbortWrites
<1>2. UNCHANGED dbVars => log' = log
  BY DEF dbVars
<1>3. ASSUME NEW d \in Drainers, DeleteBatch(d) PROVE log' \subseteq log
  BY <1>3 DEF DeleteBatch
<1>4. RestoreTables => log' = {}
  BY DEF RestoreTables
<1> QED BY <1>1, <1>2, <1>3, <1>4, HeldBy, Frames DEF OthersKeep

LEMMA DrainMoves ==
  ASSUME Types, [Next]_vars, NEW d \in Drainers
  PROVE  \/ drain'[d] = drain[d] \/ drain'[d] = NoDrain
         \/ Fetch(d) /\ drain'[d] = [busy |-> TRUE, batch |-> Batch, sent |-> 0]
         \/ (Send(d) \/ Skip(d)) /\ drain'[d] = [drain[d] EXCEPT !.sent = @ + 1]
<1>1. drain \in [Drainers -> [busy : BOOLEAN, batch : Seq(Change), sent : Nat]]
  BY DEF Types, DrainType
<1>2. CASE Restart
  BY <1>2 DEF Restart
<1>3. ASSUME NEW e \in Drainers, Drain(e) \/ DrainFails(e), e # d PROVE drain'[d] = drain[d]
  BY <1>1, <1>3 DEF Drain, Fetch, Send, Skip, DeleteBatch, DrainFails
<1>4. CASE Fetch(d)
  BY <1>1, <1>4 DEF Fetch
<1>5. CASE Send(d) \/ Skip(d)
  <2>1. drain' = [drain EXCEPT ![d].sent = @ + 1]
    BY <1>5 DEF Send, Skip
  <2>2. drain'[d] = [drain[d] EXCEPT !.sent = @ + 1]
    BY <1>1, <2>1
  <2> QED BY <1>5, <2>2
<1>6. CASE DeleteBatch(d) \/ DrainFails(d)
  BY <1>1, <1>6 DEF DeleteBatch, DrainFails
<1> QED BY <1>2, <1>3, <1>4, <1>5, <1>6, Frames DEF OthersKeep, Drain

LEMMA KnownKept ==
  ASSUME Types, [Next]_vars, ~Restart
  PROVE  Known \subseteq Known'
<1> SUFFICES ASSUME NEW n \in Known PROVE n \in Known'
  OBVIOUS
<1>1. CASE n \in unreadable
  BY <1>1, Numbers DEF Known
<1>2. CASE n \in Nat \ {0} /\ InStream(n)
  BY <1>2, StreamKept DEF Known
<1> QED BY <1>1, <1>2 DEF Known

LEMMA OrderedStep ==
  ASSUME Types, Ordered, \A d \in Drainers : Fetched(d), [Next]_vars, CommitsInOrder
  PROVE  Ordered'
<1>1. nextId \in Nat /\ \A row \in log \cup Held : row.id \in 1..(nextId - 1)
  BY DEF Types, DbType
<1>2. ASSUME NEW d \in Drainers, NEW i \in 1..Len(drain'[d].batch)
      PROVE  \/ i \in 1..Len(drain[d].batch) /\ drain'[d].batch[i] = drain[d].batch[i]
             \/ drain'[d].batch[i] \in log
  <2>1. CASE drain'[d].batch = drain[d].batch
    BY <1>2, <2>1
  <2>2. CASE drain'[d] = NoDrain
    BY <1>2, <2>2 DEF NoDrain
  <2>3. CASE Fetch(d) /\ drain'[d].batch = Batch
    BY <1>2, <2>3, BatchRows DEF Fetch
  <2>4. drain'[d] = [drain[d] EXCEPT !.sent = @ + 1] => drain'[d].batch = drain[d].batch
    <3>1. drain[d] \in [busy : BOOLEAN, batch : Seq(Change), sent : Nat]
      BY DEF Types, DrainType
    <3> QED BY <3>1
  <2>5. [busy |-> TRUE, batch |-> Batch, sent |-> 0].batch = Batch
    OBVIOUS
  <2> QED BY <2>1, <2>2, <2>3, <2>4, <2>5, DrainMoves
<1>3. ASSUME NEW d \in Drainers, NEW i \in 1..Len(drain[d].batch)
      PROVE  drain[d].batch[i].id \in 1..(nextId - 1)
  BY <1>3 DEF Fetched
<1> SUFFICES ASSUME NEW row \in Held'
             PROVE  /\ \A old \in log' : old.id < row.id
                    /\ \A d \in Drainers : \A i \in 1..Len(drain'[d].batch) : drain'[d].batch[i].id < row.id
  BY DEF Ordered
<1>4. \A old \in log' \ log : old.id < row.id
  BY DEF CommitsInOrder
<1>5. \A old \in log : old.id < row.id
  <2>1. CASE row \in Held
    BY <2>1 DEF Ordered
  <2>2. CASE row.id = nextId
    BY <1>1, <2>2
  <2> QED BY <2>1, <2>2, HeldMoves
<1>6. \A d \in Drainers : \A i \in 1..Len(drain[d].batch) : drain[d].batch[i].id < row.id
  <2>1. CASE row \in Held
    BY <2>1 DEF Ordered
  <2>2. CASE row.id = nextId
    <3> SUFFICES ASSUME NEW d \in Drainers, NEW i \in 1..Len(drain[d].batch)
                 PROVE  drain[d].batch[i].id < row.id
      OBVIOUS
    <3> DEFINE m == drain[d].batch[i].id
    <3>1. m \in 1..(nextId - 1)
      BY <1>3
    <3> HIDE DEF m
    <3>2. m < nextId
      BY <1>1, <3>1
    <3> QED BY <2>2, <3>2 DEF m
  <2> QED BY <2>1, <2>2, HeldMoves
<1> QED BY <1>2, <1>4, <1>5, <1>6

LEMMA FetchedStep ==
  ASSUME Types, Ordered, NEW d \in Drainers, Fetched(d), [Next]_vars
  PROVE  Fetched(d)'
<1> DEFINE Sound(b, s, known) ==
             /\ Len(b) > 0 /\ s <= Len(b)
             /\ \A row \in log' : row.id <= b[Len(b)].id => \E i \in 1..Len(b) : b[i] = row
             /\ \A i \in 1..s : b[i].id \in known
           b == drain[d].batch
           s == drain[d].sent
<1>1. b \in Seq(Change) /\ s \in Nat /\ drain[d] \in [busy : BOOLEAN, batch : Seq(Change), sent : Nat]
  BY DEF Types, DrainType
<1>2. nextId \in Nat /\ (nextId' = nextId \/ nextId' = nextId + 1)
  BY Numbers DEF Types, DbType
<1>3. \A i \in 1..Len(b) :
        b[i].id \in 1..(nextId - 1) /\ b[i].id \in 1..(nextId' - 1) /\ b[i].id \in Nat \ {0}
  <2>1. \A m : m \in 1..(nextId - 1) => m \in 1..(nextId' - 1) /\ m \in Nat \ {0}
    BY <1>2
  <2>2. \A i \in 1..Len(b) : b[i].id \in 1..(nextId - 1)
    BY DEF Fetched
  <2> HIDE DEF b
  <2> QED BY <2>1, <2>2
<1>4. ASSUME ~Restart, drain[d].busy
      PROVE  Sound(b, s, Known')
  <2>1. Len(b) > 0 /\ s <= Len(b) /\ \A i \in 1..s : b[i].id \in Known
    BY <1>4 DEF Fetched
  <2>2. \A row \in log : row.id <= b[Len(b)].id => \E i \in 1..Len(b) : b[i] = row
    BY <1>4 DEF Fetched
  <2>3. Len(b) \in 1..Len(b)
    BY <1>1, <2>1
  <2>4. \A row \in Held : b[Len(b)].id < row.id
    BY <2>3 DEF Ordered
  <2>5. \A row \in Held : row.id \in Nat
    BY DEF Types, DbType
  <2>6. b[Len(b)].id \in Nat
    BY <1>3, <2>3
  <2>7. \A row \in Held : ~(row.id <= b[Len(b)].id)
    <3> SUFFICES ASSUME NEW row \in Held PROVE ~(row.id <= b[Len(b)].id)
      OBVIOUS
    <3> DEFINE new == row.id
               last == b[Len(b)].id
    <3>1. last < new /\ new \in Nat /\ last \in Nat
      BY <2>4, <2>5, <2>6
    <3> HIDE DEF new, last
    <3>2. ~(new <= last)
      BY <3>1
    <3> QED BY <3>2 DEF new, last
  <2>8. Known \subseteq Known'
    BY <1>4, KnownKept
  <2>9. \A row \in log' : row \in log \/ row \in Held
    BY LogMoves
  <2> HIDE DEF b, s
  <2> QED BY <2>1, <2>2, <2>7, <2>8, <2>9
<1>5. CASE drain'[d] = NoDrain
  BY <1>5 DEF Fetched, NoDrain
<1>6. CASE drain'[d] = drain[d] /\ ~Restart
  BY <1>3, <1>4, <1>6 DEF Fetched
<1>7. CASE Fetch(d) /\ drain'[d] = [busy |-> TRUE, batch |-> Batch, sent |-> 0]
  <2>1. log # {} /\ log' = log /\ nextId' = nextId
    BY <1>7 DEF Fetch, dbVars
  <2>2. DistinctIds(log) /\ log \subseteq Change /\ IsFiniteSet(log)
    BY DEF Types, DbType, DistinctIds
  <2>3. \A row \in log : row.id <= Batch[Len(Batch)].id => \E i \in 1..Len(Batch) : Batch[i] = row
    BY <2>1, <2>2, BatchOldest
  <2>4. Len(Batch) \in Nat \ {0} /\ \A i \in 1..Len(Batch) : Batch[i] \in log
    BY <2>1, BatchRows
  <2>5. \A row \in log : row.id \in 1..(nextId - 1)
    BY DEF Types, DbType
  <2>6. drain'[d].batch = Batch /\ drain'[d].sent = 0
    BY <1>7
  <2> QED BY <2>1, <2>3, <2>4, <2>5, <2>6 DEF Fetched
<1>8. CASE (Send(d) \/ Skip(d)) /\ drain'[d] = [drain[d] EXCEPT !.sent = @ + 1]
  <2>1. s < Len(b) /\ UNCHANGED dbVars
    BY <1>8 DEF Send, Skip, Unsent
  <2>2. drain'[d].batch = b /\ drain'[d].sent = s + 1 /\ drain'[d].busy = drain[d].busy
    BY <1>1, <1>8
  <2>a. ~Restart
    <3>1. Restart => drain'[d].sent = 0
      BY DEF Restart, NoDrain
    <3>2. s + 1 # 0
      BY <1>1
    <3> QED BY <2>2, <3>1, <3>2
  <2>3. NextRow(d) = b[s + 1] /\ s + 1 \in 1..Len(b)
    BY <1>1, <2>1 DEF NextRow
  <2>4. b[s + 1].id \in Known'
    <3>1. b[s + 1].id \in Nat \ {0}
      BY <1>3, <2>3
    <3>2. CASE Send(d)
      BY <2>3, <3>1, <3>2, SentInStream DEF Known
    <3>3. CASE Skip(d)
      BY <2>1, <2>3, <3>3 DEF Skip, Known, dbVars
    <3> QED BY <1>8, <3>2, <3>3
  <2>5. drain[d].busy => Sound(b, s + 1, Known')
    <3> SUFFICES ASSUME drain[d].busy PROVE Sound(b, s + 1, Known')
      OBVIOUS
    <3>1. Sound(b, s, Known')
      BY <1>4, <2>a
    <3>2. \A i \in 1..(s + 1) : i \in 1..s \/ i = s + 1
      BY <1>1, SMTT(30)
    <3>3. s + 1 <= Len(b)
      BY <2>3
    <3> HIDE DEF b, s
    <3> QED BY <2>4, <3>1, <3>2, <3>3
  <2> QED BY <1>3, <2>2, <2>5 DEF Fetched
<1>9. Restart => drain'[d] = NoDrain
  BY DEF Restart
<1> QED BY <1>5, <1>6, <1>7, <1>8, <1>9, DrainMoves

LEMMA AccountedStep ==
  ASSUME Types, \A d \in Drainers : Fetched(d), Accounted, [Next]_vars
  PROVE  Accounted'
<1> SUFFICES ASSUME NEW n \in due' PROVE n \in Ids(log') \/ InStream(n)'
  BY DEF Accounted
<1>1. ~Restart /\ ~RestoreTables
  BY DEF Restart, RestoreTables
<1>2. n \in due \/ \E w \in Writer : CommitWrites(w) /\ n \in Ids(open[w])
  <2>1. CASE UNCHANGED pastVars
    BY <2>1 DEF pastVars
  <2>2. CASE PassFence
    BY <2>2 DEF PassFence
  <2>3. ASSUME NEW w \in Writer, CommitWrites(w) PROVE n \in due \/ n \in Ids(open[w])
    BY <2>3 DEF CommitWrites
  <2> QED BY <1>1, <2>1, <2>2, <2>3, Frames DEF OthersKeep
<1>3. CASE \E w \in Writer : CommitWrites(w) /\ n \in Ids(open[w])
  BY <1>3 DEF CommitWrites, Ids
<1>4. ASSUME InStream(n), n \in due PROVE InStream(n)'
  <2>1. n \in Nat \ {0}
    BY <1>4 DEF Types, PastType, DbType
  <2> QED BY <1>1, <1>4, <2>1, StreamKept
<1>5. ASSUME n \in due, NEW row \in log, row.id = n PROVE n \in Ids(log') \/ InStream(n)'
  <2>1. CASE row \in log'
    BY <1>5, <2>1 DEF Ids
  <2>2. ASSUME NEW d \in Drainers, DeleteBatch(d), row \notin log' PROVE InStream(n)'
    <3> DEFINE b == drain[d].batch
    <3>1. drain[d].busy /\ drain[d].sent = Len(b) /\ log' = {r \in log : r.id > b[Len(b)].id}
      BY <2>2 DEF DeleteBatch, AllSent
    <3>2. b \in Seq(Change)
      BY DEF Types, DrainType
    <3>3. Len(b) > 0 /\ (row.id <= b[Len(b)].id => \E i \in 1..Len(b) : b[i] = row)
          /\ \A i \in 1..Len(b) : b[i].id \in Known
      BY <3>1 DEF Fetched
    <3>4. row.id \in Nat /\ b[Len(b)].id \in Nat
      <4>1. Len(b) \in 1..Len(b) /\ row \in Change
        BY <3>2, <3>3 DEF Types, DbType
      <4>2. b[Len(b)] \in Change
        BY <3>2, <4>1
      <4> QED BY <4>1, <4>2 DEF Change
    <3>5. row.id <= b[Len(b)].id
      <4> DEFINE new == row.id
                 last == b[Len(b)].id
      <4>1. ~(new > last) /\ new \in Nat /\ last \in Nat
        BY <1>5, <2>2, <3>1, <3>4
      <4> HIDE DEF new, last
      <4>2. new <= last
        BY <4>1
      <4> QED BY <4>2 DEF new, last
    <3>6. n \in Known
      BY <1>5, <3>3, <3>5
    <3>7. n \notin unreadable
      BY <1>5 DEF Types, PastType
    <3> QED BY <1>4, <1>5, <3>6, <3>7 DEF Known
  <2> QED BY <1>1, <2>1, <2>2, LogMoves
<1>6. n \in due => InStream(n) \/ \E row \in log : row.id = n
  BY DEF Accounted, Ids
<1> QED BY <1>2, <1>3, <1>4, <1>5, <1>6

LEMMA InOrderInit == ASSUME Init PROVE InOrderInv
<1>1. Types
  BY TypesInit
<1>2. Ordered
  <2>1. Held = {}
    BY DEF Init, Held
  <2> QED BY <2>1 DEF Ordered
<1>3. ASSUME NEW d \in Drainers PROVE Fetched(d)
  <2>1. drain[d] = NoDrain
    BY DEF Init
  <2> QED BY <2>1 DEF Fetched, NoDrain
<1>4. Accounted
  BY DEF Init, Accounted
<1> QED BY <1>1, <1>2, <1>3, <1>4 DEF InOrderInv

LEMMA InOrderStep ==
  ASSUME InOrderInv, [Next]_vars, CommitsInOrder
  PROVE  InOrderInv'
BY TypesStep, OrderedStep, FetchedStep, AccountedStep DEF InOrderInv

LEMMA AllAccounted == ASSUME InOrderInv PROVE NothingLost
BY StreamIds DEF InOrderInv, Accounted, NothingLost, Types

(* A committed change is in the log until it is in the stream, provided    *)
(* changes become visible in the order of their numbers.                   *)
THEOREM InOrderLosesNothing == Spec /\ [][CommitsInOrder]_vars => []NothingLost
<1>1. Init => InOrderInv
  BY InOrderInit
<1>2. InOrderInv /\ [Next]_vars /\ [CommitsInOrder]_vars => InOrderInv'
  <2>1. UNCHANGED vars => CommitsInOrder
    BY DEF vars, dbVars, CommitsInOrder
  <2> QED BY <2>1, InOrderStep
<1>3. InOrderInv => NothingLost
  BY AllAccounted
<1> QED BY <1>1, <1>2, <1>3, PTL DEF Spec

(* Transactions that do not overlap commit in the order of their numbers.  *)
LEMMA OneWriterInOrder ==
  ASSUME InOrderInv, [Next]_vars, \A v, w \in Writer : v = w
  PROVE  CommitsInOrder
<1> SUFFICES ASSUME NEW row \in log' \ log, NEW other \in Held' PROVE FALSE
  BY DEF CommitsInOrder
<1>1. PICK w \in Writer : Application(w)
  <2>1. UNCHANGED dbVars \/ (\E d \in Drainers : DeleteBatch(d)) \/ RestoreTables => log' \subseteq log
    BY DEF dbVars, DeleteBatch, RestoreTables
  <2> QED BY <2>1, Frames DEF OthersKeep
<1>2. CommitWrites(w)
  BY <1>1 DEF Application, Write, WriteOpaque, Rekey, Truncate, AbortWrites
<1>3. open' = [open EXCEPT ![w] = {}] /\ open \in [Writer -> SUBSET Change]
  BY <1>2 DEF CommitWrites, InOrderInv, Types, DbType
<1>4. PICK u \in Writer : other \in open'[u]
  BY DEF Held
<1>5. u = w
  OBVIOUS
<1> QED BY <1>3, <1>4, <1>5

(* The application's transactions do not overlap: nothing is lost.         *)
THEOREM OneWriterLosesNothing ==
  ASSUME \A v, w \in Writer : v = w
  PROVE  Spec => []NothingLost
<1>1. Init => InOrderInv
  BY InOrderInit
<1>2. InOrderInv /\ [Next]_vars => InOrderInv'
  BY OneWriterInOrder, InOrderStep
<1>3. InOrderInv => NothingLost
  BY AllAccounted
<1> QED BY <1>1, <1>2, <1>3, PTL DEF Spec

-----------------------------------------------------------------------------
(***************************************************************************)
(* The snapshot's own drain belongs to its fence, and one snapshot at a    *)
(* time is asked for.                                                      *)
(***************************************************************************)
FenceDrains == drain["engine"].busy => engine = "drain"

AskedOnce ==
  \A i \in 1..Len(chan) : chan[i] = Snap =>
    engine = "wait" /\ \A j \in 1..Len(chan) : chan[j] = Snap => j = i

LEMMA NotBusy == ~NoDrain.busy /\ Len(NoDrain.batch) = 0 /\ NoDrain.sent = 0
BY DEF NoDrain

LEMMA NoneAsked ==
  ASSUME AskedOnce, engine # "wait"
  PROVE  \A i \in 1..Len(chan) : chan[i] # Snap
BY DEF AskedOnce

LEMMA AskedFirst ==
  ASSUME Types, AskedOnce, TakeSnapshot \/ TakeSnapshotFails
  PROVE  /\ engine = "wait" /\ engine' = "idle" /\ chan' = Tail(chan)
         /\ Len(chan) \in Nat \ {0} /\ chan[1] = Snap /\ Head(chan) = Snap
         /\ \A i \in 1..Len(chan) : chan[i] = Snap => i = 1
<1>1. chan # <<>> /\ Head(chan) = Snap /\ chan' = Tail(chan) /\ engine' = "idle"
  BY DEF TakeSnapshot, TakeSnapshotFails
<1>2. chan \in Seq(Change \cup {Snap})
  BY DEF Types, StreamType
<1>3. Len(chan) \in Nat \ {0} /\ 1 \in 1..Len(chan) /\ chan[1] = Snap
  BY <1>1, <1>2
<1> QED BY <1>1, <1>3 DEF AskedOnce

LEMMA EngineMoves ==
  ASSUME Types, FenceDrains, [Next]_vars
  PROVE  \/ engine' = engine
         \/ TakeSnapshot \/ TakeSnapshotFails \/ Restart \/ PassFence \/ AskStreamer
         \/ engine' = "idle" /\ engine # "wait" /\ ~drain'["engine"].busy
         \/ engine = "idle" /\ engine' \in {"drain", "restore"} /\ UNCHANGED drain
<1>1. drain \in [Drainers -> [busy : BOOLEAN, batch : Seq(Change), sent : Nat]] /\ "engine" \in Drainers
  BY DEF Types, DrainType, Drainers
<1>2. UNCHANGED engineVars \/ ApplyEvent => engine' = engine
  BY DEF engineVars, ApplyEvent
<1>3. ASSUME NEW d \in Drainers, DrainFails(d)
      PROVE  engine' = engine \/ (engine' = "idle" /\ engine # "wait" /\ ~drain'["engine"].busy)
  <2>1. CASE d = "engine"
    <3>1. drain["engine"].busy /\ engine' = "idle" /\ drain' = [drain EXCEPT !["engine"] = NoDrain]
      BY <1>3, <2>1 DEF DrainFails
    <3>2. drain'["engine"] = NoDrain
      BY <1>1, <3>1
    <3> QED BY <3>1, <3>2, NotBusy DEF FenceDrains
  <2>2. CASE d # "engine"
    BY <1>3, <2>2 DEF DrainFails
  <2> QED BY <2>1, <2>2
<1>4. SnapshotFails \/ FenceRefuses => engine' = "idle" /\ engine # "wait" /\ ~drain'["engine"].busy
  BY DEF SnapshotFails, FenceRefuses
<1>5. RestoreTables \/ RestoreFails => engine' = "idle" /\ engine # "wait" /\ ~drain'["engine"].busy
  BY DEF RestoreTables, RestoreFails, FenceDrains
<1>6. BeginSnapshot \/ BeginRestore => engine = "idle" /\ engine' \in {"drain", "restore"} /\ UNCHANGED drain
  BY DEF BeginSnapshot, BeginRestore
<1> QED BY <1>2, <1>3, <1>4, <1>5, <1>6, Frames DEF OthersKeep, Streamer, Engine

LEMMA FenceDrainsStep ==
  ASSUME Types, FenceDrains, AskedOnce, [Next]_vars
  PROVE  FenceDrains'
<1>1. "engine" \in Drainers /\ drain["engine"] \in [busy : BOOLEAN, batch : Seq(Change), sent : Nat]
  BY DEF Drainers, Types, DrainType
<1> SUFFICES ASSUME drain'["engine"].busy PROVE engine' = "drain"
  BY DEF FenceDrains
<1>2. drain'["engine"] # NoDrain
  BY NotBusy
<1>3. CASE drain'["engine"] = drain["engine"]
  <2>1. engine = "drain" /\ drain["engine"].busy
    BY <1>3 DEF FenceDrains
  <2>2. ~TakeSnapshot /\ ~TakeSnapshotFails
    BY <2>1, AskedFirst
  <2>3. ~Restart /\ ~PassFence /\ ~AskStreamer
    BY <1>1, <1>2, <2>1 DEF Restart, PassFence, FencePassed, AskStreamer
  <2> QED BY <2>1, <2>2, <2>3, EngineMoves
<1>4. CASE Fetch("engine")
  BY <1>4 DEF Fetch, MayFetch, engineVars
<1>5. CASE (Send("engine") \/ Skip("engine")) /\ drain'["engine"] = [drain["engine"] EXCEPT !.sent = @ + 1]
  <2>1. drain["engine"].busy
    BY <1>1, <1>5
  <2>2. UNCHANGED engineVars
    BY <1>5 DEF Send, Skip
  <2> QED BY <2>1, <2>2 DEF FenceDrains, engineVars
<1> QED BY <1>1, <1>2, <1>3, <1>4, <1>5, DrainMoves

(* What is sent next is a change that was numbered.                        *)
LEMMA NextNumbered ==
  ASSUME InOrderInv, NEW d \in Drainers, Unsent(d)
  PROVE  NextRow(d) \in Change /\ NextRow(d) # Snap
<1> DEFINE b == drain[d].batch
           i == drain[d].sent
<1>1. b \in Seq(Change) /\ i \in Nat /\ NextRow(d) \in Change
  BY NextRowType DEF InOrderInv, Types, DrainType
<1>2. i < Len(b) /\ NextRow(d) = b[i + 1]
  BY DEF Unsent, NextRow
<1>3. nextId \in Nat /\ \A j \in 1..Len(b) : b[j].id \in 1..(nextId - 1)
  BY DEF InOrderInv, Fetched, Types, DbType
<1> HIDE DEF b, i
<1>4. i + 1 \in 1..Len(b)
  BY <1>1, <1>2
<1>5. b[i + 1].id # 0
  BY <1>3, <1>4
<1> QED BY <1>1, <1>2, <1>5 DEF Snap

LEMMA AskedStep ==
  ASSUME InOrderInv, FenceDrains, AskedOnce, [Next]_vars
  PROVE  AskedOnce'
<1> DEFINE n == Len(chan)
<1>1. Types /\ chan \in Seq(Change \cup {Snap}) /\ n \in Nat
  BY DEF InOrderInv, Types, StreamType
<1>2. CASE UNCHANGED streamVars
  <2>1. chan' = chan
    BY <1>2 DEF streamVars
  <2>2. CASE engine # "wait"
    BY <2>1, <2>2, NoneAsked DEF AskedOnce
  <2>3. CASE engine = "wait" /\ engine' = "wait"
    BY <2>1, <2>3 DEF AskedOnce
  <2>4. CASE engine = "wait" /\ engine' # "wait"
    <3>1. ~TakeSnapshot /\ ~TakeSnapshotFails
      <4>1. TakeSnapshot \/ TakeSnapshotFails => chan' = Tail(chan) /\ n # 0
        BY <1>1, AskedFirst
      <4>2. n # 0 => Len(Tail(chan)) # n
        BY <1>1
      <4> QED BY <2>1, <4>1, <4>2
    <3>2. Restart
      BY <1>1, <2>4, <3>1, EngineMoves DEF PassFence, FencePassed, AskStreamer
    <3>3. Len(chan') = 0
      BY <3>2 DEF Restart
    <3> QED BY <3>3 DEF AskedOnce
  <2> QED BY <2>2, <2>3, <2>4
<1>3. ASSUME NEW x \in Change \cup {Snap}, chan' = Append(chan, x)
      PROVE  /\ Len(chan') = n + 1 /\ chan'[n + 1] = x /\ \A i \in 1..n : chan'[i] = chan[i]
             /\ \A i \in 1..Len(chan') : i \in 1..n \/ i = n + 1
  BY <1>1, <1>3
<1>4. ASSUME NEW d \in Drainers, Send(d) PROVE AskedOnce'
  <2>1. NextRow(d) \in Change /\ NextRow(d) # Snap /\ chan' = Append(chan, NextRow(d)) /\ engine' = engine
    BY <1>4, NextNumbered DEF Send, engineVars
  <2> HIDE DEF n
  <2>2. \A i \in 1..Len(chan') : chan'[i] = Snap => i \in 1..n /\ chan[i] = Snap
    BY <1>3, <2>1
  <2> QED BY <2>1, <2>2 DEF AskedOnce, n
<1>5. CASE AskStreamer
  <2>1. chan' = Append(chan, Snap) /\ engine' = "wait" /\ engine # "wait"
    BY <1>5 DEF AskStreamer
  <2> HIDE DEF n
  <2>2. \A i \in 1..Len(chan') : chan'[i] = Snap => i = n + 1
    <3>1. \A i \in 1..n : chan[i] # Snap
      BY <2>1, NoneAsked DEF n
    <3> QED BY <1>3, <2>1, <3>1
  <2> QED BY <2>1, <2>2 DEF AskedOnce
<1>6. CASE ApplyEvent
  <2>1. chan # <<>> /\ chan' = Tail(chan) /\ engine' = engine
    BY <1>6 DEF ApplyEvent, engineVars
  <2>2. Len(chan') = n - 1 /\ \A i \in 1..(n - 1) : chan'[i] = chan[i + 1] /\ i + 1 \in 1..n
    BY <1>1, <2>1
  <2>3. \A i, j \in 1..(n - 1) : i + 1 = j + 1 => i = j
    BY <1>1
  <2> HIDE DEF n
  <2> QED BY <2>1, <2>2, <2>3 DEF AskedOnce, n
<1>7. CASE TakeSnapshot \/ TakeSnapshotFails
  <2>1. chan' = Tail(chan) /\ n # 0 /\ \A i \in 1..n : chan[i] = Snap => i = 1
    BY <1>1, <1>7, AskedFirst
  <2>2. Len(chan') = n - 1 /\ \A i \in 1..(n - 1) : chan'[i] = chan[i + 1] /\ i + 1 \in 1..n /\ i + 1 # 1
    BY <1>1, <2>1
  <2> HIDE DEF n
  <2>3. \A i \in 1..Len(chan') : chan'[i] # Snap
    BY <2>1, <2>2
  <2> QED BY <2>3 DEF AskedOnce
<1>8. CASE Restart
  <2>1. Len(chan') = 0
    BY <1>8 DEF Restart
  <2> QED BY <2>1 DEF AskedOnce
<1> QED BY <1>2, <1>4, <1>5, <1>6, <1>7, <1>8, Frames DEF OthersKeep, Streamer

(***************************************************************************)
(* Where the next snapshot cuts the channel: at TakeSnapshot, and at the   *)
(* channel's end while it is still to be asked for.                        *)
(***************************************************************************)
Cut(p) == (p \in 1..Len(chan) /\ chan[p] = Snap) \/ (engine = "take" /\ p = Len(chan) + 1)
Ahead(p) == SubSeq(chan, 1, p - 1)

LEMMA PrefixAll ==
  ASSUME NEW S, NEW seq \in Seq(S)
  PROVE  SubSeq(seq, 1, Len(seq)) = seq
OBVIOUS

LEMMA PrefixOf ==
  ASSUME NEW S, NEW seq \in Seq(S), NEW x \in S, NEW m \in 0..Len(seq)
  PROVE  SubSeq(seq, 1, m) \in Seq(S) /\ SubSeq(Append(seq, x), 1, m) = SubSeq(seq, 1, m)
<1> DEFINE app == Append(seq, x)
           n == Len(seq)
<1>1. n \in Nat /\ m \in 0..n /\ app \in Seq(S) /\ Len(app) = n + 1 /\ \A i \in 1..n : app[i] = seq[i]
  OBVIOUS
<1> HIDE DEF app
<1>2. SubSeq(seq, 1, m) = [i \in 1..m |-> seq[i]]
  OBVIOUS
<1>6. SubSeq(seq, 1, m) \in Seq(S)
  OBVIOUS
<1>3. SubSeq(app, 1, m) = [i \in 1..m |-> app[i]]
  BY <1>1
<1> HIDE DEF n
<1>4. \A i \in 1..m : app[i] = seq[i]
  BY <1>1
<1>5. [i \in 1..m |-> app[i]] = [i \in 1..m |-> seq[i]]
  BY <1>4
<1> QED BY <1>2, <1>3, <1>5, <1>6 DEF app

LEMMA PrefixTail ==
  ASSUME NEW S, NEW seq \in Seq(S), NEW m \in 1..Len(seq)
  PROVE  /\ SubSeq(seq, 1, m) # <<>> /\ Head(SubSeq(seq, 1, m)) = Head(seq)
         /\ SubSeq(Tail(seq), 1, m - 1) = Tail(SubSeq(seq, 1, m))
<1> DEFINE n == Len(seq)
           all == SubSeq(seq, 1, m)
           tail == Tail(seq)
<1>1. n \in Nat /\ m \in 1..n /\ Head(seq) = seq[1]
      /\ tail \in Seq(S) /\ Len(tail) = n - 1 /\ \A i \in 1..(n - 1) : tail[i] = seq[i + 1]
  OBVIOUS
<1>2. all \in Seq(S) /\ Len(all) = m /\ \A i \in 1..m : all[i] = seq[i]
  OBVIOUS
<1> HIDE DEF all, tail
<1>3. all # <<>> /\ Head(all) = Head(seq)
  BY <1>1, <1>2
<1>4. Tail(all) = [i \in 1..(m - 1) |-> all[i + 1]]
  <2> DEFINE t == Tail(all)
  <2>1. t \in Seq(S) /\ Len(t) = m - 1 /\ \A i \in 1..(m - 1) : t[i] = all[i + 1]
    BY <1>1, <1>2, <1>3
  <2> HIDE DEF t
  <2>2. t = [i \in 1..(m - 1) |-> t[i]]
    BY <2>1
  <2>3. [i \in 1..(m - 1) |-> t[i]] = [i \in 1..(m - 1) |-> all[i + 1]]
    BY <2>1
  <2> QED BY <2>2, <2>3 DEF t
<1>5. SubSeq(tail, 1, m - 1) = [i \in 1..(m - 1) |-> tail[i]]
  BY <1>1
<1> HIDE DEF n
<1>6. \A i \in 1..(m - 1) : tail[i] = all[i + 1]
  <2> SUFFICES ASSUME NEW i \in 1..(m - 1) PROVE tail[i] = all[i + 1]
    OBVIOUS
  <2>1. i \in 1..(n - 1) /\ i + 1 \in 1..m
    BY <1>1
  <2> QED BY <1>1, <1>2, <2>1
<1>7. [i \in 1..(m - 1) |-> tail[i]] = [i \in 1..(m - 1) |-> all[i + 1]]
  BY <1>6
<1> QED BY <1>3, <1>4, <1>5, <1>7 DEF all, tail

(* A cut stays where it is, or comes nearer as the streamer applies what   *)
(* is ahead of it; until TakeSnapshot is in the channel, what is sent goes *)
(* ahead of it too.                                                        *)
CutFrom(p, q) ==
  /\ Cut(q) /\ Ahead(q) \in Seq(Change \cup {Snap})
  /\ \/ Ahead(p)' = Ahead(q) /\ UNCHANGED <<active, sealed>>
     \/ ApplyEvent /\ Ahead(q) # <<>> /\ Head(Ahead(q)) = Head(chan) /\ Ahead(p)' = Tail(Ahead(q))
     \/ /\ engine = "take" /\ UNCHANGED <<active, sealed>>
        /\ \E d \in Drainers : Send(d) /\ Ahead(p)' = Append(Ahead(q), NextRow(d))

LEMMA CutMoves ==
  ASSUME InOrderInv, FenceDrains, AskedOnce, [Next]_vars, NEW p, Cut(p)'
  PROVE  \/ PassFence /\ Ahead(p)' = chan /\ UNCHANGED <<active, sealed>>
         \/ ~PassFence /\ \E q : CutFrom(p, q)
<1> DEFINE n == Len(chan)
           S == Change \cup {Snap}
<1>1. Types /\ chan \in Seq(S) /\ n \in Nat /\ Snap \in S
  BY DEF InOrderInv, Types, StreamType
<1>2. (p \in 1..Len(chan') /\ chan'[p] = Snap) \/ (engine' = "take" /\ p = Len(chan') + 1)
  BY DEF Cut
<1>3. Ahead(p)' = SubSeq(chan', 1, p - 1)
  BY DEF Ahead
<1>4. \A m \in 1..(n + 1) : SubSeq(chan, 1, m - 1) \in Seq(S)
  <2>1. \A m \in 1..(n + 1) : m - 1 \in 0..n
    BY <1>1
  <2> QED BY <1>1, <2>1, PrefixOf
<1>5. Ahead(n + 1) = chan
  <2>1. (n + 1) - 1 = n
    BY <1>1
  <2> QED BY <1>1, <2>1, PrefixAll DEF Ahead
<1>6. PassFence => UNCHANGED chan /\ engine = "drain"
  BY DEF PassFence, FencePassed, streamVars
<1>7. CASE UNCHANGED streamVars
  <2>1. chan' = chan /\ UNCHANGED <<active, sealed>>
    BY <1>7 DEF streamVars
  <2>2. CASE PassFence
    <3>1. p = n + 1
      BY <1>2, <1>6, <2>1, <2>2, NoneAsked
    <3>2. Ahead(p)' = chan
      BY <1>3, <1>5, <2>1, <3>1 DEF Ahead
    <3> QED BY <2>1, <2>2, <3>2
  <2>3. CASE ~PassFence
    <3>1. engine' = "take" => engine = "take"
      <4>1. engine' = "take" => ~TakeSnapshot /\ ~TakeSnapshotFails /\ ~Restart /\ ~AskStreamer
        BY DEF TakeSnapshot, TakeSnapshotFails, Restart, AskStreamer
      <4> QED BY <1>1, <2>3, <4>1, EngineMoves
    <3>2. Cut(p) /\ p \in 1..(n + 1)
      BY <1>1, <1>2, <2>1, <3>1 DEF Cut
    <3>3. Ahead(p) \in Seq(S) /\ Ahead(p)' = Ahead(p)
      BY <1>3, <1>4, <2>1, <3>2 DEF Ahead
    <3> QED BY <2>1, <2>3, <3>2, <3>3 DEF CutFrom
  <2> QED BY <2>2, <2>3
<1>8. ASSUME NEW x \in S, chan' = Append(chan, x)
      PROVE  /\ Len(chan') = n + 1 /\ chan'[n + 1] = x /\ (\A i \in 1..n : chan'[i] = chan[i])
             /\ chan' # chan
             /\ \A m \in 1..(n + 1) : SubSeq(chan', 1, m - 1) = Ahead(m) /\ Ahead(m) \in Seq(S)
             /\ SubSeq(chan', 1, (n + 2) - 1) = chan'
  <2>1. Len(chan') = n + 1 /\ chan'[n + 1] = x /\ (\A i \in 1..n : chan'[i] = chan[i])
    BY <1>1, <1>8
  <2>2. chan' # chan
    <3>1. n + 1 # n
      BY <1>1
    <3> QED BY <2>1, <3>1
  <2>3. \A m \in 1..(n + 1) : m - 1 \in 0..n
    BY <1>1
  <2>4. \A m \in 1..(n + 1) : SubSeq(chan', 1, m - 1) = Ahead(m)
    BY <1>1, <1>8, <2>3, PrefixOf DEF Ahead
  <2>5. SubSeq(chan', 1, (n + 2) - 1) = chan'
    <3>1. (n + 2) - 1 = n + 1 /\ chan' \in Seq(S)
      BY <1>1, <1>8
    <3> QED BY <2>1, <3>1, PrefixAll
  <2> QED BY <1>4, <2>1, <2>2, <2>4, <2>5 DEF Ahead
<1>9. ASSUME NEW d \in Drainers, Send(d) PROVE ~PassFence /\ \E q : CutFrom(p, q)
  <2> DEFINE x == NextRow(d)
  <2>1. x \in S /\ x # Snap /\ chan' = Append(chan, x) /\ engine' = engine /\ UNCHANGED <<active, sealed>>
    BY <1>9, NextNumbered DEF Send, engineVars
  <2> HIDE DEF x
  <2>2. CASE p \in 1..Len(chan') /\ chan'[p] = Snap
    <3>1. p \in 1..n /\ chan[p] = Snap
      <4>1. p \in 1..n \/ p = n + 1
        BY <1>1, <1>8, <2>1, <2>2, SMTT(30)
      <4> QED BY <1>8, <2>1, <2>2, <4>1
    <3>2. p \in 1..(n + 1)
      BY <1>1, <3>1
    <3>3. Ahead(p)' = Ahead(p) /\ Ahead(p) \in Seq(S)
      BY <1>3, <1>8, <2>1, <3>2
    <3>4. CutFrom(p, p)
      BY <2>1, <3>1, <3>3 DEF CutFrom, Cut
    <3> QED BY <1>6, <1>8, <2>1, <3>4
  <2>3. CASE engine' = "take" /\ p = Len(chan') + 1
    <3>1. p = n + 2 /\ engine = "take"
      BY <1>1, <1>8, <2>1, <2>3
    <3>2. Ahead(p)' = chan'
      BY <1>3, <1>8, <2>1, <3>1
    <3>3. Cut(n + 1) /\ Ahead(n + 1) \in Seq(S)
      BY <1>1, <1>5, <3>1 DEF Cut
    <3>4. Ahead(p)' = Append(Ahead(n + 1), NextRow(d))
      BY <1>5, <2>1, <3>2 DEF x
    <3>5. CutFrom(p, n + 1)
      <4> HIDE DEF n
      <4> QED BY <1>9, <2>1, <3>1, <3>3, <3>4 DEF CutFrom
    <3> QED BY <1>6, <1>8, <2>1, <3>5
  <2> QED BY <1>2, <2>2, <2>3
<1>10. CASE AskStreamer
  <2>1. chan' = Append(chan, Snap) /\ engine = "take" /\ engine' = "wait" /\ UNCHANGED <<active, sealed>>
    BY <1>10 DEF AskStreamer
  <2>2. \A i \in 1..n : chan[i] # Snap
    BY <2>1, NoneAsked
  <2>3. p = n + 1
    <3>1. p \in 1..Len(chan') /\ chan'[p] = Snap
      BY <1>2, <2>1
    <3>2. Len(chan') = n + 1 /\ \A i \in 1..n : chan'[i] = chan[i]
      <4>1. Snap \in S
        OBVIOUS
      <4> QED BY <1>8, <2>1, <4>1
    <3> HIDE DEF n
    <3>3. p \in 1..n \/ p = n + 1
      BY <1>1, <3>1, <3>2
    <3> QED BY <2>2, <3>1, <3>2, <3>3
  <2>4. n + 1 \in 1..(n + 1)
    BY <1>1
  <2>5. Ahead(p)' = Ahead(p) /\ Ahead(p) \in Seq(S)
    BY <1>1, <1>3, <1>8, <2>1, <2>3, <2>4
  <2>6. CutFrom(p, p)
    BY <2>1, <2>3, <2>5 DEF CutFrom, Cut
  <2> QED BY <1>6, <2>1, <2>6
<1>11. CASE ApplyEvent
  <2>1. chan # <<>> /\ chan' = Tail(chan) /\ engine' = engine
    BY <1>11 DEF ApplyEvent, engineVars
  <2>2. Len(chan') = n - 1 /\ n \in Nat \ {0} /\ \A i \in 1..(n - 1) : chan'[i] = chan[i + 1]
    BY <1>1, <2>1
  <2> HIDE DEF n
  <2>3. p \in 1..n /\ (p + 1) - 1 = p
    BY <1>2, <2>2, SMTT(30)
  <2>4. Cut(p + 1)
    <3>1. CASE p \in 1..Len(chan') /\ chan'[p] = Snap
      <4>1. p + 1 \in 1..n /\ chan[p + 1] = Snap
        BY <2>2, <3>1
      <4> QED BY <4>1 DEF Cut, n
    <3>2. CASE engine' = "take" /\ p = Len(chan') + 1
      <4>1. p + 1 = n + 1
        BY <2>2, <3>2
      <4> QED BY <2>1, <3>2, <4>1 DEF Cut, n
    <3> QED BY <1>2, <3>1, <3>2
  <2>5. Ahead(p + 1) = SubSeq(chan, 1, p)
    BY <2>3 DEF Ahead
  <2>6. /\ SubSeq(chan, 1, p) # <<>> /\ Head(SubSeq(chan, 1, p)) = Head(chan)
        /\ SubSeq(chan', 1, p - 1) = Tail(SubSeq(chan, 1, p))
    BY <1>1, <2>1, <2>3, PrefixTail DEF n
  <2>7. SubSeq(chan, 1, p) \in Seq(S)
    <3>1. p \in 0..n
      BY <2>2, <2>3
    <3> QED BY <1>1, <3>1, PrefixOf DEF n
  <2>8. CutFrom(p, p + 1)
    BY <1>3, <1>11, <2>4, <2>5, <2>6, <2>7 DEF CutFrom
  <2>9. chan' # chan
    <3>1. n - 1 # n
      BY <2>2
    <3> QED BY <2>2, <3>1 DEF n
  <2> QED BY <1>6, <2>8, <2>9
<1>12. ~TakeSnapshot /\ ~TakeSnapshotFails
  <2> SUFFICES ASSUME TakeSnapshot \/ TakeSnapshotFails PROVE FALSE
    OBVIOUS
  <2>1. /\ engine' = "idle" /\ chan' = Tail(chan) /\ n \in Nat \ {0}
        /\ \A i \in 1..n : chan[i] = Snap => i = 1
    BY <1>1, AskedFirst
  <2>2. Len(chan') = n - 1 /\ \A i \in 1..(n - 1) : chan'[i] = chan[i + 1] /\ i + 1 \in 1..n /\ i + 1 # 1
    BY <1>1, <2>1
  <2> HIDE DEF n
  <2> QED BY <1>2, <2>1, <2>2
<1>13. ~Restart
  <2>1. Restart => engine' = "idle" /\ Len(chan') = 0
    BY DEF Restart
  <2> QED BY <1>2, <2>1
<1> QED BY <1>7, <1>9, <1>10, <1>11, <1>12, <1>13, Frames DEF OthersKeep, Streamer

(***************************************************************************)
(* Ahead of a cut, or applied, is every change the log had when the fence  *)
(* passed: it passes when the log is empty, whoever emptied it.            *)
(***************************************************************************)
FencedSent == \A p : Cut(p) => \A n \in fenced : Has(Ahead(p), n) \/ Settled(n)

LEMMA FencedSentStep ==
  ASSUME InOrderInv, FenceDrains, AskedOnce, FencedSent, [Next]_vars
  PROVE  FencedSent'
<1> SUFFICES ASSUME NEW p, Cut(p)', NEW n \in fenced' PROVE Has(Ahead(p)', n) \/ Settled(n)'
  BY DEF FencedSent
<1>1. Types
  BY DEF InOrderInv
<1>2. CASE PassFence /\ Ahead(p)' = chan /\ UNCHANGED <<active, sealed>>
  <2>1. n \in due /\ log = {}
    BY <1>2 DEF PassFence, FencePassed
  <2>2. Has(chan, n) \/ Settled(n)
    BY <2>1 DEF InOrderInv, Accounted, Ids, InStream
  <2> QED BY <1>1, <1>2, <2>2, SettledKept
<1>3. ASSUME ~PassFence, NEW q, CutFrom(p, q) PROVE Has(Ahead(p)', n) \/ Settled(n)'
  <2>1. fenced' = fenced
    BY <1>3, Frames DEF OthersKeep, pastVars, CommitWrites, RestoreTables, Restart
  <2>2. Ahead(q) \in Seq(Change \cup {Snap}) /\ (Has(Ahead(q), n) \/ Settled(n))
    BY <1>3, <2>1 DEF CutFrom, FencedSent
  <2>3. CASE Ahead(p)' = Ahead(q) /\ UNCHANGED <<active, sealed>>
    BY <1>1, <2>2, <2>3, SettledKept
  <2>4. CASE ApplyEvent /\ Ahead(q) # <<>> /\ Head(Ahead(q)) = Head(chan) /\ Ahead(p)' = Tail(Ahead(q))
    <3> DEFINE a == Ahead(q)
    <3>1. Has(a, n) => Head(a).id = n \/ Has(Tail(a), n)
      <4>1. a \in Seq(Change \cup {Snap}) /\ a # <<>>
        BY <2>2, <2>4
      <4> HIDE DEF a
      <4> QED BY <4>1, HasTail
    <3> QED BY <1>1, <2>2, <2>4, <3>1, SettledKept
  <2>5. ASSUME NEW d \in Drainers, Send(d), Ahead(p)' = Append(Ahead(q), NextRow(d)),
               UNCHANGED <<active, sealed>>
        PROVE  Has(Ahead(p)', n) \/ Settled(n)'
    <3> DEFINE a == Ahead(q)
               x == NextRow(d)
    <3>1. x \in Change \cup {Snap}
      BY <1>1, <2>5, NextRowType DEF Send
    <3>2. Has(a, n) => Has(Append(a, x), n)
      <4>1. a \in Seq(Change \cup {Snap})
        BY <2>2
      <4> HIDE DEF a, x
      <4> QED BY <3>1, <4>1, HasAppend
    <3> QED BY <1>1, <2>2, <2>5, <3>2, SettledKept
  <2> QED BY <1>3, <2>3, <2>4, <2>5 DEF CutFrom
<1> QED BY <1>2, <1>3, CutMoves

(* Only TakeSnapshot adds a snapshot.                                      *)
LEMMA SnapsMove == ASSUME [Next]_vars PROVE snaps' = snaps \/ TakeSnapshot
<1>1. UNCHANGED engineVars => snaps' = snaps
  BY DEF engineVars
<1>2. (\E d \in Drainers : DrainFails(d)) \/ TakeSnapshotFails \/ BeginSnapshot \/ BeginRestore \/ Restart
        => snaps' = snaps
  BY DEF DrainFails, TakeSnapshotFails, BeginSnapshot, BeginRestore, Restart
<1>3. ApplyEvent \/ Engine => snaps' = snaps
  BY DEF ApplyEvent, Engine, PassFence, FenceRefuses, AskStreamer, SnapshotFails, RestoreTables,
         RestoreFails, engineVars
<1> QED BY <1>1, <1>2, <1>3, Frames DEF OthersKeep, Streamer

(* It does when the cut has come to the channel's head.                    *)
LEMMA CutAtHead ==
  ASSUME Types, AskedOnce, TakeSnapshot
  PROVE  Cut(1) /\ Ahead(1) = <<>>
<1>1. Len(chan) \in Nat \ {0} /\ chan[1] = Snap /\ chan \in Seq(Change \cup {Snap})
  BY AskedFirst DEF Types, StreamType
<1>2. Ahead(1) = <<>>
  BY <1>1 DEF Ahead
<1> QED BY <1>1, <1>2 DEF Cut

LEMMA AddedSnapshot ==
  ASSUME Types, TakeSnapshot,
         NEW new, new = [segments |-> SealedForSnapshot, since |-> since, due |-> fenced],
         NEW i \in DOMAIN snaps'
  PROVE  (i \in DOMAIN snaps /\ snaps'[i] = snaps[i]) \/ snaps'[i] = new
<1>1. snaps \in Seq(Snapshots) /\ snaps' = Append(snaps, new)
  BY DEF Types, EngineType, TakeSnapshot
<1>2. /\ DOMAIN snaps = 1..Len(snaps) /\ Len(snaps) \in Nat
      /\ DOMAIN snaps' = 1..(Len(snaps) + 1)
      /\ \A j \in 1..Len(snaps) : snaps'[j] = snaps[j]
      /\ snaps'[Len(snaps) + 1] = new
  BY <1>1
<1>3. i \in 1..Len(snaps) \/ i = Len(snaps) + 1
  BY <1>2
<1> QED BY <1>2, <1>3

LEMMA CompleteStep ==
  ASSUME InOrderInv, AskedOnce, FencedSent, SnapshotComplete, [Next]_vars
  PROVE  SnapshotComplete'
<1> DEFINE Complete(snap) ==
             snap.due \subseteq UNION {Ids(ToSet(s.rows)) : s \in ToSet(snap.segments)}
           new == [segments |-> SealedForSnapshot, since |-> since, due |-> fenced]
<1>1. Types /\ \A i \in DOMAIN snaps : Complete(snaps[i])
  BY DEF InOrderInv, SnapshotComplete
<1>2. CASE snaps' = snaps
  BY <1>2 DEF SnapshotComplete
<1>3. CASE TakeSnapshot
  <2>1. sealed' = SealedForSnapshot /\ active' = <<>> /\ sealed' \in Seq(Segments)
    BY <1>1, <1>3, StreamStep DEF TakeSnapshot, StreamType
  <2>2. ASSUME NEW n \in fenced PROVE \E s \in ToSet(SealedForSnapshot) : n \in Ids(ToSet(s.rows))
    <3>1. Settled(n)
      <4>1. Len(Ahead(1)) = 0 /\ Cut(1)
        BY <1>1, <1>3, CutAtHead
      <4>2. ~Has(Ahead(1), n)
        BY <4>1 DEF Has
      <4> QED BY <4>1, <4>2 DEF FencedSent
    <3>2. Settled(n)'
      BY <1>1, <1>3, <3>1, SettledKept
    <3>3. PICK i \in 1..Len(sealed') : Has(sealed'[i].rows, n)
      <4>1. ~Has(active', n)
        <5>1. Len(active') = 0
          BY <2>1
        <5> QED BY <5>1 DEF Has
      <4>2. Has(active', n) \/ \E i \in 1..Len(sealed') : Has(sealed'[i].rows, n)
        BY <3>2 DEF Settled
      <4> QED BY <4>1, <4>2
    <3>4. sealed'[i].rows \in Seq(Change) /\ sealed'[i] \in ToSet(sealed')
      <4>1. sealed'[i] \in Segments
        BY <2>1
      <4>2. i \in DOMAIN sealed'
        BY <2>1
      <4> QED BY <4>1, <4>2, SegmentRows DEF ToSet
    <3>5. n \in Ids(ToSet(sealed'[i].rows))
      BY <3>3, <3>4, SMTT(30) DEF Has, Ids, ToSet
    <3> QED BY <2>1, <3>4, <3>5
  <2>3. Complete(new)
    BY <2>2
  <2> HIDE DEF new, Complete
  <2>4. \A i \in DOMAIN snaps' : Complete(snaps'[i])
    BY <1>1, <1>3, <2>3, AddedSnapshot DEF new
  <2> QED BY <2>4 DEF SnapshotComplete, Complete
<1> QED BY <1>2, <1>3, SnapsMove

CompleteInv == InOrderInv /\ FenceDrains /\ AskedOnce /\ FencedSent /\ SnapshotComplete

LEMMA CompleteInit == ASSUME Init PROVE CompleteInv
<1>1. Len(chan) = 0 /\ engine = "idle" /\ DOMAIN snaps = {}
  BY DEF Init
<1>2. FenceDrains
  BY NotBusy DEF Init, FenceDrains, Drainers
<1>3. AskedOnce /\ FencedSent /\ SnapshotComplete
  BY <1>1 DEF AskedOnce, FencedSent, Cut, SnapshotComplete
<1> QED BY <1>2, <1>3, InOrderInit DEF CompleteInv

LEMMA CompleteInvStep ==
  ASSUME CompleteInv, [Next]_vars, CommitsInOrder
  PROVE  CompleteInv'
<1> USE DEF CompleteInv
<1>1. InOrderInv' /\ Types
  BY InOrderStep DEF InOrderInv
<1>2. FenceDrains' /\ AskedOnce'
  BY <1>1, FenceDrainsStep, AskedStep
<1>3. FencedSent' /\ SnapshotComplete'
  BY FencedSentStep, CompleteStep
<1> QED BY <1>1, <1>2, <1>3

(* Every change committed before a fence passed is in its snapshot,        *)
(* whichever drain took it, and whatever is retried, refused, restored or  *)
(* restarted meanwhile, provided changes become visible in the order of    *)
(* their numbers.                                                          *)
THEOREM InOrderSnapshotsComplete == Spec /\ [][CommitsInOrder]_vars => []SnapshotComplete
<1>1. Init => CompleteInv
  BY CompleteInit
<1>2. CompleteInv /\ [Next]_vars /\ [CommitsInOrder]_vars => CompleteInv'
  <2>1. UNCHANGED vars => CommitsInOrder
    BY DEF vars, dbVars, CommitsInOrder
  <2> QED BY <2>1, CompleteInvStep
<1>3. CompleteInv => SnapshotComplete
  BY DEF CompleteInv
<1> QED BY <1>1, <1>2, <1>3, PTL DEF Spec

(* The application's transactions do not overlap: no snapshot misses any.  *)
THEOREM OneWriterSnapshotsComplete ==
  ASSUME \A v, w \in Writer : v = w
  PROVE  Spec => []SnapshotComplete
<1>1. Init => CompleteInv
  BY CompleteInit
<1>2. CompleteInv /\ [Next]_vars => CompleteInv'
  BY OneWriterInOrder, CompleteInvStep DEF CompleteInv
<1>3. CompleteInv => SnapshotComplete
  BY DEF CompleteInv
<1> QED BY <1>1, <1>2, <1>3, PTL DEF Spec

-----------------------------------------------------------------------------
(***************************************************************************)
(* What a snapshot would hold once every row in the channel is applied:    *)
(* of each key the value of its last row there, and else the one that the  *)
(* sealed segments and the active head leave.                              *)
(***************************************************************************)
Changes(row, k) == row # Snap /\ row.key = k

Ends(seq, base, k, v) ==
  \/ v = base /\ \A i \in 1..Len(seq) : ~Changes(seq[i], k)
  \/ \E i \in 1..Len(seq) : /\ Changes(seq[i], k) /\ v = seq[i].val
                             /\ \A j \in (i + 1)..Len(seq) : ~Changes(seq[j], k)

Applied == ApplyRows(Replay(sealed), active)
StreamHolds(k, v) == Ends(chan, Applied[k], k, v)

LEMMA EndsAppend ==
  ASSUME NEW S, NEW seq \in Seq(S), NEW x \in S, NEW base, NEW k, NEW v
  PROVE  /\ Changes(x, k) => Ends(Append(seq, x), base, k, x.val)
         /\ ~Changes(x, k) /\ Ends(seq, base, k, v) => Ends(Append(seq, x), base, k, v)
<1> DEFINE n == Len(seq)
           app == Append(seq, x)
<1>1. n \in Nat /\ Len(app) = n + 1 /\ app[n + 1] = x /\ \A i \in 1..n : app[i] = seq[i]
  OBVIOUS
<1> HIDE DEF app
<1>2. ASSUME Changes(x, k) PROVE Ends(app, base, k, x.val)
  <2>1. n + 1 \in 1..Len(app) /\ Changes(app[n + 1], k) /\ x.val = app[n + 1].val
    BY <1>1, <1>2
  <2>2. \A j \in (n + 1 + 1)..Len(app) : ~Changes(app[j], k)
    BY <1>1
  <2> HIDE DEF n
  <2> QED BY <2>1, <2>2 DEF Ends
<1>3. ASSUME ~Changes(x, k), Ends(seq, base, k, v) PROVE Ends(app, base, k, v)
  <2>1. CASE v = base /\ \A i \in 1..n : ~Changes(seq[i], k)
    <3>1. \A i \in 1..Len(app) : i \in 1..n \/ i = n + 1
      BY <1>1
    <3>2. \A i \in 1..Len(app) : ~Changes(app[i], k)
      BY <1>1, <1>3, <2>1, <3>1
    <3> QED BY <2>1, <3>2 DEF Ends
  <2>2. ASSUME NEW i \in 1..n, Changes(seq[i], k), v = seq[i].val,
               \A j \in (i + 1)..n : ~Changes(seq[j], k)
        PROVE  Ends(app, base, k, v)
    <3>1. \A j \in (i + 1)..Len(app) : j \in (i + 1)..n \/ j = n + 1
      BY <1>1
    <3>2. \A j \in (i + 1)..n : j \in 1..n
      BY <1>1
    <3>3. \A j \in (i + 1)..Len(app) : ~Changes(app[j], k)
      BY <1>1, <1>3, <2>2, <3>1, <3>2
    <3>4. i \in 1..Len(app) /\ app[i] = seq[i]
      BY <1>1
    <3> QED BY <2>2, <3>3, <3>4 DEF Ends
  <2> QED BY <1>3, <2>1, <2>2 DEF Ends
<1> QED BY <1>2, <1>3 DEF app

LEMMA EndsTail ==
  ASSUME NEW S, NEW seq \in Seq(S), seq # <<>>, NEW base, NEW k, NEW v, Ends(seq, base, k, v)
  PROVE  Ends(Tail(seq), IF Changes(Head(seq), k) THEN Head(seq).val ELSE base, k, v)
<1> DEFINE n == Len(seq)
           tail == Tail(seq)
           b == IF Changes(Head(seq), k) THEN Head(seq).val ELSE base
<1>1. n \in Nat /\ n >= 1 /\ Len(tail) = n - 1 /\ Head(seq) = seq[1]
      /\ \A i \in 1..(n - 1) : tail[i] = seq[i + 1]
  OBVIOUS
<1> HIDE DEF tail
<1>2. ASSUME v = base, \A i \in 1..n : ~Changes(seq[i], k)
      PROVE  Ends(tail, b, k, v)
  <2>1. v = b
    BY <1>1, <1>2
  <2>2. \A i \in 1..Len(tail) : i + 1 \in 1..n
    BY <1>1
  <2>3. \A i \in 1..Len(tail) : ~Changes(tail[i], k)
    BY <1>1, <1>2, <2>2
  <2> HIDE DEF b
  <2> QED BY <2>1, <2>3 DEF Ends
<1>3. ASSUME NEW i \in 1..n, Changes(seq[i], k), v = seq[i].val,
             \A j \in (i + 1)..n : ~Changes(seq[j], k)
      PROVE  Ends(tail, b, k, v)
  <2>1. CASE i = 1
    <3>1. v = b
      BY <1>1, <1>3, <2>1
    <3>2. \A j \in 1..Len(tail) : j + 1 \in (i + 1)..n
      BY <1>1, <2>1, SMTT(30)
    <3>3. \A j \in 1..Len(tail) : ~Changes(tail[j], k)
      BY <1>1, <1>3, <3>2
    <3> HIDE DEF b
    <3> QED BY <3>1, <3>3 DEF Ends
  <2>2. CASE i # 1
    <3> DEFINE m == i - 1
    <3>1. m \in 1..Len(tail) /\ tail[m] = seq[i]
      BY <1>1, <2>2, SMTT(30)
    <3>2. \A j \in (m + 1)..Len(tail) : j + 1 \in (i + 1)..n /\ j \in 1..(n - 1)
      BY <1>1, <2>2
    <3>3. \A j \in (m + 1)..Len(tail) : ~Changes(tail[j], k)
      BY <1>1, <1>3, <3>2
    <3> HIDE DEF b, m
    <3> QED BY <1>3, <3>1, <3>3 DEF Ends
  <2> QED BY <2>1, <2>2
<1> QED BY <1>2, <1>3 DEF Ends, tail

(* No row, no change.                                                      *)
LEMMA ApplyRowsNone ==
  ASSUME NEW t \in [Key -> Stored]
  PROVE  ApplyRows(t, <<>>) = t
<1>1. <<>> \in Seq(Change) /\ 1..Len(<<>>) = {}
  OBVIOUS
<1>2. PICK g : LastFirst(g, t, <<>>) /\ ApplyRows(t, <<>>) = g[1..Len(<<>>)]
  BY <1>1, ApplyRowsIs
<1> QED BY <1>1, <1>2 DEF LastFirst

(* The streamer applies a change to what it has, sealed or not.            *)
LEMMA AppliedMoves ==
  ASSUME Types
  PROVE  /\ Applied \in [Key -> Stored]
         /\ Replay(SealedForSnapshot) = Applied
         /\ UNCHANGED <<active, sealed>> => UNCHANGED Applied
         /\ ApplyEvent => Head(chan) \in Change /\ Applied' = ApplyRow(Applied, Head(chan))
         /\ TakeSnapshot => UNCHANGED Applied
         /\ Restart => Applied' = table
<1> DEFINE T == [Key -> Stored]
           all == Replay(sealed)
<1>1. /\ chan \in Seq(Change \cup {Snap}) /\ active \in Seq(Change) /\ sealed \in Seq(Segments)
      /\ table \in T
  BY DEF Types, StreamType, DbType
<1>2. all \in T
  BY <1>1, ReplayType
<1>3. Applied \in T
  BY <1>1, <1>2, ApplyRowsType DEF Applied
<1>4. ASSUME NEW rows \in Seq(Change), rows # <<>>
      PROVE  Replay(Append(sealed, Segment(rows))) = ApplyRows(all, rows)
  <2>1. Segment(rows) \in Segments /\ Segment(rows).rows = rows
    BY <1>4 DEF Segments, Segment
  <2> QED BY <1>1, <2>1, ReplayNext
<1>5. ApplyRows(all, <<>>) = all /\ <<>> \in Seq(Change)
  BY <1>2, ApplyRowsNone
<1>6. Replay(SealedForSnapshot) = Applied
  <2>1. CASE active = <<>>
    BY <1>5, <2>1 DEF SealedForSnapshot, Applied
  <2>2. CASE active # <<>>
    BY <1>1, <1>4, <2>2 DEF SealedForSnapshot, Applied
  <2> QED BY <2>1, <2>2
<1>7. UNCHANGED <<active, sealed>> => UNCHANGED Applied
  BY DEF Applied
<1>8. ASSUME ApplyEvent PROVE Head(chan) \in Change /\ Applied' = ApplyRow(Applied, Head(chan))
  <2> DEFINE rows == Append(active, Head(chan))
  <2>1. chan # <<>> /\ Head(chan) # Snap
    BY <1>8 DEF ApplyEvent
  <2>2. Head(chan) \in Change
    BY <1>1, <2>1
  <2>3. rows \in Seq(Change) /\ rows # <<>>
    <3>1. rows \in Seq(Change) /\ Len(rows) = Len(active) + 1 /\ Len(active) \in Nat
      BY <1>1, <2>2
    <3> HIDE DEF rows
    <3>2. Len(rows) # 0
      BY <3>1
    <3> QED BY <3>1, <3>2
  <2>4. ApplyRows(all, rows) = ApplyRow(Applied, Head(chan))
    BY <1>1, <1>2, <2>2, ApplyRowsNext DEF Applied
  <2>5. \/ active' = rows /\ UNCHANGED sealed
        \/ active' = <<>> /\ sealed' = Append(sealed, Segment(rows))
    BY <1>8 DEF ApplyEvent
  <2> HIDE DEF rows
  <2>6. CASE active' = rows /\ UNCHANGED sealed
    <3>1. Applied' = ApplyRows(all, rows)
      BY <2>6 DEF Applied
    <3> QED BY <2>2, <2>4, <3>1
  <2>7. CASE active' = <<>> /\ sealed' = Append(sealed, Segment(rows))
    <3>1. Replay(sealed') = ApplyRows(all, rows)
      BY <1>4, <2>3, <2>7
    <3>2. ApplyRows(all, rows) \in T
      BY <1>2, <2>3, ApplyRowsType
    <3>3. Applied' = ApplyRows(ApplyRows(all, rows), <<>>)
      BY <2>7, <3>1 DEF Applied
    <3>4. ApplyRows(ApplyRows(all, rows), <<>>) = ApplyRows(all, rows)
      BY <3>2, ApplyRowsNone
    <3> QED BY <2>2, <2>4, <3>3, <3>4
  <2> QED BY <2>5, <2>6, <2>7
<1>9. ASSUME TakeSnapshot PROVE UNCHANGED Applied
  <2>1. sealed' = SealedForSnapshot /\ active' = <<>>
    BY <1>9 DEF TakeSnapshot
  <2>2. Applied' = ApplyRows(Applied, <<>>)
    BY <1>6, <2>1 DEF Applied
  <2>3. ApplyRows(Applied, <<>>) = Applied
    BY <1>3, ApplyRowsNone
  <2> QED BY <2>2, <2>3
<1>10. ASSUME Restart PROVE Applied' = table
  <2>1. sealed' = Bootstrap(table, SealAt) /\ active' = <<>>
    BY <1>10 DEF Restart
  <2>2. Replay(sealed') = table
    BY <1>1, <2>1, BootstrapReplays
  <2>3. Applied' = ApplyRows(table, <<>>)
    BY <2>1, <2>2 DEF Applied
  <2> QED BY <1>1, <2>3, ApplyRowsNone
<1> QED BY <1>3, <1>6, <1>7, <1>8, <1>9, <1>10

(* Only what is sent for a key, and a restart, change what the stream      *)
(* holds of it ...                                                         *)
LEMMA HoldsStep ==
  ASSUME InOrderInv, [Next]_vars, ~Restart, NEW k \in Key, NEW v, StreamHolds(k, v),
         \A d \in Drainers : Send(d) => NextRow(d).key # k
  PROVE  StreamHolds(k, v)'
<1>1. Types /\ chan \in Seq(Change \cup {Snap}) /\ Applied \in [Key -> Stored]
  BY AppliedMoves DEF InOrderInv, Types, StreamType
<1>2. Ends(chan, Applied[k], k, v)
  BY DEF StreamHolds
<1>3. CASE UNCHANGED streamVars
  <2>1. chan' = chan /\ Applied' = Applied
    BY <1>1, <1>3, AppliedMoves DEF streamVars
  <2> QED BY <1>2, <2>1 DEF StreamHolds
<1>4. ASSUME NEW x \in Change \cup {Snap}, ~Changes(x, k), chan' = Append(chan, x),
             UNCHANGED <<active, sealed>>
      PROVE  StreamHolds(k, v)'
  <2>1. Applied' = Applied
    BY <1>1, <1>4, AppliedMoves
  <2>2. Ends(Append(chan, x), Applied[k], k, v)
    BY <1>1, <1>2, <1>4, EndsAppend
  <2> QED BY <1>4, <2>1, <2>2 DEF StreamHolds
<1>5. ASSUME NEW d \in Drainers, Send(d) PROVE StreamHolds(k, v)'
  <2>1. NextRow(d) \in Change /\ ~Changes(NextRow(d), k)
    BY <1>5, NextNumbered DEF Send, Changes
  <2> QED BY <1>4, <1>5, <2>1 DEF Send
<1>6. CASE AskStreamer
  <2>1. ~Changes(Snap, k)
    BY DEF Changes
  <2> QED BY <1>4, <1>6, <2>1 DEF AskStreamer
<1>7. CASE ApplyEvent
  <2> DEFINE row == Head(chan)
             base == IF Changes(row, k) THEN row.val ELSE Applied[k]
  <2>1. chan # <<>> /\ chan' = Tail(chan) /\ row # Snap
    BY <1>7 DEF ApplyEvent
  <2>2. row \in Change /\ Applied' = ApplyRow(Applied, row)
    BY <1>1, <1>7, AppliedMoves
  <2>3. Ends(Tail(chan), base, k, v)
    BY <1>1, <1>2, <2>1, EndsTail
  <2> HIDE DEF row
  <2>4. Applied'[k] = base
    <3>1. row.key \in Key
      BY <2>2 DEF Change
    <3> QED BY <1>1, <2>1, <2>2, <3>1 DEF ApplyRow, Changes
  <2> HIDE DEF base
  <2> QED BY <2>1, <2>3, <2>4 DEF StreamHolds
<1>8. ASSUME chan # <<>>, Head(chan) = Snap, chan' = Tail(chan), Applied' = Applied
      PROVE  StreamHolds(k, v)'
  <2>1. ~Changes(Head(chan), k)
    BY <1>8 DEF Changes
  <2>2. Ends(Tail(chan), Applied[k], k, v)
    BY <1>1, <1>2, <1>8, <2>1, EndsTail
  <2> QED BY <1>8, <2>2 DEF StreamHolds
<1>9. CASE TakeSnapshot
  BY <1>1, <1>8, <1>9, AppliedMoves DEF TakeSnapshot
<1>10. CASE TakeSnapshotFails
  BY <1>1, <1>8, <1>10, AppliedMoves DEF TakeSnapshotFails
<1> QED BY <1>3, <1>5, <1>6, <1>7, <1>9, <1>10, Frames DEF OthersKeep, Streamer

(* ... a row that is sent by making it hold the row's value ...            *)
LEMMA HoldsSent ==
  ASSUME InOrderInv, NEW d \in Drainers, Send(d),
         NEW k, NEW v, k = NextRow(d).key, v = NextRow(d).val
  PROVE  k \in Key /\ StreamHolds(k, v)'
<1> DEFINE row == NextRow(d)
<1>1. Types /\ chan \in Seq(Change \cup {Snap}) /\ Applied \in [Key -> Stored]
  BY AppliedMoves DEF InOrderInv, Types, StreamType
<1>2. row \in Change /\ row # Snap /\ chan' = Append(chan, row) /\ Applied' = Applied
  BY <1>1, NextNumbered, AppliedMoves DEF Send
<1>3. k = row.key /\ v = row.val
  OBVIOUS
<1> HIDE DEF row
<1>4. Changes(row, k) /\ k \in Key
  BY <1>2, <1>3 DEF Changes, Change
<1>5. Ends(Append(chan, row), Applied[k], k, v)
  BY <1>1, <1>2, <1>3, <1>4, EndsAppend
<1> QED BY <1>2, <1>4, <1>5 DEF StreamHolds

(* ... and a restart by making it hold the row of the table.               *)
LEMMA HoldsAnew ==
  ASSUME Types, Restart, NEW k \in Key, NEW v, v = table[k]
  PROVE  StreamHolds(k, v)'
<1>1. chan' = <<>> /\ Applied' = table
  BY AppliedMoves DEF Restart
<1>2. Ends(<<>>, table[k], k, v)
  BY DEF Ends
<1> QED BY <1>1, <1>2 DEF StreamHolds

-----------------------------------------------------------------------------
(* A key's lock keeps its uncommitted changes one.                         *)
OneEach == \A r, q \in Held : r.key = q.key => r = q

LEMMA NewlyHeld ==
  ASSUME Types, [Next]_vars, NEW row \in Held', row \notin Held
  PROVE  row.id = nextId /\ \A r \in Held : r.key # row.key
<1>1. CASE UNCHANGED open
  BY <1>1 DEF Held
<1>2. ASSUME NEW w \in Writer, NEW k \in Key, NEW v, Changed(w, k, v), ~Locked(k)
      PROVE  row.id = nextId /\ \A r \in Held : r.key # row.key
  <2>1. open \in [Writer -> SUBSET Change]
    BY DEF Types, DbType
  <2>2. open' = [open EXCEPT ![w] = @ \cup {[id |-> nextId, key |-> k, val |-> v]}]
    BY <1>2 DEF Changed
  <2>3. PICK u \in Writer : row \in open'[u]
    BY DEF Held
  <2>4. row \in open[u] \/ row = [id |-> nextId, key |-> k, val |-> v]
    BY <2>1, <2>2, <2>3
  <2>5. row.id = nextId /\ row.key = k
    BY <2>4, HeldBy
  <2> QED BY <1>2, <2>5 DEF Locked
<1>3. ASSUME NEW w \in Writer, open' = [open EXCEPT ![w] = {}] PROVE FALSE
  <2>1. open \in [Writer -> SUBSET Change]
    BY DEF Types, DbType
  <2>2. PICK u \in Writer : row \in open'[u]
    BY DEF Held
  <2>3. row \in open[u]
    BY <1>3, <2>1, <2>2
  <2> QED BY <2>3, HeldBy
<1>4. ASSUME NEW w \in Writer, Application(w)
      PROVE  \/ UNCHANGED open \/ open' = [open EXCEPT ![w] = {}]
             \/ \E k \in Key : \E v : Changed(w, k, v) /\ ~Locked(k)
  BY <1>4 DEF Application, Write, WriteOpaque, Rekey, Truncate, CommitWrites, AbortWrites
<1>5. (\E d \in Drainers : DeleteBatch(d)) \/ RestoreTables \/ UNCHANGED dbVars => UNCHANGED open
  BY DEF DeleteBatch, RestoreTables, dbVars
<1> QED BY <1>1, <1>2, <1>3, <1>4, <1>5, Frames DEF OthersKeep

LEMMA OneEachStep ==
  ASSUME Types, Types', OneEach, [Next]_vars
  PROVE  OneEach'
<1> SUFFICES ASSUME NEW r \in Held', NEW q \in Held', r.key = q.key PROVE r = q
  BY DEF OneEach
<1>1. CASE r \in Held /\ q \in Held
  BY <1>1 DEF OneEach
<1>2. CASE r \notin Held /\ q \notin Held
  <2>1. r.id = q.id
    BY <1>2, NewlyHeld
  <2> QED BY <2>1 DEF Types, DbType, DistinctIds
<1> QED BY <1>1, <1>2, NewlyHeld

-----------------------------------------------------------------------------
(***************************************************************************)
(* The drains take turns.                                                  *)
(***************************************************************************)
Resting == \A d \in Drainers : drain[d].busy \/ drain[d] = NoDrain

LEMMA RestingStep == ASSUME Types, Resting, [Next]_vars PROVE Resting'
<1> SUFFICES ASSUME NEW d \in Drainers PROVE drain'[d].busy \/ drain'[d] = NoDrain
  BY DEF Resting
<1>1. drain[d] \in [busy : BOOLEAN, batch : Seq(Change), sent : Nat]
  BY DEF Types, DrainType
<1>2. CASE (Send(d) \/ Skip(d)) /\ drain'[d] = [drain[d] EXCEPT !.sent = @ + 1]
  <2>1. drain[d] # NoDrain
    <3>1. drain[d].sent < Len(drain[d].batch)
      BY <1>2 DEF Send, Skip, Unsent
    <3> QED BY <3>1, NotBusy
  <2>2. drain[d].busy
    BY <2>1 DEF Resting
  <2> QED BY <1>1, <1>2, <2>2
<1>3. CASE Fetch(d) /\ drain'[d] = [busy |-> TRUE, batch |-> Batch, sent |-> 0]
  BY <1>3
<1> QED BY <1>2, <1>3, DrainMoves DEF Resting

LEMMA InTurn ==
  ASSUME Resting, DrainsTakeTurns
  PROVE  /\ \A d \in Drainers : Unsent(d) \/ AllSent(d) => drain[d].busy
         /\ \A d, e \in Drainers : drain[d].busy /\ (Unsent(e) \/ AllSent(e)) => e = d
<1>1. ASSUME NEW d \in Drainers, Unsent(d) \/ AllSent(d) PROVE drain[d].busy
  <2>1. CASE AllSent(d)
    BY <2>1 DEF AllSent
  <2>2. CASE Unsent(d)
    <3>1. drain[d] # NoDrain
      BY <2>2, NotBusy DEF Unsent
    <3> QED BY <3>1 DEF Resting
  <2> QED BY <1>1, <2>1, <2>2
<1> QED BY <1>1 DEF DrainsTakeTurns

(***************************************************************************)
(* What a drain has sent, the stream holds: of a key with more than one    *)
(* row in the batch, the last sent.                                        *)
(***************************************************************************)
Forwarded(d) ==
  LET batch == drain[d].batch
      sent == drain[d].sent
  IN  drain[d].busy =>
        /\ \A i \in 1..Len(batch) :
             batch[i] \in log /\ (d = "engine" => batch[i].id \notin unreadable)
        /\ \A i, j \in 1..Len(batch) : i < j => batch[i].id < batch[j].id
        /\ \A i \in 1..sent :
             \/ \E j \in (i + 1)..sent : batch[j].key = batch[i].key
             \/ StreamHolds(batch[i].key, batch[i].val)

LEMMA NextInLog ==
  ASSUME Types, Resting, DrainsTakeTurns, NEW d \in Drainers, Forwarded(d), Unsent(d)
  PROVE  NextRow(d) \in log
<1> DEFINE b == drain[d].batch
           s == drain[d].sent
<1>1. drain[d].busy /\ s < Len(b) /\ NextRow(d) = b[s + 1]
  BY InTurn DEF Unsent, NextRow
<1>2. s \in Nat /\ Len(b) \in Nat
  BY DEF Types, DrainType
<1>3. \A i \in 1..Len(b) : b[i] \in log
  BY <1>1 DEF Forwarded
<1> HIDE DEF b, s
<1>4. s + 1 \in 1..Len(b)
  BY <1>1, <1>2
<1> QED BY <1>1, <1>3, <1>4

(* The log keeps what a drain has fetched.                                 *)
LEMMA LogKept ==
  ASSUME Types, Resting, DrainsTakeTurns, [Next]_vars, ~RestoreTables,
         NEW d \in Drainers, drain[d].busy, ~DeleteBatch(d)
  PROVE  log \subseteq log'
<1>1. \A e \in Drainers : ~DeleteBatch(e)
  BY InTurn DEF DeleteBatch
<1> QED BY <1>1, LogMoves

LEMMA ForwardedStep ==
  ASSUME InOrderInv, Resting, DrainsTakeTurns, [Next]_vars, ~RestoreTables, ~Skip("poller"),
         NEW d \in Drainers, Forwarded(d)
  PROVE  Forwarded(d)'
<1> DEFINE b == drain[d].batch
           s == drain[d].sent
<1>0. Types /\ (d = "engine" \/ d = "poller")
  BY DEF Drainers, InOrderInv
<1>1. b \in Seq(Change) /\ s \in Nat /\ drain[d] \in [busy : BOOLEAN, batch : Seq(Change), sent : Nat]
  BY <1>0 DEF Types, DrainType
<1>2. CASE drain'[d] = NoDrain
  BY <1>2, NotBusy DEF Forwarded
<1>3. ASSUME drain[d].busy, drain'[d] # NoDrain
      PROVE  /\ \A i \in 1..Len(b) : b[i] \in log' /\ (d = "engine" => b[i].id \notin unreadable')
             /\ \A i, j \in 1..Len(b) : i < j => b[i].id < b[j].id
             /\ ~Restart
  <2>1. ~DeleteBatch(d) /\ ~Restart
    BY <1>0, <1>3 DEF DeleteBatch, Restart, Types, DrainType
  <2>2. log \subseteq log'
    BY <1>0, <1>3, <2>1, LogKept
  <2>3. \A i \in 1..Len(b) : b[i] \in log /\ (d = "engine" => b[i].id \notin unreadable)
    BY <1>3 DEF Forwarded
  <2>4. \A i \in 1..Len(b) : b[i].id # nextId
    <3>1. nextId \in Nat /\ \A row \in log : row.id \in 1..(nextId - 1)
      BY <1>0 DEF Types, DbType
    <3>2. \A m : m \in 1..(nextId - 1) => m # nextId
      BY <3>1
    <3> HIDE DEF b
    <3> QED BY <2>3, <3>1, <3>2
  <2>5. unreadable' \subseteq unreadable \cup {nextId}
    BY <1>0, Numbers
  <2> HIDE DEF b
  <2>6. \A i \in 1..Len(b) : b[i] \in log' /\ (d = "engine" => b[i].id \notin unreadable')
    BY <2>2, <2>3, <2>4, <2>5
  <2> QED BY <1>3, <2>1, <2>6 DEF Forwarded, b
<1>4. CASE drain'[d] = drain[d] /\ drain'[d] # NoDrain
  <2>1. drain[d].busy
    BY <1>4 DEF Resting
  <2>2. \A e \in Drainers : ~Send(e)
    <3>1. ASSUME Send(d) PROVE drain'[d].sent = s + 1
      <4>1. drain \in [Drainers -> [busy : BOOLEAN, batch : Seq(Change), sent : Nat]]
        BY <1>0 DEF Types, DrainType
      <4>2. drain' = [drain EXCEPT ![d].sent = @ + 1]
        BY <3>1 DEF Send
      <4>3. drain'[d] = [drain[d] EXCEPT !.sent = @ + 1]
        BY <1>0, <4>1, <4>2
      <4> QED BY <1>1, <4>3
    <3>2. drain'[d].sent = s
      BY <1>4
    <3> HIDE DEF s
    <3>3. s + 1 # s
      BY <1>1
    <3>4. ~Send(d)
      BY <3>1, <3>2, <3>3
    <3> QED BY <2>1, <3>4, InTurn DEF Send
  <2>3. \A i \in 1..s : i \in 1..Len(b)
    <3>1. s <= Len(b) /\ Len(b) \in Nat
      BY <1>0, <1>1, <2>1 DEF InOrderInv, Fetched
    <3> HIDE DEF s, b
    <3> QED BY <1>1, <3>1
  <2>4. ASSUME NEW i \in 1..s, StreamHolds(b[i].key, b[i].val)
        PROVE  \A k, v : k = b[i].key /\ v = b[i].val => StreamHolds(k, v)'
    <3> SUFFICES ASSUME NEW k, NEW v, k = b[i].key, v = b[i].val PROVE StreamHolds(k, v)'
      OBVIOUS
    <3>1. k \in Key
      <4>1. b[i] \in Change
        BY <1>1, <2>3
      <4> QED BY <4>1 DEF Change
    <3>2. ~Restart
      BY <1>3, <1>4, <2>1
    <3> HIDE DEF b
    <3> QED BY <2>2, <2>4, <3>1, <3>2, HoldsStep
  <2>5. \A i \in 1..s : (\E j \in (i + 1)..s : b[j].key = b[i].key) \/ StreamHolds(b[i].key, b[i].val)
    BY <2>1 DEF Forwarded
  <2>6. drain'[d].batch = b /\ drain'[d].sent = s
    BY <1>4
  <2>7. \A i \in 1..s : \/ \E j \in (i + 1)..s : b[j].key = b[i].key
                     \/ \A k, v : k = b[i].key /\ v = b[i].val => StreamHolds(k, v)'
    BY <2>4, <2>5
  <2> QED BY <1>3, <1>4, <2>1, <2>6, <2>7 DEF Forwarded
<1>5. CASE Fetch(d) /\ drain'[d] = [busy |-> TRUE, batch |-> Batch, sent |-> 0]
  <2>1. log # {} /\ log' = log /\ unreadable' = unreadable /\ ~Refuses(d, ToSet(Batch))
    BY <1>5 DEF Fetch, dbVars
  <2>2. DistinctIds(log) /\ log \subseteq Change /\ IsFiniteSet(log)
    BY <1>0 DEF Types, DbType, DistinctIds
  <2>3. /\ Batch \in Seq(log)
        /\ \A i, j \in 1..Len(Batch) : i < j => Batch[i].id < Batch[j].id
    BY <2>1, <2>2, BatchOldest
  <2>4. \A i \in 1..Len(Batch) : Batch[i] \in log /\ (d = "engine" => Batch[i].id \notin unreadable)
    <3>1. \A i \in 1..Len(Batch) : Batch[i] \in log /\ Batch[i] \in ToSet(Batch)
      BY <2>3 DEF ToSet
    <3>2. d = "engine" => \A row \in ToSet(Batch) : row.id \notin unreadable
      BY <2>1 DEF Refuses, Ids
    <3> QED BY <3>1, <3>2
  <2>5. drain'[d].batch = Batch /\ drain'[d].sent = 0
    BY <1>5
  <2> QED BY <2>1, <2>3, <2>4, <2>5 DEF Forwarded
<1>6. CASE (Send(d) \/ Skip(d)) /\ drain'[d] = [drain[d] EXCEPT !.sent = @ + 1]
  <2>1. drain[d].busy /\ s < Len(b) /\ NextRow(d) = b[s + 1]
    BY <1>6, InTurn DEF Send, Skip, Unsent, NextRow
  <2>2. s + 1 \in 1..Len(b) /\ \A i \in 1..(s + 1) : i \in 1..Len(b) /\ (i \in 1..s \/ i = s + 1)
    <3> DEFINE n == Len(b)
    <3>1. n \in Nat /\ s \in Nat /\ s < n
      BY <1>1, <2>1
    <3> HIDE DEF n, s
    <3>2. s + 1 \in 1..n /\ \A i \in 1..(s + 1) : i \in 1..n /\ (i \in 1..s \/ i = s + 1)
      BY <3>1
    <3> QED BY <3>2 DEF n, s
  <2>3. Send(d)
    <3>1. d = "engine" => b[s + 1].id \notin unreadable
      BY <2>1, <2>2 DEF Forwarded
    <3> QED BY <1>0, <1>6, <2>1, <3>1 DEF Skip
  <2>4. drain'[d].batch = b /\ drain'[d].sent = s + 1 /\ drain'[d].busy
    BY <1>1, <1>6, <2>1
  <2>5. drain'[d] # NoDrain
    BY <2>4, NotBusy
  <2>6. ASSUME NEW i \in 1..(s + 1), NEW k, NEW v, k = b[i].key, v = b[i].val
        PROVE  (\E j \in (i + 1)..(s + 1) : b[j].key = k) \/ StreamHolds(k, v)'
    <3>1. CASE i = s + 1
      BY <1>0, <2>1, <2>3, <2>6, <3>1, HoldsSent
    <3>2. CASE i \in 1..s /\ b[s + 1].key = k
      <4>1. s + 1 \in (i + 1)..(s + 1)
        BY <1>1, <3>2, SMTT(30)
      <4> QED BY <3>2, <4>1
    <3>3. CASE i \in 1..s /\ \E j \in (i + 1)..s : b[j].key = k
      <4>1. \A j \in (i + 1)..s : j \in (i + 1)..(s + 1)
        BY <1>1, SMTT(30)
      <4> QED BY <3>3, <4>1
    <3>4. CASE i \in 1..s /\ b[s + 1].key # k /\ StreamHolds(k, v)
      <4>1. b[i] \in Change
        BY <1>1, <2>2, SMTT(30)
      <4>2. k \in Key
        BY <2>6, <4>1 DEF Change
      <4>3. \A e \in Drainers : Send(e) => NextRow(e).key # k
        BY <2>1, <3>4, InTurn DEF Send
      <4>4. ~Restart
        BY <1>3, <2>1, <2>5
      <4> QED BY <3>4, <4>2, <4>3, <4>4, HoldsStep
    <3>5. i \in 1..s => (\E j \in (i + 1)..s : b[j].key = k) \/ StreamHolds(k, v)
      BY <2>1, <2>6 DEF Forwarded
    <3> QED BY <2>2, <3>1, <3>2, <3>3, <3>4, <3>5
  <2>7. \A i \in 1..(s + 1) : \/ \E j \in (i + 1)..(s + 1) : b[j].key = b[i].key
                           \/ \A k, v : k = b[i].key /\ v = b[i].val => StreamHolds(k, v)'
    BY <2>6
  <2> QED BY <1>3, <2>1, <2>4, <2>5, <2>7 DEF Forwarded
<1> QED BY <1>0, <1>2, <1>4, <1>5, <1>6, DrainMoves, NotBusy DEF Resting

-----------------------------------------------------------------------------
(***************************************************************************)
(* What the stream and the log leave of a key between them is what was     *)
(* last heard of it: the newest row of the log, or what the stream holds   *)
(* when the log has none.                                                  *)
(***************************************************************************)
Newest(row, k, rows) ==
  row \in rows /\ row.key = k /\ \A r \in rows : r.key = k => r.id <= row.id

CaughtUp(k) ==
  \/ StreamHolds(k, heard[k]) /\ \A row \in log : row.key # k
  \/ \E row \in log : Newest(row, k, log) /\ row.val = heard[k]

Caught == \A k \in Key : CaughtUp(k)

(* A transaction's change of a key comes after those in the log.           *)
LEMMA CommitCaught ==
  ASSUME InOrderInv, OneEach, [Next]_vars, ~Restart, \A d \in Drainers : ~Send(d),
         NEW w \in Writer, CommitWrites(w), NEW k \in Key, CaughtUp(k)
  PROVE  CaughtUp(k)'
<1> DEFINE mine == open[w]
<1>1. /\ mine \in SUBSET Change /\ IsFiniteSet(mine) /\ heard \in [Key -> Stored]
      /\ mine \subseteq Held /\ log \subseteq Change /\ \A row \in log \cup mine : row.id \in Nat
  <2>1. mine \subseteq Held
    BY HeldBy
  <2>2. mine \in SUBSET Change /\ IsFiniteSet(mine) /\ log \subseteq Change
    BY DEF InOrderInv, Types, DbType
  <2> QED BY <2>1, <2>2 DEF InOrderInv, Types, PastType, Change
<1>2. log' = log \cup mine /\ heard' = AppliedTo(heard, mine)
  BY DEF CommitWrites
<1>3. \A r, q \in mine : r.key = q.key => r = q
  BY <1>1 DEF OneEach
<1>4. \A row \in mine : \A old \in log : old.id < row.id
  BY <1>1 DEF InOrderInv, Ordered
<1> HIDE DEF mine
<1>5. CASE \A row \in mine : row.key # k
  <2>1. heard'[k] = heard[k]
    BY <1>1, <1>2, <1>3, <1>5, AppliedToEach, ZenonT(60)
  <2>2. \A v : StreamHolds(k, v) => StreamHolds(k, v)'
    BY HoldsStep
  <2>3. ASSUME NEW row \in log, Newest(row, k, log), row.val = heard[k] PROVE CaughtUp(k)'
    <3>1. Newest(row, k, log')
      BY <1>2, <1>5, <2>3 DEF Newest
    <3> QED BY <2>1, <2>3, <3>1 DEF CaughtUp, Newest
  <2>4. ASSUME StreamHolds(k, heard[k]), \A row \in log : row.key # k PROVE CaughtUp(k)'
    <3>1. \A v : v = heard[k] => StreamHolds(k, v)'
      BY <2>2, <2>4
    <3>2. \A row \in log' : row.key # k
      BY <1>2, <1>5, <2>4
    <3> QED BY <2>1, <3>1, <3>2 DEF CaughtUp
  <2> QED BY <2>3, <2>4 DEF CaughtUp
<1>6. CASE \E row \in mine : row.key = k
  <2>1. PICK row \in mine : row.key = k
    BY <1>6
  <2>2. heard'[k] = row.val
    BY <1>1, <1>2, <1>3, <2>1, AppliedToEach
  <2>3. ASSUME NEW r \in log', r.key = k PROVE r.id <= row.id
    <3>1. CASE r \in mine
      <4>1. r = row /\ row.id \in Nat
        BY <1>1, <1>3, <2>1, <2>3, <3>1
      <4> QED BY <4>1
    <3>2. CASE r \in log
      <4> DEFINE m == r.id
                 n == row.id
      <4>1. m \in Nat /\ n \in Nat /\ m < n
        BY <1>1, <1>4, <2>1, <3>2
      <4> HIDE DEF m, n
      <4>2. m <= n
        BY <4>1
      <4> QED BY <4>2 DEF m, n
    <3> QED BY <1>2, <2>3, <3>1, <3>2
  <2>4. Newest(row, k, log')
    BY <1>2, <2>1, <2>3 DEF Newest
  <2> QED BY <2>2, <2>4 DEF CaughtUp, Newest
<1> QED BY <1>5, <1>6

(* The rows a drain deletes it has sent, the newest of them the last.      *)
LEMMA DeleteCaught ==
  ASSUME InOrderInv, [Next]_vars, ~Restart, \A d \in Drainers : ~Send(d),
         NEW e \in Drainers, Forwarded(e), DeleteBatch(e), NEW k \in Key, CaughtUp(k)
  PROVE  CaughtUp(k)'
<1> DEFINE b == drain[e].batch
           n == Len(b)
           last == b[n].id
<1>1. drain[e].busy /\ drain[e].sent = n
  BY DEF DeleteBatch, AllSent
<1>2. b \in Seq(Change) /\ n \in Nat
  BY DEF InOrderInv, Types, DrainType
<1>3. log' = {row \in log : row.id > last} /\ heard' = heard
  BY DEF DeleteBatch, pastVars
<1>4. /\ n > 0
      /\ \A row \in log : row.id <= last => \E i \in 1..n : b[i] = row
  BY <1>1 DEF InOrderInv, Fetched
<1>5. /\ \A i \in 1..n : b[i] \in log
      /\ \A i, j \in 1..n : i < j => b[i].id < b[j].id
      /\ \A i \in 1..n : (\E j \in (i + 1)..n : b[j].key = b[i].key) \/ StreamHolds(b[i].key, b[i].val)
  BY <1>1 DEF Forwarded
<1>6. \A row \in log : row.id \in Nat
  BY DEF InOrderInv, Types, DbType, Change
<1>7. last \in Nat
  <2>1. n \in 1..n
    BY <1>2, <1>4
  <2> QED BY <1>5, <1>6, <2>1
<1>8. \A v : StreamHolds(k, v) => StreamHolds(k, v)'
  BY HoldsStep
<1> HIDE DEF b, n, last
<1>9. ASSUME \A row \in log : row.key # k, StreamHolds(k, heard[k]) PROVE CaughtUp(k)'
  <2>1. \A v : v = heard[k] => StreamHolds(k, v)'
    BY <1>8, <1>9
  <2>2. \A row \in log' : row.key # k
    BY <1>3, <1>9
  <2> QED BY <1>3, <2>1, <2>2 DEF CaughtUp
<1>10. ASSUME NEW row \in log, Newest(row, k, log), row.val = heard[k] PROVE CaughtUp(k)'
  <2>1. CASE row.id > last
    <3>1. row \in log' /\ Newest(row, k, log')
      BY <1>3, <1>10, <2>1 DEF Newest
    <3> QED BY <1>3, <1>10, <3>1 DEF CaughtUp
  <2>2. CASE ~(row.id > last)
    <3>1. row.id <= last
      <4> DEFINE m == row.id
      <4>1. m \in Nat /\ last \in Nat /\ ~(m > last)
        BY <1>6, <1>7, <2>2
      <4> HIDE DEF m
      <4>2. m <= last
        BY <4>1
      <4> QED BY <4>2 DEF m
    <3>2. PICK i \in 1..n : b[i] = row
      BY <1>4, <3>1
    <3>3. ASSUME NEW j \in (i + 1)..n, b[j].key = k PROVE FALSE
      <4>1. j \in 1..n /\ i < j
        BY <1>2, <3>2
      <4> DEFINE new == b[j].id
                 old == row.id
      <4>2. old < new /\ new <= old /\ old \in Nat /\ new \in Nat
        BY <1>5, <1>6, <1>10, <3>2, <3>3, <4>1 DEF Newest
      <4> HIDE DEF new, old
      <4> QED BY <4>2
    <3>4. StreamHolds(k, heard[k])
      <4>1. row.key = k
        BY <1>10 DEF Newest
      <4> QED BY <1>5, <1>10, <3>2, <3>3, <4>1
    <3>5. ASSUME NEW r \in log', r.key = k PROVE FALSE
      <4> DEFINE new == r.id
                 old == row.id
      <4>1. new > last /\ old <= last /\ new <= old /\ new \in Nat /\ old \in Nat /\ last \in Nat
        BY <1>3, <1>6, <1>7, <1>10, <3>1, <3>5 DEF Newest
      <4> HIDE DEF new, old
      <4> QED BY <4>1
    <3>6. \A v : v = heard[k] => StreamHolds(k, v)'
      BY <1>8, <3>4
    <3> QED BY <1>3, <3>5, <3>6 DEF CaughtUp
  <2> QED BY <2>1, <2>2
<1> QED BY <1>9, <1>10 DEF CaughtUp

(* A restart hears the log out over the table it starts from.              *)
LEMMA RestartCaught ==
  ASSUME Types, Restart, NEW k \in Key
  PROVE  CaughtUp(k)'
<1> DEFINE rows == InOrder
           n == Len(rows)
           Its == {i \in 1..n : rows[i].key = k}
<1>1. log \subseteq Change /\ IsFiniteSet(log) /\ DistinctIds(log) /\ table \in [Key -> Stored]
  BY DEF Types, DbType, DistinctIds
<1>2. /\ rows \in Seq(log) /\ n \in Nat
      /\ \A i, j \in DOMAIN rows : i < j => rows[i].id < rows[j].id
      /\ \A row \in log : \E i \in 1..n : rows[i] = row
  BY <1>1, LogInOrder
<1>3. rows \in Seq(Change) /\ DOMAIN rows = 1..n /\ \A i \in 1..n : rows[i] \in log
  BY <1>1, <1>2
<1>4. log' = log /\ heard' = ApplyRows(table, rows)
  BY DEF Restart, dbVars, ApplyRows
<1> HIDE DEF rows, n
<1>a. n = Len(rows)
  BY DEF n
<1>5. CASE Its = {}
  <2>1. \A i \in 1..n : rows[i].key # k
    BY <1>5
  <2>2. heard'[k] = table[k]
    <3> DEFINE before == table
               after == ApplyRows(before, rows)
    <3>1. before \in [Key -> Stored] /\ \A i \in 1..Len(rows) : rows[i].key # k
      BY <1>1, <1>a, <2>1
    <3> HIDE DEF before
    <3>2. after[k] = before[k]
      <4> HIDE DEF after
      <4> QED BY <1>3, <3>1, ApplyRowsLast, ZenonT(60) DEF after
    <3> QED BY <1>4, <3>2 DEF before
  <2>3. \A row \in log' : row.key # k
    BY <1>2, <1>4, <2>1
  <2>4. \A v : v = table[k] => StreamHolds(k, v)'
    BY HoldsAnew
  <2> QED BY <2>2, <2>3, <2>4 DEF CaughtUp
<1>6. CASE Its # {}
  <2> DEFINE m == Max(Its)
  <2>1. m \in Its /\ \A i \in Its : i <= m
    BY <1>2, <1>6, Greatest
  <2> HIDE DEF m
  <2>2. m \in 1..n /\ rows[m].key = k
    BY <2>1
  <2>3. ASSUME NEW j \in (m + 1)..n PROVE rows[j].key # k
    <3>1. j \in 1..n /\ ~(j <= m)
      BY <1>2, <2>2
    <3> QED BY <2>1, <3>1
  <2>4. heard'[k] = rows[m].val
    <3>1. m \in 1..Len(rows) /\ \A j \in (m + 1)..Len(rows) : rows[j].key # k
      BY <1>a, <2>2, <2>3
    <3>2. ApplyRows(table, rows)[k] = rows[m].val
      <4>1. \A i \in 1..Len(rows) :
              rows[i].key = k /\ (\A j \in (i + 1)..Len(rows) : rows[j].key # k)
                => ApplyRows(table, rows)[k] = rows[i].val
        <5>1. rows \in Seq(Change) /\ table \in [Key -> Stored]
          BY <1>1, <1>3
        <5> QED BY <5>1, ApplyRowsLast, ZenonT(60)
      <4> QED BY <2>2, <3>1, <4>1
    <3> QED BY <1>4, <3>2
  <2>5. ASSUME NEW r \in log, r.key = k PROVE r.id <= rows[m].id
    <3>1. PICK i \in 1..n : rows[i] = r
      BY <1>2
    <3>2. i \in Nat /\ m \in Nat /\ i <= m
      BY <2>1, <2>2, <2>5, <3>1
    <3>3. CASE i = m
      <4>1. r.id \in Nat /\ rows[m] = r
        BY <1>1, <3>1, <3>3 DEF Change
      <4> QED BY <4>1
    <3>4. CASE i < m
      <4> DEFINE old == r.id
                 new == rows[m].id
      <4>1. old < new
        BY <1>2, <1>3, <2>2, <3>1, <3>4
      <4>2. old \in Nat /\ new \in Nat
        BY <1>1, <1>3, <2>2 DEF Change
      <4> HIDE DEF old, new
      <4>3. old <= new
        BY <4>1, <4>2
      <4> QED BY <4>3 DEF old, new
    <3> QED BY <3>2, <3>3, <3>4
  <2>6. rows[m] \in log' /\ Newest(rows[m], k, log')
    BY <1>3, <1>4, <2>2, <2>5 DEF Newest
  <2> QED BY <2>4, <2>6 DEF CaughtUp
<1> QED BY <1>5, <1>6

LEMMA CaughtStep ==
  ASSUME InOrderInv, Resting, DrainsTakeTurns, OneEach, \A d \in Drainers : Forwarded(d),
         Caught, [Next]_vars, ~RestoreTables
  PROVE  Caught'
<1> SUFFICES ASSUME NEW k \in Key PROVE CaughtUp(k)'
  BY DEF Caught
<1>0. Types /\ CaughtUp(k)
  BY DEF InOrderInv, Caught
<1>1. CASE Restart
  BY <1>0, <1>1, RestartCaught
<1>2. ASSUME ~Restart, log' = log, heard' = heard, \A d \in Drainers : Send(d) => NextRow(d) \in log
      PROVE  CaughtUp(k)'
  <2>1. ASSUME NEW row \in log, Newest(row, k, log), row.val = heard[k] PROVE CaughtUp(k)'
    BY <1>2, <2>1 DEF CaughtUp
  <2>2. ASSUME StreamHolds(k, heard[k]), \A row \in log : row.key # k PROVE CaughtUp(k)'
    <3>1. \A v : v = heard[k] => StreamHolds(k, v)'
      BY <1>2, <2>2, HoldsStep
    <3> QED BY <1>2, <2>2, <3>1 DEF CaughtUp
  <2> QED BY <1>0, <2>1, <2>2 DEF CaughtUp
<1>3. ASSUME ~Restart, NEW d \in Drainers, Send(d) PROVE CaughtUp(k)'
  <2>1. log' = log /\ heard' = heard
    BY <1>3 DEF Send, dbVars, pastVars
  <2>2. \A e \in Drainers : Send(e) => NextRow(e) \in log
    BY <1>0, NextInLog DEF Send
  <2> QED BY <1>2, <1>3, <2>1, <2>2
<1>4. CASE ~Restart /\ \A d \in Drainers : ~Send(d)
  <2>1. ASSUME NEW w \in Writer, CommitWrites(w) PROVE CaughtUp(k)'
    BY <1>0, <1>4, <2>1, CommitCaught
  <2>2. ASSUME NEW d \in Drainers, DeleteBatch(d) PROVE CaughtUp(k)'
    BY <1>0, <1>4, <2>2, DeleteCaught
  <2>3. ASSUME \A w \in Writer : ~CommitWrites(w), \A d \in Drainers : ~DeleteBatch(d)
        PROVE  log' = log /\ heard' = heard
    <3>1. \A w \in Writer : Application(w) => log' = log
      BY <2>3 DEF Application, Write, WriteOpaque, Rekey, Truncate, AbortWrites
    <3>2. UNCHANGED dbVars => log' = log
      BY DEF dbVars
    <3>3. UNCHANGED pastVars \/ PassFence => heard' = heard
      BY DEF pastVars, PassFence
    <3> QED BY <1>4, <2>3, <3>1, <3>2, <3>3, Frames DEF OthersKeep
  <2> QED BY <1>2, <1>4, <2>1, <2>2, <2>3
<1> QED BY <1>1, <1>3, <1>4

-----------------------------------------------------------------------------
(***************************************************************************)
(* Ahead of a cut and applied, the stream holds of each key a value it had *)
(* since the fence. Until the streamer is asked, a change that commits may *)
(* still be sent ahead of the cut.                                         *)
(***************************************************************************)
Later == engine = "take" => \A row \in log : row.val \in since[row.key]

Fenced == \A p : Cut(p) => \A k \in Key : \E v \in since[k] : Ends(Ahead(p), Applied[k], k, v)

LEMMA SinceGrows ==
  ASSUME Types, [Next]_vars, ~PassFence, NEW k \in Key
  PROVE  since[k] \subseteq since'[k]
<1>1. ASSUME NEW w \in Writer, CommitWrites(w) PROVE since[k] \subseteq since'[k]
  BY <1>1 DEF CommitWrites
<1>2. UNCHANGED pastVars \/ RestoreTables \/ Restart => since' = since
  BY DEF pastVars, RestoreTables, Restart
<1> QED BY <1>1, <1>2, Frames DEF OthersKeep

LEMMA LaterStep ==
  ASSUME InOrderInv, FenceDrains, OneEach, Later, [Next]_vars
  PROVE  Later'
<1> SUFFICES ASSUME engine' = "take", NEW row \in log' PROVE row.val \in since'[row.key]
  BY DEF Later
<1>1. Types
  BY DEF InOrderInv
<1>2. CASE PassFence
  BY <1>2 DEF PassFence, FencePassed, dbVars
<1>3. CASE ~PassFence
  <2>1. engine = "take"
    <3>1. ~TakeSnapshot /\ ~TakeSnapshotFails /\ ~Restart /\ ~AskStreamer
      BY DEF TakeSnapshot, TakeSnapshotFails, Restart, AskStreamer
    <3> QED BY <1>1, <1>3, <3>1, EngineMoves
  <2>2. ASSUME row \in log PROVE row.val \in since'[row.key]
    <3>1. row.key \in Key
      BY <1>1, <2>2 DEF Types, DbType, Change
    <3>2. since[row.key] \subseteq since'[row.key]
      BY <1>1, <1>3, <3>1, SinceGrows
    <3> QED BY <2>1, <2>2, <3>2 DEF Later
  <2>3. ASSUME NEW w \in Writer, CommitWrites(w) PROVE row.val \in since'[row.key]
    <3> DEFINE mine == open[w]
    <3>1. CASE row \in mine
      <4>1. /\ mine \in SUBSET Change /\ IsFiniteSet(mine) /\ mine \subseteq Held
            /\ heard \in [Key -> Stored]
        BY <1>1, HeldBy DEF Types, DbType, PastType
      <4>2. heard' = AppliedTo(heard, mine) /\ since' = [k \in Key |-> since[k] \cup {heard'[k]}]
        BY <2>3 DEF CommitWrites
      <4> HIDE DEF mine
      <4>3. \A r, q \in mine : r.key = q.key => r = q
        BY <4>1 DEF OneEach
      <4>4. row.key \in Key
        BY <3>1, <4>1 DEF Change
      <4>5. heard'[row.key] = row.val
        <5>1. ASSUME NEW k \in Key, row.key = k PROVE heard'[k] = row.val
          BY <3>1, <4>1, <4>2, <4>3, <5>1, AppliedToEach
        <5> QED BY <4>4, <5>1
      <4> QED BY <4>2, <4>4, <4>5
    <3>2. row \in log \cup mine
      BY <2>3 DEF CommitWrites
    <3> QED BY <2>2, <3>1, <3>2
  <2>4. ASSUME \A w \in Writer : ~CommitWrites(w) PROVE row \in log
    <3>1. \A w \in Writer : Application(w) => log' = log
      BY <2>4 DEF Application, Write, WriteOpaque, Rekey, Truncate, AbortWrites
    <3>2. UNCHANGED dbVars => log' = log
      BY DEF dbVars
    <3>3. \A d \in Drainers : DeleteBatch(d) => log' \subseteq log
      BY DEF DeleteBatch
    <3>4. RestoreTables => log' = {}
      BY DEF RestoreTables
    <3> QED BY <3>1, <3>2, <3>3, <3>4, Frames DEF OthersKeep
  <2> QED BY <2>2, <2>3, <2>4
<1> QED BY <1>2, <1>3

LEMMA FencedStep ==
  ASSUME InOrderInv, FenceDrains, AskedOnce, Resting, DrainsTakeTurns,
         \A d \in Drainers : Forwarded(d), Caught, Later, Fenced, [Next]_vars
  PROVE  Fenced'
<1> SUFFICES ASSUME NEW p, Cut(p)', NEW k \in Key
             PROVE  \E v \in since'[k] : Ends(Ahead(p)', Applied'[k], k, v)
  BY DEF Fenced
<1>1. Types /\ Applied \in [Key -> Stored]
  BY AppliedMoves DEF InOrderInv
<1>2. CASE PassFence /\ Ahead(p)' = chan /\ UNCHANGED <<active, sealed>>
  <2>1. log = {} /\ since'[k] = {heard[k]}
    BY <1>2 DEF PassFence, FencePassed
  <2>2. StreamHolds(k, heard[k])
    BY <2>1 DEF Caught, CaughtUp
  <2>3. Applied' = Applied
    BY <1>1, <1>2, AppliedMoves
  <2> QED BY <1>2, <2>1, <2>2, <2>3 DEF StreamHolds
<1>3. ASSUME ~PassFence, NEW q, CutFrom(p, q)
      PROVE  \E v \in since'[k] : Ends(Ahead(p)', Applied'[k], k, v)
  <2> DEFINE a == Ahead(q)
             b == Ahead(p)'
  <2>1. a \in Seq(Change \cup {Snap})
    BY <1>3 DEF CutFrom
  <2>2. PICK v \in since[k] : Ends(a, Applied[k], k, v)
    BY <1>3 DEF CutFrom, Fenced
  <2>3. since[k] \subseteq since'[k]
    BY <1>1, <1>3, SinceGrows
  <2>4. CASE b = a /\ UNCHANGED <<active, sealed>>
    <3>1. Applied' = Applied
      BY <1>1, <2>4, AppliedMoves
    <3> QED BY <2>2, <2>3, <2>4, <3>1
  <2>5. CASE ApplyEvent /\ a # <<>> /\ Head(a) = Head(chan) /\ b = Tail(a)
    <3> DEFINE row == Head(a)
               base == IF Changes(row, k) THEN row.val ELSE Applied[k]
    <3>1. row \in Change /\ row # Snap /\ Applied' = ApplyRow(Applied, row)
      <4>1. Head(chan) # Snap
        BY <2>5 DEF ApplyEvent
      <4> QED BY <1>1, <2>5, <4>1, AppliedMoves
    <3>2. Ends(Tail(a), base, k, v)
      <4> HIDE DEF a
      <4> QED BY <2>1, <2>2, <2>5, EndsTail
    <3> HIDE DEF row
    <3>3. Applied'[k] = base
      <4>1. row.key \in Key
        BY <3>1 DEF Change
      <4> QED BY <1>1, <3>1, <4>1 DEF ApplyRow, Changes
    <3> HIDE DEF base, a, b
    <3>4. Ends(b, Applied'[k], k, v)
      BY <2>5, <3>2, <3>3
    <3> QED BY <2>2, <2>3, <3>4 DEF b
  <2>6. ASSUME NEW d \in Drainers, engine = "take", Send(d), b = Append(a, NextRow(d)),
               UNCHANGED <<active, sealed>>
        PROVE  \E u \in since'[k] : Ends(b, Applied'[k], k, u)
    <3> DEFINE row == NextRow(d)
    <3>1. row \in Change /\ row # Snap /\ row \in log
      BY <1>1, <2>6, NextNumbered, NextInLog DEF Send
    <3>2. Applied' = Applied
      BY <1>1, <2>6, AppliedMoves
    <3>3. b = Append(a, row)
      BY <2>6
    <3> HIDE DEF row, a, b
    <3>4. CASE Changes(row, k)
      <4>1. row.val \in since[k]
        BY <2>6, <3>1, <3>4 DEF Later, Changes
      <4>2. Ends(Append(a, row), Applied[k], k, row.val)
        BY <2>1, <3>1, <3>4, EndsAppend
      <4> QED BY <2>3, <3>2, <3>3, <4>1, <4>2
    <3>5. CASE ~Changes(row, k)
      <4>1. Ends(Append(a, row), Applied[k], k, v)
        BY <2>1, <2>2, <3>1, <3>5, EndsAppend
      <4> QED BY <2>2, <2>3, <3>2, <3>3, <4>1
    <3> QED BY <3>4, <3>5
  <2>7. \/ b = a /\ UNCHANGED <<active, sealed>>
        \/ ApplyEvent /\ a # <<>> /\ Head(a) = Head(chan) /\ b = Tail(a)
        \/ /\ engine = "take" /\ UNCHANGED <<active, sealed>>
           /\ \E d \in Drainers : Send(d) /\ b = Append(a, NextRow(d))
    BY <1>3 DEF CutFrom
  <2> QED BY <2>4, <2>5, <2>6, <2>7
<1> QED BY <1>2, <1>3, CutMoves

(* What is ahead of the cut has been applied when the snapshot is taken.   *)
LEMMA SnapshotStep ==
  ASSUME Types, AskedOnce, Fenced, SnapshotCurrent, [Next]_vars
  PROVE  SnapshotCurrent'
<1> DEFINE Current(snap) == \A k \in Key : Replay(snap.segments)[k] \in snap.since[k]
           new == [segments |-> SealedForSnapshot, since |-> since, due |-> fenced]
<1>1. \A i \in DOMAIN snaps : Current(snaps[i])
  BY DEF SnapshotCurrent
<1>2. CASE snaps' = snaps
  BY <1>2 DEF SnapshotCurrent
<1>3. CASE TakeSnapshot
  <2>1. ASSUME NEW k \in Key PROVE Replay(SealedForSnapshot)[k] \in since[k]
    <3>1. Cut(1) /\ Len(Ahead(1)) = 0
      BY <1>3, CutAtHead
    <3>2. PICK v \in since[k] : Ends(Ahead(1), Applied[k], k, v)
      BY <3>1 DEF Fenced
    <3>3. v = Applied[k]
      BY <3>1, <3>2 DEF Ends
    <3> QED BY <3>2, <3>3, AppliedMoves
  <2>2. Current(new)
    BY <2>1
  <2> HIDE DEF new, Current
  <2>3. \A i \in DOMAIN snaps' : Current(snaps'[i])
    BY <1>1, <1>3, <2>2, AddedSnapshot DEF new
  <2> QED BY <2>3 DEF SnapshotCurrent, Current
<1> QED BY <1>2, <1>3, SnapsMove

-----------------------------------------------------------------------------
(* Nothing has been restored yet, and then nothing was before the step.    *)
LEMMA NotYetRestored ==
  ASSUME Types, [Next]_vars, restores' = 0
  PROVE  restores = 0 /\ ~RestoreTables
<1>1. restores \in Nat
  BY DEF Types, BoundType
<1>2. ~RestoreTables
  <2>1. RestoreTables => restores' = restores + 1
    BY DEF RestoreTables
  <2> QED BY <1>1, <2>1
<1> QED BY <1>2, OnlyRestores

Tracked == (\A d \in Drainers : Forwarded(d)) /\ Caught /\ Later /\ Fenced /\ SnapshotCurrent

CurrentInv ==
  /\ InOrderInv
  /\ FenceDrains /\ AskedOnce /\ Resting /\ DrainsTakeTurns /\ OneEach
  /\ restores = 0 => Tracked

LEMMA CurrentInit == ASSUME Init PROVE CurrentInv
<1>1. InOrderInv /\ Types
  BY InOrderInit DEF InOrderInv
<1>2. drain = [d \in Drainers |-> NoDrain] /\ "engine" \in Drainers
  BY DEF Init, Drainers
<1>3. /\ FenceDrains /\ Resting /\ DrainsTakeTurns
      /\ \A d \in Drainers : Forwarded(d)
  BY <1>2, NotBusy DEF FenceDrains, Resting, DrainsTakeTurns, Forwarded
<1>4. Len(chan) = 0 /\ DOMAIN snaps = {} /\ engine = "idle"
  BY DEF Init
<1>5. AskedOnce /\ SnapshotCurrent /\ Later /\ Fenced
  BY <1>4 DEF AskedOnce, SnapshotCurrent, Later, Fenced, Cut
<1>6. OneEach
  BY DEF OneEach, Held, Init
<1>7. Applied = table
  <2>1. table \in [Key -> Stored] /\ table \in [Key -> Row]
    BY <1>1 DEF Types, DbType, Init
  <2>2. Replay(sealed) = table
    BY <2>1, BootstrapReplays DEF Init
  <2> QED BY <2>1, <2>2, ApplyRowsNone DEF Applied, Init
<1>8. Caught
  <2>1. ASSUME NEW k \in Key PROVE StreamHolds(k, heard[k])
    BY <1>4, <1>7 DEF StreamHolds, Ends, Init
  <2> QED BY <2>1 DEF Caught, CaughtUp, Init
<1> QED BY <1>1, <1>3, <1>5, <1>6, <1>8 DEF CurrentInv, Tracked

LEMMA CurrentStep ==
  ASSUME CurrentInv, [Next]_vars, CommitsInOrder, DrainsTakeTurns', ~Skip("poller")
  PROVE  CurrentInv'
<1> USE DEF CurrentInv
<1>1. InOrderInv' /\ Types /\ Types'
  BY InOrderStep DEF InOrderInv
<1>2. FenceDrains' /\ AskedOnce'
  BY <1>1, FenceDrainsStep, AskedStep
<1>3. Resting' /\ OneEach'
  BY <1>1, RestingStep, OneEachStep
<1>4. ASSUME restores' = 0 PROVE Tracked'
  <2>1. Tracked /\ ~RestoreTables
    BY <1>1, <1>4, NotYetRestored
  <2>2. \A d \in Drainers : Forwarded(d)'
    BY <2>1, ForwardedStep DEF Tracked
  <2>3. Caught' /\ Later' /\ Fenced'
    BY <2>1, CaughtStep, LaterStep, FencedStep DEF Tracked
  <2>4. SnapshotCurrent'
    BY <1>1, <2>1, SnapshotStep DEF Tracked
  <2> QED BY <2>2, <2>3, <2>4 DEF Tracked
<1> QED BY <1>1, <1>2, <1>3, <1>4

(* The drains keep taking turns while nothing happens.                     *)
LEMMA StutterInTurn ==
  ASSUME Types, DrainsTakeTurns, UNCHANGED vars
  PROVE  CommitsInOrder /\ PollerInTurn
<1>1. log' = log /\ drain' = drain
  BY DEF vars, dbVars
<1>2. CommitsInOrder /\ DrainsTakeTurns'
  BY <1>1 DEF CommitsInOrder, DrainsTakeTurns
<1>3. ~Skip("poller")
  <2> SUFFICES ASSUME Skip("poller") PROVE FALSE
    OBVIOUS
  <2> DEFINE s == drain["poller"].sent
  <2>1. drain \in [Drainers -> [busy : BOOLEAN, batch : Seq(Change), sent : Nat]] /\ "poller" \in Drainers
    BY DEF Types, DrainType, Drainers
  <2>2. drain' = [drain EXCEPT !["poller"].sent = @ + 1]
    BY DEF Skip
  <2>3. drain'["poller"].sent = s + 1 /\ s \in Nat
    BY <2>1, <2>2
  <2>4. drain'["poller"].sent = s
    BY <1>1
  <2> HIDE DEF s
  <2>5. s + 1 # s
    BY <2>3
  <2> QED BY <2>3, <2>4, <2>5
<1> QED BY <1>2, <1>3 DEF PollerInTurn

(* A snapshot holds of each key a value it had between the fence and the   *)
(* snapshot, up to the first restore and whatever fails, refuses or        *)
(* restarts meanwhile, provided changes become visible in the order of     *)
(* their numbers and the poller, ticking as it may, neither overlaps a     *)
(* fence nor drops a change it cannot read.                                *)
THEOREM FencedSnapshotsCurrent ==
  Spec /\ [][CommitsInOrder /\ PollerInTurn]_vars => [](restores = 0 => SnapshotCurrent)
<1>1. Init => CurrentInv
  BY CurrentInit
<1>2. CurrentInv /\ [Next]_vars /\ [CommitsInOrder /\ PollerInTurn]_vars => CurrentInv'
  <2> SUFFICES ASSUME CurrentInv, [Next]_vars, [CommitsInOrder /\ PollerInTurn]_vars PROVE CurrentInv'
    OBVIOUS
  <2>1. CommitsInOrder /\ PollerInTurn
    BY StutterInTurn DEF CurrentInv, InOrderInv
  <2> QED BY <2>1, CurrentStep DEF PollerInTurn
<1>3. CurrentInv => (restores = 0 => SnapshotCurrent)
  BY DEF CurrentInv, Tracked
<1> QED BY <1>1, <1>2, <1>3, PTL DEF Spec

(* The same of an application whose transactions do not overlap.           *)
THEOREM OneWriterSnapshotsCurrent ==
  ASSUME \A v, w \in Writer : v = w
  PROVE  Spec /\ [][PollerInTurn]_vars => [](restores = 0 => SnapshotCurrent)
<1>1. Init => CurrentInv
  BY CurrentInit
<1>2. CurrentInv /\ [Next]_vars /\ [PollerInTurn]_vars => CurrentInv'
  <2> SUFFICES ASSUME CurrentInv, [Next]_vars, [PollerInTurn]_vars PROVE CurrentInv'
    OBVIOUS
  <2>1. PollerInTurn
    BY StutterInTurn DEF CurrentInv, InOrderInv
  <2>2. CommitsInOrder
    BY OneWriterInOrder DEF CurrentInv
  <2> QED BY <2>1, <2>2, CurrentStep DEF PollerInTurn
<1>3. CurrentInv => (restores = 0 => SnapshotCurrent)
  BY DEF CurrentInv, Tracked
<1> QED BY <1>1, <1>2, <1>3, PTL DEF Spec
=============================================================================
