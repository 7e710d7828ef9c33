------------------------------- MODULE Manifest -------------------------------
(***************************************************************************)
(* Segments and manifests of one tracked table: how a run of row changes   *)
(* becomes a segment, how a manifest orders its segments, when its bytes   *)
(* can be decoded again, and what replaying them leaves in the table.      *)
(*                                                                         *)
(* Tables share nothing: a manifest sorts by table first, and restore      *)
(* replays table by table. A change is a record with a key and a value;    *)
(* NoRow stands for a deleted row. A segment stands for its reference too  *)
(* (the store gives back the rows of a hash).                              *)
(***************************************************************************)
EXTENDS Integers, Sequences, SequencesExt

CONSTANTS
  Key,      (* Primary keys, as many as the rows of a table.               *)
  Val,      (* Row images.                                                 *)
  NoRow     (* No such row.                                                *)

ASSUME ManifestAssumption ==
  Key \subseteq Int /\ IsFiniteSet(Key) /\ NoRow \notin Val

NoRows == [k \in Key |-> NoRow]

(* lo is the key of the first change and hi that of the last, whatever     *)
(* lies between them.                                                      *)
Segment(rows) == [lo |-> rows[1].key, hi |-> rows[Len(rows)].key, rows |-> rows]

(* In front of the first reference whose lower key is not smaller.         *)
Push(entries, s) ==
  LET pos == SelectInSeq(entries, LAMBDA e : e.lo >= s.lo)
  IN  InsertAt(entries, IF pos = 0 THEN Len(entries) + 1 ELSE pos, s)

(* What validate_invariants lets pass: (lo, hi) strictly ascending.        *)
Decodable(entries) ==
  \A i \in 1..(Len(entries) - 1) :
    \/ entries[i].lo < entries[i + 1].lo
    \/ entries[i].lo = entries[i + 1].lo /\ entries[i].hi < entries[i + 1].hi

(* One upsert or delete.                                                   *)
ApplyRow(t, row) == [t EXCEPT ![row.key] = row.val]

ApplyRows(t, rows) == FoldLeft(ApplyRow, t, rows)

(* The table after TRUNCATE and every segment in the order given.          *)
Replay(segments) == FoldLeft(LAMBDA t, s : ApplyRows(t, s.rows), NoRows, segments)

(* A snapshot's manifest: the sealed segments pushed one by one.           *)
ManifestOf(segments) == FoldLeft(Push, <<>>, segments)

(* bootstrap_table: the rows of t by key, cut every n rows.                *)
Bootstrap(t, n) ==
  LET keys == CHOOSE ks \in SetToSeqs({k \in Key : t[k] # NoRow}) :
                \A i, j \in DOMAIN ks : i < j => ks[i] < ks[j]
      rows == [i \in DOMAIN keys |-> [id |-> 0, key |-> keys[i], val |-> t[keys[i]]]]
      last(j) == IF j * n < Len(rows) THEN j * n ELSE Len(rows)
  IN  [j \in 1..((Len(rows) + n - 1) \div n) |->
         Segment(SubSeq(rows, (j - 1) * n + 1, last(j)))]
=============================================================================
