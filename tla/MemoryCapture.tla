---------------------------- MODULE MemoryCapture ----------------------------
(***************************************************************************)
(* The Postgres memory adapter's capture pipeline: application writes,     *)
(* the change log their triggers fill, the two tasks that drain it (the    *)
(* poller, and the fence of a snapshot), the streamer that turns changes   *)
(* into sealed segments, snapshots, restores, and a daemon restart.        *)
(*                                                                         *)
(* One tracked table (see Manifest). commit_lock keeps snapshots and       *)
(* restores one at a time; the snapshot's advisory lock adds nothing to    *)
(* one daemon. A row's lock keeps open transactions off each other's keys. *)
(***************************************************************************)
EXTENDS Manifest, FiniteSets

CONSTANTS
  Opaque,       (* A value whose JSON serde_json refuses: 1e400 in jsonb.  *)
  Writer,       (* Application transactions that may be open at a time.    *)
  PollerTicks,  (* Whether the poll interval elapses in the behaviour.     *)
  SealAt,       (* segment_target_bytes, in rows.                          *)
  BatchSize,    (* POLL_BATCH_SIZE.                                        *)
  Depth,        (* DEFAULT_CHANNEL_DEPTH.                                  *)
  MaxWrites, MaxOdd, MaxSnaps, MaxRestores, MaxRestarts, MaxFaults
                (* Bounds; MaxOdd: of Rekey, Truncate, WriteOpaque.        *)

ASSUME CaptureAssumption ==
  /\ PollerTicks \in BOOLEAN
  /\ Opaque \notin Val \cup {NoRow}
  /\ {SealAt, BatchSize, Depth} \subseteq Nat \ {0}
  /\ {MaxWrites, MaxOdd, MaxSnaps, MaxRestores, MaxRestarts, MaxFaults} \subseteq Nat

VARIABLES
  table,        (* The committed rows.                                     *)
  log,          (* agentic_change_log: the committed changes.              *)
  nextId,       (* Its BIGSERIAL.                                          *)
  unreadable,   (* Ids of its rows that drain_once cannot decode.          *)
  open,         (* Each writer's uncommitted changes.                      *)
  gone,         (* The rows it has removed without a trigger's noticing.   *)
  chan,         (* The streamer's command channel.                         *)
  active,       (* The active head: changes not yet sealed.                *)
  sealed,       (* The sealed segments, in seal order.                     *)
  drain,        (* The drain_once the poller, or the engine, is in.        *)
  engine,       (* The snapshot or restore under commit_lock.              *)
  target,       (* The manifest a restore restores.                        *)
  snaps,        (* The snapshots taken.                                    *)
  due,          (* History: ids of changes the stream has to hold.         *)
  heard,        (* History: the rows, those gone unheard as they were.     *)
  since,        (* History: since[k], heard[k] since the fence passed.     *)
  fenced,       (* History: due, when the fence passed.                    *)
  odd, restores, restarts, faults

dbVars     == <<table, log, nextId, unreadable, open, gone>>
streamVars == <<chan, active, sealed>>
engineVars == <<engine, target, snaps>>
pastVars   == <<due, heard, since, fenced>>
boundVars  == <<odd, restores, restarts, faults>>
vars == <<dbVars, streamVars, drain, engineVars, pastVars, boundVars>>

-----------------------------------------------------------------------------
Row == Val \cup {NoRow}
Stored == Row \cup {Opaque}
Change == [id : Nat, key : Key, val : Stored]
Drainers == {"poller", "engine"}

(* TakeSnapshot, among the Events of the channel.                          *)
Snap == [id |-> 0, key |-> 0, val |-> NoRow]

Ids(rows) == {row.id : row \in rows}
Held == UNION {open[w] : w \in Writer}
NoDrain == [busy |-> FALSE, batch |-> <<>>, sent |-> 0]

TypeOK ==
  /\ table \in [Key -> Stored]
  /\ log \subseteq Change /\ nextId \in Nat /\ unreadable \subseteq 1..MaxWrites
  /\ open \in [Writer -> SUBSET Change] /\ gone \in [Writer -> SUBSET Key]
  /\ chan \in Seq(Change \cup {Snap}) /\ Len(chan) <= Depth
  /\ active \in Seq(Change)
  /\ \A i \in DOMAIN sealed : sealed[i].rows \in Seq(Change) \ {<<>>}
  /\ drain \in [Drainers -> [busy : BOOLEAN, batch : Seq(Change), sent : Nat]]
  /\ engine \in {"idle", "drain", "take", "wait", "restore"}
  /\ due \subseteq 1..MaxWrites
  /\ heard \in [Key -> Stored]
  /\ since \in [Key -> SUBSET Stored] /\ fenced \subseteq 1..MaxWrites

(* After init: the triggers are there and the baseline is seeded.          *)
Init ==
  /\ table \in [Key -> Row]
  /\ log = {} /\ nextId = 1 /\ unreadable = {}
  /\ open = [w \in Writer |-> {}] /\ gone = [w \in Writer |-> {}]
  /\ chan = <<>> /\ active = <<>> /\ sealed = Bootstrap(table, SealAt)
  /\ drain = [d \in Drainers |-> NoDrain]
  /\ engine = "idle" /\ target = <<>> /\ snaps = <<>>
  /\ due = {} /\ heard = table /\ since = [k \in Key |-> {}] /\ fenced = {}
  /\ odd = 0 /\ restores = 0 /\ restarts = 0 /\ faults = 0

-----------------------------------------------------------------------------
(***************************************************************************)
(* The application. The trigger numbers a change when it is made; others   *)
(* see it in the log when its transaction commits. A transaction that      *)
(* truncates does so before it writes.                                     *)
(***************************************************************************)
Locked(k) == (\E row \in Held : row.key = k) \/ (\E w \in Writer : k \in gone[w])

(* agentic_capture reports the NEW row, of a DELETE the OLD one.           *)
Reported(k, v) == IF v = NoRow THEN table[k] ELSE v

Changed(w, k, v) ==
  /\ nextId + odd <= MaxWrites
  /\ open' = [open EXCEPT ![w] = @ \cup {[id |-> nextId, key |-> k, val |-> v]}]
  /\ unreadable' = unreadable \cup (IF Reported(k, v) = Opaque THEN {nextId} ELSE {})
  /\ nextId' = nextId + 1

Write(w, k, v) ==
  /\ ~Locked(k)
  /\ v # NoRow \/ table[k] # NoRow
  /\ Changed(w, k, v)
  /\ UNCHANGED <<table, log, gone, streamVars, drain, engineVars, pastVars, boundVars>>

WriteOpaque(w, k) ==
  /\ odd < MaxOdd
  /\ ~Locked(k)
  /\ Changed(w, k, Opaque)
  /\ odd' = odd + 1
  /\ UNCHANGED <<table, log, gone, streamVars, drain, engineVars, pastVars,
                 restores, restarts, faults>>

(* An UPDATE that gives the row of k the key m: of k nothing is reported.  *)
Rekey(w, k, m) ==
  /\ odd < MaxOdd
  /\ ~Locked(k) /\ ~Locked(m) /\ table[k] # NoRow /\ table[m] = NoRow
  /\ Changed(w, m, table[k])
  /\ gone' = [gone EXCEPT ![w] = @ \cup {k}] /\ odd' = odd + 1
  /\ UNCHANGED <<table, log, streamVars, drain, engineVars, pastVars,
                 restores, restarts, faults>>

(* TRUNCATE fires no row trigger and waits for whoever wrote the table.    *)
Truncate(w) ==
  /\ odd < MaxOdd /\ nextId + odd <= MaxWrites
  /\ \A k \in Key : ~Locked(k)
  /\ gone' = [gone EXCEPT ![w] = Key] /\ odd' = odd + 1
  /\ UNCHANGED <<table, log, nextId, unreadable, open, streamVars, drain, engineVars, pastVars,
                 restores, restarts, faults>>

AppliedTo(rows, changes) == FoldSet(LAMBDA row, t : ApplyRow(t, row), rows, changes)

CommitWrites(w) ==
  /\ open[w] # {} \/ gone[w] # {}
  /\ table' = AppliedTo([k \in Key |-> IF k \in gone[w] THEN NoRow ELSE table[k]], open[w])
  /\ log' = log \cup open[w]
  /\ open' = [open EXCEPT ![w] = {}] /\ gone' = [gone EXCEPT ![w] = {}]
  /\ due' = due \cup (Ids(open[w]) \ unreadable)
  /\ heard' = AppliedTo(heard, open[w])
  /\ since' = [k \in Key |-> since[k] \cup {heard'[k]}]
  /\ UNCHANGED <<nextId, unreadable, streamVars, drain, engineVars, fenced, boundVars>>

AbortWrites(w) ==
  /\ open[w] # {} \/ gone[w] # {}
  /\ open' = [open EXCEPT ![w] = {}] /\ gone' = [gone EXCEPT ![w] = {}]
  /\ UNCHANGED <<table, log, nextId, unreadable, streamVars, drain, engineVars, pastVars,
                 boundVars>>

-----------------------------------------------------------------------------
(***************************************************************************)
(* drain_once: fetch the oldest changes, send each, delete them by id.     *)
(***************************************************************************)
InOrder ==
  CHOOSE rows \in SetToSeqs(log) : \A i, j \in DOMAIN rows : i < j => rows[i].id < rows[j].id

Batch == SubSeq(InOrder, 1, IF Len(InOrder) < BatchSize THEN Len(InOrder) ELSE BatchSize)

(* Variant: the lock a restore took from the poller is never given back.   *)
MayFetchUntilRestore(d) ==
  IF d = "poller" THEN PollerTicks /\ engine # "restore" /\ restores = 0
                  ELSE engine = "drain"

(* The poller takes its pause_lock, which a restore holds.                 *)
MayFetch(d) ==
  IF d = "poller" THEN PollerTicks /\ engine # "restore" ELSE engine = "drain"

(* Variant: the fence skips what it cannot read, as the poller does.       *)
RefusesNothing(d, rows) == FALSE

(* DrainMode::Strict looks at every row of its batch before it sends one.  *)
Refuses(d, rows) == d = "engine" /\ Ids(rows) \cap unreadable # {}

Fetch(d) ==
  /\ ~drain[d].busy /\ log # {} /\ MayFetch(d) /\ ~Refuses(d, ToSet(Batch))
  /\ drain' = [drain EXCEPT ![d] = [busy |-> TRUE, batch |-> Batch, sent |-> 0]]
  /\ UNCHANGED <<dbVars, streamVars, engineVars, pastVars, boundVars>>

(* Variant: an unbounded channel.                                          *)
HasRoomAlways == TRUE

(* What mpsc's send waits for.                                             *)
HasRoom == Len(chan) < Depth

Unsent(d) == drain[d].sent < Len(drain[d].batch)
NextRow(d) == drain[d].batch[drain[d].sent + 1]

Send(d) ==
  /\ Unsent(d) /\ NextRow(d).id \notin unreadable /\ HasRoom
  /\ chan' = Append(chan, NextRow(d))
  /\ drain' = [drain EXCEPT ![d].sent = @ + 1]
  /\ UNCHANGED <<dbVars, active, sealed, engineVars, pastVars, boundVars>>

(* DrainMode::Lenient goes past it.                                        *)
Skip(d) ==
  /\ Unsent(d) /\ NextRow(d).id \in unreadable
  /\ drain' = [drain EXCEPT ![d].sent = @ + 1]
  /\ UNCHANGED <<dbVars, streamVars, engineVars, pastVars, boundVars>>

(* Variant: the rows go before the last of them was sent.                  *)
AllSentEarly(d) == drain[d].busy

AllSent(d) == drain[d].busy /\ drain[d].sent = Len(drain[d].batch)

DeleteBatch(d) ==
  /\ AllSent(d)
  /\ LET last == drain[d].batch[Len(drain[d].batch)].id
     IN  log' = {row \in log : row.id > last}
  /\ drain' = [drain EXCEPT ![d] = NoDrain]
  /\ UNCHANGED <<table, nextId, unreadable, open, gone, streamVars, engineVars, pastVars, boundVars>>

(* Postgres fails the drain: what it sent stays sent, its rows stay. The   *)
(* poller tries again at its next tick, a snapshot fails.                  *)
DrainFails(d) ==
  /\ drain[d].busy /\ faults < MaxFaults
  /\ drain' = [drain EXCEPT ![d] = NoDrain]
  /\ engine' = IF d = "engine" THEN "idle" ELSE engine
  /\ faults' = faults + 1
  /\ UNCHANGED <<dbVars, streamVars, target, snaps, pastVars, odd, restores, restarts>>

-----------------------------------------------------------------------------
(***************************************************************************)
(* The streamer task.                                                      *)
(***************************************************************************)
ApplyEvent ==
  /\ chan # <<>> /\ Head(chan) # Snap
  /\ chan' = Tail(chan)
  /\ LET rows == Append(active, Head(chan))
     IN  \/ /\ Len(rows) < SealAt
            /\ active' = rows /\ UNCHANGED <<sealed, faults>>
         \/ /\ Len(rows) >= SealAt
            /\ active' = <<>> /\ sealed' = Append(sealed, Segment(rows))
            /\ UNCHANGED faults
         \/ /\ Len(rows) >= SealAt /\ faults < MaxFaults   (* put_raw fails. *)
            /\ active' = rows /\ faults' = faults + 1 /\ UNCHANGED sealed
  /\ UNCHANGED <<dbVars, drain, engineVars, pastVars, odd, restores, restarts>>

(* seal_if_nonempty.                                                       *)
SealedForSnapshot ==
  IF active = <<>> THEN sealed ELSE Append(sealed, Segment(active))

TakeSnapshot ==
  /\ chan # <<>> /\ Head(chan) = Snap
  /\ chan' = Tail(chan)
  /\ sealed' = SealedForSnapshot /\ active' = <<>>
  /\ snaps' = Append(snaps, [segments |-> SealedForSnapshot, since |-> since, due |-> fenced])
  /\ engine' = "idle"
  /\ UNCHANGED <<dbVars, drain, target, pastVars, boundVars>>

TakeSnapshotFails ==
  /\ chan # <<>> /\ Head(chan) = Snap /\ active # <<>>
  /\ faults < MaxFaults
  /\ chan' = Tail(chan) /\ engine' = "idle" /\ faults' = faults + 1
  /\ UNCHANGED <<dbVars, active, sealed, drain, target, snaps, pastVars, odd, restores, restarts>>

-----------------------------------------------------------------------------
(***************************************************************************)
(* The engine: MemoryAdapter::snapshot of a commit, and the restore of a   *)
(* rollback.                                                               *)
(***************************************************************************)
BeginSnapshot ==
  /\ engine = "idle" /\ Len(snaps) < MaxSnaps
  /\ engine' = "drain"
  /\ UNCHANGED <<dbVars, streamVars, drain, target, snaps, pastVars, boundVars>>

(* Variant: the fence stops after one batch.                               *)
FencePassedEarly == engine = "drain" /\ ~drain["engine"].busy

(* drain_to_completion's last drain_once finds the log empty.              *)
FencePassed == engine = "drain" /\ ~drain["engine"].busy /\ log = {}

PassFence ==
  /\ FencePassed
  /\ engine' = "take"
  /\ since' = [k \in Key |-> {heard[k]}] /\ fenced' = due
  /\ UNCHANGED <<dbVars, streamVars, drain, target, snaps, due, heard, boundVars>>

(* The advisory lock, a query of the drain or the schema version fails.    *)
SnapshotFails ==
  /\ engine \in {"drain", "take"} /\ ~drain["engine"].busy
  /\ faults < MaxFaults
  /\ engine' = "idle" /\ faults' = faults + 1
  /\ UNCHANGED <<dbVars, streamVars, drain, target, snaps, pastVars, odd, restores, restarts>>

(* The commit fails and the row stays, for the poller to drop.             *)
FenceRefuses ==
  /\ engine = "drain" /\ ~drain["engine"].busy /\ Refuses("engine", ToSet(Batch))
  /\ engine' = "idle"
  /\ UNCHANGED <<dbVars, streamVars, drain, target, snaps, pastVars, boundVars>>

AskStreamer ==
  /\ engine = "take" /\ HasRoom
  /\ chan' = Append(chan, Snap)
  /\ engine' = "wait"
  /\ UNCHANGED <<dbVars, active, sealed, drain, target, snaps, pastVars, boundVars>>

(* Variant: a restore does not wait for the poller's tick to end.          *)
PollerQuietUnchecked == TRUE

(* pause() gets the lock once no tick is under way.                        *)
PollerQuiet == ~drain["poller"].busy

BeginRestore ==
  /\ engine = "idle" /\ restores < MaxRestores
  /\ PollerQuiet
  /\ \E i \in DOMAIN snaps :
       /\ Decodable(ManifestOf(snaps[i].segments))
       /\ target' = ManifestOf(snaps[i].segments)
  /\ engine' = "restore"
  /\ UNCHANGED <<dbVars, streamVars, drain, snaps, pastVars, boundVars>>

(* TRUNCATE waits for every transaction that wrote the table or the log.   *)
RestoreTables ==
  /\ engine = "restore" /\ \A k \in Key : ~Locked(k)
  /\ table' = Replay(target) /\ log' = {} /\ heard' = table'
  /\ engine' = "idle" /\ target' = <<>>
  /\ due' = {} /\ restores' = restores + 1
  /\ UNCHANGED <<nextId, unreadable, open, gone, streamVars, drain, snaps, since, fenced,
                 odd, restarts, faults>>

(* The transaction rolls back and the guard goes.                          *)
RestoreFails ==
  /\ engine = "restore" /\ faults < MaxFaults
  /\ engine' = "idle" /\ target' = <<>> /\ faults' = faults + 1
  /\ UNCHANGED <<dbVars, streamVars, drain, snaps, pastVars, odd, restores, restarts>>

(* The daemon dies and another runs init: a new streamer, a new baseline;  *)
(* the log and the application's transactions outlive it. bootstrap_table, *)
(* and init with it, fails on a row it cannot read.                        *)
Restart ==
  /\ restarts < MaxRestarts /\ \A k \in Key : table[k] # Opaque
  /\ chan' = <<>> /\ active' = <<>> /\ sealed' = Bootstrap(table, SealAt)
  /\ drain' = [d \in Drainers |-> NoDrain]
  /\ engine' = "idle" /\ target' = <<>>
  /\ due' = {} /\ heard' = FoldLeft(ApplyRow, table, InOrder)
  /\ restarts' = restarts + 1
  /\ UNCHANGED <<dbVars, snaps, since, fenced, odd, restores, faults>>

-----------------------------------------------------------------------------
Application(w) ==
  \/ \E k \in Key, v \in Row : Write(w, k, v)
  \/ \E k \in Key : WriteOpaque(w, k)
  \/ \E k, m \in Key : Rekey(w, k, m)
  \/ Truncate(w)
  \/ CommitWrites(w) \/ AbortWrites(w)

Drain(d) == Fetch(d) \/ Send(d) \/ Skip(d) \/ DeleteBatch(d)
Streamer == ApplyEvent \/ TakeSnapshot \/ TakeSnapshotFails
Engine == PassFence \/ FenceRefuses \/ AskStreamer \/ SnapshotFails \/ RestoreTables \/ RestoreFails

Next ==
  \/ \E w \in Writer : Application(w)
  \/ \E d \in Drainers : Drain(d) \/ DrainFails(d)
  \/ Streamer \/ Engine \/ BeginSnapshot \/ BeginRestore \/ Restart

Spec == Init /\ [][Next]_vars

(* Every task that can go on does, and no application transaction stays    *)
(* open for ever (a restore's TRUNCATE would wait as long).                *)
Fairness ==
  /\ \A d \in Drainers : WF_vars(Drain(d))
  /\ WF_vars(Streamer) /\ WF_vars(Engine)
  /\ \A w \in Writer : WF_vars(CommitWrites(w) \/ AbortWrites(w))

FairSpec == Spec /\ Fairness

-----------------------------------------------------------------------------
Streamed == ToSet(chan) \cup ToSet(active) \cup UNION {ToSet(sealed[i].rows) : i \in DOMAIN sealed}

(***************************************************************************)
(* A committed change that drain_once can read is in the log until it is   *)
(* in the stream, whatever the two drainers, failures and restores do in   *)
(* between: drain_once sends first and deletes what it sent ("Any rows     *)
(* still in the log are strictly newer than max_id").                      *)
(***************************************************************************)
NothingLost == due \subseteq Ids(log) \cup Ids(Streamed)

(***************************************************************************)
(* Every such change committed before the fence passed is in the segments  *)
(* of its snapshot, whichever drainer took it from the log, and however    *)
(* the two overlapped: "Every committed change has been forwarded to the   *)
(* streamer before sealing" (PostgresAdapter::snapshot).                   *)
(***************************************************************************)
SnapshotComplete ==
  \A i \in DOMAIN snaps :
    snaps[i].due \subseteq UNION {Ids(ToSet(s.rows)) : s \in ToSet(snaps[i].segments)}

(***************************************************************************)
(* What a snapshot's segments hold, replayed in the order they were        *)
(* sealed, is for each key a value it had between the fence and the        *)
(* snapshot, never an older one: it is to "faithfully reflect database     *)
(* state at the moment of call" (PostgresAdapter::snapshot). Only a row    *)
(* removed by TRUNCATE or by a change of its primary key, which            *)
(* agentic_capture does not report, is held as it last was. A restore      *)
(* breaks this, and so does the poller where it overlaps a fence or drops  *)
(* a change.                                                               *)
(***************************************************************************)
SnapshotCurrent ==
  \A i \in DOMAIN snaps :
    LET rows == Replay(snaps[i].segments)
    IN  \A k \in Key : rows[k] \in snaps[i].since[k]

(* pause_lock keeps the poller from a restore; from a fence nothing does.  *)
DrainsTakeTurns == \A d, e \in Drainers : drain[d].busy /\ drain[e].busy => d = e

(* The poller neither overlaps a fence nor drops a change.                 *)
PollerInTurn == DrainsTakeTurns' /\ ~Skip("poller")

(***************************************************************************)
(* A restore of a snapshot's manifest brings those values back: "Apply     *)
(* every envelope in seal order. Later events for the same primary key     *)
(* supersede earlier ones" (restore_manifest).                             *)
(***************************************************************************)
RestoreFaithful ==
  \A i \in DOMAIN snaps :
    LET entries == ManifestOf(snaps[i].segments)
    IN  Decodable(entries) => \A k \in Key : Replay(entries)[k] \in snaps[i].since[k]

(***************************************************************************)
(* A restore rewrites the tables only while the poller is between ticks,   *)
(* so no change fetched before it is sent after it (begin_restore).        *)
(***************************************************************************)
RestoreQuiesced == [][restores' # restores => ~drain["poller"].busy]_vars

(***************************************************************************)
(* Every change leaves the log: the poller forwards it, or drops it when   *)
(* it cannot read it, a restore overwrites it, or a fence takes it.        *)
(***************************************************************************)
LogDrains == \A n \in 1..MaxWrites : n \in Ids(log) ~> n \notin Ids(log)
=============================================================================
