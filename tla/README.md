# A TLA+ model of agenticd

`agenticd` is a daemon that versions an agent: each *commit* records its prompts,
model, tools and memory (tables of a Postgres database), and a *rollback* brings
an old commit back. This directory holds TLA+ modules translated from the code
under `src/crates/`, TLC configurations that check them on small instances, and
proofs checked by TLAPS.

## 1. The system

| Component | State | Operations | Talks to |
|---|---|---|---|
| Dispatch (`agenticd/src/server.rs`) | `commit_lock` (a fair tokio mutex), `commit_slots` (a semaphore), the shutdown token | one request at a time per connection: Commit, Rollback, Diff, Log, ResolveRef, ReadObject, Ping | everything below |
| Commit engine (`agenticd/src/commit.rs`, `agentic-core/src/commit.rs`, `refs.rs`, `store.rs`) | object store, branch refs, HEAD | stage blobs, put Commit, write branch, publish HEAD | memory adapter, MCP servers |
| Rollback (`agenticd/src/rollback/`, `migrate.rs`) | the schema, the tables, the prompts directory | gate, reverse migrations, restore, write prompts back, record a new commit | memory adapter, commit engine |
| Memory capture (`agentic-memory/src/{triggers,streamer,postgres}.rs`) | change log, channel, active head, sealed segments | triggers, poller, fence, seal, snapshot, init | Postgres, object store |
| Segments and restore (`segment.rs`, `restore.rs`) | manifests | push, decode, replay | object store, Postgres |
| Life cycle (`lifecycle.rs`, `main.rs`) | process, shutdown token | signal, drain, reconcile, accept loop | lock of the dispatch |
| Socket (`server.rs`, `limits.rs`, `peer_auth.rs`, `agentic-proto`) | connection counters, token buckets | accept, admit, read a frame, charge, dispatch, reply | dispatch |
| Approval gate (`agentic-core/src/approval.rs`) | a key | verify | rollback |
| MCP fingerprinting (`agenticd/src/mcp.rs`) | none that lasts | ask all servers, pair answers with names | commit engine |
| Diff (`agentic-core/src/diff.rs`) | none | compare two commits | dispatch, CLI |
| In-memory adapter (`agentic-memory/src/in_memory.rs`) | rows, migrations | the `MemoryAdapter` trait | rollback, commit engine (tests) |
| GCS store (`gcs_store.rs`) | local cache, bucket | put, get, has, evict | commit engine |
| CLI, Python SDK, framing | none that lasts | one request per connection | dispatch |

What makes it hard: requests of many connections interleave at every await and
share one lock, except Log, which takes none, and Diff, which drops it early; every
commit is a sequence of durable writes that may fail or be cut by a crash at any
point; two tasks drain one change log; restores rewrite what those tasks read;
replies can be lost; shutdown queues on the same lock as the requests.

What makes it correct, component by component:

- commit engine: the store is closed under references, refs point at commits that
  exist, history only grows, an acknowledged commit is never lost;
- dispatch: one two-phase sequence at a time, slots balance, requests end;
- life cycle: a graceful exit interrupts nobody and comes about;
- capture: a committed change is in the log until it is in the stream; a snapshot
  is no older than its fence; the log drains;
- restore: it brings a snapshot's values back, and no tick overlaps it;
- rollback: a success is whole, a refusal changes nothing, and what a failure leaves half
  done a second attempt completes;
- socket: the counters say who is connected, no user gets more than its share or pays for
  another, nobody keeps a connection for ever, a request is read as it was written;
- clients: what an answer says may be believed, so that a retry repeats nothing that was
  answered; an approval is good for its commit, user and time;
- tools: each server's answer is recorded under its own name, within a bounded time;
- GCS: what the cache has, the bucket has or will refuse;
- adapters: the one the tests use plans and reverses as Postgres does.

`PROJECT.json` lists the hazards line by line, each with the properties that watch it.

## 2. The modules

| Module | Models | Lines of code it stands for |
|---|---|---|
| `BranchHistory` | the abstract promise: branches grow by one commit at a time on their own tip; a commit that was acknowledged stays reachable | what `stage_and_commit` and a reply mean to a client |
| `AgentDaemon` | dispatch, lock, slots, commit, rollback (as a writer), diff, log, shutdown, crash, restart | `server.rs`, both `commit.rs`, `refs.rs`, `lifecycle.rs` |
| `Manifest` | one table's segments: `Push`, `Decodable`, `Replay`, `Bootstrap` | `segment.rs`, `restore.rs`, `bootstrap_table` |
| `MemoryCapture` | application transactions, change log, two drainers, streamer, snapshot, restore, restart (EXTENDS `Manifest`) | `triggers.rs`, `streamer.rs`, `postgres.rs` |
| `Rollback` | what a rollback does to migrations, tables and prompts, beside writers that hold no lock; approval; retry | `rollback/mod.rs`, `writeback.rs`, `loaders.rs`, `migrate.rs`, `postgres.rs`, the CLI's reading of prompts |
| `GcsStore` | one object of the GCS store: bucket, cache entry, shared temporary file | `gcs_store.rs` |
| `DaemonSocket` | accept loop, allowlist, connection gate, token buckets, frames and versions, both deadlines | `server.rs`, `limits.rs`, `peer_auth.rs`, `framing.rs` |
| `ToolFanout` | one fan-out to the MCP servers: bounded, in order, with deadlines; names and URLs a daemon may start with | `mcp.rs`, `fingerprint_tools` in `commit.rs` |
| `ClientCalls` | clients that retry, error classes, the queue with requests nobody waits for, the approval gate in time (EXTENDS `ToolFanout`, `CommitDiff`) | `client.py`, `client.rs`, `wire_error.rs`, `approval.rs`, `approval_gate`, `server.rs` |
| `CommitDiff` | the diff of two commits and what is shown of it | `diff.rs`, `handle_diff`, `cmd_diff` |
| `Adapters` | migrations, rows and snapshots of the in-memory adapter beside those of Postgres and of the trait | `in_memory.rs`, `adapter.rs`, `postgres.rs` |
| `*MC` | constants of the runs, and bounded checks of the pure modules | |
| `*_proofs` | theorems and proofs of `BranchHistory`, `AgentDaemon`, `Rollback`, `GcsStore`, `Adapters`, `DaemonSocket`, `MemoryCapture`, `ClientCalls` (with those of `ToolFanout` and `CommitDiff`) | |

### AgentDaemon

`pc[r]` is where client `r`'s request stands. `queued` to `head` is a Commit:
`Enqueue` takes a slot and joins the mutex's queue, `Acquire` is granted the lock and
looks at the shutdown token again, `ReadRefs` resolves branch and parent, then
`SnapshotMemory`, `AssembleInputs` (MCP fingerprints), `StageBlob` once per blob,
`PutCommit`, `WriteBranch`, `PublishHead`, and `Deliver` or `LoseReply`. `Abort` is any
`?` on the way, and `Crash` may come between any two steps. A Rollback takes
`ResolveTarget`, `RollbackRestore` and `ReadBack` and then stages like a commit. Diff
reads HEAD and then the refs, file by file, under the lock and drops it (`SnapDone`); Log walks
without it. `content[c]` is what a hash stands for; a hash is fresh because the commit holds a
time stamp. `published` and `acked` are history variables.

One request at most per connection is in dispatch, as in the connection loop. The
accept loop's `drain` is a waiter of the lock like any request (`Drainer`).

### MemoryCapture and Manifest

One tracked table; tables share no rows and a manifest sorts by table first, so one
shows what there is to show. A change is `[id, key, val]`; `open` holds changes of
transactions not yet committed (their ids are drawn already, which is what BIGSERIAL
does). `drain[d]` is the `drain_once` the poller or the engine is in: fetch, one send
per row into a bounded channel, delete by highest id. `ApplyEvent` and `TakeSnapshot`
are the streamer task. `due` and `since` are history variables: the ids of changes
committed since the stream was seeded, and each key's values since the fence passed; `fenced` is what
was due when it passed, which its snapshot has to hold. `Rekey` and
`Truncate` remove rows of which no trigger tells (`agentic_capture` reports an UPDATE by its NEW row, and
is a row trigger); `heard` is the table with those rows as they last were, which is what a snapshot holds.
`Opaque` stands for a row whose JSON `serde_json` refuses: the fence refuses a batch with such a change
before it sends any of it (`FenceRefuses`), the poller goes past it (`Skip`) and deletes it with the rest,
and a daemon does not start while the table has such a row (`Restart` waits until it is gone).

### Rollback

`AgentDaemon` has a rollback's place under `commit_lock` and the commit it records; `Rollback` has
what it does to the world: `rows` (the table `agentic_migrations`, whose highest id is the schema
version), `data` (the tracked tables), `disk` (`prompts/`). `pc` is the phase of `execute`: `Begin`
resolves the ref and asks `approval_gate`, `ReadVersion` and `PlanMigrations` read what there is to
reverse and load every `.down.sql`, `ApplyReverse` is one transaction, `CheckVersion` and
`RestoreTables` are the two halves of `restore_with_guard`, `WriteTemp` and `RenameTemp` one prompt
of `restore_prompts` each, `SweepFile` one file of `sweep_orphans`, `RecordForward` the new commit.
A dry run ends where the code returns its plan. `Interrupt` is an error or a crash in any of these
phases; a write it cuts short leaves a partial file.

The application (`AppWrite`), an editor (`EditPrompt`; it does not touch temporary names) and the
operator's migrations (`MigrateUp`) take no lock, and neither does the client that reads the
prompts for `agentic commit` before it connects (`ReadPrompt`, then `MakeCommit`). So a
commit may hold the prompts of before a rollback with the memory of after it, where
`docs/architecture/snapshot-model.md` takes the lock before it reads; the model has this.
`since` is a history variable: the parts others changed after the rollback put (or checked)
them. An image of the tables is a value; `MemoryCapture` is about whether a snapshot holds the
right one.

File names are given in byte order, which is the order of a tree's entries, with the temporary name
of each (`Path::with_extension`, so that `a.md` and `a.txt` share `a.tmp`).

### GcsStore

A caller is a thread in `put`, `get` or `has`; the store has no lock. All writers of an entry
use one `.tmp` name, and a name is not a file: `OpenTemp` truncates whatever file bears it, `FillTemp`
writes to the file that was opened, which another caller may have renamed since, and `RenameTemp`
moves whatever bears the name now. So a reader may see a torn entry, although
`gcs_store.rs:153` says it sees the previous file or the new one, and a put may fail because another
caller renamed its file. The properties are what survives that: nothing acknowledged is lost,
a failed put leaves nothing, a wrong body is never cached, a torn entry heals. `MaxFaults` is a budget
for the disk, the network, `unlink`, crashes, and bytes altered in the cache or the bucket.
`acked`, `knew` and `littered` (a crash or a failed unlink may leave an entry) are history.

### DaemonSocket

`phase[c]` is where connection `c`'s task is: in the listen backlog, reading, in dispatch, writing.
The daemon runs on one thread, so a step is what happens between two awaits: a whole frame is read,
parsed by `parse_envelope_with_v0_shim` and charged for in one. `Malformed` is answered and charged
(or closed, over budget), `Unreadable` closes. `gate` and `bucket` are `ConnGate` and `RateLimiter`;
a bucket is in units of 1/`Second` of a request, so that the code's float is an exact integer here.
The age of a read or write is kept up to its deadline, a bucket's up to where it is full: nothing
looks further. `used` is a history variable, the requests granted in each of the last ticks. What
dispatch does is `AgentDaemon`'s; the two meet in the fairness of `Dispatched`, which is
`RequestsEnd` there.

### ToolFanout and ClientCalls

`ToolFanout` is one `fingerprint_all`: `Buffered(i)` is what `buffered(n)` has started, so an early
slow server holds back later ones, `Answer` and `TimeOut` settle a request in its place, and
`ToolsMap` pairs results with configured names. An answer fails with the first check that fails;
three of the failures quote the server. `ClientCalls` has a call as a client sees it (`call`: tried,
waiting, ended) and the daemon's tasks (`task[c][k]`), which go on when the client has given up
(`GiveUp`): the connection loop does not look at its socket while it dispatches. A commit's tools are
collected under the lock; a rollback passes `ApprovalGate` when it gets the lock, with no await
between. `Raised` is the exception of `client.py`, `After` a client that follows `retryable`, as
`Response::Error` tells it to. `unseen` is a history variable: requests whose end the client never
learnt. `Start` refuses duplicate names, URLs that are neither https nor loopback and keys of a wrong
length. Two things the model shows that no document denies: an error of no known type is classified by
words in its text, where a server's own words may be; and a token from a clock ahead of the daemon's
is refused as not retryable, although the same request succeeds once its time has come.

### CommitDiff and Adapters

Both are pure. In `CommitDiff` a tree is a function from names to hashes, `TreeDiff` is `diff_tree`, and
`NoChanges` is where `agentic diff` prints `(no changes)`; `DiffOutput` has no place for `code_sha`.
`Adapters` keeps the two implementations of the trait side by side: the fixture's list of names and the
rows of `agentic_migrations`, related by `Same`. They agree on the version, the plan, its outcome; they
differ on a stale plan (`StalePlan`), which is why `Rollback` is about Postgres. A restore of the
fixture replaces every table, where the comment in `in_memory.rs:221` speaks of the tables the
manifest names.

### Variants

The variants (`...Early`, `...Shared`, `Variant:` in the comment) are mutated forms of
the definition below them. No specification uses them; with one of them in place a run
must fail, which shows that its property says something.

## 3. The runs

| Run | Instance | Shows |
|---|---|---|
| `DaemonCommits` | 2 clients, 2 branches, 2 hashes, 1 blob, queue of 2, 1 crash; symmetry in clients, hashes, blobs | `StoreClosed`, `NoPhantomHead`, `OutcomeHonest`, `DiffSnapshotStable`, `SlotsBalanced`, `AckedCommitsReachable`, `ExitInterruptsNobody` and the refinement of `BranchHistory` |
| `DaemonLifecycle` | 3 clients, queue of 2, 1 branch, 1 hash, 1 lost object, no symmetry | a full queue, refusals, startup reconciliation, `RequestsEnd`, `ShutdownCompletes` |
| `CaptureFence` | 2 keys, 1 image and deletion, 2 writes of which 1 may go unheard or be unreadable, 2 snapshots, 1 restart, 2 faults; the poller ticks but keeps in turn with the fence (action constraint `PollerInTurn`) | `SnapshotCurrent`, `TypeOK` |
| `CaptureDrain` | 1 key, 2 writes of which 1 may be unheard or unreadable, batches of 1, 1 snapshot, 1 restore, 1 restart, 1 fault, poller on and at any time | `NothingLost`, `SnapshotComplete`, `RestoreQuiesced`, `LogDrains` |
| `RollbackSteps` | 3 names (2 prompts sharing a temporary name), 2 contents, 2 images, a reversible and an irreversible migration; 1 request, 1 commit, 1 interruption, with 1 write and 2 migrations or with 1 edit and 1 migration; symmetry in contents and images | `SuccessIsWhole`, `PromptsNeverPartial`, `RefusedChangesNothing`, `NeverBelowTarget` |
| `RollbackRetry` | the same names and migrations; 1 request, retried, 1 edit, 2 migrations, 2 interruptions | `RetryCompletes` |
| `GcsFaults` | 2 callers, any number of calls, 4 files, 2 faults | `FailedPutInvisible`, `NeverCachesUnverified`, `CacheHeals` |
| `SocketLimits` | 3 connections of 2 users, 2 at a time and 1 of each user, 1 request a second, deadlines of one tick, with an allowlist of one and with none | `GateMatches`, `RateBounded`, `OnlyFloodersThrottled`, `JobsHonest`, `ConnectionsMove` |
| `ClientCalls` | a commit and a rollback of 2 requests each, queue of 2, 1 stop of the daemon; 3 servers asked 2 at a time and 2 requests, 1 server and 3 requests, or no server, a target named by its hash and 3 requests | `FanoutBound`, `NoSilentDuplicate`, `ToolsExact`, `ApprovalHolds`, `QueueEmpties` |

The runs of `Rollback` also evaluate `Adapters` over all lists of three migrations (`AdaptersAgree`,
`StalePlansDiffer`, `FixtureRestores` in `RollbackMC`), and `ClientCalls` that a diff replays over all
trees of two names (`DiffsReplay`).

`DaemonLifecycle`, `DaemonCommits`, `GcsFaults` and `SocketLimits` check for deadlock. The capture, rollback
and client runs do not: when the bounded writes, snapshots and requests are used up the system rests.

Three runs end in a violation, and each one is a place where the code and what is said
of it disagree ("findings" in `PROJECT.json` quotes both):

| Run | Property | What happens |
|---|---|---|
| `RestoreStale` | `RestoreFaithful` | The baseline is a segment from key 1 to 2. Row 1 is updated and sealed as a segment from 1 to 1. `push` puts it in front of the baseline, restore replays the baseline last, and the old value of row 1 comes back. |
| `LateCommitLost` | `NothingLost` | Transaction A draws id 1, B draws id 2 and commits, a drain fetches row 2, A commits, the drain deletes `id <= 2`. |
| `SnapshotAfterRestore` | `SnapshotCurrent` | A change is in a sealed segment; a restore undoes it in the table; the next snapshot still holds it. |

The cause of `RestoreStale` has a louder half: where both segments are of one key (1 to 1 twice),
`from_canonical_bytes` refuses the manifest and the commit cannot be rolled back to at all.

The models show three more disagreements, which the runs keep out of their way:

- `drain_to_completion` does not take the poller's pause lock (`triggers.rs:331`). A tick fetches two
  changes of a row and stalls; the fence forwards both and empties the log; the tick forwards the first
  again, and the snapshot holds a value the table no longer has, although `postgres.rs:497` gives the
  fence as what makes the manifest reflect the database. `CaptureFence` without its action
  constraint violates `SnapshotCurrent` so. No change is missing then (`SnapshotComplete` holds), but
  an older one comes after a newer.
- The temporary file of `a.txt` is `a.tmp` (`writeback.rs:101`). A crash in a write-back leaves `a.tmp`, a
  commit records it as a prompt, and a rollback to that commit writes it, uses its name for `a.txt`'s
  temporary file, renames it away and reports success. `SuccessIsWhole` excepts such targets (`Clash`);
  without the exception (`PromptsMatch`) a rollback run with such a commit fails.
- "The offending row stays in the log so a retry sees the same problem" is said of a change the fence
  refuses (`triggers.rs:321`). The poller runs at the same time and drops the row at its next tick, so the
  retry succeeds, and its snapshot has the key's older value. Without the constraint this too ends in
  a violation of `SnapshotCurrent`; `NothingLost` and `SnapshotComplete` do not count such a change.

`CaptureFence` looks at the behaviours in which a tick and a fence's drain take turns and the poller
drops nothing (`PollerInTurn`), and takes no restore; `CaptureDrain` has one transaction at a time,
with ticks and a restore wherever they fall. So these causes are apart: what the two show is what the
fence and the drain guarantee where none of them strikes.

### Bounds

`MaxCrashes`, `MaxLosses` (AgentDaemon) and `MaxWrites`, `MaxOdd`, `MaxSnaps`, `MaxRestores`,
`MaxRestarts`, `MaxFaults` (MemoryCapture) bound events of the environment; a client's write is
let in only while a hash is left for it. Two commits on two branches are enough for a
commit to build on, race, orphan or follow another, and the proofs remove these bounds for
the safety of `AgentDaemon`. Two writes with batches and segments of two make a full and a
partial batch, a threshold seal and a snapshot's seal, and two faults let a drain or a seal fail
and its retry fail too. A channel of one or two makes senders wait.

`Past` and `Budgets` bound `Rollback`: what the branch holds at first, and how often each event may
happen. One interruption of one rollback is enough to leave every half-done state, a second request
or a retry to meet it, and two migrations to have one at a time come between the steps. Two callers of
`GcsStore` with any number of calls are enough for every overlap on the one temporary file, and two
faults for one to poison the entry while another interrupts its healing. Besides the files callers
have open there are two, so that one is always free (`StoreAssumption`; the proof needs it). A missing
`.down.sql` is refused as an irreversible one without approval is; the runs have the latter, the
proofs both. The proofs remove these bounds for the safety properties.

`SocketLimits` has two users of whom one may exceed its share while the other does not, and both caps
are met. A second, and each deadline, is one tick, and the history looks two ticks back, which is how
long an empty bucket takes to fill. The versions enumerated are those on each side of every comparison
and of the 16-bit boundary. `ClientCalls`' worlds are apart because what they are about is: two
requests beside three servers show every order of answers, three requests what a retry meets. A token is
one signed for the first commit by a clock `TTL + 1` ahead, which passes through its whole window while
the calls run, or a malformed one. `MaxAttempts`, `MaxStops` and `requests` bound the calls.

### Fairness

`AgentDaemon`: weak fairness of each client's `TaskStep` (the runtime polls every task that is
ready; the lock is first in first out in the model as in tokio, so weak is enough), of the
drain and of the restart by a supervisor. `TaskStep` contains `Abort`: calls out of the
process return or fail. Nothing makes a client send.
`MemoryCapture`: weak fairness of both drainers, the streamer and the engine's own steps, and
of the end of each application transaction: a restore's TRUNCATE waits for it in Postgres as
well. Writes are finite here, so a TRUNCATE that waits behind new transactions for ever (which
Postgres' lock queue excludes) does not arise; nor does a fence that never finds the log empty,
which the code does not exclude under a sustained load.
`Rollback`: weak fairness of `EngineStep` (the daemon runs what it began) and of `Retry`, which is an
assumption about the operator, not the code: whoever was refused asks again. Interruptions are
finite.
`DaemonSocket`: weak fairness of time, the accept loop, the end of a dispatch and a deadline that has
passed; nothing is asked of peers, who may connect, dribble bytes or stop at will.
`ClientCalls`: weak fairness of time, of a fan-out's deadline (`fingerprint_one` has one per request) and
of the daemon's work taken together, since the lock has one holder; nothing is asked of clients, servers
or whoever starts the daemon.
`GcsStore`: weak fairness of each caller's `CallStep`: a thread goes on, and every request has a
timeout (`REQUEST_TIMEOUT`). Faults, calls and crashes are not fair.

## 4. The proofs

`AgentDaemon_proofs` proves, for all values of the constants that satisfy the named assumptions,
`TypeOK`, lock isolation, `StoreClosed`, `NoPhantomHead`, `ServedTipsPresent`, `LogNeverDangles`,
the refinement of `BranchHistory`, `AckedCommitsReachable`, `ExitInterruptsNobody`,
`NoWriteAfterShutdown`, `OutcomeHonest` and `SlotsBalanced`.

Assumptions: `DaemonAssumption` (Main is a branch, commits and blobs are different hashes, None
and Drainer are none of the other values, the bounds are naturals) and `NoneAssumption` (None is
no commit's content). TLC evaluates both.

The inductive invariant `DaemonInv` is a conjunction of named parts. The properties alone are not
inductive: that `DiffSnapshotStable` survives a `WriteBranch` needs `LockExclusive`, which needs
the shape of the queue (`LockDiscipline`: the holder is the one request inside, and whoever
waits is in the queue). That `StoreClosed` survives `PutCommit` needs that what was staged is in
the store (`WriteOrder`: everything already dealt with of `payload`, the manifest, and the parent
read from a branch that only holds commits of the store), and that no other writer moved that
branch meanwhile. `HashesMade` says that a hash in the store, in a ref or in a local was made.
Each part has its step lemma (`TypeStep`, `ShapeStep`, `MadeStep`, `LockStep`, `OrderStep`,
`ClosedStep`), by cases on the action.

Refinement: `WriteBranch` maps to `Advance`, for the branch tip is still the parent that was read
(`WriteOrder`); a `Deliver` of a commit maps to `Acknowledge`; everything else is a stutter.
`BranchHistory_proofs` proves of the abstract specification that every commit that was ever a tip
is reachable from a tip, by parent-closed sets rather than paths, which needs no induction over
data. `AckedNeverLost` combines the two.

`Rollback_proofs` proves `TypeOK`, `SuccessIsWhole`, `PromptsNeverPartial`, `RefusedChangesNothing`
and `NeverBelowTarget` for any names, temporary names, migrations and budgets, from
`RollbackAssumption` and `ValuesDiffer`. `SuccessIsWhole` speaks of the end only; `Inv` says what
holds on the way there: which phases come for which target and which files are left to write
(`Course`), that a phase past the gate was approved and may reverse what it is to reverse (`Gate`),
that what it is to reverse lies above the target (`Above`), that only a temporary file is cut short
(`Clean`), that what is about to be renamed is the target's (`Written`), and that schema, memory and
each prompt dealt with so far is as the target has it, or was changed since (`SchemaSet`,
`MemorySet`, `PromptsSet`). That the first file and the current version exist at all is a least and
a greatest element of a finite index set, proved by well-founded minimality without induction over
data.

`GcsStore_proofs` proves `TypeOK`, `AckedIsFound`, `FailedPutInvisible` and `NeverCachesUnverified`
from `StoreAssumption`. The properties lean on four facts: what a caller writes is genuine (`Genuine`);
the temporary file is not the cached one and never altered (`Apart`); what was acknowledged, the bucket
has (`Known`); who writes an entry the bucket does not have is a put, and uploads it (`Behind`). That
there is a free file to open is a pigeonhole argument over cardinalities.

`Adapters_proofs` proves, for any names and any number of migrations, that the fixture plans what the
trait promises of Postgres' rows (`FixturePlansAsPromised`), that both carry such a plan out alike
(`FixtureReverses`), and that a plan with a migration after it is refused by the one and carried out by
the other (`StalePlan`). They lean on `Place` and `After`, where a target stands on the list and what a
reversed tail holds at each index.

`DaemonSocket_proofs` proves `TypeOK`, `GateMatches`, `RateBounded`, `OnlyFloodersThrottled` and
`JobsHonest` for any peers, caps, rate, burst and window that `SocketAssumption` and `LimitsAssumption`
admit. The gate's two counters are the cardinalities of the connections they count (`Books`), and so
within the caps (`Caps`). For the rate the invariant weighs what a bucket holds against what was granted
(`Budget`), and it has to from both sides: what is granted in `k` ticks and what is left never exceed
the burst and what `k` ticks bring, which bounds the rate; and they never fall below what `k` ticks
bring, up to the burst, which is why a bucket that is found empty was emptied by its own user.

`ClientCalls_proofs` proves `TypeOK`, `FanoutBound`, `ToolsExact`, `NoSilentDuplicate` and `ApprovalHolds`
for any calls, servers, worlds and bounds, from `FanoutAssumption` and `CallsAssumption`. `FanoutBound`
needs a fan-out's clock related to the age of each open request: request `i` waits at most `Wait(i)`, a
deadline for each full batch in front of it, and then its own (`FanTime`). `ToolsExact` needs that the
fan-out is the lock holder's, and complete once it stages (`Link`). `ApprovalHolds` needs what a
recorded rollback leaves of its token: it signs a tip that is gone (`Spent`). `NoSilentDuplicate`
counts, besides what was recorded, the requests still in the daemon that nobody waits for (`Silent`):
either may yet be a commit its client never learns of, and together they are no more than `unseen` and
the success it was told of (`Counted`). The module has the theorems of `CommitDiff` as well: a tree's
diff replays (`DiffReplays`), and `(no changes)` hides a change of the code and no other
(`SilentDiffHidesOnlyCode`).

`MemoryCapture_proofs` proves `TypeOK` and `RestoreQuiesced` for any keys, values, writers, sizes and
bounds, from `ManifestAssumption` (finitely many keys) and `CaptureAssumption`. Its operators fold over
sequences and sets and sort by id, and what a fold computes would be shown by an induction the provers
cannot do. So the module shows that a function exists on all subsets of the positions which satisfies
the fold's equation, that two such functions agree (by a smallest set on which they do not), and that
the log can be sorted (each row at its rank). From there: what `ApplyRows`, `AppliedTo`, `Replay` and
`Bootstrap` make of a key is the value of its last row.

`NothingLost` is violated where transactions commit out of the order of their numbers
(`LateCommitLost`). It is proved under exactly the negation of that: `CommitsInOrder` says of a step
that whatever becomes visible has a smaller number than whatever is still uncommitted, and
`InOrderLosesNothing` that it is enough, with both drainers, batches that overlap, failures, restores
and restarts. `OneWriterLosesNothing` is the case of transactions that do not overlap. Then an
uncommitted change is newer than the log and every batch (`Ordered`), a batch is the oldest part of the
log, what was sent of it is in the stream or cannot be read (`Fetched`), and what is due is in the log
or in the stream (`Accounted`).

`SnapshotComplete` is proved under that hypothesis and no other (`InOrderSnapshotsComplete`,
`OneWriterSnapshotsComplete`): whichever drain took a change from the log, and however ticks, failures,
restores and restarts fall, a snapshot holds every change committed before its fence passed. A snapshot
cuts the channel where `TakeSnapshot` is, or will be (`Cut`); what is ahead of the cut (`Ahead`) moves
only as `CutMoves` says, so what was fenced is ahead of it or settled (`FencedSent`), and at the cut
nothing is ahead (`CutAtHead`).

`SnapshotCurrent` does not hold of every behaviour: section 3 has the tick beside a fence, the change
the poller drops, and the restore, each of which the shipped daemon can meet. So
`FencedSnapshotsCurrent` is about behaviours and assumes nothing of the constants: up to the first
restore every snapshot is current, in each behaviour of `Spec` whose steps satisfy `CommitsInOrder` and
`PollerInTurn`; `OneWriterSnapshotsCurrent` needs only the second. The poller ticks in them, before,
between and after fences. `PollerInTurn` is what a fence that took `pause_lock`, and a poller that left
unreadable rows alone, would see to. `StreamHolds(k, v)` says that a snapshot would hold `v` for
`k` once the channel is applied. Either drain forwards what it fetched, the last row of a key last
(`Forwarded`, with `OneEach`: a key's lock keeps one uncommitted change of it), while the other rests
(`Resting`); the newest row of a key in the log, or what the stream holds if there is none, is what was
last heard of it (`Caught`); so where the fence passes, the log being empty, and until the snapshot,
what is ahead of the cut ends in a value the key has had since (`Fenced`). What a tick forwards between
the fence and `AskStreamer` is such a value too (`Later`). These parts were checked by TLC
before they were proved.

`LogNeverDangles`, `NoWriteAfterShutdown` and `AckedIsFound` are proved and not model-checked: the first
follows from `StoreClosed`, the second from a guard, the third from `Known`.

Not proved, only model-checked: the liveness properties (`RequestsEnd`, `ShutdownCompletes`,
`LogDrains`, `RetryCompletes`, `CacheHeals`, `ConnectionsMove`, `QueueEmpties`: fairness and ENABLED are
outside the proof system's reach), and the checks of pure operators over all small inputs
(`AdaptersAgree`, `DiffsReplay` and those beside them), whose general statements are the theorems of
`Adapters_proofs` and `ClientCalls_proofs`. `RestoreFaithful` is not a theorem: a run violates it.

## 5. What is not modelled

The components table of `PROJECT.json` has them all with a reason. In short: hashing, JSON and the
scanner's patterns are pure functions whose results the models take as given; what a child process or an
HTTP server does is an outcome; cryptography is out. In `AgentDaemon` a rollback's outside effects
are one step. In `Rollback`, sub-directories and symbolic links of `prompts/` are left out; a target
without prompts leaves the directory alone, as the code does. The scanner's refusal of a put comes before
any effect and is not in `GcsStore`. In `MemoryCapture`
there is one daemon (the snapshot's advisory lock is for several). Ping, ResolveRef and ReadObject change no state. The LangGraph
checkpointer (`langgraph.py`) is a client with a file of its own, written before its commit, and is
left out. So are flags, the socket file, logging and the audit trail.

## 6. Plan

Done: every module above, with the proofs of section 4.

Next, in this order:

1. `Rollback` over an abstract atomic switch of commits.
2. `RestoreFaithful` for manifests whose segments do not overlap out of seal order.
