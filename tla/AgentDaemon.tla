----------------------------- MODULE AgentDaemon -----------------------------
(***************************************************************************)
(* agenticd's request engine: the dispatch of Commit, Rollback, Diff and   *)
(* Log requests, the commit-queue slots and the commit lock around them,   *)
(* the two-phase staging of a commit into the object store and the refs,   *)
(* graceful shutdown, process crashes, and the reconciliation a restart    *)
(* runs before it serves again.                                            *)
(*                                                                         *)
(* Objects are content addressed, so what a hash stands for never changes: *)
(* content[c] is what commit hash c commits to, and store is the set of    *)
(* objects that can be read back. Files are replaced by rename, so every   *)
(* durable write is one step. What a rollback does to Postgres and to the  *)
(* prompts directory is one step here (RollbackRestore).                   *)
(***************************************************************************)
EXTENDS Naturals, Sequences, FiniteSets

CONSTANTS
  Client,       (* Connections; each has at most one request in dispatch.  *)
  Branch,       (* Branch names.                                           *)
  Main,         (* The branch a commit defaults to when there is no HEAD.  *)
  Commit,       (* Commit hashes.                                          *)
  Blob,         (* Hashes of blobs, trees and memory manifests.            *)
  Drainer,      (* The accept loop's task, as a waiter of the commit lock. *)
  None,
  QueueDepth,   (* --commit-queue-depth.                                   *)
  MaxCrashes,   (* Bound: process kills in a behaviour.                    *)
  MaxLosses     (* Bound: objects lost from the store while it is down.    *)

ASSUME DaemonAssumption ==
  /\ Main \in Branch
  /\ QueueDepth \in Nat \ {0}
  /\ MaxCrashes \in Nat /\ MaxLosses \in Nat
  /\ Commit \cap Blob = {}
  /\ Drainer \notin Client
  /\ None \notin Client \cup {Drainer} \cup Branch \cup Commit \cup Blob

VARIABLES
  mode,         (* "up", "exited", "crashed" or "refused" (to start).      *)
  shutdown,     (* The CancellationToken of a graceful shutdown.           *)
  drain,        (* The accept loop: "accepting" or "draining".             *)
  store,        (* Objects in the object store.                            *)
  content,      (* content[c]: what commit hash c stands for, once made.   *)
  branch,       (* refs/heads/: branch[b] is a commit hash, or None.       *)
  head,         (* .agentic/HEAD: a branch name, or None when missing.     *)
  holder,       (* Who holds commit_lock.                                  *)
  queue,        (* Who waits for commit_lock, first in first out.          *)
  permits,      (* Free permits of the commit_slots semaphore.             *)
  pc,           (* Where each client's request stands.                     *)
  kind,         (* What it asks for.                                       *)
  br,           (* The branch it writes (first: the one it named, if any); *)
                (* of a Diff the HEAD it froze.                            *)
  parent,       (* The branch tip it read.                                 *)
  needHead,     (* needs_head_write: HEAD was missing when it looked.      *)
  memory,       (* The memory manifest its commit will reference, or None. *)
  payload,      (* The blobs its commit will reference.                    *)
  todo,         (* Blobs, or branches for a Diff, it has yet to deal with. *)
  mine,         (* Its commit; a rollback's target; a log walk's cursor.   *)
  snap,         (* The branches of a Diff's RefsSnapshot.                  *)
  result,       (* "ok" or "err" once the request has an outcome.          *)
  crashes, losses,
  published,    (* History: commits some branch ref ever pointed at.       *)
  acked         (* History: commits whose hash a client was sent.          *)

daemonVars  == <<mode, shutdown, drain>>
durableVars == <<store, content, branch, head>>
lockVars    == <<holder, queue, permits>>
localVars   == <<br, parent, needHead, memory, payload, todo, snap>>
taskVars    == <<kind, mine, localVars>>
envVars     == <<crashes, losses>>
historyVars == <<published, acked>>
vars == <<daemonVars, durableVars, lockVars, pc, taskVars, result, envVars, historyVars>>

-----------------------------------------------------------------------------
WriteKinds == {"commit", "rollback"}
LockedKinds == WriteKinds \cup {"diff"}
Kinds == LockedKinds \cup {"log"}

(* The steps a request takes with commit_lock in hand.                     *)
LockedPC == {"read", "memory", "assemble", "stage", "ref", "head",
             "restore", "readback", "snap"}
(* A commit-queue slot covers the wait for the lock and all that follows.  *)
SlotPC == LockedPC \cup {"queued", "diff"}
LockFreePC == {"logHead", "logTip", "walk"}
PC == SlotPC \cup LockFreePC \cup {"idle", "reply"}

Object == Commit \cup Blob
CommitContent ==
  [parent : Commit \cup {None}, memory : Blob \cup {None}, payload : SUBSET Blob]

ASSUME NoneAssumption == None \notin CommitContent

Fresh == {c \in Commit : content[c] = None}
Writing == {q \in Client : kind[q] \in WriteKinds /\ pc[q] \in SlotPC}

(* What a commit object refers to in the store.                            *)
Refers(c) ==
  content[c].payload \cup ({content[c].parent, content[c].memory} \ {None})

TypeOK ==
  /\ mode \in {"up", "exited", "crashed", "refused"}
  /\ shutdown \in BOOLEAN
  /\ drain \in {"accepting", "draining"}
  /\ store \in SUBSET Object
  /\ content \in [Commit -> CommitContent \cup {None}]
  /\ branch \in [Branch -> Commit \cup {None}]
  /\ head \in Branch \cup {None}
  /\ holder \in Client \cup {None}
  /\ queue \in Seq(Client \cup {Drainer})
  /\ permits \in Nat
  /\ pc \in [Client -> PC]
  /\ kind \in [Client -> Kinds]
  /\ br \in [Client -> Branch \cup {None}]
  /\ parent \in [Client -> Commit \cup {None}]
  /\ needHead \in [Client -> BOOLEAN]
  /\ memory \in [Client -> Blob \cup {None}]
  /\ payload \in [Client -> SUBSET Blob]
  /\ todo \in [Client -> SUBSET (Blob \cup Branch)]
  /\ mine \in [Client -> Commit \cup {None}]
  /\ snap \in [Client -> [Branch -> Commit \cup {None}]]
  /\ result \in [Client -> {"none", "ok", "err"}]
  /\ crashes \in Nat /\ losses \in Nat
  /\ published \in SUBSET Commit /\ acked \in SUBSET Commit

NoSnap == [b \in Branch |-> None]

(* Every client's value before its first request in this process.          *)
Blank(v) == [r \in Client |-> v]

Init ==
  /\ mode = "up" /\ shutdown = FALSE /\ drain = "accepting"
  /\ holder = None /\ queue = <<>> /\ permits = QueueDepth
  /\ pc = Blank("idle") /\ kind = Blank("log") /\ result = Blank("none")
  /\ br = Blank(None) /\ parent = Blank(None) /\ needHead = Blank(FALSE)
  /\ memory = Blank(None) /\ payload = Blank({}) /\ todo = Blank({})
  /\ mine = Blank(None) /\ snap = Blank(NoSnap)
  /\ store = {}
  /\ content = [c \in Commit |-> None]
  /\ branch = [b \in Branch |-> None]
  /\ head = None
  /\ crashes = 0 /\ losses = 0
  /\ published = {} /\ acked = {}

-----------------------------------------------------------------------------
(***************************************************************************)
(* Dispatch: shutdown check, slot, queue on the lock, shutdown check.      *)
(***************************************************************************)
At(r, p) == mode = "up" /\ pc[r] = p

Goto(r, p) == pc' = [pc EXCEPT ![r] = p]

(* The handler returns: its locals go, the reply remains to be written.    *)
Answer(r, out) ==
  /\ Goto(r, "reply")
  /\ result' = [result EXCEPT ![r] = out]
  /\ br' = [br EXCEPT ![r] = None]
  /\ parent' = [parent EXCEPT ![r] = None]
  /\ needHead' = [needHead EXCEPT ![r] = FALSE]
  /\ memory' = [memory EXCEPT ![r] = None]
  /\ payload' = [payload EXCEPT ![r] = {}]
  /\ todo' = [todo EXCEPT ![r] = {}]
  /\ snap' = [snap EXCEPT ![r] = NoSnap]

(* Leaving the dispatch arm drops the lock guard, then the slot.           *)
Finish(r, out) ==
  /\ Answer(r, out)
  /\ holder' = None
  /\ permits' = permits + 1
  /\ UNCHANGED queue

(* A request of kind k arrives. A writer is let in only while the bounded  *)
(* set of hashes has one left for it.                                      *)
Arrives(r, k) ==
  /\ At(r, "idle")
  /\ k \in WriteKinds => Cardinality(Writing) < Cardinality(Fresh)
  /\ kind' = [kind EXCEPT ![r] = k]
  /\ UNCHANGED <<daemonVars, durableVars, mine, envVars, historyVars>>

(* check_shutdown; Diff and Log do not ask.                                *)
ShuttingDown(k) == k \in WriteKinds /\ shutdown

(* Variant: the semaphore is not consulted.                                *)
TurnedAwayUnbounded(k) == ShuttingDown(k)

TurnedAway(k) == ShuttingDown(k) \/ permits = 0

Refuse(r, k) ==
  /\ Arrives(r, k)
  /\ k \in LockedKinds /\ TurnedAway(k)
  /\ Answer(r, "err")
  /\ UNCHANGED lockVars

(* A Commit may name its branch b.                                         *)
Enqueue(r, k, b) ==
  /\ Arrives(r, k)
  /\ k \in LockedKinds /\ ~TurnedAway(k)
  /\ b # None => k = "commit"
  /\ br' = [br EXCEPT ![r] = b]
  /\ permits' = permits - 1
  /\ queue' = Append(queue, r)
  /\ Goto(r, "queued")
  /\ UNCHANGED <<holder, result, parent, needHead, memory, payload, todo, snap>>

StartLog(r) ==
  /\ Arrives(r, "log")
  /\ Goto(r, "logHead")
  /\ UNCHANGED <<lockVars, result, localVars>>

(* Variant: the lock excludes nobody.                                      *)
LockGrantedShared(t) == queue # <<>> /\ Head(queue) = t

LockGranted(t) == holder = None /\ queue # <<>> /\ Head(queue) = t

Admit(r) ==
  /\ ~ShuttingDown(kind[r])
  /\ holder' = r
  /\ queue' = Tail(queue)
  /\ IF kind[r] = "diff"
     THEN /\ Goto(r, "snap") /\ todo' = [todo EXCEPT ![r] = Branch]
          /\ br' = [br EXCEPT ![r] = head]
     ELSE Goto(r, "read") /\ UNCHANGED <<todo, br>>
  /\ UNCHANGED <<permits, result, parent, needHead, memory, payload, snap>>

(* Variant: the late refusal leaks its slot.                               *)
RefuseLateLeaky(r) ==
  /\ ShuttingDown(kind[r])
  /\ Answer(r, "err")
  /\ queue' = Tail(queue)
  /\ UNCHANGED <<holder, permits>>

(* Shutdown fired while the request waited in the lock's queue.            *)
RefuseLate(r) ==
  /\ ShuttingDown(kind[r])
  /\ Answer(r, "err")
  /\ queue' = Tail(queue)
  /\ permits' = permits + 1
  /\ UNCHANGED holder

Acquire(r) ==
  /\ At(r, "queued") /\ LockGranted(r)
  /\ Admit(r) \/ RefuseLate(r)
  /\ UNCHANGED <<daemonVars, durableVars, kind, mine, envVars, historyVars>>

(* Variant: a failed request never drops the lock guard.                   *)
AbortLeaky(r) ==
  /\ mode = "up" /\ pc[r] \in LockedPC \ {"head"}
  /\ Answer(r, "err")
  /\ permits' = permits + 1
  /\ UNCHANGED <<holder, queue, daemonVars, durableVars, kind, mine, envVars, historyVars>>

(* Any `?` on the way out: the request fails, what it stored stays.        *)
Abort(r) ==
  /\ mode = "up" /\ pc[r] \in LockedPC \ {"head"}
  /\ Finish(r, "err")
  /\ UNCHANGED <<daemonVars, durableVars, kind, mine, envVars, historyVars>>

-----------------------------------------------------------------------------
(***************************************************************************)
(* Commit: read the refs, snapshot memory, fingerprint the tools, stage    *)
(* every blob, write the Commit object, move the branch, publish HEAD.     *)
(***************************************************************************)
(* The store with object x in it; to put it again changes nothing.         *)
Put(x) == store \cup {x}

(* A step of the request's own, touching neither lock nor outcome.         *)
Stays == UNCHANGED <<daemonVars, lockVars, result, envVars, historyVars, kind, snap>>

(* input.branch, else the branch HEAD names, else main.                    *)
TargetBranch(r) == IF br[r] # None THEN br[r] ELSE IF head # None THEN head ELSE Main

(* Variant: the parent is HEAD's tip, whatever branch is written.          *)
TipOfHead(b) == IF head # None THEN branch[head] ELSE None

TipOf(b) == branch[b]

(* Variant: HEAD is published before there is a commit.                    *)
ReadRefsPublishing(r) ==
  /\ At(r, "read") /\ kind[r] = "commit"
  /\ br' = [br EXCEPT ![r] = TargetBranch(r)]
  /\ parent' = [parent EXCEPT ![r] = TipOf(TargetBranch(r))]
  /\ head' = IF head = None THEN TargetBranch(r) ELSE head
  /\ needHead' = [needHead EXCEPT ![r] = (head = None)]
  /\ Goto(r, "memory")
  /\ Stays /\ UNCHANGED <<store, content, branch, memory, payload, todo, mine>>

ReadRefs(r) ==
  /\ At(r, "read") /\ kind[r] = "commit"
  /\ br' = [br EXCEPT ![r] = TargetBranch(r)]
  /\ parent' = [parent EXCEPT ![r] = TipOf(TargetBranch(r))]
  /\ needHead' = [needHead EXCEPT ![r] = (head = None)]
  /\ Goto(r, "memory")
  /\ Stays /\ UNCHANGED <<durableVars, memory, payload, todo, mine>>

(* m is the manifest the adapter's snapshot produced; None with no_memory  *)
(* or without a memory backend. Its segments are MemoryCapture's business. *)
SnapshotMemory(r) ==
  /\ At(r, "memory")
  /\ \E m \in Blob \cup {None} :
       /\ memory' = [memory EXCEPT ![r] = m]
       /\ store' = IF m = None THEN store ELSE Put(m)
  /\ Goto(r, "assemble")
  /\ Stays /\ UNCHANGED <<content, branch, head, br, parent, needHead, payload, todo, mine>>

(* The tools' fingerprints join the prompts and model of the request.      *)
AssembleInputs(r) ==
  /\ At(r, "assemble")
  /\ \E p \in SUBSET Blob :
       /\ payload' = [payload EXCEPT ![r] = p]
       /\ todo' = [todo EXCEPT ![r] = p]
  /\ Goto(r, "stage")
  /\ Stays /\ UNCHANGED <<durableVars, br, parent, needHead, memory, mine>>

StageBlob(r) ==
  /\ At(r, "stage")
  /\ \E x \in todo[r] :
       /\ store' = Put(x)
       /\ todo' = [todo EXCEPT ![r] = @ \ {x}]
  /\ UNCHANGED pc
  /\ Stays /\ UNCHANGED <<content, branch, head, br, parent, needHead, memory, payload, mine>>

(* Variant: the Commit does not wait for the last blob.                    *)
StagedEarly(r) == At(r, "stage")

Staged(r) == At(r, "stage") /\ todo[r] = {}

(* The timestamp makes the hash a new one.                                 *)
PutCommit(r) ==
  /\ Staged(r)
  /\ \E c \in Fresh :
       /\ content' = [content EXCEPT ![c] =
            [parent |-> parent[r], memory |-> memory[r], payload |-> payload[r]]]
       /\ store' = Put(c)
       /\ mine' = [mine EXCEPT ![r] = c]
  /\ Goto(r, "ref")
  /\ Stays /\ UNCHANGED <<branch, head, br, parent, needHead, memory, payload, todo>>

WriteBranch(r) ==
  /\ At(r, "ref")
  /\ branch' = [branch EXCEPT ![br[r]] = mine[r]]
  /\ published' = published \cup {mine[r]}
  /\ Goto(r, "head")
  /\ UNCHANGED <<daemonVars, store, content, head, lockVars, taskVars, result,
                 envVars, acked>>

(* Variant: a HEAD that cannot be written fails the request.               *)
PublishHeadStrict(r) ==
  /\ At(r, "head")
  /\ \/ needHead[r] /\ head' = br[r] /\ Finish(r, "ok")
     \/ ~needHead[r] /\ UNCHANGED head /\ Finish(r, "ok")
     \/ needHead[r] /\ UNCHANGED head /\ Finish(r, "err")
  /\ UNCHANGED <<daemonVars, store, content, branch, kind, mine, envVars, historyVars>>

(* A HEAD that cannot be written is logged, and the commit stands.         *)
PublishHead(r) ==
  /\ At(r, "head")
  /\ \/ needHead[r] /\ head' = br[r]
     \/ UNCHANGED head
  /\ Finish(r, "ok")
  /\ UNCHANGED <<daemonVars, store, content, branch, kind, mine, envVars, historyVars>>

-----------------------------------------------------------------------------
(***************************************************************************)
(* Rollback: resolve any commit object of the store, restore the outside   *)
(* world, read its prompts, tools and model back, and record them forward  *)
(* on the branch HEAD names.                                               *)
(***************************************************************************)
ResolveTarget(r) ==
  /\ At(r, "read") /\ kind[r] = "rollback"
  /\ head # None
  /\ \E c \in Commit \cap store :
       /\ mine' = [mine EXCEPT ![r] = c]
       /\ memory' = [memory EXCEPT ![r] = content[c].memory]
  /\ br' = [br EXCEPT ![r] = head]
  /\ parent' = [parent EXCEPT ![r] = TipOf(head)]
  /\ Goto(r, "restore")
  /\ Stays /\ UNCHANGED <<durableVars, needHead, payload, todo>>

DryRun(r) ==
  /\ At(r, "restore")
  /\ mine' = [mine EXCEPT ![r] = None]
  /\ Finish(r, "ok")
  /\ UNCHANGED <<daemonVars, durableVars, kind, envVars, historyVars>>

(* Without its manifest or its prompts the restore cannot but fail.        *)
RollbackRestore(r) ==
  /\ At(r, "restore")
  /\ memory[r] # None => memory[r] \in store
  /\ Goto(r, "readback")
  /\ Stays /\ UNCHANGED <<durableVars, br, parent, needHead, memory, payload, todo, mine>>

ReadBack(r) ==
  /\ At(r, "readback")
  /\ content[mine[r]].payload \subseteq store
  /\ payload' = [payload EXCEPT ![r] = content[mine[r]].payload]
  /\ todo' = [todo EXCEPT ![r] = content[mine[r]].payload]
  /\ Goto(r, "stage")
  /\ Stays /\ UNCHANGED <<durableVars, br, parent, needHead, memory, mine>>

-----------------------------------------------------------------------------
(***************************************************************************)
(* Diff freezes the refs under the lock, HEAD (Admit) and then one branch  *)
(* file at a time, drops the lock and reads objects. Log resolves HEAD and *)
(* walks parents with no lock at all.                                      *)
(***************************************************************************)
SnapBranch(r) ==
  /\ At(r, "snap")
  /\ \E b \in todo[r] :
       /\ snap' = [snap EXCEPT ![r][b] = branch[b]]
       /\ todo' = [todo EXCEPT ![r] = @ \ {b}]
  /\ UNCHANGED <<daemonVars, durableVars, lockVars, pc, kind, br, parent, needHead,
                 memory, payload, mine, result, envVars, historyVars>>

SnapDone(r) ==
  /\ At(r, "snap") /\ todo[r] = {}
  /\ holder' = None
  /\ Goto(r, "diff")
  /\ UNCHANGED <<daemonVars, durableVars, queue, permits, taskVars, result, envVars, historyVars>>

DiffDone(r) ==
  /\ At(r, "diff")
  /\ \E out \in {"ok", "err"} : Answer(r, out)
  /\ permits' = permits + 1
  /\ UNCHANGED <<daemonVars, durableVars, holder, queue, kind, mine, envVars, historyVars>>

LogHead(r) ==
  /\ At(r, "logHead") /\ head # None
  /\ br' = [br EXCEPT ![r] = head]
  /\ Goto(r, "logTip")
  /\ Stays /\ UNCHANGED <<durableVars, parent, needHead, memory, payload, todo, mine>>

LogTip(r) ==
  /\ At(r, "logTip") /\ branch[br[r]] # None
  /\ mine' = [mine EXCEPT ![r] = branch[br[r]]]
  /\ Goto(r, "walk")
  /\ Stays /\ UNCHANGED <<durableVars, br, parent, needHead, memory, payload, todo>>

LogWalk(r) ==
  /\ At(r, "walk") /\ mine[r] \in store
  /\ content[mine[r]].parent # None
  /\ mine' = [mine EXCEPT ![r] = content[@].parent]
  /\ Stays /\ UNCHANGED <<pc, durableVars, br, parent, needHead, memory, payload, todo>>

(* No HEAD, no tip, a root, the limit, or an object that is not there.     *)
LogDone(r) ==
  /\ mode = "up" /\ pc[r] \in LockFreePC
  /\ Answer(r, IF pc[r] = "walk" /\ mine[r] \notin store THEN "err" ELSE "ok")
  /\ mine' = [mine EXCEPT ![r] = None]
  /\ UNCHANGED <<daemonVars, durableVars, lockVars, kind, envVars, historyVars>>

-----------------------------------------------------------------------------
(***************************************************************************)
(* The reply frame: sent, or lost with the connection.                     *)
(***************************************************************************)
Replied(r) ==
  /\ At(r, "reply")
  /\ Goto(r, "idle")
  /\ kind' = [kind EXCEPT ![r] = "log"]
  /\ mine' = [mine EXCEPT ![r] = None]
  /\ result' = [result EXCEPT ![r] = "none"]
  /\ UNCHANGED <<daemonVars, durableVars, lockVars, localVars, envVars, published>>

Deliver(r) ==
  /\ Replied(r)
  /\ acked' = IF result[r] = "ok" THEN acked \cup ({mine[r]} \ {None}) ELSE acked

LoseReply(r) == Replied(r) /\ UNCHANGED acked

-----------------------------------------------------------------------------
(***************************************************************************)
(* Process life cycle.                                                     *)
(***************************************************************************)
Signal ==
  /\ mode = "up" /\ ~shutdown
  /\ shutdown' = TRUE
  /\ UNCHANGED <<mode, drain, durableVars, lockVars, pc, taskVars, result, envVars, historyVars>>

(* The accept loop sees the token, stops accepting and queues on the lock. *)
StartDrain ==
  /\ mode = "up" /\ shutdown /\ drain = "accepting"
  /\ drain' = "draining"
  /\ queue' = Append(queue, Drainer)
  /\ UNCHANGED <<mode, shutdown, durableVars, holder, permits, pc, taskVars, result,
                 envVars, historyVars>>

(* What dies with the process.                                             *)
ProcessEnds ==
  /\ shutdown' = FALSE /\ drain' = "accepting"
  /\ holder' = None /\ queue' = <<>> /\ permits' = QueueDepth
  /\ pc' = Blank("idle") /\ kind' = Blank("log") /\ result' = Blank("none")
  /\ br' = Blank(None) /\ parent' = Blank(None) /\ needHead' = Blank(FALSE)
  /\ memory' = Blank(None) /\ payload' = Blank({}) /\ todo' = Blank({})
  /\ mine' = Blank(None) /\ snap' = Blank(NoSnap)
  /\ UNCHANGED <<durableVars, losses, historyVars>>

(* Variant: the process ends without taking the lock.                      *)
ExitAtOnce ==
  /\ mode = "up" /\ drain = "draining"
  /\ mode' = "exited"
  /\ ProcessEnds /\ UNCHANGED crashes

(* The lock is the accept loop's: the process ends, and with it each task. *)
Exit ==
  /\ mode = "up" /\ drain = "draining" /\ LockGranted(Drainer)
  /\ mode' = "exited"
  /\ ProcessEnds /\ UNCHANGED crashes

Crash ==
  /\ mode = "up" /\ crashes < MaxCrashes
  /\ mode' = "crashed" /\ crashes' = crashes + 1
  /\ ProcessEnds

(* Corruption or an operator's mistake while no daemon runs.               *)
LoseObject ==
  /\ mode \in {"exited", "crashed"} /\ losses < MaxLosses
  /\ \E x \in store : store' = store \ {x}
  /\ losses' = losses + 1
  /\ UNCHANGED <<daemonVars, content, branch, head, lockVars, pc, taskVars, result,
                 crashes, historyVars>>

(* reconcile_refs_on_startup: each tip has its object, or no service.      *)
TipsPresent == \A b \in Branch : branch[b] # None => branch[b] \in store

(* Variant: no reconciliation.                                             *)
StartupUnchecked ==
  /\ mode \in {"exited", "crashed"}
  /\ mode' = "up"
  /\ UNCHANGED <<shutdown, drain, durableVars, lockVars, pc, taskVars, result, envVars, historyVars>>

Startup ==
  /\ mode \in {"exited", "crashed"} /\ TipsPresent
  /\ mode' = "up"
  /\ UNCHANGED <<shutdown, drain, durableVars, lockVars, pc, taskVars, result, envVars, historyVars>>

RefuseStart ==
  /\ mode \in {"exited", "crashed", "refused"}
  /\ ~TipsPresent
  /\ mode' = "refused"
  /\ UNCHANGED <<shutdown, drain, durableVars, lockVars, pc, taskVars, result, envVars, historyVars>>

-----------------------------------------------------------------------------
CommitStep(r) ==
  \/ ReadRefs(r) \/ SnapshotMemory(r) \/ AssembleInputs(r) \/ StageBlob(r)
  \/ PutCommit(r) \/ WriteBranch(r) \/ PublishHead(r)

RollbackStep(r) ==
  ResolveTarget(r) \/ DryRun(r) \/ RollbackRestore(r) \/ ReadBack(r)

ReadStep(r) ==
  \/ SnapBranch(r) \/ SnapDone(r) \/ DiffDone(r)
  \/ LogHead(r) \/ LogTip(r) \/ LogWalk(r) \/ LogDone(r)

(* What the daemon does of itself once a request has arrived.              *)
TaskStep(r) ==
  \/ Acquire(r) \/ CommitStep(r) \/ RollbackStep(r) \/ ReadStep(r) \/ Abort(r)
  \/ Deliver(r) \/ LoseReply(r)

Request(r) ==
  \/ \E k \in LockedKinds :
       Refuse(r, k) \/ \E b \in Branch \cup {None} : Enqueue(r, k, b)
  \/ StartLog(r)

Lifecycle == Signal \/ StartDrain \/ Exit \/ Crash \/ LoseObject \/ Startup \/ RefuseStart

Next ==
  \/ \E r \in Client : Request(r) \/ TaskStep(r)
  \/ Lifecycle

Spec == Init /\ [][Next]_vars

(* The runtime polls every task that can go on, calls to Postgres, to the  *)
(* MCP servers and to the object store return, and a supervisor restarts   *)
(* the daemon. No client has to send anything.                             *)
Fairness ==
  /\ \A r \in Client : WF_vars(TaskStep(r))
  /\ WF_vars(StartDrain \/ Exit)
  /\ WF_vars(Startup \/ RefuseStart)

FairSpec == Spec /\ Fairness

-----------------------------------------------------------------------------
(***************************************************************************)
(* At most one request runs between taking commit_lock and dropping it, so *)
(* two-phase sequences never interleave (server.rs, Commit and Rollback).  *)
(***************************************************************************)
LockExclusive == \A r \in Client : pc[r] \in LockedPC => holder = r

(***************************************************************************)
(* Everything an object of the store refers to is in the store too, from   *)
(* the moment the object is (blobs before the Commit, the parent before    *)
(* both), so a reader that finds a commit can follow it all the way. The   *)
(* order of stage_and_commit_with_now is what keeps it, at every crash     *)
(* point; it says nothing of a store that lost objects.                    *)
(***************************************************************************)
StoreClosed ==
  losses = 0 => \A c \in Commit \cap store : Refers(c) \subseteq store

(***************************************************************************)
(* A daemon that serves has the object of every branch tip: the write      *)
(* order keeps it while it runs, the reconciliation after any stop.        *)
(***************************************************************************)
ServedTipsPresent == mode = "up" => TipsPresent

(***************************************************************************)
(* HEAD never names a branch without a commit (the phantom HEAD that       *)
(* publish_head avoids by running last).                                   *)
(***************************************************************************)
NoPhantomHead == head # None => branch[head] # None

(***************************************************************************)
(* A request that failed left no trace a reader can reach, and one that    *)
(* succeeded is on a branch ("Steps 1-3 fail: orphan blobs only").         *)
(***************************************************************************)
OutcomeHonest ==
  \A r \in Client :
    (pc[r] = "reply" /\ kind[r] \in WriteKinds /\ mine[r] # None) =>
      /\ result[r] = "ok" => mine[r] \in published
      /\ (result[r] = "err" /\ kind[r] = "commit") => mine[r] \notin published

(***************************************************************************)
(* Diff's frozen refs agree with one instant: while it reads them file by  *)
(* file nothing it has read moves, HEAD or branch (commit_lock is its only *)
(* protection).                                                            *)
(***************************************************************************)
DiffSnapshotStable ==
  \A r \in Client :
    pc[r] = "snap" => br[r] = head /\ \A b \in Branch \ todo[r] : snap[r][b] = branch[b]

(***************************************************************************)
(* The lock-free log walk never meets a missing commit, whatever commits   *)
(* run beside it (Request::Log takes no lock).                             *)
(***************************************************************************)
LogNeverDangles ==
  \A r \in Client : (mode = "up" /\ pc[r] = "walk" /\ losses = 0) => mine[r] \in store

(***************************************************************************)
(* Each slot is accounted for: free permits and requests that hold one add *)
(* up to the configured depth, on every path out of the dispatch arm.      *)
(***************************************************************************)
SlotsBalanced ==
  mode = "up" => permits + Cardinality({r \in Client : pc[r] \in SlotPC}) = QueueDepth

(***************************************************************************)
(* A graceful exit interrupts no request that holds the lock: drain waits  *)
(* for it, and the check after the lock stops those queued behind.         *)
(***************************************************************************)
ExitInterruptsNobody ==
  [][mode' = "exited" /\ mode = "up" => \A r \in Client : pc[r] \notin LockedPC]_vars

(***************************************************************************)
(* Once the accept loop drains, no write begins its two-phase sequence.    *)
(***************************************************************************)
NoWriteAfterShutdown ==
  [][\A r \in Client :
       (shutdown /\ kind[r] \in WriteKinds /\ pc[r] = "queued") => pc'[r] # "read"]_vars

(***************************************************************************)
(* The engine implements the atomic, append-only branch history.           *)
(***************************************************************************)
History == INSTANCE BranchHistory WITH
  tip <- branch,
  chain <- [c \in published |-> content[c].parent]

ImplementsHistory == History!Spec

(***************************************************************************)
(* An acknowledged commit is reachable from a branch for ever, through     *)
(* crashes, failed requests and rollbacks.                                 *)
(***************************************************************************)
AckedCommitsReachable == History!AckedReachable

(***************************************************************************)
(* Each request the daemon took gets its outcome, or the process stops.    *)
(***************************************************************************)
RequestsEnd == \A r \in Client : pc[r] # "idle" ~> (pc[r] = "idle" \/ mode # "up")

(***************************************************************************)
(* A shutdown signal ends the process, however many requests queue.        *)
(***************************************************************************)
ShutdownCompletes == shutdown ~> mode # "up"
=============================================================================
