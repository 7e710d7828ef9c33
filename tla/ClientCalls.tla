---------------------------- MODULE ClientCalls -----------------------------
(***************************************************************************)
(* Calls of clients that try again: what the Python SDK and the CLI make   *)
(* of the daemon's answers and of their absence, beside what the daemon    *)
(* does for a request whose client has long gone.  A commit collects its   *)
(* tools as in ToolFanout; a rollback here is one that accepts data loss   *)
(* and needs the operator's approval.                                      *)
(*                                                                         *)
(* A request is served to its end whether its client waits or not: the     *)
(* connection loop looks at the socket again only when it has an answer.   *)
(* A reply that is lost is a connection that broke before the reply came.  *)
(***************************************************************************)
EXTENDS ToolFanout, CommitDiff

CONSTANTS
  Call, Kind,       (* Kind[c]: "commit" or "rollback".                    *)
  Tokens,           (* Approval tokens a rollback may come with.           *)
  Worlds,           (* Each one: [setups, byHash, requests].  A setup is   *)
                    (* what the daemon may be started with: --mcp, what is *)
                    (* at --approval-key-file, and whether uids are known; *)
                    (* byHash has the rollbacks that name their target by  *)
                    (* its hash, the others name the branch; requests      *)
                    (* bounds those of all calls together.                 *)
  MaxAttempts,      (* Bound: requests of one call.                        *)
  CommitQueueDepth,
  TTL,              (* APPROVAL_TOKEN_TTL_SECONDS, in ticks.               *)
  MaxStops,         (* Bound: crashes and shutdowns of the daemon.         *)
  None

ASSUME CallsAssumption ==
  /\ None \notin Call
  /\ Kind \in [Call -> {"commit", "rollback"}]
  /\ MaxAttempts \in Nat \ {0} /\ CommitQueueDepth \in Nat \ {0}
  /\ TTL \in Nat /\ MaxStops \in Nat
  /\ Tokens \subseteq {None} \cup
       [signs : Nat, uid : Call \cup {None}, age : -(TTL + 1)..(TTL + 1)]
  /\ \A w \in Worlds :
       /\ w.requests \in Nat /\ w.byHash \subseteq Call
       /\ w.setups \subseteq [mcp : Seq([name : Server, url : UrlKind]),
                             key : {"absent", "key", "wrong_length"}, attested : BOOLEAN]

VARIABLES
  world,        (* Which of the worlds this is.                            *)
  daemon,       (* "serving", "stopping" or "down".                        *)
  stops,
  approvals,    (* [key, attested]: a key is loaded; peers' uids are known.*)
  token,        (* token[c]: [signs, uid, age]; the age is relative to now *)
                (* and no further from it than matters.                    *)
  call,         (* call[c]: [phase, attempt, result].                      *)
  task,         (* task[c][k]: the daemon's work on c's k-th request.      *)
  log,          (* The branch: who recorded each commit, and its tools.    *)
  unseen        (* History: requests whose end the client never learnt.    *)

callVars == <<world, daemon, stops, approvals, token, call, task, log, unseen>>
vars == <<fanVars, callVars>>

Attempt == 1..MaxAttempts
Tip == Len(log)

-----------------------------------------------------------------------------
(***************************************************************************)
(* wire_error.rs: what a failure becomes on the wire.                      *)
(***************************************************************************)
Ok == [class |-> "ok", retryable |-> FALSE]
Error(class, retryable) == [class |-> class, retryable |-> retryable]
Concurrency == Error("concurrency", TRUE)

(* classify_memory_error, _backend_message, _sqlx_like: by their classes.  *)
MemoryErrors ==
  {Error("memory", TRUE),      (* the pool, the connection, anything new   *)
   Error("memory", FALSE),     (* schema drift, streamer dead, not ready   *)
   Error("validation", FALSE), (* an identifier, a secret                  *)
   Error("not_found", FALSE)}  (* RowNotFound                              *)

(* classify_core_error                                                     *)
CoreErrors ==
  {Error("storage", TRUE),     (* Io                                       *)
   Error("storage", FALSE),    (* integrity, kind, serialization           *)
   Error("validation", FALSE), (* a secret, a branch name                  *)
   Error("not_found", FALSE), Error("internal", FALSE)}

(* An error of no known type is classified by words in its text, the       *)
(* server's own among them.                                                *)
TextError(words) ==
  CASE words = "daemon is shutting down" -> Concurrency
    [] words \in {"invalid hash", "scanner rejected"} -> Error("validation", FALSE)
    [] words = "ref not found" -> Error("not_found", FALSE)
    [] OTHER -> Error("internal", FALSE)

ApprovalError == Error("validation", FALSE)
QueueFull == Concurrency
ShuttingDownError == TextError("daemon is shutting down")

-----------------------------------------------------------------------------
(***************************************************************************)
(* client.py _request: an answer, or one of the ways not to get one.  The  *)
(* daemon answers on the connection it was asked on, with the request's    *)
(* correlation id, so that the check of the id never fails here.           *)
(***************************************************************************)
Unreachable == Error("protocol", TRUE)      (* daemon_unreachable          *)
FramingError == Error("protocol", FALSE)    (* end of file in a frame      *)
TimedOutError == Error("protocol", TRUE)
SocketError == Error("protocol", TRUE)

(* The exception a class stands for: Concurrency's is always retryable.    *)
Raised(r) == IF r.class = "concurrency" THEN Concurrency ELSE r

(* A call's k-th request came to r: "clients use it to decide              *)
(* back-off-and-retry" (Response::Error).                                  *)
After(k, r) ==
  [phase |-> IF Raised(r).retryable /\ k < MaxAttempts THEN "idle" ELSE "ended",
   attempt |-> k, result |-> IF r = Ok THEN "ok" ELSE "error"]

Concluded(c, r) == [call EXCEPT ![c] = After(call[c].attempt, r)]
Attempted(c, r) == [call EXCEPT ![c] = After(call[c].attempt + 1, r)]

-----------------------------------------------------------------------------
(***************************************************************************)
(* Approval (approval.rs, rollback/mod.rs approval_gate).                  *)
(***************************************************************************)
Malformed == [signs |-> 0, uid |-> None, age |-> 0]

(* load_approval_key: no key, or no start at all.                          *)
KeyLoads(file) == file # "wrong_length"
KeyIn(file) == file = "key"

InWindow(age) == -TTL <= age /\ age <= TTL

Further(age) == IF age > TTL THEN age ELSE age + 1

(* Variant: a token is good for any commit.                                *)
VerifiesUnscoped(t, target, uid) ==
  t # Malformed /\ InWindow(t.age) /\ t.uid = uid

(* verify_token                                                            *)
Verifies(t, target, uid) ==
  /\ t # Malformed /\ InWindow(t.age)
  /\ t.signs = target /\ t.uid = uid

ApprovalGate(c, target) ==
  /\ approvals.key /\ approvals.attested
  /\ token[c] # None /\ Verifies(token[c], target, c)

(* Refs::resolve of what the request names; the first commit is the one    *)
(* that is named by its hash.                                              *)
Resolved(c) == IF c \in world.byHash THEN 1 ELSE Tip

-----------------------------------------------------------------------------
Waiting == {"queued"}
Holding == {"asking", "staging", "restoring"}

Tasks == Call \X Attempt
PhaseOf(t) == task[t[1]][t[2]]
Holders == {t \in Tasks : PhaseOf(t) \in Holding}
SlotsTaken == Cardinality({t \in Tasks : PhaseOf(t) \in Waiting \cup Holding})

TypeOK ==
  /\ FanTypeOK
  /\ world \in Worlds
  /\ daemon \in {"serving", "stopping", "down"} /\ stops \in 0..MaxStops
  /\ approvals \in [key : BOOLEAN, attested : BOOLEAN]
  /\ \A c \in DOMAIN token : token[c] = None \/ token[c].age \in -(TTL + 1)..(TTL + 1)
  /\ call \in [Call -> [phase : {"idle", "waiting", "ended"},
                        attempt : 0..MaxAttempts,
                        result : {"none", "ok", "error"}]]
  /\ task \in [Call -> [Attempt ->
                 {"none", "over"} \cup Waiting \cup Holding]]
  /\ Cardinality(Holders) <= 1 /\ SlotsTaken <= CommitQueueDepth
  /\ \A i \in 1..Len(log) : log[i].by \in Call \cup {None}
  /\ unseen \in [Call -> 0..MaxAttempts]

Init ==
  /\ servers = <<>> /\ fan = NoFan /\ served = NothingServed
  /\ world \in Worlds
  /\ daemon = "down" /\ stops = 0
  /\ approvals = [key |-> FALSE, attested |-> FALSE]
  /\ token \in [{c \in Call : Kind[c] = "rollback"} -> Tokens]
  /\ call = [c \in Call |-> [phase |-> "idle", attempt |-> 0, result |-> "none"]]
  /\ task = [c \in Call |-> [k \in Attempt |-> "none"]]
  /\ log = <<[by |-> None, tools |-> NoTree]>>
  /\ unseen = [c \in Call |-> 0]

-----------------------------------------------------------------------------
(* The task t is over and says r; whoever still waits for it hears it.     *)
Over(t) == [task EXCEPT ![t[1]][t[2]] = "over"]

WaitedFor(t) == call[t[1]].phase = "waiting" /\ call[t[1]].attempt = t[2]

Says(t, r) ==
  /\ task' = Over(t)
  /\ call' = IF WaitedFor(t) THEN Concluded(t[1], r) ELSE call

Goes(t, p) == task' = [task EXCEPT ![t[1]][t[2]] = p] /\ UNCHANGED call

Sending(c) ==
  /\ call[c].phase = "idle" /\ call[c].attempt < MaxAttempts
  /\ MapThenSumSet(LAMBDA d : call[d].attempt, Call) < world.requests

(* A connection is refused while no daemon listens.                        *)
NotReached(c) ==
  /\ Sending(c) /\ daemon = "down"
  /\ call' = Attempted(c, Unreachable)
  /\ UNCHANGED <<fanVars, world, daemon, stops, approvals, token, task, log, unseen>>

(* A request is read and dispatched up to the lock in one step.            *)
Enqueue(c) ==
  /\ Sending(c) /\ daemon = "serving" /\ SlotsTaken < CommitQueueDepth
  /\ task' = [task EXCEPT ![c][call[c].attempt + 1] = "queued"]
  /\ call' = [call EXCEPT ![c].attempt = @ + 1, ![c].phase = "waiting"]
  /\ UNCHANGED <<fanVars, world, daemon, stops, approvals, token, log, unseen>>

(* Shutting down, or commit_queue_full; the client hears of it or does not.*)
TurnedAway(c) ==
  /\ Sending(c)
  /\ \/ daemon = "stopping"
     \/ (daemon = "serving" /\ SlotsTaken >= CommitQueueDepth)
  /\ task' = [task EXCEPT ![c][call[c].attempt + 1] = "over"]
  /\ \/ call' = Attempted(c, Concurrency)
     \/ call' = [call EXCEPT ![c].attempt = @ + 1, ![c].phase = "waiting"]
  /\ UNCHANGED <<fanVars, world, daemon, stops, approvals, token, log, unseen>>

(* The client stops waiting: its timeout, or a connection that breaks.     *)
GiveUp(c) ==
  /\ call[c].phase = "waiting"
  /\ \E r \in {TimedOutError, FramingError, SocketError} : call' = Concluded(c, r)
  /\ unseen' = [unseen EXCEPT ![c] = @ + 1]
  /\ UNCHANGED <<fanVars, world, daemon, stops, approvals, token, task, log>>

-----------------------------------------------------------------------------
(* The daemon's work; one request at a time has commit_lock.               *)
(* Variant: no lock.                                                       *)
GrantedAtOnce(t) == PhaseOf(t) = "queued" /\ daemon # "down"

Granted(t) == PhaseOf(t) = "queued" /\ Holders = {} /\ daemon # "down"

RefuseStopping(t) ==
  /\ Granted(t) /\ daemon = "stopping"
  /\ Says(t, ShuttingDownError)
  /\ UNCHANGED <<fanVars, world, daemon, stops, approvals, token, log, unseen>>

(* snapshot_memory, then fingerprint_tools.                                *)
BeginCommit(t) ==
  /\ Granted(t) /\ daemon = "serving" /\ Kind[t[1]] = "commit"
  /\ Goes(t, IF servers = <<>> THEN "staging" ELSE "asking")
  /\ fan' = IF servers = <<>> THEN NoFan ELSE Asked
  /\ UNCHANGED <<servers, served, world, daemon, stops, approvals, token, log, unseen>>

(* No await between the lock, the resolved ref and the gate.               *)
GateRefuses(t) ==
  /\ Granted(t) /\ daemon = "serving" /\ Kind[t[1]] = "rollback"
  /\ ~ApprovalGate(t[1], Resolved(t[1]))
  /\ Says(t, ApprovalError)
  /\ UNCHANGED <<fanVars, world, daemon, stops, approvals, token, log, unseen>>

BeginRollback(t) ==
  /\ Granted(t) /\ daemon = "serving" /\ Kind[t[1]] = "rollback"
  /\ ApprovalGate(t[1], Resolved(t[1]))
  /\ Goes(t, "restoring")
  /\ UNCHANGED <<fanVars, world, daemon, stops, approvals, token, log, unseen>>

-----------------------------------------------------------------------------
Asking == \E t \in Tasks : PhaseOf(t) = "asking"

FanAnswers ==
  /\ Asking /\ UNCHANGED callVars
  /\ \E i \in InFlight : \E a \in Answers(servers[i]) : Answer(i, a)

FanTimesOut ==
  /\ Asking /\ UNCHANGED callVars
  /\ \E i \in InFlight : TimeOut(i)

ToolsFail(t) ==
  /\ PhaseOf(t) = "asking" /\ FanDone /\ FanFailed
  /\ Says(t, TextError(FailureWords))
  /\ FanCleared
  /\ UNCHANGED <<servers, world, daemon, stops, approvals, token, log, unseen>>

ToolsKnown(t) ==
  /\ PhaseOf(t) = "asking" /\ FanDone /\ ~FanFailed
  /\ Goes(t, "staging")
  /\ fan' = FanCollected
  /\ UNCHANGED <<servers, served, world, daemon, stops, approvals, token, log, unseen>>

(* Any other `?` before the branch ref moves: of the memory (a commit's    *)
(* snapshot comes before its tools), the store, the restore.               *)
Fail(t) ==
  /\ \/ PhaseOf(t) \in {"staging", "restoring"}
     \/ (Granted(t) /\ daemon = "serving" /\ Kind[t[1]] = "commit")
  /\ \E r \in MemoryErrors \cup CoreErrors \cup {TextError("plain")} : Says(t, r)
  /\ FanCleared
  /\ UNCHANGED <<servers, world, daemon, stops, approvals, token, log, unseen>>

Tools == IF fan = NoFan THEN NoTree ELSE ToolsMap

(* Variant: a failure to write HEAD fails the reply (see publish_head).    *)
AfterRecordStrict(headWritten) == IF headWritten THEN Ok ELSE Error("storage", TRUE)

AfterRecord(headWritten) == Ok

(* The branch ref moves; HEAD may still fail to be written.                *)
Record(t) ==
  /\ PhaseOf(t) \in {"staging", "restoring"}
  /\ log' = Append(log, [by |-> t[1],
       tools |-> IF PhaseOf(t) = "staging" THEN Tools ELSE log[Resolved(t[1])].tools])
  /\ \E headWritten \in BOOLEAN : Says(t, AfterRecord(headWritten))
  /\ FanCleared
  /\ UNCHANGED <<servers, world, daemon, stops, approvals, token, unseen>>

-----------------------------------------------------------------------------
Start(setup) ==
  /\ daemon = "down"
  /\ Startable(setup.mcp) /\ KeyLoads(setup.key)
  /\ servers' = NamesOf(setup.mcp)
  /\ approvals' = [key |-> KeyIn(setup.key), attested |-> setup.attested]
  /\ daemon' = "serving"
  /\ UNCHANGED <<fan, served, world, stops, token, call, task, log, unseen>>

(* SIGTERM: what is queued will find the token, what has the lock goes on. *)
Shutdown ==
  /\ daemon = "serving" /\ stops < MaxStops
  /\ daemon' = "stopping" /\ stops' = stops + 1
  /\ UNCHANGED <<fanVars, world, approvals, token, call, task, log, unseen>>

Stopped ==
  /\ task' = [c \in Call |-> [k \in Attempt |->
                IF task[c][k] = "none" THEN "none" ELSE "over"]]
  /\ FanCleared /\ daemon' = "down"

(* drain has had the lock.                                                 *)
Exit ==
  /\ daemon = "stopping" /\ Holders = {}
  /\ Stopped
  /\ UNCHANGED <<servers, world, stops, approvals, token, call, log, unseen>>

Crash ==
  /\ daemon # "down" /\ stops < MaxStops
  /\ Stopped /\ stops' = stops + 1
  /\ UNCHANGED <<servers, world, approvals, token, call, log, unseen>>

(* A token's age is kept while a request may still be judged by it.        *)
MayStillAsk(c) ==
  call[c].phase # "ended" \/ \E k \in Attempt : task[c][k] = "queued"

Tick ==
  /\ FanMayTick
  /\ fan' = FanTicked
  /\ token' = [c \in DOMAIN token |->
       IF token[c] \in {None, Malformed} \/ ~MayStillAsk(c) THEN token[c]
       ELSE [token[c] EXCEPT !.age = Further(@)]]
  /\ UNCHANGED <<servers, served, world, daemon, stops, approvals, call, task, log, unseen>>

-----------------------------------------------------------------------------
Serve(t) ==
  \/ RefuseStopping(t) \/ BeginCommit(t) \/ GateRefuses(t) \/ BeginRollback(t)
  \/ ToolsFail(t) \/ ToolsKnown(t) \/ Record(t) \/ Fail(t)

Next ==
  \/ \E c \in Call : NotReached(c) \/ Enqueue(c) \/ TurnedAway(c) \/ GiveUp(c)
  \/ \E t \in Tasks : Serve(t)
  \/ FanAnswers \/ FanTimesOut
  \/ \E setup \in world.setups : Start(setup)
  \/ Shutdown \/ Exit \/ Crash \/ Tick

Spec == Init /\ [][Next]_vars
(* What has the lock goes on, time passes, a deadline is seen; nothing is  *)
(* asked of clients, servers or whoever starts and stops the daemon.       *)
FairSpec ==
  /\ Spec /\ WF_vars(Tick) /\ WF_vars(FanTimesOut)
  /\ WF_vars(\E t \in Tasks : Serve(t))

-----------------------------------------------------------------------------
RecordedBy(c) == {i \in 1..Tip : log[i].by = c}

(* A caller may believe the daemon's answers, whatever was lost before     *)
(* them (map_anyhow_to_response_error, publish_head, client.py _request):  *)
(* a call records more than one commit only for requests whose end it      *)
(* never learnt, it recorded one if it was told so, and none if each of    *)
(* its requests was answered and none with a success.                      *)
NoSilentDuplicate ==
  \A c \in Call :
    /\ Cardinality(RecordedBy(c)) <= unseen[c] + (IF call[c].result = "ok" THEN 1 ELSE 0)
    /\ call[c].result = "ok" => RecordedBy(c) # {}

(* The tools a commit is about to record are, for each server configured   *)
(* and for no other name, what that server answered this commit, in        *)
(* whatever order the answers came (fingerprint_tools, canonicalize).      *)
ToolsExact ==
  \A t \in Tasks : PhaseOf(t) = "staging" =>
    /\ DOMAIN Tools = Range(servers)
    /\ \A i \in Index : Tools[servers[i]] = served[i]

Begins(t) == PhaseOf(t) # "restoring" /\ PhaseOf(t)' = "restoring"

(* A rollback that may lose data begins only while its token is good, for  *)
(* the uid and the commit the operator signed, although it may have waited *)
(* for the lock, been given up or been sent again; and a token for what    *)
(* the branch stood at is spent by the commit its use records              *)
(* (approval_gate, verify_token).                                          *)
ApprovalHolds ==
  [][\A t \in Tasks : Begins(t) =>
       LET c == t[1]
       IN  /\ approvals.key /\ approvals.attested
           /\ token[c].uid = c /\ token[c].age \in -TTL..TTL
           /\ IF c \in world.byHash THEN token[c].signs = 1
              ELSE token[c].signs = Tip /\ RecordedBy(c) = {}]_vars

(* The requests in the daemon come to their ends and give their slots and  *)
(* the lock back, although no MCP server ever answers and no client waits  *)
(* (the deadline of each request in fingerprint_one).                      *)
QueueEmpties == []<>(SlotsTaken = 0)
=============================================================================
