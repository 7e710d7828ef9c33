---------------------------- MODULE DaemonSocket ----------------------------
(***************************************************************************)
(* The daemon's socket: the accept loop, who is let in, how many           *)
(* connections and how many requests a uid may have, and the read,         *)
(* dispatch, write loop of each connection with its two deadlines.  What   *)
(* dispatch does, and how a shutdown ends all this, is AgentDaemon's.      *)
(*                                                                         *)
(* All of it runs on one thread (a LocalSet): what a connection does       *)
(* between two awaits is one step.  Time is counted in ticks; a connection *)
(* keeps the age of its current read or write and a bucket the ticks since *)
(* it was last looked at, each no further than it matters.                 *)
(***************************************************************************)
EXTENDS Integers, FiniteSets

CONSTANTS
  Conn, Uid,
  Owner,            (* Owner[c]: the uid SO_PEERCRED reports for c.        *)
  Policies,         (* Allowlists the daemon may be started with; the      *)
                    (* empty one stands for --insecure-allow-any-uid.      *)
  MaxConnections, MaxConnectionsPerUid,
  RatePerUid,       (* Requests a second.                                  *)
  Second, ReadIdle, WriteIdle,      (* In ticks.                           *)
  Window,           (* How far the history looks back, in ticks.           *)
  None

(* LimitsConfig::validate.                                                 *)
LimitsValid ==
  /\ MaxConnections \in Nat \ {0} /\ MaxConnectionsPerUid \in Nat \ {0}
  /\ RatePerUid \in Nat \ {0}
  /\ ReadIdle \in Nat \ {0} /\ WriteIdle \in Nat \ {0}

ASSUME LimitsAssumption == LimitsValid

ASSUME SocketAssumption ==
  /\ IsFiniteSet(Conn) /\ Owner \in [Conn -> Uid] /\ None \notin Uid
  /\ Policies \subseteq SUBSET Uid
  /\ Second \in Nat \ {0} /\ Window \in Nat /\ Window >= 2 * Second

VARIABLES
  allowed,      (* PeerAuthPolicy.                                         *)
  phase,        (* Where each connection's task is.                        *)
  partly,       (* Some bytes of the next frame are here.                  *)
  age,          (* Ticks since the current read or write began.            *)
  job,          (* The request dispatch works on.                          *)
  gate,         (* ConnGate's counts.                                      *)
  bucket,       (* RateLimiter's buckets.                                  *)
  used          (* History: used[u][k], what u was granted in the last k   *)
                (* ticks and since.                                        *)

vars == <<allowed, phase, partly, age, job, gate, bucket, used>>

-----------------------------------------------------------------------------
(***************************************************************************)
(* Frames and envelopes.  A version is a number of the wire, NoField where *)
(* the field is missing, NotInteger for anything else that was sent.       *)
(***************************************************************************)
PROTOCOL_VERSION == 1
NoField == -2
NotInteger == -1

(* What clients send: each in the shape of its version, or broken.         *)
Envelopes ==
  {<<NoField, "v0">>, <<0, "v0">>, <<1, "v1">>, <<NotInteger, "v1">>,
   <<NoField, "broken">>, <<1, "broken">>}
  \cup ({2, 65535, 65536, 65537} \X {"later"})

Frame ==
  {[fits |-> FALSE, attributable |-> FALSE, version |-> NoField, shape |-> "broken"],
   [fits |-> TRUE, attributable |-> FALSE, version |-> NoField, shape |-> "broken"]}
  \cup {[fits |-> TRUE, attributable |-> TRUE, version |-> e[1], shape |-> e[2]]
          : e \in Envelopes}

(* Variant: as_u64().unwrap_or(0) as u16.                                  *)
VersionWrapped(f) ==
  IF f.version \in {NoField, NotInteger} THEN 0 ELSE f.version % 65536

Version(f) ==
  IF f.version = NoField THEN 0
  ELSE IF f.version \in 0..65535 THEN f.version ELSE NotInteger

(* A frame of at most MAX_FRAME_BYTES with JSON and a correlation_id in it *)
(* can be answered; one of a version the daemon knows can be dispatched.   *)
Readable(f) == f.fits /\ f.attributable
WellFormed(f) == Version(f) \in 0..PROTOCOL_VERSION /\ f.shape # "broken"

(* RequestV0 or Request.                                                   *)
ReadAs(f) == IF Version(f) = 0 THEN "v0" ELSE "v1"

-----------------------------------------------------------------------------
(***************************************************************************)
(* Who is let in, and how many at a time.                                  *)
(***************************************************************************)
IsAllowed(u) == allowed = {} \/ u \in allowed

AttestationFor(u) == IF allowed = {} THEN None ELSE u

Live == {c \in Conn : phase[c] \in {"read", "dispatch", "write"}}

GlobalCapReached == gate.global >= MaxConnections
UidCapReached(u) == gate.perUid[u] >= MaxConnectionsPerUid

(* Variant: the guard is dropped as soon as it is made.                    *)
AdmittedUnguarded(u) == gate

Admitted(u) == [global |-> gate.global + 1,
                perUid |-> [gate.perUid EXCEPT ![u] = @ + 1]]

Less(n) == IF n = 0 THEN 0 ELSE n - 1        (* saturating_sub(1)          *)

Released(u) == [global |-> Less(gate.global),
                perUid |-> [gate.perUid EXCEPT ![u] = Less(@)]]

-----------------------------------------------------------------------------
(***************************************************************************)
(* The token bucket, in units of one request per Second ticks.             *)
(***************************************************************************)
Burst == 2 * RatePerUid * Second
AtMost(n, max) == IF n > max THEN max ELSE n

(* Variant: every uid has the same bucket.                                 *)
BucketShared(u) == CHOOSE v \in Uid : TRUE

BucketOf(u) == u

(* Variant: no cap at the burst.                                           *)
TokensUncapped(u) == bucket[u].tokens + bucket[u].idle * RatePerUid

Tokens(u) == AtMost(bucket[u].tokens + bucket[u].idle * RatePerUid, Burst)
HasToken(u) == Tokens(BucketOf(u)) >= Second

(* Variant: last_refill stays where it was.                                *)
DebitedUndated(u, cost) ==
  [bucket EXCEPT ![u] = [tokens |-> Tokens(u) - cost, idle |-> bucket[u].idle]]

Debited(u, cost) ==
  [bucket EXCEPT ![u] = [tokens |-> Tokens(u) - cost, idle |-> 0]]

Take(u) ==
  /\ HasToken(u)
  /\ bucket' = Debited(BucketOf(u), Second)
  /\ used' = [used EXCEPT ![u] = [k \in 0..Window |-> used[u][k] + 1]]

Refuse(u) ==
  /\ ~HasToken(u)
  /\ bucket' = Debited(BucketOf(u), 0)
  /\ UNCHANGED used

-----------------------------------------------------------------------------
NoJob == [sent |-> None, read |-> None, uid |-> None]
Shape == {"v0", "v1", "later", "broken"}

TypeOK ==
  /\ allowed \in Policies
  /\ phase \in [Conn -> {"closed", "backlog", "read", "dispatch", "write"}]
  /\ partly \in [Conn -> BOOLEAN] /\ age \in [Conn -> Nat]
  /\ job \in [Conn -> [sent : Shape, read : {"v0", "v1"}, uid : Uid \cup {None}]
                      \cup {NoJob}]
  /\ gate \in [global : Nat, perUid : [Uid -> Nat]]
  /\ bucket \in [Uid -> [tokens : 0..Burst, idle : 0..(2 * Second)]]
  /\ used \in [Uid -> [0..Window -> Nat]]

(* A bucket that does not exist yet answers as a full one.                 *)
Init ==
  /\ allowed \in Policies
  /\ phase = [c \in Conn |-> "closed"]
  /\ partly = [c \in Conn |-> FALSE]
  /\ age = [c \in Conn |-> 0] /\ job = [c \in Conn |-> NoJob]
  /\ gate = [global |-> 0, perUid |-> [u \in Uid |-> 0]]
  /\ bucket = [u \in Uid |-> [tokens |-> Burst, idle |-> 0]]
  /\ used = [u \in Uid |-> [k \in 0..Window |-> 0]]

(* A connection's task goes on to p; the clock of a read or write starts.  *)
Goes(c, p, j) ==
  /\ phase' = [phase EXCEPT ![c] = p]
  /\ partly' = [partly EXCEPT ![c] = FALSE]
  /\ age' = [age EXCEPT ![c] = 0]
  /\ job' = [job EXCEPT ![c] = j]

(* handle_connection returns: the task ends and with it the guard.         *)
Ends(c) ==
  /\ Goes(c, "closed", NoJob)
  /\ gate' = Released(Owner[c])

(* The accept loop closes a socket it does not let in.                     *)
TurnedAway(c) ==
  /\ Goes(c, "closed", NoJob)
  /\ UNCHANGED <<allowed, gate, bucket, used>>

-----------------------------------------------------------------------------
(* What peers do.                                                          *)
Connect(c) ==
  /\ phase[c] = "closed"
  /\ phase' = [phase EXCEPT ![c] = "backlog"]
  /\ UNCHANGED <<allowed, partly, age, job, gate, bucket, used>>

-----------------------------------------------------------------------------
(* The accept loop.                                                        *)
Waiting(c) == phase[c] = "backlog"

NoCredentials(c) == Waiting(c) /\ TurnedAway(c)

NotInAllowlist(c) == Waiting(c) /\ ~IsAllowed(Owner[c]) /\ TurnedAway(c)

OverCap(c) ==
  /\ Waiting(c) /\ IsAllowed(Owner[c])
  /\ GlobalCapReached \/ UidCapReached(Owner[c])
  /\ TurnedAway(c)

Admit(c) ==
  /\ Waiting(c) /\ IsAllowed(Owner[c])
  /\ ~GlobalCapReached /\ ~UidCapReached(Owner[c])
  /\ gate' = Admitted(Owner[c])
  /\ Goes(c, "read", NoJob)
  /\ UNCHANGED <<allowed, bucket, used>>

Accept(c) == NotInAllowlist(c) \/ OverCap(c) \/ Admit(c)

-----------------------------------------------------------------------------
(***************************************************************************)
(* The connection loop.  A whole frame is read, parsed and charged for     *)
(* before the next await.                                                  *)
(***************************************************************************)
Arrives(c) == phase[c] = "read"

(* Variant: each byte that comes starts the read's clock again.            *)
AgeRestarted(c) == [age EXCEPT ![c] = 0]

AgeInFrame(c) == age

(* Some bytes, not the whole frame: read_exact goes on waiting.            *)
Dribble(c) ==
  /\ Arrives(c)
  /\ partly' = [partly EXCEPT ![c] = TRUE]
  /\ age' = AgeInFrame(c)
  /\ UNCHANGED <<allowed, phase, job, gate, bucket, used>>

Unreadable(c, f) ==
  /\ Arrives(c) /\ ~Readable(f)
  /\ Ends(c)
  /\ UNCHANGED <<allowed, bucket, used>>

(* An error in the envelope is answered, and charged for.                  *)
Malformed(c, f) ==
  /\ Arrives(c) /\ Readable(f) /\ ~WellFormed(f)
  /\ Take(Owner[c])
  /\ Goes(c, "write", NoJob)
  /\ UNCHANGED <<allowed, gate>>

MalformedOverBudget(c, f) ==
  /\ Arrives(c) /\ Readable(f) /\ ~WellFormed(f)
  /\ Refuse(Owner[c])
  /\ Ends(c)
  /\ UNCHANGED allowed

(* rate_budget_exhausted: the connection survives.                         *)
OverBudget(c, f) ==
  /\ Arrives(c) /\ Readable(f) /\ WellFormed(f)
  /\ Refuse(Owner[c])
  /\ Goes(c, "write", NoJob)
  /\ UNCHANGED <<allowed, gate>>

Dispatch(c, f) ==
  /\ Arrives(c) /\ Readable(f) /\ WellFormed(f)
  /\ Take(Owner[c])
  /\ Goes(c, "dispatch", [sent |-> f.shape, read |-> ReadAs(f),
                          uid |-> AttestationFor(Owner[c])])
  /\ UNCHANGED <<allowed, gate>>

Dispatched(c) ==
  /\ phase[c] = "dispatch"
  /\ Goes(c, "write", NoJob)
  /\ UNCHANGED <<allowed, gate, bucket, used>>

(* The peer has taken the whole reply.                                     *)
Replied(c) ==
  /\ phase[c] = "write"
  /\ Goes(c, "read", NoJob)
  /\ UNCHANGED <<allowed, gate, bucket, used>>

(* The peer has hung up: end of file (in a header it counts as a clean     *)
(* one), a frame cut short, or a broken pipe.                              *)
PeerLost(c) ==
  /\ phase[c] \in {"read", "write"}
  /\ Ends(c)
  /\ UNCHANGED <<allowed, bucket, used>>

DeadlinePassed(c) ==
  \/ phase[c] = "read" /\ age[c] >= ReadIdle
  \/ phase[c] = "write" /\ age[c] >= WriteIdle

Elapse(c) ==
  /\ DeadlinePassed(c)
  /\ Ends(c)
  /\ UNCHANGED <<allowed, bucket, used>>

Tick ==
  /\ age' = [c \in Conn |->
       IF phase[c] \in {"read", "write"} /\ ~DeadlinePassed(c) THEN age[c] + 1
       ELSE age[c]]
  /\ bucket' = [u \in Uid |->
       [bucket[u] EXCEPT !.idle = AtMost(@ + 1, 2 * Second)]]
  /\ used' = [u \in Uid |-> [k \in 0..Window |->
       IF k = 0 THEN 0 ELSE used[u][k - 1]]]
  /\ UNCHANGED <<allowed, phase, partly, job, gate>>

-----------------------------------------------------------------------------
Serve(c) ==
  \/ \E f \in Frame : \/ Unreadable(c, f) \/ Malformed(c, f)
                      \/ MalformedOverBudget(c, f)
                      \/ OverBudget(c, f) \/ Dispatch(c, f)
  \/ Dribble(c) \/ Dispatched(c) \/ Replied(c) \/ PeerLost(c) \/ Elapse(c)

Next ==
  \/ \E c \in Conn : \/ Connect(c) \/ NoCredentials(c) \/ Accept(c) \/ Serve(c)
  \/ Tick

Spec == Init /\ [][Next]_vars

(* Time passes, the accept loop runs, a deadline that passed is seen, and  *)
(* a dispatched request ends (AgentDaemon, RequestsEnd).  Nothing is asked *)
(* of the peers.                                                           *)
FairSpec ==
  /\ Spec /\ WF_vars(Tick)
  /\ \A c \in Conn : /\ WF_vars(Accept(c)) /\ WF_vars(Dispatched(c))
                     /\ WF_vars(Elapse(c))

-----------------------------------------------------------------------------
LiveOf(u) == {c \in Live : Owner[c] = u}

(* The two counters of ConnGate (limits.rs) say how many connections there *)
(* are and whose, on every way in and out of a connection's task, so that  *)
(* neither cap is passed and no slot is lost.                              *)
GateMatches ==
  /\ gate.global = Cardinality(Live) /\ gate.global <= MaxConnections
  /\ \A u \in Uid : /\ gate.perUid[u] = Cardinality(LiveOf(u))
                    /\ gate.perUid[u] <= MaxConnectionsPerUid

(* However its connections come and go and whatever they send, a uid is    *)
(* granted no more in k ticks than the burst and what k ticks bring        *)
(* (RateLimiter, limits.rs).                                               *)
RateBounded ==
  \A u \in Uid, k \in 0..Window :
    Second * used[u][k] <= Burst + RatePerUid * k

(* A uid's requests are refused for their rate only after a whole burst of *)
(* its own within two seconds: other uids' requests and malformed          *)
(* envelopes, and its own earlier refusals, cost it nothing.               *)
OnlyFloodersThrottled ==
  \A u \in Uid : ~HasToken(u) => Second * (used[u][2 * Second] + 1) > Burst

(* What is dispatched was read in the shape its client wrote it in         *)
(* (parse_envelope_with_v0_shim, server.rs) and carries the uid of its     *)
(* sender exactly where the policy has checked that uid (peer_auth.rs).    *)
JobsHonest ==
  \A c \in Conn : phase[c] = "dispatch" =>
    /\ job[c].read = job[c].sent
    /\ job[c].uid = IF Owner[c] \in allowed THEN Owner[c] ELSE None
    /\ allowed # {} => Owner[c] \in allowed

(* No peer keeps a task, and with it a slot of the gate, in one place by   *)
(* sending nothing, sending slowly or not taking its reply; and whoever    *)
(* connects is let in or turned away.                                      *)
ConnectionsMove ==
  \A c \in Conn : \/ []<>(phase[c] = "closed")
                  \/ []<><<phase'[c] # phase[c]>>_phase
=============================================================================
