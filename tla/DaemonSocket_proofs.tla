------------------------ MODULE DaemonSocket_proofs ------------------------
(***************************************************************************)
(* Proofs about DaemonSocket, for any connections, uids, allowlists, caps, *)
(* rates and deadlines.                                                    *)
(***************************************************************************)
EXTENDS DaemonSocket, FiniteSetTheorems, TLAPS

USE LimitsAssumption, SocketAssumption DEF LimitsValid

-----------------------------------------------------------------------------
(* The bucket's arithmetic: what is available is between nothing and the   *)
(* burst, ...                                                              *)
LEMMA TokensRange ==
  ASSUME TypeOK, NEW u \in Uid
  PROVE  /\ Burst \in Nat /\ Second <= Burst
         /\ bucket[u].tokens \in 0..Burst /\ bucket[u].idle \in 0..(2 * Second)
         /\ bucket[u].idle * RatePerUid \in Nat
         /\ Tokens(u) \in 0..Burst
<1>1. RatePerUid * Second \in Nat /\ RatePerUid * Second >= Second
  OBVIOUS
<1>2. Burst = 2 * (RatePerUid * Second)
  BY DEF Burst
<1>3. Burst \in Nat /\ Second <= Burst
  BY <1>1, <1>2
<1>4. bucket[u].tokens \in 0..Burst /\ bucket[u].idle \in 0..(2 * Second)
  BY DEF TypeOK
<1>5. bucket[u].idle * RatePerUid \in Nat
  BY <1>4
<1> QED BY <1>3, <1>4, <1>5 DEF Tokens, AtMost

(* ... a second brings it RatePerUid more, up to the burst, ...            *)
LEMMA TokensTick ==
  ASSUME TypeOK, Tick, NEW u \in Uid
  PROVE  Tokens(u)' = AtMost(Tokens(u) + RatePerUid, Burst)
<1> DEFINE t == bucket[u].tokens
           i == bucket[u].idle
<1>1. t \in 0..Burst /\ i \in 0..(2 * Second) /\ Burst \in Nat /\ i * RatePerUid \in Nat
  BY TokensRange
<1>2. bucket'[u].tokens = t /\ bucket'[u].idle = AtMost(i + 1, 2 * Second)
  BY DEF Tick, TypeOK
<1>3. CASE i < 2 * Second
  <2>1. bucket'[u].idle = i + 1
    BY <1>1, <1>2, <1>3 DEF AtMost
  <2>2. (i + 1) * RatePerUid = i * RatePerUid + RatePerUid
    BY <1>1
  <2> QED BY <1>1, <1>2, <2>1, <2>2 DEF Tokens, AtMost
<1>4. CASE i = 2 * Second
  <2>1. bucket'[u].idle = i
    BY <1>1, <1>2, <1>4 DEF AtMost
  <2>2. i * RatePerUid = Burst
    BY <1>4 DEF Burst
  <2> QED BY <1>1, <1>2, <2>1, <2>2 DEF Tokens, AtMost
<1> QED BY <1>1, <1>3, <1>4

(* ... a request that is granted costs Second of it, one that is refused   *)
(* costs nothing, and nobody else's bucket changes.                        *)
LEMMA TokensDebited ==
  ASSUME TypeOK, NEW u \in Uid, NEW cost \in 0..Tokens(u), bucket' = Debited(u, cost)
  PROVE  /\ Tokens(u)' = Tokens(u) - cost
         /\ \A v \in Uid \ {u} : Tokens(v)' = Tokens(v)
         /\ bucket' \in [Uid -> [tokens : 0..Burst, idle : 0..(2 * Second)]]
<1>1. Burst \in Nat /\ Tokens(u) \in 0..Burst
  BY TokensRange
<1>2. Tokens(u) - cost \in 0..Burst
  BY <1>1
<1>3. bucket'[u] = [tokens |-> Tokens(u) - cost, idle |-> 0]
      /\ \A v \in Uid \ {u} : bucket'[v] = bucket[v]
  BY DEF Debited, TypeOK
<1>4. Tokens(u)' = AtMost(Tokens(u) - cost + 0 * RatePerUid, Burst)
  BY <1>3 DEF Tokens
<1>5. Tokens(u)' = Tokens(u) - cost
  BY <1>1, <1>2, <1>4 DEF AtMost
<1>6. \A v \in Uid \ {u} : Tokens(v)' = Tokens(v)
  BY <1>3 DEF Tokens
<1>7. bucket' \in [Uid -> [tokens : 0..Burst, idle : 0..(2 * Second)]]
  BY <1>2 DEF Debited, TypeOK
<1> QED BY <1>5, <1>6, <1>7

(* Every step keeps the types.                                             *)
LEMMA TypeStep ==
  ASSUME TypeOK, [Next]_vars
  PROVE  TypeOK'
<1>a. ASSUME NEW u \in Uid
     PROVE  /\ Admitted(u) \in [global : Nat, perUid : [Uid -> Nat]]
            /\ Released(u) \in [global : Nat, perUid : [Uid -> Nat]]
  <2>1. gate.global \in Nat /\ gate.perUid \in [Uid -> Nat] /\ gate.perUid[u] \in Nat
    BY DEF TypeOK
  <2>2. gate.global + 1 \in Nat /\ [gate.perUid EXCEPT ![u] = @ + 1] \in [Uid -> Nat]
    BY <2>1
  <2>3. \A n \in Nat : Less(n) \in Nat
    BY DEF Less
  <2>4. Less(gate.global) \in Nat /\ [gate.perUid EXCEPT ![u] = Less(@)] \in [Uid -> Nat]
    BY <2>1, <2>3
  <2> QED BY <2>2, <2>4 DEF Admitted, Released
<1>b. ASSUME NEW u \in Uid, Take(u) \/ Refuse(u)
     PROVE  /\ bucket' \in [Uid -> [tokens : 0..Burst, idle : 0..(2 * Second)]]
            /\ used' \in [Uid -> [0..Window -> Nat]]
  <2>1. Tokens(u) \in Nat
    BY TokensRange
  <2>2. Take(u) => Second \in 0..Tokens(u)
    BY <2>1 DEF Take, HasToken, BucketOf
  <2>3. bucket' \in [Uid -> [tokens : 0..Burst, idle : 0..(2 * Second)]]
    BY <1>b, <2>1, <2>2, TokensDebited DEF Take, Refuse, BucketOf
  <2>4. used' \in [Uid -> [0..Window -> Nat]]
    <3>1. used \in [Uid -> [0..Window -> Nat]]
      BY DEF TypeOK
    <3>2. [k \in 0..Window |-> used[u][k] + 1] \in [0..Window -> Nat]
      BY <3>1
    <3>3. CASE Take(u)
      <4>1. used' = [used EXCEPT ![u] = [k \in 0..Window |-> used[u][k] + 1]]
        BY <3>3 DEF Take
      <4> QED BY <3>1, <3>2, <4>1
    <3>4. CASE Refuse(u)
      BY <3>1, <3>4 DEF Refuse
    <3> QED BY <1>b, <3>3, <3>4
  <2> QED BY <2>3, <2>4
<1> USE DEF TypeOK, NoJob
<1>1. ASSUME NEW c \in Conn, Connect(c)
     PROVE  TypeOK'
  BY <1>1 DEF Connect
<1>2. ASSUME NEW c \in Conn, NoCredentials(c)
     PROVE  TypeOK'
  BY <1>2 DEF NoCredentials, Waiting, TurnedAway, Goes
<1>3. ASSUME NEW c \in Conn, NotInAllowlist(c)
     PROVE  TypeOK'
  BY <1>3 DEF NotInAllowlist, Waiting, TurnedAway, Goes
<1>4. ASSUME NEW c \in Conn, OverCap(c)
     PROVE  TypeOK'
  BY <1>4 DEF OverCap, Waiting, TurnedAway, Goes
<1>5. ASSUME NEW c \in Conn, Admit(c)
     PROVE  TypeOK'
  BY <1>5, <1>a DEF Admit, Waiting, Goes
<1>6. ASSUME NEW c \in Conn, NEW f \in Frame, Unreadable(c, f)
     PROVE  TypeOK'
  BY <1>6, <1>a DEF Unreadable, Arrives, Ends, Goes
<1>7. ASSUME NEW c \in Conn, NEW f \in Frame, Malformed(c, f)
     PROVE  TypeOK'
  BY <1>7, <1>b DEF Malformed, Goes
<1>8. ASSUME NEW c \in Conn, NEW f \in Frame, MalformedOverBudget(c, f)
     PROVE  TypeOK'
  BY <1>8, <1>a, <1>b DEF MalformedOverBudget, Ends, Goes
<1>9. ASSUME NEW c \in Conn, NEW f \in Frame, OverBudget(c, f)
     PROVE  TypeOK'
  BY <1>9, <1>b DEF OverBudget, Goes
<1>10. ASSUME NEW c \in Conn, NEW f \in Frame, Dispatch(c, f)
     PROVE  TypeOK'
  <2>1. /\ bucket' \in [Uid -> [tokens : 0..Burst, idle : 0..(2 * Second)]]
        /\ used' \in [Uid -> [0..Window -> Nat]]
    BY <1>10, <1>b DEF Dispatch
  <2>2. f.shape \in Shape /\ ReadAs(f) \in {"v0", "v1"}
    BY DEF Frame, Envelopes, Shape, ReadAs
  <2>3. AttestationFor(Owner[c]) \in Uid \cup {None}
    BY DEF AttestationFor
  <2> QED BY <1>10, <2>1, <2>2, <2>3 DEF Dispatch, Goes
<1>11. ASSUME NEW c \in Conn, Dribble(c)
     PROVE  TypeOK'
  BY <1>11 DEF Dribble, Arrives, AgeInFrame
<1>12. ASSUME NEW c \in Conn, Dispatched(c)
     PROVE  TypeOK'
  BY <1>12 DEF Dispatched, Goes
<1>13. ASSUME NEW c \in Conn, Replied(c)
     PROVE  TypeOK'
  BY <1>13 DEF Replied, Goes
<1>14. ASSUME NEW c \in Conn, PeerLost(c)
     PROVE  TypeOK'
  BY <1>14, <1>a DEF PeerLost, Ends, Goes
<1>15. ASSUME NEW c \in Conn, Elapse(c)
     PROVE  TypeOK'
  BY <1>15, <1>a DEF Elapse, DeadlinePassed, Ends, Goes
<1>16. CASE Tick
  <2>1. bucket' \in [Uid -> [tokens : 0..Burst, idle : 0..(2 * Second)]]
    <3>1. bucket \in [Uid -> [tokens : 0..Burst, idle : 0..(2 * Second)]]
      OBVIOUS
    <3>2. \A n \in 0..(2 * Second) : AtMost(n + 1, 2 * Second) \in 0..(2 * Second)
      BY DEF AtMost
    <3> HIDE DEF TypeOK
    <3>3. ASSUME NEW u \in Uid
         PROVE  [bucket[u] EXCEPT !.idle = AtMost(@ + 1, 2 * Second)]
                  \in [tokens : 0..Burst, idle : 0..(2 * Second)]
      BY <3>1, <3>2
    <3> QED BY <1>16, <3>3 DEF Tick
  <2>2. used' \in [Uid -> [0..Window -> Nat]]
    <3>1. used \in [Uid -> [0..Window -> Nat]]
      OBVIOUS
    <3> HIDE DEF TypeOK
    <3>2. ASSUME NEW u \in Uid, NEW k \in 0..Window
         PROVE  (IF k = 0 THEN 0 ELSE used[u][k - 1]) \in Nat
      BY <3>1
    <3>3. ASSUME NEW u \in Uid
         PROVE  [k \in 0..Window |-> IF k = 0 THEN 0 ELSE used[u][k - 1]] \in [0..Window -> Nat]
      BY <3>2
    <3> QED BY <1>16, <3>3 DEF Tick
  <2>3. age' \in [Conn -> Nat]
    <3>1. age \in [Conn -> Nat]
      OBVIOUS
    <3> HIDE DEF TypeOK
    <3>2. \A c \in Conn : age[c] \in Nat /\ age[c] + 1 \in Nat
      BY <3>1
    <3> QED BY <1>16, <3>2 DEF Tick
  <2> QED BY <1>16, <2>1, <2>2, <2>3 DEF Tick
<1>17. CASE UNCHANGED vars
  BY <1>17 DEF vars
<1> QED
  BY <1>1, <1>2, <1>3, <1>4, <1>5, <1>6, <1>7, <1>8, <1>9, <1>10, <1>11, <1>12,
     <1>13, <1>14, <1>15, <1>16, <1>17 DEF Next, Accept, Serve

-----------------------------------------------------------------------------
(* Only who the policy lets in is served, and what is dispatched is his.   *)
Served ==
  \A c \in Conn : phase[c] \in {"read", "dispatch", "write"} => IsAllowed(Owner[c])

(* A well-formed frame is read in the shape it was sent in.                *)
LEMMA ReadAsSent ==
  ASSUME NEW f \in Frame, WellFormed(f)
  PROVE  ReadAs(f) = f.shape
<1>1. f.shape # "broken" /\ Version(f) \in {0, 1}
  BY DEF WellFormed, PROTOCOL_VERSION
<1>2. PICK e \in Envelopes : f.version = e[1] /\ f.shape = e[2]
  BY <1>1 DEF Frame
<1>3. \/ f.version = -2 /\ f.shape = "v0"
      \/ f.version = 0 /\ f.shape = "v0"
      \/ f.version = 1 /\ f.shape = "v1"
      \/ f.version = -1 /\ f.shape = "v1"
      \/ f.version \in {2, 65535, 65536, 65537}
  <2>1. CASE e \in {2, 65535, 65536, 65537} \X {"later"}
    BY <1>2, <2>1
  <2>2. CASE e \in {<<-2, "v0">>, <<0, "v0">>, <<1, "v1">>, <<-1, "v1">>}
    BY <1>2, <2>2
  <2>3. CASE e \in {<<-2, "broken">>, <<1, "broken">>}
    BY <1>1, <1>2, <2>3
  <2> QED BY <2>1, <2>2, <2>3 DEF Envelopes, NoField, NotInteger
<1>4. ASSUME f.version \in {-2, 0}, f.shape = "v0" PROVE ReadAs(f) = f.shape
  <2>1. Version(f) = 0
    <3>1. CASE f.version = -2
      BY <3>1, SMT DEF Version, NoField
    <3>2. CASE f.version = 0
      BY <3>2, SMT DEF Version, NoField
    <3> QED BY <1>4, <3>1, <3>2
  <2> QED BY <1>4, <2>1 DEF ReadAs
<1>5. ASSUME f.version = 1, f.shape = "v1" PROVE ReadAs(f) = f.shape
  <2>1. Version(f) = 1
    BY <1>5, SMT DEF Version, NoField
  <2> QED BY <1>5, <2>1 DEF ReadAs
<1>6. f.version # -1
  <2>1. ASSUME f.version = -1 PROVE Version(f) = -1
    BY <2>1, SMTT(30) DEF Version, NoField, NotInteger
  <2> QED BY <1>1, <2>1
<1>7. f.version \notin {2, 65535, 65536, 65537}
  <2>1. ASSUME f.version \in {2, 65535, 65536, 65537} PROVE Version(f) \in {f.version, -1}
    BY <2>1, SMTT(30) DEF Version, NoField, NotInteger
  <2>2. ASSUME f.version \in {2, 65535, 65536, 65537} PROVE f.version \notin {0, 1}
    BY <2>2, SMTT(30)
  <2> QED BY <1>1, <2>1, <2>2, SMTT(30)
<1> QED BY <1>3, <1>4, <1>5, <1>6, <1>7

(* What holds of a connection that stands at p with job j.                 *)
InOrderAt(c, p, j) ==
  /\ p \in {"read", "dispatch", "write"} => IsAllowed(Owner[c])
  /\ p = "dispatch" => /\ j.read = j.sent
                       /\ j.uid = IF Owner[c] \in allowed THEN Owner[c] ELSE None
                       /\ allowed # {} => Owner[c] \in allowed

MovesTo(c, p, j) ==
  /\ allowed' = allowed
  /\ phase' = [phase EXCEPT ![c] = p]
  /\ job' = [job EXCEPT ![c] = j]

LEMMA MoveKeeps ==
  ASSUME TypeOK, Served, JobsHonest,
         NEW c \in Conn, NEW p, NEW j, MovesTo(c, p, j), InOrderAt(c, p, j)
  PROVE  Served' /\ JobsHonest'
<1>1. phase \in [Conn -> {"closed", "backlog", "read", "dispatch", "write"}] /\ DOMAIN job = Conn
  BY DEF TypeOK
<1>2. /\ phase'[c] = p /\ job'[c] = j
      /\ \A d \in Conn \ {c} : phase'[d] = phase[d] /\ job'[d] = job[d]
  BY <1>1 DEF MovesTo
<1>3. ASSUME NEW d \in Conn PROVE InOrderAt(d, phase[d], job[d])
  BY DEF Served, JobsHonest, InOrderAt
<1>4. ASSUME NEW d \in Conn PROVE InOrderAt(d, phase'[d], job'[d])
  BY <1>2, <1>3
<1>5. allowed' = allowed
  BY DEF MovesTo
<1>6. Served'
  BY <1>4, <1>5 DEF Served, InOrderAt, IsAllowed
<1>7. JobsHonest'
  BY <1>4, <1>5 DEF JobsHonest, InOrderAt
<1> QED BY <1>6, <1>7

LEMMA JobsStep ==
  ASSUME TypeOK, Served, JobsHonest, [Next]_vars
  PROVE  Served' /\ JobsHonest'
<1>a. \A c \in Conn : phase[c] \in {"read", "dispatch", "write"} => IsAllowed(Owner[c])
  BY DEF Served
<1>b. ASSUME NEW c \in Conn, NEW p \in {"closed", "backlog"}, NEW j, MovesTo(c, p, j)
      PROVE  Served' /\ JobsHonest'
  BY <1>b, MoveKeeps DEF InOrderAt
<1>c. ASSUME NEW c \in Conn, NEW p \in {"read", "write"}, NEW j, MovesTo(c, p, j), IsAllowed(Owner[c])
      PROVE  Served' /\ JobsHonest'
  BY <1>c, MoveKeeps DEF InOrderAt
<1>d. CASE UNCHANGED <<allowed, phase, job>>
  BY <1>d DEF Served, JobsHonest, IsAllowed
<1>1. ASSUME NEW c \in Conn, Connect(c)
     PROVE  Served' /\ JobsHonest'
  <2>1. job' = [job EXCEPT ![c] = job[c]]
    BY <1>1 DEF Connect, TypeOK
  <2>2. MovesTo(c, "backlog", job[c])
    BY <1>1, <2>1 DEF Connect, MovesTo
  <2> QED BY <1>b, <2>2
<1>2. ASSUME NEW c \in Conn, TurnedAway(c)
     PROVE  Served' /\ JobsHonest'
  <2>1. MovesTo(c, "closed", NoJob)
    BY <1>2 DEF TurnedAway, Goes, MovesTo
  <2> QED BY <1>b, <2>1
<1>3. ASSUME NEW c \in Conn, Ends(c), allowed' = allowed
     PROVE  Served' /\ JobsHonest'
  <2>1. MovesTo(c, "closed", NoJob)
    BY <1>3 DEF Ends, Goes, MovesTo
  <2> QED BY <1>b, <2>1
<1>4. ASSUME NEW c \in Conn, NEW p \in {"read", "write"}, Goes(c, p, NoJob), allowed' = allowed,
             IsAllowed(Owner[c])
     PROVE  Served' /\ JobsHonest'
  <2>1. MovesTo(c, p, NoJob)
    BY <1>4 DEF Goes, MovesTo
  <2> QED BY <1>c, <1>4, <2>1
<1>5. ASSUME NEW c \in Conn, Accept(c) \/ NoCredentials(c)
     PROVE  Served' /\ JobsHonest'
  BY <1>2, <1>4, <1>5 DEF Accept, NoCredentials, NotInAllowlist, OverCap, Admit
<1>6. ASSUME NEW c \in Conn, NEW f \in Frame, Unreadable(c, f) \/ MalformedOverBudget(c, f)
     PROVE  Served' /\ JobsHonest'
  BY <1>3, <1>6 DEF Unreadable, MalformedOverBudget
<1>7. ASSUME NEW c \in Conn, NEW f \in Frame, Malformed(c, f) \/ OverBudget(c, f)
     PROVE  Served' /\ JobsHonest'
  BY <1>a, <1>4, <1>7 DEF Malformed, OverBudget, Arrives
<1>8. ASSUME NEW c \in Conn, NEW f \in Frame, Dispatch(c, f)
     PROVE  Served' /\ JobsHonest'
  <2> DEFINE j == [sent |-> f.shape, read |-> ReadAs(f), uid |-> AttestationFor(Owner[c])]
  <2>1. MovesTo(c, "dispatch", j)
    BY <1>8 DEF Dispatch, Goes, MovesTo
  <2>2. IsAllowed(Owner[c])
    BY <1>a, <1>8 DEF Dispatch, Arrives
  <2>3. j.read = j.sent
    BY <1>8, ReadAsSent DEF Dispatch
  <2>4. /\ j.uid = IF Owner[c] \in allowed THEN Owner[c] ELSE None
        /\ allowed # {} => Owner[c] \in allowed
    BY <2>2 DEF AttestationFor, IsAllowed
  <2>5. InOrderAt(c, "dispatch", j)
    BY <2>2, <2>3, <2>4 DEF InOrderAt
  <2> HIDE DEF j
  <2> QED BY <2>1, <2>5, MoveKeeps
<1>9. ASSUME NEW c \in Conn, Dispatched(c) \/ Replied(c)
     PROVE  Served' /\ JobsHonest'
  BY <1>a, <1>4, <1>9 DEF Dispatched, Replied
<1>10. ASSUME NEW c \in Conn, PeerLost(c) \/ Elapse(c)
     PROVE  Served' /\ JobsHonest'
  BY <1>3, <1>10 DEF PeerLost, Elapse
<1>11. (\E c \in Conn : Dribble(c)) \/ Tick \/ UNCHANGED vars => UNCHANGED <<allowed, phase, job>>
  BY DEF Dribble, Tick, vars
<1> QED
  BY <1>d, <1>1, <1>5, <1>6, <1>7, <1>8, <1>9, <1>10, <1>11 DEF Next, Serve

-----------------------------------------------------------------------------
(* The gate's books.                                                       *)
Books ==
  /\ gate.global = Cardinality(Live)
  /\ \A u \in Uid : gate.perUid[u] = Cardinality(LiveOf(u))

Caps ==
  /\ gate.global <= MaxConnections
  /\ \A u \in Uid : gate.perUid[u] <= MaxConnectionsPerUid

LEMMA LiveFinite ==
  /\ IsFiniteSet(Live) /\ Cardinality(Live) \in Nat
  /\ \A u \in Uid : IsFiniteSet(LiveOf(u)) /\ Cardinality(LiveOf(u)) \in Nat
<1>1. Live \in SUBSET Conn /\ \A u \in Uid : LiveOf(u) \in SUBSET Conn
  BY DEF Live, LiveOf
<1> QED BY <1>1, FS_Subset, FS_CardinalityType

(* Who is let in is counted once, in both books, ...                       *)
LEMMA CountedIn ==
  ASSUME TypeOK, Books, Caps, NEW c \in Conn, c \notin Live, Live' = Live \cup {c},
         ~GlobalCapReached, ~UidCapReached(Owner[c]), gate' = Admitted(Owner[c])
  PROVE  Books' /\ Caps'
<1>1. Owner[c] \in Uid /\ gate \in [global : Nat, perUid : [Uid -> Nat]]
  BY DEF TypeOK
<1>2. gate'.global = gate.global + 1
      /\ \A u \in Uid : gate'.perUid[u] = IF u = Owner[c] THEN gate.perUid[u] + 1
                                                         ELSE gate.perUid[u]
  BY <1>1 DEF Admitted
<1>3. Cardinality(Live') = Cardinality(Live) + 1
  BY LiveFinite, FS_AddElement
<1>4. ASSUME NEW u \in Uid
     PROVE  Cardinality(LiveOf(u)') = IF u = Owner[c] THEN Cardinality(LiveOf(u)) + 1
                                                      ELSE Cardinality(LiveOf(u))
  <2>1. LiveOf(u)' = IF u = Owner[c] THEN LiveOf(u) \cup {c} ELSE LiveOf(u)
    BY DEF LiveOf
  <2>2. c \notin LiveOf(u)
    BY DEF LiveOf
  <2> QED BY <2>1, <2>2, LiveFinite, FS_AddElement
<1>5. Books'
  BY <1>2, <1>3, <1>4 DEF Books
<1>6. Caps'
  BY <1>1, <1>2 DEF Caps, GlobalCapReached, UidCapReached
<1> QED BY <1>5, <1>6

(* ... and who leaves is struck out of both.                               *)
LEMMA CountedOut ==
  ASSUME TypeOK, Books, Caps, NEW c \in Live, Live' = Live \ {c},
         gate' = Released(Owner[c])
  PROVE  Books' /\ Caps'
<1>1. Owner[c] \in Uid /\ gate \in [global : Nat, perUid : [Uid -> Nat]]
  BY DEF TypeOK, Live
<1>2. c \in LiveOf(Owner[c])
  BY DEF LiveOf
<1>3. gate.global >= 1 /\ gate.perUid[Owner[c]] >= 1
  BY <1>1, <1>2, LiveFinite, FS_EmptySet DEF Books
<1>4. gate'.global = gate.global - 1
      /\ \A u \in Uid : gate'.perUid[u] = IF u = Owner[c] THEN gate.perUid[u] - 1
                                                         ELSE gate.perUid[u]
  BY <1>1, <1>3 DEF Released, Less
<1>5. Cardinality(Live') = Cardinality(Live) - 1
  BY LiveFinite, FS_RemoveElement
<1>6. ASSUME NEW u \in Uid
     PROVE  Cardinality(LiveOf(u)') = IF u = Owner[c] THEN Cardinality(LiveOf(u)) - 1
                                                      ELSE Cardinality(LiveOf(u))
  <2>1. LiveOf(u)' = IF u = Owner[c] THEN LiveOf(u) \ {c} ELSE LiveOf(u)
    BY DEF LiveOf
  <2>2. CASE u = Owner[c]
    <3>1. IsFiniteSet(LiveOf(u)) /\ c \in LiveOf(u)
      BY <1>2, <2>2, LiveFinite
    <3>2. Cardinality(LiveOf(u) \ {c}) = Cardinality(LiveOf(u)) - 1
      <4> DEFINE S == LiveOf(u)
      <4>1. IsFiniteSet(S) /\ c \in S
        BY <3>1
      <4> HIDE DEF S
      <4>2. Cardinality(S \ {c}) = Cardinality(S) - 1
        BY <4>1, FS_RemoveElement
      <4> QED BY <4>2 DEF S
    <3> QED BY <2>1, <2>2, <3>2
  <2>3. CASE u # Owner[c]
    BY <2>1, <2>3
  <2> QED BY <2>2, <2>3
<1>7. Books'
  BY <1>4, <1>5, <1>6 DEF Books
<1>8. Caps'
  BY <1>1, <1>4 DEF Caps
<1> QED BY <1>7, <1>8

LEMMA GateStep ==
  ASSUME TypeOK, Books, Caps, [Next]_vars
  PROVE  Books' /\ Caps'
<1>a. ASSUME Live' = Live, gate' = gate
     PROVE  Books' /\ Caps'
  BY <1>a DEF Books, Caps, LiveOf
<1>1. ASSUME NEW c \in Conn, Connect(c)
     PROVE  Books' /\ Caps'
  BY <1>1, <1>a DEF Connect, Live, TypeOK
<1>2. ASSUME NEW c \in Conn, NoCredentials(c)
     PROVE  Books' /\ Caps'
  BY <1>2, <1>a DEF NoCredentials, Waiting, TurnedAway, Goes, Live, TypeOK
<1>3. ASSUME NEW c \in Conn, NotInAllowlist(c)
     PROVE  Books' /\ Caps'
  BY <1>3, <1>a DEF NotInAllowlist, Waiting, TurnedAway, Goes, Live, TypeOK
<1>4. ASSUME NEW c \in Conn, OverCap(c)
     PROVE  Books' /\ Caps'
  BY <1>4, <1>a DEF OverCap, Waiting, TurnedAway, Goes, Live, TypeOK
<1>5. ASSUME NEW c \in Conn, Admit(c)
     PROVE  Books' /\ Caps'
  <2>1. c \notin Live /\ Live' = Live \cup {c}
    BY <1>5 DEF Admit, Waiting, Goes, Live, TypeOK
  <2> QED BY <1>5, <2>1, CountedIn DEF Admit
<1>6. ASSUME NEW c \in Conn, NEW f \in Frame, Unreadable(c, f)
     PROVE  Books' /\ Caps'
  <2>1. c \in Live /\ Live' = Live \ {c} /\ gate' = Released(Owner[c])
    BY <1>6 DEF Unreadable, Arrives, Ends, Goes, Live, TypeOK
  <2> QED BY <2>1, CountedOut
<1>7. ASSUME NEW c \in Conn, NEW f \in Frame, Malformed(c, f)
     PROVE  Books' /\ Caps'
  BY <1>7, <1>a DEF Malformed, Arrives, Take, Goes, Live, TypeOK
<1>8. ASSUME NEW c \in Conn, NEW f \in Frame, MalformedOverBudget(c, f)
     PROVE  Books' /\ Caps'
  <2>1. c \in Live /\ Live' = Live \ {c} /\ gate' = Released(Owner[c])
    BY <1>8 DEF MalformedOverBudget, Arrives, Refuse, Ends, Goes, Live, TypeOK
  <2> QED BY <2>1, CountedOut
<1>9. ASSUME NEW c \in Conn, NEW f \in Frame, OverBudget(c, f)
     PROVE  Books' /\ Caps'
  BY <1>9, <1>a DEF OverBudget, Arrives, Refuse, Goes, Live, TypeOK
<1>10. ASSUME NEW c \in Conn, NEW f \in Frame, Dispatch(c, f)
     PROVE  Books' /\ Caps'
  BY <1>10, <1>a DEF Dispatch, Arrives, Take, Goes, Live, TypeOK
<1>11. ASSUME NEW c \in Conn, Dribble(c)
     PROVE  Books' /\ Caps'
  BY <1>11, <1>a DEF Dribble, Arrives, AgeInFrame, Live, TypeOK
<1>12. ASSUME NEW c \in Conn, Dispatched(c)
     PROVE  Books' /\ Caps'
  BY <1>12, <1>a DEF Dispatched, Goes, Live, TypeOK
<1>13. ASSUME NEW c \in Conn, Replied(c)
     PROVE  Books' /\ Caps'
  BY <1>13, <1>a DEF Replied, Goes, Live, TypeOK
<1>14. ASSUME NEW c \in Conn, PeerLost(c)
     PROVE  Books' /\ Caps'
  <2>1. c \in Live /\ Live' = Live \ {c} /\ gate' = Released(Owner[c])
    BY <1>14 DEF PeerLost, Ends, Goes, Live, TypeOK
  <2> QED BY <2>1, CountedOut
<1>15. ASSUME NEW c \in Conn, Elapse(c)
     PROVE  Books' /\ Caps'
  <2>1. c \in Live /\ Live' = Live \ {c} /\ gate' = Released(Owner[c])
    BY <1>15 DEF Elapse, DeadlinePassed, Ends, Goes, Live, TypeOK
  <2> QED BY <2>1, CountedOut
<1>16. CASE Tick
  BY <1>16, <1>a DEF Tick, Live, TypeOK
<1>17. CASE UNCHANGED vars
  BY <1>17, <1>a DEF vars, Live, TypeOK
<1> QED
  BY <1>1, <1>2, <1>3, <1>4, <1>5, <1>6, <1>7, <1>8, <1>9, <1>10, <1>11, <1>12,
     <1>13, <1>14, <1>15, <1>16, <1>17 DEF Next, Accept, Serve

-----------------------------------------------------------------------------
(* What a uid was granted in the last k ticks and what its bucket still    *)
(* has are together at most the burst and what k ticks brought, and at     *)
(* least what k ticks brought, up to the burst.                            *)
Budget ==
  \A u \in Uid, k \in 0..Window :
    /\ Second * used[u][k] + Tokens(u) <= Burst + RatePerUid * k
    /\ Second * used[u][k] + Tokens(u) >= AtMost(RatePerUid * k, Burst)

(* A grant moves Second from the bucket to the history.                    *)
LEMMA BudgetTake ==
  ASSUME TypeOK, Budget, NEW u \in Uid, Take(u)
  PROVE  Budget'
<1>1. Tokens(u) \in Nat /\ Burst \in Nat
  BY TokensRange
<1>2. Second \in 0..Tokens(u) /\ bucket' = Debited(u, Second)
  BY <1>1 DEF Take, HasToken, BucketOf
<1>3. Tokens(u)' = Tokens(u) - Second /\ \A v \in Uid \ {u} : Tokens(v)' = Tokens(v)
  BY <1>2, TokensDebited
<1>4. SUFFICES ASSUME NEW v \in Uid, NEW k \in 0..Window
              PROVE  /\ Second * used'[v][k] + Tokens(v)' <= Burst + RatePerUid * k
                     /\ Second * used'[v][k] + Tokens(v)' >= AtMost(RatePerUid * k, Burst)
  BY DEF Budget, Burst
<1>5. Second * used'[v][k] + Tokens(v)' = Second * used[v][k] + Tokens(v)
  <2>1. CASE v = u
    <3>1. used'[v][k] = used[v][k] + 1 /\ used[v][k] \in Nat
      BY <2>1 DEF Take, TypeOK
    <3>2. Second * (used[v][k] + 1) = Second * used[v][k] + Second /\ Second * used[v][k] \in Nat
      BY <3>1
    <3> QED BY <1>1, <1>3, <2>1, <3>1, <3>2
  <2>2. CASE v # u
    <3>1. used'[v] = used[v]
      BY <2>2 DEF Take, TypeOK
    <3> QED BY <1>3, <2>2, <3>1
  <2> QED BY <2>1, <2>2
<1> QED BY <1>5 DEF Budget

(* A refusal moves nothing.                                                *)
LEMMA BudgetRefuse ==
  ASSUME TypeOK, Budget, NEW u \in Uid, Refuse(u)
  PROVE  Budget'
<1>1. Tokens(u) \in Nat
  BY TokensRange
<1>2. 0 \in 0..Tokens(u) /\ bucket' = Debited(u, 0) /\ used' = used
  BY <1>1 DEF Refuse, BucketOf
<1>3. Tokens(u)' = Tokens(u) - 0 /\ \A v \in Uid \ {u} : Tokens(v)' = Tokens(v)
  BY <1>2, TokensDebited
<1>4. \A v \in Uid : Tokens(v)' = Tokens(v)
  BY <1>1, <1>3
<1> QED BY <1>2, <1>4 DEF Budget, Burst

(* A tick shifts the history by one and brings RatePerUid.                 *)
LEMMA BudgetTick ==
  ASSUME TypeOK, Budget, Tick
  PROVE  Budget'
<1> SUFFICES ASSUME NEW u \in Uid, NEW k \in 0..Window
             PROVE  /\ Second * used'[u][k] + Tokens(u)' <= Burst + RatePerUid * k
                    /\ Second * used'[u][k] + Tokens(u)' >= AtMost(RatePerUid * k, Burst)
  BY DEF Budget, Burst
<1>1. Tokens(u) \in 0..Burst /\ Burst \in Nat
  BY TokensRange
<1>2. Tokens(u)' = AtMost(Tokens(u) + RatePerUid, Burst)
  BY TokensTick
<1>3. CASE k = 0
  <2>1. used'[u][k] = 0
    BY <1>3 DEF Tick, TypeOK
  <2>2. Second * 0 = 0 /\ RatePerUid * k = 0
    BY <1>3
  <2> QED BY <1>1, <1>2, <2>1, <2>2 DEF AtMost
<1>4. CASE k # 0
  <2>1. k - 1 \in 0..Window /\ used'[u][k] = used[u][k - 1] /\ used[u][k - 1] \in Nat
    <3>1. k \in Nat /\ k - 1 \in 0..Window
      BY <1>4
    <3>2. used \in [Uid -> [0..Window -> Nat]]
      BY DEF TypeOK
    <3>3. used'[u][k] = used[u][k - 1]
      BY <1>4, <3>1 DEF Tick
    <3>4. used[u][k - 1] \in Nat
      BY <3>1, <3>2
    <3> QED BY <3>1, <3>3, <3>4
  <2> DEFINE g == Second * used[u][k - 1]
             r == RatePerUid * (k - 1)
  <2>2. g \in Nat /\ r \in Nat /\ RatePerUid * k = r + RatePerUid
    BY <2>1
  <2>3. g + Tokens(u) <= Burst + r /\ g + Tokens(u) >= AtMost(r, Burst)
    BY <2>1 DEF Budget
  <2> HIDE DEF g, r
  <2>4. /\ g + AtMost(Tokens(u) + RatePerUid, Burst) <= Burst + (r + RatePerUid)
        /\ g + AtMost(Tokens(u) + RatePerUid, Burst) >= AtMost(r + RatePerUid, Burst)
    BY <1>1, <2>2, <2>3 DEF AtMost
  <2> QED BY <1>2, <2>1, <2>2, <2>4 DEF g
<1> QED BY <1>3, <1>4

LEMMA BudgetStep ==
  ASSUME TypeOK, Budget, [Next]_vars
  PROVE  Budget'
<1>a. ASSUME UNCHANGED <<bucket, used>>
     PROVE  Budget'
  BY <1>a DEF Budget, Tokens, Burst
<1>b. ASSUME NEW c \in Conn, Take(Owner[c]) \/ Refuse(Owner[c])
     PROVE  Budget'
  BY <1>b, BudgetTake, BudgetRefuse
<1>1. ASSUME NEW c \in Conn, Connect(c)
     PROVE  Budget'
  BY <1>1, <1>a DEF Connect
<1>2. ASSUME NEW c \in Conn, NoCredentials(c)
     PROVE  Budget'
  BY <1>2, <1>a DEF NoCredentials, Waiting, TurnedAway, Goes
<1>3. ASSUME NEW c \in Conn, NotInAllowlist(c)
     PROVE  Budget'
  BY <1>3, <1>a DEF NotInAllowlist, Waiting, TurnedAway, Goes
<1>4. ASSUME NEW c \in Conn, OverCap(c)
     PROVE  Budget'
  BY <1>4, <1>a DEF OverCap, Waiting, TurnedAway, Goes
<1>5. ASSUME NEW c \in Conn, Admit(c)
     PROVE  Budget'
  BY <1>5, <1>a DEF Admit, Waiting, Goes
<1>6. ASSUME NEW c \in Conn, NEW f \in Frame, Unreadable(c, f)
     PROVE  Budget'
  BY <1>6, <1>a DEF Unreadable, Arrives, Ends, Goes
<1>7. ASSUME NEW c \in Conn, NEW f \in Frame, Malformed(c, f)
     PROVE  Budget'
  BY <1>7, <1>b DEF Malformed
<1>8. ASSUME NEW c \in Conn, NEW f \in Frame, MalformedOverBudget(c, f)
     PROVE  Budget'
  BY <1>8, <1>b DEF MalformedOverBudget
<1>9. ASSUME NEW c \in Conn, NEW f \in Frame, OverBudget(c, f)
     PROVE  Budget'
  BY <1>9, <1>b DEF OverBudget
<1>10. ASSUME NEW c \in Conn, NEW f \in Frame, Dispatch(c, f)
     PROVE  Budget'
  BY <1>10, <1>b DEF Dispatch
<1>11. ASSUME NEW c \in Conn, Dribble(c)
     PROVE  Budget'
  BY <1>11, <1>a DEF Dribble, Arrives, AgeInFrame
<1>12. ASSUME NEW c \in Conn, Dispatched(c)
     PROVE  Budget'
  BY <1>12, <1>a DEF Dispatched, Goes
<1>13. ASSUME NEW c \in Conn, Replied(c)
     PROVE  Budget'
  BY <1>13, <1>a DEF Replied, Goes
<1>14. ASSUME NEW c \in Conn, PeerLost(c)
     PROVE  Budget'
  BY <1>14, <1>a DEF PeerLost, Ends, Goes
<1>15. ASSUME NEW c \in Conn, Elapse(c)
     PROVE  Budget'
  BY <1>15, <1>a DEF Elapse, DeadlinePassed, Ends, Goes
<1>16. CASE Tick
  BY <1>16, BudgetTick
<1>17. CASE UNCHANGED vars
  BY <1>17, <1>a DEF vars
<1> QED
  BY <1>1, <1>2, <1>3, <1>4, <1>5, <1>6, <1>7, <1>8, <1>9, <1>10, <1>11, <1>12,
     <1>13, <1>14, <1>15, <1>16, <1>17 DEF Next, Accept, Serve

-----------------------------------------------------------------------------
SocketInv == TypeOK /\ Served /\ JobsHonest /\ Books /\ Caps /\ Budget

LEMMA SocketInit == Init => SocketInv
<1> SUFFICES ASSUME Init PROVE SocketInv
  OBVIOUS
<1> USE DEF Init
<1>1. Burst \in Nat
  BY DEF Burst
<1>2. TypeOK
  BY <1>1 DEF TypeOK
<1>3. Served /\ JobsHonest
  BY DEF Served, JobsHonest
<1>4. Live = {} /\ \A u \in Uid : LiveOf(u) = {}
  BY DEF Live, LiveOf
<1>5. Books /\ Caps
  <2>1. Cardinality({}) = 0
    BY FS_EmptySet
  <2>2. gate.global = 0 /\ \A u \in Uid : gate.perUid[u] = 0
    OBVIOUS
  <2>3. Cardinality(Live) = 0 /\ \A u \in Uid : Cardinality(LiveOf(u)) = 0
    BY <1>4, <2>1
  <2> HIDE DEF Init
  <2> QED BY <2>2, <2>3 DEF Books, Caps
<1>6. Budget
  <2> SUFFICES ASSUME NEW u \in Uid, NEW k \in 0..Window
               PROVE  /\ Second * used[u][k] + Tokens(u) <= Burst + RatePerUid * k
                      /\ Second * used[u][k] + Tokens(u) >= AtMost(RatePerUid * k, Burst)
    BY DEF Budget
  <2>1. Second * used[u][k] = 0 /\ 0 * RatePerUid = 0 /\ RatePerUid * k \in Nat
    OBVIOUS
  <2>2. Tokens(u) = Burst
    BY <1>1, <2>1 DEF Tokens, AtMost
  <2> QED BY <1>1, <2>1, <2>2 DEF AtMost
<1> QED BY <1>2, <1>3, <1>5, <1>6 DEF SocketInv

(***************************************************************************)
(* SocketInv is an invariant of the socket.                                *)
(***************************************************************************)
THEOREM SocketInvariant == Spec => []SocketInv
<1>1. SocketInv /\ [Next]_vars => SocketInv'
  BY TypeStep, JobsStep, GateStep, BudgetStep DEF SocketInv
<1> QED BY <1>1, SocketInit, PTL DEF Spec

(***************************************************************************)
(* Type correctness.                                                       *)
(***************************************************************************)
THEOREM SocketTypeCorrect == Spec => []TypeOK
<1>1. SocketInv => TypeOK
  BY DEF SocketInv
<1> QED BY <1>1, SocketInvariant, PTL

(***************************************************************************)
(* ConnGate's counters are the connections there are, in all and of each   *)
(* uid, and neither passes its cap (limits.rs).                            *)
(***************************************************************************)
THEOREM GateCountsConnections == Spec => []GateMatches
<1>1. SocketInv => GateMatches
  BY DEF SocketInv, Books, Caps, GateMatches
<1> QED BY <1>1, SocketInvariant, PTL

(***************************************************************************)
(* No uid is granted more in any k ticks than the burst and what k ticks   *)
(* bring (RateLimiter, limits.rs).                                         *)
(***************************************************************************)
THEOREM RateNeverExceeded == Spec => []RateBounded
<1>1. ASSUME SocketInv PROVE RateBounded
  <2> SUFFICES ASSUME NEW u \in Uid, NEW k \in 0..Window
               PROVE  Second * used[u][k] <= Burst + RatePerUid * k
    BY DEF RateBounded
  <2>1. Tokens(u) \in Nat /\ Burst \in Nat
    BY <1>1, TokensRange DEF SocketInv
  <2>2. used[u][k] \in Nat
    BY <1>1 DEF SocketInv, TypeOK
  <2>3. Second * used[u][k] \in Nat /\ RatePerUid * k \in Nat
    BY <2>2
  <2>4. Second * used[u][k] + Tokens(u) <= Burst + RatePerUid * k
    BY <1>1 DEF SocketInv, Budget
  <2> QED BY <2>1, <2>3, <2>4
<1> QED BY <1>1, SocketInvariant, PTL

(***************************************************************************)
(* A uid is refused only after a whole burst of its own within the two     *)
(* seconds in which an empty bucket fills: nothing others do, and no       *)
(* refusal, takes from it (RateLimiter, limits.rs).                        *)
(***************************************************************************)
THEOREM OthersNeverThrottle == Spec => []OnlyFloodersThrottled
<1>1. ASSUME SocketInv PROVE OnlyFloodersThrottled
  <2> SUFFICES ASSUME NEW u \in Uid, ~HasToken(u)
               PROVE  Second * (used[u][2 * Second] + 1) > Burst
    BY DEF OnlyFloodersThrottled
  <2>1. Tokens(u) \in Nat /\ Burst \in Nat
    BY <1>1, TokensRange DEF SocketInv
  <2>2. Tokens(u) < Second
    BY <2>1 DEF HasToken, BucketOf
  <2>3. 2 * Second \in 0..Window
    OBVIOUS
  <2>4. used[u][2 * Second] \in Nat
    BY <1>1, <2>3 DEF SocketInv, TypeOK
  <2>5. RatePerUid * (2 * Second) = Burst
    BY DEF Burst
  <2>6. Second * used[u][2 * Second] + Tokens(u) >= Burst
    BY <1>1, <2>1, <2>3, <2>5 DEF SocketInv, Budget, AtMost
  <2>7. Second * (used[u][2 * Second] + 1) = Second * used[u][2 * Second] + Second
        /\ Second * used[u][2 * Second] \in Nat
    BY <2>4
  <2> QED BY <2>1, <2>2, <2>6, <2>7
<1> QED BY <1>1, SocketInvariant, PTL

(***************************************************************************)
(* What is dispatched was read in the shape its client wrote it in and     *)
(* carries its sender's uid exactly where the policy has checked it        *)
(* (parse_envelope_with_v0_shim, server.rs; peer_auth.rs).                 *)
(***************************************************************************)
THEOREM DispatchHonest == Spec => []JobsHonest
<1>1. SocketInv => JobsHonest
  BY DEF SocketInv
<1> QED BY <1>1, SocketInvariant, PTL
=============================================================================
