------------------------- MODULE ClientCalls_proofs -------------------------
(***************************************************************************)
(* Proofs about ClientCalls, its fan-out of MCP requests and the diff of   *)
(* commits, for any clients, servers, trees, queue depth and bounds.       *)
(***************************************************************************)
EXTENDS ClientCalls, FiniteSetTheorems, WellFoundedInduction, TLAPS

USE FanoutAssumption

-----------------------------------------------------------------------------
(***************************************************************************)
(* Batches of requests: the i-th is in batch (i - 1) \div n.               *)
(***************************************************************************)
LEMMA Least ==
  ASSUME NEW S \in SUBSET Nat, S # {}
  PROVE  \E n \in S : \A m \in S : n <= m
<1>1. IsWellFoundedOn(OpToRel(<, Nat), Nat)
  BY NatLessThanWellFounded
<1>2. PICK n \in S : \A m \in S : ~ (<<m, n>> \in OpToRel(<, Nat))
  BY <1>1, WFMin
<1>3. \A m \in S : ~ (m < n)
  BY <1>2 DEF OpToRel
<1> QED BY <1>3

LEMMA Division ==
  ASSUME NEW a \in Nat, NEW n \in Nat \ {0}
  PROVE  a \div n \in Nat /\ n * (a \div n) <= a /\ a < n * (a \div n) + n
OBVIOUS

LEMMA DivBounds ==
  ASSUME NEW a \in Nat, NEW b \in Nat, NEW n \in Nat \ {0}, a <= b
  PROVE  a \div n <= b \div n
<1> DEFINE x == a \div n
           y == b \div n
<1>1. x \in Nat /\ y \in Nat /\ n * x <= a /\ b < n * y + n
  BY Division
<1> HIDE DEF x, y
<1>2. CASE x > y
  <2>1. x >= y + 1
    BY <1>1, <1>2
  <2>2. n * x >= n * (y + 1) /\ n * (y + 1) = n * y + n /\ n * x \in Nat /\ n * y \in Nat
    BY <1>1, <2>1
  <2> QED BY <1>1, <2>2
<1>3. CASE x <= y
  BY <1>3 DEF x, y
<1> QED BY <1>1, <1>2, <1>3

LEMMA DivNext ==
  ASSUME NEW a \in Nat, NEW n \in Nat \ {0}
  PROVE  (a + n) \div n = a \div n + 1
<1> DEFINE x == a \div n
           y == (a + n) \div n
<1>1. a + n \in Nat /\ x \in Nat /\ n * x <= a /\ a < n * x + n
  BY Division
<1>2. y \in Nat /\ n * y <= a + n /\ a + n < n * y + n
  BY <1>1, Division
<1> HIDE DEF x, y
<1>3. ~(y > x + 1)
  <2> SUFFICES ASSUME y >= x + 2 PROVE FALSE
    BY <1>1, <1>2
  <2>1. n * y >= n * (x + 2) /\ n * (x + 2) = n * x + n + n /\ n * x \in Nat
    BY <1>1, <1>2
  <2> QED BY <1>1, <1>2, <2>1
<1>4. ~(y < x + 1)
  <2> SUFFICES ASSUME y <= x PROVE FALSE
    BY <1>1, <1>2
  <2>1. n * y <= n * x /\ n * x \in Nat /\ n * y \in Nat
    BY <1>1, <1>2
  <2> QED BY <1>1, <1>2, <2>1
<1> QED BY <1>1, <1>2, <1>3, <1>4 DEF x, y

(* Deadlines that pass before the i-th request's own begins.               *)
Wait(i) == Timeout * ((i - 1) \div FINGERPRINT_CONCURRENCY)

LEMMA WaitType == \A i \in Nat \ {0} : Wait(i) \in Nat
<1> SUFFICES ASSUME NEW i \in Nat \ {0} PROVE Wait(i) \in Nat
  OBVIOUS
<1> DEFINE q == (i - 1) \div FINGERPRINT_CONCURRENCY
<1>1. i - 1 \in Nat /\ FINGERPRINT_CONCURRENCY \in Nat \ {0} /\ Timeout \in Nat
  OBVIOUS
<1>2. q \in Nat
  BY <1>1, Division
<1> HIDE DEF q
<1>3. Timeout * q \in Nat
  BY <1>1, <1>2
<1> QED BY <1>3 DEF Wait, q

LEMMA LaterWaits ==
  ASSUME NEW i \in Nat \ {0}, NEW j \in Nat, i + FINGERPRINT_CONCURRENCY <= j
  PROVE  Wait(i) + Timeout <= Wait(j)
<1> DEFINE N == FINGERPRINT_CONCURRENCY
           x == (i - 1) \div N
           y == (j - 1) \div N
<1>1. N \in Nat \ {0} /\ Timeout \in Nat /\ i - 1 \in Nat /\ (i - 1) + N <= j - 1 /\ (i - 1) + N \in Nat
  OBVIOUS
<1> HIDE DEF N
<1>2. ((i - 1) + N) \div N = x + 1
  BY <1>1, DivNext
<1>3. j - 1 \in Nat
  BY <1>1
<1>4. ((i - 1) + N) \div N <= y
  BY <1>1, <1>3, DivBounds
<1>5. x \in Nat /\ y \in Nat
  BY <1>1, <1>3, Division
<1>6. x + 1 <= y
  BY <1>2, <1>4
<1> HIDE DEF x, y
<1>7. Timeout * (x + 1) <= Timeout * y /\ Timeout * (x + 1) = Timeout * x + Timeout
  BY <1>1, <1>5, <1>6
<1> QED BY <1>7 DEF Wait, x, y, N

LEMMA LongestWaits ==
  ASSUME Len(servers) \in Nat, NEW i \in 1..Len(servers)
  PROVE  Wait(i) + Timeout <= LongestFan
<1> DEFINE N == FINGERPRINT_CONCURRENCY
           j == Len(servers) + N
<1>1. N \in Nat \ {0} /\ j \in Nat /\ i \in Nat \ {0} /\ i + N <= j
  OBVIOUS
<1>2. Wait(i) + Timeout <= Wait(j)
  BY <1>1, LaterWaits
<1>3. Wait(j) = LongestFan
  BY DEF Wait, LongestFan
<1> QED BY <1>2, <1>3

LEMMA LongestType == ASSUME Len(servers) \in Nat PROVE LongestFan \in Nat
<1> DEFINE N == FINGERPRINT_CONCURRENCY
           q == (Len(servers) + N - 1) \div N
<1>1. N \in Nat \ {0} /\ Timeout \in Nat /\ Len(servers) + N - 1 \in Nat
  OBVIOUS
<1>2. q \in Nat
  BY <1>1, Division
<1> HIDE DEF q
<1>3. Timeout * q \in Nat
  BY <1>1, <1>2
<1> QED BY <1>3 DEF LongestFan, q

-----------------------------------------------------------------------------
(***************************************************************************)
(* The fan-out.                                                            *)
(***************************************************************************)
ServersOK == servers \in Seq(Server) /\ IsInjective(servers)

Results == {Pending} \cup {Failed(w) : w \in Words} \cup {Manifest(m) : m \in Content}

FanType ==
  /\ fan.open \subseteq Index
  /\ fan.result \in [Index -> Results]
  /\ fan.age \in [Index -> 0..Timeout] /\ fan.clock \in Nat
  /\ fan = [open |-> fan.open, result |-> fan.result, age |-> fan.age, clock |-> fan.clock]

ServedType == served \in [1..Cardinality(Server) -> Content \cup {Pending}]

(* A result that is in is what its server answered this commit.            *)
FanSound ==
  \A i \in Index \ fan.open : fan.result[i].ok => fan.result[i].manifest = served[i]

(* An unanswered request has waited for those of earlier batches, a        *)
(* deadline for each, and since then for its own.                          *)
FanTime ==
  /\ fan.clock <= LongestFan
  /\ \A i \in fan.open : fan.clock <= Wait(i) + fan.age[i]

Running == FanType /\ FanSound /\ FanTime

FanInv == ServersOK /\ ServedType /\ (fan = NoFan \/ Running)

LEMMA ServersFew ==
  ASSUME ServersOK
  PROVE  Len(servers) \in Nat /\ Cardinality(Server) \in Nat /\ Len(servers) <= Cardinality(Server)
         /\ Index \subseteq Nat \ {0} /\ Index \subseteq 1..Cardinality(Server)
<1>1. Len(servers) \in Nat /\ servers \in [Index -> Server]
  BY DEF ServersOK, Index
<1>2. servers \in Injection(Index, Server)
  BY <1>1 DEF ServersOK, Injection
<1>3. Cardinality(Index) <= Cardinality(Server) /\ Cardinality(Server) \in Nat
  BY <1>2, FS_Injection, FS_CardinalityType
<1>4. Cardinality(Index) = Len(servers)
  <2>1. 1 \in Int /\ Len(servers) \in Int
    BY <1>1
  <2>2. Cardinality(1..Len(servers)) = IF 1 > Len(servers) THEN 0 ELSE Len(servers) - 1 + 1
    BY <2>1, FS_Interval, Zenon
  <2> QED BY <1>1, <2>2 DEF Index
<1> QED BY <1>1, <1>3, <1>4 DEF Index

(* The first unanswered request is in flight, and with it all within reach.*)
LEMMA FirstInFlight ==
  ASSUME ServersOK, fan.open \subseteq Index, fan.open # {}
  PROVE  \E m \in fan.open :
           /\ m \in InFlight
           /\ \A i \in fan.open : i \notin InFlight => m + FINGERPRINT_CONCURRENCY <= i
<1>1. Len(servers) \in Nat /\ Index \subseteq Nat \ {0}
  BY ServersFew
<1>2. PICK m \in fan.open : \A i \in fan.open : m <= i
  BY <1>1, Least
<1>3. m \in Nat \ {0} /\ m <= Len(servers)
  BY <1>1 DEF Index
<1>4. {i \in Index : \A j \in 1..i : j \notin fan.open} = 1..(m - 1)
  <2>1. ASSUME NEW i \in Index, \A j \in 1..i : j \notin fan.open PROVE i \in 1..(m - 1)
    BY <1>1, <1>3, <2>1
  <2>2. ASSUME NEW i \in 1..(m - 1), NEW j \in 1..i PROVE i \in Index /\ j \notin fan.open
    BY <1>1, <1>2, <1>3 DEF Index
  <2> QED BY <2>1, <2>2
<1>5. Head1 = m - 1
  <2>1. 1 \in Int /\ m - 1 \in Int
    BY <1>3
  <2>2. Cardinality(1..(m - 1)) = IF 1 > m - 1 THEN 0 ELSE (m - 1) - 1 + 1
    BY <2>1, FS_Interval, Zenon
  <2>3. Head1 = Cardinality(1..(m - 1))
    BY <1>4 DEF Head1
  <2>4. (IF 1 > m - 1 THEN 0 ELSE (m - 1) - 1 + 1) = m - 1
    BY <1>3
  <2> QED BY <2>2, <2>3, <2>4
<1>6. FINGERPRINT_CONCURRENCY \in Nat \ {0}
  OBVIOUS
<1>7. m \in InFlight
  BY <1>3, <1>5, <1>6 DEF InFlight, Buffered
<1>8. ASSUME NEW i \in fan.open, i \notin InFlight PROVE m + FINGERPRINT_CONCURRENCY <= i
  <2>1. ~(i <= (m - 1) + FINGERPRINT_CONCURRENCY)
    BY <1>5, <1>8 DEF InFlight, Buffered
  <2>2. i \in Nat
    BY <1>1
  <2> QED BY <1>3, <1>6, <2>1, <2>2
<1> QED BY <1>7, <1>8

LEMMA AnsweredWith ==
  ASSUME NEW s \in Server, NEW a \in Answers(s)
  PROVE  /\ Fingerprint(a) \in Results
         /\ (IF a.fault = "none" THEN a.tools ELSE Pending) \in Content \cup {Pending}
         /\ Fingerprint(a).ok =>
              Fingerprint(a).manifest = (IF a.fault = "none" THEN a.tools ELSE Pending)
<1>1. CASE a.fault = "none"
  <2>1. a.tools \in Content
    BY <1>1 DEF Answers, Content, Fault, Quoting
  <2> QED BY <1>1, <2>1 DEF Fingerprint, Canonical, Manifest, Results
<1>2. CASE a.fault # "none"
  <2>1. PICK w \in Words : Fingerprint(a) = Failed(w)
    BY <1>2 DEF Answers, Fingerprint, Fault, Quoting
  <2>2. Failed(w) \in Results
    BY DEF Results
  <2>3. Failed(w).ok = FALSE
    BY DEF Failed
  <2> QED BY <1>2, <2>1, <2>2, <2>3
<1> QED BY <1>1, <1>2

LEMMA SettleStep ==
  ASSUME ServersOK, ServedType, Running, NEW i \in fan.open, NEW r \in Results, NEW x \in Content \cup {Pending},
         r.ok => r.manifest = x,
         Settle(i, r), served' = [served EXCEPT ![i] = x], UNCHANGED servers
  PROVE  ServersOK' /\ ServedType' /\ Running'
<1> USE DEF Running
<1>1. /\ fan.open \subseteq Index /\ fan.result \in [Index -> Results]
      /\ fan.age \in [Index -> 0..Timeout] /\ fan.clock \in Nat /\ i \in Index
  BY DEF FanType
<1>2. fan' = [open |-> fan.open \ {i}, result |-> [fan.result EXCEPT ![i] = r],
              age |-> fan.age, clock |-> fan.clock]
  BY DEF FanType, Settle, Place
<1>3. /\ fan'.open = fan.open \ {i} /\ fan'.result = [fan.result EXCEPT ![i] = r]
      /\ fan'.age = fan.age /\ fan'.clock = fan.clock
  BY <1>2
<1>4. Index' = Index /\ LongestFan' = LongestFan
  BY DEF Index, LongestFan
<1>5. ServersOK' /\ ServedType'
  BY <1>1, ServersFew DEF ServersOK, ServedType
<1>6. FanType'
  BY <1>1, <1>2, <1>3, <1>4 DEF FanType
<1>7. FanSound'
  <2> SUFFICES ASSUME NEW j \in Index \ fan'.open, fan'.result[j].ok
               PROVE  fan'.result[j].manifest = served'[j]
    BY <1>4 DEF FanSound
  <2>1. i \in 1..Cardinality(Server) /\ j \in 1..Cardinality(Server)
    BY <1>1, ServersFew
  <2>2. CASE j = i
    BY <1>1, <1>3, <2>1, <2>2 DEF ServedType
  <2>3. CASE j # i
    BY <1>1, <1>3, <2>1, <2>3 DEF ServedType, FanSound
  <2> QED BY <2>2, <2>3
<1>8. FanTime'
  BY <1>3, <1>4 DEF FanTime
<1> QED BY <1>5, <1>6, <1>7, <1>8

LEMMA TickStep ==
  ASSUME ServersOK, ServedType, Running, FanMayTick, fan' = FanTicked, UNCHANGED <<servers, served>>
  PROVE  ServersOK' /\ ServedType' /\ Running' /\ fan'.open = fan.open /\ fan'.result = fan.result
<1> USE DEF Running
<1>1. /\ fan.open \subseteq Index /\ fan.result \in [Index -> Results] /\ Timeout \in Nat
      /\ fan.age \in [Index -> 0..Timeout] /\ fan.clock \in Nat
      /\ fan = [open |-> fan.open, result |-> fan.result, age |-> fan.age, clock |-> fan.clock]
  BY DEF FanType
<1>2. Index' = Index /\ LongestFan' = LongestFan /\ ServersOK' /\ ServedType'
  BY DEF Index, LongestFan, ServersOK, ServedType
<1>3. CASE InFlight = {}
  BY <1>2, <1>3 DEF FanTicked, FanType, FanSound, FanTime
<1>4. CASE InFlight # {}
  <2> DEFINE newAge == [i \in Index |-> IF i \in InFlight /\ fan.age[i] < Timeout
                                        THEN fan.age[i] + 1 ELSE fan.age[i]]
             newClock == IF fan.clock > LongestFan THEN fan.clock ELSE fan.clock + 1
  <2>1. fan' = [open |-> fan.open, result |-> fan.result, age |-> newAge, clock |-> newClock]
    BY <1>1, <1>4 DEF FanTicked
  <2>2. newAge \in [Index -> 0..Timeout]
    <3> SUFFICES ASSUME NEW i \in Index
                 PROVE  (IF i \in InFlight /\ fan.age[i] < Timeout
                         THEN fan.age[i] + 1 ELSE fan.age[i]) \in 0..Timeout
      OBVIOUS
    <3>1. fan.age[i] \in 0..Timeout
      BY <1>1
    <3> QED BY <1>1, <3>1
  <2>3. LongestFan \in Nat /\ fan.clock <= LongestFan
    BY ServersFew, LongestType DEF FanTime
  <2>4. newClock = fan.clock + 1
    BY <1>1, <2>3
  <2>5. /\ fan'.open = fan.open /\ fan'.result = fan.result
        /\ fan'.age = newAge /\ fan'.clock = fan.clock + 1
    BY <2>1, <2>4
  <2>6. fan.open # {}
    BY <1>4 DEF InFlight
  <2>7. PICK m \in fan.open :
          /\ m \in InFlight
          /\ \A i \in fan.open : i \notin InFlight => m + FINGERPRINT_CONCURRENCY <= i
    BY <1>1, <2>6, FirstInFlight
  <2>8. /\ m \in Nat \ {0} /\ m \in 1..Len(servers) /\ Len(servers) \in Nat /\ Wait(m) \in Nat
        /\ \A i \in fan.open : i \in Nat \ {0} /\ Wait(i) \in Nat
    BY <1>1, ServersFew, WaitType DEF Index
  <2>9. \A i \in fan.open : fan.age[i] \in 0..Timeout /\ fan.clock <= Wait(i) + fan.age[i]
    BY <1>1 DEF FanTime
  <2>10. \A i \in InFlight : fan.age[i] < Timeout
    <3> SUFFICES ASSUME NEW i \in InFlight PROVE fan.age[i] < Timeout
      OBVIOUS
    <3>1. ~(fan.age[i] >= Timeout)
      BY DEF FanMayTick, Overdue
    <3>2. fan.age[i] \in 0..Timeout
      BY <2>9 DEF InFlight
    <3> QED BY <1>1, <3>1, <3>2
  <2>11. fan.clock + 1 <= Wait(m) + Timeout
    BY <1>1, <2>7, <2>8, <2>9, <2>10
  <2>12. fan.clock + 1 <= LongestFan
    <3>1. Wait(m) + Timeout <= LongestFan
      BY <2>8, LongestWaits
    <3> QED BY <1>1, <2>3, <2>8, <2>11, <3>1
  <2>13. ASSUME NEW i \in fan.open PROVE fan.clock + 1 <= Wait(i) + newAge[i]
    <3>1. fan.age[i] \in 0..Timeout /\ fan.clock <= Wait(i) + fan.age[i] /\ Wait(i) \in Nat /\ i \in Index
      BY <1>1, <2>8, <2>9
    <3>2. CASE i \in InFlight
      <4>1. newAge[i] = fan.age[i] + 1
        BY <2>10, <3>1, <3>2
      <4> QED BY <1>1, <3>1, <4>1
    <3>3. CASE i \notin InFlight
      <4>1. newAge[i] = fan.age[i]
        BY <3>1, <3>3
      <4>2. Wait(m) + Timeout <= Wait(i)
        BY <2>7, <2>8, <3>3, LaterWaits
      <4> QED BY <1>1, <2>8, <2>11, <3>1, <4>1, <4>2
    <3> QED BY <3>2, <3>3
  <2> HIDE DEF newAge
  <2>14. FanType'
    BY <1>1, <1>2, <2>1, <2>2, <2>4, <2>5 DEF FanType
  <2>15. FanSound'
    BY <1>2, <2>5 DEF FanSound
  <2>16. FanTime'
    <3>1. \A i \in Nat \ {0} : Wait(i)' = Wait(i)
      BY DEF Wait
    <3> QED BY <1>2, <2>5, <2>12, <2>13 DEF FanTime, Wait
  <2> QED BY <1>2, <2>5, <2>14, <2>15, <2>16
<1> QED BY <1>3, <1>4

LEMMA AskedStep ==
  ASSUME ServersOK, ServedType, fan' = Asked, UNCHANGED <<servers, served>>
  PROVE  ServersOK' /\ ServedType' /\ Running'
<1>1. /\ fan'.open = Index /\ fan'.result = [i \in Index |-> Pending]
      /\ fan'.age = [i \in Index |-> 0] /\ fan'.clock = 0
      /\ fan' = [open |-> fan'.open, result |-> fan'.result, age |-> fan'.age, clock |-> fan'.clock]
  BY DEF Asked
<1>2. Index' = Index /\ LongestFan' = LongestFan /\ ServersOK' /\ ServedType'
  BY DEF Index, LongestFan, ServersOK, ServedType
<1>3. 0 \in 0..Timeout /\ LongestFan \in Nat /\ Index \subseteq Nat \ {0}
  BY ServersFew, LongestType
<1>4. FanType' /\ FanSound'
  BY <1>1, <1>2, <1>3 DEF FanType, FanSound, Results
<1>5. \A i \in Index : Wait(i) \in Nat /\ Wait(i)' = Wait(i)
  BY <1>3, WaitType DEF Wait
<1>6. FanTime'
  BY <1>1, <1>2, <1>3, <1>5 DEF FanTime
<1> QED BY <1>2, <1>4, <1>6 DEF Running

LEMMA CollectedStep ==
  ASSUME ServersOK, ServedType, Running, fan.open = {}, fan' = FanCollected, UNCHANGED <<servers, served>>
  PROVE  ServersOK' /\ ServedType' /\ Running' /\ fan'.open = {} /\ fan'.result = fan.result
<1>1. fan = [open |-> fan.open, result |-> fan.result, age |-> fan.age, clock |-> fan.clock]
  BY DEF Running, FanType
<1>2. fan' = [open |-> {}, result |-> fan.result, age |-> [i \in Index |-> 0], clock |-> 0]
  BY <1>1 DEF FanCollected
<1>3. /\ fan'.open = {} /\ fan'.result = fan.result
      /\ fan'.age = [i \in Index |-> 0] /\ fan'.clock = 0
  BY <1>2
<1>4. Index' = Index /\ LongestFan' = LongestFan /\ ServersOK' /\ ServedType'
  BY DEF Index, LongestFan, ServersOK, ServedType
<1>5. 0 \in 0..Timeout /\ LongestFan \in Nat
  BY ServersFew, LongestType
<1>6. FanType'
  BY <1>2, <1>3, <1>4, <1>5 DEF Running, FanType
<1>7. FanSound' /\ FanTime'
  BY <1>3, <1>4, <1>5 DEF Running, FanSound, FanTime
<1> QED BY <1>3, <1>4, <1>6, <1>7 DEF Running

LEMMA NothingServedType == NothingServed \in [1..Cardinality(Server) -> Content \cup {Pending}]
BY DEF NothingServed

LEMMA FanBounded == ASSUME FanInv PROVE FanoutBound /\ FanTypeOK
<1>1. Range(servers) \subseteq Server
  BY DEF FanInv, ServersOK, Range
<1>2. CASE fan = NoFan
  <2>1. LongestFan \in Nat
    BY ServersFew, LongestType DEF FanInv
  <2> QED BY <1>1, <1>2, <2>1 DEF NoFan, FanInv, FanoutBound, FanTypeOK, ServedType
<1>3. CASE Running
  BY <1>1, <1>3 DEF FanInv, Running, FanType, FanTime, FanoutBound, FanTypeOK, ServedType, Results
<1> QED BY <1>2, <1>3 DEF FanInv

-----------------------------------------------------------------------------
(***************************************************************************)
(* The daemon's work on requests.                                          *)
(***************************************************************************)
Phases == {"none", "over"} \cup Waiting \cup Holding

TaskType == task \in [Call -> [Attempt -> Phases]]

CallType ==
  call \in [Call -> [phase : {"idle", "waiting", "ended"}, attempt : 0..MaxAttempts,
                     result : {"none", "ok", "error"}]]

Moved(t, p) == task' = [task EXCEPT ![t[1]][t[2]] = p]

LEMMA Cells ==
  /\ \A t \in Tasks : t[1] \in Call /\ t[2] \in Attempt /\ t = <<t[1], t[2]>>
  /\ \A c \in Call, k \in Attempt : <<c, k>> \in Tasks /\ PhaseOf(<<c, k>>) = task[c][k]
BY DEF Tasks, PhaseOf

LEMMA MovedPhases ==
  ASSUME TaskType, NEW t \in Tasks, NEW p \in Phases, Moved(t, p)
  PROVE  /\ TaskType'
         /\ \A u \in Tasks : PhaseOf(u)' = IF u = t THEN p ELSE PhaseOf(u)
<1>1. t[1] \in Call /\ t[2] \in Attempt /\ t = <<t[1], t[2]>>
  BY Cells
<1>2. PICK c \in Call, k \in Attempt : t = <<c, k>> /\ c = t[1] /\ k = t[2]
  BY <1>1
<1>3. task' = [task EXCEPT ![c][k] = p]
  BY <1>2 DEF Moved
<1>4. TaskType'
  BY <1>3 DEF TaskType
<1>5. ASSUME NEW u \in Tasks PROVE PhaseOf(u)' = IF u = t THEN p ELSE PhaseOf(u)
  <2>1. PICK d \in Call, l \in Attempt : u = <<d, l>> /\ d = u[1] /\ l = u[2]
    BY Cells
  <2>2. task'[d][l] = IF d = c /\ l = k THEN p ELSE task[d][l]
    BY <1>3 DEF TaskType
  <2>3. u = t <=> d = c /\ l = k
    BY <1>2, <2>1
  <2>4. PhaseOf(u) = task[d][l] /\ PhaseOf(u)' = task'[d][l]
    BY <2>1 DEF PhaseOf
  <2> QED BY <2>2, <2>3, <2>4
<1> QED BY <1>4, <1>5

(* What a step does to the requests in the daemon.                         *)
NextRequest(c) == <<c, call[c].attempt + 1>>

Asks(c) ==
  /\ Sending(c) /\ daemon # "down" /\ UNCHANGED <<daemon, fan>>
  /\ call'[c].attempt = call[c].attempt + 1
  /\ \A d \in Call : d # c => call'[d] = call[d]
  /\ \/ Moved(NextRequest(c), "over")
     \/ Moved(NextRequest(c), "queued") /\ SlotsTaken < CommitQueueDepth

Begun(t, p) ==
  /\ PhaseOf(t) = "queued" /\ Holders = {} /\ Moved(t, p)
  /\ \/ Kind[t[1]] = "commit" /\ p \in {"asking", "staging"}
     \/ Kind[t[1]] = "rollback" /\ p = "restoring"

Served(t) ==
  /\ PhaseOf(t) \in Waiting \cup Holding /\ UNCHANGED daemon
  /\ \A d \in Call : call'[d].attempt = call[d].attempt
  /\ \/ Moved(t, "over")
     \/ Begun(t, "asking") \/ Begun(t, "staging") \/ Begun(t, "restoring")
     \/ PhaseOf(t) = "asking" /\ Moved(t, "staging")

Quits ==
  /\ daemon' = "down" /\ UNCHANGED call
  /\ task' = [c \in Call |-> [k \in Attempt |-> IF task[c][k] = "none" THEN "none" ELSE "over"]]

Elsewhere ==
  /\ UNCHANGED task
  /\ UNCHANGED daemon \/ daemon' # "down"
  /\ \A d \in Call : call'[d].attempt >= call[d].attempt

TaskMove ==
  \/ \E c \in Call : Asks(c)
  \/ \E t \in Tasks : Served(t)
  \/ Quits \/ Elsewhere

LEMMA AttemptsGo ==
  ASSUME CallType, NEW c \in Call
  PROVE  /\ call[c].attempt \in 0..MaxAttempts
         /\ \A r : /\ Concluded(c, r) = [call EXCEPT ![c] = After(call[c].attempt, r)]
                   /\ Concluded(c, r)[c].attempt = call[c].attempt
                   /\ Attempted(c, r)[c].attempt = call[c].attempt + 1
                   /\ \A d \in Call : d # c => /\ Concluded(c, r)[d] = call[d]
                                               /\ Attempted(c, r)[d] = call[d]
BY DEF CallType, Concluded, Attempted, After

LEMMA SaysMoves ==
  ASSUME CallType, NEW t \in Tasks, NEW r, Says(t, r)
  PROVE  Moved(t, "over") /\ \A d \in Call : call'[d].attempt = call[d].attempt
<1>1. t[1] \in Call
  BY Cells
<1>2. Moved(t, "over")
  BY DEF Says, Over, Moved
<1>3. call' = call \/ call' = Concluded(t[1], r)
  BY DEF Says
<1> QED BY <1>1, <1>2, <1>3, AttemptsGo

LEMMA TaskMoves == ASSUME CallType, TaskType, [Next]_vars PROVE TaskMove
<1>1. ASSUME NEW c \in Call, NotReached(c)
      PROVE  TaskMove
  <2>1. UNCHANGED <<task, daemon>> /\ call' = Attempted(c, Unreachable)
    BY <1>1 DEF NotReached
  <2>2. \A d \in Call : call'[d].attempt >= call[d].attempt
    <3> SUFFICES ASSUME NEW d \in Call PROVE call'[d].attempt >= call[d].attempt
      OBVIOUS
    <3>1. call[d].attempt \in 0..MaxAttempts
      BY AttemptsGo
    <3>2. call'[d].attempt = call[d].attempt \/ call'[d].attempt = call[d].attempt + 1
      BY <2>1, AttemptsGo
    <3> QED BY <3>1, <3>2
  <2> QED BY <2>1, <2>2 DEF Elsewhere, TaskMove
<1>2. ASSUME NEW c \in Call, Enqueue(c)
      PROVE  TaskMove
  <2>1. /\ Sending(c) /\ daemon # "down" /\ SlotsTaken < CommitQueueDepth /\ UNCHANGED <<daemon, fan>>
        /\ task' = [task EXCEPT ![c][call[c].attempt + 1] = "queued"]
        /\ call' = [call EXCEPT ![c].attempt = @ + 1, ![c].phase = "waiting"]
    BY <1>2 DEF Enqueue, fanVars
  <2>2. Moved(NextRequest(c), "queued")
    BY <2>1 DEF Moved, NextRequest
  <2>3. call'[c].attempt = call[c].attempt + 1 /\ \A d \in Call : d # c => call'[d] = call[d]
    BY <2>1 DEF CallType
  <2> QED BY <2>1, <2>2, <2>3 DEF Asks, TaskMove
<1>3. ASSUME NEW c \in Call, TurnedAway(c)
      PROVE  TaskMove
  <2>1. /\ Sending(c) /\ daemon # "down" /\ UNCHANGED <<daemon, fan>>
        /\ task' = [task EXCEPT ![c][call[c].attempt + 1] = "over"]
        /\ \/ call' = Attempted(c, Concurrency)
           \/ call' = [call EXCEPT ![c].attempt = @ + 1, ![c].phase = "waiting"]
    BY <1>3 DEF TurnedAway, fanVars
  <2>2. Moved(NextRequest(c), "over")
    BY <2>1 DEF Moved, NextRequest
  <2>3. call'[c].attempt = call[c].attempt + 1 /\ \A d \in Call : d # c => call'[d] = call[d]
    <3>1. CASE call' = Attempted(c, Concurrency)
      BY <3>1, AttemptsGo
    <3>2. CASE call' = [call EXCEPT ![c].attempt = @ + 1, ![c].phase = "waiting"]
      BY <3>2 DEF CallType
    <3> QED BY <2>1, <3>1, <3>2
  <2> QED BY <2>1, <2>2, <2>3 DEF Asks, TaskMove
<1>4. ASSUME NEW c \in Call, GiveUp(c)
      PROVE  TaskMove
  <2>1. UNCHANGED <<task, daemon>> /\ \E r : call' = Concluded(c, r)
    BY <1>4 DEF GiveUp
  <2>2. \A d \in Call : call'[d].attempt >= call[d].attempt
    <3> SUFFICES ASSUME NEW d \in Call PROVE call'[d].attempt >= call[d].attempt
      OBVIOUS
    <3>1. call[d].attempt \in 0..MaxAttempts
      BY AttemptsGo
    <3>2. call'[d].attempt = call[d].attempt \/ call'[d].attempt = call[d].attempt + 1
      BY <2>1, AttemptsGo
    <3> QED BY <3>1, <3>2
  <2> QED BY <2>1, <2>2 DEF Elsewhere, TaskMove
<1>5. ASSUME NEW t \in Tasks, RefuseStopping(t)
      PROVE  TaskMove
  <2>1. Served(t)
    <3>1. PICK r : Says(t, r)
      BY <1>5 DEF RefuseStopping
    <3>2. PhaseOf(t) \in Waiting \cup Holding /\ UNCHANGED daemon
      BY <1>5 DEF RefuseStopping, Granted, Waiting, Holding
    <3> QED BY <3>1, <3>2, SaysMoves DEF Served
  <2> QED BY <2>1 DEF TaskMove
<1>6. ASSUME NEW t \in Tasks, BeginCommit(t)
      PROVE  TaskMove
  <2>1. /\ PhaseOf(t) = "queued" /\ Holders = {} /\ Kind[t[1]] = "commit" /\ UNCHANGED <<daemon, call>>
        /\ Moved(t, "staging") \/ Moved(t, "asking")
    BY <1>6 DEF BeginCommit, Granted, Goes, Moved
  <2>2. Served(t)
    <3>1. Begun(t, "asking") \/ Begun(t, "staging")
      BY <2>1 DEF Begun
    <3> QED BY <2>1, <3>1 DEF Served, Waiting
  <2> QED BY <2>2 DEF TaskMove
<1>7. ASSUME NEW t \in Tasks, GateRefuses(t)
      PROVE  TaskMove
  <2>1. Served(t)
    <3>1. PICK r : Says(t, r)
      BY <1>7 DEF GateRefuses
    <3>2. PhaseOf(t) \in Waiting \cup Holding /\ UNCHANGED daemon
      BY <1>7 DEF GateRefuses, Granted, Waiting, Holding
    <3> QED BY <3>1, <3>2, SaysMoves DEF Served
  <2> QED BY <2>1 DEF TaskMove
<1>8. ASSUME NEW t \in Tasks, BeginRollback(t)
      PROVE  TaskMove
  <2>1. /\ PhaseOf(t) = "queued" /\ Holders = {} /\ Kind[t[1]] = "rollback" /\ UNCHANGED <<daemon, call>>
        /\ Moved(t, "restoring")
    BY <1>8 DEF BeginRollback, Granted, Goes, Moved
  <2>2. Served(t)
    <3>1. Begun(t, "restoring")
      BY <2>1 DEF Begun
    <3> QED BY <2>1, <3>1 DEF Served, Waiting
  <2> QED BY <2>2 DEF TaskMove
<1>9. ASSUME NEW t \in Tasks, ToolsFail(t)
      PROVE  TaskMove
  <2>1. Served(t)
    <3>1. PICK r : Says(t, r)
      BY <1>9 DEF ToolsFail
    <3>2. PhaseOf(t) \in Waiting \cup Holding /\ UNCHANGED daemon
      BY <1>9 DEF ToolsFail, Granted, Waiting, Holding
    <3> QED BY <3>1, <3>2, SaysMoves DEF Served
  <2> QED BY <2>1 DEF TaskMove
<1>10. ASSUME NEW t \in Tasks, ToolsKnown(t)
      PROVE  TaskMove
  <2>1. PhaseOf(t) = "asking" /\ Moved(t, "staging") /\ UNCHANGED <<daemon, call>>
    BY <1>10 DEF ToolsKnown, Goes, Moved
  <2>2. Served(t)
    BY <2>1 DEF Served, Holding
  <2> QED BY <2>2 DEF TaskMove
<1>11. ASSUME NEW t \in Tasks, Record(t)
      PROVE  TaskMove
  <2>1. Served(t)
    <3>1. PICK r : Says(t, r)
      BY <1>11 DEF Record
    <3>2. PhaseOf(t) \in Waiting \cup Holding /\ UNCHANGED daemon
      BY <1>11 DEF Record, Granted, Waiting, Holding
    <3> QED BY <3>1, <3>2, SaysMoves DEF Served
  <2> QED BY <2>1 DEF TaskMove
<1>12. ASSUME NEW t \in Tasks, Fail(t)
      PROVE  TaskMove
  <2>1. Served(t)
    <3>1. PICK r : Says(t, r)
      BY <1>12 DEF Fail
    <3>2. PhaseOf(t) \in Waiting \cup Holding /\ UNCHANGED daemon
      BY <1>12 DEF Fail, Granted, Waiting, Holding
    <3> QED BY <3>1, <3>2, SaysMoves DEF Served
  <2> QED BY <2>1 DEF TaskMove
<1>13. CASE FanAnswers
  <2>1. UNCHANGED <<task, call>> /\ (UNCHANGED daemon \/ daemon' # "down")
    BY <1>13 DEF FanAnswers, callVars, vars
  <2>2. \A d \in Call : call'[d].attempt >= call[d].attempt
    BY <2>1, AttemptsGo
  <2> QED BY <2>1, <2>2 DEF Elsewhere, TaskMove
<1>14. CASE FanTimesOut
  <2>1. UNCHANGED <<task, call>> /\ (UNCHANGED daemon \/ daemon' # "down")
    BY <1>14 DEF FanTimesOut, callVars, vars
  <2>2. \A d \in Call : call'[d].attempt >= call[d].attempt
    BY <2>1, AttemptsGo
  <2> QED BY <2>1, <2>2 DEF Elsewhere, TaskMove
<1>15. ASSUME NEW setup \in world.setups, Start(setup)
      PROVE  TaskMove
  <2>1. UNCHANGED <<task, call>> /\ (UNCHANGED daemon \/ daemon' # "down")
    BY <1>15 DEF Start, callVars, vars
  <2>2. \A d \in Call : call'[d].attempt >= call[d].attempt
    BY <2>1, AttemptsGo
  <2> QED BY <2>1, <2>2 DEF Elsewhere, TaskMove
<1>16. CASE Shutdown
  <2>1. UNCHANGED <<task, call>> /\ (UNCHANGED daemon \/ daemon' # "down")
    BY <1>16 DEF Shutdown, callVars, vars
  <2>2. \A d \in Call : call'[d].attempt >= call[d].attempt
    BY <2>1, AttemptsGo
  <2> QED BY <2>1, <2>2 DEF Elsewhere, TaskMove
<1>17. CASE Exit
  <2>1. Quits
    BY <1>17 DEF Exit, Stopped, Quits
  <2> QED BY <2>1 DEF TaskMove
<1>18. CASE Crash
  <2>1. Quits
    BY <1>18 DEF Crash, Stopped, Quits
  <2> QED BY <2>1 DEF TaskMove
<1>19. CASE Tick
  <2>1. UNCHANGED <<task, call>> /\ (UNCHANGED daemon \/ daemon' # "down")
    BY <1>19 DEF Tick, callVars, vars
  <2>2. \A d \in Call : call'[d].attempt >= call[d].attempt
    BY <2>1, AttemptsGo
  <2> QED BY <2>1, <2>2 DEF Elsewhere, TaskMove
<1>20. CASE UNCHANGED vars
  <2>1. UNCHANGED <<task, call>> /\ (UNCHANGED daemon \/ daemon' # "down")
    BY <1>20 DEF vars, callVars
  <2>2. \A d \in Call : call'[d].attempt >= call[d].attempt
    BY <2>1, AttemptsGo
  <2> QED BY <2>1, <2>2 DEF Elsewhere, TaskMove
<1> QED
  BY <1>1, <1>2, <1>3, <1>4, <1>5, <1>6, <1>7, <1>8, <1>9, <1>10, <1>11,
     <1>12, <1>13, <1>14, <1>15, <1>16, <1>17, <1>18, <1>19, <1>20 DEF Next, Serve

-----------------------------------------------------------------------------
(***************************************************************************)
(* Types: TypeOK, and what it needs to be kept.                            *)
(***************************************************************************)
AnyToken == {None} \cup [signs : Nat, uid : Call \cup {None}, age : -(TTL + 1)..(TTL + 1)]

DaemonType ==
  /\ world \in Worlds
  /\ daemon \in {"serving", "stopping", "down"} /\ stops \in 0..MaxStops
  /\ approvals \in [key : BOOLEAN, attested : BOOLEAN]
  /\ token \in [{c \in Call : Kind[c] = "rollback"} -> AnyToken]

LogType ==
  /\ \E S : log \in Seq(S)
  /\ Tip >= 1 /\ \A i \in 1..Tip : log[i].by \in Call \cup {None}

(* A request is given up once, while it is waited for.                     *)
UnseenType ==
  /\ unseen \in [Call -> Nat]
  /\ \A c \in Call :
       unseen[c] + (IF call[c].phase = "waiting" THEN 1 ELSE 0) <= call[c].attempt

(* No request was made yet of those a call may still make.                 *)
Fresh == \A c \in Call, k \in Attempt : k > call[c].attempt => task[c][k] = "none"

Busy == {t \in Tasks : PhaseOf(t) \in Waiting \cup Holding}

Works ==
  /\ \A t, u \in Holders : t = u
  /\ IsFiniteSet(Busy) /\ Cardinality(Busy) <= CommitQueueDepth
  /\ daemon = "down" => Busy = {}
  /\ \A t \in Tasks : /\ PhaseOf(t) \in {"asking", "staging"} => Kind[t[1]] = "commit"
                      /\ PhaseOf(t) = "restoring" => Kind[t[1]] = "rollback"

Types == CallType /\ TaskType /\ DaemonType /\ LogType /\ UnseenType /\ Fresh /\ Works

LEMMA AfterType ==
  ASSUME CallType, NEW c \in Call, NEW r
  PROVE  /\ After(call[c].attempt, r).attempt = call[c].attempt
         /\ After(call[c].attempt, r).phase \in {"idle", "ended"}
         /\ Concluded(c, r) \in [Call -> [phase : {"idle", "waiting", "ended"},
              attempt : 0..MaxAttempts, result : {"none", "ok", "error"}]]
         /\ call[c].attempt < MaxAttempts =>
              Attempted(c, r) \in [Call -> [phase : {"idle", "waiting", "ended"},
                attempt : 0..MaxAttempts, result : {"none", "ok", "error"}]]
<1> USE CallsAssumption
<1>1. \A k \in 0..MaxAttempts : After(k, r) \in
        [phase : {"idle", "ended"}, attempt : {k}, result : {"ok", "error"}]
  BY DEF After
<1>2. call[c].attempt \in 0..MaxAttempts /\ MaxAttempts \in Nat
  BY DEF CallType
<1>3. call[c].attempt < MaxAttempts => call[c].attempt + 1 \in 0..MaxAttempts
  BY <1>2
<1> QED BY <1>1, <1>2, <1>3 DEF CallType, Concluded, Attempted

LEMMA SendsOn ==
  ASSUME CallType, NEW c \in Call, Sending(c),
         call' = [call EXCEPT ![c].attempt = @ + 1, ![c].phase = "waiting"]
  PROVE  CallType'
<1> DEFINE R == [phase : {"idle", "waiting", "ended"}, attempt : 0..MaxAttempts,
                 result : {"none", "ok", "error"}]
           more == [call EXCEPT ![c].attempt = @ + 1]
<1>1. call \in [Call -> R] /\ call[c].attempt + 1 \in 0..MaxAttempts
  BY CallsAssumption DEF CallType, Sending
<1>2. more \in [Call -> R]
  BY <1>1
<1>3. call' = [more EXCEPT ![c].phase = "waiting"]
  OBVIOUS
<1> HIDE DEF more
<1>4. call' \in [Call -> R]
  BY <1>2, <1>3, ZenonT(60)
<1> QED BY <1>4 DEF CallType

LEMMA CallStep == ASSUME CallType, [Next]_vars PROVE CallType'
<1>a. ASSUME NEW t \in Tasks, NEW r, Says(t, r) PROVE CallType'
  <2>1. call' = call \/ call' = Concluded(t[1], r)
    BY <1>a DEF Says
  <2>2. t[1] \in Call
    BY Cells
  <2> QED BY <2>1, <2>2, AfterType DEF CallType
<1>1. ASSUME NEW c \in Call, NotReached(c)
      PROVE  CallType'
  BY <1>1, AfterType DEF NotReached, Sending, CallType
<1>2. ASSUME NEW c \in Call, Enqueue(c)
      PROVE  CallType'
  BY <1>2, SendsOn DEF Enqueue
<1>3. ASSUME NEW c \in Call, TurnedAway(c)
      PROVE  CallType'
  <2>1. CASE call' = Attempted(c, Concurrency)
    BY <1>3, <2>1, AfterType DEF TurnedAway, Sending, CallType
  <2>2. CASE call' = [call EXCEPT ![c].attempt = @ + 1, ![c].phase = "waiting"]
    BY <1>3, <2>2, SendsOn DEF TurnedAway
  <2> QED BY <1>3, <2>1, <2>2 DEF TurnedAway
<1>4. ASSUME NEW c \in Call, GiveUp(c)
      PROVE  CallType'
  BY <1>4, AfterType DEF GiveUp, CallType
<1>5. ASSUME NEW t \in Tasks, RefuseStopping(t)
      PROVE  CallType'
  BY <1>a, <1>5 DEF RefuseStopping
<1>6. ASSUME NEW t \in Tasks, BeginCommit(t)
      PROVE  CallType'
  BY <1>6 DEF BeginCommit, callVars, CallType, Goes
<1>7. ASSUME NEW t \in Tasks, GateRefuses(t)
      PROVE  CallType'
  BY <1>a, <1>7 DEF GateRefuses
<1>8. ASSUME NEW t \in Tasks, BeginRollback(t)
      PROVE  CallType'
  BY <1>8 DEF BeginRollback, callVars, CallType, Goes
<1>9. ASSUME NEW t \in Tasks, ToolsFail(t)
      PROVE  CallType'
  BY <1>a, <1>9 DEF ToolsFail
<1>10. ASSUME NEW t \in Tasks, ToolsKnown(t)
      PROVE  CallType'
  BY <1>10 DEF ToolsKnown, callVars, CallType, Goes
<1>11. ASSUME NEW t \in Tasks, Record(t)
      PROVE  CallType'
  BY <1>a, <1>11 DEF Record
<1>12. ASSUME NEW t \in Tasks, Fail(t)
      PROVE  CallType'
  BY <1>a, <1>12 DEF Fail
<1>13. CASE FanAnswers
  BY <1>13 DEF FanAnswers, callVars, CallType, Goes
<1>14. CASE FanTimesOut
  BY <1>14 DEF FanTimesOut, callVars, CallType, Goes
<1>15. ASSUME NEW setup \in world.setups, Start(setup)
      PROVE  CallType'
  BY <1>15 DEF Start, callVars, CallType, Goes
<1>16. CASE Shutdown
  BY <1>16 DEF Shutdown, callVars, CallType, Goes
<1>17. CASE Exit
  BY <1>17 DEF Exit, callVars, CallType, Goes
<1>18. CASE Crash
  BY <1>18 DEF Crash, callVars, CallType, Goes
<1>19. CASE Tick
  BY <1>19 DEF Tick, callVars, CallType, Goes
<1>20. CASE UNCHANGED vars
  BY <1>20 DEF vars, callVars, CallType
<1> QED
  BY <1>1, <1>2, <1>3, <1>4, <1>5, <1>6, <1>7, <1>8, <1>9, <1>10, <1>11,
     <1>12, <1>13, <1>14, <1>15, <1>16, <1>17, <1>18, <1>19, <1>20 DEF Next, Serve

LEMMA DaemonStep == ASSUME DaemonType, [Next]_vars PROVE DaemonType'
<1> USE CallsAssumption DEF DaemonType
<1>1. ASSUME NEW c \in Call, NotReached(c)
      PROVE  DaemonType'
  BY <1>1 DEF NotReached, callVars
<1>2. ASSUME NEW c \in Call, Enqueue(c)
      PROVE  DaemonType'
  BY <1>2 DEF Enqueue, callVars
<1>3. ASSUME NEW c \in Call, TurnedAway(c)
      PROVE  DaemonType'
  BY <1>3 DEF TurnedAway, callVars
<1>4. ASSUME NEW c \in Call, GiveUp(c)
      PROVE  DaemonType'
  BY <1>4 DEF GiveUp, callVars
<1>5. ASSUME NEW t \in Tasks, RefuseStopping(t)
      PROVE  DaemonType'
  BY <1>5 DEF RefuseStopping, callVars
<1>6. ASSUME NEW t \in Tasks, BeginCommit(t)
      PROVE  DaemonType'
  BY <1>6 DEF BeginCommit, callVars
<1>7. ASSUME NEW t \in Tasks, GateRefuses(t)
      PROVE  DaemonType'
  BY <1>7 DEF GateRefuses, callVars
<1>8. ASSUME NEW t \in Tasks, BeginRollback(t)
      PROVE  DaemonType'
  BY <1>8 DEF BeginRollback, callVars
<1>9. ASSUME NEW t \in Tasks, ToolsFail(t)
      PROVE  DaemonType'
  BY <1>9 DEF ToolsFail, callVars
<1>10. ASSUME NEW t \in Tasks, ToolsKnown(t)
      PROVE  DaemonType'
  BY <1>10 DEF ToolsKnown, callVars
<1>11. ASSUME NEW t \in Tasks, Record(t)
      PROVE  DaemonType'
  BY <1>11 DEF Record, callVars
<1>12. ASSUME NEW t \in Tasks, Fail(t)
      PROVE  DaemonType'
  BY <1>12 DEF Fail, callVars
<1>13. CASE FanAnswers
  BY <1>13 DEF FanAnswers, callVars
<1>14. CASE FanTimesOut
  BY <1>14 DEF FanTimesOut, callVars
<1>15. ASSUME NEW setup \in world.setups, Start(setup)
      PROVE  DaemonType'
  <2>1. setup \in [mcp : Seq([name : Server, url : UrlKind]),
                  key : {"absent", "key", "wrong_length"}, attested : BOOLEAN]
    BY <1>15
  <2>2. [key |-> KeyIn(setup.key), attested |-> setup.attested] \in [key : BOOLEAN, attested : BOOLEAN]
    BY <2>1 DEF KeyIn
  <2> QED BY <1>15, <2>2 DEF Start
<1>16. CASE Shutdown
  <2>1. stops' \in 0..MaxStops
    BY <1>16 DEF Shutdown
  <2> QED BY <1>16, <2>1 DEF Shutdown, Stopped
<1>17. CASE Exit
  BY <1>17 DEF Exit, Stopped
<1>18. CASE Crash
  <2>1. stops' \in 0..MaxStops
    BY <1>18 DEF Crash
  <2> QED BY <1>18, <2>1 DEF Crash, Stopped
<1>19. CASE Tick
  <2> DEFINE R == [signs : Nat, uid : Call \cup {None}, age : -(TTL + 1)..(TTL + 1)]
              new(c) == IF token[c] \in {None, Malformed} \/ ~MayStillAsk(c) THEN token[c]
                        ELSE [token[c] EXCEPT !.age = Further(@)]
  <2>1. token' = [c \in DOMAIN token |-> new(c)] /\ UNCHANGED <<world, daemon, stops, approvals>>
    BY <1>19 DEF Tick
  <2>2. ASSUME NEW y \in R PROVE [y EXCEPT !.age = Further(@)] \in R
    <3>1. y.age \in -(TTL + 1)..(TTL + 1) /\ TTL \in Nat
      OBVIOUS
    <3>2. Further(y.age) \in -(TTL + 1)..(TTL + 1)
      BY <3>1 DEF Further
    <3> QED BY <3>2
  <2> HIDE DEF R
  <2>3. ASSUME NEW c \in DOMAIN token PROVE new(c) \in AnyToken
    <3>1. token[c] \in AnyToken
      BY <2>3
    <3>2. CASE token[c] = None
      BY <3>1, <3>2
    <3>3. CASE token[c] # None
      <4> DEFINE y == token[c]
      <4>1. y \in R
        BY <3>1, <3>3 DEF AnyToken, R
      <4> HIDE DEF y
      <4>2. [y EXCEPT !.age = Further(@)] \in AnyToken
        BY <2>2, <4>1 DEF AnyToken, R
      <4> QED BY <3>1, <4>2 DEF y
    <3> QED BY <3>2, <3>3
  <2> HIDE DEF new
  <2>4. token' \in [{c \in Call : Kind[c] = "rollback"} -> AnyToken]
    BY <2>1, <2>3
  <2> QED BY <2>1, <2>4
<1>20. CASE UNCHANGED vars
  BY <1>20 DEF vars, callVars
<1> QED
  BY <1>1, <1>2, <1>3, <1>4, <1>5, <1>6, <1>7, <1>8, <1>9, <1>10, <1>11,
     <1>12, <1>13, <1>14, <1>15, <1>16, <1>17, <1>18, <1>19, <1>20 DEF Next, Serve

LEMMA LogMoves ==
  ASSUME [Next]_vars
  PROVE  \/ UNCHANGED log
         \/ \E t \in Tasks : Record(t) /\ \E T : log' = Append(log, [by |-> t[1], tools |-> T])
<1>1. ASSUME NEW c \in Call, NotReached(c)
      PROVE  \/ UNCHANGED log
              \/ \E u \in Tasks : Record(u) /\ \E T : log' = Append(log, [by |-> u[1], tools |-> T])
  BY <1>1 DEF NotReached, callVars
<1>2. ASSUME NEW c \in Call, Enqueue(c)
      PROVE  \/ UNCHANGED log
              \/ \E u \in Tasks : Record(u) /\ \E T : log' = Append(log, [by |-> u[1], tools |-> T])
  BY <1>2 DEF Enqueue, callVars
<1>3. ASSUME NEW c \in Call, TurnedAway(c)
      PROVE  \/ UNCHANGED log
              \/ \E u \in Tasks : Record(u) /\ \E T : log' = Append(log, [by |-> u[1], tools |-> T])
  BY <1>3 DEF TurnedAway, callVars
<1>4. ASSUME NEW c \in Call, GiveUp(c)
      PROVE  \/ UNCHANGED log
              \/ \E u \in Tasks : Record(u) /\ \E T : log' = Append(log, [by |-> u[1], tools |-> T])
  BY <1>4 DEF GiveUp, callVars
<1>5. ASSUME NEW t \in Tasks, RefuseStopping(t)
      PROVE  \/ UNCHANGED log
              \/ \E u \in Tasks : Record(u) /\ \E T : log' = Append(log, [by |-> u[1], tools |-> T])
  BY <1>5 DEF RefuseStopping, callVars
<1>6. ASSUME NEW t \in Tasks, BeginCommit(t)
      PROVE  \/ UNCHANGED log
              \/ \E u \in Tasks : Record(u) /\ \E T : log' = Append(log, [by |-> u[1], tools |-> T])
  BY <1>6 DEF BeginCommit, callVars
<1>7. ASSUME NEW t \in Tasks, GateRefuses(t)
      PROVE  \/ UNCHANGED log
              \/ \E u \in Tasks : Record(u) /\ \E T : log' = Append(log, [by |-> u[1], tools |-> T])
  BY <1>7 DEF GateRefuses, callVars
<1>8. ASSUME NEW t \in Tasks, BeginRollback(t)
      PROVE  \/ UNCHANGED log
              \/ \E u \in Tasks : Record(u) /\ \E T : log' = Append(log, [by |-> u[1], tools |-> T])
  BY <1>8 DEF BeginRollback, callVars
<1>9. ASSUME NEW t \in Tasks, ToolsFail(t)
      PROVE  \/ UNCHANGED log
              \/ \E u \in Tasks : Record(u) /\ \E T : log' = Append(log, [by |-> u[1], tools |-> T])
  BY <1>9 DEF ToolsFail, callVars
<1>10. ASSUME NEW t \in Tasks, ToolsKnown(t)
      PROVE  \/ UNCHANGED log
              \/ \E u \in Tasks : Record(u) /\ \E T : log' = Append(log, [by |-> u[1], tools |-> T])
  BY <1>10 DEF ToolsKnown, callVars
<1>11. ASSUME NEW t \in Tasks, Record(t)
      PROVE  \/ UNCHANGED log
              \/ \E u \in Tasks : Record(u) /\ \E T : log' = Append(log, [by |-> u[1], tools |-> T])
  BY <1>11 DEF Record
<1>12. ASSUME NEW t \in Tasks, Fail(t)
      PROVE  \/ UNCHANGED log
              \/ \E u \in Tasks : Record(u) /\ \E T : log' = Append(log, [by |-> u[1], tools |-> T])
  BY <1>12 DEF Fail, callVars
<1>13. CASE FanAnswers
  BY <1>13 DEF FanAnswers, callVars
<1>14. CASE FanTimesOut
  BY <1>14 DEF FanTimesOut, callVars
<1>15. ASSUME NEW setup \in world.setups, Start(setup)
      PROVE  \/ UNCHANGED log
              \/ \E u \in Tasks : Record(u) /\ \E T : log' = Append(log, [by |-> u[1], tools |-> T])
  BY <1>15 DEF Start, callVars
<1>16. CASE Shutdown
  BY <1>16 DEF Shutdown, callVars
<1>17. CASE Exit
  BY <1>17 DEF Exit, callVars
<1>18. CASE Crash
  BY <1>18 DEF Crash, callVars
<1>19. CASE Tick
  BY <1>19 DEF Tick, callVars
<1>20. CASE UNCHANGED vars
  BY <1>20 DEF vars, callVars
<1> QED
  BY <1>1, <1>2, <1>3, <1>4, <1>5, <1>6, <1>7, <1>8, <1>9, <1>10, <1>11,
     <1>12, <1>13, <1>14, <1>15, <1>16, <1>17, <1>18, <1>19, <1>20 DEF Next, Serve

LEMMA Appended ==
  ASSUME LogType, NEW r, log' = Append(log, r)
  PROVE  /\ Tip \in Nat /\ Tip' = Tip + 1 /\ log'[Tip + 1] = r
         /\ \A i \in 1..Tip : log'[i] = log[i]
         /\ \E S : log' \in Seq(S)
<1>1. PICK S : log \in Seq(S)
  BY DEF LogType
<1>2. log \in Seq(S \cup {r}) /\ r \in S \cup {r}
  BY <1>1
<1>3. log' \in Seq(S \cup {r})
  BY <1>2
<1> QED BY <1>2, <1>3 DEF Tip

LEMMA LogStep == ASSUME LogType, [Next]_vars PROVE LogType'
<1>1. CASE UNCHANGED log
  BY <1>1 DEF LogType, Tip
<1>2. ASSUME NEW t \in Tasks, NEW T, log' = Append(log, [by |-> t[1], tools |-> T]) PROVE LogType'
  <2>1. /\ Tip \in Nat /\ Tip' = Tip + 1 /\ log'[Tip + 1] = [by |-> t[1], tools |-> T]
        /\ \A i \in 1..Tip : log'[i] = log[i]
        /\ \E S : log' \in Seq(S)
    BY <1>2, Appended
  <2>2. t[1] \in Call
    BY Cells
  <2>3. ASSUME NEW i \in 1..Tip' PROVE log'[i].by \in Call \cup {None}
    <3>1. i \in 1..Tip \/ i = Tip + 1
      BY <2>1
    <3> QED BY <2>1, <2>2, <3>1 DEF LogType
  <2>4. Tip' >= 1
    BY <2>1 DEF LogType
  <2> QED BY <2>1, <2>3, <2>4 DEF LogType
<1> QED BY <1>1, <1>2, LogMoves

LEMMA UnseenStep == ASSUME CallType, UnseenType, [Next]_vars PROVE UnseenType'
<1> DEFINE Wants(c) == unseen[c] + (IF call[c].phase = "waiting" THEN 1 ELSE 0) <= call[c].attempt
<1>a. \A c \in Call : unseen[c] \in Nat /\ call[c].attempt \in Nat /\ Wants(c)
  BY DEF CallType, UnseenType
<1>b. ASSUME NEW c \in Call, UNCHANGED unseen, \A d \in Call : d # c => call'[d] = call[d],
             \/ call'[c].phase # "waiting" /\ call'[c].attempt = call[c].attempt
             \/ call'[c].attempt = call[c].attempt + 1
      PROVE  UnseenType'
  <2>1. ASSUME NEW d \in Call PROVE Wants(d)'
    <3>1. CASE d # c
      BY <1>a, <1>b, <3>1
    <3>2. CASE d = c
      BY <1>a, <1>b, <3>2
    <3> QED BY <3>1, <3>2
  <2> QED BY <1>b, <2>1 DEF UnseenType
<1>c. ASSUME NEW t \in Tasks, NEW r, Says(t, r), UNCHANGED unseen PROVE UnseenType'
  <2>1. t[1] \in Call
    BY Cells
  <2>2. CASE call' = call
    BY <1>c, <2>2 DEF UnseenType
  <2>3. CASE call' = Concluded(t[1], r)
    <3>1. call'[t[1]].phase # "waiting" /\ call'[t[1]].attempt = call[t[1]].attempt
      BY <2>1, <2>3, AfterType, AttemptsGo DEF CallType, Concluded
    <3> QED BY <1>b, <1>c, <2>1, <2>3, <3>1, AttemptsGo
  <2> QED BY <1>c, <2>2, <2>3 DEF Says
<1>1. ASSUME NEW c \in Call, NotReached(c)
      PROVE  UnseenType'
  <2>1. call' = Attempted(c, Unreachable) /\ UNCHANGED unseen
    BY <1>1 DEF NotReached
  <2> QED BY <1>b, <2>1, AttemptsGo
<1>2. ASSUME NEW c \in Call, Enqueue(c)
      PROVE  UnseenType'
  <2>1. call' = [call EXCEPT ![c].attempt = @ + 1, ![c].phase = "waiting"] /\ UNCHANGED unseen
    BY <1>2 DEF Enqueue
  <2>2. call'[c].attempt = call[c].attempt + 1 /\ \A d \in Call : d # c => call'[d] = call[d]
    BY <2>1 DEF CallType
  <2> QED BY <1>b, <2>1, <2>2
<1>3. ASSUME NEW c \in Call, TurnedAway(c)
      PROVE  UnseenType'
  <2>1. UNCHANGED unseen
    BY <1>3 DEF TurnedAway
  <2>2. CASE call' = Attempted(c, Concurrency)
    BY <1>b, <2>1, <2>2, AttemptsGo
  <2>3. CASE call' = [call EXCEPT ![c].attempt = @ + 1, ![c].phase = "waiting"]
    <3>1. call'[c].attempt = call[c].attempt + 1 /\ \A d \in Call : d # c => call'[d] = call[d]
      BY <2>3 DEF CallType
    <3> QED BY <1>b, <2>1, <3>1
  <2> QED BY <1>3, <2>2, <2>3 DEF TurnedAway
<1>4. ASSUME NEW c \in Call, GiveUp(c)
      PROVE  UnseenType'
  <2>1. call[c].phase = "waiting" /\ unseen' = [unseen EXCEPT ![c] = @ + 1]
    BY <1>4 DEF GiveUp
  <2>2. PICK r : call' = Concluded(c, r)
    BY <1>4 DEF GiveUp
  <2>3. call'[c].phase # "waiting" /\ call'[c].attempt = call[c].attempt
        /\ \A d \in Call : d # c => call'[d] = call[d]
    BY <2>2, AfterType, AttemptsGo DEF CallType, Concluded
  <2>4. unseen' \in [Call -> Nat] /\ unseen'[c] = unseen[c] + 1 /\ \A d \in Call : d # c => unseen'[d] = unseen[d]
    BY <2>1 DEF UnseenType
  <2>5. ASSUME NEW d \in Call PROVE Wants(d)'
    <3>1. CASE d # c
      BY <1>a, <2>3, <2>4, <3>1
    <3>2. CASE d = c
      BY <1>a, <2>1, <2>3, <2>4, <3>2
    <3> QED BY <3>1, <3>2
  <2> QED BY <2>4, <2>5 DEF UnseenType
<1>5. ASSUME NEW t \in Tasks, RefuseStopping(t)
      PROVE  UnseenType'
  BY <1>c, <1>5 DEF RefuseStopping
<1>6. ASSUME NEW t \in Tasks, BeginCommit(t)
      PROVE  UnseenType'
  BY <1>6 DEF BeginCommit, callVars, UnseenType, Goes
<1>7. ASSUME NEW t \in Tasks, GateRefuses(t)
      PROVE  UnseenType'
  BY <1>c, <1>7 DEF GateRefuses
<1>8. ASSUME NEW t \in Tasks, BeginRollback(t)
      PROVE  UnseenType'
  BY <1>8 DEF BeginRollback, callVars, UnseenType, Goes
<1>9. ASSUME NEW t \in Tasks, ToolsFail(t)
      PROVE  UnseenType'
  BY <1>c, <1>9 DEF ToolsFail
<1>10. ASSUME NEW t \in Tasks, ToolsKnown(t)
      PROVE  UnseenType'
  BY <1>10 DEF ToolsKnown, callVars, UnseenType, Goes
<1>11. ASSUME NEW t \in Tasks, Record(t)
      PROVE  UnseenType'
  BY <1>c, <1>11 DEF Record
<1>12. ASSUME NEW t \in Tasks, Fail(t)
      PROVE  UnseenType'
  BY <1>c, <1>12 DEF Fail
<1>13. CASE FanAnswers
  BY <1>13 DEF FanAnswers, callVars, UnseenType, Goes
<1>14. CASE FanTimesOut
  BY <1>14 DEF FanTimesOut, callVars, UnseenType, Goes
<1>15. ASSUME NEW setup \in world.setups, Start(setup)
      PROVE  UnseenType'
  BY <1>15 DEF Start, callVars, UnseenType, Goes
<1>16. CASE Shutdown
  BY <1>16 DEF Shutdown, callVars, UnseenType, Goes
<1>17. CASE Exit
  BY <1>17 DEF Exit, callVars, UnseenType, Goes
<1>18. CASE Crash
  BY <1>18 DEF Crash, callVars, UnseenType, Goes
<1>19. CASE Tick
  BY <1>19 DEF Tick, callVars, UnseenType, Goes
<1>20. CASE UNCHANGED vars
  BY <1>20 DEF vars, callVars, UnseenType
<1> QED
  BY <1>1, <1>2, <1>3, <1>4, <1>5, <1>6, <1>7, <1>8, <1>9, <1>10, <1>11,
     <1>12, <1>13, <1>14, <1>15, <1>16, <1>17, <1>18, <1>19, <1>20 DEF Next, Serve

LEMMA NextIsNew ==
  ASSUME CallType, NEW c \in Call, call[c].attempt < MaxAttempts
  PROVE  NextRequest(c) \in Tasks
<1>1. call[c].attempt \in Nat /\ MaxAttempts \in Nat
  BY CallsAssumption DEF CallType
<1>2. call[c].attempt + 1 \in Attempt
  BY <1>1 DEF Attempt
<1> QED BY <1>2 DEF NextRequest, Tasks

LEMMA FreshStep == ASSUME CallType, CallType', TaskType, Fresh, TaskMove PROVE Fresh'
<1>1. \A c \in Call : call[c].attempt \in Nat /\ Attempt \subseteq Nat
  BY DEF CallType, Attempt
<1>2. ASSUME NEW c \in Call, Asks(c) PROVE Fresh'
  <2>1. PICK p \in Phases : Moved(NextRequest(c), p)
    BY <1>2 DEF Asks, Phases, Waiting
  <2>2. task' = [task EXCEPT ![c][call[c].attempt + 1] = p]
    BY <2>1 DEF Moved, NextRequest
  <2>3. /\ call'[c].attempt = call[c].attempt + 1
        /\ \A d \in Call : d # c => call'[d] = call[d]
    BY <1>2 DEF Asks
  <2>4. ASSUME NEW d \in Call, NEW k \in Attempt, k > call'[d].attempt PROVE task'[d][k] = "none"
    <3>1. CASE d # c
      BY <2>2, <2>3, <2>4, <3>1 DEF Fresh, TaskType
    <3>2. CASE d = c
      <4>1. k > call[c].attempt + 1 /\ k > call[c].attempt /\ k # call[c].attempt + 1
        BY <1>1, <2>3, <2>4, <3>2
      <4>2. task'[c][k] = task[c][k]
        BY <2>2, <4>1 DEF TaskType
      <4> QED BY <3>2, <4>1, <4>2 DEF Fresh
    <3> QED BY <3>1, <3>2
  <2> QED BY <2>4 DEF Fresh
<1>3. ASSUME NEW t \in Tasks, Served(t) PROVE Fresh'
  <2>1. PICK p \in Phases : Moved(t, p)
    BY <1>3 DEF Served, Begun, Phases, Holding
  <2>2. t[1] \in Call /\ t[2] \in Attempt /\ task[t[1]][t[2]] # "none"
    BY <1>3, Cells DEF Served, PhaseOf, Waiting, Holding
  <2>3. ~(t[2] > call[t[1]].attempt)
    BY <2>2 DEF Fresh
  <2>4. ASSUME NEW d \in Call, NEW k \in Attempt, k > call'[d].attempt PROVE task'[d][k] = "none"
    <3>1. k > call[d].attempt
      BY <1>3, <2>4 DEF Served
    <3>2. ~(d = t[1] /\ k = t[2])
      BY <2>3, <3>1
    <3>3. task'[d][k] = task[d][k]
      BY <2>1, <2>2, <3>2 DEF Moved, TaskType
    <3> QED BY <3>1, <3>3 DEF Fresh
  <2> QED BY <2>4 DEF Fresh
<1>4. CASE Quits
  BY <1>4 DEF Quits, Fresh
<1>5. CASE Elsewhere
  <2>1. ASSUME NEW d \in Call, NEW k \in Attempt, k > call'[d].attempt PROVE task'[d][k] = "none"
    <3>1. CASE k > call[d].attempt
      BY <1>5, <3>1 DEF Elsewhere, Fresh
    <3>2. CASE ~(k > call[d].attempt)
      <4>1. call'[d].attempt \in Nat /\ call[d].attempt \in Nat /\ k \in Nat
        BY <1>1 DEF CallType
      <4>2. call'[d].attempt >= call[d].attempt
        BY <1>5 DEF Elsewhere
      <4> QED BY <2>1, <3>2, <4>1, <4>2
    <3> QED BY <3>1, <3>2
  <2> QED BY <2>1 DEF Fresh
<1> QED BY <1>2, <1>3, <1>4, <1>5 DEF TaskMove

(* The lock is one, and the daemon's requests never more than the queue    *)
(* has room for.                                                           *)
LEMMA WorksStep == ASSUME CallType, TaskType, Fresh, Works, TaskMove PROVE Works'
<1> USE DEF Busy, Holders
<1>1. ASSUME NEW c \in Call, Asks(c) PROVE Works'
  <2> DEFINE n == NextRequest(c)
  <2>1. n \in Tasks
    BY <1>1, NextIsNew DEF Asks, Sending
  <2>2. PhaseOf(n) = "none"
    <3>1. n[1] = c /\ n[2] = call[c].attempt + 1 /\ n[2] \in Attempt /\ call[c].attempt \in Nat
      BY <2>1, Cells DEF NextRequest, CallType
    <3>2. n[2] > call[c].attempt
      BY <3>1
    <3> QED BY <3>1, <3>2 DEF Fresh, PhaseOf
  <2>3. daemon' = daemon /\ daemon # "down"
    BY <1>1 DEF Asks
  <2> HIDE DEF n
  <2>4. CASE Moved(n, "over")
    <3>1. \A u \in Tasks : PhaseOf(u)' = IF u = n THEN "over" ELSE PhaseOf(u)
      BY <2>1, <2>4, MovedPhases DEF Phases
    <3>2. Busy' = Busy /\ Holders' = Holders
      BY <2>1, <2>2, <3>1 DEF Waiting, Holding
    <3> QED BY <2>3, <3>1, <3>2 DEF Works
  <2>5. CASE Moved(n, "queued") /\ SlotsTaken < CommitQueueDepth
    <3>1. \A u \in Tasks : PhaseOf(u)' = IF u = n THEN "queued" ELSE PhaseOf(u)
      BY <2>1, <2>5, MovedPhases DEF Phases, Waiting
    <3>2. Busy' = Busy \cup {n} /\ Holders' = Holders
      BY <2>1, <2>2, <3>1 DEF Waiting, Holding
    <3>3. n \notin Busy
      BY <2>2 DEF Waiting, Holding
    <3>4. Cardinality(Busy) < CommitQueueDepth /\ CommitQueueDepth \in Nat
      BY <2>5, CallsAssumption DEF SlotsTaken
    <3> HIDE DEF Busy
    <3>5. /\ IsFiniteSet(Busy \cup {n}) /\ Cardinality(Busy \cup {n}) = Cardinality(Busy) + 1
          /\ Cardinality(Busy) \in Nat
      BY <3>3, FS_AddElement, FS_CardinalityType DEF Works
    <3>6. IsFiniteSet(Busy') /\ Cardinality(Busy') <= CommitQueueDepth
      <4>1. Cardinality(Busy') = Cardinality(Busy) + 1
        BY <3>2, <3>5
      <4> QED BY <3>2, <3>4, <3>5, <4>1
    <3> QED BY <2>3, <3>1, <3>2, <3>6 DEF Works
  <2> QED BY <1>1, <2>4, <2>5 DEF Asks, n
<1>2. ASSUME NEW t \in Tasks, Served(t) PROVE Works'
  <2>1. PICK p \in Phases : Moved(t, p)
    BY <1>2 DEF Served, Begun, Phases, Holding
  <2>2. \A u \in Tasks : PhaseOf(u)' = IF u = t THEN p ELSE PhaseOf(u)
    BY <2>1, MovedPhases
  <2>3. t \in Busy /\ daemon' = daemon /\ daemon # "down"
    BY <1>2 DEF Served, Works
  <2>4. Busy' \subseteq Busy
    BY <2>2, <2>3
  <2>5. IsFiniteSet(Busy') /\ Cardinality(Busy') <= CommitQueueDepth
    <3> HIDE DEF Busy
    <3>1. IsFiniteSet(Busy') /\ Cardinality(Busy') <= Cardinality(Busy)
      BY <2>4, FS_Subset DEF Works
    <3>2. Cardinality(Busy') \in Nat /\ Cardinality(Busy) \in Nat /\ CommitQueueDepth \in Nat
      BY <3>1, FS_CardinalityType, CallsAssumption DEF Works
    <3> QED BY <3>1, <3>2 DEF Works
  <2>6. CASE Moved(t, "over")
    <3>1. \A u \in Tasks : PhaseOf(u)' = IF u = t THEN "over" ELSE PhaseOf(u)
      BY <2>6, MovedPhases DEF Phases
    <3>2. Holders' \subseteq Holders
      BY <3>1 DEF Holding
    <3> QED BY <2>3, <2>5, <3>1, <3>2 DEF Works
  <2>7. ASSUME NEW q, Begun(t, q) PROVE Works'
    <3>1. q \in Holding /\ Holders = {}
      BY <2>7 DEF Begun, Holding
    <3>2. \A u \in Tasks : PhaseOf(u)' = IF u = t THEN q ELSE PhaseOf(u)
      BY <2>7, <3>1, MovedPhases DEF Begun, Phases
    <3>3. Holders' \subseteq {t}
      BY <3>1, <3>2 DEF Holding
    <3>4. \A u \in Tasks : /\ PhaseOf(u)' \in {"asking", "staging"} => Kind[u[1]] = "commit"
                           /\ PhaseOf(u)' = "restoring" => Kind[u[1]] = "rollback"
      BY <2>7, <3>2 DEF Begun, Works
    <3> QED BY <2>3, <2>5, <3>3, <3>4 DEF Works
  <2>8. CASE PhaseOf(t) = "asking" /\ Moved(t, "staging")
    <3>1. \A u \in Tasks : PhaseOf(u)' = IF u = t THEN "staging" ELSE PhaseOf(u)
      BY <2>8, MovedPhases DEF Phases, Holding
    <3>2. Holders' \subseteq Holders
      BY <2>8, <3>1 DEF Holding
    <3> QED BY <2>3, <2>5, <2>8, <3>1, <3>2 DEF Works
  <2> QED BY <1>2, <2>6, <2>7, <2>8 DEF Served
<1>3. CASE Quits
  <2>1. ASSUME NEW u \in Tasks PROVE PhaseOf(u)' \in {"none", "over"}
    <3>1. u[1] \in Call /\ u[2] \in Attempt
      BY Cells
    <3> QED BY <1>3, <3>1 DEF Quits, PhaseOf
  <2>2. Busy' = {} /\ Holders' = {}
    BY <2>1 DEF Waiting, Holding
  <2>3. IsFiniteSet(Busy') /\ Cardinality(Busy') <= CommitQueueDepth
    <3> HIDE DEF Busy
    <3>1. CommitQueueDepth \in Nat /\ IsFiniteSet({}) /\ Cardinality({}) = 0
      BY FS_EmptySet, CallsAssumption
    <3> QED BY <2>2, <3>1
  <2> QED BY <2>1, <2>2, <2>3 DEF Works
<1>4. CASE Elsewhere
  BY <1>4 DEF Elsewhere, Works, PhaseOf
<1> QED BY <1>1, <1>2, <1>3, <1>4 DEF TaskMove

LEMMA TypesInit == ASSUME Init PROVE Types
<1>0. MaxAttempts \in Nat /\ CommitQueueDepth \in Nat /\ MaxStops \in Nat
  BY CallsAssumption
<1>1. CallType /\ TaskType
  BY <1>0 DEF Init, CallType, TaskType, Phases
<1>2. DaemonType
  BY <1>0, CallsAssumption DEF Init, DaemonType, AnyToken
<1>3. LogType
  <2>1. log = <<[by |-> None, tools |-> NoTree]>>
    BY DEF Init
  <2>2. log \in Seq({[by |-> None, tools |-> NoTree]}) /\ Len(log) = 1 /\ log[1].by = None
    BY <2>1
  <2> QED BY <2>2 DEF LogType, Tip
<1>4. UnseenType /\ Fresh
  BY DEF Init, UnseenType, Fresh
<1>5. \A t \in Tasks : PhaseOf(t) = "none"
  BY Cells DEF Init, PhaseOf
<1>6. Busy = {} /\ Holders = {}
  BY <1>5 DEF Busy, Holders, Waiting, Holding
<1>7. Works
  BY <1>0, <1>5, <1>6, FS_EmptySet DEF Works
<1> QED BY <1>1, <1>2, <1>3, <1>4, <1>7 DEF Types

LEMMA TypesStep == ASSUME Types, [Next]_vars PROVE Types' /\ TaskMove
<1>1. TaskMove /\ CallType'
  BY TaskMoves, CallStep DEF Types
<1>2. TaskType'
  <2>1. ASSUME NEW c \in Call, Asks(c) PROVE TaskType'
    <3>1. NextRequest(c) \in Tasks
      BY <2>1, NextIsNew DEF Types, Asks, Sending
    <3> QED BY <2>1, <3>1, MovedPhases DEF Types, Asks, Phases, Waiting
  <2>2. ASSUME NEW t \in Tasks, Served(t) PROVE TaskType'
    <3>1. PICK p \in Phases : Moved(t, p)
      BY <2>2 DEF Served, Begun, Phases, Holding
    <3> QED BY <3>1, MovedPhases DEF Types
  <2>3. CASE Quits
    BY <2>3 DEF Quits, TaskType, Phases
  <2>4. CASE Elsewhere
    BY <2>4 DEF Elsewhere, Types, TaskType
  <2> QED BY <1>1, <2>1, <2>2, <2>3, <2>4 DEF TaskMove
<1>3. CallType' /\ DaemonType' /\ LogType' /\ UnseenType'
  BY CallStep, DaemonStep, LogStep, UnseenStep DEF Types
<1>4. Fresh' /\ Works'
  BY <1>1, FreshStep, WorksStep DEF Types
<1> QED BY <1>1, <1>2, <1>3, <1>4 DEF Types

-----------------------------------------------------------------------------
(***************************************************************************)
(* The fan-out belongs to the request that has the lock.                   *)
(***************************************************************************)
Staging == \E t \in Tasks : PhaseOf(t) = "staging"

(* Every server has answered, and with its tools.                          *)
AllIn ==
  /\ fan.open = {} /\ (fan = NoFan => servers = <<>>)
  /\ \A i \in Index : fan.result[i].ok

Link ==
  /\ fan # NoFan => Asking \/ Staging
  /\ \A t \in Tasks : PhaseOf(t) = "staging" => AllIn

FanAside ==
  /\ UNCHANGED fanVars
  /\ \A u \in Tasks :
       \/ PhaseOf(u)' = PhaseOf(u)
       \/ PhaseOf(u) \notin {"asking", "staging"} /\ PhaseOf(u)' \notin {"asking", "staging"}

FanEnds == FanCleared /\ UNCHANGED servers /\ Holders' = {}

LEMMA NoneInFlight == fan = NoFan => InFlight = {}
BY DEF NoFan, InFlight

LEMMA EmptyRun == ASSUME ServersOK, Running, fan = NoFan PROVE servers = <<>>
<1>1. Index = {}
  <2>1. fan.result = <<>> /\ fan.result \in [Index -> Results]
    BY DEF NoFan, Running, FanType
  <2> QED BY <2>1
<1>2. Len(servers) \in Nat /\ servers \in Seq(Server)
  BY DEF ServersOK
<1>3. Len(servers) = 0
  BY <1>1, <1>2 DEF Index
<1> QED BY <1>2, <1>3

LEMMA EmptyRunNext == ServersOK' /\ Running' /\ fan' = NoFan => servers' = <<>>
<1> SUFFICES ASSUME ServersOK', Running', fan' = NoFan PROVE servers' = <<>>
  OBVIOUS
<1>1. PICK q : q = servers'
  OBVIOUS
<1>2. q \in Seq(Server)
  BY <1>1 DEF ServersOK
<1>3. 1..Len(q) = {}
  <2>1. fan'.result = <<>> /\ fan'.result \in [1..Len(q) -> Results]
    BY <1>1 DEF NoFan, Running, FanType, Index, Results, Content
  <2> QED BY <2>1
<1>4. Len(q) \in Nat
  BY <1>2
<1>5. Len(q) = 0
  BY <1>3, <1>4
<1> QED BY <1>1, <1>2, <1>5

LEMMA AsideStep == ASSUME FanInv, Link, FanAside PROVE FanInv' /\ Link'
<1>1. FanInv'
  BY DEF FanAside, fanVars, FanInv, ServersOK, ServedType, Running, FanType, FanSound, FanTime,
         Index, Wait, LongestFan
<1>2. AllIn' <=> AllIn
  BY DEF FanAside, fanVars, AllIn, Index
<1>3. Asking \/ Staging => Asking' \/ Staging'
  BY DEF FanAside, Asking, Staging
<1>4. \A t \in Tasks : PhaseOf(t)' = "staging" => PhaseOf(t) = "staging"
  BY DEF FanAside
<1> QED BY <1>1, <1>2, <1>3, <1>4 DEF Link, FanAside, fanVars

LEMMA EndsStep == ASSUME FanInv, FanEnds PROVE FanInv' /\ Link'
<1>1. FanInv'
  BY NothingServedType DEF FanEnds, FanCleared, FanInv, ServersOK, ServedType
<1>2. \A t \in Tasks : PhaseOf(t)' # "staging"
  BY DEF FanEnds, Holders, Holding
<1> QED BY <1>1, <1>2 DEF Link, FanEnds, FanCleared

LEMMA AskingStep ==
  ASSUME Types, Asking, UNCHANGED callVars, ServersOK', ServedType', Running'
  PROVE  FanInv' /\ Link'
<1>1. PICK t \in Tasks : PhaseOf(t) = "asking"
  BY DEF Asking
<1>2. \A u \in Tasks : PhaseOf(u)' = PhaseOf(u)
  BY DEF callVars, PhaseOf
<1>3. \A u \in Tasks : PhaseOf(u) # "staging"
  BY <1>1 DEF Types, Works, Holders, Holding
<1>4. Asking'
  BY <1>1, <1>2 DEF Asking
<1> QED BY <1>2, <1>3, <1>4 DEF FanInv, Link

LEMMA MovedAside ==
  ASSUME TaskType, NEW t \in Tasks, PhaseOf(t) = "queued", UNCHANGED fanVars,
         Moved(t, "over") \/ Moved(t, "restoring")
  PROVE  FanAside
<1>1. PICK p \in {"over", "restoring"} : Moved(t, p)
  OBVIOUS
<1>2. \A u \in Tasks : PhaseOf(u)' = IF u = t THEN p ELSE PhaseOf(u)
  BY <1>1, MovedPhases DEF Phases, Holding
<1> QED BY <1>2 DEF FanAside

LEMMA AsksOne ==
  ASSUME CallType, NEW c \in Call, Enqueue(c) \/ TurnedAway(c)
  PROVE  /\ Asks(c) /\ UNCHANGED fanVars
         /\ Enqueue(c) => Moved(NextRequest(c), "queued")
         /\ TurnedAway(c) => Moved(NextRequest(c), "over")
<1>1. /\ Sending(c) /\ daemon # "down" /\ UNCHANGED <<fanVars, daemon>>
      /\ \/ call' = Attempted(c, Concurrency)
         \/ call' = [call EXCEPT ![c].attempt = @ + 1, ![c].phase = "waiting"]
  BY DEF Enqueue, TurnedAway
<1>2. call'[c].attempt = call[c].attempt + 1 /\ \A d \in Call : d # c => call'[d] = call[d]
  <2>1. CASE call' = Attempted(c, Concurrency)
    BY <2>1, AttemptsGo
  <2>2. CASE call' = [call EXCEPT ![c].attempt = @ + 1, ![c].phase = "waiting"]
    BY <2>2 DEF CallType
  <2> QED BY <1>1, <2>1, <2>2
<1>3. /\ Enqueue(c) => Moved(NextRequest(c), "queued") /\ SlotsTaken < CommitQueueDepth
      /\ TurnedAway(c) => Moved(NextRequest(c), "over")
  BY DEF Enqueue, TurnedAway, Moved, NextRequest
<1> QED BY <1>1, <1>2, <1>3 DEF Asks, fanVars

LEMMA AsksAside ==
  ASSUME Types, NEW c \in Call, NEW p \in {"over", "queued"}, Asks(c),
         Moved(NextRequest(c), p), UNCHANGED fanVars
  PROVE  FanAside /\ PhaseOf(NextRequest(c)) = "none"
<1> DEFINE n == NextRequest(c)
<1>1. n \in Tasks
  BY NextIsNew DEF Asks, Sending, Types
<1>2. PhaseOf(n) = "none"
  <2>1. n[1] = c /\ n[2] = call[c].attempt + 1 /\ n[2] \in Attempt /\ call[c].attempt \in Nat
    BY <1>1, Cells DEF NextRequest, CallType, Types
  <2>2. n[2] > call[c].attempt
    BY <2>1
  <2> QED BY <2>1, <2>2 DEF Fresh, PhaseOf, Types
<1> HIDE DEF n
<1>3. \A u \in Tasks : PhaseOf(u)' = IF u = n THEN p ELSE PhaseOf(u)
  BY <1>1, MovedPhases DEF Phases, Waiting, Types, n
<1> QED BY <1>1, <1>2, <1>3 DEF FanAside, n

LEMMA LastHolder ==
  ASSUME Types, NEW t \in Tasks, Moved(t, "over"), PhaseOf(t) \in Holding \/ Holders = {}
  PROVE  Holders' = {}
<1>1. \A u \in Tasks : PhaseOf(u)' = IF u = t THEN "over" ELSE PhaseOf(u)
  BY MovedPhases DEF Types, Phases
<1>2. \A u \in Holders : u = t
  BY DEF Types, Works, Holders
<1> QED BY <1>1, <1>2 DEF Holders, Holding

LEMMA QuitsAll == ASSUME Quits PROVE Holders' = {}
<1>1. ASSUME NEW u \in Tasks PROVE PhaseOf(u)' \in {"none", "over"}
  <2>1. u[1] \in Call /\ u[2] \in Attempt
    BY Cells
  <2> QED BY <2>1 DEF Quits, PhaseOf
<1> QED BY <1>1 DEF Holders, Holding

LEMMA FanStep == ASSUME Types, FanInv, Link, [Next]_vars PROVE FanInv' /\ Link'
<1>1. ASSUME NEW c \in Call, NotReached(c)
      PROVE  FanInv' /\ Link'
  <2>1. FanAside
    BY <1>1 DEF NotReached, FanAside, fanVars, callVars, vars, PhaseOf
  <2> QED BY <2>1, AsideStep
<1>2. ASSUME NEW c \in Call, Enqueue(c)
      PROVE  FanInv' /\ Link'
  <2>1. FanAside
    <3>1. Asks(c) /\ Moved(NextRequest(c), "queued") /\ UNCHANGED fanVars
      BY <1>2, AsksOne DEF Types, Enqueue
    <3> QED BY <3>1, AsksAside DEF Phases, Waiting
  <2> QED BY <2>1, AsideStep
<1>3. ASSUME NEW c \in Call, TurnedAway(c)
      PROVE  FanInv' /\ Link'
  <2>1. FanAside
    <3>1. Asks(c) /\ Moved(NextRequest(c), "over") /\ UNCHANGED fanVars
      BY <1>3, AsksOne DEF Types, TurnedAway
    <3> QED BY <3>1, AsksAside DEF Phases, Waiting
  <2> QED BY <2>1, AsideStep
<1>4. ASSUME NEW c \in Call, GiveUp(c)
      PROVE  FanInv' /\ Link'
  <2>1. FanAside
    BY <1>4 DEF GiveUp, FanAside, fanVars, callVars, vars, PhaseOf
  <2> QED BY <2>1, AsideStep
<1>5. ASSUME NEW t \in Tasks, RefuseStopping(t)
      PROVE  FanInv' /\ Link'
  <2>1. FanAside
    <3>1. PICK r : Says(t, r)
      BY <1>5 DEF RefuseStopping
    <3>2. Moved(t, "over") /\ PhaseOf(t) = "queued" /\ UNCHANGED fanVars
      BY <1>5, <3>1, SaysMoves DEF RefuseStopping, Granted, Types
    <3> QED BY <3>2, MovedAside DEF Types
  <2> QED BY <2>1, AsideStep
<1>6. ASSUME NEW t \in Tasks, BeginCommit(t)
      PROVE  FanInv' /\ Link'
  <2>1. /\ PhaseOf(t) = "queued" /\ Holders = {} /\ UNCHANGED <<servers, served>>
        /\ \/ servers = <<>> /\ Moved(t, "staging") /\ fan' = NoFan
           \/ servers # <<>> /\ Moved(t, "asking") /\ fan' = Asked
    BY <1>6 DEF BeginCommit, Granted, Goes, Moved
  <2>2. Index' = Index /\ ServersOK' /\ ServedType'
    BY <2>1 DEF FanInv, ServersOK, ServedType, Index
  <2>3. CASE servers = <<>> /\ Moved(t, "staging") /\ fan' = NoFan
    <3>1. Index = {} /\ fan'.open = {}
      BY <2>3 DEF Index, NoFan
    <3>2. AllIn'
      BY <2>1, <2>2, <2>3, <3>1 DEF AllIn
    <3> QED BY <2>2, <2>3, <3>2 DEF FanInv, Link
  <2>4. CASE Moved(t, "asking") /\ fan' = Asked
    <3>1. ServersOK' /\ ServedType' /\ Running'
      BY <2>1, <2>4, AskedStep DEF FanInv
    <3>2. \A u \in Tasks : PhaseOf(u)' = IF u = t THEN "asking" ELSE PhaseOf(u)
      BY <2>4, MovedPhases DEF Types, Phases, Holding
    <3>3. \A u \in Tasks : PhaseOf(u)' # "staging"
      BY <2>1, <3>2 DEF Holders, Holding
    <3>4. PhaseOf(t)' = "asking"
      BY <3>2
    <3> QED BY <3>1, <3>3, <3>4 DEF FanInv, Link, Asking
  <2> QED BY <2>1, <2>3, <2>4
<1>7. ASSUME NEW t \in Tasks, GateRefuses(t)
      PROVE  FanInv' /\ Link'
  <2>1. FanAside
    <3>1. PICK r : Says(t, r)
      BY <1>7 DEF GateRefuses
    <3>2. Moved(t, "over") /\ PhaseOf(t) = "queued" /\ UNCHANGED fanVars
      BY <1>7, <3>1, SaysMoves DEF GateRefuses, Granted, Types
    <3> QED BY <3>2, MovedAside DEF Types
  <2> QED BY <2>1, AsideStep
<1>8. ASSUME NEW t \in Tasks, BeginRollback(t)
      PROVE  FanInv' /\ Link'
  <2>1. FanAside
    <3>1. Moved(t, "restoring") /\ PhaseOf(t) = "queued" /\ UNCHANGED fanVars
      BY <1>8 DEF BeginRollback, Granted, Goes, Moved
    <3> QED BY <3>1, MovedAside DEF Types
  <2> QED BY <2>1, AsideStep
<1>9. ASSUME NEW t \in Tasks, ToolsFail(t)
      PROVE  FanInv' /\ Link'
  <2>1. FanEnds
    <3>1. PICK r : Says(t, r)
      BY <1>9 DEF ToolsFail
    <3>2. /\ Moved(t, "over") /\ (PhaseOf(t) \in Holding \/ Holders = {})
          /\ FanCleared /\ UNCHANGED servers
      BY <1>9, <3>1, SaysMoves DEF ToolsFail, Granted, Types, Holding
    <3> QED BY <3>2, LastHolder DEF FanEnds
  <2> QED BY <2>1, EndsStep
<1>10. ASSUME NEW t \in Tasks, ToolsKnown(t)
      PROVE  FanInv' /\ Link'
  <2>1. /\ PhaseOf(t) = "asking" /\ Moved(t, "staging") /\ UNCHANGED <<servers, served>>
        /\ fan' = FanCollected /\ FanDone /\ ~FanFailed
    BY <1>10 DEF ToolsKnown, Goes, Moved
  <2>2. Running /\ fan.open = {}
    BY <2>1 DEF FanInv, FanDone
  <2>3. ServersOK' /\ ServedType' /\ Running' /\ fan'.open = {} /\ fan'.result = fan.result
    BY <2>1, <2>2, CollectedStep DEF FanInv
  <2>4. fan' = NoFan => servers' = <<>>
    BY <2>3, EmptyRunNext
  <2>5. AllIn'
    BY <2>1, <2>3, <2>4 DEF AllIn, FanFailed, Index
  <2>6. \A u \in Tasks : PhaseOf(u)' = IF u = t THEN "staging" ELSE PhaseOf(u)
    BY <2>1, MovedPhases DEF Types, Phases, Holding
  <2>7. PhaseOf(t)' = "staging"
    BY <2>6
  <2> QED BY <2>3, <2>5, <2>7 DEF FanInv, Link, Staging
<1>11. ASSUME NEW t \in Tasks, Record(t)
      PROVE  FanInv' /\ Link'
  <2>1. FanEnds
    <3>1. PICK r : Says(t, r)
      BY <1>11 DEF Record
    <3>2. /\ Moved(t, "over") /\ (PhaseOf(t) \in Holding \/ Holders = {})
          /\ FanCleared /\ UNCHANGED servers
      BY <1>11, <3>1, SaysMoves DEF Record, Granted, Types, Holding
    <3> QED BY <3>2, LastHolder DEF FanEnds
  <2> QED BY <2>1, EndsStep
<1>12. ASSUME NEW t \in Tasks, Fail(t)
      PROVE  FanInv' /\ Link'
  <2>1. FanEnds
    <3>1. PICK r : Says(t, r)
      BY <1>12 DEF Fail
    <3>2. /\ Moved(t, "over") /\ (PhaseOf(t) \in Holding \/ Holders = {})
          /\ FanCleared /\ UNCHANGED servers
      BY <1>12, <3>1, SaysMoves DEF Fail, Granted, Types, Holding
    <3> QED BY <3>2, LastHolder DEF FanEnds
  <2> QED BY <2>1, EndsStep
<1>13. CASE FanAnswers
  <2>1. Asking /\ UNCHANGED callVars
    BY <1>13 DEF FanAnswers
  <2>2. PICK i \in InFlight : \E a \in Answers(servers[i]) : Answer(i, a)
    BY <1>13 DEF FanAnswers
  <2>3. PICK a \in Answers(servers[i]) : Answer(i, a)
    BY <2>2
  <2>4. i \in fan.open /\ Running
    BY <2>2, NoneInFlight DEF InFlight, FanInv
  <2>5. servers[i] \in Server
    BY <2>4 DEF Running, FanType, FanInv, ServersOK, Index
  <2> DEFINE x == IF a.fault = "none" THEN a.tools ELSE Pending
  <2>6. /\ Fingerprint(a) \in Results /\ x \in Content \cup {Pending}
        /\ Fingerprint(a).ok => Fingerprint(a).manifest = x
    BY <2>3, <2>5, AnsweredWith
  <2>7. Settle(i, Fingerprint(a)) /\ served' = [served EXCEPT ![i] = x] /\ UNCHANGED servers
    BY <2>3 DEF Answer
  <2> HIDE DEF x
  <2>8. ServersOK' /\ ServedType' /\ Running'
    BY <2>4, <2>6, <2>7, SettleStep DEF FanInv
  <2> QED BY <2>1, <2>8, AskingStep
<1>14. CASE FanTimesOut
  <2>1. Asking /\ UNCHANGED callVars
    BY <1>14 DEF FanTimesOut
  <2>2. PICK i \in InFlight : TimeOut(i)
    BY <1>14 DEF FanTimesOut
  <2>3. i \in fan.open /\ Running
    BY <2>2, NoneInFlight DEF InFlight, FanInv
  <2>4. Failed("plain") \in Results /\ ~Failed("plain").ok
    BY DEF Results, Failed
  <2>5. Settle(i, Failed("plain")) /\ served' = [served EXCEPT ![i] = Pending] /\ UNCHANGED servers
    BY <2>2 DEF TimeOut
  <2>6. ServersOK' /\ ServedType' /\ Running'
    BY <2>3, <2>4, <2>5, SettleStep DEF FanInv
  <2> QED BY <2>1, <2>6, AskingStep
<1>15. ASSUME NEW setup \in world.setups, Start(setup)
      PROVE  FanInv' /\ Link'
  <2>1. /\ daemon = "down" /\ Startable(setup.mcp) /\ servers' = NamesOf(setup.mcp)
        /\ UNCHANGED <<fan, served, task>>
    BY <1>15 DEF Start
  <2>2. setup.mcp \in Seq([name : Server, url : UrlKind])
    BY <1>15, CallsAssumption DEF Types, DaemonType
  <2>3. ServersOK'
    <3> DEFINE m == setup.mcp
               S == [name : Server, url : UrlKind]
    <3>1. m \in Seq(S) /\ NamesDistinct(m)
      BY <2>1, <2>2 DEF Startable
    <3> HIDE DEF m, S
    <3>2. NamesOf(m) \in Seq(Server)
      <4>1. /\ Len(m) \in Nat /\ DOMAIN m = 1..Len(m)
            /\ \A i \in 1..Len(m) : m[i] \in S
        BY <3>1
      <4>2. NamesOf(m) \in [1..Len(m) -> Server]
        <5>1. \A i \in 1..Len(m) : m[i].name \in Server
          BY <4>1 DEF S
        <5> QED BY <4>1, <5>1 DEF NamesOf
      <4> QED BY <4>1, <4>2
    <3>3. IsInjective(NamesOf(m))
      BY <3>1, Zenon DEF NamesDistinct, NamesOf
    <3> QED BY <2>1, <3>2, <3>3 DEF ServersOK, m
  <2>4. Busy = {}
    BY <2>1 DEF Types, Works
  <2>5. \A u \in Tasks : PhaseOf(u) \notin {"asking", "staging"} /\ PhaseOf(u)' = PhaseOf(u)
    BY <2>1, <2>4 DEF Busy, Holding, PhaseOf
  <2>6. fan = NoFan
    BY <2>5 DEF Link, Asking, Staging
  <2> QED BY <2>1, <2>3, <2>5, <2>6 DEF FanInv, Link, ServedType
<1>16. CASE Shutdown
  <2>1. FanAside
    BY <1>16 DEF Shutdown, FanAside, fanVars, callVars, vars, PhaseOf
  <2> QED BY <2>1, AsideStep
<1>17. CASE Exit
  <2>1. FanEnds
    <3>1. Quits /\ FanCleared /\ UNCHANGED servers
      BY <1>17 DEF Exit, Stopped, Quits
    <3> QED BY <3>1, QuitsAll DEF FanEnds
  <2> QED BY <2>1, EndsStep
<1>18. CASE Crash
  <2>1. FanEnds
    <3>1. Quits /\ FanCleared /\ UNCHANGED servers
      BY <1>18 DEF Crash, Stopped, Quits
    <3> QED BY <3>1, QuitsAll DEF FanEnds
  <2> QED BY <2>1, EndsStep
<1>19. CASE Tick
  <2>1. fan' = FanTicked /\ FanMayTick /\ UNCHANGED <<servers, served, task>>
    BY <1>19 DEF Tick
  <2>2. \A u \in Tasks : PhaseOf(u)' = PhaseOf(u)
    BY <2>1 DEF PhaseOf
  <2>3. CASE fan = NoFan
    <3>1. UNCHANGED fanVars
      BY <2>1, <2>3, NoneInFlight DEF FanTicked, fanVars
    <3>2. FanAside
      BY <2>2, <3>1 DEF FanAside
    <3> QED BY <3>2, AsideStep
  <2>4. CASE fan # NoFan
    <3>1. Running
      BY <2>4 DEF FanInv
    <3>2. ServersOK' /\ ServedType' /\ Running' /\ fan'.open = fan.open /\ fan'.result = fan.result
      BY <2>1, <3>1, TickStep DEF FanInv
    <3>3. fan' = NoFan => servers' = <<>>
      BY <3>2, EmptyRunNext
    <3>4. AllIn => AllIn'
      BY <2>1, <3>2, <3>3 DEF AllIn, Index
    <3>5. fan' # NoFan => Asking' \/ Staging'
      BY <2>2, <2>4 DEF Link, Asking, Staging
    <3> QED BY <2>2, <3>2, <3>4, <3>5 DEF FanInv, Link
  <2> QED BY <2>3, <2>4
<1>20. CASE UNCHANGED vars
  <2>1. FanAside
    BY <1>20 DEF vars, FanAside, fanVars, callVars, vars, PhaseOf
  <2> QED BY <2>1, AsideStep
<1> QED
  BY <1>1, <1>2, <1>3, <1>4, <1>5, <1>6, <1>7, <1>8, <1>9, <1>10, <1>11,
     <1>12, <1>13, <1>14, <1>15, <1>16, <1>17, <1>18, <1>19, <1>20 DEF Next, Serve

LEMMA FanInit == ASSUME Init PROVE FanInv /\ Link
<1>1. ServersOK
  BY DEF Init, ServersOK, IsInjective
<1>2. ServedType /\ fan = NoFan
  BY NothingServedType DEF Init, ServedType
<1>3. \A t \in Tasks : PhaseOf(t) = "none"
  BY Cells DEF Init, PhaseOf
<1> QED BY <1>1, <1>2, <1>3 DEF FanInv, Link

LEMMA TypesImply == ASSUME Types, FanInv PROVE TypeOK
<1>1. FanTypeOK
  BY FanBounded
<1>2. SlotsTaken = Cardinality(Busy)
  BY DEF SlotsTaken, Busy
<1>3. Cardinality(Holders) <= 1
  <2>1. CASE Holders = {}
    BY <2>1, FS_EmptySet
  <2>2. ASSUME NEW t \in Holders PROVE Cardinality(Holders) <= 1
    <3>1. Holders = {t}
      BY <2>2 DEF Types, Works
    <3> QED BY <3>1, FS_Singleton
  <2> QED BY <2>1, <2>2
<1>4. \A c \in DOMAIN token : token[c] = None \/ token[c].age \in -(TTL + 1)..(TTL + 1)
  BY DEF Types, DaemonType, AnyToken
<1>5. unseen \in [Call -> 0..MaxAttempts]
  <2> SUFFICES ASSUME NEW c \in Call PROVE unseen[c] \in 0..MaxAttempts
    BY DEF Types, UnseenType
  <2>1. unseen[c] \in Nat /\ call[c].attempt \in 0..MaxAttempts
        /\ unseen[c] + (IF call[c].phase = "waiting" THEN 1 ELSE 0) <= call[c].attempt
    BY DEF Types, UnseenType, CallType
  <2> QED BY <2>1, CallsAssumption
<1> QED BY <1>1, <1>2, <1>3, <1>4, <1>5
        DEF TypeOK, Types, CallType, TaskType, Phases, DaemonType, LogType, Works, Tip

LEMMA ExactTools == ASSUME FanInv, Link PROVE ToolsExact
<1> SUFFICES ASSUME NEW t \in Tasks, PhaseOf(t) = "staging"
             PROVE  /\ DOMAIN Tools = Range(servers)
                    /\ \A i \in Index : Tools[servers[i]] = served[i]
  BY DEF ToolsExact
<1>1. AllIn
  BY DEF Link
<1>2. CASE fan = NoFan
  <2>1. servers = <<>> /\ Index = {} /\ Range(servers) = {}
    BY <1>1, <1>2 DEF AllIn, Index, Range
  <2>2. DOMAIN Tools = {}
    BY <1>2 DEF Tools, NoTree
  <2> QED BY <2>1, <2>2
<1>3. CASE fan # NoFan
  <2>1. Tools = ToolsMap
    BY <1>3 DEF Tools
  <2>2. DOMAIN Tools = Range(servers)
    BY <2>1 DEF ToolsMap
  <2>3. DOMAIN servers = Index /\ IsInjective(servers)
    BY DEF FanInv, ServersOK, Index
  <2>4. ASSUME NEW i \in Index PROVE Tools[servers[i]] = served[i]
    <3>1. servers[i] \in Range(servers)
      BY <2>3 DEF Range
    <3>2. (CHOOSE j \in Index : servers[j] = servers[i]) = i
      BY <2>3 DEF IsInjective
    <3>3. Tools[servers[i]] = fan.result[i].manifest
      BY <2>1, <3>1, <3>2 DEF ToolsMap
    <3> QED BY <1>1, <1>3, <3>3 DEF AllIn, FanInv, Running, FanSound
  <2> QED BY <2>2, <2>4
<1> QED BY <1>2, <1>3

-----------------------------------------------------------------------------
(***************************************************************************)
(* Approval.  A token that signs what the branch stood at is spent by the  *)
(* commit that its use records.                                            *)
(***************************************************************************)
Spent ==
  \A c \in Call : Kind[c] = "rollback" /\ c \notin world.byHash =>
    /\ \A i \in RecordedBy(c) : token[c].signs \in 0..(i - 1)
    /\ \A k \in Attempt : task[c][k] = "restoring" => token[c].signs \in 0..Tip

(* Only the approval gate lets a restore begin.                            *)
LEMMA BeginsOnly ==
  ASSUME Types, [Next]_vars, NEW b \in Tasks, PhaseOf(b)' = "restoring", PhaseOf(b) # "restoring"
  PROVE  BeginRollback(b)
<1>a. ASSUME NEW t \in Tasks, NEW p \in Phases, Moved(t, p), p # "restoring" PROVE FALSE
  <2>1. \A u \in Tasks : PhaseOf(u)' = IF u = t THEN p ELSE PhaseOf(u)
    BY <1>a, MovedPhases DEF Types
  <2> QED BY <1>a, <2>1
<1>1. ASSUME NEW c \in Call, NotReached(c)
      PROVE  BeginRollback(b)
  <2>1. \A u \in Tasks : PhaseOf(u)' = PhaseOf(u)
    BY <1>1 DEF NotReached, PhaseOf, callVars, vars
  <2> QED BY <2>1
<1>2. ASSUME NEW c \in Call, Enqueue(c)
      PROVE  BeginRollback(b)
  <2>1. Asks(c) /\ UNCHANGED fanVars /\ (Moved(NextRequest(c), "queued") \/ Moved(NextRequest(c), "over"))
    BY <1>2, AsksOne DEF Types
  <2>2. NextRequest(c) \in Tasks
    BY <2>1, NextIsNew DEF Types, Asks, Sending
  <2> QED BY <1>a, <2>1, <2>2 DEF Phases, Waiting
<1>3. ASSUME NEW c \in Call, TurnedAway(c)
      PROVE  BeginRollback(b)
  <2>1. Asks(c) /\ UNCHANGED fanVars /\ (Moved(NextRequest(c), "queued") \/ Moved(NextRequest(c), "over"))
    BY <1>3, AsksOne DEF Types
  <2>2. NextRequest(c) \in Tasks
    BY <2>1, NextIsNew DEF Types, Asks, Sending
  <2> QED BY <1>a, <2>1, <2>2 DEF Phases, Waiting
<1>4. ASSUME NEW c \in Call, GiveUp(c)
      PROVE  BeginRollback(b)
  <2>1. \A u \in Tasks : PhaseOf(u)' = PhaseOf(u)
    BY <1>4 DEF GiveUp, PhaseOf, callVars, vars
  <2> QED BY <2>1
<1>5. ASSUME NEW t \in Tasks, RefuseStopping(t)
      PROVE  BeginRollback(b)
  <2>1. PICK r : Says(t, r)
    BY <1>5 DEF RefuseStopping
  <2>2. Moved(t, "over")
    BY <2>1, SaysMoves DEF Types
  <2> QED BY <1>a, <2>2 DEF Phases
<1>6. ASSUME NEW t \in Tasks, BeginCommit(t)
      PROVE  BeginRollback(b)
  <2>1. Moved(t, "staging") \/ Moved(t, "asking")
    BY <1>6 DEF BeginCommit, Goes, Moved
  <2> QED BY <1>a, <2>1 DEF Phases, Holding
<1>7. ASSUME NEW t \in Tasks, GateRefuses(t)
      PROVE  BeginRollback(b)
  <2>1. PICK r : Says(t, r)
    BY <1>7 DEF GateRefuses
  <2>2. Moved(t, "over")
    BY <2>1, SaysMoves DEF Types
  <2> QED BY <1>a, <2>2 DEF Phases
<1>8. ASSUME NEW t \in Tasks, BeginRollback(t)
      PROVE  BeginRollback(b)
  <2>1. Moved(t, "restoring")
    BY <1>8 DEF BeginRollback, Goes, Moved
  <2>2. \A u \in Tasks : PhaseOf(u)' = IF u = t THEN "restoring" ELSE PhaseOf(u)
    BY <2>1, MovedPhases DEF Types, Phases, Holding
  <2>3. b = t
    BY <2>2
  <2> QED BY <1>8, <2>3
<1>9. ASSUME NEW t \in Tasks, ToolsFail(t)
      PROVE  BeginRollback(b)
  <2>1. PICK r : Says(t, r)
    BY <1>9 DEF ToolsFail
  <2>2. Moved(t, "over")
    BY <2>1, SaysMoves DEF Types
  <2> QED BY <1>a, <2>2 DEF Phases
<1>10. ASSUME NEW t \in Tasks, ToolsKnown(t)
      PROVE  BeginRollback(b)
  <2>1. Moved(t, "staging")
    BY <1>10 DEF ToolsKnown, Goes, Moved
  <2> QED BY <1>a, <2>1 DEF Phases, Holding
<1>11. ASSUME NEW t \in Tasks, Record(t)
      PROVE  BeginRollback(b)
  <2>1. PICK r : Says(t, r)
    BY <1>11 DEF Record
  <2>2. Moved(t, "over")
    BY <2>1, SaysMoves DEF Types
  <2> QED BY <1>a, <2>2 DEF Phases
<1>12. ASSUME NEW t \in Tasks, Fail(t)
      PROVE  BeginRollback(b)
  <2>1. PICK r : Says(t, r)
    BY <1>12 DEF Fail
  <2>2. Moved(t, "over")
    BY <2>1, SaysMoves DEF Types
  <2> QED BY <1>a, <2>2 DEF Phases
<1>13. CASE FanAnswers
  <2>1. \A u \in Tasks : PhaseOf(u)' = PhaseOf(u)
    BY <1>13 DEF FanAnswers, PhaseOf, callVars, vars
  <2> QED BY <2>1
<1>14. CASE FanTimesOut
  <2>1. \A u \in Tasks : PhaseOf(u)' = PhaseOf(u)
    BY <1>14 DEF FanTimesOut, PhaseOf, callVars, vars
  <2> QED BY <2>1
<1>15. ASSUME NEW setup \in world.setups, Start(setup)
      PROVE  BeginRollback(b)
  <2>1. \A u \in Tasks : PhaseOf(u)' = PhaseOf(u)
    BY <1>15 DEF Start, PhaseOf, callVars, vars
  <2> QED BY <2>1
<1>16. CASE Shutdown
  <2>1. \A u \in Tasks : PhaseOf(u)' = PhaseOf(u)
    BY <1>16 DEF Shutdown, PhaseOf, callVars, vars
  <2> QED BY <2>1
<1>17. CASE Exit
  <2>1. Quits
    BY <1>17 DEF Exit, Stopped, Quits
  <2> QED BY <2>1, QuitsAll DEF Holders, Holding
<1>18. CASE Crash
  <2>1. Quits
    BY <1>18 DEF Crash, Stopped, Quits
  <2> QED BY <2>1, QuitsAll DEF Holders, Holding
<1>19. CASE Tick
  <2>1. \A u \in Tasks : PhaseOf(u)' = PhaseOf(u)
    BY <1>19 DEF Tick, PhaseOf, callVars, vars
  <2> QED BY <2>1
<1>20. CASE UNCHANGED vars
  <2>1. \A u \in Tasks : PhaseOf(u)' = PhaseOf(u)
    BY <1>20 DEF vars, PhaseOf, callVars, vars
  <2> QED BY <2>1
<1> QED
  BY <1>1, <1>2, <1>3, <1>4, <1>5, <1>6, <1>7, <1>8, <1>9, <1>10, <1>11,
     <1>12, <1>13, <1>14, <1>15, <1>16, <1>17, <1>18, <1>19, <1>20 DEF Next, Serve

LEMMA SignsKept ==
  ASSUME DaemonType, [Next]_vars
  PROVE  world' = world
         /\ \A c \in Call : Kind[c] = "rollback" => token'[c].signs = token[c].signs
<1> DEFINE Goal == world' = world
              /\ \A c \in Call : Kind[c] = "rollback" => token'[c].signs = token[c].signs
<1>1. ASSUME NEW c \in Call, NotReached(c)
      PROVE  Goal
  BY <1>1 DEF NotReached, callVars, vars
<1>2. ASSUME NEW c \in Call, Enqueue(c)
      PROVE  Goal
  BY <1>2 DEF Enqueue, callVars, vars
<1>3. ASSUME NEW c \in Call, TurnedAway(c)
      PROVE  Goal
  BY <1>3 DEF TurnedAway, callVars, vars
<1>4. ASSUME NEW c \in Call, GiveUp(c)
      PROVE  Goal
  BY <1>4 DEF GiveUp, callVars, vars
<1>5. ASSUME NEW t \in Tasks, RefuseStopping(t)
      PROVE  Goal
  BY <1>5 DEF RefuseStopping, callVars, vars
<1>6. ASSUME NEW t \in Tasks, BeginCommit(t)
      PROVE  Goal
  BY <1>6 DEF BeginCommit, callVars, vars
<1>7. ASSUME NEW t \in Tasks, GateRefuses(t)
      PROVE  Goal
  BY <1>7 DEF GateRefuses, callVars, vars
<1>8. ASSUME NEW t \in Tasks, BeginRollback(t)
      PROVE  Goal
  BY <1>8 DEF BeginRollback, callVars, vars
<1>9. ASSUME NEW t \in Tasks, ToolsFail(t)
      PROVE  Goal
  BY <1>9 DEF ToolsFail, callVars, vars
<1>10. ASSUME NEW t \in Tasks, ToolsKnown(t)
      PROVE  Goal
  BY <1>10 DEF ToolsKnown, callVars, vars
<1>11. ASSUME NEW t \in Tasks, Record(t)
      PROVE  Goal
  BY <1>11 DEF Record, callVars, vars
<1>12. ASSUME NEW t \in Tasks, Fail(t)
      PROVE  Goal
  BY <1>12 DEF Fail, callVars, vars
<1>13. CASE FanAnswers
  BY <1>13 DEF FanAnswers, callVars, vars
<1>14. CASE FanTimesOut
  BY <1>14 DEF FanTimesOut, callVars, vars
<1>15. ASSUME NEW setup \in world.setups, Start(setup)
      PROVE  Goal
  BY <1>15 DEF Start, callVars, vars
<1>16. CASE Shutdown
  BY <1>16 DEF Shutdown, callVars, vars
<1>17. CASE Exit
  BY <1>17 DEF Exit, callVars, vars
<1>18. CASE Crash
  BY <1>18 DEF Crash, callVars, vars
<1>19. CASE Tick
  <2> DEFINE new(c) == IF token[c] \in {None, Malformed} \/ ~MayStillAsk(c) THEN token[c]
                       ELSE [token[c] EXCEPT !.age = Further(token[c].age)]
  <2>1. token' = [c \in DOMAIN token |-> new(c)] /\ UNCHANGED <<world>>
    BY <1>19 DEF Tick
  <2>2. ASSUME NEW c \in Call, Kind[c] = "rollback" PROVE token'[c].signs = token[c].signs
    <3>1. c \in DOMAIN token /\ token[c] \in AnyToken
      BY <2>2 DEF DaemonType
    <3>2. new(c).signs = token[c].signs
      <4>1. CASE token[c] = None
        BY <4>1
      <4>2. CASE token[c] # None
        <5>1. token[c] \in [signs : Nat, uid : Call \cup {None}, age : -(TTL + 1)..(TTL + 1)]
          BY <3>1, <4>2 DEF AnyToken
        <5>2. [token[c] EXCEPT !.age = Further(token[c].age)].signs = token[c].signs
          BY <5>1
        <5> QED BY <5>2
      <4> QED BY <4>1, <4>2
    <3> HIDE DEF new
    <3> QED BY <2>1, <3>1, <3>2
  <2> QED BY <2>1, <2>2
<1>20. CASE UNCHANGED vars
  BY <1>20 DEF vars, callVars, vars
<1> QED
  BY <1>1, <1>2, <1>3, <1>4, <1>5, <1>6, <1>7, <1>8, <1>9, <1>10, <1>11,
     <1>12, <1>13, <1>14, <1>15, <1>16, <1>17, <1>18, <1>19, <1>20 DEF Next, Serve

(* What the gate asks of the token.                                        *)
LEMMA Gated ==
  ASSUME Types, NEW t \in Tasks, BeginRollback(t)
  PROVE  /\ Kind[t[1]] = "rollback" /\ approvals.key /\ approvals.attested
         /\ token[t[1]].uid = t[1] /\ token[t[1]].age \in -TTL..TTL
         /\ token[t[1]].signs = Resolved(t[1]) /\ token[t[1]].signs \in Nat
         /\ UNCHANGED <<log, token, world>>
<1> DEFINE c == t[1]
           y == token[c]
<1>1. c \in Call /\ Kind[c] = "rollback" /\ ApprovalGate(c, Resolved(c)) /\ UNCHANGED <<log, token, world>>
  BY Cells DEF BeginRollback
<1>2. approvals.key /\ approvals.attested /\ y # None /\ Verifies(y, Resolved(c), c)
  BY <1>1 DEF ApprovalGate
<1>3. y \in AnyToken
  BY <1>1 DEF Types, DaemonType
<1> HIDE DEF y
<1>4. y \in [signs : Nat, uid : Call \cup {None}, age : -(TTL + 1)..(TTL + 1)]
  BY <1>2, <1>3 DEF AnyToken
<1>5. y.signs = Resolved(c) /\ y.uid = c /\ InWindow(y.age)
  BY <1>2 DEF Verifies
<1>6. y.age \in -TTL..TTL
  <2>1. TTL \in Nat /\ y.age \in -(TTL + 1)..(TTL + 1)
    BY <1>4, CallsAssumption
  <2> QED BY <1>5, <2>1 DEF InWindow
<1> QED BY <1>1, <1>2, <1>4, <1>5, <1>6 DEF y

LEMMA SpentStep == ASSUME Types, Spent, [Next]_vars PROVE Spent'
<1>1. SUFFICES ASSUME NEW c \in Call, Kind[c] = "rollback", c \notin world'.byHash
               PROVE  /\ \A i \in RecordedBy(c)' : token'[c].signs \in 0..(i - 1)
                      /\ \A k \in Attempt : task'[c][k] = "restoring" => token'[c].signs \in 0..Tip'
  BY DEF Spent
<1>2. c \notin world.byHash /\ token'[c].signs = token[c].signs
  BY <1>1, SignsKept DEF Types
<1>3. /\ \A i \in RecordedBy(c) : token[c].signs \in 0..(i - 1)
      /\ \A k \in Attempt : task[c][k] = "restoring" => token[c].signs \in 0..Tip
  BY <1>1, <1>2 DEF Spent
<1>4. Tip \in Nat /\ Tip' \in Nat /\ Tip <= Tip'
  <2>1. CASE UNCHANGED log
    <3>1. PICK S : log \in Seq(S)
      BY DEF Types, LogType
    <3> QED BY <2>1, <3>1 DEF Tip
  <2>2. ASSUME NEW t \in Tasks, NEW T, log' = Append(log, [by |-> t[1], tools |-> T])
        PROVE  Tip \in Nat /\ Tip' \in Nat /\ Tip <= Tip'
    <3>1. Tip \in Nat /\ Tip' = Tip + 1
      BY <2>2, Appended DEF Types
    <3> QED BY <3>1
  <2> QED BY <2>1, <2>2, LogMoves
<1>5. ASSUME NEW i \in RecordedBy(c)' PROVE token'[c].signs \in 0..(i - 1)
  <2>1. CASE UNCHANGED log
    BY <1>2, <1>3, <1>5, <2>1 DEF RecordedBy, Tip
  <2>2. ASSUME NEW t \in Tasks, Record(t), NEW T, log' = Append(log, [by |-> t[1], tools |-> T])
        PROVE  token'[c].signs \in 0..(i - 1)
    <3>1. /\ Tip' = Tip + 1 /\ log'[Tip + 1] = [by |-> t[1], tools |-> T]
          /\ \A j \in 1..Tip : log'[j] = log[j]
      BY <2>2, Appended DEF Types
    <3>2. i \in 1..Tip' /\ log'[i].by = c
      BY <1>5 DEF RecordedBy
    <3>3. CASE i \in 1..Tip
      BY <1>2, <1>3, <3>1, <3>2, <3>3 DEF RecordedBy
    <3>4. CASE i = Tip + 1
      <4>1. c = t[1] /\ t[2] \in Attempt
        BY <3>1, <3>2, <3>4, Cells
      <4>2. PhaseOf(t) = "restoring"
        BY <1>1, <2>2, <4>1 DEF Record, Types, Works
      <4>3. token[c].signs \in 0..Tip
        BY <1>3, <4>1, <4>2 DEF PhaseOf
      <4> QED BY <1>2, <1>4, <3>4, <4>3
    <3> QED BY <1>4, <3>1, <3>2, <3>3, <3>4
  <2> QED BY <2>1, <2>2, LogMoves
<1>6. ASSUME NEW k \in Attempt, task'[c][k] = "restoring" PROVE token'[c].signs \in 0..Tip'
  <2> DEFINE b == <<c, k>>
  <2>1. b \in Tasks /\ PhaseOf(b) = task[c][k] /\ PhaseOf(b)' = task'[c][k] /\ b[1] = c
    BY Cells DEF PhaseOf
  <2> HIDE DEF b
  <2>2. CASE PhaseOf(b) = "restoring"
    <3>1. token[c].signs \in 0..Tip
      BY <1>3, <2>1, <2>2
    <3> QED BY <1>2, <1>4, <3>1
  <2>3. CASE PhaseOf(b) # "restoring"
    <3>1. BeginRollback(b)
      BY <1>6, <2>1, <2>3, BeginsOnly
    <3>2. token[c].signs = Tip /\ Tip' = Tip
      BY <1>2, <2>1, <3>1, Gated DEF Resolved, Tip
    <3> QED BY <1>2, <1>4, <3>2
  <2> QED BY <2>2, <2>3
<1> QED BY <1>5, <1>6

LEMMA SpentInit == ASSUME Init PROVE Spent
<1>1. \A c \in Call, k \in Attempt : task[c][k] = "none"
  BY DEF Init
<1>2. ASSUME NEW c \in Call, Kind[c] = "rollback", NEW i \in RecordedBy(c) PROVE token[c].signs \in 0..(i - 1)
  <2>1. log = <<[by |-> None, tools |-> NoTree]>>
    BY DEF Init
  <2>2. Len(log) = 1 /\ log[1].by = None
    BY <2>1
  <2> QED BY <1>2, <2>2, CallsAssumption DEF RecordedBy, Tip
<1> QED BY <1>1, <1>2 DEF Spent

-----------------------------------------------------------------------------
(***************************************************************************)
(* Recorded commits.  A request that nobody waits for any more may still   *)
(* record one: those are as many as the client did not learn the end of.   *)
(***************************************************************************)
Silent(c) == {k \in Attempt : task[c][k] \in Waiting \cup Holding /\ ~WaitedFor(<<c, k>>)}

CountedFor(c) ==
  /\ call[c].result = "ok" => call[c].phase = "ended" /\ RecordedBy(c) # {}
  /\ Cardinality(RecordedBy(c)) + Cardinality(Silent(c))
       <= unseen[c] + (IF call[c].result = "ok" THEN 1 ELSE 0)

Counted == \A c \in Call : CountedFor(c)

(* A step after which no more may be recorded than before.                 *)
Calm(c) ==
  /\ RecordedBy(c)' = RecordedBy(c) /\ unseen'[c] = unseen[c]
  /\ Silent(c)' \subseteq Silent(c)
  /\ call'[c] = call[c] \/ (call[c].phase # "ended" /\ call'[c].result # "ok")

Finites(c) ==
  /\ IsFiniteSet(RecordedBy(c)) /\ Cardinality(RecordedBy(c)) \in Nat
  /\ IsFiniteSet(Silent(c)) /\ Cardinality(Silent(c)) \in Nat
  /\ unseen[c] \in Nat

LEMMA FiniteParts ==
  ASSUME NEW n \in Nat, NEW S \in SUBSET (1..n)
  PROVE  IsFiniteSet(S) /\ Cardinality(S) \in Nat
<1>1. 1 \in Int /\ n \in Int
  OBVIOUS
<1>2. IsFiniteSet(1..n)
  BY <1>1, FS_Interval, Zenon
<1> QED BY <1>2, FS_Subset, FS_CardinalityType

LEMMA AllFinite == ASSUME Types, NEW c \in Call PROVE Finites(c)
<1>1. Tip \in Nat
  <2>1. PICK S : log \in Seq(S)
    BY DEF Types, LogType
  <2> QED BY <2>1 DEF Tip
<1>2. IsFiniteSet(RecordedBy(c)) /\ Cardinality(RecordedBy(c)) \in Nat
  <2>1. RecordedBy(c) \in SUBSET (1..Tip)
    BY DEF RecordedBy
  <2> QED BY <1>1, <2>1, FiniteParts
<1>3. IsFiniteSet(Silent(c)) /\ Cardinality(Silent(c)) \in Nat
  <2>1. Silent(c) \in SUBSET (1..MaxAttempts) /\ MaxAttempts \in Nat
    BY CallsAssumption DEF Silent, Attempt
  <2> QED BY <2>1, FiniteParts
<1> QED BY <1>2, <1>3 DEF Finites, Types, UnseenType

LEMMA AllFiniteNext == ASSUME Types', NEW c \in Call PROVE Finites(c)'
<1>1. Tip' \in Nat
  <2>1. PICK S : log' \in Seq(S)
    BY DEF Types, LogType
  <2>2. Len(log') \in Nat
    BY <2>1
  <2> QED BY <2>2 DEF Tip
<1>2. IsFiniteSet(RecordedBy(c)') /\ Cardinality(RecordedBy(c)') \in Nat
  <2>1. RecordedBy(c)' \in SUBSET (1..Tip')
    BY DEF RecordedBy
  <2> QED BY <1>1, <2>1, FiniteParts
<1>3. IsFiniteSet(Silent(c)') /\ Cardinality(Silent(c)') \in Nat
  <2>1. Silent(c)' \in SUBSET (1..MaxAttempts) /\ MaxAttempts \in Nat
    BY CallsAssumption DEF Silent, Attempt
  <2> QED BY <2>1, FiniteParts
<1> QED BY <1>2, <1>3 DEF Finites, Types, UnseenType

LEMMA OneMore ==
  ASSUME NEW S, NEW T, NEW x, IsFiniteSet(S), IsFiniteSet(T), T \subseteq S \cup {x}
  PROVE  Cardinality(T) <= Cardinality(S) + 1
<1>1. IsFiniteSet(S \cup {x}) /\ Cardinality(S \cup {x}) <= Cardinality(S) + 1
  <2>1. Cardinality(S) \in Nat
    BY FS_CardinalityType
  <2>2. CASE x \in S
    <3>1. S \cup {x} = S
      BY <2>2
    <3>2. IsFiniteSet(S \cup {x}) /\ Cardinality(S \cup {x}) = Cardinality(S)
      BY <3>1, Zenon
    <3> QED BY <2>1, <3>2
  <2>3. CASE x \notin S
    <3>1. IsFiniteSet(S \cup {x}) /\ Cardinality(S \cup {x}) = Cardinality(S) + 1
      BY <2>3, FS_AddElement
    <3> QED BY <2>1, <3>1
  <2> QED BY <2>2, <2>3
<1>2. Cardinality(T) <= Cardinality(S \cup {x})
  BY <1>1, FS_Subset
<1>3. Cardinality(T) \in Nat /\ Cardinality(S) \in Nat /\ Cardinality(S \cup {x}) \in Nat
  BY <1>1, FS_CardinalityType
<1> QED BY <1>1, <1>2, <1>3

LEMMA CalmCount ==
  ASSUME NEW c \in Call, Finites(c), Finites(c)', CountedFor(c), Calm(c)
  PROVE  CountedFor(c)'
<1>1. Cardinality(Silent(c)') <= Cardinality(Silent(c))
  BY FS_Subset DEF Finites, Calm
<1>2. call[c].phase # "ended" => call[c].result # "ok"
  BY DEF CountedFor
<1> QED BY <1>1, <1>2 DEF CountedFor, Calm, Finites

LEMMA RowCalm ==
  ASSUME NEW c \in Call, UNCHANGED log, unseen'[c] = unseen[c],
         call'[c] = call[c], task'[c] = task[c]
  PROVE  Calm(c)
<1>1. RecordedBy(c)' = RecordedBy(c)
  BY DEF RecordedBy, Tip
<1>2. Silent(c)' = Silent(c)
  BY DEF Silent, WaitedFor
<1> QED BY <1>1, <1>2 DEF Calm

LEMMA SameCalm ==
  ASSUME NEW c \in Call, UNCHANGED <<task, call, log, unseen>>
  PROVE  Calm(c)
BY RowCalm

LEMMA AfterResult ==
  /\ \A k, r : After(k, r).result = (IF r = Ok THEN "ok" ELSE "error") /\ After(k, r).attempt = k
  /\ \A k, r : After(k, r).phase # "waiting"
BY DEF After

LEMMA NotOk ==
  /\ Concurrency # Ok /\ ApprovalError # Ok /\ ShuttingDownError # Ok
  /\ Unreachable # Ok /\ TimedOutError # Ok /\ FramingError # Ok /\ SocketError # Ok
  /\ \A w : TextError(w) # Ok
  /\ \A r \in MemoryErrors \cup CoreErrors : r # Ok
<1>1. \A b : Error("concurrency", b).class # "ok" /\ Error("memory", b).class # "ok"
            /\ Error("validation", b).class # "ok" /\ Error("not_found", b).class # "ok"
            /\ Error("storage", b).class # "ok" /\ Error("internal", b).class # "ok"
            /\ Error("protocol", b).class # "ok"
  BY DEF Error
<1>2. Ok.class = "ok"
  BY DEF Ok
<1> HIDE DEF Error, Ok
<1>3. \A w : TextError(w).class # "ok"
  BY <1>1 DEF TextError, Concurrency
<1>4. /\ Concurrency # Ok /\ ApprovalError # Ok /\ ShuttingDownError # Ok
      /\ Unreachable # Ok /\ TimedOutError # Ok /\ FramingError # Ok /\ SocketError # Ok
      /\ \A w : TextError(w) # Ok
  BY <1>1, <1>2, <1>3 DEF Concurrency, ApprovalError, ShuttingDownError, Unreachable,
                          TimedOutError, FramingError, SocketError
<1>5. \A r \in MemoryErrors \cup CoreErrors : r # Ok
  BY <1>1, <1>2 DEF MemoryErrors, CoreErrors
<1> QED BY <1>4, <1>5

LEMMA SaysCalm ==
  ASSUME CallType, TaskType, NEW t \in Tasks, NEW r, Says(t, r), r # Ok,
         UNCHANGED <<log, unseen>>, NEW c \in Call
  PROVE  Calm(c)
<1>1. t[1] \in Call /\ t[2] \in Attempt /\ task' = [task EXCEPT ![t[1]][t[2]] = "over"]
  BY Cells DEF Says, Over
<1>2. CASE c # t[1]
  <2>1. call'[c] = call[c] /\ task'[c] = task[c]
    BY <1>1, <1>2 DEF Says, Concluded, CallType, TaskType
  <2> QED BY <2>1, RowCalm
<1>3. CASE c = t[1]
  <2>1. \A k \in Attempt : task'[c][k] = IF k = t[2] THEN "over" ELSE task[c][k]
    BY <1>1, <1>3 DEF TaskType
  <2>2. RecordedBy(c)' = RecordedBy(c)
    BY DEF RecordedBy, Tip
  <2>3. CASE WaitedFor(t)
    <3>1. call[c].phase = "waiting" /\ call[c].attempt = t[2] /\ call'[c] = After(call[c].attempt, r)
      BY <1>1, <1>3, <2>3 DEF Says, WaitedFor, Concluded, CallType
    <3>2. Silent(c)' \subseteq Silent(c)
      BY <2>1, <3>1 DEF Silent, WaitedFor, Waiting, Holding
    <3> QED BY <2>2, <3>1, <3>2, AfterResult DEF Calm
  <2>4. CASE ~WaitedFor(t)
    <3>1. call' = call
      BY <2>4 DEF Says
    <3>2. Silent(c)' \subseteq Silent(c)
      BY <2>1, <3>1 DEF Silent, WaitedFor, Waiting, Holding
    <3> QED BY <2>2, <3>1, <3>2 DEF Calm
  <2> QED BY <2>3, <2>4
<1> QED BY <1>2, <1>3

LEMMA GoesCalm ==
  ASSUME TaskType, NEW t \in Tasks, NEW p, Goes(t, p), PhaseOf(t) \in Waiting \cup Holding,
         UNCHANGED <<log, unseen>>, NEW c \in Call
  PROVE  Calm(c)
<1>1. t[1] \in Call /\ t[2] \in Attempt /\ task' = [task EXCEPT ![t[1]][t[2]] = p] /\ call' = call
  BY Cells DEF Goes
<1>2. CASE c # t[1]
  <2>1. task'[c] = task[c]
    BY <1>1, <1>2 DEF TaskType
  <2> QED BY <1>1, <2>1, RowCalm
<1>3. CASE c = t[1]
  <2>1. \A k \in Attempt : k # t[2] => task'[c][k] = task[c][k]
    BY <1>1, <1>3 DEF TaskType
  <2>2. RecordedBy(c)' = RecordedBy(c)
    BY DEF RecordedBy, Tip
  <2>3. task[c][t[2]] \in Waiting \cup Holding
    BY <1>3 DEF PhaseOf
  <2>4. Silent(c)' \subseteq Silent(c)
    BY <1>1, <2>1, <2>3 DEF Silent, WaitedFor
  <2> QED BY <1>1, <2>2, <2>4 DEF Calm
<1> QED BY <1>2, <1>3

LEMMA CountStep ==
  ASSUME Types, Types', NEW d \in Call, CountedFor(d), [Next]_vars
  PROVE  CountedFor(d)'
<1>a. Finites(d) /\ Finites(d)'
  BY AllFinite, AllFiniteNext
<1>b. /\ IsFiniteSet(RecordedBy(d)) /\ Cardinality(RecordedBy(d)) \in Nat
      /\ IsFiniteSet(Silent(d)) /\ Cardinality(Silent(d)) \in Nat
      /\ IsFiniteSet(Silent(d)') /\ Cardinality(Silent(d)') \in Nat
      /\ IsFiniteSet(RecordedBy(d)') /\ Cardinality(RecordedBy(d)') \in Nat /\ unseen[d] \in Nat
  BY <1>a DEF Finites
<1>c. call[d].phase # "ended" => call[d].result # "ok"
  BY DEF CountedFor
<1>1. ASSUME NEW c \in Call, NotReached(c)
      PROVE  CountedFor(d)'
  <2>1. UNCHANGED <<log, unseen, task>> /\ call[c].phase = "idle" /\ call' = Attempted(c, Unreachable)
    BY <1>1 DEF NotReached, Sending
  <2>2. CASE d # c
    <3>1. call'[d] = call[d] /\ task'[d] = task[d]
      BY <2>1, <2>2 DEF Attempted, Types, CallType, TaskType
    <3> QED BY <2>1, <3>1, RowCalm, <1>a, CalmCount
  <2>3. CASE d = c
    <3>1. call'[d].result # "ok"
      BY <2>1, <2>3, AfterResult, NotOk DEF Attempted, Types, CallType
    <3>2. Silent(d)' \subseteq Silent(d)
      BY <2>1, <2>3 DEF Silent, WaitedFor
    <3>3. Calm(d)
      BY <2>1, <2>3, <3>1, <3>2 DEF Calm, RecordedBy, Tip
    <3> QED BY <3>3, <1>a, CalmCount
  <2> QED BY <2>2, <2>3
<1>2. ASSUME NEW c \in Call, Enqueue(c)
      PROVE  CountedFor(d)'
  <2>1. /\ UNCHANGED <<log, unseen>> /\ call[c].phase = "idle"
        /\ task' = [task EXCEPT ![c][call[c].attempt + 1] = "queued"]
        /\ call' = [call EXCEPT ![c].attempt = call[c].attempt + 1, ![c].phase = "waiting"]
    BY <1>2 DEF Enqueue, Sending
  <2>2. CASE d # c
    <3>1. call'[d] = call[d] /\ task'[d] = task[d]
      BY <2>1, <2>2 DEF Attempted, Types, CallType, TaskType
    <3> QED BY <2>1, <3>1, RowCalm, <1>a, CalmCount
  <2>3. CASE d = c
    <3>1. call'[d].result # "ok"
      <4>1. call[c].result # "ok"
        BY <2>1, <2>3, <1>c
      <4>2. CASE call' = Attempted(c, Concurrency)
        BY <2>3, <4>2, AfterResult, NotOk DEF Attempted, Types, CallType
      <4>3. CASE call' = [call EXCEPT ![c].attempt = call[c].attempt + 1, ![c].phase = "waiting"]
        BY <2>3, <4>1, <4>3 DEF Types, CallType
      <4> QED BY <2>1, <4>2, <4>3
    <3>2. \A k \in Attempt : task'[d][k] = IF k = call[d].attempt + 1 THEN "queued" ELSE task[d][k]
      BY <2>1, <2>3 DEF Types, TaskType
    <3>3. call'[d].phase = "waiting" /\ call'[d].attempt = call[d].attempt + 1
      BY <2>1, <2>3 DEF Attempted, After, Types, CallType
    <3>4. Silent(d)' \subseteq Silent(d)
      BY <2>1, <2>3, <3>2, <3>3 DEF Silent, WaitedFor, Waiting, Holding
    <3>5. Calm(d)
      BY <2>1, <2>3, <3>1, <3>4 DEF Calm, RecordedBy, Tip
    <3> QED BY <3>5, <1>a, CalmCount
  <2> QED BY <2>2, <2>3
<1>3. ASSUME NEW c \in Call, TurnedAway(c)
      PROVE  CountedFor(d)'
  <2>1. /\ UNCHANGED <<log, unseen>> /\ call[c].phase = "idle"
        /\ task' = [task EXCEPT ![c][call[c].attempt + 1] = "over"]
        /\ (call' = Attempted(c, Concurrency) \/ call' = [call EXCEPT ![c].attempt = call[c].attempt + 1, ![c].phase = "waiting"])
    BY <1>3 DEF TurnedAway, Sending
  <2>2. CASE d # c
    <3>1. call'[d] = call[d] /\ task'[d] = task[d]
      BY <2>1, <2>2 DEF Attempted, Types, CallType, TaskType
    <3> QED BY <2>1, <3>1, RowCalm, <1>a, CalmCount
  <2>3. CASE d = c
    <3>1. call'[d].result # "ok"
      <4>1. call[c].result # "ok"
        BY <2>1, <2>3, <1>c
      <4>2. CASE call' = Attempted(c, Concurrency)
        BY <2>3, <4>2, AfterResult, NotOk DEF Attempted, Types, CallType
      <4>3. CASE call' = [call EXCEPT ![c].attempt = call[c].attempt + 1, ![c].phase = "waiting"]
        BY <2>3, <4>1, <4>3 DEF Types, CallType
      <4> QED BY <2>1, <4>2, <4>3
    <3>2. \A k \in Attempt : task'[d][k] = IF k = call[d].attempt + 1 THEN "over" ELSE task[d][k]
      BY <2>1, <2>3 DEF Types, TaskType
    <3>3. TRUE
      BY <2>1, <2>3 DEF Attempted, After, Types, CallType
    <3>4. Silent(d)' \subseteq Silent(d)
      BY <2>1, <2>3, <3>2, <3>3 DEF Silent, WaitedFor, Waiting, Holding
    <3>5. Calm(d)
      BY <2>1, <2>3, <3>1, <3>4 DEF Calm, RecordedBy, Tip
    <3> QED BY <3>5, <1>a, CalmCount
  <2> QED BY <2>2, <2>3
<1>4. ASSUME NEW c \in Call, GiveUp(c)
      PROVE  CountedFor(d)'
  <2>1. /\ call[c].phase = "waiting" /\ unseen' = [unseen EXCEPT ![c] = unseen[c] + 1]
        /\ UNCHANGED <<log, task>>
    BY <1>4 DEF GiveUp
  <2>2. PICK r : call' = Concluded(c, r) /\ r # Ok
    BY <1>4, NotOk DEF GiveUp
  <2>3. CASE d # c
    <3>1. call'[d] = call[d] /\ task'[d] = task[d] /\ unseen'[d] = unseen[d]
      BY <2>1, <2>2, <2>3 DEF Concluded, Types, CallType, TaskType, UnseenType
    <3> QED BY <2>1, <3>1, RowCalm, <1>a, CalmCount
  <2>4. CASE d = c
    <3>1. call'[d].result # "ok" /\ call'[d].phase # "waiting" /\ unseen'[d] = unseen[d] + 1
      BY <2>1, <2>2, <2>4, AfterResult, AfterType DEF Concluded, Types, CallType, UnseenType
    <3>2. Silent(d)' \subseteq Silent(d) \cup {call[d].attempt}
      BY <2>1 DEF Silent, WaitedFor
    <3>3. RecordedBy(d)' = RecordedBy(d) /\ call[d].result # "ok"
      BY <2>1, <2>4 DEF RecordedBy, Tip, CountedFor
    <3>4. Cardinality(Silent(d)') <= Cardinality(Silent(d)) + 1
      BY <3>2, OneMore, <1>b
    <3> QED BY <3>1, <3>3, <3>4, <1>b DEF CountedFor
  <2> QED BY <2>3, <2>4
<1>5. ASSUME NEW t \in Tasks, RefuseStopping(t)
      PROVE  CountedFor(d)'
  <2>1. PICK r : Says(t, r) /\ r # Ok
    BY <1>5, NotOk DEF RefuseStopping
  <2>2. UNCHANGED <<log, unseen>>
    BY <1>5 DEF RefuseStopping
  <2> QED BY <2>1, <2>2, SaysCalm, <1>a, CalmCount DEF Types
<1>6. ASSUME NEW t \in Tasks, BeginCommit(t)
      PROVE  CountedFor(d)'
  <2>1. PICK p : Goes(t, p)
    BY <1>6 DEF BeginCommit
  <2>2. PhaseOf(t) \in Waiting \cup Holding /\ UNCHANGED <<log, unseen>>
    BY <1>6 DEF BeginCommit, Granted, Waiting, Holding
  <2> QED BY <2>1, <2>2, GoesCalm, <1>a, CalmCount DEF Types
<1>7. ASSUME NEW t \in Tasks, GateRefuses(t)
      PROVE  CountedFor(d)'
  <2>1. PICK r : Says(t, r) /\ r # Ok
    BY <1>7, NotOk DEF GateRefuses
  <2>2. UNCHANGED <<log, unseen>>
    BY <1>7 DEF GateRefuses
  <2> QED BY <2>1, <2>2, SaysCalm, <1>a, CalmCount DEF Types
<1>8. ASSUME NEW t \in Tasks, BeginRollback(t)
      PROVE  CountedFor(d)'
  <2>1. PICK p : Goes(t, p)
    BY <1>8 DEF BeginRollback
  <2>2. PhaseOf(t) \in Waiting \cup Holding /\ UNCHANGED <<log, unseen>>
    BY <1>8 DEF BeginRollback, Granted, Waiting, Holding
  <2> QED BY <2>1, <2>2, GoesCalm, <1>a, CalmCount DEF Types
<1>9. ASSUME NEW t \in Tasks, ToolsFail(t)
      PROVE  CountedFor(d)'
  <2>1. PICK r : Says(t, r) /\ r # Ok
    BY <1>9, NotOk DEF ToolsFail
  <2>2. UNCHANGED <<log, unseen>>
    BY <1>9 DEF ToolsFail
  <2> QED BY <2>1, <2>2, SaysCalm, <1>a, CalmCount DEF Types
<1>10. ASSUME NEW t \in Tasks, ToolsKnown(t)
      PROVE  CountedFor(d)'
  <2>1. PICK p : Goes(t, p)
    BY <1>10 DEF ToolsKnown
  <2>2. PhaseOf(t) \in Waiting \cup Holding /\ UNCHANGED <<log, unseen>>
    BY <1>10 DEF ToolsKnown, Granted, Waiting, Holding
  <2> QED BY <2>1, <2>2, GoesCalm, <1>a, CalmCount DEF Types
<1>11. ASSUME NEW t \in Tasks, Record(t)
      PROVE  CountedFor(d)'
  <2>1. Says(t, Ok) /\ UNCHANGED unseen /\ PhaseOf(t) \in {"staging", "restoring"}
        /\ \E T : log' = Append(log, [by |-> t[1], tools |-> T])
    BY <1>11 DEF Record, AfterRecord
  <2>2. PICK T : log' = Append(log, [by |-> t[1], tools |-> T])
    BY <2>1
  <2>3. /\ Tip \in Nat /\ Tip' = Tip + 1 /\ log'[Tip + 1] = [by |-> t[1], tools |-> T]
        /\ \A i \in 1..Tip : log'[i] = log[i]
    BY <2>2, Appended DEF Types
  <2>4. /\ RecordedBy(d)' = IF d = t[1] THEN RecordedBy(d) \cup {Tip + 1} ELSE RecordedBy(d)
        /\ Tip + 1 \notin RecordedBy(d)
    BY <2>3 DEF RecordedBy
  <2>5. t[1] \in Call /\ t[2] \in Attempt /\ t = <<t[1], t[2]>>
    BY Cells
  <2>6. task' = [task EXCEPT ![t[1]][t[2]] = "over"]
    BY <2>1 DEF Says, Over
  <2>7. CASE d # t[1]
    <3>1. call'[d] = call[d] /\ task'[d] = task[d] /\ RecordedBy(d)' = RecordedBy(d) /\ unseen' = unseen
      BY <2>1, <2>4, <2>5, <2>6, <2>7 DEF Says, Concluded, Types, CallType, TaskType
    <3>2. Silent(d)' = Silent(d)
      BY <3>1 DEF Silent, WaitedFor
    <3> QED BY <3>1, <3>2 DEF CountedFor
  <2>8. CASE d = t[1]
    <3>1. \A k \in Attempt : task'[d][k] = IF k = t[2] THEN "over" ELSE task[d][k]
      BY <2>5, <2>6, <2>8 DEF Types, TaskType
    <3>2. RecordedBy(d)' = RecordedBy(d) \cup {Tip + 1} /\ RecordedBy(d)' # {}
          /\ Cardinality(RecordedBy(d)') = Cardinality(RecordedBy(d)) + 1
      BY <2>4, <2>8, <1>b, FS_AddElement
    <3>3. CASE WaitedFor(t)
      <4>1. /\ call[d].phase = "waiting" /\ call[d].attempt = t[2]
            /\ call'[d] = After(call[d].attempt, Ok)
        BY <2>1, <2>8, <2>5, <3>3 DEF Says, WaitedFor, Concluded, Types, CallType
      <4>2. call'[d].result = "ok" /\ call'[d].phase = "ended"
        BY <4>1 DEF After, Raised, Ok
      <4>3. Silent(d)' \subseteq Silent(d)
        BY <3>1, <4>1 DEF Silent, WaitedFor, Waiting, Holding
      <4>4. Cardinality(Silent(d)') <= Cardinality(Silent(d))
        BY <4>3, <1>b, FS_Subset
      <4>5. call[d].result # "ok" /\ unseen'[d] = unseen[d]
        BY <2>1, <4>1 DEF CountedFor
      <4> QED BY <3>2, <4>2, <4>4, <4>5, <1>b DEF CountedFor
    <3>4. CASE ~WaitedFor(t)
      <4>1. call' = call /\ unseen' = unseen
        BY <2>1, <3>4 DEF Says
      <4>2. t[2] \in Silent(d)
        BY <2>1, <2>5, <2>8, <3>4 DEF Silent, PhaseOf, Holding
      <4>3. Silent(d)' = Silent(d) \ {t[2]}
        BY <3>1, <4>1 DEF Silent, WaitedFor, Waiting, Holding
      <4>4. Cardinality(Silent(d)') = Cardinality(Silent(d)) - 1
        BY <4>2, <4>3, <1>b, FS_RemoveElement
      <4> QED BY <3>2, <4>1, <4>4, <1>b DEF CountedFor
    <3> QED BY <3>3, <3>4
  <2> QED BY <2>7, <2>8
<1>12. ASSUME NEW t \in Tasks, Fail(t)
      PROVE  CountedFor(d)'
  <2>1. PICK r : Says(t, r) /\ r # Ok
    BY <1>12, NotOk DEF Fail
  <2>2. UNCHANGED <<log, unseen>>
    BY <1>12 DEF Fail
  <2> QED BY <2>1, <2>2, SaysCalm, <1>a, CalmCount DEF Types
<1>13. CASE FanAnswers
  <2>1. UNCHANGED <<task, call, log, unseen>>
    BY <1>13 DEF FanAnswers, callVars, vars
  <2> QED BY <2>1, SameCalm, <1>a, CalmCount
<1>14. CASE FanTimesOut
  <2>1. UNCHANGED <<task, call, log, unseen>>
    BY <1>14 DEF FanTimesOut, callVars, vars
  <2> QED BY <2>1, SameCalm, <1>a, CalmCount
<1>15. ASSUME NEW setup \in world.setups, Start(setup)
      PROVE  CountedFor(d)'
  <2>1. UNCHANGED <<task, call, log, unseen>>
    BY <1>15 DEF Start, callVars, vars
  <2> QED BY <2>1, SameCalm, <1>a, CalmCount
<1>16. CASE Shutdown
  <2>1. UNCHANGED <<task, call, log, unseen>>
    BY <1>16 DEF Shutdown, callVars, vars
  <2> QED BY <2>1, SameCalm, <1>a, CalmCount
<1>17. CASE Exit
  <2>1. Quits /\ UNCHANGED <<log, unseen>>
    BY <1>17 DEF Exit, Stopped, Quits
  <2>2. Silent(d)' = {}
    BY <2>1 DEF Quits, Silent, Waiting, Holding
  <2>3. Calm(d)
    BY <2>1, <2>2 DEF Quits, Calm, RecordedBy, Tip
  <2> QED BY <2>3, <1>a, CalmCount
<1>18. CASE Crash
  <2>1. Quits /\ UNCHANGED <<log, unseen>>
    BY <1>18 DEF Crash, Stopped, Quits
  <2>2. Silent(d)' = {}
    BY <2>1 DEF Quits, Silent, Waiting, Holding
  <2>3. Calm(d)
    BY <2>1, <2>2 DEF Quits, Calm, RecordedBy, Tip
  <2> QED BY <2>3, <1>a, CalmCount
<1>19. CASE Tick
  <2>1. UNCHANGED <<task, call, log, unseen>>
    BY <1>19 DEF Tick, callVars, vars
  <2> QED BY <2>1, SameCalm, <1>a, CalmCount
<1>20. CASE UNCHANGED vars
  <2>1. UNCHANGED <<task, call, log, unseen>>
    BY <1>20 DEF vars, callVars, vars
  <2> QED BY <2>1, SameCalm, <1>a, CalmCount
<1> QED
  BY <1>1, <1>2, <1>3, <1>4, <1>5, <1>6, <1>7, <1>8, <1>9, <1>10, <1>11,
     <1>12, <1>13, <1>14, <1>15, <1>16, <1>17, <1>18, <1>19, <1>20 DEF Next, Serve

LEMMA CountInit == ASSUME Init PROVE Counted
<1> SUFFICES ASSUME NEW c \in Call PROVE CountedFor(c)
  BY DEF Counted
<1>1. RecordedBy(c) = {}
  <2>1. log = <<[by |-> None, tools |-> NoTree]>>
    BY DEF Init
  <2>2. Len(log) = 1 /\ log[1].by = None
    BY <2>1
  <2> QED BY <2>2, CallsAssumption DEF RecordedBy, Tip
<1>2. Silent(c) = {}
  BY DEF Init, Silent, Waiting, Holding
<1>3. call[c].result = "none" /\ unseen[c] = 0
  BY DEF Init
<1>4. Cardinality({}) = 0
  BY FS_EmptySet
<1> QED BY <1>1, <1>2, <1>3, <1>4 DEF CountedFor

-----------------------------------------------------------------------------
(***************************************************************************)
(* The theorems.                                                           *)
(***************************************************************************)
ClientInv == Types /\ FanInv /\ Link /\ Spent /\ Counted

(* The inductive invariant of clients, daemon, fan-out, tokens and branch. *)
THEOREM ClientInvariant == Spec => []ClientInv
<1>1. Init => ClientInv
  BY TypesInit, FanInit, SpentInit, CountInit DEF ClientInv
<1>2. ClientInv /\ [Next]_vars => ClientInv'
  <2> SUFFICES ASSUME ClientInv, [Next]_vars PROVE ClientInv'
    OBVIOUS
  <2>1. Types'
    BY TypesStep DEF ClientInv
  <2>2. FanInv' /\ Link'
    BY FanStep DEF ClientInv
  <2>3. Spent'
    BY SpentStep DEF ClientInv
  <2>4. Counted'
    BY <2>1, CountStep DEF ClientInv, Counted
  <2> QED BY <2>1, <2>2, <2>3, <2>4 DEF ClientInv
<1> QED BY <1>1, <1>2, PTL DEF Spec

(* Type correctness; of it, that one request has the commit lock and that  *)
(* those in the daemon are never more than the queue has room for.         *)
THEOREM CallsTypeCorrect == Spec => []TypeOK
<1>1. ClientInv => TypeOK
  BY TypesImply DEF ClientInv
<1> QED BY <1>1, ClientInvariant, PTL

(* A fan-out takes no longer than a deadline per batch, for any number of  *)
(* servers, any concurrency and any deadline (fingerprint_all): a request  *)
(* that is not yet started waits for the first that is unanswered, and     *)
(* that one is always in flight.                                           *)
THEOREM FanoutInTime == Spec => []FanoutBound
<1>1. ClientInv => FanoutBound
  BY FanBounded DEF ClientInv
<1> QED BY <1>1, ClientInvariant, PTL

(* A commit about to be recorded has each server's own answer under its    *)
(* name and nothing else (fingerprint_tools), for any servers.             *)
THEOREM ToolsAreExact == Spec => []ToolsExact
<1>1. ClientInv => ToolsExact
  BY ExactTools DEF ClientInv
<1> QED BY <1>1, ClientInvariant, PTL

(* A caller may believe the answers (client.py _request): it has recorded  *)
(* no more commits than it was told of and requests it never learnt the    *)
(* end of, and at least one if it was told so.                             *)
THEOREM NoneTwiceUnseen == Spec => []NoSilentDuplicate
<1>1. ClientInv => NoSilentDuplicate
  <2> SUFFICES ASSUME ClientInv, NEW c \in Call
               PROVE  /\ Cardinality(RecordedBy(c)) <=
                           unseen[c] + (IF call[c].result = "ok" THEN 1 ELSE 0)
                      /\ call[c].result = "ok" => RecordedBy(c) # {}
    BY DEF NoSilentDuplicate
  <2>1. CountedFor(c) /\ Finites(c)
    BY AllFinite DEF ClientInv, Counted
  <2> QED BY <2>1 DEF CountedFor, Finites
<1> QED BY <1>1, ClientInvariant, PTL

(* A rollback that may lose data begins only while its token is good, for  *)
(* the caller and the commit that it signs, and a token that signs what    *)
(* the branch stands at is good once (approval_gate, verify_token).        *)
THEOREM ApprovalIsHeld == Spec => ApprovalHolds
<1>1. ClientInv /\ [Next]_vars =>
        [\A t \in Tasks : Begins(t) =>
           LET c == t[1]
           IN  /\ approvals.key /\ approvals.attested
               /\ token[c].uid = c /\ token[c].age \in -TTL..TTL
               /\ IF c \in world.byHash THEN token[c].signs = 1
                  ELSE token[c].signs = Tip /\ RecordedBy(c) = {}]_vars
  <2> SUFFICES ASSUME ClientInv, [Next]_vars, NEW t \in Tasks, Begins(t)
               PROVE  /\ approvals.key /\ approvals.attested
                      /\ token[t[1]].uid = t[1] /\ token[t[1]].age \in -TTL..TTL
                      /\ IF t[1] \in world.byHash THEN token[t[1]].signs = 1
                         ELSE token[t[1]].signs = Tip /\ RecordedBy(t[1]) = {}
    OBVIOUS
  <2>1. BeginRollback(t)
    BY BeginsOnly DEF ClientInv, Begins
  <2>2. /\ Kind[t[1]] = "rollback" /\ approvals.key /\ approvals.attested
        /\ token[t[1]].uid = t[1] /\ token[t[1]].age \in -TTL..TTL
        /\ token[t[1]].signs = Resolved(t[1]) /\ token[t[1]].signs \in Nat
    BY <2>1, Gated DEF ClientInv
  <2>3. ASSUME t[1] \notin world.byHash, NEW i \in RecordedBy(t[1]) PROVE FALSE
    <3>1. t[1] \in Call
      BY Cells
    <3>2. token[t[1]].signs \in 0..(i - 1) /\ i \in 1..Tip
      BY <2>2, <2>3, <3>1 DEF ClientInv, Spent, RecordedBy
    <3>3. token[t[1]].signs = Tip
      BY <2>2, <2>3 DEF Resolved
    <3> QED BY <3>2, <3>3
  <2> QED BY <2>2, <2>3 DEF Resolved
<1> QED BY <1>1, ClientInvariant, PTL DEF Spec, ApprovalHolds

-----------------------------------------------------------------------------
(***************************************************************************)
(* Diffs: what a diff says is enough, for all trees and all commits.       *)
(***************************************************************************)
IsTree(t) == t = [n \in DOMAIN t |-> t[n]]

(***************************************************************************)
(* What is in each of a diff's three lists.                                *)
(***************************************************************************)
LEMMA DiffLists ==
  ASSUME NEW a, NEW b, NEW d, d = TreeDiff(a, b)
  PROVE  /\ \A n \in DOMAIN b \ DOMAIN a : <<n, b[n]>> \in d.added
         /\ \A e \in d.added :
              e[1] \in DOMAIN b \ DOMAIN a /\ e = <<e[1], b[e[1]]>>
         /\ \A n \in DOMAIN a \ DOMAIN b : <<n, a[n]>> \in d.removed
         /\ \A e \in d.removed : e[1] \in DOMAIN a \ DOMAIN b
         /\ \A n \in DOMAIN a \cap DOMAIN b :
              a[n] # b[n] => <<n, a[n], b[n]>> \in d.modified
         /\ \A m \in d.modified :
              /\ m[1] \in DOMAIN a \cap DOMAIN b /\ a[m[1]] # b[m[1]]
              /\ m = <<m[1], a[m[1]], b[m[1]]>>
<1>1. d.added = {<<n, b[n]>> : n \in DOMAIN b \ DOMAIN a}
  BY DEF TreeDiff
<1>2. d.removed = {<<n, a[n]>> : n \in DOMAIN a \ DOMAIN b}
  BY DEF TreeDiff
<1>3. d.modified = {<<n, a[n], b[n]>> : n \in {m \in DOMAIN a \cap DOMAIN b : a[m] # b[m]}}
  BY DEF TreeDiff, Both
<1>4. \A e \in d.added : e[1] \in DOMAIN b \ DOMAIN a /\ e = <<e[1], b[e[1]]>>
  BY <1>1
<1>5. \A e \in d.removed : e[1] \in DOMAIN a \ DOMAIN b
  BY <1>2
<1>6. \A m \in d.modified :
        /\ m[1] \in DOMAIN a \cap DOMAIN b /\ a[m[1]] # b[m[1]]
        /\ m = <<m[1], a[m[1]], b[m[1]]>>
  BY <1>3
<1> QED
  BY <1>1, <1>2, <1>3, <1>4, <1>5, <1>6

(***************************************************************************)
(* The diff of two trees (diff_tree) is enough to make the second from the *)
(* first: no name is missing from it, and none is in the wrong list.       *)
(***************************************************************************)
THEOREM DiffReplays ==
  ASSUME NEW a, NEW b, IsTree(a), IsTree(b)
  PROVE  Patched(a, TreeDiff(a, b)) = b
<1>0. PICK d : d = TreeDiff(a, b)
  OBVIOUS
<1> DEFINE gone  == {e[1] : e \in d.removed}
           fresh == {e[1] : e \in d.added}
           names == (DOMAIN a \ gone) \cup fresh
           Image(n) == IF \E e \in d.added : e[1] = n
                       THEN (CHOOSE e \in d.added : e[1] = n)[2]
                       ELSE IF \E m \in d.modified : m[1] = n
                       THEN (CHOOSE m \in d.modified : m[1] = n)[3]
                       ELSE a[n]
<1>1. Patched(a, d) = [n \in names |-> Image(n)]
  BY DEF Patched
<1>2. names = DOMAIN b
  <2>1. ASSUME NEW n \in names
        PROVE  n \in DOMAIN b
    <3>1. CASE n \in fresh
      BY <1>0, <3>1, DiffLists
    <3>2. CASE n \in DOMAIN a /\ n \notin gone
      <4>1. <<n, a[n]>>[1] = n
        OBVIOUS
      <4>2. <<n, a[n]>> \notin d.removed
        BY <3>2, <4>1
      <4> QED
        BY <1>0, <3>2, <4>2, DiffLists
    <3> QED
      BY <2>1, <3>1, <3>2
  <2>2. ASSUME NEW n \in DOMAIN b
        PROVE  n \in names
    <3>1. CASE n \in DOMAIN a
      <4>1. n \notin gone
        BY <1>0, <2>2, DiffLists
      <4> QED
        BY <3>1, <4>1
    <3>2. CASE n \notin DOMAIN a
      <4>1. <<n, b[n]>>[1] = n
        OBVIOUS
      <4>2. <<n, b[n]>> \in d.added
        BY <1>0, <2>2, <3>2, DiffLists
      <4> QED
        BY <4>1, <4>2
    <3> QED
      BY <3>1, <3>2
  <2> QED
    BY <2>1, <2>2
<1>3. ASSUME NEW n \in DOMAIN b
      PROVE  Image(n) = b[n]
  <2>1. CASE n \notin DOMAIN a
    <3>1. <<n, b[n]>> \in d.added
      BY <1>0, <2>1, DiffLists
    <3>2. \E e \in d.added : e[1] = n
      BY <3>1
    <3>3. PICK f \in d.added : f = (CHOOSE e \in d.added : e[1] = n) /\ f[1] = n
      BY <3>2
    <3>4. f = <<n, b[n]>>
      BY <1>0, <3>3, DiffLists
    <3>5. Image(n) = (CHOOSE e \in d.added : e[1] = n)[2]
      BY <3>2
    <3>6. f[2] = b[n]
      BY <3>4
    <3> QED
      BY <3>3, <3>5, <3>6
  <2>2. CASE n \in DOMAIN a /\ a[n] # b[n]
    <3>1. <<n, a[n], b[n]>> \in d.modified
      BY <1>0, <2>2, DiffLists
    <3>2. \E m \in d.modified : m[1] = n
      BY <3>1
    <3>3. PICK f \in d.modified : f = (CHOOSE m \in d.modified : m[1] = n) /\ f[1] = n
      BY <3>2
    <3>4. f = <<n, a[n], b[n]>>
      BY <1>0, <3>3, DiffLists
    <3>5. ~\E e \in d.added : e[1] = n
      BY <1>0, <2>2, DiffLists
    <3>6. Image(n) = (CHOOSE m \in d.modified : m[1] = n)[3]
      BY <3>2, <3>5
    <3>7. f[3] = b[n]
      BY <3>4
    <3> QED
      BY <3>3, <3>6, <3>7
  <2>3. CASE n \in DOMAIN a /\ a[n] = b[n]
    <3>1. ~\E e \in d.added : e[1] = n
      BY <1>0, <2>3, DiffLists
    <3>2. ~\E m \in d.modified : m[1] = n
      BY <1>0, <2>3, DiffLists
    <3> QED
      BY <2>3, <3>1, <3>2
  <2> QED
    BY <2>1, <2>2, <2>3
<1>4. [n \in names |-> Image(n)] = [n \in DOMAIN b |-> b[n]]
  <2> HIDE DEF names, Image
  <2> QED
    BY <1>2, <1>3
<1> QED
  BY <1>0, <1>1, <1>4 DEF IsTree

(* A tree whose diff has no line has not changed.                          *)
LEMMA NoLinesSameTree ==
  ASSUME NEW a, NEW b, IsTree(a), IsTree(b), Lines(TreeDiff(a, b)) = {}
  PROVE  a = b
<1>0. PICK d : d = TreeDiff(a, b)
  OBVIOUS
<1>1. d.added = {} /\ d.removed = {} /\ d.modified = {}
  <2>1. Lines(d) = {}
    BY <1>0
  <2>2. ASSUME NEW e \in d.added PROVE FALSE
    <3>1. <<"+", e[1]>> \in Lines(d)
      BY <2>2 DEF Lines
    <3> QED
      BY <2>1, <3>1
  <2>3. ASSUME NEW e \in d.removed PROVE FALSE
    <3>1. <<"-", e[1]>> \in Lines(d)
      BY <2>3 DEF Lines
    <3> QED
      BY <2>1, <3>1
  <2>4. ASSUME NEW e \in d.modified PROVE FALSE
    <3>1. <<"~", e[1]>> \in Lines(d)
      BY <2>4 DEF Lines
    <3> QED
      BY <2>1, <3>1
  <2> QED
    BY <2>2, <2>3, <2>4
<1>2. DOMAIN a = DOMAIN b
  BY <1>0, <1>1, DiffLists
<1>3. ASSUME NEW n \in DOMAIN a
      PROVE  a[n] = b[n]
  <2>1. a[n] # b[n] => <<n, a[n], b[n]>> \in d.modified
    BY <1>0, <1>2, DiffLists
  <2> QED
    BY <1>1, <2>1
<1>4. [n \in DOMAIN a |-> a[n]] = [n \in DOMAIN b |-> b[n]]
  BY <1>2, <1>3
<1> QED
  BY <1>4 DEF IsTree

LEMMA NoChangeSame ==
  ASSUME NEW x, NEW y, Change(x, y) = <<>>
  PROVE  x = y
<1>1. <<x, y>> # <<>>
  OBVIOUS
<1> QED
  BY <1>1 DEF Change

(***************************************************************************)
(* Where the command line says "(no changes)" (render_diff) the two        *)
(* commits agree in their prompts, tools, model, memory and schema.  That  *)
(* leaves code_sha, which CommitDiff has and DiffOutput has not: two       *)
(* commits of different code with all else the same look unchanged.        *)
(***************************************************************************)
THEOREM SilentDiffHidesOnlyCode ==
  ASSUME NEW a, NEW b,
         IsTree(a.prompts), IsTree(b.prompts), IsTree(a.tools), IsTree(b.tools),
         NoChanges(DiffOutput(a, b))
  PROVE  /\ a.prompts = b.prompts /\ a.tools = b.tools /\ a.model = b.model
         /\ a.memory_snapshot = b.memory_snapshot
         /\ a.schema_version = b.schema_version
<1>1. PICK out : out = DiffOutput(a, b)
  OBVIOUS
<1>2. /\ out.prompts = Lines(TreeDiff(a.prompts, b.prompts))
      /\ out.tools = Lines(TreeDiff(a.tools, b.tools))
      /\ out.model_changed = (ModelChange(a.model, b.model) # <<>>)
      /\ out.memory_summary = Change(a.memory_snapshot, b.memory_snapshot)
      /\ out.schema_summary = Change(a.schema_version, b.schema_version)
  BY <1>1 DEF DiffOutput, CommitDiff
<1>3. /\ out.prompts = {} /\ out.tools = {} /\ ~out.model_changed
      /\ out.memory_summary = <<>> /\ out.schema_summary = <<>>
  BY <1>1 DEF NoChanges
<1>4. a.prompts = b.prompts
  BY <1>2, <1>3, NoLinesSameTree
<1>5. a.tools = b.tools
  BY <1>2, <1>3, NoLinesSameTree
<1>6. Change(a.model, b.model) = <<>>
  BY <1>2, <1>3 DEF ModelChange
<1>7. a.model = b.model
  BY <1>6, NoChangeSame
<1>8. a.memory_snapshot = b.memory_snapshot /\ a.schema_version = b.schema_version
  BY <1>2, <1>3, NoChangeSame
<1> QED
  BY <1>4, <1>5, <1>7, <1>8
=============================================================================
