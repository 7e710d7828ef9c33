-------------------------- MODULE GcsStore_proofs --------------------------
(***************************************************************************)
(* The safety of GcsStore, for any number of callers and of faults.        *)
(***************************************************************************)
EXTENDS GcsStore, FiniteSetTheorems, TLAPS

(* Every caller writes one file at most, so there is one nobody has.       *)
LEMMA FreshFile ==
  ASSUME TypeOK, tmp = None
  PROVE  \E j \in Inode : j \notin InUse
<1> DEFINE written == {fd[d] : d \in Caller}
<1>1. fd \in Surjection(Caller, written)
  BY DEF TypeOK, Surjection
<1>2. IsFiniteSet(written) /\ Cardinality(written) <= Cardinality(Caller)
  <2> HIDE DEF written
  <2> QED BY <1>1, FS_Surjection, StoreAssumption DEF StoreAssumption
<1>3. /\ IsFiniteSet(written \cup {path})
      /\ Cardinality(written \cup {path}) <= Cardinality(Caller) + 1
  <2>1. Cardinality(written) \in Nat /\ Cardinality(Caller) \in Nat
    BY <1>2, FS_CardinalityType, StoreAssumption DEF StoreAssumption
  <2> HIDE DEF written
  <2> QED BY <1>2, <2>1, FS_AddElement
<1>4. ~(Inode \subseteq written \cup {path})
  <2>1. Cardinality(Inode) \in Nat /\ Cardinality(Caller) \in Nat
        /\ Cardinality(written \cup {path}) \in Nat
    BY <1>3, FS_CardinalityType, StoreAssumption DEF StoreAssumption
  <2> HIDE DEF written
  <2>2. Inode \subseteq written \cup {path} =>
          Cardinality(Inode) <= Cardinality(written \cup {path})
    BY <1>3, FS_Subset
  <2> QED BY <1>3, <2>1, <2>2, StoreAssumption DEF StoreAssumption
<1> QED BY <1>4, StoreAssumption DEF InUse, StoreAssumption

-----------------------------------------------------------------------------
(***************************************************************************)
(* The inductive invariant, in parts.                                      *)
(***************************************************************************)

(* What is written to the cache was verified, or is the caller's own.      *)
Genuine == \A c \in Caller : bytes[c] = "whole"

(* The temporary file is not the cached one, and was never altered.        *)
Apart == tmp # None => tmp # path /\ body[tmp] # "bad"

(* The bucket has what was acknowledged.                                   *)
Known ==
  /\ acked => bucket # Absent
  /\ \A c \in Caller : knew[c] => acked

(* Only a put caches what the bucket may not have, and then uploads it.    *)
Behind ==
  \A c \in Caller :
    /\ pc[c] \in {"open", "fill", "rename"} => op[c] = "put" \/ bucket # Absent
    /\ pc[c] \in {"upload", "unlink"} => op[c] = "put"

Inv == TypeOK /\ Genuine /\ Apart /\ Known /\ Behind /\ AckedIsFound /\ FailedPutInvisible

LEMMA InitInv == Init => Inv
<1> SUFFICES ASSUME Init PROVE Inv
  OBVIOUS
<1>1. TypeOK
  <2>1. MaxFaults \in 0..MaxFaults
    BY StoreAssumption DEF StoreAssumption
  <2>2. /\ pc \in [Caller -> Stages] /\ op \in [Caller -> {"put", "get", "has"}]
        /\ fd \in [Caller -> Inode \cup {None}] /\ body \in [Inode -> Body]
        /\ outcome \in [Caller -> {"none", "ok", "failed", "notfound", "true", "false"}]
    BY DEF Init, Stages, Body
  <2>3. bytes \in [Caller -> {"whole", "bad"}] /\ knew \in [Caller -> BOOLEAN]
    BY DEF Init
  <2> QED BY <2>1, <2>2, <2>3 DEF Init, TypeOK
<1>2. Genuine /\ Apart /\ Known /\ Behind
  BY DEF Init, Genuine, Apart, Known, Behind
<1>3. AckedIsFound /\ FailedPutInvisible
  BY DEF Init, AckedIsFound, FailedPutInvisible
<1> QED BY <1>1, <1>2, <1>3 DEF Inv

(* A step of one caller leaves the others where they were.                 *)
CallerStep(c) ==
  \/ BeginPut(c) \/ BeginGet(c) \/ BeginHas(c) \/ CallStep(c)
  \/ CacheFault(c) \/ UploadFault(c) \/ UnlinkFault(c) \/ DownloadFault(c)

LEMMA TypesStep ==
  ASSUME TypeOK, Genuine, [Next]_vars
  PROVE  TypeOK' /\ Genuine'
<1> USE DEF TypeOK, Genuine, Stages
<1>0. faults > 0 => faults - 1 \in 0..MaxFaults
  BY StoreAssumption DEF StoreAssumption
<1>1. ASSUME NEW c \in Caller, BeginPut(c) \/ BeginGet(c) \/ BeginHas(c)
      PROVE  TypeOK' /\ Genuine'
  BY <1>1 DEF BeginPut, BeginGet, BeginHas, Begin, Go, cache
<1>2. ASSUME NEW c \in Caller, OpenTemp(c) PROVE TypeOK' /\ Genuine'
  <2>1. PICK i \in Inode : tmp' = i /\ fd' = [fd EXCEPT ![c] = i]
                           /\ body' = [body EXCEPT ![i] = "torn"]
    BY <1>2, FreshFile DEF OpenTemp
  <2>2. tmp' \in Inode \cup {None} /\ fd' \in [Caller -> Inode \cup {None}]
        /\ body' \in [Inode -> Body]
    BY <2>1 DEF Body
  <2> QED BY <1>2, <2>2 DEF OpenTemp, Go
<1>3. ASSUME NEW c \in Caller, FillTemp(c) PROVE TypeOK' /\ Genuine'
  BY <1>3 DEF FillTemp, Go, Body
<1>4. ASSUME NEW c \in Caller, RenameTemp(c) PROVE TypeOK' /\ Genuine'
  BY <1>4 DEF RenameTemp, CacheWriteFailed, Return, Go
<1>5. ASSUME NEW c \in Caller, CacheFault(c) PROVE TypeOK' /\ Genuine'
  BY <1>0, <1>5 DEF CacheFault, CacheWriteFailed, Fault, Return, Go, cache
<1>6. ASSUME NEW c \in Caller, Upload(c) \/ Unlink(c) PROVE TypeOK' /\ Genuine'
  BY <1>6 DEF Upload, Unlink, Return, Go, cache
<1>7. ASSUME NEW c \in Caller, UploadFault(c) PROVE TypeOK' /\ Genuine'
  BY <1>0, <1>7 DEF UploadFault, UploadFailed, Fault, Go, cache
<1>8. ASSUME NEW c \in Caller, UnlinkFault(c) PROVE TypeOK' /\ Genuine'
  BY <1>0, <1>8 DEF UnlinkFault, Fault, Return, Go, cache
<1>9. ASSUME NEW c \in Caller, Lookup(c) PROVE TypeOK' /\ Genuine'
  BY <1>9 DEF Lookup, Return, Go, cache
<1>10. ASSUME NEW c \in Caller, ReadCache(c) PROVE TypeOK' /\ Genuine'
  BY <1>10 DEF ReadCache, EvictPoisoned, Return, Go, cache
<1>11. ASSUME NEW c \in Caller, Evict(c) PROVE TypeOK' /\ Genuine'
  BY <1>0, <1>11 DEF Evict, Fault, Go
<1>12. ASSUME NEW c \in Caller, Download(c) PROVE TypeOK' /\ Genuine'
  BY <1>12 DEF Download, Taken, Verified, Return, Go, cache
<1>13. ASSUME NEW c \in Caller, DownloadFault(c) PROVE TypeOK' /\ Genuine'
  BY <1>0, <1>13 DEF DownloadFault, Taken, Verified, Fault, Return, Go, cache
<1>14. ASSUME NEW c \in Caller, Head(c) PROVE TypeOK' /\ Genuine'
  BY <1>0, <1>14 DEF Head, Fault, Return, Go, cache
<1>15. CASE Crash
  BY <1>0, <1>15 DEF Crash, Fault, cache
<1>16. CASE Rot \/ Tamper
  BY <1>0, <1>16 DEF Rot, Tamper, Fault, cache, calls, Body
<1>17. CASE UNCHANGED vars
  BY <1>17 DEF vars, cache, calls
<1> QED BY <1>1, <1>2, <1>3, <1>4, <1>5, <1>6, <1>7, <1>8, <1>9, <1>10, <1>11, <1>12,
      <1>13, <1>14, <1>15, <1>16, <1>17 DEF Next, CallStep

-----------------------------------------------------------------------------
(***************************************************************************)
(* The temporary file is fresh, and renaming takes it away.                *)
(***************************************************************************)
LEMMA ApartStep ==
  ASSUME TypeOK, Genuine, Apart, [Next]_vars
  PROVE  Apart'
<1>1. CASE body' = body /\ tmp' = tmp /\ (path' = path \/ path' = None)
  BY <1>1, StoreAssumption DEF Apart, TypeOK, StoreAssumption
<1>2. ASSUME NEW c \in Caller, OpenTemp(c) PROVE Apart'
  <2>1. PICK i \in Inode : tmp' = i /\ body' = [body EXCEPT ![i] = "torn"]
                           /\ (i = tmp \/ i \notin InUse)
    BY <1>2, FreshFile DEF OpenTemp, TypeOK
  <2>2. path' = path /\ i # path
    BY <1>2, <2>1, StoreAssumption DEF OpenTemp, Apart, InUse, StoreAssumption
  <2> QED BY <2>1, <2>2 DEF Apart, TypeOK
<1>3. ASSUME NEW c \in Caller, FillTemp(c) PROVE Apart'
  BY <1>3 DEF FillTemp, Apart, Genuine, TypeOK
<1>4. ASSUME NEW c \in Caller, RenameTemp(c) PROVE Apart'
  BY <1>1, <1>4 DEF RenameTemp, Apart
<1>5. CASE Rot
  BY <1>5 DEF Rot, Apart, TypeOK
<1>6. ASSUME NEW c \in Caller,
        \/ BeginPut(c) \/ BeginGet(c) \/ BeginHas(c) \/ CacheFault(c)
        \/ Upload(c) \/ UploadFault(c) \/ Unlink(c) \/ UnlinkFault(c) \/ Lookup(c)
        \/ ReadCache(c) \/ Evict(c) \/ Download(c) \/ DownloadFault(c) \/ Head(c)
      PROVE  Apart'
  BY <1>1, <1>6 DEF BeginPut, BeginGet, BeginHas, Begin, CacheFault, Upload, UploadFault,
     Unlink, UnlinkFault, Lookup, ReadCache, Evict, Download, DownloadFault, Head, cache
<1>7. CASE Crash \/ Tamper \/ UNCHANGED vars
  BY <1>1, <1>7 DEF Crash, Tamper, vars, cache
<1> QED BY <1>2, <1>3, <1>4, <1>5, <1>6, <1>7 DEF Next, CallStep

-----------------------------------------------------------------------------
(***************************************************************************)
(* The bucket does not lose what it has.                                   *)
(***************************************************************************)
LEMMA BucketKeeps ==
  ASSUME [Next]_vars
  PROVE  bucket # Absent => bucket' # Absent
<1>1. ASSUME NEW c \in Caller, Upload(c) \/ UploadFault(c)
      PROVE  bucket' = bucket \/ bucket' # Absent
  BY <1>1 DEF Upload, UploadFault, Absent
<1>2. CASE Tamper
  BY <1>2 DEF Tamper, Absent
<1>3. ASSUME NEW c \in Caller,
        \/ BeginPut(c) \/ BeginGet(c) \/ BeginHas(c) \/ CacheFault(c) \/ OpenTemp(c)
        \/ FillTemp(c) \/ RenameTemp(c) \/ Unlink(c) \/ UnlinkFault(c) \/ Lookup(c)
        \/ ReadCache(c) \/ Evict(c) \/ Download(c) \/ DownloadFault(c) \/ Head(c)
      PROVE  bucket' = bucket
  BY <1>3 DEF BeginPut, BeginGet, BeginHas, Begin, CacheFault, OpenTemp, FillTemp, RenameTemp,
     Unlink, UnlinkFault, Lookup, ReadCache, Evict, Download, DownloadFault, Head
<1>4. CASE Crash \/ Rot \/ UNCHANGED vars
  BY <1>4 DEF Crash, Rot, vars
<1> QED BY <1>1, <1>2, <1>3, <1>4 DEF Next, CallStep

LEMMA KnownStep ==
  ASSUME TypeOK, Known, AckedIsFound, [Next]_vars
  PROVE  Known' /\ AckedIsFound'
<1>0. bucket # Absent => bucket' # Absent
  BY BucketKeeps
<1>1. CASE UNCHANGED <<acked, knew>> /\ \A c \in Caller : outcome'[c] = "notfound" =>
             outcome[c] = "notfound" \/ bucket = Absent
  BY <1>0, <1>1 DEF Known, AckedIsFound
<1>2. ASSUME NEW c \in Caller, Upload(c) PROVE Known' /\ AckedIsFound'
  <2>1. acked' /\ bucket' # Absent /\ knew' = knew
    BY <1>2 DEF Upload, Absent
  <2>2. \A d \in Caller : outcome'[d] = "notfound" => outcome[d] = "notfound"
    BY <1>2 DEF Upload, Return, TypeOK
  <2> QED BY <2>1, <2>2 DEF Known, AckedIsFound
<1>3. ASSUME NEW c \in Caller, BeginPut(c) \/ BeginGet(c) \/ BeginHas(c)
      PROVE  Known' /\ AckedIsFound'
  <2>1. /\ UNCHANGED <<bucket, acked>> /\ knew' = [knew EXCEPT ![c] = acked]
        /\ outcome' = [outcome EXCEPT ![c] = "none"]
    BY <1>3 DEF BeginPut, BeginGet, BeginHas, Begin
  <2> QED BY <2>1 DEF Known, AckedIsFound, TypeOK
<1>4. ASSUME NEW c \in Caller, Download(c) PROVE Known' /\ AckedIsFound'
  <2>1. UNCHANGED <<acked, knew>>
    BY <1>4 DEF Download
  <2>2. \A d \in Caller : outcome'[d] = "notfound" =>
          outcome[d] = "notfound" \/ bucket = Absent
    BY <1>4 DEF Download, Taken, Return, TypeOK
  <2> QED BY <1>1, <2>1, <2>2
<1>5. ASSUME NEW c \in Caller, DownloadFault(c) PROVE Known' /\ AckedIsFound'
  <2>1. UNCHANGED <<acked, knew>>
    BY <1>5 DEF DownloadFault
  <2>2. \A d \in Caller : outcome'[d] = "notfound" => outcome[d] = "notfound"
    BY <1>5 DEF DownloadFault, Taken, Verified, Absent, Return, TypeOK
  <2> QED BY <1>1, <2>1, <2>2
<1>6. ASSUME NEW c \in Caller, UploadFault(c) \/ OpenTemp(c) \/ FillTemp(c)
      PROVE  Known' /\ AckedIsFound'
  BY <1>1, <1>6 DEF UploadFault, UploadFailed, OpenTemp, FillTemp
<1>7. ASSUME NEW c \in Caller, NEW how \in {"ok", "failed", "true", "false"},
             Return(c, how) \/ UNCHANGED outcome, UNCHANGED <<acked, knew>>
      PROVE  Known' /\ AckedIsFound'
  <2>1. \A d \in Caller : outcome'[d] = "notfound" => outcome[d] = "notfound"
    BY <1>7 DEF Return, TypeOK
  <2> QED BY <1>1, <1>7, <2>1
<1>8. ASSUME NEW c \in Caller, RenameTemp(c) \/ CacheFault(c)
      PROVE  Known' /\ AckedIsFound'
  BY <1>7, <1>8 DEF RenameTemp, CacheFault, CacheWriteFailed
<1>9. ASSUME NEW c \in Caller, Unlink(c) \/ UnlinkFault(c)
      PROVE  Known' /\ AckedIsFound'
  BY <1>7, <1>9 DEF Unlink, UnlinkFault
<1>10. ASSUME NEW c \in Caller, Lookup(c) \/ ReadCache(c) \/ Evict(c)
      PROVE  Known' /\ AckedIsFound'
  BY <1>7, <1>10 DEF Lookup, ReadCache, EvictPoisoned, Evict
<1>11. ASSUME NEW c \in Caller, Head(c) PROVE Known' /\ AckedIsFound'
  BY <1>7, <1>11 DEF Head
<1>12. CASE Crash
  BY <1>1, <1>12 DEF Crash
<1>13. CASE Rot \/ Tamper \/ UNCHANGED vars
  BY <1>1, <1>13 DEF Rot, Tamper, vars, calls
<1> QED BY <1>2, <1>3, <1>4, <1>5, <1>6, <1>8, <1>9, <1>10, <1>11, <1>12, <1>13
    DEF Next, CallStep

-----------------------------------------------------------------------------
(***************************************************************************)
(* What the cache has and the bucket has not is a put's, on its way.       *)
(***************************************************************************)

(* Who moves, and from where: one caller, or none, or all in a crash.      *)
LEMMA OthersStay ==
  ASSUME TypeOK, NEW c \in Caller, CallerStep(c)
  PROVE  \A d \in Caller \ {c} : pc'[d] = pc[d] /\ op'[d] = op[d]
<1> USE DEF TypeOK, Go, Return
<1>1. CASE BeginPut(c) \/ BeginGet(c) \/ BeginHas(c)
  BY <1>1 DEF BeginPut, BeginGet, BeginHas, Begin
<1>2. CASE OpenTemp(c) \/ FillTemp(c) \/ RenameTemp(c) \/ CacheFault(c)
  BY <1>2 DEF OpenTemp, FillTemp, RenameTemp, CacheFault, CacheWriteFailed
<1>3. CASE Upload(c) \/ UploadFault(c) \/ Unlink(c) \/ UnlinkFault(c)
  BY <1>3 DEF Upload, UploadFault, UploadFailed, Unlink, UnlinkFault
<1>4. CASE Lookup(c) \/ ReadCache(c) \/ Evict(c)
  BY <1>4 DEF Lookup, ReadCache, EvictPoisoned, Evict
<1>5. CASE Download(c) \/ DownloadFault(c) \/ Head(c)
  BY <1>5 DEF Download, DownloadFault, Taken, Head
<1> QED BY <1>1, <1>2, <1>3, <1>4, <1>5 DEF CallerStep, CallStep

LEMMA BehindStep ==
  ASSUME TypeOK, Behind, [Next]_vars
  PROVE  Behind'
<1>0. bucket # Absent => bucket' # Absent
  BY BucketKeeps
<1>1. ASSUME NEW c \in Caller, CallerStep(c)
      PROVE  Behind'
  <2>1. \A d \in Caller \ {c} : pc'[d] = pc[d] /\ op'[d] = op[d]
    BY <1>1, OthersStay
  <2>2. /\ pc'[c] \in {"open", "fill", "rename"} => op'[c] = "put" \/ bucket' # Absent
        /\ pc'[c] \in {"upload", "unlink"} => op'[c] = "put"
    <3> USE DEF TypeOK, Go, Return
    <3>1. CASE BeginPut(c) \/ BeginGet(c) \/ BeginHas(c)
      BY <3>1 DEF BeginPut, BeginGet, BeginHas, Begin
    <3>2. CASE OpenTemp(c) \/ FillTemp(c) \/ RenameTemp(c) \/ CacheFault(c)
      BY <1>0, <3>2 DEF OpenTemp, FillTemp, RenameTemp, CacheFault, CacheWriteFailed, Behind
    <3>3. CASE Upload(c) \/ UploadFault(c) \/ Unlink(c) \/ UnlinkFault(c)
      BY <3>3 DEF Upload, UploadFault, UploadFailed, Unlink, UnlinkFault, Behind
    <3>4. CASE Lookup(c) \/ ReadCache(c) \/ Evict(c)
      BY <3>4 DEF Lookup, ReadCache, EvictPoisoned, Evict
    <3>5. CASE Download(c)
      BY <3>5 DEF Download, Taken, Verified, Absent
    <3>6. CASE DownloadFault(c) \/ Head(c)
      BY <3>6 DEF DownloadFault, Taken, Verified, Head
    <3> QED BY <1>1, <3>1, <3>2, <3>3, <3>4, <3>5, <3>6 DEF CallerStep, CallStep
  <2> QED BY <1>0, <2>1, <2>2 DEF Behind
<1>2. CASE Crash
  BY <1>2 DEF Crash, Behind
<1>3. CASE Rot \/ Tamper \/ UNCHANGED vars
  BY <1>0, <1>3 DEF Rot, Tamper, vars, calls, Behind
<1> QED BY <1>1, <1>2, <1>3 DEF Next, CallerStep

LEMMA InvisibleStep ==
  ASSUME TypeOK, Behind, FailedPutInvisible, [Next]_vars
  PROVE  FailedPutInvisible'
<1>0. bucket # Absent => bucket' # Absent
  BY BucketKeeps
<1>1. SUFFICES ASSUME path' # None, bucket' = Absent, ~littered'
               PROVE  \E d \in Caller : op'[d] = "put" /\ pc'[d] \in {"upload", "unlink"}
  BY DEF FailedPutInvisible
<1>2. bucket = Absent
  BY <1>0, <1>1
<1>3. ASSUME NEW c \in Caller, CallerStep(c), path = None
      PROVE  op'[c] = "put" /\ pc'[c] = "upload"
  <2>1. RenameTemp(c)
    BY <1>1, <1>3 DEF CallerStep, CallStep, BeginPut, BeginGet, BeginHas, Begin, OpenTemp,
       FillTemp, CacheFault, Upload, UploadFault, Unlink, UnlinkFault, Lookup, ReadCache, Evict,
       Download, DownloadFault, Head, cache
  <2>2. op[c] = "put"
    BY <1>2, <2>1 DEF RenameTemp, Behind
  <2> QED BY <1>1, <1>3, <2>1, <2>2 DEF RenameTemp, Go, TypeOK
<1>4. ASSUME NEW c \in Caller, CallerStep(c), path # None, ~littered
      PROVE  \E d \in Caller : op'[d] = "put" /\ pc'[d] \in {"upload", "unlink"}
  <2>1. PICK d \in Caller : op[d] = "put" /\ pc[d] \in {"upload", "unlink"}
    BY <1>2, <1>4 DEF FailedPutInvisible
  <2>2. CASE d # c
    BY <1>4, <2>1, <2>2, OthersStay
  <2>3. CASE d = c
    <3>1. UploadFault(c)
      BY <1>1, <1>4, <2>1, <2>3 DEF CallerStep, CallStep, BeginPut, BeginGet, BeginHas, Begin,
         OpenTemp, FillTemp, RenameTemp, CacheFault, Upload, Unlink, UnlinkFault, Lookup,
         ReadCache, Evict, Download, DownloadFault, Head, Absent
    <3> QED BY <2>1, <2>3, <3>1 DEF UploadFault, UploadFailed, Go, TypeOK
  <2> QED BY <2>2, <2>3
<1>5. ASSUME NEW c \in Caller, CallerStep(c) PROVE littered => littered'
  BY <1>5 DEF CallerStep, CallStep, BeginPut, BeginGet, BeginHas, Begin, OpenTemp, FillTemp,
     RenameTemp, CacheFault, Upload, UploadFault, Unlink, UnlinkFault, Lookup, ReadCache, Evict,
     Download, DownloadFault, Head
<1>6. CASE Rot \/ Tamper \/ UNCHANGED vars
  BY <1>1, <1>2, <1>6 DEF Rot, Tamper, vars, cache, calls, FailedPutInvisible
<1>7. CASE Crash
  BY <1>1, <1>7 DEF Crash
<1> QED BY <1>1, <1>3, <1>4, <1>5, <1>6, <1>7 DEF Next, CallerStep

-----------------------------------------------------------------------------
(***************************************************************************)
(* The theorems.                                                           *)
(***************************************************************************)
LEMMA InvStep == Inv /\ [Next]_vars => Inv'
<1> SUFFICES ASSUME Inv, [Next]_vars PROVE Inv'
  OBVIOUS
<1>1. TypeOK' /\ Genuine' /\ Apart'
  BY TypesStep, ApartStep DEF Inv
<1>2. Known' /\ AckedIsFound' /\ Behind' /\ FailedPutInvisible'
  BY KnownStep, BehindStep, InvisibleStep DEF Inv
<1> QED BY <1>1, <1>2 DEF Inv

LEMMA Invariance == Spec => []Inv
<1> QED BY InitInv, InvStep, PTL DEF Spec

(* Whatever interleaving of put, fetch_map and has (gcs_store.rs), every   *)
(* caller writes a file there is.                                          *)
THEOREM StoreTypeCorrect == Spec => []TypeOK
<1>1. Inv => TypeOK
  BY DEF Inv
<1> QED BY <1>1, Invariance, PTL

(* put answers Ok only once the bucket has the object (gcs_store.rs,       *)
(* put_with_policy, put_raw): from then on no read ends with NotFound.     *)
THEOREM AckedStaysFound == Spec => []AckedIsFound
<1>1. Inv => AckedIsFound
  BY DEF Inv
<1> QED BY <1>1, Invariance, PTL

(* A failed upload takes its cache entry back (gcs_store.rs), and no read  *)
(* that runs beside it brings the entry back.                              *)
THEOREM FailedPutLeavesNothing == Spec => []FailedPutInvisible
<1>1. Inv => FailedPutInvisible
  BY DEF Inv
<1> QED BY <1>1, Invariance, PTL

(* fetch_map (gcs_store.rs) verifies before it caches; writing, renaming   *)
(* and evicting under readers puts no other body in the entry's place.     *)
THEOREM CacheStaysGenuine == Spec => NeverCachesUnverified
<1> DEFINE Kept == Cached # "bad" /\ Cached' = "bad" => Rot
<1>1. Inv /\ [Next]_vars => [Kept]_vars
  <2> SUFFICES ASSUME Inv, Next, ~Rot, Cached' = "bad" PROVE Cached = "bad"
    OBVIOUS
  <2>1. path' # None /\ body'[path'] = "bad"
    BY DEF Cached, Absent
  <2>2. CASE body' = body /\ (path' = path \/ path' = None)
    BY <2>1, <2>2 DEF Cached
  <2>3. ASSUME NEW c \in Caller, OpenTemp(c) PROVE Cached = "bad"
    <3>1. PICK i \in Inode : body' = [body EXCEPT ![i] = "torn"] /\ path' = path
      <4>1. TypeOK
        BY DEF Inv
      <4> QED BY <2>3, <4>1, FreshFile DEF OpenTemp, TypeOK
    <3> QED BY <2>1, <3>1 DEF Cached, Inv, TypeOK
  <2>4. ASSUME NEW c \in Caller, FillTemp(c) PROVE Cached = "bad"
    BY <2>1, <2>4 DEF FillTemp, Cached, Inv, TypeOK, Genuine
  <2>5. ASSUME NEW c \in Caller, RenameTemp(c) PROVE Cached = "bad"
    BY <2>1, <2>2, <2>5 DEF RenameTemp, Inv, Apart
  <2>6. ASSUME NEW c \in Caller,
          \/ BeginPut(c) \/ BeginGet(c) \/ BeginHas(c) \/ CacheFault(c)
          \/ Upload(c) \/ UploadFault(c) \/ Unlink(c) \/ UnlinkFault(c) \/ Lookup(c)
          \/ ReadCache(c) \/ Evict(c) \/ Download(c) \/ DownloadFault(c) \/ Head(c)
        PROVE  Cached = "bad"
    BY <2>2, <2>6 DEF BeginPut, BeginGet, BeginHas, Begin, CacheFault, Upload, UploadFault,
       Unlink, UnlinkFault, Lookup, ReadCache, Evict, Download, DownloadFault, Head, cache
  <2>7. CASE Crash \/ Tamper
    BY <2>2, <2>7 DEF Crash, Tamper, cache
  <2> QED BY <2>3, <2>4, <2>5, <2>6, <2>7 DEF Next, CallStep
<1> QED BY <1>1, Invariance, PTL DEF Spec, NeverCachesUnverified
=============================================================================
