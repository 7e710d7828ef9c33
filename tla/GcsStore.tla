------------------------------ MODULE GcsStore ------------------------------
(***************************************************************************)
(* One object of the GCS object store (agentic-core, gcs_store.rs): the    *)
(* bucket, which is written through, and the daemon's cache file of it.    *)
(*                                                                         *)
(* Callers run on threads of their own, and the store has no lock. A body  *)
(* is "whole" (it has the hash asked for), "bad" (it decodes, to something *)
(* else) or "torn" (it does not decode).                                   *)
(***************************************************************************)
EXTENDS Naturals, FiniteSets

CONSTANTS
  Caller,
  Inode,       (* Files the cache may have had: a name is not a file.      *)
  MaxFaults,   (* Bounds how often anything goes wrong.                    *)
  None

ASSUME StoreAssumption ==
  /\ None \notin Inode
  /\ IsFiniteSet(Caller) /\ IsFiniteSet(Inode)
  /\ Cardinality(Inode) >= Cardinality(Caller) + 2
  /\ MaxFaults \in Nat

VARIABLES
  bucket,      (* What the bucket has of the object.                       *)
  body,        (* What is in each cache file.                              *)
  path, tmp,   (* The file under the object's name, and its .tmp sibling.  *)
  pc, op,      (* Where each caller is, and in what.                       *)
  fd,          (* The file it is writing, between open and write ...       *)
  bytes,       (* ... and what it writes.                                  *)
  outcome,     (* How its last call ended.                                 *)
  faults,
  acked,       (* History: a put has succeeded.                            *)
  knew,        (* History: it had, when this caller's call began.          *)
  littered     (* History: a crash, or an unlink that failed.              *)

cache == <<body, path, tmp>>
calls == <<pc, op, fd, bytes, outcome, knew>>
vars == <<bucket, cache, calls, faults, acked, littered>>

Body == {"whole", "bad", "torn"}
Absent == "absent"
Stages == {"idle", "open", "fill", "rename", "upload", "unlink",
           "lookup", "read", "evict", "download", "head"}

TypeOK ==
  /\ bucket \in {Absent, "whole", "bad"}
  /\ body \in [Inode -> Body]
  /\ path \in Inode \cup {None} /\ tmp \in Inode \cup {None}
  /\ pc \in [Caller -> Stages] /\ op \in [Caller -> {"put", "get", "has"}]
  /\ fd \in [Caller -> Inode \cup {None}]
  /\ bytes \in [Caller -> {"whole", "bad"}]
  /\ outcome \in [Caller -> {"none", "ok", "failed", "notfound", "true", "false"}]
  /\ faults \in 0..MaxFaults
  /\ acked \in BOOLEAN /\ littered \in BOOLEAN /\ knew \in [Caller -> BOOLEAN]

Init ==
  /\ bucket = Absent
  /\ body = [i \in Inode |-> "torn"] /\ path = None /\ tmp = None
  /\ pc = [c \in Caller |-> "idle"] /\ op = [c \in Caller |-> "get"]
  /\ fd = [c \in Caller |-> None] /\ bytes = [c \in Caller |-> "whole"]
  /\ outcome = [c \in Caller |-> "none"]
  /\ faults = MaxFaults
  /\ acked = FALSE /\ knew = [c \in Caller |-> FALSE] /\ littered = FALSE

-----------------------------------------------------------------------------
Go(c, stage) == pc' = [pc EXCEPT ![c] = stage]
Return(c, how) == Go(c, "idle") /\ outcome' = [outcome EXCEPT ![c] = how]
Fault == faults > 0 /\ faults' = faults - 1

Begin(c, o, stage) ==
  /\ pc[c] = "idle"
  /\ op' = [op EXCEPT ![c] = o] /\ Go(c, stage)
  /\ outcome' = [outcome EXCEPT ![c] = "none"]
  /\ bytes' = [bytes EXCEPT ![c] = "whole"]
  /\ knew' = [knew EXCEPT ![c] = acked]
  /\ UNCHANGED <<bucket, cache, fd, faults, acked, littered>>

BeginPut(c) == Begin(c, "put", "open")
BeginGet(c) == Begin(c, "get", "lookup")
BeginHas(c) == Begin(c, "has", "lookup")

-----------------------------------------------------------------------------
(***************************************************************************)
(* cache_write_compressed: create or truncate the .tmp sibling, write,     *)
(* rename. A put needs it; a get ignores its errors.                       *)
(***************************************************************************)
InUse == {path, tmp} \cup {fd[d] : d \in Caller}

OpenTemp(c) ==
  /\ pc[c] = "open"
  /\ LET i == IF tmp = None THEN CHOOSE j \in Inode : j \notin InUse ELSE tmp IN
       /\ tmp' = i /\ fd' = [fd EXCEPT ![c] = i]
       /\ body' = [body EXCEPT ![i] = "torn"]
  /\ Go(c, "fill")
  /\ UNCHANGED <<bucket, path, op, bytes, outcome, knew, faults, acked, littered>>

(* The file may have been renamed by another caller since.                 *)
FillTemp(c) ==
  /\ pc[c] = "fill"
  /\ body' = [body EXCEPT ![fd[c]] = bytes[c]]
  /\ fd' = [fd EXCEPT ![c] = None] /\ Go(c, "rename")
  /\ UNCHANGED <<bucket, path, tmp, op, bytes, outcome, knew, faults, acked, littered>>

CacheWriteFailed(c) ==
  IF op[c] = "put" THEN Return(c, "failed") ELSE Return(c, "ok")

RenameTemp(c) ==
  /\ pc[c] = "rename"
  /\ IF tmp = None
     THEN CacheWriteFailed(c) /\ UNCHANGED <<path, tmp>>
     ELSE /\ path' = tmp /\ tmp' = None
          /\ IF op[c] = "put" THEN Go(c, "upload") /\ UNCHANGED outcome
             ELSE Return(c, "ok")
  /\ UNCHANGED <<bucket, body, op, fd, bytes, knew, faults, acked, littered>>

(* The disk is full, say: opening, writing or renaming fails.              *)
CacheFault(c) ==
  /\ pc[c] \in {"open", "fill", "rename"}
  /\ Fault
  /\ CacheWriteFailed(c)
  /\ fd' = [fd EXCEPT ![c] = None]
  /\ UNCHANGED <<bucket, cache, op, bytes, knew, acked, littered>>

-----------------------------------------------------------------------------
(***************************************************************************)
(* put, put_raw: cache, upload; take the cache entry back on failure.      *)
(***************************************************************************)
Upload(c) ==
  /\ pc[c] = "upload"
  /\ bucket' = "whole" /\ acked' = TRUE
  /\ Return(c, "ok")
  /\ UNCHANGED <<cache, op, fd, bytes, knew, faults, littered>>

(* Variant: the entry stays when the upload fails.                         *)
EntryKept(c) == Return(c, "failed") /\ UNCHANGED acked

UploadFailed(c) == Go(c, "unlink") /\ UNCHANGED <<outcome, acked>>

(* An error; the bucket may have taken the object all the same.            *)
UploadFault(c) ==
  /\ pc[c] = "upload"
  /\ Fault
  /\ bucket' \in {bucket, "whole"}
  /\ UploadFailed(c)
  /\ UNCHANGED <<cache, op, fd, bytes, knew, littered>>

Unlink(c) ==
  /\ pc[c] = "unlink"
  /\ path' = None
  /\ Return(c, "failed")
  /\ UNCHANGED <<bucket, body, tmp, op, fd, bytes, knew, faults, acked, littered>>

UnlinkFault(c) ==
  /\ pc[c] = "unlink"
  /\ Fault
  /\ littered' = TRUE
  /\ Return(c, "failed")
  /\ UNCHANGED <<bucket, cache, op, fd, bytes, knew, acked>>

-----------------------------------------------------------------------------
(***************************************************************************)
(* get, get_raw (fetch_map) and has.                                       *)
(***************************************************************************)
Lookup(c) ==
  /\ pc[c] = "lookup"
  /\ IF path # None /\ op[c] = "has" THEN Return(c, "true")
     ELSE /\ Go(c, IF path # None THEN "read"
                   ELSE IF op[c] = "get" THEN "download" ELSE "head")
          /\ UNCHANGED outcome
  /\ UNCHANGED <<bucket, cache, op, fd, bytes, knew, faults, acked, littered>>

Verified(b) == b = "whole"

(* Variant: an entry that fails the check is an error.                     *)
RejectPoisoned(c) == Return(c, "failed")

EvictPoisoned(c) == Go(c, "evict") /\ UNCHANGED outcome

ReadCache(c) ==
  /\ pc[c] = "read"
  /\ IF path # None /\ Verified(body[path]) THEN Return(c, "ok")
     ELSE EvictPoisoned(c)
  /\ UNCHANGED <<bucket, cache, op, fd, bytes, knew, faults, acked, littered>>

(* Whatever is there by now; a failure is only logged.                     *)
Evict(c) ==
  /\ pc[c] = "evict"
  /\ \/ path' = None /\ UNCHANGED faults
     \/ path' = path /\ Fault
  /\ Go(c, "download")
  /\ UNCHANGED <<bucket, body, tmp, op, fd, bytes, outcome, knew, acked, littered>>

(* Variant: whatever came is cached, for whoever reads it to check.        *)
TakenUnchecked(c, b) ==
  Go(c, "open") /\ bytes' = [bytes EXCEPT ![c] = b] /\ UNCHANGED outcome

(* "Map (which verifies) BEFORE caching".                                  *)
Taken(c, b) ==
  IF Verified(b)
  THEN Go(c, "open") /\ bytes' = [bytes EXCEPT ![c] = b] /\ UNCHANGED outcome
  ELSE Return(c, IF b = Absent THEN "notfound" ELSE "failed") /\ UNCHANGED bytes

Download(c) ==
  /\ pc[c] = "download"
  /\ Taken(c, bucket)
  /\ UNCHANGED <<bucket, cache, op, fd, knew, faults, acked, littered>>

(* No answer, or one that was altered on its way.                          *)
DownloadFault(c) ==
  /\ pc[c] = "download"
  /\ Fault
  /\ \/ Return(c, "failed") /\ UNCHANGED bytes
     \/ bucket # Absent /\ Taken(c, "bad")
  /\ UNCHANGED <<bucket, cache, op, fd, knew, acked, littered>>

(* remote_exists: an error is an absence.                                  *)
Head(c) ==
  /\ pc[c] = "head"
  /\ \/ Return(c, IF bucket = Absent THEN "false" ELSE "true") /\ UNCHANGED faults
     \/ Return(c, "false") /\ Fault
  /\ UNCHANGED <<bucket, cache, op, fd, bytes, knew, acked, littered>>

-----------------------------------------------------------------------------
(* The daemon dies, and is started again over what is on disk.             *)
Crash ==
  /\ \E c \in Caller : pc[c] # "idle"
  /\ Fault
  /\ pc' = [c \in Caller |-> "idle"] /\ fd' = [c \in Caller |-> None]
  /\ outcome' = [c \in Caller |-> "none"]
  /\ littered' = TRUE
  /\ UNCHANGED <<bucket, cache, op, bytes, knew, acked>>

(* The cached bytes are altered at rest; those of the bucket are.          *)
Rot ==
  /\ path # None /\ body[path] = "whole"
  /\ Fault
  /\ \E b \in {"bad", "torn"} : body' = [body EXCEPT ![path] = b]
  /\ UNCHANGED <<bucket, path, tmp, calls, acked, littered>>

Tamper ==
  /\ bucket = "whole"
  /\ Fault
  /\ bucket' = "bad"
  /\ UNCHANGED <<cache, calls, acked, littered>>

CallStep(c) ==
  \/ OpenTemp(c) \/ FillTemp(c) \/ RenameTemp(c)
  \/ Upload(c) \/ Unlink(c)
  \/ Lookup(c) \/ ReadCache(c) \/ Evict(c) \/ Download(c) \/ Head(c)

Next ==
  \/ \E c \in Caller :
       \/ BeginPut(c) \/ BeginGet(c) \/ BeginHas(c)
       \/ CallStep(c)
       \/ CacheFault(c) \/ UploadFault(c) \/ UnlinkFault(c) \/ DownloadFault(c)
  \/ Crash \/ Rot \/ Tamper

Spec == Init /\ [][Next]_vars

(* A thread runs what was called; requests time out (REQUEST_TIMEOUT).     *)
FairSpec == Spec /\ \A c \in Caller : WF_vars(CallStep(c))

-----------------------------------------------------------------------------
Cached == IF path = None THEN Absent ELSE body[path]

(* What a put acknowledged is found: no later read of any caller, whatever *)
(* is cached, evicted or torn meanwhile, ends with "not found".            *)
AckedIsFound ==
  \A c \in Caller : outcome[c] = "notfound" => ~knew[c]

(* "so a failed upload can't masquerade as a successful put on the next    *)
(* get/has" (gcs_store.rs): what the cache has, the bucket has, or a put   *)
(* in progress is about to give it or to take it back. Only a crash or a   *)
(* failed unlink leaves an entry of its own.                               *)
FailedPutInvisible ==
  path # None /\ bucket = Absent /\ ~littered =>
    \E c \in Caller : op[c] = "put" /\ pc[c] \in {"upload", "unlink"}

(* "never cache a failed verification": nothing the store does turns the   *)
(* cache entry into a body of another hash.                                *)
NeverCachesUnverified ==
  [][Cached # "bad" /\ Cached' = "bad" => Rot]_vars

(* "a merely-corrupted local cache self-heals": once nothing goes wrong    *)
(* any more and the bucket has the object, every read gets it, however the *)
(* cache entry and its temporary file were left.                           *)
CacheHeals ==
  \A c \in Caller :
    (op[c] = "get" /\ pc[c] = "lookup" /\ [](faults = 0 /\ bucket = "whole"))
      ~> (outcome[c] = "ok")
=============================================================================
