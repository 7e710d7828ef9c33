---------------------------- MODULE BranchHistory ----------------------------
(***************************************************************************)
(* What the commit engine promises to a client that never looks inside it. *)
(* A repository is a set of branches; a branch is a chain of commits that  *)
(* only ever grows at its tip, one commit at a time, each new commit       *)
(* naming the tip it replaced as its parent; and a commit the daemon has   *)
(* acknowledged stays reachable from a branch for ever, whatever crashes,  *)
(* restarts, failed attempts and concurrent requests happen around it.     *)
(*                                                                         *)
(* AgentDaemon implements this: see the refinement mapping there.          *)
(***************************************************************************)
CONSTANTS
  Branch,     (* Branch names.                                             *)
  Commit,     (* Commit hashes.                                            *)
  None        (* No commit: an absent ref, or the parent of a root commit. *)

VARIABLES
  tip,        (* tip[b]: the commit branch b points at, or None.           *)
  chain,      (* The commits a branch ever pointed at, each to its parent. *)
  acked       (* Commits a client was told exist.                          *)

vars == <<tip, chain, acked>>

Init ==
  /\ tip = [b \in Branch |-> None]
  /\ chain = [c \in {} |-> None]
  /\ acked = {}

(***************************************************************************)
(* A commit appears on a branch in one step, on top of the current tip.    *)
(***************************************************************************)
Advance(b, c) ==
  /\ c \notin DOMAIN chain
  /\ chain' = [d \in DOMAIN chain \cup {c} |-> IF d = c THEN tip[b] ELSE chain[d]]
  /\ tip' = [tip EXCEPT ![b] = c]
  /\ UNCHANGED acked

Acknowledge(c) ==
  /\ c \in DOMAIN chain
  /\ acked' = acked \cup {c}
  /\ UNCHANGED <<tip, chain>>

Next ==
  \/ \E b \in Branch, c \in Commit : Advance(b, c)
  \/ \E c \in Commit : Acknowledge(c)

Spec == Init /\ [][Next]_vars

-----------------------------------------------------------------------------
(***************************************************************************)
(* c is reachable from d through parent pointers: c belongs to every set   *)
(* that holds d and the parent of each of its members.                     *)
(***************************************************************************)
ParentClosed(S) == \A e \in S \cap DOMAIN chain : chain[e] # None => chain[e] \in S

Reaches(d, c) ==
  \A S \in SUBSET Commit : (d \in S /\ ParentClosed(S)) => c \in S

(***************************************************************************)
(* Every commit of the chain hangs off some branch tip: advancing a branch *)
(* never drops what the branch held (refs::write_branch overwrites the ref *)
(* file, and only the parent pointer keeps the old tip alive).             *)
(***************************************************************************)
ChainReachable ==
  \A c \in DOMAIN chain : \E b \in Branch : tip[b] # None /\ Reaches(tip[b], c)

(***************************************************************************)
(* A commit a client was told exists is never lost from the history.       *)
(***************************************************************************)
AckedReachable ==
  \A c \in acked : \E b \in Branch : tip[b] # None /\ Reaches(tip[b], c)
=============================================================================
