---------------------------- MODULE AgentDaemonMC ----------------------------
(***************************************************************************)
(* AgentDaemon on a small instance.                                        *)
(***************************************************************************)
EXTENDS AgentDaemon, TLC

(* Clients, hashes and blobs are interchangeable; Main is no ordinary      *)
(* branch, so branches are not.                                            *)
Symmetry == Permutations(Client) \cup Permutations(Commit) \cup Permutations(Blob)
=============================================================================
