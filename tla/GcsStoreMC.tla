----------------------------- MODULE GcsStoreMC -----------------------------
(***************************************************************************)
(* Constants of the run of GcsStore.                                       *)
(***************************************************************************)
EXTENDS GcsStore

Files == 1..(Cardinality(Caller) + 2)
=============================================================================
