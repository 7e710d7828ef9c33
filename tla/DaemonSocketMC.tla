--------------------------- MODULE DaemonSocketMC ---------------------------
(* Constants of the run of DaemonSocket: two connections of one uid, one   *)
(* of another.                                                             *)
EXTENDS DaemonSocket, TLC

CONSTANTS a1, a2, b1, a, b

Owners == (a1 :> a @@ a2 :> a @@ b1 :> b)
AllowlistAndNone == {{a}, {}}
=============================================================================
