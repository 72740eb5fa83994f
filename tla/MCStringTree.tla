---------------------------- MODULE MCStringTree ----------------------------
(***************************************************************************)
(* Small instances of StringTree: three keys whose hashes differ (Spread)   *)
(* or of which two collide (Colliding).                                    *)
(***************************************************************************)
EXTENDS StringTree, TLC

CONSTANTS k1, k2, k3

MCKeys == {k1, k2, k3}
MCAddresses == 1 .. 4

Spread    == k1 :> 1 @@ k2 :> 2 @@ k3 :> 3
Colliding == k1 :> 1 @@ k2 :> 1 @@ k3 :> 3
=============================================================================
