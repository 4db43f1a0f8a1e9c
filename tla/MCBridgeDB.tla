----------------------------- MODULE MCBridgeDB -----------------------------
(***************************************************************************)
(* The store under any client, for TLC: two rows, two packet hashes (the   *)
(* empty one included), one transaction in its two renderings.             *)
(***************************************************************************)
EXTENDS BridgeDB

NoRows   == <<>>
NoRoutes == <<>>

=============================================================================
