----------------------------- MODULE MCPairClient -----------------------------
(* One device, one shared folder, the operator of the app.                 *)
EXTENDS PairClient

CONSTANTS d1, f1
=============================================================================
