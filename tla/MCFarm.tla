------------------------------- MODULE MCFarm -------------------------------
(* ChiaFarm for model checking: two members that name the same Secret. *)
EXTENDS ChiaFarm, TLC

CONSTANTS mainnet, node, farmer

SameSecret == (node :> mainnet) @@ (farmer :> mainnet)
=============================================================================
