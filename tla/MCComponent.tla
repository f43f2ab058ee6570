---------------------------- MODULE MCComponent ----------------------------
(***************************************************************************)
(* Values for the constants of ChiaComponent: the children of each kind of *)
(* CR in the order of its Reconcile, and the specs the users may write.    *)
(***************************************************************************)
EXTENDS ChiaComponent

(* ChiaFarmer, ChiaHarvester and ChiaWallet *)
FarmerPlan == <<"service", "metrics", "deployment">>

(* ChiaNode *)
NodePlan == <<"base", "internal", "headless", "metrics", "statefulset">>

NoBadSpecs == {{}}
BadDeployment == {{}, {"deployment"}}
=============================================================================
