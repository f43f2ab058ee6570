------------------------------ MODULE ChiaFarm ------------------------------
(***************************************************************************)
(* A farm: the ChiaCA controller, and the components (nodes, farmers,      *)
(* harvesters, wallets) whose pods mount the Secret it has generated.      *)
(* Nothing ties the two together but the name of the Secret, which the     *)
(* user writes in spec.secret of the one and in spec.chia.caSecretName of  *)
(* the others.                                                             *)
(***************************************************************************)
EXTENDS ChiaCA

CONSTANTS
  Members,  \* the components of the farm
  Trusts    \* spec.chia.caSecretName of each

ASSUME TrustsAssumption == Trusts \in [Members -> Secrets]

VARIABLES
  loaded,   \* the certificates the pod of each member started with, or 0
  meddled   \* history: the Secrets users emptied or filled anew by hand

farmVars == <<vars, loaded, meddled>>

FarmTypeOK ==
  /\ TypeOK
  /\ loaded \in [Members -> Nat]
  /\ \A m \in Members : loaded[m] <= made[Trusts[m]]
  /\ meddled \in SUBSET Secrets

FarmInit ==
  /\ Init
  /\ loaded = [m \in Members |-> 0]
  /\ meddled = {}

(* A defect of ContainerStarts: the Secret is optional, and Chia makes     *)
(* certificates of its own when it is not there.                           *)
ContainerStartsAnyway(m) ==
  /\ loaded[m] = 0
  /\ loaded' = [loaded EXCEPT ![m] =
                  IF InCluster(Trusts[m]) THEN material[Trusts[m]] ELSE made[Trusts[m]] + 1]
  /\ UNCHANGED <<vars, meddled>>

(* The container of a member starts once the kubelet can mount the volume  *)
(* secret-ca, and reads the certificates then.                             *)
ContainerStarts(m) ==
  /\ loaded[m] = 0
  /\ InCluster(Trusts[m])
  /\ loaded' = [loaded EXCEPT ![m] = material[Trusts[m]]]
  /\ UNCHANGED <<vars, meddled>>

(* It ends, at any moment: a rollout of the workload, an eviction. *)
ContainerEnds(m) ==
  /\ loaded[m] # 0
  /\ loaded' = [loaded EXCEPT ![m] = 0]
  /\ UNCHANGED <<vars, meddled>>

CAStep ==
  /\ Next
  /\ meddled' = meddled \cup {s \in Secrets : /\ meddles' # meddles
                                              /\ InCluster(s) /\ material'[s] # material[s]}
  /\ UNCHANGED loaded

FarmNext ==
  \/ CAStep
  \/ \E m \in Members : ContainerStarts(m) \/ ContainerEnds(m)

(* The kubelet keeps trying to start a container. *)
FarmFairness ==
  /\ Fairness
  /\ \A m \in Members : WF_farmVars(ContainerStarts(m))

FarmSafety == FarmInit /\ [][FarmNext]_farmVars

FarmSpec == FarmSafety /\ FarmFairness

-----------------------------------------------------------------------------
(* Members that name the same Secret run with the same CA and so trust     *)
(* each other, though they start at different moments, several ChiaCAs     *)
(* name that Secret, ChiaCAs are deleted and created again, and pods of    *)
(* Jobs are retried.  Only a user who deletes the Secret or replaces what  *)
(* is in it breaks it.                                                     *)
OneCA ==
  \A m, n \in Members :
    \/ Trusts[m] # Trusts[n] \/ Trusts[m] \in meddled
    \/ loaded[m] = 0 \/ loaded[n] = 0
    \/ loaded[m] = loaded[n]

(* The Job can no longer make the Secret: its template names another one,  *)
(* or it has ended.                                                        *)
Stuck(k) ==
  job[k] # NoJob /\ (job[k].secret # ca[k].secret \/ job[k].state # "active")

(* No member waits for ever for a Secret that ChiaCAs name, unless the Job *)
(* of each of them is stuck: not behind another ChiaCA whose Job is stuck, *)
(* though a single worker polls for all.                                   *)
EveryoneStarts ==
  \A m \in Members :
    []<>(\/ loaded[m] # 0
         \/ \A k \in CAs :
              ca[k].secret # Trusts[m] \/ (Stuck(k) /\ ~InCluster(Trusts[m])))
=============================================================================
