--------------------------- MODULE ChiaFarmProofs ---------------------------
(***************************************************************************)
(* OneCA, for every farm: any members, any ChiaCAs and Secrets, any number *)
(* of edits, deletions, faults and crashes.                                *)
(***************************************************************************)
EXTENDS ChiaFarm, ChiaCAProofs

(* The certificates a member runs with are those in its Secret, unless a   *)
(* user has deleted or replaced them.                                      *)
RunsWithSecret ==
  \A m \in Members :
    loaded[m] # 0 => loaded[m] = material[Trusts[m]] \/ Trusts[m] \in meddled

FarmInv == FarmTypeOK /\ RunsWithSecret

LEMMA FarmInitially == FarmInit => FarmInv
<1> SUFFICES ASSUME FarmInit PROVE FarmInv
  OBVIOUS
<1>1. FarmTypeOK
  <2>1. \A m \in Members : loaded[m] = 0 /\ made[Trusts[m]] = 0
    BY TrustsAssumption DEF FarmInit, Init
  <2>2. QED
    BY <2>1, InitTyped DEF FarmInit, FarmTypeOK
<1>2. RunsWithSecret
  BY DEF FarmInit, RunsWithSecret
<1>3. QED
  BY <1>1, <1>2 DEF FarmInv

LEMMA FarmStep == FarmInv /\ [FarmNext]_farmVars => FarmInv'
<1> SUFFICES ASSUME FarmInv, [FarmNext]_farmVars PROVE FarmInv'
  OBVIOUS
<1> USE TrustsAssumption
<1>0. /\ TypeOK /\ RunsWithSecret
      /\ loaded \in [Members -> Nat] /\ meddled \in SUBSET Secrets
      /\ \A m \in Members : loaded[m] <= made[Trusts[m]]
      /\ \A s \in Secrets : /\ material[s] \in Nat /\ made[s] \in Nat
                             /\ material[s] <= made[s]
  BY DEF FarmInv, FarmTypeOK, TypeOK
<1>1. CASE CAStep
  <2>1. TypeOK'
    BY <1>0, <1>1, StepTyped DEF CAStep
  <2>2. /\ loaded' = loaded
        /\ meddled' = meddled \cup {s \in Secrets : /\ meddles' # meddles /\ material[s] # 0
                                                    /\ material'[s] # material[s]}
    BY <1>1 DEF CAStep, InCluster
  <2>3. /\ \A s \in Secrets :
             material[s] # 0 => material'[s] = material[s] \/ meddles' # meddles
        /\ \A s \in Secrets : made[s] <= made'[s]
    BY <1>0, <1>1, MaterialKept DEF CAStep
  <2>4. RunsWithSecret'
    BY <1>0, <2>2, <2>3 DEF RunsWithSecret
  <2>5. \A m \in Members : loaded'[m] <= made'[Trusts[m]]
    <3>1. \A s \in Secrets : made'[s] \in Nat
      BY <2>1 DEF TypeOK
    <3>2. QED
      BY <1>0, <2>2, <2>3, <3>1
  <2>6. QED
    BY <1>0, <2>1, <2>2, <2>4, <2>5 DEF FarmInv, FarmTypeOK
<1>2. ASSUME NEW m \in Members, ContainerStarts(m) \/ ContainerEnds(m) PROVE FarmInv'
  <2>1. TypeOK' /\ material' = material /\ made' = made /\ meddled' = meddled
    BY <1>0, <1>2, StepTyped DEF ContainerStarts, ContainerEnds, vars
  <2>2. loaded' \in [Members -> Nat]
    BY <1>0, <1>2 DEF ContainerStarts, ContainerEnds
  <2>3. RunsWithSecret'
    BY <1>0, <1>2, <2>1 DEF RunsWithSecret, ContainerStarts, ContainerEnds
  <2>4. \A n \in Members : loaded'[n] <= made'[Trusts[n]]
    BY <1>0, <1>2, <2>1 DEF ContainerStarts, ContainerEnds
  <2>5. QED
    BY <1>0, <2>1, <2>2, <2>3, <2>4 DEF FarmInv, FarmTypeOK
<1>3. CASE UNCHANGED farmVars
  <2>1. TypeOK' /\ material' = material /\ made' = made
    BY <1>0, <1>3, StepTyped DEF farmVars, vars
  <2>2. QED
    BY <1>0, <1>3, <2>1 DEF farmVars, FarmInv, FarmTypeOK, RunsWithSecret
<1>4. QED
  BY <1>1, <1>2, <1>3 DEF FarmNext

(* Members of a farm that name the same Secret run with the same CA, but   *)
(* for users who have deleted the Secret or replaced what is in it.        *)
THEOREM FarmHasOneCA == FarmSafety => []OneCA
<1>1. FarmInv => OneCA
  BY DEF FarmInv, RunsWithSecret, OneCA
<1>2. QED
  BY <1>1, FarmInitially, FarmStep, PTL DEF FarmSafety

(* The variables of the farm have their types. *)
THEOREM FarmTypeCorrect == FarmSafety => []FarmTypeOK
<1>1. FarmInv => FarmTypeOK
  BY DEF FarmInv
<1>2. QED
  BY <1>1, FarmInitially, FarmStep, PTL DEF FarmSafety
=============================================================================
