---------------------------- MODULE ChiaCAProofs ----------------------------
(***************************************************************************)
(* Theorems about ChiaCA, for every set of ChiaCAs and Secrets and every   *)
(* bound: type correctness, JobHasRBAC, ReadyRaisedOnSecret and            *)
(* CAMaterialStable.                                                       *)
(***************************************************************************)
EXTENDS ChiaCA, TLAPS

LEMMA NoneTyped == NoCA \in CAType /\ NoJob \in JobType
BY DEF CAType, JobType, NoCA, NoJob

LEMMA RBACPlanIndex ==
  /\ Len(RBACPlan) = 3
  /\ RBACPlan[1] = "serviceaccount" /\ RBACPlan[2] = "role"
  /\ RBACPlan[3] = "rolebinding"
  /\ RBAC = {"serviceaccount", "role", "rolebinding"}
<1>1. /\ Len(RBACPlan) = 3 /\ DOMAIN RBACPlan = 1 .. 3
      /\ RBACPlan[1] = "serviceaccount" /\ RBACPlan[2] = "role"
      /\ RBACPlan[3] = "rolebinding"
  BY DEF RBACPlan
<1>2. RBAC = {RBACPlan[i] : i \in {1, 2, 3}}
  <2>1. 1 .. 3 = {1, 2, 3}
    OBVIOUS
  <2>2. QED
    BY <1>1, <2>1 DEF RBAC
<1>3. QED
  BY <1>1, <1>2

(* The failure of a pod keeps the type of the Job. *)
LEMMA FailedPodTyped ==
  ASSUME NEW j \in JobType
  PROVE  FailedPod(j) \in JobType /\ FailedPod(j).owner = j.owner
BY DEF FailedPod, JobType

(* A Secret filled with new certificates: the history only grows. *)
LEMMA FilledTyped ==
  ASSUME TypeOK, NEW s,
         made' = [made EXCEPT ![s] = @ + 1],
         material' = [material EXCEPT ![s] = made[s] + 1]
  PROVE  /\ made' \in [Secrets -> Nat] /\ material' \in [Secrets -> Nat]
         /\ \A t \in Secrets : material'[t] <= made'[t] /\ made[t] <= made'[t]
<1>1. /\ made \in [Secrets -> Nat] /\ material \in [Secrets -> Nat]
      /\ \A t \in Secrets : material[t] <= made[t]
  BY DEF TypeOK
<1>2. \A t \in Secrets : made[t] + 1 \in Nat /\ made[t] \in Nat /\ material[t] \in Nat
  BY <1>1
<1>3. made' \in [Secrets -> Nat] /\ material' \in [Secrets -> Nat]
  BY <1>1, <1>2
<1>4. ASSUME NEW t \in Secrets PROVE material'[t] <= made'[t] /\ made[t] <= made'[t]
  <2>1. CASE t = s
    <3>1. made'[t] = made[t] + 1 /\ material'[t] = made[t] + 1
      BY <1>1, <2>1
    <3>2. QED
      BY <1>2, <3>1
  <2>2. CASE t # s
    <3>1. made'[t] = made[t] /\ material'[t] = material[t]
      BY <1>1, <2>2
    <3>2. QED
      BY <1>1, <1>2, <3>1
  <2>3. QED
    BY <2>1, <2>2
<1>5. QED
  BY <1>3, <1>4

(* The two ways a call of Reconcile ends. *)
LEMMA ReturnTyped ==
  ASSUME TypeOK, pc # "idle", Return \/ ReturnError
  PROVE  /\ queue' \in SUBSET CAs
         /\ pc' = "idle" /\ key' = NoKey
         /\ copy' \in CAType
         /\ step' \in 1 .. Len(RBACPlan) /\ polls' \in 0 .. MaxPolls - 1
<1>1. key \in CAs
  BY DEF TypeOK
<1>2. 1 \in 1 .. Len(RBACPlan) /\ 0 \in 0 .. MaxPolls - 1
  BY RBACPlanIndex, PollAssumption
<1>3. QED
  BY <1>1, <1>2, NoneTyped DEF TypeOK, Return, ReturnError, Idle

LEMMA InitTyped == Init => TypeOK
<1> SUFFICES ASSUME Init PROVE TypeOK
  OBVIOUS
<1>1. /\ ca \in [CAs -> CAType] /\ caCache \in [CAs -> CAType] /\ copy \in CAType
      /\ job \in [CAs -> JobType] /\ jobSeen \in [CAs -> JobType]
  BY NoneTyped DEF Init
<1>2. step \in 1 .. Len(RBACPlan) /\ polls \in 0 .. MaxPolls - 1
  BY RBACPlanIndex, PollAssumption DEF Init
<1>3. /\ rbac \in [CAs -> [RBAC -> Nat]]
      /\ material \in [Secrets -> Nat] /\ made \in [Secrets -> Nat]
      /\ \A s \in Secrets : material[s] <= made[s]
  BY DEF Init
<1>4. QED
  BY <1>1, <1>2, <1>3, KeyAssumption DEF Init, TypeOK

(* Every variable keeps its type: one step per action. *)
LEMMA StepTyped == TypeOK /\ [Next]_vars => TypeOK'
<1> SUFFICES ASSUME TypeOK, [Next]_vars PROVE TypeOK'
  OBVIOUS
<1> USE DEF apiVars, cacheVars, workVars, bounds
<1>1. ASSUME NEW k \in CAs, CreateCA(k) PROVE TypeOK'
  <2>1. ca' \in [CAs -> CAType]
    <3>1. PICK s \in Secrets :
            ca' = [ca EXCEPT ![k] = [uid |-> nextUid, gen |-> 1,
                                     secret |-> s, ready |-> FALSE]]
      BY <1>1 DEF CreateCA
    <3>2. [uid |-> nextUid, gen |-> 1, secret |-> s, ready |-> FALSE] \in CAType
      BY DEF TypeOK, CAType
    <3>3. QED
      BY <3>1, <3>2 DEF TypeOK
  <2>2. nextUid' \in Nat \ {0} /\ edits' \in Nat
    BY <1>1 DEF TypeOK, CreateCA
  <2>3. QED
    BY <1>1, <2>1, <2>2 DEF TypeOK, CreateCA
<1>2. ASSUME NEW k \in CAs, EditCA(k) PROVE TypeOK'
  <2>1. PICK s \in Secrets :
          ca' = [ca EXCEPT ![k] = [uid |-> @.uid, gen |-> @.gen + 1,
                                   secret |-> s, ready |-> @.ready]]
    BY <1>2 DEF EditCA
  <2>2. [uid |-> ca[k].uid, gen |-> ca[k].gen + 1,
         secret |-> s, ready |-> ca[k].ready] \in CAType
    BY DEF TypeOK, CAType
  <2>3. ca' \in [CAs -> CAType]
    BY <2>1, <2>2 DEF TypeOK
  <2>4. edits' \in Nat
    BY <1>2 DEF TypeOK, EditCA
  <2>5. QED
    BY <1>2, <2>3, <2>4 DEF TypeOK, EditCA
<1>3. ASSUME NEW k \in CAs, DeleteCA(k) PROVE TypeOK'
  <2>1. ca' \in [CAs -> CAType]
    BY <1>3, NoneTyped DEF TypeOK, DeleteCA
  <2>2. edits' \in Nat
    BY <1>3 DEF TypeOK, DeleteCA
  <2>3. QED
    BY <1>3, <2>1, <2>2 DEF TypeOK, DeleteCA
<1>4. ASSUME NEW k \in CAs, DeleteJob(k) \/ GarbageCollectJob(k) PROVE TypeOK'
  <2>1. job' \in [CAs -> JobType]
    BY <1>4, NoneTyped DEF TypeOK, DeleteJob, GarbageCollectJob
  <2>2. meddles' \in Nat
    BY <1>4 DEF TypeOK, DeleteJob, GarbageCollectJob
  <2>3. QED
    BY <1>4, <2>1, <2>2 DEF TypeOK, DeleteJob, GarbageCollectJob
<1>5. ASSUME NEW s \in Secrets, DeleteSecret(s) \/ PutSecret(s) PROVE TypeOK'
  <2>1. CASE DeleteSecret(s)
    BY <2>1 DEF TypeOK, DeleteSecret
  <2>2. CASE PutSecret(s)
    <3>1. /\ made' = [made EXCEPT ![s] = @ + 1]
          /\ material' = [material EXCEPT ![s] = made[s] + 1]
      BY <2>2 DEF PutSecret
    <3>2. /\ made' \in [Secrets -> Nat] /\ material' \in [Secrets -> Nat]
          /\ \A t \in Secrets : material'[t] <= made'[t]
      BY <3>1, FilledTyped
    <3>3. meddles' \in Nat
      BY <2>2 DEF TypeOK, PutSecret
    <3>4. QED
      BY <2>2, <3>2, <3>3 DEF TypeOK, PutSecret
  <2>3. QED
    BY <1>5, <2>1, <2>2
<1>6. ASSUME NEW k \in CAs, NEW o \in RBAC, GarbageCollectRBAC(k, o) PROVE TypeOK'
  <2>1. rbac' \in [CAs -> [RBAC -> Nat]]
    BY <1>6 DEF TypeOK, GarbageCollectRBAC
  <2>2. QED
    BY <1>6, <2>1 DEF TypeOK, GarbageCollectRBAC
<1>7. ASSUME NEW k \in CAs, PodStores(k) PROVE TypeOK'
  <2> DEFINE completed == [job[k] EXCEPT !.state = "complete"]
  <2>1. completed \in JobType /\ FailedPod(job[k]) \in JobType
    <3>1. job[k] \in JobType
      BY DEF TypeOK
    <3>2. completed \in JobType
      BY <3>1 DEF JobType
    <3>3. QED
      BY <3>1, <3>2, FailedPodTyped
  <2>2. job' = [job EXCEPT ![k] = completed] \/ job' = [job EXCEPT ![k] = FailedPod(@)]
    BY <1>7 DEF PodStores
  <2> HIDE DEF completed
  <2>3. job' \in [CAs -> JobType]
    BY <2>1, <2>2 DEF TypeOK
  <2>4. /\ made' \in [Secrets -> Nat] /\ material' \in [Secrets -> Nat]
        /\ \A s \in Secrets : material'[s] <= made'[s]
    <3>1. \E s : /\ made' = [made EXCEPT ![s] = @ + 1]
                 /\ material' = [material EXCEPT ![s] = made[s] + 1]
      BY <1>7 DEF PodStores
    <3>2. QED
      BY <3>1, FilledTyped
  <2>5. podFailures' \in Nat
    BY <1>7 DEF TypeOK, PodStores
  <2>6. QED
    BY <1>7, <2>3, <2>4, <2>5 DEF TypeOK, PodStores
<1>8. ASSUME NEW k \in CAs, PodRefused(k) \/ PodFails(k) PROVE TypeOK'
  <2>1. FailedPod(job[k]) \in JobType
    BY FailedPodTyped DEF TypeOK
  <2>2. job' \in [CAs -> JobType]
    BY <1>8, <2>1 DEF TypeOK, PodRefused, PodFails
  <2>3. podFailures' \in Nat
    <3>1. CASE PodRefused(k)
      BY <3>1 DEF TypeOK, PodRefused
    <3>2. CASE PodFails(k)
      BY <3>2 DEF TypeOK, PodFails
    <3>3. QED
      BY <1>8, <3>1, <3>2
  <2>4. QED
    BY <1>8, <2>2, <2>3 DEF TypeOK, PodRefused, PodFails
<1>9. ASSUME NEW k \in CAs, WatchCA(k) \/ WatchJob(k) PROVE TypeOK'
  BY <1>9 DEF TypeOK, WatchCA, WatchJob
<1>10. ASSUME NEW s \in Secrets, WatchSecret(s) PROVE TypeOK'
  BY <1>10 DEF TypeOK, WatchSecret
<1>11. CASE Resync
  BY <1>11 DEF TypeOK, Resync
<1>12. ASSUME NEW k \in CAs, Start(k) PROVE TypeOK'
  <2>1. key' \in CAs /\ key' # NoKey /\ pc' = "get" /\ queue' \in SUBSET CAs
    BY <1>12, KeyAssumption DEF TypeOK, Start
  <2>2. QED
    BY <1>12, <2>1 DEF TypeOK, Start
<1>13. ASSUME Return \/ ReturnError, pc # "idle",
              UNCHANGED <<apiVars, cacheVars, up, bounds>>
       PROVE  TypeOK'
  <2>1. /\ queue' \in SUBSET CAs /\ pc' = "idle" /\ key' = NoKey /\ copy' \in CAType
        /\ step' \in 1 .. Len(RBACPlan) /\ polls' \in 0 .. MaxPolls - 1
    BY <1>13, ReturnTyped
  <2>2. QED
    BY <1>13, <2>1 DEF TypeOK
<1>14. CASE GetCA
  <2>1. CASE caCache[key] = NoCA
    BY <1>13, <1>14, <2>1 DEF GetCA
  <2>2. CASE caCache[key] # NoCA
    <3>1. copy' \in CAType /\ pc' = "rbac"
      BY <1>14, <2>2 DEF TypeOK, GetCA
    <3>2. QED
      BY <1>14, <2>2, <3>1 DEF TypeOK, GetCA
  <2>3. QED
    BY <2>1, <2>2
<1>15. CASE ApplyRBAC
  <2>1. key \in CAs /\ RBACPlan[step] \in RBAC /\ copy.uid \in Nat
    BY <1>15, RBACPlanIndex DEF TypeOK, CAType, ApplyRBAC
  <2>2. rbac' \in [CAs -> [RBAC -> Nat]]
    BY <1>15, <2>1 DEF TypeOK, ApplyRBAC
  <2>3. step' \in 1 .. Len(RBACPlan) /\ pc' \in {"rbac", "query"}
    BY <1>15, RBACPlanIndex DEF TypeOK, ApplyRBAC, Goto
  <2>4. QED
    BY <1>15, <2>2, <2>3 DEF TypeOK, ApplyRBAC, Goto
<1>16. CASE QuerySecret
  <2>1. CASE Goto("job")
    BY <1>16, <2>1 DEF TypeOK, QuerySecret, Goto
  <2>2. CASE Return
    BY <1>13, <1>16, <2>2 DEF QuerySecret
  <2>3. QED
    BY <1>16, <2>1, <2>2 DEF QuerySecret
<1>17. CASE ApplyJob
  <2>1. key \in CAs
    BY <1>17 DEF TypeOK, ApplyJob
  <2>2. CASE CreateJob \/ LeaveJob
    <3>1. NewJob \in JobType
      BY DEF TypeOK, CAType, JobType, NewJob
    <3>2. job' = [job EXCEPT ![key] = NewJob] \/ job' = job
      BY <2>2 DEF CreateJob, LeaveJob
    <3>3. job' \in [CAs -> JobType]
      BY <2>1, <3>1, <3>2 DEF TypeOK
    <3>4. Goto("poll")
      BY <2>2 DEF CreateJob, LeaveJob
    <3>5. QED
      BY <1>17, <3>3, <3>4 DEF TypeOK, ApplyJob, Goto
  <2>3. CASE JobRefused
    BY <1>13, <1>17, <2>3 DEF ApplyJob, JobRefused
  <2>4. QED
    BY <1>17, <2>2, <2>3 DEF ApplyJob
<1>18. CASE PollSecret
  <2>1. CASE Goto("status")
    BY <1>18, <2>1 DEF TypeOK, PollSecret, Goto
  <2>2. CASE Return
    BY <1>13, <1>18, <2>2 DEF PollSecret
  <2>3. CASE polls + 1 < MaxPolls /\ polls' = polls + 1 /\ UNCHANGED <<pc, key, copy, step, queue>>
    <3>1. polls' \in 0 .. MaxPolls - 1
      BY <2>3, PollAssumption DEF TypeOK
    <3>2. QED
      BY <1>18, <2>3, <3>1 DEF TypeOK, PollSecret
  <2>4. QED
    BY <1>18, <2>1, <2>2, <2>3 DEF PollSecret
<1>19. CASE UpdateStatus \/ Fault
  <2>1. key \in CAs /\ pc # "idle"
    BY <1>19 DEF TypeOK, UpdateStatus, Fault
  <2>2. [ca EXCEPT ![key].ready = TRUE] \in [CAs -> CAType]
    BY <2>1 DEF TypeOK, CAType
  <2>3. ca' \in [CAs -> CAType]
    BY <1>19, <2>2 DEF TypeOK, UpdateStatus, Fault
  <2>4. Return \/ ReturnError
    BY <1>19 DEF UpdateStatus, Fault
  <2>5. /\ queue' \in SUBSET CAs /\ pc' = "idle" /\ key' = NoKey /\ copy' \in CAType
        /\ step' \in 1 .. Len(RBACPlan) /\ polls' \in 0 .. MaxPolls - 1
    BY <2>1, <2>4, ReturnTyped
  <2>6. faults' \in Nat
    BY <1>19 DEF TypeOK, UpdateStatus, Fault
  <2>7. QED
    BY <1>19, <2>3, <2>5, <2>6 DEF TypeOK, UpdateStatus, Fault
<1>20. CASE Crash
  <2>1. /\ caCache' \in [CAs -> CAType] /\ jobSeen' \in [CAs -> JobType]
        /\ copy' \in CAType /\ secretSeen' \in SUBSET Secrets
    BY <1>20, NoneTyped DEF Crash, Idle
  <2>2. step' \in 1 .. Len(RBACPlan) /\ polls' \in 0 .. MaxPolls - 1
    BY <1>20, RBACPlanIndex, PollAssumption DEF Crash, Idle
  <2>3. pc' = "idle" /\ key' = NoKey /\ queue' = {} /\ crashes' \in Nat
    BY <1>20 DEF TypeOK, Crash, Idle
  <2>4. QED
    BY <1>20, <2>1, <2>2, <2>3 DEF TypeOK, Crash
<1>21. CASE Restart
  BY <1>21 DEF TypeOK, Restart
<1>22. CASE UNCHANGED vars
  BY <1>22 DEF TypeOK, vars
<1>23. QED
  BY <1>1, <1>2, <1>3, <1>4, <1>5, <1>6, <1>7, <1>8, <1>9, <1>10, <1>11, <1>12,
     <1>14, <1>15, <1>16, <1>17, <1>18, <1>19, <1>20, <1>21, <1>22
  DEF Next, User, Cluster, Informers, Operator, Reconcile

(* The types are those TypeOK says, for every value of the constants. *)
THEOREM TypeCorrect == Safety => []TypeOK
BY InitTyped, StepTyped, PTL DEF Safety

-----------------------------------------------------------------------------
(***************************************************************************)
(* ReadyRaisedOnSecret.  The informer only shows Secrets that have been    *)
(* filled, and the worker has seen its own when it comes to the status.    *)
(***************************************************************************)
SeenInv ==
  /\ TypeOK
  /\ \A s \in Secrets : material[s] # 0 => made[s] > 0
  /\ \A s \in secretSeen : made[s] > 0
  /\ pc = "status" => copy.secret \in Secrets /\ made[copy.secret] > 0

LEMMA SeenInvariant == Safety => []SeenInv
<1> USE DEF apiVars, cacheVars, workVars, bounds
<1>1. Init => SeenInv
  BY InitTyped DEF Init, SeenInv
<1>2. SeenInv /\ [Next]_vars => SeenInv'
  <2> SUFFICES ASSUME SeenInv, [Next]_vars PROVE SeenInv'
    OBVIOUS
  <2>1. TypeOK /\ TypeOK'
    BY StepTyped DEF SeenInv
  <2>2. ASSUME UNCHANGED <<material, made, secretSeen>>, pc' # "status" PROVE SeenInv'
    BY <2>1, <2>2 DEF SeenInv
  <2>3. ASSUME UNCHANGED <<material, made, secretSeen, pc, copy>> PROVE SeenInv'
    BY <2>1, <2>3 DEF SeenInv
  <2>4. ASSUME NEW s \in Secrets, DeleteSecret(s) PROVE SeenInv'
    <3>1. \A t \in Secrets : material'[t] # 0 => material[t] # 0
      BY <2>1, <2>4 DEF TypeOK, DeleteSecret
    <3>2. UNCHANGED <<made, secretSeen, pc, copy>>
      BY <2>4 DEF DeleteSecret
    <3>3. QED
      BY <2>1, <3>1, <3>2 DEF SeenInv
  <2>5. ASSUME UNCHANGED <<secretSeen, pc, copy>>,
               NEW s, made' = [made EXCEPT ![s] = @ + 1],
               material' = [material EXCEPT ![s] = made[s] + 1]
        PROVE  SeenInv'
    <3>1. \A t \in Secrets : made[t] <= made'[t]
      BY <2>1, <2>5, FilledTyped
    <3>2. \A t \in Secrets : /\ made[t] \in Nat /\ made'[t] \in Nat
                             /\ material'[t] \in Nat /\ material'[t] <= made'[t]
      BY <2>1 DEF TypeOK
    <3>3. \A t \in Secrets : /\ made[t] > 0 => made'[t] > 0
                             /\ material'[t] # 0 => made'[t] > 0
      BY <3>1, <3>2
    <3>4. secretSeen \subseteq Secrets
      BY <2>1 DEF TypeOK
    <3>5. QED
      BY <2>1, <2>5, <3>3, <3>4 DEF SeenInv
  <2>6. ASSUME NEW s \in Secrets, WatchSecret(s) PROVE SeenInv'
    <3>1. \A t \in secretSeen' : t \in secretSeen \/ (t \in Secrets /\ material[t] # 0)
      BY <2>6 DEF WatchSecret, InCluster
    <3>2. UNCHANGED <<material, made, pc, copy>>
      BY <2>6 DEF WatchSecret
    <3>3. QED
      BY <2>1, <3>1, <3>2 DEF SeenInv
  <2>7. CASE PollSecret
    <3>1. UNCHANGED <<material, made, secretSeen>>
      BY <2>7 DEF PollSecret
    <3>2. CASE copy.secret \in secretSeen
      <4>1. UNCHANGED copy /\ copy.secret \in Secrets
        BY <2>1, <2>7, <3>2 DEF TypeOK, PollSecret, Goto
      <4>2. QED
        BY <2>1, <3>1, <3>2, <4>1 DEF SeenInv
    <3>3. CASE copy.secret \notin secretSeen
      BY <2>2, <2>7, <3>1, <3>3 DEF PollSecret, Return, Idle
    <3>4. QED
      BY <3>2, <3>3
  <2>8. CASE Crash
    BY <2>1, <2>8 DEF SeenInv, Crash, Idle
  <2>9. CASE Restart
    <3>1. \A t \in secretSeen' : t \in Secrets /\ material[t] # 0
      BY <2>9 DEF Restart, InCluster
    <3>2. UNCHANGED <<material, made, pc, copy>>
      BY <2>9 DEF Restart
    <3>3. QED
      BY <2>1, <3>1, <3>2 DEF SeenInv
  <2>10. CASE GetCA \/ ApplyRBAC \/ QuerySecret \/ ApplyJob \/ UpdateStatus \/ Fault
    <3>1. UNCHANGED <<material, made, secretSeen>>
      BY <2>10 DEF GetCA, ApplyRBAC, QuerySecret, ApplyJob, UpdateStatus, Fault
    <3>2. pc' # "status"
      BY <2>10 DEF GetCA, ApplyRBAC, QuerySecret, ApplyJob, UpdateStatus, Fault, Goto,
                   Return, ReturnError, Idle, CreateJob, LeaveJob, JobRefused
    <3>3. QED
      BY <2>2, <3>1, <3>2
  <2>11. ASSUME NEW k \in CAs,
                \/ CreateCA(k) \/ EditCA(k) \/ DeleteCA(k) \/ DeleteJob(k)
                \/ GarbageCollectJob(k) \/ PodRefused(k) \/ PodFails(k)
                \/ WatchCA(k) \/ WatchJob(k)
         PROVE  SeenInv'
    BY <2>3, <2>11 DEF CreateCA, EditCA, DeleteCA, DeleteJob, GarbageCollectJob,
                       PodRefused, PodFails, WatchCA, WatchJob
  <2>12. ASSUME NEW k \in CAs, NEW o \in RBAC, GarbageCollectRBAC(k, o) PROVE SeenInv'
    BY <2>3, <2>12 DEF GarbageCollectRBAC
  <2>13. ASSUME NEW k \in CAs, Start(k) PROVE SeenInv'
    BY <2>2, <2>13 DEF Start
  <2>14. CASE Resync \/ UNCHANGED vars
    BY <2>3, <2>14 DEF Resync, vars
  <2>15. ASSUME NEW k \in CAs, PodStores(k) PROVE SeenInv'
    <3>1. UNCHANGED <<secretSeen, pc, copy>>
      BY <2>15 DEF PodStores
    <3>2. \E s : /\ made' = [made EXCEPT ![s] = @ + 1]
                 /\ material' = [material EXCEPT ![s] = made[s] + 1]
      BY <2>15 DEF PodStores
    <3>3. QED
      BY <2>5, <3>1, <3>2
  <2>16. ASSUME NEW s \in Secrets, PutSecret(s) PROVE SeenInv'
    BY <2>5, <2>16 DEF PutSecret
  <2>17. QED
    BY <2>4, <2>6, <2>7, <2>8, <2>9, <2>10, <2>11, <2>12, <2>13, <2>14, <2>15, <2>16
    DEF Next, User, Cluster, Informers, Operator, Reconcile
<1>3. QED
  BY <1>1, <1>2, PTL DEF Safety

(* Status.Ready is raised only on a ChiaCA whose Secret, as the spec names *)
(* it at that moment, has been there.                                      *)
THEOREM ReadyIsEarned == Safety => ReadyRaisedOnSecret
<1> DEFINE Earned == \A k \in CAs : ca'[k].ready /\ ~ca[k].ready => made[ca'[k].secret] > 0
<1> USE DEF apiVars, cacheVars, workVars, bounds
<1>1. SeenInv /\ [Next]_vars => [Earned]_vars
  <2> SUFFICES ASSUME SeenInv, Next, NEW k \in CAs, ca'[k].ready, ~ca[k].ready
               PROVE  made[ca'[k].secret] > 0
    OBVIOUS
  <2>1. TypeOK
    BY DEF SeenInv
  <2>2. ASSUME NEW j \in CAs, CreateCA(j) \/ EditCA(j) \/ DeleteCA(j) PROVE FALSE
    <3>1. CASE CreateCA(j)
      BY <2>1, <3>1 DEF TypeOK, CreateCA
    <3>2. CASE EditCA(j)
      BY <2>1, <3>2 DEF TypeOK, EditCA
    <3>3. CASE DeleteCA(j)
      BY <2>1, <3>3 DEF TypeOK, DeleteCA, NoCA
    <3>4. QED
      BY <2>2, <3>1, <3>2, <3>3
  <2>3. CASE UNCHANGED ca
    BY <2>3
  <2>4. CASE (UpdateStatus \/ Fault) /\ ca' # ca
    <3>1. /\ key \in CAs /\ pc = "status" /\ ca[key] = copy
          /\ ca' = [ca EXCEPT ![key].ready = TRUE]
      BY <2>1, <2>4 DEF TypeOK, UpdateStatus, Fault, StatusAccepted
    <3>2. k = key
      BY <2>1, <3>1 DEF TypeOK
    <3>3. ca'[k].secret = copy.secret
      BY <2>1, <3>1, <3>2 DEF TypeOK, CAType
    <3>4. QED
      BY <3>1, <3>3 DEF SeenInv
  <2>5. QED
    BY <2>2, <2>3, <2>4
    DEF Next, User, Cluster, Informers, Operator, Reconcile, DeleteJob, DeleteSecret, PutSecret,
        GarbageCollectRBAC, GarbageCollectJob, PodStores, PodRefused, PodFails,
        WatchCA, WatchJob, WatchSecret, Resync, Start, GetCA, ApplyRBAC, QuerySecret,
        ApplyJob, PollSecret, Crash, Restart
<1>2. QED
  BY <1>1, SeenInvariant, PTL DEF Safety, ReadyRaisedOnSecret

-----------------------------------------------------------------------------
(***************************************************************************)
(* JobHasRBAC.  A worker with an old copy of a ChiaCA could take the RBAC  *)
(* objects back to an incarnation that is gone.  It never does so once the *)
(* living one has a Job: a Job of the living incarnation shows that the    *)
(* informer has seen that incarnation, it never goes back, and there is    *)
(* one worker.                                                             *)
(***************************************************************************)
Working == pc \notin {"idle", "get"}

(* Uids: 0 is none, and a uid to come is on no object yet. *)
UidInv ==
  /\ copy.uid < nextUid /\ (Working => copy.uid > 0)
  /\ ~up => pc = "idle"
  /\ \A k \in CAs :
       /\ ca[k].uid < nextUid /\ (ca[k] # NoCA => ca[k].uid > 0)
       /\ caCache[k].uid < nextUid /\ (caCache[k] # NoCA => caCache[k].uid > 0)
       /\ job[k].owner < nextUid /\ (job[k] # NoJob => job[k].owner > 0)

LivingCopy == Working /\ copy.uid = ca[key].uid

(* What the worker has done so far for the living incarnation. *)
RBACSoFar ==
  /\ ~Working => step = 1
  /\ LivingCopy =>
       /\ caCache[key].uid = ca[key].uid
       /\ pc = "rbac" => \A i \in 1 .. 3 : i < step => rbac[key][RBACPlan[i]] = copy.uid
       /\ pc # "rbac" => \A o \in RBAC : rbac[key][o] = copy.uid

(* A Job of the living incarnation: no older copy of the ChiaCA is left. *)
LivingJob(k) == job[k] # NoJob /\ job[k].owner = ca[k].uid

NoOldCopy ==
  \A k \in CAs :
    LivingJob(k) => /\ up => caCache[k].uid = ca[k].uid
                    /\ Working /\ key = k => copy.uid = ca[k].uid

JobInv == TypeOK /\ UidInv /\ RBACSoFar /\ NoOldCopy /\ JobHasRBAC

(* A Job keeps its owner, or the worker gives it the uid of its copy. *)
LEMMA JobOwners ==
  ASSUME TypeOK, [Next]_vars
  PROVE  \A k \in CAs : \/ job'[k] = NoJob
                        \/ job[k] # NoJob /\ job'[k].owner = job[k].owner
                        \/ Working /\ pc = "job" /\ k = key /\ job'[k].owner = copy.uid
<1> USE DEF apiVars, cacheVars, workVars, bounds
<1>1. ASSUME NEW j \in CAs, DeleteJob(j) \/ GarbageCollectJob(j)
      PROVE  \A k \in CAs : job'[k] = job[k] \/ job'[k] = NoJob
  BY <1>1 DEF TypeOK, DeleteJob, GarbageCollectJob
<1>2. ASSUME NEW j \in CAs, PodStores(j) \/ PodRefused(j) \/ PodFails(j)
      PROVE  \A k \in CAs : \/ job'[k] = job[k]
                            \/ job[k] # NoJob /\ job'[k].owner = job[k].owner
  <2>1. job[j] \in JobType /\ job[j].state = "active"
    BY <1>2 DEF TypeOK, PodStores, PodRefused, PodFails, CanStore
  <2>2. job[j] # NoJob
    BY <2>1 DEF NoJob
  <2>3. FailedPod(job[j]).owner = job[j].owner
    BY <2>1, FailedPodTyped
  <2>4. \/ job' = [job EXCEPT ![j] = FailedPod(@)]
        \/ job' = [job EXCEPT ![j].state = "complete"]
    BY <1>2 DEF PodStores, PodRefused, PodFails
  <2>5. job'[j].owner = job[j].owner /\ \A k \in CAs \ {j} : job'[k] = job[k]
    BY <2>1, <2>3, <2>4 DEF TypeOK, JobType
  <2>6. QED
    BY <2>2, <2>5
<1>3. CASE ApplyJob
  <2>1. key \in CAs /\ Working /\ pc = "job"
    BY <1>3 DEF TypeOK, ApplyJob, Working
  <2>2. CASE CreateJob
    BY <2>1, <2>2 DEF TypeOK, CreateJob, NewJob
  <2>3. CASE job' = job
    BY <2>3
  <2>4. QED
    BY <1>3, <2>2, <2>3 DEF ApplyJob, LeaveJob, JobRefused
<1>4. CASE job' = job
  BY <1>4
<1>5. QED
  BY <1>1, <1>2, <1>3, <1>4
  DEF Next, User, Cluster, Informers, Operator, Reconcile, CreateCA, EditCA, DeleteCA,
      DeleteSecret, PutSecret, GarbageCollectRBAC, WatchCA, WatchJob, WatchSecret, Resync, Start,
      GetCA, ApplyRBAC, QuerySecret, PollSecret, UpdateStatus, Fault, Crash, Restart, vars

(* The worker's copy comes from the informer and does not change. *)
LEMMA Copies ==
  ASSUME TypeOK, [Next]_vars
  PROVE  /\ copy' = copy \/ copy' = NoCA \/ (key \in CAs /\ copy' = caCache[key])
         /\ Working' => \/ Working /\ copy' = copy /\ key' = key
                        \/ /\ key \in CAs /\ copy' = caCache[key] /\ caCache[key] # NoCA
                           /\ GetCA /\ key' = key /\ pc' = "rbac" /\ step' = step
<1> USE DEF apiVars, cacheVars, workVars, bounds
<1>1. ASSUME Return \/ ReturnError PROVE copy' = NoCA /\ ~Working'
  BY <1>1 DEF Return, ReturnError, Idle, Working
<1>2. CASE GetCA
  BY <1>1, <1>2 DEF TypeOK, GetCA
<1>3. CASE ApplyRBAC \/ QuerySecret \/ ApplyJob \/ PollSecret
  BY <1>1, <1>3 DEF ApplyRBAC, QuerySecret, ApplyJob, PollSecret, Goto, Working,
                    CreateJob, LeaveJob, JobRefused
<1>4. CASE UpdateStatus \/ Fault
  BY <1>1, <1>4 DEF UpdateStatus, Fault
<1>5. ASSUME NEW k \in CAs, Start(k) PROVE copy' = copy /\ ~Working'
  BY <1>5 DEF Start, Working
<1>6. CASE Crash
  BY <1>6 DEF Crash, Idle, Working
<1>7. CASE UNCHANGED <<pc, key, copy>>
  BY <1>7 DEF Working
<1>8. QED
  BY <1>2, <1>3, <1>4, <1>5, <1>6, <1>7
  DEF Next, User, Cluster, Informers, Operator, Reconcile, CreateCA, EditCA, DeleteCA,
      DeleteJob, DeleteSecret, PutSecret, GarbageCollectRBAC, GarbageCollectJob, PodStores,
      PodRefused, PodFails, WatchCA, WatchJob, WatchSecret, Resync, Restart, vars

LEMMA UidStep == TypeOK /\ UidInv /\ [Next]_vars => UidInv'
<1> SUFFICES ASSUME TypeOK, UidInv, [Next]_vars PROVE UidInv'
  OBVIOUS
<1> USE DEF apiVars, cacheVars, workVars, bounds
<1>0. TypeOK'
  BY StepTyped
<1>1. \/ nextUid' = nextUid /\ \A k \in CAs :
           \/ ca'[k] = NoCA
           \/ ca[k] # NoCA /\ ca'[k].uid = ca[k].uid
      \/ nextUid' = nextUid + 1 /\ \A k \in CAs : ca'[k] = ca[k] \/ ca'[k].uid = nextUid
  <2>1. ASSUME NEW j \in CAs, CreateCA(j) \/ EditCA(j) \/ DeleteCA(j)
        PROVE  <1>1!1 \/ <1>1!2
    <3>1. CASE CreateCA(j)
      BY <3>1 DEF TypeOK, CreateCA
    <3>2. CASE EditCA(j)
      BY <3>2 DEF TypeOK, EditCA
    <3>3. CASE DeleteCA(j)
      BY <3>3 DEF TypeOK, DeleteCA
    <3>4. QED
      BY <2>1, <3>1, <3>2, <3>3
  <2>2. CASE UNCHANGED <<ca, nextUid>>
    BY <2>2
  <2>3. CASE (UpdateStatus \/ Fault) /\ ca' # ca
    <3>1. /\ key \in CAs /\ pc = "status" /\ ca[key] = copy /\ nextUid' = nextUid
          /\ ca' = [ca EXCEPT ![key].ready = TRUE]
      BY <2>3 DEF TypeOK, UpdateStatus, Fault, StatusAccepted
    <3>2. ca[key] # NoCA
      BY <3>1 DEF UidInv, Working, NoCA
    <3>3. QED
      BY <3>1, <3>2 DEF TypeOK, CAType
  <2>4. QED
    BY <2>1, <2>2, <2>3
    DEF Next, User, Cluster, Informers, Operator, Reconcile, DeleteJob, DeleteSecret, PutSecret,
        GarbageCollectRBAC, GarbageCollectJob, PodStores, PodRefused, PodFails,
        WatchCA, WatchJob, WatchSecret, Resync, Start, GetCA, ApplyRBAC, QuerySecret,
        ApplyJob, PollSecret, UpdateStatus, Fault, Crash, Restart, vars
<1>2. \A k \in CAs : caCache'[k] \in {caCache[k], ca[k], NoCA}
  <2>1. ASSUME NEW j \in CAs, WatchCA(j) PROVE \A k \in CAs : caCache'[k] \in {caCache[k], ca[k]}
    BY <2>1 DEF TypeOK, WatchCA
  <2>2. QED
    BY <2>1 DEF Next, User, Cluster, Informers, Operator, Reconcile, CreateCA, EditCA,
        DeleteCA, DeleteJob, DeleteSecret, PutSecret,
        GarbageCollectRBAC, GarbageCollectJob, PodStores, PodRefused, PodFails,
        WatchJob, WatchSecret, Resync, Start, GetCA, ApplyRBAC, QuerySecret,
        ApplyJob, PollSecret, UpdateStatus, Fault, Crash, Restart, vars
<1>3. \A k \in CAs : \/ job'[k] = NoJob
                     \/ job[k] # NoJob /\ job'[k].owner = job[k].owner
                     \/ Working /\ job'[k].owner = copy.uid
  BY JobOwners
<1>4. /\ copy' = copy \/ copy' = NoCA \/ (key \in CAs /\ copy' = caCache[key])
      /\ Working' => \/ Working /\ copy' = copy
                     \/ key \in CAs /\ copy' = caCache[key] /\ caCache[key] # NoCA
  BY Copies
<1>5. ~up' => pc' = "idle"
  <2>1. CASE Crash
    BY <2>1 DEF Crash, Idle
  <2>2. ASSUME NEW k \in CAs, Start(k) PROVE up'
    BY <2>2 DEF Start
  <2>3. CASE Reconcile
    BY <2>3, Copies DEF UidInv, Reconcile, GetCA, ApplyRBAC, QuerySecret, ApplyJob,
                        PollSecret, UpdateStatus
  <2>4. QED
    BY <2>1, <2>2, <2>3
    DEF Next, User, Cluster, Informers, Operator, UidInv, CreateCA, EditCA, DeleteCA,
        DeleteJob, DeleteSecret, PutSecret, GarbageCollectRBAC, GarbageCollectJob, PodStores,
        PodRefused, PodFails, WatchCA, WatchJob, WatchSecret, Resync, Fault, Restart,
        ReturnError, Idle, vars
<1>6. NoCA.uid = 0 /\ NoJob.owner = 0 /\ nextUid > 0
  BY DEF TypeOK, NoCA, NoJob
<1>7. nextUid' >= nextUid /\ nextUid \in Nat /\ nextUid' \in Nat
  BY <1>0, <1>1 DEF TypeOK
<1>8. \A k \in CAs : ca'[k].uid < nextUid' /\ (ca'[k] # NoCA => ca'[k].uid > 0)
  <2> SUFFICES ASSUME NEW k \in CAs
               PROVE  ca'[k].uid < nextUid' /\ (ca'[k] # NoCA => ca'[k].uid > 0)
    OBVIOUS
  <2>1. ca[k].uid \in Nat /\ ca[k].uid < nextUid /\ (ca[k] # NoCA => ca[k].uid > 0)
    BY DEF TypeOK, CAType, UidInv
  <2>2. QED
    BY <1>1, <1>6, <1>7, <2>1
<1>9. \A k \in CAs : caCache'[k].uid < nextUid' /\ (caCache'[k] # NoCA => caCache'[k].uid > 0)
  <2> SUFFICES ASSUME NEW k \in CAs
               PROVE  caCache'[k].uid < nextUid' /\ (caCache'[k] # NoCA => caCache'[k].uid > 0)
    OBVIOUS
  <2>1. caCache[k].uid \in Nat /\ ca[k].uid \in Nat
    BY DEF TypeOK, CAType
  <2>2. /\ caCache[k].uid < nextUid /\ (caCache[k] # NoCA => caCache[k].uid > 0)
        /\ ca[k].uid < nextUid /\ (ca[k] # NoCA => ca[k].uid > 0)
    BY DEF UidInv
  <2>3. QED
    BY <1>2, <1>6, <1>7, <2>1, <2>2
<1>10. \A k \in CAs : job'[k].owner < nextUid' /\ (job'[k] # NoJob => job'[k].owner > 0)
  <2> SUFFICES ASSUME NEW k \in CAs
               PROVE  job'[k].owner < nextUid' /\ (job'[k] # NoJob => job'[k].owner > 0)
    OBVIOUS
  <2>1. job[k].owner \in Nat /\ copy.uid \in Nat
    BY DEF TypeOK, CAType, JobType
  <2>2. /\ job[k].owner < nextUid /\ (job[k] # NoJob => job[k].owner > 0)
        /\ copy.uid < nextUid /\ (Working => copy.uid > 0)
    BY DEF UidInv
  <2>3. QED
    BY <1>3, <1>6, <1>7, <2>1, <2>2
<1>11. copy'.uid < nextUid' /\ (Working' => copy'.uid > 0)
  BY <1>4, <1>6, <1>7 DEF UidInv, TypeOK, CAType
<1>12. QED
  BY <1>5, <1>8, <1>9, <1>10, <1>11 DEF UidInv

(* What a step does to the rest, seen from the incarnations: these lemmas  *)
(* leave one case per action to the proof of JobInv.                       *)
LEMMA CAUids ==
  ASSUME TypeOK, UidInv, [Next]_vars, NEW k \in CAs, ca'[k].uid # ca[k].uid
  PROVE  /\ ca'[k].uid \in {0, nextUid}
         /\ UNCHANGED <<rbac, job, caCache, pc, key, copy, step, up>>
<1> USE DEF apiVars, cacheVars, workVars, bounds
<1>1. ASSUME NEW j \in CAs, CreateCA(j) PROVE ca'[k].uid \in {0, nextUid}
  BY <1>1 DEF TypeOK, CreateCA
<1>2. ASSUME NEW j \in CAs, EditCA(j) PROVE FALSE
  BY <1>2 DEF TypeOK, EditCA
<1>3. ASSUME NEW j \in CAs, DeleteCA(j) PROVE ca'[k].uid \in {0, nextUid}
  BY <1>3 DEF TypeOK, DeleteCA, NoCA
<1>4. ~(UpdateStatus \/ Fault)
  <2>1. ASSUME ca' = [ca EXCEPT ![key].ready = TRUE] PROVE FALSE
    BY <2>1 DEF TypeOK, CAType
  <2>2. QED
    BY <2>1 DEF UpdateStatus, Fault
<1>5. ca' # ca
  OBVIOUS
<1>6. QED
  BY <1>1, <1>2, <1>3, <1>4, <1>5
  DEF Next, User, Cluster, Informers, Operator, Reconcile, CreateCA, DeleteCA, DeleteJob,
      DeleteSecret, PutSecret, GarbageCollectRBAC, GarbageCollectJob, PodStores, PodRefused, PodFails,
      WatchCA, WatchJob, WatchSecret, Resync, Start, GetCA, ApplyRBAC, QuerySecret,
      ApplyJob, PollSecret, Crash, Restart, vars

LEMMA RBACWrites ==
  ASSUME TypeOK, [Next]_vars, NEW k \in CAs, NEW o \in RBAC, rbac'[k][o] # rbac[k][o]
  PROVE  \/ ca' = ca /\ rbac[k][o] # ca[k].uid /\ ~ApplyRBAC
         \/ ApplyRBAC /\ k = key /\ o = RBACPlan[step]
<1> USE DEF apiVars, cacheVars, workVars, bounds
<1>1. ASSUME NEW j \in CAs, NEW p \in RBAC, GarbageCollectRBAC(j, p)
      PROVE  ca' = ca /\ rbac[k][o] # ca[k].uid
  BY <1>1 DEF TypeOK, GarbageCollectRBAC
<1>2. CASE ApplyRBAC
  BY <1>2 DEF TypeOK, ApplyRBAC
<1>3. rbac' # rbac
  OBVIOUS
<1>4. QED
  BY <1>1, <1>2, <1>3
  DEF Next, User, Cluster, Informers, Operator, Reconcile, CreateCA, EditCA, DeleteCA,
      DeleteJob, DeleteSecret, PutSecret, GarbageCollectJob, PodStores, PodRefused, PodFails,
      WatchCA, WatchJob, WatchSecret, Resync, Start, GetCA, QuerySecret, ApplyJob,
      PollSecret, UpdateStatus, Fault, Crash, Restart, vars

LEMMA CacheMoves ==
  ASSUME TypeOK, [Next]_vars, NEW k \in CAs, up'
  PROVE  (up /\ caCache'[k] = caCache[k]) \/ caCache'[k] = ca[k]
<1> USE DEF apiVars, cacheVars, workVars, bounds
<1>1. ASSUME NEW j \in CAs, WatchCA(j) PROVE up /\ caCache'[k] \in {caCache[k], ca[k]}
  BY <1>1 DEF TypeOK, WatchCA
<1>2. QED
  BY <1>1
  DEF Next, User, Cluster, Informers, Operator, Reconcile, CreateCA, EditCA, DeleteCA,
      DeleteJob, DeleteSecret, PutSecret, GarbageCollectRBAC, GarbageCollectJob, PodStores, PodRefused,
      PodFails, WatchJob, WatchSecret, Resync, Start, GetCA, ApplyRBAC, QuerySecret,
      ApplyJob, PollSecret, UpdateStatus, Fault, Crash, Restart, vars

(* Where the worker may be after a step, if it still has its copy. *)
LEMMA WorkMoves ==
  ASSUME TypeOK, [Next]_vars, RBACSoFar
  PROVE  /\ ~Working' => step' = 1
         /\ Working /\ Working' =>
              \/ pc' = "rbac" /\ pc = "rbac" /\ step' = step /\ ~ApplyRBAC
              \/ pc' = "rbac" /\ ApplyRBAC /\ step' = step + 1
              \/ pc' = "query" /\ ApplyRBAC /\ step = 3
              \/ pc' # "rbac" /\ pc # "rbac"
<1> USE DEF apiVars, cacheVars, workVars, bounds
<1>1. ASSUME Return \/ ReturnError PROVE step' = 1 /\ ~Working'
  BY <1>1 DEF Return, ReturnError, Idle, Working
<1>2. CASE ApplyRBAC
  BY <1>2, RBACPlanIndex DEF ApplyRBAC, Goto, Working
<1>3. CASE GetCA
  BY <1>1, <1>3 DEF RBACSoFar, GetCA, Working
<1>4. CASE QuerySecret \/ ApplyJob \/ PollSecret
  BY <1>1, <1>4 DEF QuerySecret, ApplyJob, PollSecret, Goto, Working,
                    CreateJob, LeaveJob, JobRefused
<1>5. CASE UpdateStatus \/ Fault
  BY <1>1, <1>5 DEF UpdateStatus, Fault
<1>6. ASSUME NEW k \in CAs, Start(k) PROVE step' = step /\ ~Working /\ ~Working'
  BY <1>6 DEF Start, Working
<1>7. CASE Crash
  BY <1>7 DEF Crash, Idle, Working
<1>8. CASE UNCHANGED <<pc, step>>
  BY <1>2, <1>8 DEF RBACSoFar, Working
<1>9. QED
  BY <1>2, <1>3, <1>4, <1>5, <1>6, <1>7, <1>8
  DEF RBACSoFar, Next, User, Cluster, Informers, Operator, Reconcile, CreateCA, EditCA,
      DeleteCA, DeleteJob, DeleteSecret, PutSecret, GarbageCollectRBAC, GarbageCollectJob, PodStores,
      PodRefused, PodFails, WatchCA, WatchJob, WatchSecret, Resync, Restart, vars

LEMMA JobStep == JobInv /\ [Next]_vars => JobInv'
<1> SUFFICES ASSUME JobInv, [Next]_vars PROVE JobInv'
  OBVIOUS
<1>1. TypeOK /\ TypeOK' /\ UidInv /\ UidInv' /\ RBACSoFar /\ NoOldCopy /\ JobHasRBAC
  BY StepTyped, UidStep DEF JobInv
<1>2. ASSUME LivingCopy'
      PROVE  /\ key \in CAs /\ key' = key /\ ca'[key].uid = ca[key].uid
             /\ copy'.uid = ca[key].uid
             /\ (GetCA /\ copy' = caCache[key] /\ pc' = "rbac" /\ step' = 1) \/ LivingCopy
  <2>1. key' = key /\ key \in CAs
    BY <1>1, <1>2, Copies DEF LivingCopy, Working, TypeOK
  <2>2. ca'[key].uid = ca[key].uid
    <3>1. copy'.uid > 0 /\ copy'.uid < nextUid' /\ copy'.uid = ca'[key].uid
      BY <1>1, <1>2, <2>1 DEF UidInv, LivingCopy
    <3>2. SUFFICES ASSUME ca'[key].uid # ca[key].uid PROVE FALSE
      OBVIOUS
    <3>3. ca'[key].uid \in {0, nextUid} /\ copy' = copy
      BY <1>1, <2>1, <3>2, CAUids
    <3>4. copy.uid < nextUid /\ copy.uid \in Nat /\ nextUid \in Nat
      BY <1>1 DEF UidInv, TypeOK, CAType
    <3>5. QED
      BY <3>1, <3>3, <3>4
  <2>3. QED
    BY <1>1, <1>2, <2>1, <2>2, Copies DEF LivingCopy, RBACSoFar, GetCA, Working
<1>3. RBACSoFar'
  <2>1. ~Working' => step' = 1
    BY <1>1, WorkMoves
  <2>2. SUFFICES ASSUME LivingCopy'
        PROVE  /\ caCache'[key].uid = ca[key].uid
               /\ pc' = "rbac" =>
                    \A i \in 1 .. 3 : i < step' => rbac'[key][RBACPlan[i]] = ca[key].uid
               /\ pc' # "rbac" => \A o \in RBAC : rbac'[key][o] = ca[key].uid
    BY <1>2, <2>1 DEF RBACSoFar
  <2>3. key \in CAs /\ up' /\ Working'
    BY <1>1, <1>2, <2>2 DEF UidInv, LivingCopy, Working
  <2>4. CASE GetCA /\ copy' = caCache[key] /\ pc' = "rbac" /\ step' = 1
    <3>1. caCache' = caCache
      BY <2>4 DEF GetCA, cacheVars
    <3>2. QED
      BY <1>2, <2>2, <2>4, <3>1
  <2>5. CASE LivingCopy
    <3>1. Working /\ copy.uid = ca[key].uid /\ caCache[key].uid = ca[key].uid
      BY <1>1, <2>5 DEF LivingCopy, RBACSoFar
    <3>2. caCache'[key].uid = ca[key].uid
      BY <1>1, <2>3, <3>1, CacheMoves
    <3>3. ASSUME NEW o \in RBAC, rbac[key][o] = ca[key].uid PROVE rbac'[key][o] = ca[key].uid
      <4>1. ApplyRBAC /\ o = RBACPlan[step] => rbac'[key][o] = copy.uid
        BY <1>1, <2>3 DEF ApplyRBAC, TypeOK
      <4>2. QED
        BY <1>1, <2>3, <3>1, <3>3, <4>1, RBACWrites
    <3>4. ASSUME ApplyRBAC PROVE rbac'[key][RBACPlan[step]] = ca[key].uid
      BY <1>1, <2>3, <3>1, <3>4, RBACPlanIndex DEF ApplyRBAC, TypeOK
    <3>5. step \in 1 .. 3
      BY <1>1, RBACPlanIndex DEF TypeOK
    <3>6. \A i \in 1 .. 3 : RBACPlan[i] \in RBAC
      BY RBACPlanIndex
    <3>7. ASSUME pc' = "rbac", NEW i \in 1 .. 3, i < step'
          PROVE  rbac'[key][RBACPlan[i]] = ca[key].uid
      <4>1. pc = "rbac" /\ (step' = step \/ (ApplyRBAC /\ step' = step + 1))
        <5>1. ApplyRBAC => pc = "rbac"
          BY DEF ApplyRBAC
        <5>2. \/ pc' = "rbac" /\ pc = "rbac" /\ step' = step /\ ~ApplyRBAC
              \/ pc' = "rbac" /\ ApplyRBAC /\ step' = step + 1
              \/ pc' = "query" /\ ApplyRBAC /\ step = 3
              \/ pc' # "rbac" /\ pc # "rbac"
          BY <1>1, <2>3, <3>1, WorkMoves
        <5>3. QED
          BY <3>7, <5>1, <5>2
      <4>2. CASE i < step
        BY <1>1, <2>5, <3>1, <3>3, <3>6, <4>1, <4>2 DEF RBACSoFar
      <4>3. CASE i = step
        BY <3>4, <3>7, <4>1, <4>3
      <4>4. QED
        BY <3>5, <3>7, <4>1, <4>2, <4>3
    <3>8. ASSUME pc' # "rbac", NEW o \in RBAC PROVE rbac'[key][o] = ca[key].uid
      <4>1. CASE pc # "rbac"
        BY <1>1, <2>5, <3>1, <3>3, <4>1 DEF RBACSoFar
      <4>2. CASE ApplyRBAC /\ step = 3
        <5>1. PICK i \in 1 .. 3 : o = RBACPlan[i]
          BY RBACPlanIndex
        <5>2. pc = "rbac"
          BY <4>2 DEF ApplyRBAC
        <5>3. CASE i < 3
          BY <1>1, <2>5, <3>1, <3>3, <4>2, <5>1, <5>2, <5>3 DEF RBACSoFar
        <5>4. CASE i = 3
          BY <3>4, <4>2, <5>1, <5>4
        <5>5. QED
          BY <5>1, <5>3, <5>4
      <4>3. QED
        BY <1>1, <2>3, <3>1, <3>8, <4>1, <4>2, WorkMoves
    <3>9. QED
      BY <3>2, <3>7, <3>8
  <2>6. QED
    BY <1>2, <2>2, <2>4, <2>5
<1>4. ASSUME NEW k \in CAs, LivingJob(k)'
      PROVE  /\ ca'[k].uid = ca[k].uid
             /\ LivingJob(k) \/ (LivingCopy /\ pc = "job" /\ k = key)
  <2>1. job'[k] # NoJob /\ job'[k].owner = ca'[k].uid
    BY <1>4 DEF LivingJob
  <2>2. ca'[k].uid = ca[k].uid
    <3>1. SUFFICES ASSUME ca'[k].uid # ca[k].uid PROVE FALSE
      OBVIOUS
    <3>2. ca'[k].uid \in {0, nextUid} /\ job' = job
      BY <1>1, <3>1, CAUids
    <3>3. job[k].owner > 0 /\ job[k].owner < nextUid /\ job[k].owner \in Nat /\ nextUid \in Nat
      BY <1>1, <2>1, <3>2 DEF UidInv, TypeOK, JobType
    <3>4. QED
      BY <2>1, <3>2, <3>3
  <2>3. QED
    BY <1>1, <2>1, <2>2, JobOwners DEF LivingJob, LivingCopy
<1>5. NoOldCopy'
  <2> SUFFICES ASSUME NEW k \in CAs, LivingJob(k)'
               PROVE  /\ up' => caCache'[k].uid = ca[k].uid
                      /\ Working' /\ key' = k => copy'.uid = ca[k].uid
    BY <1>4 DEF NoOldCopy
  <2>1. up => caCache[k].uid = ca[k].uid
    BY <1>1, <1>4 DEF NoOldCopy, RBACSoFar
  <2>2. Working /\ key = k => copy.uid = ca[k].uid
    BY <1>1, <1>4 DEF NoOldCopy, LivingCopy
  <2>3. up' => caCache'[k].uid = ca[k].uid
    BY <1>1, <2>1, CacheMoves
  <2>4. ASSUME Working', key' = k PROVE copy'.uid = ca[k].uid
    <3>1. CASE Working /\ copy' = copy /\ key' = key
      BY <2>2, <2>4, <3>1
    <3>2. CASE GetCA /\ copy' = caCache[key] /\ key' = key
      <4>1. up
        BY <1>1, <3>2 DEF UidInv, GetCA
      <4>2. QED
        BY <2>1, <2>4, <3>2, <4>1
    <3>3. QED
      BY <1>1, <2>4, <3>1, <3>2, Copies
  <2>5. QED
    BY <2>3, <2>4
<1>6. JobHasRBAC'
  <2> SUFFICES ASSUME NEW k \in CAs, LivingJob(k)', NEW o \in RBAC
               PROVE  rbac'[k][o] = ca[k].uid
    BY <1>4 DEF JobHasRBAC, LivingJob
  <2>1. rbac[k][o] = ca[k].uid
    BY <1>1, <1>4 DEF JobHasRBAC, LivingJob, LivingCopy, RBACSoFar
  <2>2. CASE ApplyRBAC /\ k = key /\ o = RBACPlan[step]
    <3>1. rbac'[k][o] = copy.uid
      BY <1>1, <2>2 DEF ApplyRBAC, TypeOK
    <3>2. Working /\ pc = "rbac"
      BY <2>2 DEF ApplyRBAC, Working
    <3>3. copy.uid = ca[k].uid
      BY <1>1, <1>4, <2>2, <3>2 DEF NoOldCopy
    <3>4. QED
      BY <3>1, <3>3
  <2>3. QED
    BY <1>1, <2>1, <2>2, RBACWrites
<1>7. QED
  BY <1>1, <1>3, <1>5, <1>6 DEF JobInv

(* A Job of a living ChiaCA has the ServiceAccount, the Role and the       *)
(* RoleBinding of that ChiaCA, whatever users, garbage collector, faults   *)
(* and crashes do.                                                         *)
THEOREM JobIsAuthorized == Safety => []JobHasRBAC
<1>1. Init => JobInv
  <2> SUFFICES ASSUME Init PROVE JobInv
    OBVIOUS
  <2>1. UidInv
    BY DEF Init, UidInv, Working, NoCA, NoJob
  <2>2. RBACSoFar /\ NoOldCopy /\ JobHasRBAC
    BY DEF Init, RBACSoFar, LivingCopy, Working, NoOldCopy, LivingJob, JobHasRBAC
  <2>3. QED
    BY <2>1, <2>2, InitTyped DEF JobInv
<1>2. JobInv => JobHasRBAC
  BY DEF JobInv
<1>3. QED
  BY <1>1, <1>2, JobStep, PTL DEF Safety

(* Only PodStores and users write certificates, and PodStores finds the    *)
(* Secret empty.                                                           *)
LEMMA MaterialKept ==
  ASSUME TypeOK, [Next]_vars
  PROVE  /\ \A s \in Secrets :
              material[s] # 0 => material'[s] = material[s] \/ meddles' # meddles
         /\ \A s \in Secrets : made[s] <= made'[s]
<1> USE DEF apiVars, cacheVars, workVars, bounds
<1> DEFINE Kept == /\ \A s \in Secrets :
                        material[s] # 0 => material'[s] = material[s] \/ meddles' # meddles
                   /\ \A s \in Secrets : made[s] <= made'[s]
<1>1. ASSUME NEW k \in CAs, PodStores(k) PROVE Kept
  <2>1. PICK s \in Secrets \cup {NoKey} :
          /\ s \in Secrets => material[s] = 0
          /\ made' = [made EXCEPT ![s] = @ + 1]
          /\ material' = [material EXCEPT ![s] = made[s] + 1]
    BY <1>1 DEF PodStores, CanStore, TypeOK, JobType
  <2>2. \A t \in Secrets : made[t] <= made'[t]
    BY <2>1, FilledTyped
  <2>3. \A t \in Secrets : material[t] # 0 => material'[t] = material[t]
    BY <2>1 DEF TypeOK
  <2>4. QED
    BY <2>2, <2>3
<1>2. \A s \in Secrets : made[s] \in Nat /\ made[s] <= made[s]
  BY DEF TypeOK
<1>3. ASSUME NEW s \in Secrets, DeleteSecret(s) PROVE Kept
  BY <1>2, <1>3 DEF DeleteSecret, TypeOK
<1>4. ASSUME NEW s \in Secrets, PutSecret(s) PROVE Kept
  <2>1. \A t \in Secrets : made[t] <= made'[t]
    BY <1>4, FilledTyped DEF PutSecret
  <2>2. meddles' # meddles
    BY <1>4 DEF PutSecret, TypeOK
  <2>3. QED
    BY <2>1, <2>2
<1>5. CASE UNCHANGED <<material, made>>
  BY <1>2, <1>5
<1>6. QED
  BY <1>1, <1>3, <1>4, <1>5
  DEF Next, User, Cluster, Informers, Operator, Reconcile, CreateCA, EditCA, DeleteCA,
      DeleteJob, GarbageCollectRBAC, GarbageCollectJob, PodRefused, PodFails,
      WatchCA, WatchJob, WatchSecret, Resync, Start, GetCA, ApplyRBAC, QuerySecret,
      ApplyJob, PollSecret, UpdateStatus, Fault, Crash, Restart, vars

(* Certificates that are in a Secret are never replaced or deleted but by  *)
(* users themselves, whatever Jobs, retries, faults and crashes there are. *)
THEOREM MaterialIsStable == Safety => CAMaterialStable
<1>1. TypeOK /\ [Next]_vars =>
        [\A s \in Secrets :
           material[s] # 0 => material'[s] = material[s] \/ meddles' # meddles]_vars
  BY MaterialKept
<1>2. QED
  BY <1>1, TypeCorrect, PTL DEF Safety, CAMaterialStable
=============================================================================
