------------------------------- MODULE ChiaCA -------------------------------
(***************************************************************************)
(* ChiaCAReconciler.  For a ChiaCA it keeps a ServiceAccount, a Role and a *)
(* RoleBinding; if the CA Secret does not exist it also creates a Job that *)
(* generates the certificates and stores them in the Secret.  The worker   *)
(* then polls for the Secret, at most MaxPolls times, and sets             *)
(* Status.Ready when it sees it.                                           *)
(*                                                                         *)
(* External, as the code uses them: the API server, the informers, the     *)
(* work queue, the garbage collector, the Job controller and its pods.     *)
(***************************************************************************)
EXTENDS Naturals, Sequences

CONSTANTS
  CAs,             \* the names a ChiaCA may have
  NoKey,           \* the key of an idle worker
  Secrets,         \* the names spec.secret may have
  MaxPolls,        \* iterations of the loop that waits for the Secret
  BackoffLimit,    \* failed pods after which a Job fails, less one
  Resyncs,         \* whether the informers resync
  MaxEdits,        \* bound on the users' writes of ChiaCAs
  MaxMeddles,      \* bound on what users do to Jobs and Secrets by hand
  MaxFaults,       \* bound on the API calls that fail for no cause modelled
  MaxPodFailures,  \* bound on the pods that fail for no cause modelled
  MaxCrashes       \* bound on the crashes of the operator

ASSUME KeyAssumption == NoKey \notin CAs
ASSUME PollAssumption == MaxPolls \in Nat \ {0} /\ BackoffLimit \in Nat
ASSUME BoundAssumption ==
  /\ Resyncs \in BOOLEAN
  /\ MaxEdits \in Nat /\ MaxMeddles \in Nat /\ MaxFaults \in Nat
  /\ MaxPodFailures \in Nat /\ MaxCrashes \in Nat

(* The objects that let the generator write a Secret, in the order of      *)
(* Reconcile.                                                              *)
RBACPlan == <<"serviceaccount", "role", "rolebinding">>
RBAC == {RBACPlan[i] : i \in DOMAIN RBACPlan}

VARIABLES
  ca,          \* API server: the ChiaCA of each name
  rbac,        \* API server: the uid of the owner of each RBAC object, or 0
  job,         \* API server: the Job of each name
  material,    \* API server: the certificates in each Secret, 0 for none
  made,        \* how often certificates were put in each Secret
  nextUid,     \* API server: the next uid it hands out
  caCache,     \* informer of the ChiaCAs
  jobSeen,     \* informer of the Jobs
  secretSeen,  \* informer of the Secrets: the names it holds
  queue, pc, key, copy, step, polls, up,
  edits, meddles, faults, podFailures, crashes

apiVars   == <<ca, rbac, job, material, made, nextUid>>
cacheVars == <<caCache, jobSeen, secretSeen>>
workVars  == <<pc, key, copy, step, polls>>
bounds    == <<edits, meddles, faults, podFailures, crashes>>
vars == <<ca, rbac, job, material, made, nextUid, caCache, jobSeen, secretSeen,
          queue, pc, key, copy, step, polls, up,
          edits, meddles, faults, podFailures, crashes>>

NoCA  == [uid |-> 0, gen |-> 0, secret |-> NoKey, ready |-> FALSE]
NoJob == [owner |-> 0, secret |-> NoKey, state |-> "none", tries |-> 0]

CAType  == [uid : Nat, gen : Nat, secret : Secrets \cup {NoKey}, ready : BOOLEAN]
JobType == [owner : Nat, secret : Secrets \cup {NoKey},
            state : {"none", "active", "complete", "failed"}, tries : Nat]

TypeOK ==
  /\ ca \in [CAs -> CAType]
  /\ rbac \in [CAs -> [RBAC -> Nat]]
  /\ job \in [CAs -> JobType]
  /\ material \in [Secrets -> Nat]
  /\ made \in [Secrets -> Nat]
  /\ \A s \in Secrets : material[s] <= made[s]
  /\ nextUid \in Nat \ {0}
  /\ caCache \in [CAs -> CAType]
  /\ jobSeen \in [CAs -> JobType]
  /\ secretSeen \in SUBSET Secrets
  /\ queue \in SUBSET CAs
  /\ pc \in {"idle", "get", "rbac", "query", "job", "poll", "status"}
  /\ key \in CAs \cup {NoKey}
  /\ (key = NoKey) <=> (pc = "idle")
  /\ copy \in CAType
  /\ step \in 1 .. Len(RBACPlan)
  /\ polls \in 0 .. MaxPolls - 1
  /\ up \in BOOLEAN
  /\ edits \in Nat /\ meddles \in Nat /\ faults \in Nat
  /\ podFailures \in Nat /\ crashes \in Nat

Init ==
  /\ ca = [k \in CAs |-> NoCA]
  /\ rbac = [k \in CAs |-> [o \in RBAC |-> 0]]
  /\ job = [k \in CAs |-> NoJob]
  /\ material = [s \in Secrets |-> 0]
  /\ made = [s \in Secrets |-> 0]
  /\ nextUid = 1
  /\ caCache = ca /\ jobSeen = job /\ secretSeen = {}
  /\ queue = {} /\ pc = "idle" /\ key = NoKey /\ copy = NoCA
  /\ step = 1 /\ polls = 0 /\ up = TRUE
  /\ edits = 0 /\ meddles = 0 /\ faults = 0 /\ podFailures = 0 /\ crashes = 0

-----------------------------------------------------------------------------
(* Users. *)

CreateCA(k) ==
  /\ edits < MaxEdits
  /\ ca[k] = NoCA
  /\ \E s \in Secrets :
       ca' = [ca EXCEPT ![k] = [uid |-> nextUid, gen |-> 1, secret |-> s, ready |-> FALSE]]
  /\ nextUid' = nextUid + 1
  /\ edits' = edits + 1
  /\ UNCHANGED <<rbac, job, material, made, cacheVars, queue, workVars, up,
                 meddles, faults, podFailures, crashes>>

EditCA(k) ==
  /\ edits < MaxEdits
  /\ ca[k] # NoCA
  /\ \E s \in Secrets :
       ca' = [ca EXCEPT ![k] = [uid |-> @.uid, gen |-> @.gen + 1,
                                secret |-> s, ready |-> @.ready]]
  /\ edits' = edits + 1
  /\ UNCHANGED <<rbac, job, material, made, nextUid, cacheVars, queue, workVars,
                 up, meddles, faults, podFailures, crashes>>

DeleteCA(k) ==
  /\ edits < MaxEdits
  /\ ca[k] # NoCA
  /\ ca' = [ca EXCEPT ![k] = NoCA]
  /\ edits' = edits + 1
  /\ UNCHANGED <<rbac, job, material, made, nextUid, cacheVars, queue, workVars,
                 up, meddles, faults, podFailures, crashes>>

DeleteJob(k) ==
  /\ meddles < MaxMeddles
  /\ job[k] # NoJob
  /\ job' = [job EXCEPT ![k] = NoJob]
  /\ meddles' = meddles + 1
  /\ UNCHANGED <<ca, rbac, material, made, nextUid, cacheVars, queue, workVars,
                 up, edits, faults, podFailures, crashes>>

DeleteSecret(s) ==
  /\ meddles < MaxMeddles
  /\ material[s] # 0
  /\ material' = [material EXCEPT ![s] = 0]
  /\ meddles' = meddles + 1
  /\ UNCHANGED <<ca, rbac, job, made, nextUid, cacheVars, queue, workVars,
                 up, edits, faults, podFailures, crashes>>

(* A user makes the Secret of certificates of his own, or replaces those   *)
(* that are in it.                                                         *)
PutSecret(s) ==
  /\ meddles < MaxMeddles
  /\ made' = [made EXCEPT ![s] = @ + 1]
  /\ material' = [material EXCEPT ![s] = made[s] + 1]
  /\ meddles' = meddles + 1
  /\ UNCHANGED <<ca, rbac, job, nextUid, cacheVars, queue, workVars,
                 up, edits, faults, podFailures, crashes>>

-----------------------------------------------------------------------------
(* The cluster.  The Secret has no owner: it outlives its ChiaCA. *)

GarbageCollectRBAC(k, o) ==
  /\ rbac[k][o] \notin {0, ca[k].uid}
  /\ rbac' = [rbac EXCEPT ![k][o] = 0]
  /\ UNCHANGED <<ca, job, material, made, nextUid, cacheVars, queue, workVars,
                 up, bounds>>

GarbageCollectJob(k) ==
  /\ job[k].owner \notin {0, ca[k].uid}
  /\ job' = [job EXCEPT ![k] = NoJob]
  /\ UNCHANGED <<ca, rbac, material, made, nextUid, cacheVars, queue, workVars,
                 up, bounds>>

(* The generator may create a Secret: start.sh runs as the ServiceAccount. *)
Authorized(k) == \A o \in RBAC : rbac[k][o] # 0

(* A pod failed: the Job controller starts another, or gives the Job up. *)
FailedPod(j) ==
  [owner |-> j.owner, secret |-> j.secret, tries |-> j.tries + 1,
   state |-> IF j.tries = BackoffLimit THEN "failed" ELSE "active"]

(* A defect of start.sh: kubectl apply, which overwrites a Secret. *)
CanStoreOver(k) == job[k].state = "active" /\ Authorized(k)

(* kubectl create: it makes the Secret or fails. *)
CanStore(k) ==
  /\ job[k].state = "active"
  /\ Authorized(k)
  /\ material[job[k].secret] = 0

(* A pod makes new certificates and stores them, and the Job is complete;  *)
(* or the pod is lost after that, and counts as failed.                    *)
PodStores(k) ==
  LET s == job[k].secret IN
  /\ CanStore(k)
  /\ made' = [made EXCEPT ![s] = @ + 1]
  /\ material' = [material EXCEPT ![s] = made[s] + 1]
  /\ \/ /\ job' = [job EXCEPT ![k].state = "complete"]
        /\ UNCHANGED podFailures
     \/ /\ podFailures < MaxPodFailures
        /\ podFailures' = podFailures + 1
        /\ job' = [job EXCEPT ![k] = FailedPod(@)]
  /\ UNCHANGED <<ca, rbac, nextUid, cacheVars, queue, workVars, up,
                 edits, meddles, faults, crashes>>

(* A pod cannot store the certificates: the Secret exists, or the pod is   *)
(* not authorized.  Without the ServiceAccount there is no pod at all.     *)
PodRefused(k) ==
  /\ job[k].state = "active"
  /\ ~CanStore(k)
  /\ rbac[k]["serviceaccount"] # 0
  /\ job' = [job EXCEPT ![k] = FailedPod(@)]
  /\ UNCHANGED <<ca, rbac, material, made, nextUid, cacheVars, queue, workVars,
                 up, bounds>>

(* A pod fails before it stores anything. *)
PodFails(k) ==
  /\ podFailures < MaxPodFailures
  /\ job[k].state = "active"
  /\ rbac[k]["serviceaccount"] # 0
  /\ job' = [job EXCEPT ![k] = FailedPod(@)]
  /\ podFailures' = podFailures + 1
  /\ UNCHANGED <<ca, rbac, material, made, nextUid, cacheVars, queue, workVars,
                 up, edits, meddles, faults, crashes>>
-----------------------------------------------------------------------------
(* Informers.  Only an event of a ChiaCA adds a key to the queue.          *)

WatchCA(k) ==
  /\ up
  /\ caCache[k] # ca[k]
  /\ caCache' = [caCache EXCEPT ![k] = ca[k]]
  /\ queue' = queue \cup {k}
  /\ UNCHANGED <<apiVars, jobSeen, secretSeen, workVars, up, bounds>>

WatchJob(k) ==
  /\ up
  /\ jobSeen[k] # job[k]
  /\ jobSeen' = [jobSeen EXCEPT ![k] = job[k]]
  /\ UNCHANGED <<apiVars, caCache, secretSeen, queue, workVars, up, bounds>>

InCluster(s) == material[s] # 0

WatchSecret(s) ==
  /\ up
  /\ InCluster(s) # (s \in secretSeen)
  /\ secretSeen' = IF InCluster(s) THEN secretSeen \cup {s} ELSE secretSeen \ {s}
  /\ UNCHANGED <<apiVars, caCache, jobSeen, queue, workVars, up, bounds>>

Resync ==
  /\ Resyncs /\ up
  /\ queue' = queue \cup {k \in CAs : caCache[k] # NoCA}
  /\ UNCHANGED <<apiVars, cacheVars, workVars, up, bounds>>

-----------------------------------------------------------------------------
(* Reconcile. *)

Start(k) ==
  /\ up
  /\ pc = "idle"
  /\ k \in queue
  /\ queue' = queue \ {k}
  /\ pc' = "get" /\ key' = k
  /\ UNCHANGED <<apiVars, cacheVars, copy, step, polls, up, bounds>>

Idle == pc' = "idle" /\ key' = NoKey /\ copy' = NoCA /\ step' = 1 /\ polls' = 0

Return ==
  /\ Idle
  /\ UNCHANGED queue

ReturnError ==
  /\ Idle
  /\ queue' = queue \cup {key}

Goto(label) ==
  /\ pc' = label
  /\ UNCHANGED <<key, copy, step, polls, queue>>

GetCA ==
  /\ pc = "get"
  /\ IF caCache[key] = NoCA
       THEN Return
       ELSE /\ copy' = caCache[key] /\ pc' = "rbac"
            /\ UNCHANGED <<key, step, polls, queue>>
  /\ UNCHANGED <<apiVars, cacheVars, up, bounds>>

(* A defect of Reconcile: only the ServiceAccount before the Job. *)
ApplyServiceAccountOnly ==
  /\ pc = "rbac"
  /\ rbac' = [rbac EXCEPT ![key][RBACPlan[step]] = copy.uid]
  /\ Goto("query")
  /\ UNCHANGED <<ca, job, material, made, nextUid, cacheVars, up, bounds>>

(* Create or adopt the next RBAC object.  It depends on the ChiaCA only by *)
(* its name and uid.  It is read from the API server here: a stale copy    *)
(* can only make the write be refused, as a fault does.                    *)
ApplyRBAC ==
  /\ pc = "rbac"
  /\ rbac' = [rbac EXCEPT ![key][RBACPlan[step]] = copy.uid]
  /\ IF step = Len(RBACPlan)
       THEN Goto("query")
       ELSE step' = step + 1 /\ UNCHANGED <<pc, key, copy, polls, queue>>
  /\ UNCHANGED <<ca, job, material, made, nextUid, cacheVars, up, bounds>>

(* getCASecret.  If the Secret is there, there is nothing left to do. *)
QuerySecret ==
  /\ pc = "query"
  /\ IF copy.secret \in secretSeen THEN Return ELSE Goto("job")
  /\ UNCHANGED <<apiVars, cacheVars, up, bounds>>

NewJob == [owner |-> copy.uid, secret |-> copy.secret, state |-> "active", tries |-> 0]

JobMissing == jobSeen[key] = NoJob
JobInSync ==
  ~JobMissing /\ jobSeen[key].owner = copy.uid /\ jobSeen[key].secret = copy.secret
JobDiffers == ~JobMissing /\ ~JobInSync

CreateJob ==
  /\ JobMissing
  /\ job[key] = NoJob
  /\ job' = [job EXCEPT ![key] = NewJob]
  /\ Goto("poll")

LeaveJob ==
  /\ JobInSync
  /\ UNCHANGED job
  /\ Goto("poll")

(* No Update of a Job succeeds, not even of its owner alone: selector and  *)
(* pod template are immutable, and the desired Job has neither the         *)
(* selector nor the labels that the API server has generated.              *)
JobRefused ==
  /\ \/ JobMissing /\ job[key] # NoJob
     \/ JobDiffers
  /\ UNCHANGED job
  /\ ReturnError

ApplyJob ==
  /\ pc = "job"
  /\ CreateJob \/ LeaveJob \/ JobRefused
  /\ UNCHANGED <<ca, rbac, material, made, nextUid, cacheVars, up, bounds>>

(* Two defects of the loop: it has no end, or an iteration too many. *)
PollForever ==
  /\ pc = "poll"
  /\ Goto(IF copy.secret \in secretSeen THEN "status" ELSE "poll")
  /\ UNCHANGED <<apiVars, cacheVars, up, bounds>>

PollOnceMore ==
  /\ pc = "poll"
  /\ IF copy.secret \in secretSeen
       THEN Goto("status")
       ELSE IF polls < MaxPolls
              THEN polls' = polls + 1 /\ UNCHANGED <<pc, key, copy, step, queue>>
              ELSE Return
  /\ UNCHANGED <<apiVars, cacheVars, up, bounds>>

(* One iteration of the loop that waits for the Secret.  Time passes       *)
(* between two of them.  After the last, Reconcile returns with no error.  *)
PollSecret ==
  /\ pc = "poll"
  /\ IF copy.secret \in secretSeen
       THEN Goto("status")
       ELSE IF polls + 1 < MaxPolls
              THEN polls' = polls + 1 /\ UNCHANGED <<pc, key, copy, step, queue>>
              ELSE Return
  /\ UNCHANGED <<apiVars, cacheVars, up, bounds>>

(* A defect of UpdateStatus: the resourceVersion of the copy is not sent. *)
StatusAlwaysAccepted == ca[key] # NoCA

(* Status().Update is refused if the ChiaCA was written, or is gone, since *)
(* the copy was made.                                                      *)
StatusAccepted == ca[key] = copy

UpdateStatus ==
  /\ pc = "status"
  /\ IF StatusAccepted
       THEN ca' = [ca EXCEPT ![key].ready = TRUE] /\ Return
       ELSE UNCHANGED ca /\ ReturnError
  /\ UNCHANGED <<rbac, job, material, made, nextUid, cacheVars, up, bounds>>

(* Any call fails, or only its reply is lost.  A lost reply to the write   *)
(* of an object other than the status is that write, then a fault of the   *)
(* next call.                                                              *)
Fault ==
  /\ faults < MaxFaults
  /\ pc # "idle"
  /\ faults' = faults + 1
  /\ \/ UNCHANGED ca
     \/ /\ pc = "status" /\ StatusAccepted
        /\ ca' = [ca EXCEPT ![key].ready = TRUE]
  /\ ReturnError
  /\ UNCHANGED <<rbac, job, material, made, nextUid, cacheVars, up,
                 edits, meddles, podFailures, crashes>>

Reconcile == GetCA \/ ApplyRBAC \/ QuerySecret \/ ApplyJob \/ PollSecret \/ UpdateStatus

-----------------------------------------------------------------------------
Crash ==
  /\ crashes < MaxCrashes
  /\ up
  /\ up' = FALSE
  /\ caCache' = [k \in CAs |-> NoCA]
  /\ jobSeen' = [k \in CAs |-> NoJob]
  /\ secretSeen' = {}
  /\ queue' = {}
  /\ Idle
  /\ crashes' = crashes + 1
  /\ UNCHANGED <<apiVars, edits, meddles, faults, podFailures>>

Restart ==
  /\ ~up
  /\ up' = TRUE
  /\ caCache' = ca
  /\ jobSeen' = job
  /\ secretSeen' = {s \in Secrets : InCluster(s)}
  /\ queue' = {k \in CAs : ca[k] # NoCA}
  /\ UNCHANGED <<apiVars, workVars, bounds>>

User ==
  \/ \E k \in CAs : CreateCA(k) \/ EditCA(k) \/ DeleteCA(k) \/ DeleteJob(k)
  \/ \E s \in Secrets : DeleteSecret(s) \/ PutSecret(s)

Cluster ==
  \/ \E k \in CAs, o \in RBAC : GarbageCollectRBAC(k, o)
  \/ \E k \in CAs : GarbageCollectJob(k)
  \/ \E k \in CAs : PodStores(k) \/ PodRefused(k) \/ PodFails(k)

Informers ==
  \/ \E k \in CAs : WatchCA(k) \/ WatchJob(k)
  \/ \E s \in Secrets : WatchSecret(s)
  \/ Resync

Operator ==
  \/ \E k \in CAs : Start(k)
  \/ Reconcile
  \/ Fault
  \/ Crash
  \/ Restart

Next == User \/ Cluster \/ Informers \/ Operator

(***************************************************************************)
(* As in ChiaComponent.  The Job controller keeps starting pods, and a pod *)
(* that can store the certificates does so or fails.                       *)
(***************************************************************************)
Fairness ==
  /\ \A k \in CAs :
       /\ SF_vars(Start(k)) /\ WF_vars(WatchCA(k)) /\ WF_vars(WatchJob(k))
       /\ WF_vars(GarbageCollectJob(k))
       /\ WF_vars(PodStores(k)) /\ WF_vars(PodRefused(k))
  /\ \A k \in CAs, o \in RBAC : WF_vars(GarbageCollectRBAC(k, o))
  /\ \A s \in Secrets : WF_vars(WatchSecret(s))
  /\ WF_vars(Reconcile)
  /\ WF_vars(Restart)
  /\ WF_vars(Resync)

Safety == Init /\ [][Next]_vars

Spec == Safety /\ Fairness

-----------------------------------------------------------------------------
(***************************************************************************)
(* Properties.                                                             *)
(***************************************************************************)

(* A Job that belongs to a ChiaCA was created after the ServiceAccount,    *)
(* the Role and the RoleBinding of that same incarnation: its pods are     *)
(* never refused for want of rights, and the garbage of an earlier ChiaCA  *)
(* of the name takes nothing away from them.                               *)
JobHasRBAC ==
  \A k \in CAs :
    job[k] # NoJob /\ job[k].owner = ca[k].uid => \A o \in RBAC : rbac[k][o] = ca[k].uid

(* The certificates in a Secret are never replaced or deleted but by users *)
(* themselves: farms keep the CA they were set up with.  Pods are retried, *)
(* Reconcile runs again after a crash, the ChiaCA is deleted and created   *)
(* again, a user has made the Secret, and yet start.sh never overwrites.   *)
CAMaterialStable ==
  [][\A s \in Secrets :
       material[s] # 0 => material'[s] = material[s] \/ meddles' # meddles]_vars

(* Ready is raised only for a ChiaCA whose Secret, as its spec names it at *)
(* that moment, has been there, made by a pod or by a user: the poll loop  *)
(* has worked on a copy that may be old by then.                           *)
ReadyRaisedOnSecret ==
  [][\A k \in CAs : ca'[k].ready /\ ~ca[k].ready => made[ca'[k].secret] > 0]_vars

(* README: spec.secret names the Secret that will be created. *)
SecretMade == \A k \in CAs : <>[](ca[k] = NoCA \/ material[ca[k].secret] # 0)

(* The comment of ChiaCAStatus.Ready in api/v1: Ready should be true when  *)
(* the Secret is there.                                                    *)
ReadyWhenSecret ==
  \A k \in CAs : <>[](ca[k] # NoCA /\ material[ca[k].secret] # 0 => ca[k].ready)

(* The same comment, read the other way: a ChiaCA that is Ready for good   *)
(* has its Secret.                                                         *)
ReadyMeansSecret ==
  \A k \in CAs : <>[](ca[k].ready => material[ca[k].secret] # 0)
=============================================================================
