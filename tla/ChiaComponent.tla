--------------------------- MODULE ChiaComponent ---------------------------
(***************************************************************************)
(* One component controller of the operator: ChiaNodeReconciler,           *)
(* ChiaFarmerReconciler, ChiaHarvesterReconciler or ChiaWalletReconciler.  *)
(* The four Reconcile methods have one shape: read the custom resource     *)
(* (CR) from the informer cache, reconcile the child objects in a fixed    *)
(* order, return at the first error, and at the end set Status.Ready.      *)
(* They differ in the list of children, the constant Plan.                 *)
(*                                                                         *)
(* Around the controller the module has the API server, the garbage        *)
(* collector, the informers with their lag, the work queue, the users,     *)
(* failing API calls, and crashes of the operator.                         *)
(***************************************************************************)
EXTENDS Naturals, Sequences

CONSTANTS
  CRs,          \* the names a CR of this kind may have
  NoKey,        \* the key of an idle worker
  Plan,         \* the children Reconcile handles, in its order
  Finalizers,   \* children a deletion first leaves terminating
  BadSpecs,     \* sets of children the API server can refuse for a spec
  Resyncs,      \* whether the informers resync
  MaxEdits,     \* bound on the users' writes of CRs
  MaxMeddles,   \* bound on the users' writes of children
  MaxFaults,    \* bound on the API calls that fail for no cause modelled
  MaxCrashes    \* bound on the crashes of the operator

Children == {Plan[i] : i \in DOMAIN Plan}

ASSUME KeyAssumption == NoKey \notin CRs
ASSUME PlanAssumption ==
  /\ Plan \in Seq(Children)
  /\ Len(Plan) > 0
  /\ \A i, j \in DOMAIN Plan : Plan[i] = Plan[j] => i = j
ASSUME SpecAssumption ==
  /\ Finalizers \subseteq Children
  /\ BadSpecs \subseteq SUBSET Children
  /\ Resyncs \in BOOLEAN
ASSUME BoundAssumption ==
  /\ MaxEdits \in Nat /\ MaxMeddles \in Nat
  /\ MaxFaults \in Nat /\ MaxCrashes \in Nat

VARIABLES
  cr,          \* API server: the CR of each name
  child,       \* API server: the children of each name
  nextUid,     \* API server: the next uid it hands out
  applied,     \* history: <<uid, child>> once written or found for that CR
  crCache,     \* informer of the CRs: a past value of cr
  childCache,  \* informers of the children: a past value of child
  current,     \* children whose cached copy has the latest resourceVersion
  queue,       \* keys in the work queue, those waiting for a retry included
  pc,          \* where the worker is in Reconcile
  key,         \* the request the worker handles
  copy,        \* its copy of the CR
  step,        \* index in Plan of the child it handles next
  up,          \* whether the operator runs
  edits, meddles, faults, crashes

apiVars   == <<cr, child, nextUid, applied>>
cacheVars == <<crCache, childCache, current>>
workVars  == <<pc, key, copy, step>>
bounds    == <<edits, meddles, faults, crashes>>
vars      == <<cr, child, nextUid, applied, crCache, childCache, current,
               queue, pc, key, copy, step, up, edits, meddles, faults, crashes>>

(***************************************************************************)
(* A CR is its uid, the generation of its spec, the children the API       *)
(* server refuses for that spec, and Status.Ready.  Every write changes    *)
(* one of these, so two equal values have one resourceVersion.  A child is *)
(* the uid in its owner reference, the generation of the spec it was       *)
(* assembled from (0 once a user changed it), and whether it is being      *)
(* deleted.  Uids start at 1.                                              *)
(***************************************************************************)
NoCR  == [uid |-> 0, gen |-> 0, bad |-> {}, ready |-> FALSE]
NoObj == [owner |-> 0, gen |-> 0, term |-> FALSE]

CRType  == [uid : Nat, gen : Nat, bad : SUBSET Children, ready : BOOLEAN]
ObjType == [owner : Nat, gen : Nat, term : BOOLEAN]

(* The child that the assemble functions build from a CR. *)
Assemble(c) == [owner |-> c.uid, gen |-> c.gen, term |-> FALSE]

NoChildren == [k \in CRs |-> [c \in Children |-> NoObj]]

TypeOK ==
  /\ cr \in [CRs -> CRType]
  /\ child \in [CRs -> [Children -> ObjType]]
  /\ nextUid \in Nat \ {0}
  /\ applied \in SUBSET (Nat \X Children)
  /\ crCache \in [CRs -> CRType]
  /\ childCache \in [CRs -> [Children -> ObjType]]
  /\ current \in [CRs -> SUBSET Children]
  /\ queue \in SUBSET CRs
  /\ pc \in {"idle", "get", "apply", "status"}
  /\ key \in CRs \cup {NoKey}
  /\ (key = NoKey) <=> (pc = "idle")
  /\ copy \in CRType
  /\ step \in 1 .. Len(Plan) + 1
  /\ pc = "apply" => step <= Len(Plan)
  /\ up \in BOOLEAN
  /\ edits \in Nat /\ meddles \in Nat /\ faults \in Nat /\ crashes \in Nat

Init ==
  /\ cr = [k \in CRs |-> NoCR]
  /\ child = NoChildren
  /\ nextUid = 1
  /\ applied = {}
  /\ crCache = cr
  /\ childCache = child
  /\ current = [k \in CRs |-> Children]
  /\ queue = {}
  /\ pc = "idle" /\ key = NoKey /\ copy = NoCR /\ step = 1
  /\ up = TRUE
  /\ edits = 0 /\ meddles = 0 /\ faults = 0 /\ crashes = 0

-----------------------------------------------------------------------------
(* Users: kubectl apply, edit and delete of a CR. *)

CreateCR(k) ==
  /\ edits < MaxEdits
  /\ cr[k] = NoCR
  /\ \E bad \in BadSpecs :
       cr' = [cr EXCEPT ![k] =
                [uid |-> nextUid, gen |-> 1, bad |-> bad, ready |-> FALSE]]
  /\ nextUid' = nextUid + 1
  /\ edits' = edits + 1
  /\ UNCHANGED <<child, applied, cacheVars, queue, workVars, up,
                 meddles, faults, crashes>>

EditCR(k) ==
  /\ edits < MaxEdits
  /\ cr[k] # NoCR
  /\ \E bad \in BadSpecs :
       cr' = [cr EXCEPT ![k] = [uid |-> @.uid, gen |-> @.gen + 1,
                                bad |-> bad, ready |-> @.ready]]
  /\ edits' = edits + 1
  /\ UNCHANGED <<child, nextUid, applied, cacheVars, queue, workVars, up,
                 meddles, faults, crashes>>

DeleteCR(k) ==
  /\ edits < MaxEdits
  /\ cr[k] # NoCR
  /\ cr' = [cr EXCEPT ![k] = NoCR]
  /\ edits' = edits + 1
  /\ UNCHANGED <<child, nextUid, applied, cacheVars, queue, workVars, up,
                 meddles, faults, crashes>>

-----------------------------------------------------------------------------
(* The API server's writes of a child.  Each makes the cached copy stale. *)

Put(k, c, obj) ==
  /\ child' = [child EXCEPT ![k][c] = obj]
  /\ current' = [current EXCEPT ![k] = @ \ {c}]

Remove(k, c) ==
  Put(k, c, IF c \in Finalizers THEN [child[k][c] EXCEPT !.term = TRUE]
                                ELSE NoObj)

Live(obj) == obj # NoObj /\ ~obj.term

(* A user deletes a child, or changes it. *)
MeddleWithChild(k, c) ==
  /\ meddles < MaxMeddles
  /\ Live(child[k][c])
  /\ \/ Remove(k, c)
     \/ Put(k, c, [child[k][c] EXCEPT !.gen = 0])
  /\ meddles' = meddles + 1
  /\ UNCHANGED <<cr, nextUid, applied, crCache, childCache, queue, workVars,
                 up, edits, faults, crashes>>

(* The garbage collector deletes a child whose owner is gone: no CR of     *)
(* this name, or one with another uid.                                     *)
GarbageCollect(k, c) ==
  /\ Live(child[k][c])
  /\ child[k][c].owner # cr[k].uid
  /\ Remove(k, c)
  /\ UNCHANGED <<cr, nextUid, applied, crCache, childCache, queue, workVars,
                 up, bounds>>

(* The finalizer of a terminating child is done. *)
Finalize(k, c) ==
  /\ child[k][c].term
  /\ Put(k, c, NoObj)
  /\ UNCHANGED <<cr, nextUid, applied, crCache, childCache, queue, workVars,
                 up, bounds>>

-----------------------------------------------------------------------------
(* Informers.  Only an event of a CR adds a key: SetupWithManager watches  *)
(* the CRs and not the objects they own.                                   *)

WatchCR(k) ==
  /\ up
  /\ crCache[k] # cr[k]
  /\ crCache' = [crCache EXCEPT ![k] = cr[k]]
  /\ queue' = queue \cup {k}
  /\ UNCHANGED <<apiVars, childCache, current, workVars, up, bounds>>

WatchChild(k, c) ==
  /\ up
  /\ c \notin current[k]
  /\ childCache' = [childCache EXCEPT ![k][c] = child[k][c]]
  /\ current' = [current EXCEPT ![k] = @ \cup {c}]
  /\ UNCHANGED <<apiVars, crCache, queue, workVars, up, bounds>>

(* The periodic resync hands every cached CR to the event handler again. *)
Resync ==
  /\ Resyncs /\ up
  /\ queue' = queue \cup {k \in CRs : crCache[k] # NoCR}
  /\ UNCHANGED <<apiVars, cacheVars, workVars, up, bounds>>

-----------------------------------------------------------------------------
(* Reconcile. *)

(* The worker takes a key off the queue. *)
Start(k) ==
  /\ up
  /\ pc = "idle"
  /\ k \in queue
  /\ queue' = queue \ {k}
  /\ pc' = "get" /\ key' = k
  /\ UNCHANGED <<apiVars, cacheVars, copy, step, up, bounds>>

Idle == pc' = "idle" /\ key' = NoKey /\ copy' = NoCR /\ step' = 1

(* Return with no error: the queue forgets the key. *)
Return ==
  /\ Idle
  /\ UNCHANGED queue

(* Two defects of ReturnError: the error is dropped, or the worker keeps   *)
(* the key and tries it again at once.                                     *)
ReturnErrorDropped ==
  /\ Idle
  /\ UNCHANGED queue

ReturnErrorInPlace ==
  /\ pc' = "get" /\ copy' = NoCR /\ step' = 1
  /\ UNCHANGED <<key, queue>>

(* Return with an error: the key is added again, after a delay. *)
ReturnError ==
  /\ Idle
  /\ queue' = queue \cup {key}

GetCR ==
  /\ pc = "get"
  /\ IF crCache[key] = NoCR
       THEN Return
       ELSE /\ copy' = crCache[key]
            /\ pc' = "apply" /\ step' = 1
            /\ UNCHANGED <<key, queue>>
  /\ UNCHANGED <<apiVars, cacheVars, up, bounds>>

(* A defect of Proceed: one child too many. *)
ProceedTooFar ==
  /\ step' = step + 1
  /\ pc' = IF step > Len(Plan) THEN "status" ELSE "apply"
  /\ UNCHANGED <<key, copy, queue>>

(* The next child, or the status when there is none left. *)
Proceed ==
  /\ step' = step + 1
  /\ pc' = IF step = Len(Plan) THEN "status" ELSE "apply"
  /\ UNCHANGED <<key, copy, queue>>

(* What ReconcileResource finds for child c: it reads the cache and        *)
(* compares with the desired object.                                       *)
Cached(c) == childCache[key][c]
Missing(c) == Cached(c) = NoObj

(* A defect of InSync: what exists is taken to be right. *)
InSyncIfPresent(c) == Cached(c).owner = copy.uid /\ ~Cached(c).term

InSync(c) == Cached(c) = Assemble(copy)
Differs(c) == ~Missing(c) /\ ~InSync(c) /\ ~Cached(c).term

(* The API server takes a Create of an object that does not exist, an      *)
(* Update that carries the latest resourceVersion, and neither for an      *)
(* invalid object.                                                         *)
Accepted(c) ==
  /\ c \notin copy.bad
  /\ \/ Missing(c) /\ child[key][c] = NoObj
     \/ Differs(c) /\ c \in current[key]

ApplyWrite(c) ==
  /\ Missing(c) \/ Differs(c)
  /\ Accepted(c)
  /\ Put(key, c, Assemble(copy))
  /\ applied' = applied \cup {<<copy.uid, c>>}
  /\ Proceed
  /\ UNCHANGED <<cr, nextUid, crCache, childCache, up, bounds>>

(* In sync: nothing to write. *)
ApplyInSync(c) ==
  /\ InSync(c)
  /\ applied' = applied \cup {<<copy.uid, c>>}
  /\ Proceed
  /\ UNCHANGED <<cr, child, nextUid, cacheVars, up, bounds>>

(* The child is being deleted: ReconcileResource writes nothing and        *)
(* returns a result that asks for a requeue, with no error.  Reconcile     *)
(* looks at the result only when there is an error, so it goes on.         *)
ApplyBackOff(c) ==
  /\ Cached(c).term
  /\ Proceed
  /\ UNCHANGED <<apiVars, cacheVars, up, bounds>>

(* A defect of ApplyError: the result of the call is not looked at. *)
ApplyErrorIgnored(c) ==
  /\ Missing(c) \/ Differs(c)
  /\ ~Accepted(c)
  /\ Proceed
  /\ UNCHANGED <<apiVars, cacheVars, up, bounds>>

(* AlreadyExists, Conflict, NotFound or Invalid. *)
ApplyError(c) ==
  /\ Missing(c) \/ Differs(c)
  /\ ~Accepted(c)
  /\ ReturnError
  /\ UNCHANGED <<apiVars, cacheVars, up, bounds>>

Apply ==
  /\ pc = "apply"
  /\ \/ ApplyWrite(Plan[step])
     \/ ApplyInSync(Plan[step])
     \/ ApplyBackOff(Plan[step])
     \/ ApplyError(Plan[step])

(* A defect of UpdateStatus: the resourceVersion of the copy is not sent. *)
UpdateStatusForced ==
  /\ pc = "status"
  /\ IF cr[key] # NoCR
       THEN cr' = [cr EXCEPT ![key].ready = TRUE] /\ Return
       ELSE UNCHANGED cr /\ ReturnError
  /\ UNCHANGED <<child, nextUid, applied, cacheVars, up, bounds>>

(* Status().Update of the copy: refused when the CR is gone or was written *)
(* since the copy was made.                                                *)
UpdateStatus ==
  /\ pc = "status"
  /\ IF cr[key] = copy
       THEN cr' = [cr EXCEPT ![key].ready = TRUE] /\ Return
       ELSE UNCHANGED cr /\ ReturnError
  /\ UNCHANGED <<child, nextUid, applied, cacheVars, up, bounds>>

(* Any call of Reconcile fails, or only its reply is lost: the status may  *)
(* be written all the same.  A lost reply to the write of a child is that  *)
(* write and a fault of the next call.                                     *)
Fault ==
  /\ faults < MaxFaults
  /\ pc # "idle"
  /\ faults' = faults + 1
  /\ \/ UNCHANGED cr
     \/ /\ pc = "status" /\ cr[key] = copy
        /\ cr' = [cr EXCEPT ![key].ready = TRUE]
  /\ ReturnError
  /\ UNCHANGED <<child, nextUid, applied, cacheVars, up,
                 edits, meddles, crashes>>

Reconcile == GetCR \/ Apply \/ UpdateStatus

-----------------------------------------------------------------------------
(* The operator crashes and loses what it holds in memory. *)
Crash ==
  /\ crashes < MaxCrashes
  /\ up
  /\ up' = FALSE
  /\ crCache' = [k \in CRs |-> NoCR]
  /\ childCache' = NoChildren
  /\ current' = [k \in CRs |-> {}]
  /\ queue' = {}
  /\ Idle
  /\ crashes' = crashes + 1
  /\ UNCHANGED <<apiVars, edits, meddles, faults>>

(* It starts again: the informers list the API server, and each CR in the  *)
(* list is an event.                                                       *)
Restart ==
  /\ ~up
  /\ up' = TRUE
  /\ crCache' = cr
  /\ childCache' = child
  /\ current' = [k \in CRs |-> Children]
  /\ queue' = {k \in CRs : cr[k] # NoCR}
  /\ UNCHANGED <<apiVars, workVars, bounds>>

User ==
  \/ \E k \in CRs : CreateCR(k) \/ EditCR(k) \/ DeleteCR(k)
  \/ \E k \in CRs, c \in Children : MeddleWithChild(k, c)

Cluster ==
  \E k \in CRs, c \in Children : GarbageCollect(k, c) \/ Finalize(k, c)

Informers ==
  \/ \E k \in CRs : WatchCR(k)
  \/ \E k \in CRs, c \in Children : WatchChild(k, c)
  \/ Resync

Operator ==
  \/ \E k \in CRs : Start(k)
  \/ Reconcile
  \/ Fault
  \/ Crash
  \/ Restart

Next == User \/ Cluster \/ Informers \/ Operator

(***************************************************************************)
(* The cluster and the informers keep working, the worker finishes what it *)
(* started, a crashed operator is restarted by its Deployment.  The queue  *)
(* is first in, first out: no key waits for ever, hence strong fairness    *)
(* per key.  Users, faults and crashes are not fair.                       *)
(***************************************************************************)
Fairness ==
  /\ \A k \in CRs : SF_vars(Start(k)) /\ WF_vars(WatchCR(k))
  /\ \A k \in CRs, c \in Children :
       /\ WF_vars(WatchChild(k, c))
       /\ WF_vars(GarbageCollect(k, c))
       /\ WF_vars(Finalize(k, c))
  /\ WF_vars(Reconcile)
  /\ WF_vars(Restart)
  /\ WF_vars(Resync)

Safety == Init /\ [][Next]_vars

Spec == Safety /\ Fairness
-----------------------------------------------------------------------------
(***************************************************************************)
(* Properties.                                                             *)
(***************************************************************************)

(* Status.Ready of a CR is true only once Reconcile wrote, or found in     *)
(* place, every child of this very incarnation of the CR: no early return, *)
(* retry, crash or reuse of the name lets it skip one.  It is what the     *)
(* comment of Ready in api/v1 promises.  It needs Finalizers = {}: see     *)
(* ApplyBackOff.                                                           *)
ReadyAfterApplied ==
  \A k \in CRs : cr[k].ready => \A c \in Children : <<cr[k].uid, c>> \in applied

(* The children are those the spec asks for, and Ready says so. *)
Settled(k) ==
  cr[k] = NoCR \/ (cr[k].ready /\ \A c \in Children : child[k][c] = Assemble(cr[k]))

(* Something in the operator still has to happen for k. *)
Pending(k) ==
  ~up \/ key = k \/ k \in queue \/ crCache[k] # cr[k]

(* The operator has no level-triggered memory but its queue: a CR whose    *)
(* children are not in place is one it is bound to look at again, with no  *)
(* resync.  An error that is swallowed, an event lost between GetCR and    *)
(* the return, or a stale cache taken for the truth would break this.  It  *)
(* needs Finalizers = {} and MaxMeddles = 0.                               *)
NoLostWork == \A k \in CRs : Pending(k) \/ Settled(k)

(* When the users stop, every CR whose spec the API server takes ends up   *)
(* Ready with the children of its last spec, and the children of a CR that *)
(* is gone are gone.                                                       *)
Converged(k) ==
  IF cr[k] = NoCR THEN \A c \in Children : child[k][c] = NoObj
                  ELSE cr[k].bad = {} => Settled(k)

Convergence == \A k \in CRs : <>[]Converged(k)

(* The controller implements ChiaDesired: seen from the API server, a      *)
(* child never goes back to an older spec or to an older CR of the name,   *)
(* though the worker acts on copies from lagging caches, adopts what older *)
(* CRs left, retries, and starts again after crashes; and Ready is a       *)
(* declaration about the very incarnation the users see.  It needs         *)
(* Finalizers = {}.                                                        *)
Desired == INSTANCE ChiaDesired WITH
  Gens <- 0 .. MaxEdits,
  want <- [k \in CRs |-> [uid |-> cr[k].uid, gen |-> cr[k].gen, ready |-> cr[k].ready]],
  have <- [k \in CRs |-> [c \in Children |->
             [uid |-> child[k][c].owner, gen |-> child[k][c].gen]]],
  made <- applied

ImplementsDesired == Desired!Spec
=============================================================================
