---------------------------- MODULE ChiaManager ----------------------------
(***************************************************************************)
(* The operator as processes.  main starts one manager with a controller   *)
(* per kind of CR, each with one worker; a panic of any of them ends the   *)
(* process.  The Deployment of the operator starts a process again, and    *)
(* when it replaces the pod, two processes overlap.  With the flag         *)
(* -leader-elect only the holder of a lease runs its controllers; without  *)
(* it, both do.                                                            *)
(*                                                                         *)
(* A CR is here all along, with its children: Services, and the workload,  *)
(* whose assembly may panic and which the API server may refuse.           *)
(* Deletion, garbage and finalizers are the matter of ChiaComponent.       *)
(***************************************************************************)
EXTENDS Naturals, Sequences, FiniteSets

CONSTANTS
  CRs,              \* the names of the CRs
  NoKey,            \* the key of an idle worker
  Kinds,            \* the kinds of the CRs
  Kind,             \* the kind of each CR
  Fates,            \* what can become of a workload: see Fate
  Parts,            \* the children of a CR, in the order of Reconcile
  Procs,            \* the processes of the operator
  Elections,        \* whether it may run with -leader-elect, and without
  MaxEdits,         \* bound on the users' edits
  MaxReplacements,  \* bound on the replacements of the operator's pod
  MaxCrashes        \* bound on the crashes that no CR causes

(* A workload is taken by the API server, refused by it, or makes the      *)
(* function that assembles it panic.                                       *)
Fate == {"good", "refused", "panics"}

ASSUME KeyAssumption == NoKey \notin CRs
ASSUME KindAssumption == Kind \in [CRs -> Kinds] /\ "good" \in Fates /\ Fates \subseteq Fate
ASSUME ProcAssumption == Procs # {} /\ Elections \subseteq BOOLEAN
ASSUME BoundAssumption ==
  MaxEdits \in Nat /\ MaxReplacements \in Nat /\ MaxCrashes \in Nat

Part == {Parts[i] : i \in DOMAIN Parts}

ASSUME PartsAssumption == Parts \in Seq(Part) /\ "workload" \in Part

VARIABLES
  cr,          \* API server: the CR of each name
  have,        \* API server: the generation each child was assembled from
  elect,       \* whether the operator runs with -leader-elect
  pods,        \* the processes the Deployment wants
  run,         \* what each process does
  crCache,     \* per process, informer of the CRs
  childCache,  \* per process, informers of the children
  current,     \* per process, <<CR, child>> cached with the latest resourceVersion
  queue,       \* per process, the keys in the work queues of its controllers
  worker,      \* per process and kind, the worker of that controller
  edits, replacements, crashes

apiVars   == <<cr, have>>
procVars  == <<elect, pods, run>>
cacheVars == <<crCache, childCache, current>>
bounds    == <<edits, replacements, crashes>>
vars == <<cr, have, elect, pods, run, crCache, childCache, current, queue, worker,
          edits, replacements, crashes>>

NewCR(fate) == [gen |-> 1, fate |-> fate, ready |-> FALSE]
NoCR  == [gen |-> 0, fate |-> "good", ready |-> FALSE]

CRType == [gen : Nat, fate : Fates, ready : BOOLEAN]

(* A worker handles the child Parts[step], or the status after the last. *)
Idle == [key |-> NoKey, copy |-> NoCR, step |-> 0]
WorkerType == [key : CRs \cup {NoKey}, copy : CRType, step : 0 .. Len(Parts) + 1]

NoChildren == [k \in CRs |-> [x \in Part |-> 0]]
NoCRs == [k \in CRs |-> NoCR]
IdleWorkers == [kind \in Kinds |-> Idle]

TypeOK ==
  /\ cr \in [CRs -> CRType]
  /\ have \in [CRs -> [Part -> Nat]]
  /\ elect \in BOOLEAN
  /\ pods \in SUBSET Procs
  /\ run \in [Procs -> {"down", "standby", "active", "stopping"}]
  /\ crCache \in [Procs -> [CRs -> CRType]]
  /\ childCache \in [Procs -> [CRs -> [Part -> Nat]]]
  /\ current \in [Procs -> SUBSET (CRs \X Part)]
  /\ queue \in [Procs -> SUBSET CRs]
  /\ worker \in [Procs -> [Kinds -> WorkerType]]
  /\ \A p \in Procs, kind \in Kinds :
       (worker[p][kind].key = NoKey) <=> (worker[p][kind].step = 0)
  /\ edits \in Nat /\ replacements \in Nat /\ crashes \in Nat

Init ==
  /\ cr \in [CRs -> {NewCR(fate) : fate \in Fates}]
  /\ have = NoChildren
  /\ elect \in Elections
  /\ pods = {CHOOSE p \in Procs : TRUE}
  /\ run = [p \in Procs |-> "down"]
  /\ crCache = [p \in Procs |-> NoCRs]
  /\ childCache = [p \in Procs |-> NoChildren]
  /\ current = [p \in Procs |-> {}]
  /\ queue = [p \in Procs |-> {}]
  /\ worker = [p \in Procs |-> IdleWorkers]
  /\ edits = 0 /\ replacements = 0 /\ crashes = 0

-----------------------------------------------------------------------------
Edit(k) ==
  /\ edits < MaxEdits
  /\ \E fate \in Fates :
       cr' = [cr EXCEPT ![k] = [gen |-> @.gen + 1, fate |-> fate, ready |-> @.ready]]
  /\ edits' = edits + 1
  /\ UNCHANGED <<have, procVars, cacheVars, queue, worker, replacements, crashes>>

-----------------------------------------------------------------------------
(* The processes. *)

(* The Deployment has one replica, and makes a new pod before it ends the  *)
(* old one.                                                                *)
AddPod(p) ==
  /\ replacements < MaxReplacements
  /\ Cardinality(pods) = 1
  /\ p \notin pods /\ run[p] = "down"
  /\ pods' = pods \cup {p}
  /\ replacements' = replacements + 1
  /\ UNCHANGED <<apiVars, elect, run, cacheVars, queue, worker, edits, crashes>>

(* The container of a pod starts, again if need be. *)
StartProcess(p) ==
  /\ p \in pods /\ run[p] = "down"
  /\ run' = [run EXCEPT ![p] = "standby"]
  /\ UNCHANGED <<apiVars, elect, pods, cacheVars, queue, worker, bounds>>

(* A defect of LeaseFree: the lease is released when the manager is told   *)
(* to stop (LeaderElectionReleaseOnCancel), whatever its workers do.       *)
LeaseFreeOnCancel(p) == \A q \in Procs \ {p} : run[q] # "active"

(* The lease is held until the process has ended, and then expires. *)
LeaseFree(p) == \A q \in Procs \ {p} : run[q] \notin {"active", "stopping"}

(* The controllers start, with leader election only by the lease.  Their   *)
(* informers list the API server, and each CR in the list is an event.     *)
StartControllers(p) ==
  /\ run[p] = "standby"
  /\ elect => LeaseFree(p)
  /\ run' = [run EXCEPT ![p] = "active"]
  /\ crCache' = [crCache EXCEPT ![p] = cr]
  /\ childCache' = [childCache EXCEPT ![p] = have]
  /\ current' = [current EXCEPT ![p] = CRs \X Part]
  /\ queue' = [queue EXCEPT ![p] = CRs]
  /\ UNCHANGED <<apiVars, elect, pods, worker, bounds>>

(* The process ends, and all it has in memory is lost. *)
Forget(p) ==
  /\ run' = [run EXCEPT ![p] = "down"]
  /\ crCache' = [crCache EXCEPT ![p] = NoCRs]
  /\ childCache' = [childCache EXCEPT ![p] = NoChildren]
  /\ current' = [current EXCEPT ![p] = {}]
  /\ queue' = [queue EXCEPT ![p] = {}]
  /\ worker' = [worker EXCEPT ![p] = IdleWorkers]

(* The new pod is ready, the old one gets SIGTERM.  Standing by counts as  *)
(* ready: readyz is a ping.                                                *)
RemovePod(p) ==
  /\ p \in pods
  /\ \E q \in pods \ {p} : run[q] # "down"
  /\ pods' = pods \ {p}
  /\ IF run[p] = "active"
       THEN run' = [run EXCEPT ![p] = "stopping"] /\ UNCHANGED <<cacheVars, queue, worker>>
       ELSE Forget(p)
  /\ UNCHANGED <<apiVars, elect, bounds>>

(* The manager has waited for its workers, or does so no longer. *)
EndProcess(p) ==
  /\ run[p] = "stopping"
  /\ Forget(p)
  /\ UNCHANGED <<apiVars, elect, pods, bounds>>

Crash(p) ==
  /\ crashes < MaxCrashes
  /\ run[p] # "down"
  /\ Forget(p)
  /\ crashes' = crashes + 1
  /\ UNCHANGED <<apiVars, elect, pods, edits, replacements>>

-----------------------------------------------------------------------------
(* Informers, as in ChiaComponent. *)

Running(p) == run[p] \in {"active", "stopping"}

WatchCR(p, k) ==
  /\ Running(p)
  /\ crCache[p][k] # cr[k]
  /\ crCache' = [crCache EXCEPT ![p][k] = cr[k]]
  /\ queue' = [queue EXCEPT ![p] = @ \cup {k}]
  /\ UNCHANGED <<apiVars, procVars, childCache, current, worker, bounds>>

WatchChild(p, k, x) ==
  /\ Running(p)
  /\ <<k, x>> \notin current[p]
  /\ childCache' = [childCache EXCEPT ![p][k][x] = have[k][x]]
  /\ current' = [current EXCEPT ![p] = @ \cup {<<k, x>>}]
  /\ UNCHANGED <<apiVars, procVars, crCache, queue, worker, bounds>>

Resync(p) ==
  /\ run[p] = "active"
  /\ queue' = [queue EXCEPT ![p] = CRs]
  /\ UNCHANGED <<apiVars, procVars, cacheVars, worker, bounds>>

-----------------------------------------------------------------------------
(* Reconcile, in the controller of a kind.  A process that is stopping     *)
(* takes no new key; that its workers may go on until it ends stands for   *)
(* the calls on their way.                                                 *)

Begin(p, k) ==
  /\ run[p] = "active"
  /\ worker[p][Kind[k]] = Idle
  /\ k \in queue[p]
  /\ queue' = [queue EXCEPT ![p] = @ \ {k}]
  /\ worker' = [worker EXCEPT ![p][Kind[k]] = [key |-> k, copy |-> crCache[p][k], step |-> 1]]
  /\ UNCHANGED <<apiVars, procVars, cacheVars, bounds>>

(* A defect of Proceed: the worker goes past the status. *)
ProceedTooFar(p, kind) ==
  /\ worker' = [worker EXCEPT ![p][kind].step = @ + 2]
  /\ UNCHANGED queue

Proceed(p, kind) ==
  /\ worker' = [worker EXCEPT ![p][kind].step = @ + 1]
  /\ UNCHANGED queue

Return(p, kind) ==
  /\ worker' = [worker EXCEPT ![p][kind] = Idle]
  /\ UNCHANGED queue

(* Two defects of ReturnError: the error is dropped, or the worker keeps   *)
(* the key and tries it again at once.                                     *)
ReturnErrorDropped(p, kind) ==
  /\ worker' = [worker EXCEPT ![p][kind] = Idle]
  /\ UNCHANGED queue

ReturnErrorInPlace(p, kind) ==
  /\ worker' = [worker EXCEPT ![p][kind].step = 1]
  /\ UNCHANGED queue

ReturnError(p, kind) ==
  /\ worker' = [worker EXCEPT ![p][kind] = Idle]
  /\ queue' = [queue EXCEPT ![p] = @ \cup {worker[p][kind].key}]

(* The child x of the copy w.copy, as p sees it. *)
Seen(p, w, x) == childCache[p][w.key][x]

Panics(w, x) == x = "workload" /\ w.copy.fate = "panics"

Accepted(p, w, x) ==
  /\ x = "workload" => w.copy.fate # "refused"
  /\ \/ Seen(p, w, x) = 0 /\ have[w.key][x] = 0
     \/ Seen(p, w, x) # 0 /\ <<w.key, x>> \in current[p]

ApplyWrite(p, kind, w, x) ==
  /\ Seen(p, w, x) # w.copy.gen
  /\ Accepted(p, w, x)
  /\ have' = [have EXCEPT ![w.key][x] = w.copy.gen]
  /\ current' = [q \in Procs |-> current[q] \ {<<w.key, x>>}]
  /\ Proceed(p, kind)
  /\ UNCHANGED <<cr, procVars, crCache, childCache, bounds>>

ApplyInSync(p, kind, w, x) ==
  /\ Seen(p, w, x) = w.copy.gen
  /\ Proceed(p, kind)
  /\ UNCHANGED <<apiVars, procVars, cacheVars, bounds>>

ApplyError(p, kind, w, x) ==
  /\ Seen(p, w, x) # w.copy.gen
  /\ ~Accepted(p, w, x)
  /\ ReturnError(p, kind)
  /\ UNCHANGED <<apiVars, procVars, cacheVars, bounds>>

Apply(p, kind) ==
  LET w == worker[p][kind]
      x == Parts[w.step]
  IN
  /\ w.step \in DOMAIN Parts
  /\ ~Panics(w, x)
  /\ ApplyWrite(p, kind, w, x) \/ ApplyInSync(p, kind, w, x) \/ ApplyError(p, kind, w, x)

(* The workload cannot be assembled.  Nothing recovers from the panic. *)
Panic(p, kind) ==
  LET w == worker[p][kind] IN
  /\ w.step \in DOMAIN Parts
  /\ Panics(w, Parts[w.step])
  /\ Forget(p)
  /\ UNCHANGED <<apiVars, elect, pods, bounds>>

UpdateStatus(p, kind) ==
  LET w == worker[p][kind] IN
  /\ w.step = Len(Parts) + 1
  /\ IF cr[w.key] = w.copy
       THEN cr' = [cr EXCEPT ![w.key].ready = TRUE] /\ Return(p, kind)
       ELSE UNCHANGED cr /\ ReturnError(p, kind)
  /\ UNCHANGED <<have, procVars, cacheVars, bounds>>

Reconcile(p, kind) == Apply(p, kind) \/ Panic(p, kind) \/ UpdateStatus(p, kind)

-----------------------------------------------------------------------------
Process(p) ==
  \/ AddPod(p) \/ StartProcess(p) \/ StartControllers(p)
  \/ RemovePod(p) \/ EndProcess(p) \/ Crash(p)

Informers(p) ==
  \/ \E k \in CRs : WatchCR(p, k)
  \/ \E k \in CRs, x \in Part : WatchChild(p, k, x)
  \/ Resync(p)

Controllers(p) ==
  \/ \E k \in CRs : Begin(p, k)
  \/ \E kind \in Kinds : Reconcile(p, kind)

Next ==
  \/ \E k \in CRs : Edit(k)
  \/ \E p \in Procs : Process(p) \/ Informers(p) \/ Controllers(p)

(***************************************************************************)
(* The kubelet starts processes and waits for those that stop, a lease     *)
(* that is free is taken, informers and workers go on, no key waits for    *)
(* ever.  The resync is only relied on where two processes may write.      *)
(***************************************************************************)
Fairness ==
  \A p \in Procs :
    /\ WF_vars(StartProcess(p)) /\ WF_vars(StartControllers(p))
    /\ WF_vars(RemovePod(p)) /\ WF_vars(EndProcess(p))
    /\ \A k \in CRs : SF_vars(Begin(p, k)) /\ WF_vars(WatchCR(p, k))
    /\ \A k \in CRs, x \in Part : WF_vars(WatchChild(p, k, x))
    /\ \A kind \in Kinds : WF_vars(Reconcile(p, kind))
    /\ WF_vars(~elect /\ Resync(p))

Safety == Init /\ [][Next]_vars

Spec == Safety /\ Fairness

-----------------------------------------------------------------------------
(***************************************************************************)
(* Properties.                                                             *)
(***************************************************************************)

(* With leader election no child ever goes back to an older spec, though   *)
(* the operator is replaced, crashes and is started again at any moment:   *)
(* the writes of one leader are over before the next one lists the CRs.    *)
(* Within a process, each resourceVersion is checked and the informers are *)
(* never behind what the worker wrote from.                                *)
NoRollback ==
  [][elect => \A k \in CRs, x \in Part : have'[k][x] >= have[k][x]]_vars

(* Ready, with the children of the last spec. *)
Settled(k) == cr[k].ready /\ \A x \in Part : have[k][x] = cr[k].gen

(* With leader election the leader forgets no CR, whatever edits, refused  *)
(* and conflicting writes, panics, crashes and replacements there are: one *)
(* that is not settled is queued, in the hand of the worker of its kind,   *)
(* or an event to come.  So what another process left undone is done, and  *)
(* no resync is needed for it.                                             *)
Pending(p, k) ==
  k \in queue[p] \/ worker[p][Kind[k]].key = k \/ crCache[p][k] # cr[k]

LeaderLosesNoWork ==
  elect => \A p \in Procs, k \in CRs : run[p] = "active" => Settled(k) \/ Pending(p, k)

(* When the users stop, each CR with a spec the API server takes ends up   *)
(* Ready with the children of that spec, whatever becomes of the other     *)
(* CRs of its kind and of other kinds, and of the processes.  With leader  *)
(* election the events alone achieve that; without it, a process may leave *)
(* behind what it rolled back, and the resync of the other repairs it.  A  *)
(* spec that panics may hold up all CRs as long as it is there, and no     *)
(* longer.                                                                 *)
Convergence ==
  \A k \in CRs :
    <>[](\/ cr[k].fate # "good"
         \/ \E j \in CRs : cr[j].fate = "panics"
         \/ Settled(k))
=============================================================================
