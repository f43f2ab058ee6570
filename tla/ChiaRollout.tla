---------------------------- MODULE ChiaRollout ----------------------------
(***************************************************************************)
(* The objects of ChiaAssembly in a namespace while users edit the CRs.    *)
(* Each controller writes the Services one by one, then the workload; then *)
(* the pods are replaced.  In between, Services, workload and pods of one  *)
(* CR stem from different versions of its spec, and everything is joined   *)
(* by labels and port names only.                                          *)
(*                                                                         *)
(* The informers, failing calls and the status are the matter of           *)
(* ChiaComponent: here a controller reads the present CR, and its writes   *)
(* only fail when the API server finds them invalid.                       *)
(***************************************************************************)
EXTENDS ChiaAssembly

CONSTANTS
  CRs,       \* the CRs in the namespace: [kind |-> ..., name |-> ...]
  Options,   \* the specs the users may write for each kind
  Initial,   \* the spec the CRs of each kind start with
  MaxEdits   \* bound on the users' edits

ASSUME CRsAssumption == CRs \subseteq [kind : Kinds, name : STRING]
ASSUME OptionsAssumption == \A k \in CRs : Initial[k.kind] \in Options[k.kind]
ASSUME EditsAssumption == MaxEdits \in Nat

(* What a user may write under each kind and name. *)
Versions == [k \in CRs |-> {Over(k, o) : o \in Options[k.kind]}]

VARIABLES
  spec,      \* the CR, as last edited
  service,   \* the CR each Service was assembled from
  workload,  \* the CR the Deployment or StatefulSet was assembled from
  pods,      \* the CRs the running pods were assembled from
  due,       \* the CRs in the work queues
  copy,      \* the CR a controller works on
  step,      \* the Service it writes next, 0 when it is idle
  edits

vars == <<spec, service, workload, pods, due, copy, step, edits>>

(* An object that does not exist. *)
None == [kind |-> "none"]

ServiceNames(k) == {ServicePlan[k.kind][i] : i \in DOMAIN ServicePlan[k.kind]}
AllServices(k, cr) == [n \in ServiceNames(k) |-> cr]
Last(k) == Len(ServicePlan[k.kind])

TypeOK ==
  /\ DOMAIN spec = CRs /\ DOMAIN service = CRs /\ DOMAIN workload = CRs
  /\ DOMAIN copy = CRs /\ DOMAIN step = CRs
  /\ \A k \in CRs :
       /\ spec[k] \in Versions[k]
       /\ service[k] \in [ServiceNames(k) -> Versions[k] \cup {None}]
       /\ workload[k] \in Versions[k] \cup {None}
       /\ copy[k] \in Versions[k] \cup {None}
       /\ step[k] \in 0 .. Last(k) + 1
       /\ (step[k] = 0) <=> (copy[k] = None)
  /\ \A p \in pods : \E k \in CRs : p \in Versions[k]
  /\ due \in SUBSET CRs
  /\ edits \in 0 .. MaxEdits

(* One CR is new, the others are in place. *)
Init ==
  /\ spec = [k \in CRs |-> Over(k, Initial[k.kind])]
  /\ \E new \in CRs :
       /\ service = [k \in CRs |-> AllServices(k, IF k = new THEN None ELSE spec[k])]
       /\ workload = [k \in CRs |-> IF k = new THEN None ELSE spec[k]]
       /\ pods = {spec[k] : k \in CRs \ {new}}
       /\ due = {new}
  /\ copy = [k \in CRs |-> None]
  /\ step = [k \in CRs |-> 0]
  /\ edits = 0

Edit(k) ==
  /\ edits < MaxEdits
  /\ \E cr \in Versions[k] \ {spec[k]} : spec' = [spec EXCEPT ![k] = cr]
  /\ due' = due \cup {k}
  /\ edits' = edits + 1
  /\ UNCHANGED <<service, workload, pods, copy, step>>

(* Reconcile gets the CR. *)
Begin(k) ==
  /\ step[k] = 0
  /\ k \in due
  /\ due' = due \ {k}
  /\ copy' = [copy EXCEPT ![k] = spec[k]]
  /\ step' = [step EXCEPT ![k] = 1]
  /\ UNCHANGED <<spec, service, workload, pods, edits>>

ApplyService(k) ==
  /\ step[k] \in 1 .. Last(k)
  /\ service' = [service EXCEPT ![k][ServicePlan[k.kind][step[k]]] = copy[k]]
  /\ step' = [step EXCEPT ![k] = @ + 1]
  /\ UNCHANGED <<spec, workload, pods, due, copy, edits>>

(* The API server takes a pod template if its labels match the selector of *)
(* the workload, and each mount has one volume or claim and a path of its  *)
(* own.                                                                    *)
Containers(pod) == {pod.chia.mounts, pod.exporter.mounts}

Backing(pod, m) == {v \in pod.volumes : v.name = m.name} \cup {c \in pod.claims : c.name = m.name}

ValidPod(pod) ==
  \A mounts \in Containers(pod) :
    /\ \A m \in mounts : Cardinality(Backing(pod, m)) = 1
    /\ \A m, n \in mounts : m.path = n.path => m = n

(* Selectors and volumeClaimTemplates are immutable. *)
Accepted(k, cr) ==
  /\ Matches(MatchLabels(cr), PodLabels(cr))
  /\ ValidPod(Pod(cr))
  /\ workload[k] # None =>
       MatchLabels(workload[k]) = MatchLabels(cr) /\ Claims(workload[k]) = Claims(cr)

(* A defect of End: the copy of the CR is kept. *)
EndKeepingCopy(k) ==
  /\ UNCHANGED copy
  /\ step' = [step EXCEPT ![k] = 0]

(* Reconcile ends: the CR is added to the queue again on an error. *)
End(k) ==
  /\ copy' = [copy EXCEPT ![k] = None]
  /\ step' = [step EXCEPT ![k] = 0]

(* A defect of ApplyWorkload: the error of a refused write is dropped. *)
ApplyWorkloadErrorDropped(k) ==
  /\ step[k] = Last(k) + 1
  /\ ~Panics(copy[k])
  /\ workload' = [workload EXCEPT ![k] = IF Accepted(k, copy[k]) THEN copy[k] ELSE @]
  /\ End(k)
  /\ UNCHANGED <<spec, service, pods, due, edits>>

ApplyWorkload(k) ==
  /\ step[k] = Last(k) + 1
  /\ ~Panics(copy[k])
  /\ IF Accepted(k, copy[k])
       THEN workload' = [workload EXCEPT ![k] = copy[k]] /\ UNCHANGED due
       ELSE UNCHANGED workload /\ due' = due \cup {k}
  /\ End(k)
  /\ UNCHANGED <<spec, service, pods, edits>>

(* A panic while the pod is assembled ends the operator, which is started  *)
(* again and finds every CR in its queues.                                 *)
Panic(k) ==
  /\ step[k] = Last(k) + 1
  /\ Panics(copy[k])
  /\ copy' = [j \in CRs |-> None]
  /\ step' = [j \in CRs |-> 0]
  /\ due' = CRs
  /\ UNCHANGED <<spec, service, workload, pods, edits>>

-----------------------------------------------------------------------------
(* The rollout of one replica.  A Deployment starts the new pod, then      *)
(* stops the old ones; a StatefulSet stops the old pod, then starts a new  *)
(* one.                                                                    *)

PodsOf(k) == {p \in pods : p.kind = k.kind /\ p.name = k.name}
UpToDate(k) == {p \in PodsOf(k) : Pod(p) = Pod(workload[k])}

(* The namespace has the claims that the users name as claims, and those   *)
(* of the StatefulSets' templates.  None is named like a path on a host.   *)
ClaimsFound(pod) ==
  \A v \in pod.volumes : v.name = <<"chiaroot">> => v.source # ClaimOfPath

(* A pod stays pending, and does not run, as long as a claim is missing.   *)
StartPod(k) ==
  /\ workload[k] # None
  /\ ClaimsFound(Pod(workload[k]))
  /\ UpToDate(k) = {}
  /\ k.kind = "ChiaNode" => PodsOf(k) = {}
  /\ pods' = pods \cup {workload[k]}
  /\ UNCHANGED <<spec, service, workload, due, copy, step, edits>>

StopPod(k) ==
  /\ workload[k] # None
  /\ k.kind # "ChiaNode" => UpToDate(k) # {}
  /\ \E p \in PodsOf(k) \ UpToDate(k) : pods' = pods \ {p}
  /\ UNCHANGED <<spec, service, workload, due, copy, step, edits>>

Reconcile(k) == Begin(k) \/ ApplyService(k) \/ ApplyWorkload(k) \/ Panic(k)
Rollout(k) == StartPod(k) \/ StopPod(k)

Next == \E k \in CRs : Edit(k) \/ Reconcile(k) \/ Rollout(k)

(* The queues are served, a Reconcile that began goes on, and the          *)
(* controllers of the cluster replace the pods.  Users are not fair.       *)
Fairness == \A k \in CRs : WF_vars(Reconcile(k)) /\ WF_vars(Rollout(k))

Spec == Init /\ [][Next]_vars /\ Fairness

-----------------------------------------------------------------------------
(***************************************************************************)
(* Properties.                                                             *)
(***************************************************************************)

(* The user labels the pods of one kind as those of another. *)
PosesAs(p, k) ==
  /\ p.kind # k.kind /\ p.name = k.name
  /\ OwnerKey[k.kind] \in DOMAIN p.extra /\ p.extra[OwnerKey[k.kind]] = k.name

(* Selector and labels are computed at different times, with and without   *)
(* the labels of the user, and only an owner label tells the CRs of one    *)
(* name apart.  Still no Service ever sends a client to a pod of another   *)
(* CR, and every workload always selects its own pods, old and new, and    *)
(* none other, except for the pods that a user has labelled as those of    *)
(* a CR of the same name.                                                  *)
PodsKeptApart ==
  \A p \in pods :
    LET labels == PodLabels(p) IN
    \A k \in CRs :
      /\ \A cr \in {service[k][n] : n \in ServiceNames(k)} \ {None} :
           Matches(PodLabels(cr), labels) => p \in PodsOf(k) \/ PosesAs(p, k)
      /\ workload[k] # None =>
           (Matches(MatchLabels(workload[k]), labels) <=> p \in PodsOf(k) \/ PosesAs(p, k))

(* Whatever edit of labels, storage, plots or network a user makes, with   *)
(* the Services already rewritten, the API server takes the workload too:  *)
(* the selector does not depend on the labels of the user, and the         *)
(* volumes, mounts and claims built by separate functions agree.  The      *)
(* exception is an edit that changes the claims of a StatefulSet, their    *)
(* size and storage class included.                                        *)
WorkloadAccepted ==
  \A k \in CRs :
    step[k] = Last(k) + 1 /\ ~Panics(copy[k]) =>
      \/ Accepted(k, copy[k])
      \/ workload[k] # None /\ Claims(workload[k]) # Claims(copy[k])

(* What separate functions build agrees: each target port of a Service is  *)
(* one the pods have, of whatever version they are; every pod reads and    *)
(* writes only in places that are mounted, a node listens on the port of   *)
(* its own network, and a harvester calls the port every farmer's Service  *)
(* has for its peers.                                                      *)
PodPorts(pod) == Over(pod.chia.ports, pod.exporter.ports)

EndsMeet ==
  \A p \in pods :
    LET pod == Pod(p)
        env == pod.chia.env
    IN
    /\ \A k \in CRs : p \in PodsOf(k) =>
         \A n \in ServiceNames(k) : service[k][n] # None =>
           DOMAIN Services(service[k][n])[n] \subseteq DOMAIN PodPorts(pod)
    /\ env.paths \subseteq {m.path : m \in pod.chia.mounts}
    /\ p.kind = "ChiaNode" => (env.testnet <=> pod.chia.ports.peers = testnetNodePort)
    /\ p.kind = "ChiaHarvester" =>
         \A k \in CRs : k.kind = "ChiaFarmer" /\ service[k]["farmer"] # None =>
           Services(service[k]["farmer"])["farmer"].peers = env.farmer_port

(* A CR has the Services of its last spec and pods of that spec, which     *)
(* those Services select and which listen on their ports.                  *)
Served(k) ==
  LET pod == Pod(spec[k])
      services == Services(spec[k])
  IN
  /\ \A n \in ServiceNames(k) :
       /\ service[k][n] = spec[k]
       /\ \A port \in DOMAIN services[n] : services[n][port] = PodPorts(pod)[port]
  /\ PodsOf(k) # {}
  /\ \A p \in PodsOf(k) :
       /\ Pod(p) = pod
       /\ \A n \in ServiceNames(k) : Matches(PodLabels(service[k][n]), PodLabels(p))

(* A CR for which nobody has anything left to do is served: it waits in no *)
(* queue, no controller works on it, and its pods are those of its         *)
(* workload.  So no edit, refused write or panic is ever forgotten, at     *)
(* whatever moment it comes.                                               *)
AtRest(k) == k \notin due /\ step[k] = 0 /\ PodsOf(k) = UpToDate(k) /\ PodsOf(k) # {}

ServedAtRest == \A k \in CRs : AtRest(k) => Served(k)

(* When the users stop, every CR is served for good.  What holds up a CR   *)
(* is an edit of its claims, which the API server refuses, a claim for     *)
(* CHIA_ROOT that cannot be found (see ClaimRespected), or a spec, of this *)
(* or another CR, that makes the operator panic.                           *)
EveryoneServed ==
  \A k \in CRs :
    <>[](\/ Served(k)
         \/ workload[k] # None /\ Claims(workload[k]) # Claims(spec[k])
         \/ ~ClaimsFound(Pod(spec[k]))
         \/ \E j \in CRs : Panics(spec[j]))

(* The comment of ChiaRootConfig in api/v1: a PersistentVolumeClaim is     *)
(* respected over a hostPath volume if both are given.  So the pods asked  *)
(* for mount the claim.                                                    *)
RespectsClaim(cr) ==
  \A v \in Pod(cr).volumes :
    v.name = <<"chiaroot">> => v.source = <<"claim", "chiaRoot.persistentVolumeClaim.claimName">>

ClaimRespected ==
  \A k \in CRs :
    workload[k] # None /\ "pvc" \in workload[k].chiaRoot => RespectsClaim(workload[k])
=============================================================================
