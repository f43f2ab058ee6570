------------------------- MODULE ChiaRolloutProofs -------------------------
(***************************************************************************)
(* The invariants of ChiaRollout, for all CRs of the four kinds, any specs *)
(* the users may write and any number of edits.                            *)
(***************************************************************************)
EXTENDS ChiaRollout, FiniteSetTheorems, TLAPS

-----------------------------------------------------------------------------
(* Labels. *)

(* The labels that CommonLabels sets itself. *)
OwnKeys(cr) == {"name", "managedBy", "instance", OwnerKey[cr.kind]}
OwnLabel(cr, l) ==
  IF l = "name" THEN "chia" ELSE IF l = "managedBy" THEN "chia-operator" ELSE cr.name

LEMMA OwnerKeys ==
  \A j, k \in Kinds :
    /\ OwnerKey[j] \notin {"name", "managedBy", "instance"}
    /\ OwnerKey[j] = OwnerKey[k] => j = k
BY DEF Kinds, OwnerKey

LEMMA LabelsOf ==
  ASSUME NEW cr, cr.kind \in Kinds, NEW additions
  PROVE  /\ DOMAIN CommonLabels(cr, additions) = DOMAIN additions \cup OwnKeys(cr)
         /\ \A l \in OwnKeys(cr) : CommonLabels(cr, additions)[l] = OwnLabel(cr, l)
         /\ \A l \in DOMAIN additions \ OwnKeys(cr) :
              CommonLabels(cr, additions)[l] = additions[l]
BY OwnerKeys DEF CommonLabels, OwnKeys, OwnLabel

LEMMA SelectorOf ==
  ASSUME NEW cr, cr.kind \in Kinds
  PROVE  /\ DOMAIN MatchLabels(cr) = OwnKeys(cr)
         /\ \A l \in OwnKeys(cr) : MatchLabels(cr)[l] = OwnLabel(cr, l)
<1>1. DOMAIN NoLabels = {}
  BY DEF NoLabels
<1>2. DOMAIN CommonLabels(cr, NoLabels) = DOMAIN NoLabels \cup OwnKeys(cr)
  BY LabelsOf
<1>3. QED
  BY <1>1, <1>2, LabelsOf DEF MatchLabels

(* A selector of a CR selects its own pods, and those that pose as them.   *)
(* The owner label of another kind is the only one a user can forge.       *)
LEMMA SelectorSelects ==
  ASSUME NEW cr, cr.kind \in Kinds, NEW p, p.kind \in Kinds
  PROVE  Matches(MatchLabels(cr), PodLabels(p)) <=>
           (p.kind = cr.kind /\ p.name = cr.name) \/ PosesAs(p, cr)
<1> DEFINE labels == PodLabels(p)
           owner == OwnerKey[cr.kind]
<1>1. /\ DOMAIN labels = DOMAIN p.extra \cup OwnKeys(p)
      /\ \A l \in OwnKeys(p) : labels[l] = OwnLabel(p, l)
      /\ \A l \in DOMAIN p.extra \ OwnKeys(p) : labels[l] = p.extra[l]
  BY LabelsOf DEF PodLabels
<1> HIDE DEF labels
<1>2. Matches(MatchLabels(cr), labels) <=>
        \A l \in OwnKeys(cr) : l \in DOMAIN labels /\ labels[l] = OwnLabel(cr, l)
  BY SelectorOf DEF Matches
<1>3. Matches(MatchLabels(cr), labels) <=>
        p.name = cr.name /\ owner \in DOMAIN labels /\ labels[owner] = cr.name
  BY <1>1, <1>2, OwnerKeys DEF OwnKeys, OwnLabel
<1>4. CASE p.kind = cr.kind
  BY <1>1, <1>3, <1>4, OwnerKeys DEF OwnKeys, OwnLabel, PosesAs, labels
<1>5. CASE p.kind # cr.kind
  <2>1. owner \notin OwnKeys(p)
    BY <1>5, OwnerKeys DEF OwnKeys
  <2>2. QED
    BY <1>1, <1>3, <1>5, <2>1 DEF PosesAs, labels
<1>6. QED
  BY <1>4, <1>5

(* The labels of a pod as a selector select no more than that. *)
LEMMA ServiceSelects ==
  ASSUME NEW cr, cr.kind \in Kinds, NEW p, p.kind \in Kinds,
         Matches(PodLabels(cr), PodLabels(p))
  PROVE  (p.kind = cr.kind /\ p.name = cr.name) \/ PosesAs(p, cr)
<1>1. /\ DOMAIN MatchLabels(cr) \subseteq DOMAIN PodLabels(cr)
      /\ \A l \in DOMAIN MatchLabels(cr) : PodLabels(cr)[l] = MatchLabels(cr)[l]
  <2>1. /\ DOMAIN PodLabels(cr) = DOMAIN cr.extra \cup OwnKeys(cr)
        /\ \A l \in OwnKeys(cr) : PodLabels(cr)[l] = OwnLabel(cr, l)
    BY LabelsOf DEF PodLabels
  <2>2. QED
    BY <2>1, SelectorOf
<1>2. Matches(MatchLabels(cr), PodLabels(p))
  BY <1>1 DEF Matches
<1>3. QED
  BY <1>2, SelectorSelects

-----------------------------------------------------------------------------
(* Types. *)

LEMMA VersionOf ==
  ASSUME NEW k \in CRs, NEW v \in Versions[k]
  PROVE  v.kind = k.kind /\ v.name = k.name /\ k.kind \in Kinds /\ v # None
<1>1. k \in [kind : Kinds, name : STRING]
  BY CRsAssumption
<1>2. PICK o \in Options[k.kind] : v = Over(k, o)
  BY DEF Versions
<1>3. v.kind = k.kind /\ v.name = k.name
  BY <1>1, <1>2 DEF Over
<1>4. v # None
  BY <1>1, <1>3 DEF None, Kinds
<1>5. QED
  BY <1>1, <1>3, <1>4

LEMMA PlanLength ==
  \A kind \in Kinds :
    Len(ServicePlan[kind]) \in Nat /\ DOMAIN ServicePlan[kind] = 1 .. Len(ServicePlan[kind])
<1>1. /\ ServicePlan["ChiaNode"] = NodeServicePlan
      /\ ServicePlan["ChiaFarmer"] = FarmerServicePlan
      /\ ServicePlan["ChiaHarvester"] = HarvesterServicePlan
      /\ ServicePlan["ChiaWallet"] = WalletServicePlan
  BY DEF ServicePlan
<1>2. Len(NodeServicePlan) = 4 /\ DOMAIN NodeServicePlan = 1 .. 4
  BY DEF NodeServicePlan
<1>3. Len(FarmerServicePlan) = 2 /\ DOMAIN FarmerServicePlan = 1 .. 2
  BY DEF FarmerServicePlan
<1>4. Len(HarvesterServicePlan) = 2 /\ DOMAIN HarvesterServicePlan = 1 .. 2
  BY DEF HarvesterServicePlan
<1>5. Len(WalletServicePlan) = 2 /\ DOMAIN WalletServicePlan = 1 .. 2
  BY DEF WalletServicePlan
<1>6. QED
  BY <1>1, <1>2, <1>3, <1>4, <1>5 DEF Kinds

(* A step below Last names a Service. *)
LEMMA PlanIndex ==
  ASSUME NEW k \in CRs
  PROVE  /\ Last(k) \in Nat
         /\ DOMAIN ServicePlan[k.kind] = 1 .. Last(k)
         /\ \A i \in 1 .. Last(k) : ServicePlan[k.kind][i] \in ServiceNames(k)
BY PlanLength, CRsAssumption DEF Last, ServiceNames

LEMMA Initially == Init => TypeOK
<1> SUFFICES ASSUME Init PROVE TypeOK
  OBVIOUS
<1>1. \A k \in CRs : Over(k, Initial[k.kind]) \in Versions[k]
  BY OptionsAssumption DEF Versions
<1>2. PICK new \in CRs :
        /\ service = [k \in CRs |-> AllServices(k, IF k = new THEN None ELSE spec[k])]
        /\ workload = [k \in CRs |-> IF k = new THEN None ELSE spec[k]]
        /\ pods = {spec[k] : k \in CRs \ {new}}
        /\ due = {new}
  BY DEF Init
<1>3. \A k \in CRs : Last(k) \in Nat
  BY PlanIndex
<1>4. \A k \in CRs : spec[k] \in Versions[k]
  BY <1>1 DEF Init
<1>5. \A k \in CRs : service[k] \in [ServiceNames(k) -> Versions[k] \cup {None}]
  BY <1>2, <1>4 DEF AllServices
<1>6. QED
  BY <1>2, <1>3, <1>4, <1>5, EditsAssumption DEF Init, TypeOK

LEMMA StepTyped == TypeOK /\ [Next]_vars => TypeOK'
<1> SUFFICES ASSUME TypeOK, [Next]_vars PROVE TypeOK'
  OBVIOUS
<1>0. \A k \in CRs : Last(k) \in Nat
  BY PlanIndex
<1>1. ASSUME NEW k \in CRs, Edit(k) PROVE TypeOK'
  BY <1>1, EditsAssumption DEF Edit, TypeOK
<1>2. ASSUME NEW k \in CRs, Begin(k) PROVE TypeOK'
  BY <1>0, <1>2, VersionOf DEF Begin, TypeOK
<1>3. ASSUME NEW k \in CRs, ApplyService(k) PROVE TypeOK'
  <2>1. ServicePlan[k.kind][step[k]] \in ServiceNames(k)
    BY <1>3, PlanIndex DEF ApplyService
  <2>2. copy[k] \in Versions[k]
    BY <1>3 DEF ApplyService, TypeOK
  <2>3. service' = [service EXCEPT ![k] =
                      [service[k] EXCEPT ![ServicePlan[k.kind][step[k]]] = copy[k]]]
    BY <1>3 DEF ApplyService, TypeOK
  <2>4. \A j \in CRs : service'[j] \in [ServiceNames(j) -> Versions[j] \cup {None}]
    BY <2>1, <2>2, <2>3 DEF TypeOK
  <2>5. \A j \in CRs : step'[j] \in 0 .. Last(j) + 1 /\ (step'[j] = 0 <=> copy'[j] = None)
    BY <1>0, <1>3 DEF ApplyService, TypeOK
  <2>6. QED
    BY <1>3, <2>3, <2>4, <2>5 DEF ApplyService, TypeOK
<1>4. ASSUME NEW k \in CRs, ApplyWorkload(k) PROVE TypeOK'
  BY <1>0, <1>4 DEF ApplyWorkload, End, TypeOK
<1>5. ASSUME NEW k \in CRs, Panic(k) PROVE TypeOK'
  BY <1>0, <1>5 DEF Panic, TypeOK
<1>6. ASSUME NEW k \in CRs, StartPod(k) PROVE TypeOK'
  BY <1>6 DEF StartPod, TypeOK
<1>7. ASSUME NEW k \in CRs, StopPod(k) PROVE TypeOK'
  BY <1>7 DEF StopPod, TypeOK
<1>8. CASE UNCHANGED vars
  BY <1>8 DEF vars, TypeOK
<1>9. QED
  BY <1>1, <1>2, <1>3, <1>4, <1>5, <1>6, <1>7, <1>8 DEF Next, Reconcile, Rollout

(* Every object in the namespace is a version of its own CR. *)
THEOREM TypeCorrect == Spec => []TypeOK
BY Initially, StepTyped, PTL DEF Spec

-----------------------------------------------------------------------------
(* No Service sends a client to a pod of another CR, and every workload    *)
(* selects its own pods.                                                   *)
THEOREM PodsAreKeptApart == Spec => []PodsKeptApart
<1>1. TypeOK => PodsKeptApart
  <2> SUFFICES ASSUME TypeOK, NEW p \in pods, NEW k \in CRs
               PROVE  /\ \A cr \in {service[k][n] : n \in ServiceNames(k)} \ {None} :
                           Matches(PodLabels(cr), PodLabels(p)) =>
                             p \in PodsOf(k) \/ PosesAs(p, k)
                      /\ workload[k] # None =>
                           (Matches(MatchLabels(workload[k]), PodLabels(p)) <=>
                              p \in PodsOf(k) \/ PosesAs(p, k))
    BY DEF PodsKeptApart
  <2>1. p.kind \in Kinds
    BY VersionOf DEF TypeOK
  <2>2. ASSUME NEW cr \in Versions[k]
        PROVE  /\ cr.kind \in Kinds
               /\ (p.kind = cr.kind /\ p.name = cr.name) \/ PosesAs(p, cr) <=>
                    p \in PodsOf(k) \/ PosesAs(p, k)
    BY VersionOf DEF PodsOf, PosesAs
  <2>3. ASSUME NEW n \in ServiceNames(k), service[k][n] # None,
               Matches(PodLabels(service[k][n]), PodLabels(p))
        PROVE  p \in PodsOf(k) \/ PosesAs(p, k)
    <3>1. service[k][n] \in Versions[k]
      BY <2>3 DEF TypeOK
    <3>2. QED
      BY <2>1, <2>2, <2>3, <3>1, ServiceSelects
  <2>4. ASSUME workload[k] # None
        PROVE  Matches(MatchLabels(workload[k]), PodLabels(p)) <=>
                 p \in PodsOf(k) \/ PosesAs(p, k)
    <3>1. workload[k] \in Versions[k]
      BY <2>4 DEF TypeOK
    <3>2. QED
      BY <2>1, <2>2, <3>1, SelectorSelects
  <2>5. QED
    BY <2>3, <2>4
<1>2. QED
  BY <1>1, TypeCorrect, PTL

-----------------------------------------------------------------------------
(* Volumes.  Each mount of a pod has one volume or claim. *)

LEMMA VolumeNames ==
  /\ <<"secret-ca">> # <<"key">> /\ <<"secret-ca">> # <<"chiaroot">>
  /\ <<"key">> # <<"chiaroot">>
  /\ \A i : <<"pvc-plots", i>> # <<"secret-ca">> /\ <<"pvc-plots", i>> # <<"chiaroot">>
  /\ \A i : <<"hostpath-plots", i>> # <<"secret-ca">> /\ <<"hostpath-plots", i>> # <<"chiaroot">>
  /\ \A i, j : <<"pvc-plots", i>> # <<"hostpath-plots", j>>
  /\ \A i, j : <<"pvc-plots", i>> = <<"pvc-plots", j>> => i = j
  /\ \A i, j : <<"hostpath-plots", i>> = <<"hostpath-plots", j>> => i = j
OBVIOUS

LEMMA RootVolumeNamed == \A cr : \E source : RootVolume(cr) = Volume(<<"chiaroot">>, source)
<1> SUFFICES ASSUME NEW cr
             PROVE  \E source : RootVolume(cr) = Volume(<<"chiaroot">>, source)
  OBVIOUS
<1>1. CASE "pvc" \in cr.chiaRoot
  <2>1. cr.chiaRoot # {"hostPath"}
    BY <1>1
  <2>2. QED
    BY <1>1, <2>1, Zenon DEF RootVolume
<1>2. CASE "pvc" \notin cr.chiaRoot /\ cr.chiaRoot = {"hostPath"}
  BY <1>2, Zenon DEF RootVolume, HostPathRoot
<1>3. CASE "pvc" \notin cr.chiaRoot /\ cr.chiaRoot # {"hostPath"}
  BY <1>3, Zenon DEF RootVolume, EmptyDirRoot
<1>4. QED
  BY <1>1, <1>2, <1>3

LEMMA NodeVolumesOf ==
  ASSUME NEW cr
  PROVE  IF "pvc" \in cr.chiaRoot
           THEN NodeVolumes(cr) = {SecretVolume("secret-ca")}
           ELSE \E source : NodeVolumes(cr) =
                  {SecretVolume("secret-ca"), Volume(<<"chiaroot">>, source)}
BY DEF NodeVolumes, HostPathRoot, EmptyDirRoot

(* The pods of a ChiaFarmer and a ChiaWallet: Secrets and CHIA_ROOT. *)
LEMMA KeyPodValid ==
  ASSUME NEW cr, cr.kind # "ChiaNode", NEW pod, NEW source,
         pod.volumes = {SecretVolume("secret-ca"), SecretVolume("key"),
                        Volume(<<"chiaroot">>, source)},
         pod.claims = Claims(cr),
         pod.chia.mounts = {CAMount, KeyMount, RootMount},
         pod.exporter.mounts = {RootMount}
  PROVE  ValidPod(pod)
<1> USE VolumeNames
<1>1. pod.claims = {}
  BY DEF Claims
<1>2. Backing(pod, CAMount) = {SecretVolume("secret-ca")}
  BY <1>1 DEF Backing, CAMount, Mount, SecretVolume, Volume
<1>3. Backing(pod, KeyMount) = {SecretVolume("key")}
  BY <1>1 DEF Backing, KeyMount, Mount, SecretVolume, Volume
<1>4. Backing(pod, RootMount) = {Volume(<<"chiaroot">>, source)}
  BY <1>1 DEF Backing, RootMount, Mount, SecretVolume, Volume
<1>5. \A m \in {CAMount, KeyMount, RootMount} : Cardinality(Backing(pod, m)) = 1
  BY <1>2, <1>3, <1>4, FS_Singleton, Zenon
<1>6. \A m, n \in {CAMount, KeyMount, RootMount} : m.path = n.path => m = n
  BY DEF CAMount, KeyMount, RootMount, Mount
<1>7. QED
  BY <1>5, <1>6 DEF ValidPod, Containers

LEMMA NodePodValid == ASSUME NEW cr, cr.kind = "ChiaNode" PROVE ValidPod(NodePod(cr))
<1> USE VolumeNames
<1> DEFINE pod == NodePod(cr)
<1>1. /\ pod.volumes = NodeVolumes(cr) /\ pod.claims = Claims(cr)
      /\ pod.chia.mounts = {CAMount, RootMount} /\ pod.exporter.mounts = {RootMount}
  BY DEF NodePod, PodWith, Exporter, NodeMounts
<1> HIDE DEF pod
<1> DEFINE claim == [name |-> <<"chiaroot">>, storageClass |-> cr.storageClass,
                     request |-> cr.resourceRequest]
<1>2. \E v : Backing(pod, CAMount) = {v}
  <2>1. CASE "pvc" \in cr.chiaRoot
    <3>1. pod.volumes = {SecretVolume("secret-ca")} /\ pod.claims = {claim}
      BY <1>1, <2>1, NodeVolumesOf DEF Claims
    <3>2. Backing(pod, CAMount) = {SecretVolume("secret-ca")}
      BY <3>1 DEF Backing, CAMount, Mount, SecretVolume, Volume
    <3>3. QED
      BY <3>2
  <2>2. CASE "pvc" \notin cr.chiaRoot
    <3>1. PICK source : NodeVolumes(cr) =
                          {SecretVolume("secret-ca"), Volume(<<"chiaroot">>, source)}
      BY <2>2, NodeVolumesOf
    <3>2. Backing(pod, CAMount) = {SecretVolume("secret-ca")}
      BY <1>1, <2>2, <3>1 DEF Backing, CAMount, Mount, SecretVolume, Volume, Claims
    <3>3. QED
      BY <3>2
  <2>3. QED
    BY <2>1, <2>2
<1>3. \E v : Backing(pod, RootMount) = {v}
  <2>1. CASE "pvc" \in cr.chiaRoot
    <3>1. pod.volumes = {SecretVolume("secret-ca")} /\ pod.claims = {claim}
      BY <1>1, <2>1, NodeVolumesOf DEF Claims
    <3>2. Backing(pod, RootMount) = {claim}
      BY <3>1 DEF Backing, RootMount, Mount, SecretVolume, Volume
    <3>3. QED
      BY <3>2
  <2>2. CASE "pvc" \notin cr.chiaRoot
    <3>1. PICK source : NodeVolumes(cr) =
                          {SecretVolume("secret-ca"), Volume(<<"chiaroot">>, source)}
      BY <2>2, NodeVolumesOf
    <3>2. Backing(pod, RootMount) = {Volume(<<"chiaroot">>, source)}
      BY <1>1, <2>2, <3>1 DEF Backing, RootMount, Mount, SecretVolume, Volume, Claims
    <3>3. QED
      BY <3>2
  <2>3. QED
    BY <2>1, <2>2
<1>4. \A m \in {CAMount, RootMount} : Cardinality(Backing(pod, m)) = 1
  BY <1>2, <1>3, FS_Singleton, Zenon
<1>5. \A m, n \in {CAMount, RootMount} : m.path = n.path => m = n
  BY DEF CAMount, RootMount, Mount
<1>6. QED
  BY <1>1, <1>4, <1>5 DEF ValidPod, Containers, pod

LEMMA HarvesterPodValid ==
  ASSUME NEW cr, cr.kind = "ChiaHarvester"
  PROVE  ValidPod(HarvesterPod(cr))
<1> USE VolumeNames
<1> DEFINE pod == HarvesterPod(cr)
           pvc == Given(cr.pvcPlots)
           host == Given(cr.hostPlots)
           PVC(i) == Volume(<<"pvc-plots", i>>, <<"claim", i>>)
           Host(i) == Volume(<<"hostpath-plots", i>>, <<"hostPath", i>>)
           PVCMount(i) == Mount(<<"pvc-plots", i>>, <<"plots", "pvc-plots", i>>)
           HostMount(i) == Mount(<<"hostpath-plots", i>>, <<"plots", "hostpath-plots", i>>)
<1>1. PICK source : RootVolume(cr) = Volume(<<"chiaroot">>, source)
  BY RootVolumeNamed
<1>2. /\ pod.volumes = {SecretVolume("secret-ca"), Volume(<<"chiaroot">>, source)}
                         \cup {PVC(i) : i \in pvc} \cup {Host(i) : i \in host}
      /\ pod.claims = {}
      /\ pod.chia.mounts = {CAMount, RootMount}
                             \cup {PVCMount(i) : i \in pvc} \cup {HostMount(i) : i \in host}
      /\ pod.exporter.mounts = {RootMount}
  BY <1>1 DEF HarvesterPod, PodWith, Exporter, HarvesterVolumes, HarvesterMounts, Claims
<1> HIDE DEF pod, pvc, host
<1>3. Backing(pod, CAMount) = {SecretVolume("secret-ca")}
  BY <1>2 DEF Backing, CAMount, Mount, SecretVolume, Volume
<1>4. Backing(pod, RootMount) = {Volume(<<"chiaroot">>, source)}
  BY <1>2 DEF Backing, RootMount, Mount, SecretVolume, Volume
<1>5. \A i \in pvc : Backing(pod, PVCMount(i)) = {PVC(i)}
  BY <1>2 DEF Backing, Mount, SecretVolume, Volume
<1>6. \A i \in host : Backing(pod, HostMount(i)) = {Host(i)}
  BY <1>2 DEF Backing, Mount, SecretVolume, Volume
<1>7. \A m \in pod.chia.mounts : Cardinality(Backing(pod, m)) = 1
  <2>1. \A m \in {CAMount, RootMount} : \E v : Backing(pod, m) = {v}
    BY <1>3, <1>4, Zenon
  <2>2. \A m \in {PVCMount(i) : i \in pvc} : \E v : Backing(pod, m) = {v}
    BY <1>5, Zenon
  <2>3. \A m \in {HostMount(i) : i \in host} : \E v : Backing(pod, m) = {v}
    BY <1>6, Zenon
  <2>4. \A m \in pod.chia.mounts : \E v : Backing(pod, m) = {v}
    BY <1>2, <2>1, <2>2, <2>3, Zenon
  <2>5. QED
    BY <2>4, FS_Singleton, Zenon
<1>8. \A m, n \in pod.chia.mounts : m.path = n.path => m = n
  BY <1>2 DEF CAMount, RootMount, Mount
<1>9. pod.exporter.mounts \subseteq pod.chia.mounts
  BY <1>2, Zenon
<1>10. ValidPod(pod)
  BY <1>7, <1>8, <1>9, Zenon DEF ValidPod, Containers
<1>11. QED
  BY <1>10 DEF pod

(* Whatever the user writes, the assemble functions build a valid pod. *)
LEMMA PodsValid == ASSUME NEW cr, cr.kind \in Kinds PROVE ValidPod(Pod(cr))
<1>1. PICK source : RootVolume(cr) = Volume(<<"chiaroot">>, source)
  BY RootVolumeNamed
<1>2. CASE cr.kind = "ChiaNode"
  BY <1>2, NodePodValid DEF Pod
<1>3. CASE cr.kind = "ChiaFarmer"
  <2>1. ValidPod(FarmerPod(cr))
    BY <1>1, <1>3, KeyPodValid
       DEF FarmerPod, PodWith, FarmerVolumes, FarmerMounts, Exporter
  <2>2. QED
    BY <1>3, <2>1 DEF Pod
<1>4. CASE cr.kind = "ChiaHarvester"
  BY <1>4, HarvesterPodValid DEF Pod
<1>5. CASE cr.kind = "ChiaWallet"
  <2>1. ValidPod(WalletPod(cr))
    BY <1>1, <1>5, KeyPodValid
       DEF WalletPod, PodWith, WalletVolumes, WalletMounts, Exporter
  <2>2. QED
    BY <1>5, <2>1 DEF Pod
<1>6. QED
  BY <1>2, <1>3, <1>4, <1>5 DEF Kinds

(* The API server refuses no workload, but for an edit of its claims. *)
THEOREM WorkloadsAreAccepted == Spec => []WorkloadAccepted
<1>1. TypeOK => WorkloadAccepted
  <2> SUFFICES ASSUME TypeOK, NEW k \in CRs, step[k] = Last(k) + 1,
                      workload[k] # None => Claims(workload[k]) = Claims(copy[k])
               PROVE  Accepted(k, copy[k])
    BY DEF WorkloadAccepted
  <2>1. copy[k] \in Versions[k]
    BY PlanIndex DEF TypeOK
  <2>2. copy[k].kind = k.kind /\ copy[k].name = k.name /\ k.kind \in Kinds
    BY <2>1, VersionOf
  <2>3. Matches(MatchLabels(copy[k]), PodLabels(copy[k]))
    BY <2>2, SelectorSelects
  <2>4. ASSUME workload[k] # None
        PROVE  MatchLabels(workload[k]) = MatchLabels(copy[k])
    <3>1. workload[k].kind = k.kind /\ workload[k].name = k.name
      BY <2>4, VersionOf DEF TypeOK
    <3>2. QED
      BY <2>2, <3>1 DEF MatchLabels, CommonLabels
  <2>5. ValidPod(Pod(copy[k]))
    BY <2>2, PodsValid
  <2>6. QED
    BY <2>3, <2>4, <2>5 DEF Accepted
<1>2. QED
  BY <1>1, TypeCorrect, PTL

-----------------------------------------------------------------------------
(* Ports.  Services and pod of a CR have the same ports by name.           *)

LEMMA ServicesFit ==
  ASSUME NEW k \in CRs, NEW cr \in Versions[k], NEW p \in Versions[k], NEW n \in ServiceNames(k)
  PROVE  /\ DOMAIN Services(cr)[n] \subseteq DOMAIN PodPorts(Pod(p))
         /\ \A port \in DOMAIN Services(p)[n] : Services(p)[n][port] = PodPorts(Pod(p))[port]
<1>1. cr.kind = k.kind /\ p.kind = k.kind /\ k.kind \in Kinds
  BY VersionOf
<1> USE DEF ServicesOf, ExporterPorts, PodPorts, Over, PodWith, Exporter
<1>2. CASE k.kind = "ChiaNode"
  <2>1. ServiceNames(k) = {"node", "node-internal", "node-headless", "node-metrics"}
    BY <1>2, PlanLength DEF ServiceNames, ServicePlan, NodeServicePlan
  <2>2. /\ Services(cr) = NodeServices(cr) /\ Services(p) = NodeServices(p)
        /\ Pod(p) = NodePod(p)
    BY <1>1, <1>2 DEF Services, Pod
  <2>3. QED
    BY <2>1, <2>2 DEF NodeServices, NodePod, NodePorts
<1>3. CASE k.kind = "ChiaFarmer"
  <2>1. ServiceNames(k) = {"farmer", "farmer-metrics"}
    BY <1>3, PlanLength DEF ServiceNames, ServicePlan, FarmerServicePlan
  <2>2. /\ Services(cr) = FarmerServices /\ Services(p) = FarmerServices
        /\ Pod(p) = FarmerPod(p)
    BY <1>1, <1>3 DEF Services, Pod
  <2>3. QED
    BY <2>1, <2>2 DEF FarmerServices, FarmerPod, FarmerPorts
<1>4. CASE k.kind = "ChiaHarvester"
  <2>1. ServiceNames(k) = {"harvester", "harvester-metrics"}
    BY <1>4, PlanLength DEF ServiceNames, ServicePlan, HarvesterServicePlan
  <2>2. /\ Services(cr) = HarvesterServices /\ Services(p) = HarvesterServices
        /\ Pod(p) = HarvesterPod(p)
    BY <1>1, <1>4 DEF Services, Pod
  <2>3. QED
    BY <2>1, <2>2 DEF HarvesterServices, HarvesterPod, HarvesterPorts
<1>5. CASE k.kind = "ChiaWallet"
  <2>1. ServiceNames(k) = {"wallet", "wallet-metrics"}
    BY <1>5, PlanLength DEF ServiceNames, ServicePlan, WalletServicePlan
  <2>2. /\ Services(cr) = WalletServices /\ Services(p) = WalletServices
        /\ Pod(p) = WalletPod(p)
    BY <1>1, <1>5 DEF Services, Pod
  <2>3. QED
    BY <2>1, <2>2 DEF WalletServices, WalletPod, WalletPorts
<1>6. QED
  BY <1>1, <1>2, <1>3, <1>4, <1>5 DEF Kinds

(* The paths a pod is told of are mounted, and it has the ports of its     *)
(* network and of its farmer.                                              *)
LEMMA PodMeetsItself ==
  ASSUME NEW p, p.kind \in Kinds
  PROVE  /\ Pod(p).chia.env.paths \subseteq {m.path : m \in Pod(p).chia.mounts}
         /\ p.kind = "ChiaNode" =>
              (Pod(p).chia.env.testnet <=> Pod(p).chia.ports.peers = testnetNodePort)
         /\ p.kind = "ChiaHarvester" => Pod(p).chia.env.farmer_port = farmerPort
<1> USE DEF PodWith
<1>0. /\ CAMount.path = <<"chia-ca">> /\ RootMount.path = <<"chia-data">>
      /\ KeyMount.path = <<"key">>
  BY DEF CAMount, RootMount, KeyMount, Mount
<1>1. CASE p.kind = "ChiaNode"
  <2>1. Pod(p) = NodePod(p)
    BY <1>1 DEF Pod
  <2>2. /\ Pod(p).chia.env.paths = {<<"chia-data">>, <<"chia-ca">>}
        /\ {CAMount, RootMount} \subseteq Pod(p).chia.mounts
    BY <2>1 DEF NodePod, NodeEnv, NodeMounts
  <2>3. Pod(p).chia.env.testnet <=> Pod(p).chia.ports.peers = testnetNodePort
    <3>1. /\ Pod(p).chia.env.testnet = Testnet(p)
          /\ Pod(p).chia.ports.peers = FullNodePort(p)
      BY <2>1 DEF NodePod, NodeEnv, NodePorts
    <3>2. Testnet(p) <=> FullNodePort(p) = testnetNodePort
      BY DEF FullNodePort, Testnet, testnetNodePort, mainnetNodePort
    <3>3. QED
      BY <3>1, <3>2, Zenon
  <2>4. QED
    BY <1>0, <1>1, <2>2, <2>3, Zenon
<1>2. CASE p.kind = "ChiaFarmer"
  <2>1. Pod(p) = FarmerPod(p)
    BY <1>2 DEF Pod
  <2>2. /\ Pod(p).chia.env.paths = {<<"chia-data">>, <<"chia-ca">>, <<"key">>}
        /\ {CAMount, KeyMount, RootMount} \subseteq Pod(p).chia.mounts
    BY <2>1 DEF FarmerPod, FarmerEnv, FarmerMounts
  <2>3. QED
    BY <1>0, <1>2, <2>2, Zenon
<1>3. CASE p.kind = "ChiaHarvester"
  <2>1. Pod(p) = HarvesterPod(p)
    BY <1>3 DEF Pod
  <2>2. /\ Pod(p).chia.env.paths = {<<"chia-data">>, <<"chia-ca">>}
        /\ {CAMount, RootMount} \subseteq Pod(p).chia.mounts
    BY <2>1 DEF HarvesterPod, HarvesterEnv, HarvesterMounts
  <2>3. Pod(p).chia.env.farmer_port = farmerPort
    BY <2>1 DEF HarvesterPod, HarvesterEnv
  <2>4. QED
    BY <1>0, <1>3, <2>2, <2>3, Zenon
<1>4. CASE p.kind = "ChiaWallet"
  <2>1. Pod(p) = WalletPod(p)
    BY <1>4 DEF Pod
  <2>2. /\ Pod(p).chia.env.paths = {<<"chia-data">>, <<"chia-ca">>, <<"key">>}
        /\ {CAMount, KeyMount, RootMount} \subseteq Pod(p).chia.mounts
    BY <2>1 DEF WalletPod, WalletEnv, WalletMounts
  <2>3. QED
    BY <1>0, <1>4, <2>2, Zenon
<1>5. QED
  BY <1>1, <1>2, <1>3, <1>4 DEF Kinds

(* During every edit, what is joined by names meets. *)
THEOREM EndsAlwaysMeet == Spec => []EndsMeet
<1>1. TypeOK => EndsMeet
  <2> SUFFICES ASSUME TypeOK, NEW p \in pods PROVE
        /\ \A k \in CRs : p \in PodsOf(k) =>
             \A n \in ServiceNames(k) : service[k][n] # None =>
               DOMAIN Services(service[k][n])[n] \subseteq DOMAIN PodPorts(Pod(p))
        /\ Pod(p).chia.env.paths \subseteq {m.path : m \in Pod(p).chia.mounts}
        /\ p.kind = "ChiaNode" =>
             (Pod(p).chia.env.testnet <=> Pod(p).chia.ports.peers = testnetNodePort)
        /\ p.kind = "ChiaHarvester" =>
             \A k \in CRs : k.kind = "ChiaFarmer" /\ service[k]["farmer"] # None =>
               Services(service[k]["farmer"])["farmer"].peers = Pod(p).chia.env.farmer_port
    BY Zenon DEF EndsMeet
  <2>1. PICK j \in CRs : p \in Versions[j]
    BY DEF TypeOK
  <2>2. p.kind = j.kind /\ p.name = j.name /\ p.kind \in Kinds
    BY <2>1, VersionOf
  <2>3. ASSUME NEW k \in CRs, p \in PodsOf(k), NEW n \in ServiceNames(k), service[k][n] # None
        PROVE  DOMAIN Services(service[k][n])[n] \subseteq DOMAIN PodPorts(Pod(p))
    <3>1. k = j
      <4>1. k \in [kind : Kinds, name : STRING] /\ j \in [kind : Kinds, name : STRING]
        BY CRsAssumption
      <4>2. QED
        BY <2>2, <2>3, <4>1 DEF PodsOf
    <3>2. service[k][n] \in Versions[k]
      BY <2>3 DEF TypeOK
    <3>3. QED
      BY <2>1, <2>3, <3>1, <3>2, ServicesFit
  <2>4. ASSUME NEW k \in CRs, k.kind = "ChiaFarmer", service[k]["farmer"] # None
        PROVE  Services(service[k]["farmer"])["farmer"].peers = farmerPort
    <3>1. "farmer" \in ServiceNames(k)
      BY <2>4, PlanLength DEF ServiceNames, ServicePlan, FarmerServicePlan
    <3>2. service[k]["farmer"].kind = "ChiaFarmer"
      BY <2>4, <3>1, VersionOf DEF TypeOK
    <3>3. QED
      BY <3>2 DEF Services, FarmerServices, ServicesOf, FarmerPorts
  <2>5. QED
    BY <2>2, <2>3, <2>4, PodMeetsItself
<1>2. QED
  BY <1>1, TypeCorrect, PTL

-----------------------------------------------------------------------------
(* Nothing is forgotten.                                                   *)

(* What a controller has done for a CR that is in no queue it has done for *)
(* the last spec.                                                          *)
Handled(k) ==
  IF step[k] = 0
    THEN workload[k] = spec[k] /\ \A n \in ServiceNames(k) : service[k][n] = spec[k]
    ELSE /\ copy[k] = spec[k]
         /\ \A i \in 1 .. step[k] - 1 : service[k][ServicePlan[k.kind][i]] = spec[k]

HandledInv == \A k \in CRs : k \notin due => Handled(k)

LEMMA HandledInitially == Init => HandledInv
BY DEF Init, HandledInv, Handled, AllServices

LEMMA HandledStep == TypeOK /\ HandledInv /\ [Next]_vars => HandledInv'
<1> SUFFICES ASSUME TypeOK, HandledInv, [Next]_vars, NEW j \in CRs, j \notin due'
             PROVE  Handled(j)'
  BY DEF HandledInv
<1> USE DEF Handled
<1>0. /\ Last(j) \in Nat /\ step[j] \in 0 .. Last(j) + 1
      /\ j \notin due => Handled(j)
  BY PlanIndex DEF TypeOK, HandledInv
<1>1. ASSUME NEW k \in CRs, Edit(k) PROVE Handled(j)'
  BY <1>0, <1>1 DEF Edit, TypeOK
<1>2. ASSUME NEW k \in CRs, Begin(k) PROVE Handled(j)'
  BY <1>0, <1>2 DEF Begin, TypeOK
<1>3. ASSUME NEW k \in CRs, ApplyService(k) PROVE Handled(j)'
  <2>1. CASE j # k
    BY <1>0, <1>3, <2>1 DEF ApplyService, TypeOK
  <2>2. CASE j = k
    <3>1. copy[k] = spec[k] /\ step[k] \in 1 .. Last(k)
      BY <1>0, <1>3, <2>2 DEF ApplyService
    <3>2. step'[k] = step[k] + 1 /\ copy'[k] = copy[k] /\ spec' = spec
      BY <1>3 DEF ApplyService, TypeOK
    <3>3. service'[k] = [service[k] EXCEPT ![ServicePlan[k.kind][step[k]]] = copy[k]]
      BY <1>3 DEF ApplyService, TypeOK
    <3>4. ASSUME NEW i \in 1 .. step[k] PROVE service'[k][ServicePlan[k.kind][i]] = spec[k]
      <4>1. ServicePlan[k.kind][i] \in DOMAIN service[k]
        BY <3>1, PlanIndex DEF TypeOK
      <4>2. i # step[k] => service[k][ServicePlan[k.kind][i]] = spec[k]
        BY <1>0, <1>3, <2>2, <3>1 DEF ApplyService
      <4>3. QED
        BY <3>1, <3>3, <4>1, <4>2
    <3>5. QED
      BY <2>2, <3>1, <3>2, <3>4
  <2>3. QED
    BY <2>1, <2>2
<1>4. ASSUME NEW k \in CRs, ApplyWorkload(k) PROVE Handled(j)'
  <2>1. CASE j # k
    BY <1>0, <1>4, <2>1 DEF ApplyWorkload, End, TypeOK
  <2>2. CASE j = k
    <3>1. Accepted(k, copy[k]) /\ workload' = [workload EXCEPT ![k] = copy[k]] /\ due' = due
      BY <1>4, <2>2 DEF ApplyWorkload
    <3>2. copy[k] = spec[k] /\ step[k] = Last(k) + 1
      BY <1>0, <1>4, <2>2, <3>1 DEF ApplyWorkload
    <3>3. \A i \in 1 .. Last(k) : service[k][ServicePlan[k.kind][i]] = spec[k]
      BY <1>0, <2>2, <3>1, <3>2
    <3>4. \A n \in ServiceNames(k) : service[k][n] = spec[k]
      BY <3>3, PlanIndex DEF ServiceNames
    <3>5. step'[k] = 0 /\ workload'[k] = spec[k] /\ spec' = spec /\ service' = service
      BY <1>4, <3>1, <3>2 DEF ApplyWorkload, End, TypeOK
    <3>6. QED
      BY <2>2, <3>4, <3>5
  <2>3. QED
    BY <2>1, <2>2
<1>5. ASSUME NEW k \in CRs, Panic(k) PROVE Handled(j)'
  BY <1>5 DEF Panic
<1>6. ASSUME NEW k \in CRs, StartPod(k) \/ StopPod(k) PROVE Handled(j)'
  BY <1>0, <1>6 DEF StartPod, StopPod
<1>7. CASE UNCHANGED vars
  BY <1>0, <1>7 DEF vars
<1>8. QED
  BY <1>1, <1>2, <1>3, <1>4, <1>5, <1>6, <1>7 DEF Next, Reconcile, Rollout

(* A pod carries the labels of its version. *)
LEMMA LabelsInPod == ASSUME NEW cr, cr.kind \in Kinds PROVE Pod(cr).labels = PodLabels(cr)
BY DEF Kinds, Pod, NodePod, FarmerPod, HarvesterPod, WalletPod, PodWith

(* A CR that nobody works on is served.                                    *)
THEOREM RestIsServed == Spec => []ServedAtRest
<1>1. TypeOK /\ HandledInv => ServedAtRest
  <2> SUFFICES ASSUME TypeOK, HandledInv, NEW k \in CRs, AtRest(k)
               PROVE  Served(k)
    BY DEF ServedAtRest
  <2>1. /\ workload[k] = spec[k] /\ spec[k] \in Versions[k]
        /\ \A n \in ServiceNames(k) : service[k][n] = spec[k]
    BY DEF AtRest, HandledInv, Handled, TypeOK
  <2>2. ASSUME NEW n \in ServiceNames(k), NEW port \in DOMAIN Services(spec[k])[n]
        PROVE  Services(spec[k])[n][port] = PodPorts(Pod(spec[k]))[port]
    BY <2>1, <2>2, ServicesFit
  <2>3. PodsOf(k) # {} /\ \A p \in PodsOf(k) : Pod(p) = Pod(spec[k])
    BY <2>1 DEF AtRest, UpToDate
  <2>4. ASSUME NEW p \in PodsOf(k), NEW n \in ServiceNames(k)
        PROVE  Matches(PodLabels(service[k][n]), PodLabels(p))
    <3>1. p.kind \in Kinds /\ spec[k].kind \in Kinds
      BY <2>1, VersionOf DEF PodsOf
    <3>2. PodLabels(p) = PodLabels(spec[k])
      BY <2>3, <3>1, LabelsInPod
    <3>3. QED
      BY <2>1, <3>2 DEF Matches
  <2>5. QED
    BY <2>1, <2>2, <2>3, <2>4, Zenon DEF Served
<1>2. Init /\ [][Next]_vars => []HandledInv
  <2>1. Init /\ [][Next]_vars => []TypeOK
    BY Initially, StepTyped, PTL
  <2>2. QED
    BY <2>1, HandledInitially, HandledStep, PTL
<1>3. QED
  BY <1>1, <1>2, TypeCorrect, PTL DEF Spec
=============================================================================
