---------------------------- MODULE ChiaAssembly ----------------------------
(***************************************************************************)
(* What the assemble functions of the four component controllers build     *)
(* from a custom resource (CR): the Services, and the pod that the         *)
(* Deployment or the StatefulSet runs.  Only what ties these objects to    *)
(* each other is kept: labels and selectors, ports, volumes and mounts.    *)
(*                                                                         *)
(* A CR is a record                                                        *)
(*   kind, name                                                            *)
(*   extra      spec.additionalMetadata.labels                             *)
(*   chiaRoot   the storage.chiaRoot options given, {} for none            *)
(*   sized      whether the resourceRequest of its PVC is a quantity       *)
(*   testnet    spec.chia.testnet: "unset", "true" or "false"              *)
(*   pvcPlots, hostPlots   storage.plots, FALSE for a null entry           *)
(* The node ignores the plots and the others ignore the resourceRequest.   *)
(***************************************************************************)
EXTENDS Naturals, Sequences, FiniteSets

Kinds == {"ChiaNode", "ChiaFarmer", "ChiaHarvester", "ChiaWallet"}

(* The map g with the entries of f put over its own. *)
Over(f, g) ==
  [x \in DOMAIN f \cup DOMAIN g |-> IF x \in DOMAIN f THEN f[x] ELSE g[x]]

-----------------------------------------------------------------------------
(* Labels.  A map of labels is a function. *)

OwnerKey == [ChiaNode      |-> "chianode-owner",
             ChiaFarmer    |-> "chiafarmer-owner",
             ChiaHarvester |-> "ChiaHarvester-owner",
             ChiaWallet    |-> "chiawallet-owner"]

(* A defect of CommonLabels: the owner label is left out. *)
CommonLabelsNoOwner(cr, additions) ==
  [l \in DOMAIN additions \cup {"name", "managedBy", "instance"} |->
     CASE l = "name" -> "chia"
       [] l = "managedBy" -> "chia-operator"
       [] l = "instance" -> cr.name
       [] OTHER -> additions[l]]

CommonLabels(cr, additions) ==
  [l \in DOMAIN additions \cup {"name", "managedBy", "instance", OwnerKey[cr.kind]} |->
     CASE l = "name" -> "chia"
       [] l = "managedBy" -> "chia-operator"
       [] l \in {"instance", OwnerKey[cr.kind]} -> cr.name
       [] OTHER -> additions[l]]

NoLabels == << >>

Matches(selector, labels) ==
  \A l \in DOMAIN selector : l \in DOMAIN labels /\ labels[l] = selector[l]

(* The selector of every Service, and the labels of the pod. *)
PodLabels(cr) == CommonLabels(cr, cr.extra)

(* A defect of MatchLabels: the labels of the user are in the selector. *)
MatchLabelsWithExtra(cr) == CommonLabels(cr, cr.extra)

(* The selector of the Deployment or StatefulSet. *)
MatchLabels(cr) == CommonLabels(cr, NoLabels)

-----------------------------------------------------------------------------
(* Ports, by name.  A Service targets the port of the pod by its name. *)

daemonPort == 55400
chiaExporterPort == 9914
mainnetNodePort == 8444
testnetNodePort == 58444
farmerPort == 8447

(* A defect of FullNodePort: testnet is taken to be set when it is given. *)
FullNodePortIfGiven(cr) ==
  IF cr.testnet # "unset" THEN testnetNodePort ELSE mainnetNodePort

FullNodePort(cr) == IF cr.testnet = "true" THEN testnetNodePort ELSE mainnetNodePort

NodePorts(cr) == [daemon |-> daemonPort, peers |-> FullNodePort(cr), rpc |-> 8555]
FarmerPorts == [daemon |-> daemonPort, peers |-> farmerPort, rpc |-> 8559]
HarvesterPorts == [daemon |-> daemonPort, peers |-> 8448, rpc |-> 8560]
WalletPorts == [daemon |-> daemonPort, peers |-> 8449, rpc |-> 9256]
ExporterPorts == [metrics |-> chiaExporterPort]

-----------------------------------------------------------------------------
(* Services: from the name, less the name of the CR, to the ports.         *)

ServicesOf(names, ports, metrics) ==
  [n \in names \cup {metrics} |-> IF n = metrics THEN ExporterPorts ELSE ports]

NodeServices(cr) ==
  ServicesOf({"node", "node-internal", "node-headless"}, NodePorts(cr), "node-metrics")
FarmerServices == ServicesOf({"farmer"}, FarmerPorts, "farmer-metrics")
HarvesterServices == ServicesOf({"harvester"}, HarvesterPorts, "harvester-metrics")
WalletServices == ServicesOf({"wallet"}, WalletPorts, "wallet-metrics")

Services(cr) ==
  CASE cr.kind = "ChiaNode" -> NodeServices(cr)
    [] cr.kind = "ChiaFarmer" -> FarmerServices
    [] cr.kind = "ChiaHarvester" -> HarvesterServices
    [] cr.kind = "ChiaWallet" -> WalletServices

(* The order in which Reconcile writes the Services.  The workload comes   *)
(* after them.                                                             *)
NodeServicePlan == <<"node", "node-internal", "node-headless", "node-metrics">>
FarmerServicePlan == <<"farmer", "farmer-metrics">>
HarvesterServicePlan == <<"harvester", "harvester-metrics">>
WalletServicePlan == <<"wallet", "wallet-metrics">>

ServicePlan ==
  [ChiaNode |-> NodeServicePlan, ChiaFarmer |-> FarmerServicePlan,
   ChiaHarvester |-> HarvesterServicePlan, ChiaWallet |-> WalletServicePlan]

-----------------------------------------------------------------------------
(* Volumes.  A volume is its name and its source; the names are sequences, *)
(* <<"pvc-plots", 2>> for pvc-plots-2.                                     *)

Volume(name, source) == [name |-> name, source |-> source]
Mount(name, path) == [name |-> name, path |-> path]

SecretVolume(name) == Volume(<<name>>, <<"secret", name>>)
HostPathRoot == Volume(<<"chiaroot">>, <<"hostPath", "chiaRoot.hostPathVolume.path">>)
EmptyDirRoot == Volume(<<"chiaroot">>, <<"emptyDir">>)

(* A claim with the path of the hostPath volume for its name. *)
ClaimOfPath == <<"claim", "chiaRoot.hostPathVolume.path">>

(* A defect of NodeVolumes: no emptyDir to fall back to. *)
NodeVolumesNoFallback(cr) ==
  {SecretVolume("secret-ca")}
    \cup (IF cr.chiaRoot = {"hostPath"} THEN {HostPathRoot} ELSE {})

NodeVolumes(cr) ==
  {SecretVolume("secret-ca")}
    \cup (CASE "pvc" \in cr.chiaRoot -> {}
            [] cr.chiaRoot = {"hostPath"} -> {HostPathRoot}
            [] OTHER -> {EmptyDirRoot})

(* The volumeClaimTemplates of the StatefulSet. *)
Claims(cr) ==
  IF cr.kind = "ChiaNode" /\ "pvc" \in cr.chiaRoot
    THEN {[name |-> <<"chiaroot">>, storageClass |-> cr.storageClass,
           request |-> cr.resourceRequest]}
    ELSE {}

(* CHIA_ROOT of the other kinds. *)
RootVolume(cr) ==
  CASE "pvc" \in cr.chiaRoot -> Volume(<<"chiaroot">>, ClaimOfPath)
    [] cr.chiaRoot = {"hostPath"} -> HostPathRoot
    [] OTHER -> EmptyDirRoot

FarmerVolumes(cr) == {SecretVolume("secret-ca"), SecretVolume("key"), RootVolume(cr)}
WalletVolumes(cr) == {SecretVolume("secret-ca"), SecretVolume("key"), RootVolume(cr)}

(* The entries of a list of plots that are not null. *)
Given(plots) == {i \in DOMAIN plots : plots[i]}

HarvesterVolumes(cr) ==
  {SecretVolume("secret-ca"), RootVolume(cr)}
    \cup {Volume(<<"pvc-plots", i>>, <<"claim", i>>) : i \in Given(cr.pvcPlots)}
    \cup {Volume(<<"hostpath-plots", i>>, <<"hostPath", i>>) : i \in Given(cr.hostPlots)}

(* The assemble functions dereference a nil HostPathVolume, or parse a     *)
(* resourceRequest that was left out and is no quantity.                   *)
Panics(cr) ==
  /\ "pvc" \in cr.chiaRoot
  /\ IF cr.kind = "ChiaNode" THEN cr.resourceRequest = "" ELSE "hostPath" \notin cr.chiaRoot

CAMount == Mount(<<"secret-ca">>, <<"chia-ca">>)
RootMount == Mount(<<"chiaroot">>, <<"chia-data">>)
KeyMount == Mount(<<"key">>, <<"key">>)

NodeMounts == {CAMount, RootMount}
FarmerMounts == {CAMount, KeyMount, RootMount}
WalletMounts == {CAMount, KeyMount, RootMount}

HarvesterMounts(cr) ==
  {CAMount, RootMount}
    \cup {Mount(<<"pvc-plots", i>>, <<"plots", "pvc-plots", i>>) : i \in Given(cr.pvcPlots)}
    \cup {Mount(<<"hostpath-plots", i>>, <<"plots", "hostpath-plots", i>>) :
            i \in Given(cr.hostPlots)}

-----------------------------------------------------------------------------
(* The environment of the chia container: the paths it is told to use, the *)
(* network, and the port of the farmer.                                    *)

Testnet(cr) == cr.testnet = "true"

NodeEnv(cr) ==
  [paths |-> {<<"chia-data">>, <<"chia-ca">>}, testnet |-> Testnet(cr)]
FarmerEnv(cr) ==
  [paths |-> {<<"chia-data">>, <<"chia-ca">>, <<"key">>}, testnet |-> Testnet(cr)]
WalletEnv(cr) ==
  [paths |-> {<<"chia-data">>, <<"chia-ca">>, <<"key">>}, testnet |-> Testnet(cr)]
HarvesterEnv(cr) ==
  [paths |-> {<<"chia-data">>, <<"chia-ca">>} , testnet |-> Testnet(cr),
   farmer_port |-> farmerPort]

(* The chia-exporter container. *)
Exporter ==
  [ports |-> ExporterPorts, mounts |-> {RootMount}, env |-> [paths |-> {<<"chia-data">>}]]

PodWith(cr, ports, mounts, env, volumes) ==
  [labels |-> PodLabels(cr), volumes |-> volumes, claims |-> Claims(cr),
   chia |-> [ports |-> ports, mounts |-> mounts, env |-> env],
   exporter |-> Exporter]

NodePod(cr) == PodWith(cr, NodePorts(cr), NodeMounts, NodeEnv(cr), NodeVolumes(cr))
FarmerPod(cr) == PodWith(cr, FarmerPorts, FarmerMounts, FarmerEnv(cr), FarmerVolumes(cr))
HarvesterPod(cr) ==
  PodWith(cr, HarvesterPorts, HarvesterMounts(cr), HarvesterEnv(cr), HarvesterVolumes(cr))
WalletPod(cr) == PodWith(cr, WalletPorts, WalletMounts, WalletEnv(cr), WalletVolumes(cr))

Pod(cr) ==
  CASE cr.kind = "ChiaNode" -> NodePod(cr)
    [] cr.kind = "ChiaFarmer" -> FarmerPod(cr)
    [] cr.kind = "ChiaHarvester" -> HarvesterPod(cr)
    [] cr.kind = "ChiaWallet" -> WalletPod(cr)
=============================================================================
