# TLA+ specifications of chia-operator

The operator turns five kinds of custom resources (CRs) into the Kubernetes
objects that run a Chia farm. This directory holds TLA+ models of its
controllers, TLC configurations that check them on small instances, and proofs
checked by TLAPS that hold for every instance. `PROJECT.json` lists the runs, the
source lines behind each definition, the hazards and the findings.

    tlc -config component_converge.cfg MCComponent
    tlapm ChiaComponentProofs.tla

## The system

| component | state | operations | talks to |
|---|---|---|---|
| ChiaNode controller `chianode_controller.go` | none of its own: a copy of the CR during one Reconcile | 4 Services, StatefulSet, status | API server, caches, work queue |
| ChiaFarmer, ChiaHarvester, ChiaWallet controllers | the same | 2 Services, Deployment, status | the same |
| ChiaCA controller `chiaca_controller.go` | the copy, and the iteration of its wait loop | ServiceAccount, Role, RoleBinding, query of the Secret, Job, wait, status | the same, and the generator through the Job and the Secret |
| shared helpers `common_controller.go` | none | reconcile of one object, common labels, exporter container | all controllers |
| CA generator `chiaca-generator/` | none | makes certificates, `kubectl create secret` | API server, with the rights the ChiaCA controller gave it |
| manager `cmd/main.go` | work queues, informer caches | starts the controllers, leader election (off unless `-leader-elect` is given, as `config/manager/manager.yaml` does) | everything above runs in this one process |
| API types `api/v1` | | fields, defaults, the promise of `Ready` | |
| manifests `config/`, generated code, tests | | declarations | |

The controllers never call each other. They share the API server, where users,
the garbage collector, the Job, Deployment and StatefulSet controllers and the
operator all write; the process; and the conventions that join their objects
(labels, port names and numbers, the Secret of the CA). Every Reconcile has one
shape: read the CR from a cache, write the children in a fixed order, return at
the first error (the queue then tries again), set `Status.Ready` at the end.

What is hard, and what must hold:

* **Component controllers.** Caches lag, writes meet conflicts, replies get lost,
  the process crashes between any two calls, a name is used again while the
  garbage of its last owner is being collected, and only events of CRs (not of
  children) start a Reconcile. Ready must be earned; work must not get lost;
  the children must converge to the last spec; a refused CR must not hold up others.
* **ChiaCA.** A bounded wait holds the only worker; the Job is immutable and its
  name fixed; pods are retried. The pods must have their rights, certificates in
  use must never be replaced, and Ready must mean there is a Secret.
* **Assembly.** Services, workload and pods stem from different versions of the
  spec during an edit and are joined by labels and names. Services must find
  their own pods only, the API server must take what is built, mounts must be
  backed, ports must agree.
* **Manager.** A panic in one controller stops all; the pod of the operator is
  replaced, and two processes may overlap. With leader election no child may go
  back to an older spec; without it, the last spec must still win in the end.
* **Farm.** Components and the ChiaCA know of each other only by the name of a
  Secret. All that name the same one must run with the same certificates,
  whenever they start, and none may wait for ever.

The hazards with their lines, and the property that covers each, are in
`PROJECT.json`.

## Modules

| module | models |
|---|---|
| `ChiaComponent` | Reconcile of the four component controllers in its environment. `Plan` is the list of children. |
| `MCComponent` | values: `FarmerPlan` (also harvester and wallet), `NodePlan`, specs the API server may refuse |
| `ChiaDesired` | abstract: what a component controller promises, with no cache, queue, retry or crash; `ChiaComponent` implements it |
| `ChiaComponentProofs` | types and `ReadyAfterApplied` of `ChiaComponent` |
| `ChiaRefinementProofs` | `ChiaComponent` implements `ChiaDesired` |
| `ChiaWorkProofs` | `NoLostWork` of `ChiaComponent` |
| `ChiaCA` | Reconcile of the ChiaCA controller, the Job and the generator's pods |
| `MCCA` | symmetry of the Secrets |
| `ChiaCAProofs` | theorems about `ChiaCA` |
| `ChiaFarm` | composition: `ChiaCA`, and components whose pods mount the Secret |
| `MCFarm` | two components that name the same Secret |
| `ChiaFarmProofs` | types and `OneCA` of `ChiaFarm` |
| `ChiaManager` | the operator as processes: a worker per kind, leader election, replacement, crashes and panics |
| `MCManager` | CRs and kinds for `ChiaManager` |
| `ChiaManagerProofs` | types, `NoRollback` and `LeaderLosesNoWork` of `ChiaManager` |
| `ChiaAssembly` | what the assemble functions of the four kinds build, as operators |
| `ChiaRollout` | the objects of `ChiaAssembly` in one namespace while specs are edited |
| `MCRollout` | CRs and specs for `ChiaRollout` |
| `ChiaRolloutProofs` | all invariants of `ChiaRollout` |

Operators whose comment says *a defect of X* are not part of a specification: each
is a plausible bug in X, and the property it is listed with in `PROJECT.json` is
violated when it takes the place of X.

### ChiaComponent

`cr` and `child` are the API server; an object is its uid or owner uid, the
generation of the spec it stands for, and whether it is terminating. `crCache` and
`childCache` are past values of them, and `current` says which cached children
have the latest resourceVersion. `queue`, `pc`, `key`, `copy`, `step` are the work
queue and the one worker. `applied` is history: what was written, or found in
place, for which uid.

* `GetCR`, `Apply` (one child, with its outcomes `ApplyWrite`, `ApplyInSync`,
  `ApplyBackOff`, `ApplyError`) and `UpdateStatus` are the steps of Reconcile.
  Each step is one API call, so other actors come in between any two.
* The library's ReconcileResource reads the cached child and compares it. A create is
  refused if the object exists, an update if the copy is old. If the child is being
  deleted the library writes nothing and asks to be called later, *without an error*;
  the code looks at the answer only on an error (`ApplyBackOff`).
* `Fault` is any call that fails, or whose reply is lost. `Crash` loses the worker,
  queue and caches; `Restart` lists afresh. The model takes the list to be up to date.
* `CreateCR`, `EditCR`, `DeleteCR`, `MeddleWithChild`, `GarbageCollect`, `Finalize`,
  the watches and `Resync` are the users and Kubernetes. A child is deleted at once,
  or first marked terminating if it is in `Finalizers`.

`ChiaDesired` sees, for each name, the uid, generation and Ready the users see (`want`),
the version each child stands for (`have`) and what was ever made for which uid
(`made`). A child only *advances* to a version that was asked for and is no older than
its own, is *lost* (users, garbage collector), or *drifts* (a user's change);
Ready is *declared* for the present incarnation once all its children were made. The
refinement mapping is the instance at the end of `ChiaComponent`: `made` is
`applied`, the rest are fields of `cr` and `child`. What `ChiaDesired` forbids, and
caches, adoption and retries could bring about, is a rollback of a child, and Ready on an
incarnation whose children were never made.

### ChiaCA

`ca`, `rbac`, `job`, `material` are the API server. `material[s]` numbers the
certificates in Secret `s`, and `made[s]` counts how often some were stored there,
so that a replacement shows; users may delete, make or replace a Secret by hand. The ServiceAccount, Role and RoleBinding depend on a
ChiaCA only by name and uid, so each is the uid of its owner. The pods of the Job
store certificates, are refused (the Secret exists, or the rights are missing) or
are lost, also after they stored them; `BackoffLimit` failures end the Job. The wait
loop is `PollSecret`, `MaxPolls` iterations for the 100 of the code. A Job is created, found as
desired, or in the way: the desired Job has neither the selector nor the labels that the API
server has generated, and both are immutable, so no update is ever accepted, even of the owner alone
(`JobRefused`). RBAC objects are
read and written in one step (a stale read only makes the write fail, as `Fault`
does), and deletions are immediate.

### ChiaFarm

Extends `ChiaCA` with the pods of the components: `Trusts` is `caSecretName` of each,
`loaded` the certificates its container started with. A container starts when the
kubelet can mount the volume `secret-ca` and ends at any moment. That Chia takes the
certificates when it starts is external. `meddled` is history: the Secrets
users emptied or filled anew by hand, the one way in which members may end up with different certificates.

### ChiaManager

The Reconcile of `ChiaComponent` once more, for many processes and kinds and
with less of the rest: CRs stay, children are numbers (the generation they were
assembled from), and a workload has a `fate`: the API server takes it, refuses it, or
its assembly panics (`resource.MustParse`, or a nil option). `worker` has one entry
per process and kind, as each controller has one worker.

* `StartProcess` is `main` up to the manager; `StartControllers` needs the lease if
  `elect`, and lists the CRs and children afresh. `LeaderElectionReleaseOnCancel` is not
  set: the lease is held until the process has ended (`LeaseFree`).
* `AddPod` and `RemovePod` are a rolling update of the operator's Deployment of one
  replica: the new pod first. Standing by for the lease counts as ready, since
  `readyz` is a ping. A process that is told to stop may go on with calls on their
  way (`stopping`) until `EndProcess`.
* `Panic` and `Crash` end the process and what it had in memory.

Two assumptions: the list an informer starts with is up to date, and a
leader that cannot renew its lease has stopped before the lease is free. Writes
carry no fencing token, so a leader that is frozen for longer than the lease could write
afterwards; that is left out.

### ChiaAssembly and ChiaRollout

`ChiaAssembly` keeps of each object what ties it to others or what cannot be changed: labels and
selectors, ports by name, volumes, mounts, claim templates with their size and storage class, the environment variables that hold
paths, network or port. `Panics` is where the code dereferences nil or parses a bad
quantity. A user may set any extra labels. The code overrides those that it sets itself,
but reserves no owner label of another kind: with one, a user can make the pods of a wallet
answer for the farmer of the same name. `PodsKeptApart` says that this is
the only way (`PosesAs`), and `rollout` has a wallet that does it. The operators are
free of recursion and of `@@`, which the provers do not know (`Over` is the same), so that
theorems can be stated about them.

`ChiaRollout` keeps, for every object, the version of the CR it was assembled from.
A controller writes the Services one by one, then the workload; the API server
checks the pod template and what is immutable (`Accepted`, external); a Deployment
starts the new pod before it stops the old one, a StatefulSet stops it first. A pod that asks for
a claim that is not there stays pending (`ClaimsFound`). The namespace is taken to have every claim
the users name as a claim, and none with the name of a path on a host, which is what the
Deployments ask for when CHIA_ROOT has a claim (`ClaimOfPath`): then the old pod stays for good, and
`EveryoneServed` says so in an exception of its own (`ClaimRespected` is about the same line). The other
exceptions are an edit of a StatefulSet's claims and a spec that panics. A
panic resets every controller. One replica, the default.

## Runs

| run | shows | bounds |
|---|---|---|
| `component_converge` | `ReadyAfterApplied`, `NoLostWork`, `Convergence`, `ImplementsDesired` | 1 CR, 3 children, 3 user writes (create, delete, create again; or edits), 1 fault, 1 crash |
| `component_drift` | `Convergence` with drift, terminating children and specs that are refused, resync on | 2 user writes, 1 meddling, 1 crash |
| `component_terminating` | *violated:* Ready while the old StatefulSet terminates | 5 children, 3 user writes |
| `manager_overlap` | `NoRollback` and `LeaderLosesNoWork` with leader election, `Convergence` with and without | 2 processes, 1 CR with 1 child, 1 edit, 2 replacements, 1 crash |
| `manager_isolation` | `Convergence` and `LeaderLosesNoWork` beside CRs that are refused or panic | 3 CRs of 2 kinds in 1 process, all fates, 1 edit |
| `ca_core` | `JobHasRBAC`, `CAMaterialStable`, `ReadyRaisedOnSecret` | 1 ChiaCA, 2 Secrets, 1 poll, a Job of one pod, 3 user writes, 1 meddling, pod failure, fault and crash each, resync |
| `farm` | `OneCA`, `EveryoneStarts` | 2 ChiaCAs, 2 Secrets, 2 members, 2 polls, a Job of one pod, 2 user writes, 1 pod failure, no meddling |
| `ca_secret_edited` | *violated:* an edit of `spec.secret` never takes effect | 2 user writes |
| `ca_ready_lost` | *violated:* a crash in the wait and Ready is never set | 1 user write, 1 crash |
| `ca_secret_deleted` | *violated:* Ready stays, the deleted Secret is never made again | 1 user write, 1 meddling |
| `rollout` | `PodsKeptApart`, `WorkloadAccepted`, `EndsMeet`, `ServedAtRest`, `EveryoneServed` | 5 CRs of 4 kinds, 1 edit, a panicking spec and a posing one among them |
| `rollout_claim` | *violated:* a PVC for CHIA_ROOT is named after the host path | 2 farmers, 1 edit |

Why the bounds are enough: the worker handles one key at a time and the keys meet
only in the queue, so one CR shows every interleaving of a CR with its environment
and two show what a CR can do to another. Three writes allow the longest story of
one name (create, delete, create again). One fault and one crash at any point cover
all points, as the state after a retry or a restart is one a fresh start can reach.
Three children give a first, a middle and a last one. Two iterations
of the wait loop are one that goes on and a last one; with one, as in `ca_core`, the wait
still lasts for any number of steps of the others. A Job of one pod is given up at its first
failure (a deletion of the Job makes another); that a pod that is run again within its Job replaces
nothing is left to the theorem `MaterialIsStable`, which has no bound. Two processes are the most a
rolling update of one replica makes, and the second replacement makes the first
process lead again. What happens between two children of one CR is in the theorems about `ChiaManager` and in `ChiaComponent`. `manager_isolation` has a neighbour of the same kind (the same worker)
and one of another (the same process); one edit lets any of them stop, or begin, to panic. In `rollout` the node starts with a claim, so that its size and
labels can be edited or its size left out, the harvester can be given both options for CHIA_ROOT, and the wallet poses. In
`farm` the members name one Secret and the ChiaCAs may name it or the other, so that one
ChiaCA can be stuck on the other Secret while the members wait for theirs. Deadlock is not
checked where the system may stop for good: nothing happens once users are done and no
resync is due.

Fairness. Weak fairness on the informers, the garbage collector, finalizers, pods,
each step of Reconcile, and restarts (the operator is a Deployment, replicas 1 in
`config/manager/manager.yaml`). Strong fairness for `Start` of each key: the
queue is first in, first out, and a key put back after an error waits at most
the maximum backoff. Users, faults, crashes and lost pods are not fair. `Resync`
is fair where the configuration has it (controller-runtime's default period of ten
hours); the properties that matter most are checked with it off. In `ChiaManager` it is
fair only without leader election, and needed there: when two processes write, the
one that is ending can roll a child back after the other has brought it up to date, and no event of a
CR follows. With a lease, events are enough. The kubelet starts a process again and ends
one that was told to stop; a free lease is taken by one who waits for it.
`EveryoneServed` is asked of an instance with all kinds, `EveryoneStarts` says *again and
again*, as containers may end at any moment.

## What the violations mean

1. **Ready with no StatefulSet** (`component_terminating`). Results without an error are
   dropped in every controller, so a child that is still being deleted is skipped,
   Ready is set, and nothing asks for another Reconcile.
2. **Ready lost, or kept** (`ca_ready_lost`, `ca_secret_deleted`). ChiaCA sets Ready only in the
   Reconcile that found the Secret missing, so it is lost with a crash, and is never set either on a
   Secret that was there first; nothing sets it back, nor runs the finished Job again, when the
   Secret is deleted.
3. **Edited Secret name** (`ca_secret_edited`). The Job is immutable; the new
   Secret is never made and every retry fails.
4. **PVC for CHIA_ROOT** (`rollout_claim`). Farmer, wallet and harvester read the claim's name
   from the other option: with both given the pod waits for a claim that is not there, with the PVC
   alone they panic.

Two more can be read off single lines, and no run asks for them. A node's StatefulSet names the
governing Service `<name>-headless` (`chianode_controller.go:324`), which is called
`<name>-node-headless` (line 213). And the size of a node's claim, optional in the API
(`chiacommon_types.go:106`), is parsed with `MustParse` (line 412), so that leaving it out stops the
operator each time; `Panics` has it, and `EveryoneServed` excepts it.

## Proofs

For every value of the constants that satisfies the named assumptions (a key that
is no CR, a plan without repetition, bounds that are naturals; in `ChiaRollout`, that CRs
have one of the four kinds and a name, that the first spec of a kind is one of its options, and nothing
about what is in a spec). Every invariant and action property of a
passing run is proved, three of them under a condition that is named.

* `TypeCorrect` in the proof modules, and `ChiaFarmProofs!FarmTypeCorrect`: the type invariants.
* `ChiaComponentProofs!ReadyIsEarned`: `ReadyAfterApplied`, assuming `Finalizers = {}`;
  `component_terminating` shows it is false without. `ReadyAfterApplied` is not inductive:
  `UpdateStatus` needs to know what the worker did before. `AppliedInv` adds that
  while the worker is at child `step`, all before it are in `applied` for the uid of
  its copy, and at the status all are; and that no child, in the API server or the cache, is
  terminating, so that `ApplyBackOff` cannot happen. `applied` only grows and a status update
  needs a CR equal to the copy, so what the others do disturbs none of this.
* `ChiaCAProofs!ReadyIsEarned`: `ReadyRaisedOnSecret`, from an invariant that ties what
  the caches saw to what was made (`SeenInv`): a Secret in `secretSeen` has been there,
  and the worker reaches the status only after it saw its own.
* `ChiaCAProofs!JobIsAuthorized`: `JobHasRBAC`, by `JobInv`: uids in use are below
  `nextUid` (`UidInv`); as long as the worker's copy is of the living ChiaCA, the RBAC
  objects before `step` carry its uid (`RBACSoFar`); once a Job of the living ChiaCA
  exists, no older copy of that ChiaCA is left in the cache or the worker (`NoOldCopy`),
  so nobody gives the RBAC objects another owner. The garbage collector takes only what
  has another uid.

* `ChiaCAProofs!MaterialIsStable`: `CAMaterialStable`. Only pods and users write certificates,
  and a pod finds the Secret empty (`MaterialKept`); so what is there changes by a user's hand only.
* `ChiaFarmProofs!FarmHasOneCA`: `OneCA`, by `RunsWithSecret`: what a member loaded is
  what its Secret holds, unless a user has deleted or replaced it. Rests on `MaterialKept`.
* `ChiaRefinementProofs!Implements`: `Safety => ImplementsDesired`, assuming
  `Finalizers = {}` (with finalizers Ready is declared for children never made, as
  `component_terminating` shows). It rests on `VersionInv`: ordered by uid and
  generation, the versions of a CR in the children, the worker's copy, the informer and the API server are
  in that order (`OrderInv`); uids and generations are those handed out (`KnownInv`); a
  child that exists was made by the worker (`MadeInv`). One lemma per variable
  (`ChildEffects`, `CREffects`, ...) says what any step can do to it; then each step of
  `ChiaComponent` is mapped to `Ask`, `Advance`, `Lose`, `Drift`, `Declare` or a stutter.
* `ChiaWorkProofs!WorkIsNeverLost`: `NoLostWork`, assuming `Finalizers = {}` and
  `MaxMeddles = 0`; users who change children can undo work that nobody looks at again
  (`component_drift` needs the resync). Beside `VersionInv`: what the informer of the children
  has of the present CR is there, or newer (`CacheInv`), so that a child found in place is in place, and
  what the worker did for the present CR stays done (`InPlaceInv`).
* `ChiaManagerProofs!TypeCorrect`, and `ChiaManagerProofs!LeaderNeverRollsBack`: `NoRollback`.
  `LeaderInv`: with leader election at most one process runs controllers (`OneLeader`),
  the children are no newer than its cached CR, nor that than the API server's (`AskedInv`), and
  a worker's copy is between the children and the cached CR (`HandInv`). Two workers never have the same CR,
  as a kind has one worker. The write of a child is then never one of an older spec.

* `ChiaManagerProofs!LeaderForgetsNothing`: `LeaderLosesNoWork`, the safety half of
  `Convergence`. The worker forgets a CR only after it raised Ready, so it must be known then
  that the children are of its copy: `DoneInv`, while the copy is of the last spec, the
  children before `step` are. It needs `SeenInv`, the leader's informers have nothing of a child that is
  newer than the child, for a child found in place to be in place; and `LeaderInv`, as another
  process could otherwise undo what was done. A new leader lists everything and queues all CRs. Without leader
  election the statement is false, as `Convergence` needs the resync there.

`ChiaRolloutProofs` first settles what the assemble functions build, for any spec:

* `SelectorSelects`, `ServiceSelects`: the selector of a workload selects exactly the pods of the
  CR and those that pose as it, whatever labels the users add to either; that of a Service no others.
  `PodsAreKeptApart` follows, since every object stems from *some* version of its CR.
* `PodsValid`: in the pod of every kind each mount names a volume, each volume has one
  definition, and no two mounts share a path, although volumes and mounts come from separate loops
  over lists with null entries. `WorkloadsAreAccepted` follows: only the claims of a
  StatefulSet can make the API server refuse.
* `ServicesFit`, `PodMeetsItself`: by name, the ports of a Service of any version are ports of a pod
  of any version, and of the same version also by number; what a pod is told in its environment
  is mounted and open in it. `EndsAlwaysMeet` follows, for any mixture of versions.
* `RestIsServed`: `ServedAtRest`. Its inductive form is `HandledInv`: a CR that is not
  queued is in the hand of its controller with the last spec, and the Services before `step` are of it,
  or it is done. An edit queues the CR whatever the controller is doing, and a refused write or
  a panic queues it again.

Model-checked only: liveness (`Convergence`, `EveryoneStarts`, `EveryoneServed`), which
is out of the prover's reach. The violated properties of the runs that expect it are shown by
their counterexamples.

## Not modelled

Fields copied from the spec unchanged (images, probes, resources, security
contexts, node selector, annotations, time zone, log level, labels of
objects other than pods, the type of a Service); what Chia does in the pods; metrics, health
checks and logging; the manifests under `config/`, whose rights are taken to be
sufficient; generated code. A leader that stands still for longer than its lease and then
goes on writing (see `ChiaManager`). That informers start from a list that is behind the API server. The ChiaCA
worker is not in `ChiaManager`: it shares only the process with the others, and `ChiaCA` has
the crash that a panic of another controller is to it.

## Plan

Done, in this order: `ChiaComponent` with its proofs, `ChiaCA` with its proofs,
`ChiaAssembly` and `ChiaRollout`, `ChiaDesired` and the refinement, `NoLostWork`,
`ChiaManager` with its proofs, `ChiaFarm` with its proof, the lemmas about `ChiaAssembly` and
the invariants of `ChiaRollout`, `LeaderLosesNoWork`. Next:

1. `ChiaDesired` implemented by `ChiaManager` under leader election, so that what a component
   controller promises is one specification for both (`LeaderNeverRollsBack` is the main step).
2. `ChiaCA`: the safety half of *the Secret is made*: a ChiaCA whose Job was never made, and whose Secret
   is not there, is queued, in hand or an event to come.
3. What `EveryoneStarts` says for a ChiaCA that nobody edits, as an invariant of the Job: one
   that is not failed, or has its Secret, has a pod to come.
