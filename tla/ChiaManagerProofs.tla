------------------------- MODULE ChiaManagerProofs -------------------------
(***************************************************************************)
(* Proofs about ChiaManager: its types, and that under leader election no  *)
(* child goes back to an older spec, whatever the processes do.            *)
(***************************************************************************)
EXTENDS ChiaManager, TLAPS

LEMMA PartsIndex ==
  /\ DOMAIN Parts = 1 .. Len(Parts) /\ Len(Parts) \in Nat
  /\ \A i \in 1 .. Len(Parts) : Parts[i] \in Part
BY PartsAssumption DEF Part

LEMMA Constants ==
  /\ NoCR \in CRType /\ Idle \in WorkerType /\ Idle.key = NoKey /\ Idle.step = 0
  /\ NoCRs \in [CRs -> CRType] /\ NoChildren \in [CRs -> [Part -> Nat]]
  /\ IdleWorkers \in [Kinds -> WorkerType]
  /\ \A kind \in Kinds : IdleWorkers[kind] = Idle
<1>1. NoCR \in CRType
  BY KindAssumption DEF NoCR, CRType
<1>2. Idle \in WorkerType
  BY <1>1, PartsIndex DEF Idle, WorkerType
<1>3. QED
  BY <1>1, <1>2 DEF Idle, NoCRs, NoChildren, IdleWorkers

(* A worker is on a child or on the status exactly if it has a key. *)
Matched(w) == (w.key = NoKey) <=> (w.step = 0)

(* What TypeOK says of the informers, the queues and the workers. *)
MemoryTyped ==
  /\ crCache \in [Procs -> [CRs -> CRType]]
  /\ childCache \in [Procs -> [CRs -> [Part -> Nat]]]
  /\ current \in [Procs -> SUBSET (CRs \X Part)]
  /\ queue \in [Procs -> SUBSET CRs]
  /\ worker \in [Procs -> [Kinds -> WorkerType]]
  /\ \A p \in Procs, kind \in Kinds : Matched(worker[p][kind])

ApiTyped == cr \in [CRs -> CRType] /\ have \in [CRs -> [Part -> Nat]]

ProcTyped ==
  /\ elect \in BOOLEAN /\ pods \in SUBSET Procs
  /\ run \in [Procs -> {"down", "standby", "active", "stopping"}]
  /\ edits \in Nat /\ replacements \in Nat /\ crashes \in Nat

LEMMA TypeParts == TypeOK <=> ApiTyped /\ ProcTyped /\ MemoryTyped
BY DEF TypeOK, ApiTyped, ProcTyped, MemoryTyped, Matched

LEMMA ForgetTyped ==
  ASSUME TypeOK, NEW p \in Procs, Forget(p)
  PROVE  MemoryTyped' /\ run' \in [Procs -> {"down", "standby", "active", "stopping"}]
<1>1. MemoryTyped /\ ProcTyped
  BY TypeParts
<1>2. /\ crCache' \in [Procs -> [CRs -> CRType]]
      /\ childCache' \in [Procs -> [CRs -> [Part -> Nat]]]
      /\ current' \in [Procs -> SUBSET (CRs \X Part)]
      /\ queue' \in [Procs -> SUBSET CRs]
      /\ worker' \in [Procs -> [Kinds -> WorkerType]]
      /\ run' \in [Procs -> {"down", "standby", "active", "stopping"}]
  BY <1>1, Constants DEF Forget, MemoryTyped, ProcTyped
<1>3. ASSUME NEW q \in Procs, NEW kind \in Kinds PROVE Matched(worker'[q][kind])
  BY <1>1, Constants DEF Forget, MemoryTyped, Matched
<1>4. QED
  BY <1>2, <1>3 DEF MemoryTyped, Matched

(* A worker is set to another state: the other workers are left alone. *)
LEMMA WorkerTyped ==
  ASSUME MemoryTyped, NEW p \in Procs, NEW kind \in Kinds,
         NEW w \in WorkerType, Matched(w),
         worker' = [worker EXCEPT ![p][kind] = w],
         queue' \in [Procs -> SUBSET CRs], UNCHANGED <<crCache, childCache>>,
         current' \in [Procs -> SUBSET (CRs \X Part)]
  PROVE  MemoryTyped'
<1>1. worker' \in [Procs -> [Kinds -> WorkerType]]
  BY DEF MemoryTyped
<1>2. ASSUME NEW q \in Procs, NEW d \in Kinds PROVE Matched(worker'[q][d])
  BY DEF MemoryTyped
<1>3. QED
  BY <1>1, <1>2 DEF MemoryTyped, Matched

LEMMA ReturnTyped ==
  ASSUME TypeOK, NEW p \in Procs, NEW kind \in Kinds, worker[p][kind].step # 0,
         Return(p, kind) \/ ReturnError(p, kind), UNCHANGED cacheVars
  PROVE  MemoryTyped'
<1>1. MemoryTyped /\ worker[p][kind] \in WorkerType /\ worker[p][kind].key \in CRs
  BY TypeParts DEF MemoryTyped, Matched, WorkerType
<1>2. queue' \in [Procs -> SUBSET CRs]
  <2>1. queue \in [Procs -> SUBSET CRs] /\ {worker[p][kind].key} \subseteq CRs
    BY <1>1 DEF MemoryTyped
  <2>2. queue' = queue \/ queue' = [queue EXCEPT ![p] = @ \cup {worker[p][kind].key}]
    BY DEF Return, ReturnError
  <2>3. QED
    BY <2>1, <2>2
<1>3. worker' = [worker EXCEPT ![p][kind] = Idle]
  BY DEF Return, ReturnError
<1>4. Matched(Idle)
  BY Constants DEF Matched
<1>5. QED
  BY <1>1, <1>2, <1>3, <1>4, Constants, WorkerTyped DEF cacheVars, MemoryTyped

LEMMA ProceedTyped ==
  ASSUME TypeOK, NEW p \in Procs, NEW kind \in Kinds, worker[p][kind].step \in DOMAIN Parts,
         Proceed(p, kind), UNCHANGED <<crCache, childCache>>,
         current' \in [Procs -> SUBSET (CRs \X Part)]
  PROVE  MemoryTyped'
<1> DEFINE w == worker[p][kind]
           v == [key |-> w.key, copy |-> w.copy, step |-> w.step + 1]
<1>1. MemoryTyped /\ w \in WorkerType /\ w.key # NoKey
  BY TypeParts, PartsIndex DEF MemoryTyped, Matched, WorkerType
<1>2. v \in WorkerType /\ Matched(v)
  BY <1>1, PartsIndex DEF WorkerType, Matched
<1>3. v = [w EXCEPT !.step = @ + 1]
  BY <1>1 DEF WorkerType
<1>4. worker' = [worker EXCEPT ![p][kind] = v]
  BY <1>3 DEF Proceed
<1>5. queue' \in [Procs -> SUBSET CRs]
  BY <1>1 DEF Proceed, MemoryTyped
<1>6. QED
  <2> HIDE DEF v
  <2>1. QED
    BY <1>1, <1>2, <1>4, <1>5, WorkerTyped

LEMMA InitTyped == Init => TypeOK
<1> SUFFICES ASSUME Init PROVE TypeOK
  OBVIOUS
<1>1. ApiTyped
  <2>1. \A fate \in Fates : NewCR(fate) \in CRType
    BY DEF NewCR, CRType
  <2>2. cr \in [CRs -> {NewCR(fate) : fate \in Fates}] /\ have = NoChildren
    BY DEF Init
  <2>3. cr \in [CRs -> CRType]
    BY <2>1, <2>2
  <2>4. QED
    BY <2>2, <2>3, Constants DEF ApiTyped
<1>2. ProcTyped
  BY ProcAssumption DEF Init, ProcTyped
<1>3. MemoryTyped
  BY Constants DEF Init, MemoryTyped, Matched
<1>4. QED
  BY <1>1, <1>2, <1>3, TypeParts

(* One step per action. *)
LEMMA StepTyped == TypeOK /\ [Next]_vars => TypeOK'
<1> SUFFICES ASSUME TypeOK, [Next]_vars PROVE TypeOK'
  OBVIOUS
<1> USE DEF apiVars, procVars, cacheVars, bounds
<1>0. ApiTyped /\ ProcTyped /\ MemoryTyped /\ (TypeOK' <=> ApiTyped' /\ ProcTyped' /\ MemoryTyped')
  BY TypeParts, PTL
<1>a. UNCHANGED apiVars => ApiTyped'
  BY <1>0 DEF ApiTyped
<1>b. UNCHANGED <<procVars, bounds>> => ProcTyped'
  BY <1>0 DEF ProcTyped
<1>c. UNCHANGED <<cacheVars, queue, worker>> => MemoryTyped'
  BY <1>0 DEF MemoryTyped, Matched
<1>1. ASSUME NEW k \in CRs, Edit(k) PROVE TypeOK'
  <2>1. PICK fate \in Fates :
          cr' = [cr EXCEPT ![k] = [gen |-> @.gen + 1, fate |-> fate, ready |-> @.ready]]
    BY <1>1 DEF Edit
  <2>2. [gen |-> cr[k].gen + 1, fate |-> fate, ready |-> cr[k].ready] \in CRType
    BY <1>0 DEF ApiTyped, CRType
  <2>3. ApiTyped'
    BY <1>0, <1>1, <2>1, <2>2 DEF ApiTyped, Edit
  <2>4. ProcTyped' /\ MemoryTyped'
    BY <1>0, <1>1, <1>c DEF ProcTyped, Edit
  <2>5. QED
    BY <1>0, <2>3, <2>4
<1>2. ASSUME NEW p \in Procs, AddPod(p) \/ StartProcess(p) PROVE TypeOK'
  <2>1. ApiTyped' /\ MemoryTyped'
    BY <1>2, <1>a, <1>c DEF AddPod, StartProcess
  <2>2. ProcTyped'
    BY <1>0, <1>2 DEF ProcTyped, AddPod, StartProcess
  <2>3. QED
    BY <1>0, <2>1, <2>2
<1>3. ASSUME NEW p \in Procs, StartControllers(p) PROVE TypeOK'
  <2>1. ApiTyped' /\ ProcTyped'
    BY <1>0, <1>3, <1>a DEF ProcTyped, StartControllers
  <2>2. MemoryTyped'
    BY <1>0, <1>3 DEF ApiTyped, MemoryTyped, Matched, StartControllers
  <2>3. QED
    BY <1>0, <2>1, <2>2
<1>4. ASSUME NEW p \in Procs, RemovePod(p) PROVE TypeOK'
  <2>1. ApiTyped'
    BY <1>4, <1>a DEF RemovePod
  <2>2. MemoryTyped' /\ run' \in [Procs -> {"down", "standby", "active", "stopping"}]
    BY <1>0, <1>4, <1>c, ForgetTyped DEF ProcTyped, RemovePod
  <2>3. ProcTyped'
    BY <1>0, <1>4, <2>2 DEF ProcTyped, RemovePod
  <2>4. QED
    BY <1>0, <2>1, <2>2, <2>3
<1>5. ASSUME NEW p \in Procs, EndProcess(p) \/ Crash(p) PROVE TypeOK'
  <2>1. ApiTyped'
    BY <1>5, <1>a DEF EndProcess, Crash
  <2>2. MemoryTyped' /\ run' \in [Procs -> {"down", "standby", "active", "stopping"}]
    BY <1>5, ForgetTyped DEF EndProcess, Crash
  <2>3. ProcTyped'
    BY <1>0, <1>5, <2>2 DEF ProcTyped, EndProcess, Crash
  <2>4. QED
    BY <1>0, <2>1, <2>2, <2>3
<1>6. ASSUME NEW p \in Procs, NEW k \in CRs, WatchCR(p, k) PROVE TypeOK'
  <2>1. ApiTyped' /\ ProcTyped'
    BY <1>6, <1>a, <1>b DEF WatchCR
  <2>2. MemoryTyped'
    BY <1>0, <1>6 DEF ApiTyped, MemoryTyped, Matched, WatchCR
  <2>3. QED
    BY <1>0, <2>1, <2>2
<1>7. ASSUME NEW p \in Procs, NEW k \in CRs, NEW x \in Part, WatchChild(p, k, x)
      PROVE  TypeOK'
  <2>1. ApiTyped' /\ ProcTyped'
    BY <1>7, <1>a, <1>b DEF WatchChild
  <2>2. MemoryTyped'
    <3>1. childCache' \in [Procs -> [CRs -> [Part -> Nat]]]
      BY <1>0, <1>7 DEF ApiTyped, MemoryTyped, WatchChild
    <3>2. current' \in [Procs -> SUBSET (CRs \X Part)]
      BY <1>0, <1>7 DEF MemoryTyped, WatchChild
    <3>3. QED
      BY <1>0, <1>7, <3>1, <3>2 DEF MemoryTyped, Matched, WatchChild
  <2>3. QED
    BY <1>0, <2>1, <2>2
<1>8. ASSUME NEW p \in Procs, Resync(p) PROVE TypeOK'
  <2>1. ApiTyped' /\ ProcTyped'
    BY <1>8, <1>a, <1>b DEF Resync
  <2>2. MemoryTyped'
    BY <1>0, <1>8 DEF MemoryTyped, Matched, Resync
  <2>3. QED
    BY <1>0, <2>1, <2>2
<1>9. ASSUME NEW p \in Procs, NEW k \in CRs, Begin(p, k) PROVE TypeOK'
  <2> DEFINE w == [key |-> k, copy |-> crCache[p][k], step |-> 1]
  <2>1. ApiTyped' /\ ProcTyped'
    BY <1>9, <1>a, <1>b DEF Begin
  <2>2. w \in WorkerType /\ Matched(w) /\ Kind[k] \in Kinds
    BY <1>0, PartsIndex, KeyAssumption, KindAssumption DEF MemoryTyped, WorkerType, Matched
  <2>3. queue' \in [Procs -> SUBSET CRs] /\ UNCHANGED cacheVars
    BY <1>0, <1>9 DEF MemoryTyped, Begin
  <2>4. worker' = [worker EXCEPT ![p][Kind[k]] = w]
    BY <1>9 DEF Begin
  <2>5. MemoryTyped'
    <3> HIDE DEF w
    <3>1. QED
      BY <1>0, <2>2, <2>3, <2>4, WorkerTyped DEF MemoryTyped
  <2>6. QED
    BY <1>0, <2>1, <2>5
<1>10. ASSUME NEW p \in Procs, NEW kind \in Kinds, Apply(p, kind) PROVE TypeOK'
  <2> DEFINE w == worker[p][kind]
             x == Parts[w.step]
  <2>1. /\ w \in WorkerType /\ w.step \in DOMAIN Parts /\ x \in Part
        /\ w.key \in CRs /\ w.copy.gen \in Nat /\ w.step # 0
    BY <1>0, <1>10, PartsIndex DEF MemoryTyped, Matched, WorkerType, CRType, Apply
  <2>2. UNCHANGED <<procVars, bounds, crCache, childCache>>
    BY <1>10 DEF Apply, ApplyWrite, ApplyInSync, ApplyError
  <2>3. CASE ApplyWrite(p, kind, w, x)
    <3>1. ApiTyped'
      BY <1>0, <2>1, <2>3 DEF ApiTyped, ApplyWrite
    <3>2. current' \in [Procs -> SUBSET (CRs \X Part)]
      BY <1>0, <2>3 DEF MemoryTyped, ApplyWrite
    <3>3. MemoryTyped'
      BY <2>1, <2>2, <2>3, <3>2, ProceedTyped DEF ApplyWrite
    <3>4. QED
      BY <1>0, <1>b, <2>2, <3>1, <3>3
  <2>4. CASE ApplyInSync(p, kind, w, x)
    <3>1. current' \in [Procs -> SUBSET (CRs \X Part)]
      BY <1>0, <2>4 DEF MemoryTyped, ApplyInSync
    <3>2. MemoryTyped'
      BY <2>1, <2>2, <2>4, <3>1, ProceedTyped DEF ApplyInSync
    <3>3. QED
      BY <1>0, <1>a, <1>b, <2>2, <2>4, <3>2 DEF ApplyInSync
  <2>5. CASE ApplyError(p, kind, w, x)
    BY <1>0, <1>a, <1>b, <2>1, <2>2, <2>5, ReturnTyped DEF ApplyError
  <2>6. QED
    BY <1>10, <2>3, <2>4, <2>5 DEF Apply
<1>11. ASSUME NEW p \in Procs, NEW kind \in Kinds, Panic(p, kind) PROVE TypeOK'
  <2>1. ApiTyped' /\ MemoryTyped' /\ run' \in [Procs -> {"down", "standby", "active", "stopping"}]
    BY <1>11, <1>a, ForgetTyped DEF Panic
  <2>2. ProcTyped'
    BY <1>0, <1>11, <2>1 DEF ProcTyped, Panic
  <2>3. QED
    BY <1>0, <2>1, <2>2
<1>12. ASSUME NEW p \in Procs, NEW kind \in Kinds, UpdateStatus(p, kind) PROVE TypeOK'
  <2>1. worker[p][kind].step # 0 /\ (Return(p, kind) \/ ReturnError(p, kind))
        /\ UNCHANGED <<procVars, cacheVars, bounds>>
    BY <1>12, PartsIndex DEF UpdateStatus
  <2>2. ApiTyped'
    BY <1>0, <1>12 DEF ApiTyped, CRType, UpdateStatus
  <2>3. QED
    BY <1>0, <1>b, <2>1, <2>2, ReturnTyped
<1>13. CASE UNCHANGED vars
  BY <1>0, <1>13, <1>a, <1>b, <1>c DEF vars
<1>14. QED
  BY <1>1, <1>2, <1>3, <1>4, <1>5, <1>6, <1>7, <1>8, <1>9, <1>10, <1>11, <1>12, <1>13
  DEF Next, Process, Informers, Controllers, Reconcile

(* The type invariant, for any CRs, kinds, children, processes and bounds. *)
THEOREM TypeCorrect == Safety => []TypeOK
BY InitTyped, StepTyped, PTL DEF Safety

-----------------------------------------------------------------------------
(***************************************************************************)
(* NoRollback.  The children are no newer than what the leader's informer  *)
(* has, nor than the copy its worker writes from; this needs that there is *)
(* one leader, and that a process that does not lead has nothing in hand.  *)
(***************************************************************************)
IdleInv ==
  \A p \in Procs, kind \in Kinds :
    /\ ~Running(p) => worker[p][kind].step = 0
    /\ worker[p][kind].step # 0 => Kind[worker[p][kind].key] = kind

OneLeader == \A p, q \in Procs : Running(p) /\ Running(q) => p = q

UpTo(k, gen) == \A x \in Part : have[k][x] <= gen

AskedInv ==
  /\ \A k \in CRs : UpTo(k, cr[k].gen)
  /\ \A p \in Procs, k \in CRs : Running(p) =>
       UpTo(k, crCache[p][k].gen) /\ crCache[p][k].gen <= cr[k].gen

(* The worker has a copy of its CR between the children and the informer. *)
HandInv ==
  \A p \in Procs, kind \in Kinds :
    LET w == worker[p][kind] IN
    w.step # 0 => UpTo(w.key, w.copy.gen) /\ w.copy.gen <= crCache[p][w.key].gen

LeaderInv ==
  /\ TypeOK
  /\ IdleInv
  /\ elect => OneLeader /\ AskedInv /\ HandInv

(* The numbers that are compared. *)
LEMMA Gens ==
  ASSUME TypeOK
  PROVE  /\ \A k \in CRs : cr[k].gen \in Nat
         /\ \A k \in CRs, x \in Part : have[k][x] \in Nat
         /\ \A p \in Procs, k \in CRs : crCache[p][k].gen \in Nat
         /\ \A p \in Procs, kind \in Kinds :
              /\ worker[p][kind].copy.gen \in Nat
              /\ worker[p][kind].step # 0 => worker[p][kind].key \in CRs
<1>1. ApiTyped /\ MemoryTyped
  BY TypeParts
<1>2. QED
  BY <1>1 DEF ApiTyped, MemoryTyped, Matched, WorkerType, CRType

(* Nothing of interest happens, but for a user's edit. *)
LEMMA Framed ==
  ASSUME LeaderInv, TypeOK', \A p \in Procs : Running(p)' <=> Running(p),
         UNCHANGED <<have, crCache, worker, elect>>,
         \A k \in CRs : cr'[k].gen >= cr[k].gen
  PROVE  LeaderInv'
<1>1. TypeOK /\ IdleInv
  BY DEF LeaderInv
<1>a. \A k \in CRs : cr'[k].gen \in Nat
  BY DEF TypeOK, CRType
<1>2. IdleInv'
  BY <1>1 DEF IdleInv
<1>3. ASSUME elect PROVE OneLeader' /\ AskedInv' /\ HandInv'
  <2>1. OneLeader /\ AskedInv /\ HandInv
    BY <1>3 DEF LeaderInv
  <2>2. OneLeader'
    BY <2>1 DEF OneLeader
  <2>3. AskedInv'
    <3>1. \A k \in CRs, x \in Part : have'[k][x] <= cr'[k].gen
      BY <1>1, <1>a, <2>1, Gens DEF AskedInv, UpTo
    <3>2. ASSUME NEW p \in Procs, NEW k \in CRs, Running(p)
          PROVE  UpTo(k, crCache[p][k].gen)' /\ crCache'[p][k].gen <= cr'[k].gen
      BY <1>1, <1>a, <2>1, <3>2, Gens DEF AskedInv, UpTo
    <3>3. QED
      BY <3>1, <3>2 DEF AskedInv, UpTo
  <2>4. HandInv'
    BY <2>1 DEF HandInv, UpTo
  <2>5. QED
    BY <2>2, <2>3, <2>4
<1>4. QED
  BY <1>2, <1>3 DEF LeaderInv

(* A process ends. *)
LEMMA Forgotten ==
  ASSUME LeaderInv, TypeOK', NEW p \in Procs, Forget(p), UNCHANGED <<cr, have, elect>>
  PROVE  LeaderInv'
<1>1. TypeOK /\ IdleInv /\ MemoryTyped /\ ProcTyped
  BY TypeParts DEF LeaderInv
<1>2. /\ ~Running(p)' /\ \A kind \in Kinds : worker'[p][kind].step = 0
      /\ \A q \in Procs \ {p} :
           /\ Running(q)' <=> Running(q)
           /\ worker'[q] = worker[q] /\ crCache'[q] = crCache[q]
  BY <1>1, Constants DEF Forget, Running, MemoryTyped, ProcTyped
<1>3. IdleInv'
  BY <1>1, <1>2 DEF IdleInv
<1>4. ASSUME elect PROVE OneLeader' /\ AskedInv' /\ HandInv'
  <2>1. OneLeader /\ AskedInv /\ HandInv
    BY <1>4 DEF LeaderInv
  <2>2. OneLeader'
    BY <1>2, <2>1 DEF OneLeader
  <2>3. AskedInv'
    BY <1>2, <2>1 DEF AskedInv, UpTo
  <2>4. HandInv'
    BY <1>2, <2>1 DEF HandInv, UpTo
  <2>5. QED
    BY <2>2, <2>3, <2>4
<1>5. QED
  BY <1>3, <1>4 DEF LeaderInv

(* A worker goes on with its CR, or drops it, without a write of a child. *)
LEMMA WorkerFramed ==
  ASSUME LeaderInv, TypeOK', UNCHANGED <<run, elect, have, crCache>>,
         \A k \in CRs : cr'[k].gen = cr[k].gen,
         \A q \in Procs, d \in Kinds :
           \/ worker'[q][d].step = 0
           \/ /\ worker[q][d].step # 0
              /\ worker'[q][d].key = worker[q][d].key
              /\ worker'[q][d].copy = worker[q][d].copy
           \/ worker'[q][d] = worker[q][d]
  PROVE  LeaderInv'
<1>1. TypeOK /\ IdleInv /\ \A q \in Procs : Running(q)' <=> Running(q)
  BY DEF LeaderInv, Running
<1>2. IdleInv'
  BY <1>1 DEF IdleInv
<1>3. ASSUME elect PROVE OneLeader' /\ AskedInv' /\ HandInv'
  <2>1. OneLeader /\ AskedInv /\ HandInv
    BY <1>3 DEF LeaderInv
  <2>2. OneLeader'
    BY <1>1, <2>1 DEF OneLeader
  <2>3. AskedInv'
    BY <1>1, <2>1 DEF AskedInv, UpTo
  <2>4. HandInv'
    BY <2>1 DEF HandInv, UpTo
  <2>5. QED
    BY <2>2, <2>3, <2>4
<1>4. QED
  BY <1>2, <1>3 DEF LeaderInv

(* A process becomes the leader: nobody else leads, and it lists the CRs. *)
LEMMA LeaderStarts ==
  ASSUME LeaderInv, TypeOK', NEW p \in Procs, StartControllers(p)
  PROVE  LeaderInv'
<1> USE DEF apiVars
<1>1. TypeOK /\ IdleInv /\ MemoryTyped /\ ProcTyped
  BY TypeParts DEF LeaderInv
<1>2. /\ ~Running(p) /\ crCache'[p] = cr /\ UNCHANGED <<cr, have, elect, worker>>
      /\ \A q \in Procs \ {p} : (Running(q)' <=> Running(q)) /\ crCache'[q] = crCache[q]
      /\ elect => \A q \in Procs \ {p} : ~Running(q)
  BY <1>1 DEF StartControllers, Running, LeaseFree, MemoryTyped, ProcTyped
<1>3. IdleInv'
  BY <1>1, <1>2 DEF IdleInv
<1>4. ASSUME elect PROVE OneLeader' /\ AskedInv' /\ HandInv'
  <2>1. AskedInv /\ \A q \in Procs : ~Running(q)
    BY <1>2, <1>4 DEF LeaderInv
  <2>2. OneLeader'
    BY <1>2, <2>1 DEF OneLeader
  <2>3. AskedInv'
    <3>1. ASSUME NEW q \in Procs, NEW k \in CRs, Running(q)'
          PROVE  UpTo(k, crCache[q][k].gen)' /\ crCache'[q][k].gen <= cr'[k].gen
      <4>1. q = p /\ crCache'[q][k].gen = cr[k].gen
        BY <1>2, <2>1, <3>1
      <4>2. QED
        BY <1>1, <1>2, <2>1, <4>1, Gens DEF AskedInv, UpTo
    <3>2. QED
      BY <1>2, <2>1, <3>1 DEF AskedInv, UpTo
  <2>4. HandInv'
    BY <1>1, <1>2, <2>1 DEF HandInv, IdleInv
  <2>5. QED
    BY <2>2, <2>3, <2>4
<1>5. QED
  BY <1>2, <1>3, <1>4 DEF LeaderInv

(* The informer catches up. *)
LEMMA LeaderWatches ==
  ASSUME LeaderInv, TypeOK', NEW p \in Procs, NEW j \in CRs, WatchCR(p, j)
  PROVE  LeaderInv'
<1> USE DEF apiVars, procVars
<1>1. TypeOK /\ IdleInv /\ MemoryTyped
  BY TypeParts DEF LeaderInv
<1>2. /\ Running(p) /\ UNCHANGED <<cr, have, elect, run, worker>>
      /\ crCache'[p][j] = cr[j]
      /\ \A q \in Procs, k \in CRs : <<q, k>> # <<p, j>> => crCache'[q][k] = crCache[q][k]
      /\ \A q \in Procs : Running(q)' <=> Running(q)
  BY <1>1 DEF WatchCR, Running, MemoryTyped
<1>3. IdleInv'
  BY <1>1, <1>2 DEF IdleInv
<1>4. ASSUME elect PROVE OneLeader' /\ AskedInv' /\ HandInv'
  <2>1. OneLeader /\ AskedInv /\ HandInv
    BY <1>4 DEF LeaderInv
  <2>2. OneLeader'
    BY <1>2, <2>1 DEF OneLeader
  <2>3. AskedInv'
    <3>1. ASSUME NEW q \in Procs, NEW k \in CRs, Running(q)
          PROVE  UpTo(k, crCache[q][k].gen)' /\ crCache'[q][k].gen <= cr'[k].gen
      BY <1>1, <1>2, <2>1, <3>1, Gens DEF AskedInv, UpTo
    <3>2. QED
      BY <1>2, <2>1, <3>1 DEF AskedInv, UpTo
  <2>4. HandInv'
    <3>1. ASSUME NEW q \in Procs, NEW d \in Kinds, worker[q][d].step # 0
          PROVE  /\ UpTo(worker[q][d].key, worker[q][d].copy.gen)'
                 /\ worker[q][d].copy.gen <= crCache'[q][worker[q][d].key].gen
      <4>1. UpTo(worker[q][d].key, worker[q][d].copy.gen)'
        BY <1>2, <2>1, <3>1 DEF HandInv, UpTo
      <4>2. /\ worker[q][d].key \in CRs /\ worker[q][d].copy.gen \in Nat
            /\ worker[q][d].copy.gen <= crCache[q][worker[q][d].key].gen
            /\ crCache[p][j].gen <= cr[j].gen
            /\ crCache[p][j].gen \in Nat /\ cr[j].gen \in Nat
        BY <1>1, <1>2, <2>1, <3>1, Gens DEF HandInv, AskedInv
      <4>3. QED
        BY <1>2, <4>1, <4>2
    <3>2. QED
      BY <1>2, <3>1 DEF HandInv, UpTo
  <2>5. QED
    BY <2>2, <2>3, <2>4
<1>5. QED
  BY <1>2, <1>3, <1>4 DEF LeaderInv

(* A worker takes a key: its copy is what the informer has. *)
LEMMA LeaderBegins ==
  ASSUME LeaderInv, TypeOK', NEW p \in Procs, NEW k \in CRs, Begin(p, k)
  PROVE  LeaderInv'
<1> USE DEF apiVars, procVars, cacheVars
<1>1. TypeOK /\ IdleInv /\ MemoryTyped /\ Kind[k] \in Kinds
  BY TypeParts, KindAssumption DEF LeaderInv
<1>2. /\ Running(p) /\ UNCHANGED <<cr, have, elect, run, crCache>>
      /\ worker'[p][Kind[k]] = [key |-> k, copy |-> crCache[p][k], step |-> 1]
      /\ \A q \in Procs, d \in Kinds : <<q, d>> # <<p, Kind[k]>> => worker'[q][d] = worker[q][d]
      /\ \A q \in Procs : Running(q)' <=> Running(q)
  BY <1>1 DEF Begin, Running, MemoryTyped
<1>3. IdleInv'
  BY <1>1, <1>2 DEF IdleInv
<1>4. ASSUME elect PROVE OneLeader' /\ AskedInv' /\ HandInv'
  <2>1. OneLeader /\ AskedInv /\ HandInv
    BY <1>4 DEF LeaderInv
  <2>2. OneLeader'
    BY <1>2, <2>1 DEF OneLeader
  <2>3. AskedInv'
    BY <1>2, <2>1 DEF AskedInv, UpTo
  <2>4. HandInv'
    <3>1. UpTo(k, crCache[p][k].gen) /\ crCache[p][k].gen <= crCache[p][k].gen
      BY <1>1, <1>2, <2>1, Gens DEF AskedInv
    <3>2. QED
      BY <1>2, <2>1, <3>1 DEF HandInv, UpTo
  <2>5. QED
    BY <2>2, <2>3, <2>4
<1>5. QED
  BY <1>2, <1>3, <1>4 DEF LeaderInv

(* A worker writes a child: it has been asked for, and every other worker  *)
(* is idle, or on another CR.                                              *)
LEMMA LeaderWrites ==
  ASSUME LeaderInv, TypeOK', NEW p \in Procs, NEW kind \in Kinds,
         NEW w \in WorkerType, w = worker[p][kind], w.step \in DOMAIN Parts,
         NEW x \in Part, ApplyWrite(p, kind, w, x)
  PROVE  /\ LeaderInv'
         /\ elect => \A k \in CRs, y \in Part : have'[k][y] >= have[k][y]
<1> USE DEF procVars
<1>1. TypeOK /\ IdleInv /\ MemoryTyped /\ ApiTyped /\ w.step # 0
  BY TypeParts, PartsIndex DEF LeaderInv
<1>2. w.key \in CRs /\ w.copy.gen \in Nat
  BY <1>1, Gens
<1>3. /\ have'[w.key][x] = w.copy.gen
      /\ \A k \in CRs, y \in Part : <<k, y>> # <<w.key, x>> => have'[k][y] = have[k][y]
  BY <1>1, <1>2 DEF ApplyWrite, ApiTyped
<1>4. /\ UNCHANGED <<cr, elect, run, crCache>>
      /\ worker' = [worker EXCEPT ![p][kind].step = @ + 1]
      /\ \A q \in Procs : Running(q)' <=> Running(q)
  BY DEF ApplyWrite, Proceed, Running
<1>5. /\ worker'[p][kind].key = w.key /\ worker'[p][kind].copy = w.copy
      /\ \A q \in Procs, d \in Kinds : <<q, d>> # <<p, kind>> => worker'[q][d] = worker[q][d]
  BY <1>1, <1>4 DEF MemoryTyped, WorkerType
<1>6. Running(p)
  BY <1>1 DEF IdleInv
<1>7. IdleInv'
  BY <1>1, <1>4, <1>5, <1>6 DEF IdleInv
<1>8. ASSUME elect
      PROVE  /\ OneLeader' /\ AskedInv' /\ HandInv'
             /\ \A k \in CRs, y \in Part : have'[k][y] >= have[k][y]
  <2>1. OneLeader /\ AskedInv /\ HandInv
    BY <1>8 DEF LeaderInv
  <2>2. /\ UpTo(w.key, w.copy.gen) /\ w.copy.gen <= crCache[p][w.key].gen
        /\ crCache[p][w.key].gen <= cr[w.key].gen
        /\ crCache[p][w.key].gen \in Nat /\ cr[w.key].gen \in Nat
    BY <1>1, <1>2, <1>6, <2>1, Gens DEF HandInv, AskedInv
  <2>3. w.copy.gen <= cr[w.key].gen
    BY <1>2, <2>2
  <2>4. OneLeader'
    BY <1>4, <2>1 DEF OneLeader
  <2>5. AskedInv'
    <3>1. \A k \in CRs : UpTo(k, cr[k].gen)'
      BY <1>3, <1>4, <2>1, <2>3 DEF AskedInv, UpTo
    <3>2. ASSUME NEW q \in Procs, NEW k \in CRs, Running(q)
          PROVE  UpTo(k, crCache[q][k].gen)' /\ crCache'[q][k].gen <= cr'[k].gen
      <4>1. q = p
        BY <1>6, <2>1, <3>2 DEF OneLeader
      <4>2. QED
        BY <1>3, <1>4, <2>1, <2>2, <3>2, <4>1 DEF AskedInv, UpTo
    <3>3. QED
      BY <1>4, <3>1, <3>2 DEF AskedInv
  <2>6. HandInv'
    <3>1. ASSUME NEW q \in Procs, NEW d \in Kinds, worker'[q][d].step # 0
          PROVE  /\ UpTo(worker[q][d].key, worker[q][d].copy.gen)'
                 /\ worker'[q][d].copy.gen <= crCache'[q][worker'[q][d].key].gen
      <4>1. CASE q = p /\ d = kind
        BY <1>2, <1>3, <1>4, <1>5, <2>2, <4>1 DEF UpTo
      <4>2. CASE <<q, d>> # <<p, kind>>
        <5>1. worker'[q][d] = worker[q][d] /\ worker[q][d].key \in CRs
          BY <1>1, <1>5, <3>1, <4>2, Gens
        <5>2. worker[q][d].key # w.key
          BY <1>1, <1>6, <2>1, <3>1, <4>2, <5>1 DEF IdleInv, OneLeader
        <5>3. QED
          BY <1>3, <1>4, <2>1, <3>1, <5>1, <5>2 DEF HandInv, UpTo
      <4>3. QED
        BY <4>1, <4>2
    <3>2. QED
      BY <3>1 DEF HandInv
  <2>7. \A k \in CRs, y \in Part : have'[k][y] >= have[k][y]
    BY <1>1, <1>2, <1>3, <2>2, Gens DEF UpTo
  <2>8. QED
    BY <2>4, <2>5, <2>6, <2>7
<1>9. QED
  BY <1>4, <1>7, <1>8 DEF LeaderInv

LEMMA LeaderStep ==
  ASSUME LeaderInv, [Next]_vars
  PROVE  /\ LeaderInv'
         /\ elect => \A k \in CRs, x \in Part : have'[k][x] >= have[k][x]
<1> USE DEF apiVars, procVars, cacheVars, bounds
<1>0. TypeOK /\ TypeOK' /\ ApiTyped /\ ProcTyped /\ MemoryTyped
  BY StepTyped, TypeParts DEF LeaderInv
<1>a. /\ \A k \in CRs : cr[k].gen \in Nat
      /\ UNCHANGED have => \A k \in CRs, x \in Part : have'[k][x] >= have[k][x]
  BY <1>0, Gens
<1>1. ASSUME NEW k \in CRs, Edit(k) PROVE LeaderInv' /\ UNCHANGED have
  <2>1. \A j \in CRs : cr'[j].gen >= cr[j].gen
    BY <1>0, <1>1, <1>a DEF Edit, ApiTyped
  <2>2. QED
    BY <1>0, <1>1, <2>1, Framed DEF Edit, Running
<1>2. ASSUME NEW p \in Procs, AddPod(p) \/ StartProcess(p) \/ Resync(p)
      PROVE  LeaderInv' /\ UNCHANGED have
  BY <1>0, <1>2, <1>a, Framed DEF AddPod, StartProcess, Resync, Running, ProcTyped
<1>3. ASSUME NEW p \in Procs, NEW k \in CRs, NEW x \in Part, WatchChild(p, k, x)
      PROVE  LeaderInv' /\ UNCHANGED have
  BY <1>0, <1>3, <1>a, Framed DEF WatchChild, Running
<1>4. ASSUME NEW p \in Procs, StartControllers(p) PROVE LeaderInv' /\ UNCHANGED have
  BY <1>0, <1>4, LeaderStarts DEF StartControllers
<1>5. ASSUME NEW p \in Procs, RemovePod(p) PROVE LeaderInv' /\ UNCHANGED have
  <2>1. CASE run[p] = "active"
    BY <1>0, <1>5, <1>a, <2>1, Framed DEF RemovePod, Running, ProcTyped
  <2>2. CASE run[p] # "active"
    BY <1>0, <1>5, <2>2, Forgotten DEF RemovePod
  <2>3. QED
    BY <2>1, <2>2
<1>6. ASSUME NEW p \in Procs, EndProcess(p) \/ Crash(p) PROVE LeaderInv' /\ UNCHANGED have
  BY <1>0, <1>6, Forgotten DEF EndProcess, Crash
<1>7. ASSUME NEW p \in Procs, NEW k \in CRs, WatchCR(p, k) PROVE LeaderInv' /\ UNCHANGED have
  BY <1>0, <1>7, LeaderWatches DEF WatchCR
<1>8. ASSUME NEW p \in Procs, NEW k \in CRs, Begin(p, k) PROVE LeaderInv' /\ UNCHANGED have
  BY <1>0, <1>8, LeaderBegins DEF Begin
<1>9. ASSUME NEW p \in Procs, NEW kind \in Kinds, Apply(p, kind)
      PROVE  /\ LeaderInv'
             /\ elect => \A k \in CRs, x \in Part : have'[k][x] >= have[k][x]
  <2> DEFINE w == worker[p][kind]
             x == Parts[w.step]
  <2>1. w \in WorkerType /\ w.step \in DOMAIN Parts /\ x \in Part /\ w.step # 0
    BY <1>0, <1>9, PartsIndex DEF MemoryTyped, Apply
  <2>2. CASE ApplyWrite(p, kind, w, x)
    BY <1>0, <2>1, <2>2, LeaderWrites
  <2>3. CASE ApplyInSync(p, kind, w, x)
    BY <1>0, <1>a, <2>1, <2>3, WorkerFramed
    DEF ApplyInSync, Proceed, MemoryTyped, WorkerType
  <2>4. CASE ApplyError(p, kind, w, x)
    BY <1>0, <1>a, <2>1, <2>4, WorkerFramed, Constants
    DEF ApplyError, ReturnError, MemoryTyped
  <2>5. QED
    BY <1>9, <2>2, <2>3, <2>4 DEF Apply
<1>10. ASSUME NEW p \in Procs, NEW kind \in Kinds, Panic(p, kind)
       PROVE  LeaderInv' /\ UNCHANGED have
  BY <1>0, <1>10, Forgotten DEF Panic
<1>11. ASSUME NEW p \in Procs, NEW kind \in Kinds, UpdateStatus(p, kind)
       PROVE  LeaderInv' /\ UNCHANGED have
  <2>1. \A k \in CRs : cr'[k].gen = cr[k].gen
    <3>1. cr' = cr \/ cr' = [cr EXCEPT ![worker[p][kind].key].ready = TRUE]
      BY <1>11 DEF UpdateStatus
    <3>2. SUFFICES ASSUME NEW k \in CRs PROVE cr'[k].gen = cr[k].gen
      OBVIOUS
    <3>3. cr[k] \in CRType /\ cr \in [CRs -> CRType]
      BY <1>0 DEF ApiTyped
    <3>4. CASE cr' = cr
      BY <3>4
    <3>5. CASE cr' = [cr EXCEPT ![worker[p][kind].key].ready = TRUE]
      <4>1. cr'[k] = cr[k] \/ cr'[k] = [cr[k] EXCEPT !.ready = TRUE]
        BY <3>3, <3>5
      <4>2. QED
        BY <3>3, <4>1 DEF CRType
    <3>6. QED
      BY <3>1, <3>4, <3>5
  <2>2. worker' = [worker EXCEPT ![p][kind] = Idle]
    BY <1>11 DEF UpdateStatus, Return, ReturnError
  <2>3. QED
    BY <1>0, <1>11, <2>1, <2>2, WorkerFramed, Constants DEF UpdateStatus, MemoryTyped
<1>12. CASE UNCHANGED vars
  BY <1>0, <1>12, <1>a, Framed DEF vars, Running
<1>13. QED
  BY <1>a, <1>1, <1>2, <1>3, <1>4, <1>5, <1>6, <1>7, <1>8, <1>9, <1>10, <1>11, <1>12
  DEF Next, Process, Informers, Controllers, Reconcile

LEMMA LeaderInitially == Init => LeaderInv
<1> SUFFICES ASSUME Init PROVE LeaderInv
  OBVIOUS
<1>1. TypeOK
  BY InitTyped
<1>2. IdleInv /\ HandInv
  BY Constants DEF Init, IdleInv, HandInv
<1>3. OneLeader
  BY DEF Init, OneLeader, Running
<1>4. \A k \in CRs, x \in Part : have[k][x] = 0
  BY DEF Init, NoChildren
<1>5. AskedInv
  BY <1>1, <1>4, Gens DEF Init, AskedInv, UpTo, Running
<1>6. QED
  BY <1>1, <1>2, <1>3, <1>5 DEF LeaderInv

(* With leader election the children of no CR ever go back to an older     *)
(* spec, whatever the number of processes, CRs, kinds and children, and    *)
(* however often the operator is replaced, crashes or panics.              *)
THEOREM LeaderNeverRollsBack == Safety => NoRollback
<1>1. Init => LeaderInv
  BY LeaderInitially
<1>2. LeaderInv /\ [Next]_vars =>
        [elect => \A k \in CRs, x \in Part : have'[k][x] >= have[k][x]]_vars
  BY LeaderStep
<1>3. LeaderInv /\ [Next]_vars => LeaderInv'
  BY LeaderStep
<1>4. QED
  BY <1>1, <1>2, <1>3, PTL DEF Safety, NoRollback

-----------------------------------------------------------------------------
(***************************************************************************)
(* LeaderLosesNoWork.  The worker may only forget a CR when it has raised  *)
(* Ready, so it must be known then that the children are of its copy.      *)
(***************************************************************************)

(* The leader's informers have nothing of the children that is not there,  *)
(* or has been.                                                            *)
SeenInv ==
  \A p \in Procs, k \in CRs, x \in Part : Running(p) => childCache[p][k][x] <= have[k][x]

(* If its copy is of the last spec, a worker has brought the children so   *)
(* far to that spec.                                                       *)
DoneInv ==
  \A p \in Procs, kind \in Kinds :
    LET w == worker[p][kind] IN
    w.step # 0 /\ w.copy.gen = cr[w.key].gen =>
      \A i \in 1 .. w.step - 1 : have[w.key][Parts[i]] = w.copy.gen

WorkInv == LeaderInv /\ (elect => SeenInv /\ DoneInv) /\ LeaderLosesNoWork

(* Whatever a step does, a running process has of a child what it had, or  *)
(* what is there.                                                          *)
LEMMA ChildrenSeen ==
  ASSUME TypeOK, [Next]_vars, NEW q \in Procs, Running(q)', NEW j \in CRs, NEW y \in Part
  PROVE  \/ Running(q) /\ childCache'[q][j][y] = childCache[q][j][y]
         \/ childCache'[q][j][y] = have[j][y]
<1> USE DEF procVars, cacheVars
<1>0. MemoryTyped /\ ProcTyped
  BY TypeParts
<1>1. ASSUME NEW k \in CRs, Edit(k) PROVE Running(q) /\ childCache' = childCache
  BY <1>1 DEF Edit, Running
<1>2. ASSUME NEW p \in Procs, AddPod(p) \/ StartProcess(p) \/ Resync(p)
      PROVE  Running(q) /\ childCache' = childCache
  BY <1>0, <1>2 DEF AddPod, StartProcess, Resync, Running, ProcTyped
<1>3. ASSUME NEW p \in Procs, NEW k \in CRs, NEW x \in Part, WatchChild(p, k, x)
      PROVE  \/ Running(q) /\ childCache'[q][j][y] = childCache[q][j][y]
             \/ childCache'[q][j][y] = have[j][y]
  <2>1. /\ childCache'[p] = [childCache[p] EXCEPT ![k] = [childCache[p][k] EXCEPT ![x] = have[k][x]]]
        /\ q # p => childCache'[q] = childCache[q]
        /\ Running(q)
    BY <1>0, <1>3 DEF WatchChild, Running, MemoryTyped
  <2>2. /\ childCache[p] \in [CRs -> [Part -> Nat]]
        /\ childCache[p][k] \in [Part -> Nat]
    BY <1>0 DEF MemoryTyped
  <2>3. QED
    BY <2>1, <2>2
<1>4. ASSUME NEW p \in Procs, StartControllers(p)
      PROVE  \/ Running(q) /\ childCache'[q][j][y] = childCache[q][j][y]
             \/ childCache'[q][j][y] = have[j][y]
  BY <1>0, <1>4 DEF StartControllers, Running, MemoryTyped, ProcTyped
<1>5. ASSUME NEW p \in Procs, Forget(p) PROVE Running(q) /\ childCache'[q] = childCache[q]
  BY <1>0, <1>5 DEF Forget, Running, MemoryTyped, ProcTyped
<1>6. ASSUME NEW p \in Procs, RemovePod(p) PROVE Running(q) /\ childCache'[q] = childCache[q]
  BY <1>0, <1>5, <1>6 DEF RemovePod, Running, ProcTyped
<1>7. ASSUME NEW p \in Procs, NEW k \in CRs, WatchCR(p, k) \/ Begin(p, k)
      PROVE  Running(q) /\ childCache' = childCache
  BY <1>7 DEF WatchCR, Begin, Running
<1>8. ASSUME NEW p \in Procs, NEW kind \in Kinds, Apply(p, kind) \/ UpdateStatus(p, kind)
      PROVE  Running(q) /\ childCache' = childCache
  BY <1>8 DEF Apply, ApplyWrite, ApplyInSync, ApplyError, UpdateStatus, Running
<1>9. CASE UNCHANGED vars
  BY <1>9 DEF vars, Running
<1>10. QED
  BY <1>1, <1>2, <1>3, <1>4, <1>5, <1>6, <1>7, <1>8, <1>9
  DEF Next, Process, Informers, Controllers, Reconcile, Panic, EndProcess, Crash

LEMMA SeenStep ==
  ASSUME LeaderInv, [Next]_vars, elect, SeenInv
  PROVE  SeenInv'
<1>1. TypeOK /\ TypeOK'
  BY StepTyped DEF LeaderInv
<1>2. ASSUME NEW p \in Procs, NEW k \in CRs, NEW x \in Part, Running(p)'
      PROVE  childCache'[p][k][x] <= have'[k][x]
  <2>1. have[k][x] \in Nat /\ have'[k][x] \in Nat /\ childCache[p][k][x] \in Nat
    BY <1>1 DEF TypeOK
  <2>2. have'[k][x] >= have[k][x]
    BY LeaderStep
  <2>3. \/ Running(p) /\ childCache'[p][k][x] = childCache[p][k][x]
        \/ childCache'[p][k][x] = have[k][x]
    BY <1>1, <1>2, ChildrenSeen
  <2>4. QED
    BY <2>1, <2>2, <2>3 DEF SeenInv
<1>3. QED
  BY <1>2 DEF SeenInv

(* The generations of the CRs never go down. *)
LEMMA SpecGrows ==
  ASSUME TypeOK, [Next]_vars, NEW j \in CRs
  PROVE  cr'[j].gen >= cr[j].gen
<1> USE DEF apiVars
<1>0. cr \in [CRs -> CRType] /\ cr[j].gen \in Nat /\ cr[j].gen >= cr[j].gen
  BY DEF TypeOK, CRType
<1>1. ASSUME NEW k \in CRs, Edit(k) PROVE cr'[j].gen >= cr[j].gen
  BY <1>0, <1>1 DEF Edit
<1>2. ASSUME NEW p \in Procs, NEW kind \in Kinds, UpdateStatus(p, kind)
      PROVE  cr'[j].gen >= cr[j].gen
  <2>1. cr' = cr \/ cr' = [cr EXCEPT ![worker[p][kind].key].ready = TRUE]
    BY <1>2 DEF UpdateStatus
  <2>2. cr'[j] = cr[j] \/ cr'[j] = [cr[j] EXCEPT !.ready = TRUE]
    BY <1>0, <2>1
  <2>3. cr'[j].gen = cr[j].gen
    BY <1>0, <2>2 DEF CRType
  <2>4. QED
    BY <1>0, <2>3
<1>3. ASSUME NEW p \in Procs, Process(p) \/ Informers(p) PROVE cr' = cr
  BY <1>3 DEF Process, AddPod, StartProcess, StartControllers, RemovePod, EndProcess, Crash,
              Informers, WatchCR, WatchChild, Resync
<1>4. ASSUME NEW p \in Procs, NEW k \in CRs, Begin(p, k) PROVE cr' = cr
  BY <1>4 DEF Begin
<1>5. ASSUME NEW p \in Procs, NEW kind \in Kinds, Apply(p, kind) \/ Panic(p, kind)
      PROVE  cr' = cr
  BY <1>5 DEF Apply, ApplyWrite, ApplyInSync, ApplyError, Panic
<1>6. CASE UNCHANGED vars
  BY <1>0, <1>6 DEF vars
<1>7. QED
  BY <1>0, <1>1, <1>2, <1>3, <1>4, <1>5, <1>6 DEF Next, Controllers, Reconcile

(* A worker that has something in hand belongs to the leader, and its copy *)
(* is between the children and the CR.                                     *)
LEMMA InHand ==
  ASSUME LeaderInv, elect, NEW p \in Procs, NEW kind \in Kinds, worker[p][kind].step # 0
  PROVE  /\ Running(p) /\ Kind[worker[p][kind].key] = kind
         /\ worker[p][kind].key \in CRs /\ worker[p][kind].key # NoKey
         /\ worker[p][kind].copy.gen \in Nat
         /\ UpTo(worker[p][kind].key, worker[p][kind].copy.gen)
         /\ worker[p][kind].copy.gen <= cr[worker[p][kind].key].gen
         /\ worker[p][kind].step \in 1 .. Len(Parts) + 1
<1> DEFINE w == worker[p][kind]
<1>1. TypeOK /\ IdleInv /\ AskedInv /\ HandInv
  BY DEF LeaderInv
<1>2. w \in WorkerType /\ w.key # NoKey
  BY <1>1 DEF TypeOK
<1>3. w.key \in CRs /\ w.copy.gen \in Nat /\ w.step \in 1 .. Len(Parts) + 1
  BY <1>2, PartsIndex DEF WorkerType, CRType
<1>4. Running(p) /\ Kind[w.key] = kind
  BY <1>1 DEF IdleInv
<1>5. UpTo(w.key, w.copy.gen) /\ w.copy.gen <= crCache[p][w.key].gen
  BY <1>1 DEF HandInv
<1>6. crCache[p][w.key].gen <= cr[w.key].gen
  BY <1>1, <1>3, <1>4 DEF AskedInv
<1>7. crCache[p][w.key].gen \in Nat /\ cr[w.key].gen \in Nat
  BY <1>1, <1>3, Gens
<1>8. QED
  BY <1>2, <1>3, <1>4, <1>5, <1>6, <1>7

(* What a worker has done stays done while its copy is of the last spec.   *)
LEMMA DoneFramed ==
  ASSUME LeaderInv, elect, DoneInv, [Next]_vars, NEW q \in Procs, NEW d \in Kinds,
         worker'[q][d] = worker[q][d], worker[q][d].step # 0,
         UNCHANGED have, worker[q][d].copy.gen = cr'[worker[q][d].key].gen,
         NEW i \in 1 .. worker[q][d].step - 1
  PROVE  have'[worker[q][d].key][Parts[i]] = worker[q][d].copy.gen
<1> DEFINE w == worker[q][d]
<1>1. w.key \in CRs /\ w.copy.gen <= cr[w.key].gen /\ w.copy.gen \in Nat
  BY InHand
<1>2. TypeOK /\ cr[w.key].gen \in Nat
  BY <1>1, Gens DEF LeaderInv
<1>3. cr'[w.key].gen >= cr[w.key].gen
  BY <1>1, <1>2, SpecGrows
<1>4. w.copy.gen = cr[w.key].gen
  BY <1>1, <1>2, <1>3
<1>5. QED
  BY <1>4 DEF DoneInv

(* Apart from Apply, a worker keeps what it has in hand, drops it or       *)
(* begins anew.                                                            *)
LEMMA HandsKept ==
  ASSUME TypeOK, [Next]_vars, \A p \in Procs, kind \in Kinds : ~Apply(p, kind)
  PROVE  /\ UNCHANGED have
         /\ \A q \in Procs, d \in Kinds :
              worker'[q][d] = worker[q][d] \/ worker'[q][d].step \in {0, 1}
<1> DEFINE Kept == \A q \in Procs, d \in Kinds :
                     worker'[q][d] = worker[q][d] \/ worker'[q][d].step \in {0, 1}
<1> USE DEF apiVars
<1>0. MemoryTyped
  BY TypeParts
<1>1. ASSUME NEW k \in CRs, Edit(k) PROVE UNCHANGED <<have, worker>>
  BY <1>1 DEF Edit
<1>2. ASSUME NEW p \in Procs, Forget(p) PROVE Kept
  BY <1>0, <1>2, Constants DEF Forget, MemoryTyped
<1>3. ASSUME NEW p \in Procs, Process(p) PROVE UNCHANGED have /\ Kept
  BY <1>2, <1>3 DEF Process, AddPod, StartProcess, StartControllers, RemovePod, EndProcess, Crash
<1>4. ASSUME NEW p \in Procs, Informers(p) PROVE UNCHANGED <<have, worker>>
  BY <1>4 DEF Informers, WatchCR, WatchChild, Resync
<1>5. ASSUME NEW p \in Procs, NEW k \in CRs, Begin(p, k) PROVE UNCHANGED have /\ Kept
  <2>1. Kind[k] \in Kinds
    BY KindAssumption
  <2>2. QED
    BY <1>0, <1>5, <2>1 DEF Begin, MemoryTyped
<1>6. ASSUME NEW p \in Procs, NEW kind \in Kinds, Panic(p, kind) PROVE UNCHANGED have /\ Kept
  BY <1>2, <1>6 DEF Panic
<1>7. ASSUME NEW p \in Procs, NEW kind \in Kinds, UpdateStatus(p, kind)
      PROVE  UNCHANGED have /\ Kept
  <2>1. worker' = [worker EXCEPT ![p][kind] = Idle] /\ UNCHANGED have
    BY <1>7 DEF UpdateStatus, Return, ReturnError
  <2>2. QED
    BY <1>0, <2>1, Constants DEF MemoryTyped
<1>8. CASE UNCHANGED vars
  BY <1>8 DEF vars
<1>9. QED
  BY <1>1, <1>3, <1>4, <1>5, <1>6, <1>7, <1>8 DEF Next, Controllers, Reconcile

(* What Apply does to the workers and the children.                        *)
LEMMA Applied ==
  ASSUME LeaderInv, elect, NEW p \in Procs, NEW kind \in Kinds, Apply(p, kind)
  PROVE  LET w == worker[p][kind] IN
         /\ w.step \in DOMAIN Parts /\ w.key \in CRs /\ UNCHANGED cr
         /\ \A q \in Procs, d \in Kinds : <<q, d>> # <<p, kind>> => worker'[q][d] = worker[q][d]
         /\ \/ worker'[p][kind] = Idle /\ UNCHANGED have
            \/ /\ worker'[p][kind] = [w EXCEPT !.step = w.step + 1]
               /\ \/ have' = [have EXCEPT ![w.key][Parts[w.step]] = w.copy.gen]
                  \/ UNCHANGED have /\ childCache[p][w.key][Parts[w.step]] = w.copy.gen
<1> DEFINE w == worker[p][kind]
           x == Parts[w.step]
<1> USE DEF apiVars
<1>0. TypeOK /\ MemoryTyped
  BY TypeParts DEF LeaderInv
<1>1. w \in WorkerType /\ w.step \in DOMAIN Parts /\ w.step # 0
  BY <1>0, PartsIndex DEF Apply, MemoryTyped
<1>2. w.key \in CRs
  BY <1>1, InHand
<1>3. CASE ApplyWrite(p, kind, w, x)
  BY <1>0, <1>1, <1>2, <1>3 DEF ApplyWrite, Proceed, MemoryTyped, WorkerType
<1>4. CASE ApplyInSync(p, kind, w, x)
  BY <1>0, <1>1, <1>2, <1>4 DEF ApplyInSync, Proceed, Seen, MemoryTyped, WorkerType
<1>5. CASE ApplyError(p, kind, w, x)
  BY <1>0, <1>1, <1>2, <1>5 DEF ApplyError, ReturnError, MemoryTyped
<1>6. QED
  BY <1>3, <1>4, <1>5 DEF Apply

LEMMA DoneStep ==
  ASSUME LeaderInv, [Next]_vars, elect, SeenInv, DoneInv
  PROVE  DoneInv'
<1>1. TypeOK /\ OneLeader /\ ApiTyped
  BY TypeParts DEF LeaderInv
<1> SUFFICES ASSUME NEW q \in Procs, NEW d \in Kinds, worker'[q][d].step # 0,
                    worker'[q][d].copy.gen = cr'[worker'[q][d].key].gen,
                    NEW i \in 1 .. worker'[q][d].step - 1
             PROVE  have'[worker'[q][d].key][Parts[i]] = worker'[q][d].copy.gen
  BY DEF DoneInv
<1>2. CASE \A p \in Procs, kind \in Kinds : ~Apply(p, kind)
  <2>1. worker'[q][d] = worker[q][d] /\ UNCHANGED have
    BY <1>1, <1>2, HandsKept
  <2>2. QED
    BY <2>1, DoneFramed
<1>3. ASSUME NEW p \in Procs, NEW kind \in Kinds, Apply(p, kind)
      PROVE  have'[worker'[q][d].key][Parts[i]] = worker'[q][d].copy.gen
  <2> DEFINE w == worker[p][kind]
             x == Parts[w.step]
  <2>1. /\ w.step \in DOMAIN Parts /\ w.key \in CRs /\ UNCHANGED cr
        /\ <<q, d>> # <<p, kind>> => worker'[q][d] = worker[q][d]
        /\ \/ worker'[p][kind] = Idle /\ UNCHANGED have
           \/ /\ worker'[p][kind] = [w EXCEPT !.step = w.step + 1]
              /\ \/ have' = [have EXCEPT ![w.key][x] = w.copy.gen]
                 \/ UNCHANGED have /\ childCache[p][w.key][x] = w.copy.gen
    BY <1>3, Applied
  <2>2. w.step # 0 /\ w \in WorkerType /\ x \in Part
    BY <1>1, <2>1, PartsIndex DEF TypeOK
  <2>3. /\ Running(p) /\ Kind[w.key] = kind /\ UpTo(w.key, w.copy.gen)
        /\ w.copy.gen \in Nat /\ w.step \in 1 .. Len(Parts)
    BY <2>1, <2>2, InHand, PartsIndex
  <2>4. CASE <<q, d>> # <<p, kind>>
    <3>1. worker'[q][d] = worker[q][d] /\ worker[q][d].step # 0
      BY <2>1, <2>4
    <3>2. Running(q) /\ Kind[worker[q][d].key] = d /\ worker[q][d].key \in CRs
      BY <3>1, InHand
    <3>3. worker[q][d].key # w.key
      BY <1>1, <2>3, <2>4, <3>2 DEF OneLeader
    <3>4. have'[worker[q][d].key] = have[worker[q][d].key]
      BY <1>1, <2>1, <3>2, <3>3 DEF ApiTyped
    <3>5. worker[q][d].copy.gen = cr[worker[q][d].key].gen
      BY <2>1, <3>1
    <3>6. have[worker[q][d].key][Parts[i]] = worker[q][d].copy.gen
      BY <3>1, <3>5 DEF DoneInv
    <3>7. QED
      BY <3>1, <3>4, <3>6
  <2>5. CASE q = p /\ d = kind
    <3>1. /\ worker'[q][d].key = w.key /\ worker'[q][d].copy = w.copy
          /\ worker'[q][d].step = w.step + 1
      BY <2>1, <2>2, <2>5, Constants DEF WorkerType
    <3>2. \A n \in 1 .. w.step - 1 : have[w.key][Parts[n]] = w.copy.gen
      BY <2>1, <2>2, <2>5, <3>1 DEF DoneInv
    <3>3. have'[w.key][x] = w.copy.gen
      <4>1. CASE have' = [have EXCEPT ![w.key][x] = w.copy.gen]
        BY <1>1, <2>1, <2>2, <4>1 DEF ApiTyped
      <4>2. CASE UNCHANGED have /\ childCache[p][w.key][x] = w.copy.gen
        <5>1. have[w.key][x] >= w.copy.gen /\ have[w.key][x] <= w.copy.gen
          BY <2>1, <2>2, <2>3, <4>2 DEF SeenInv, UpTo
        <5>2. have[w.key][x] \in Nat
          BY <1>1, <2>1, <2>2 DEF ApiTyped
        <5>3. QED
          BY <2>3, <4>2, <5>1, <5>2
      <4>3. QED
        BY <2>1, <2>5, <3>1, <4>1, <4>2, <2>2, Constants
    <3>4. \A y \in Part : have'[w.key][y] = have[w.key][y] \/ have'[w.key][y] = w.copy.gen
      BY <1>1, <2>1, <2>2 DEF ApiTyped
    <3>5. i \in 1 .. w.step /\ Parts[i] \in Part
      BY <2>3, <3>1, PartsIndex
    <3>6. have'[w.key][Parts[i]] = w.copy.gen
      BY <2>3, <3>2, <3>3, <3>4, <3>5
    <3>7. QED
      BY <3>1, <3>6
  <2>6. QED
    BY <2>4, <2>5
<1>4. QED
  BY <1>2, <1>3

LEMMA ElectFixed == ASSUME [Next]_vars PROVE elect' = elect
<1> USE DEF procVars
<1>1. ASSUME NEW k \in CRs, Edit(k) PROVE elect' = elect
  BY <1>1 DEF Edit
<1>2. ASSUME NEW p \in Procs, Process(p) PROVE elect' = elect
  BY <1>2 DEF Process, AddPod, StartProcess, StartControllers, RemovePod, EndProcess, Crash
<1>3. ASSUME NEW p \in Procs, Informers(p) PROVE elect' = elect
  BY <1>3 DEF Informers, WatchCR, WatchChild, Resync
<1>4. ASSUME NEW p \in Procs, NEW k \in CRs, Begin(p, k) PROVE elect' = elect
  BY <1>4 DEF Begin
<1>5. ASSUME NEW p \in Procs, NEW kind \in Kinds, Reconcile(p, kind) PROVE elect' = elect
  BY <1>5 DEF Reconcile, Apply, ApplyWrite, ApplyInSync, ApplyError, Panic, UpdateStatus
<1>6. CASE UNCHANGED vars
  BY <1>6 DEF vars
<1>7. QED
  BY <1>1, <1>2, <1>3, <1>4, <1>5, <1>6 DEF Next, Controllers

(* A settled CR stays settled until it is edited.                          *)
LEMMA SettledStays ==
  ASSUME LeaderInv, [Next]_vars, elect, NEW k \in CRs, Settled(k),
         cr'[k].gen = cr[k].gen, cr'[k].ready
  PROVE  Settled(k)'
<1>1. LeaderInv' /\ \A x \in Part : have'[k][x] >= have[k][x]
  BY LeaderStep
<1>2. TypeOK /\ TypeOK' /\ elect'
  BY <1>1, ElectFixed DEF LeaderInv
<1>3. \A x \in Part : have'[k][x] <= cr'[k].gen
  BY <1>1, <1>2 DEF LeaderInv, AskedInv, UpTo
<1>4. \A x \in Part : have[k][x] \in Nat /\ have'[k][x] \in Nat
  BY <1>2 DEF TypeOK
<1>5. cr[k].gen \in Nat
  BY <1>2, Gens
<1>6. \A x \in Part : have'[k][x] = cr'[k].gen
  BY <1>1, <1>3, <1>4, <1>5 DEF Settled
<1>7. QED
  BY <1>6 DEF Settled

(* The same event of the leader's still comes, its worker has the CR in    *)
(* hand, or it is in the queue.                                            *)
LEMMA PendingKept ==
  ASSUME LeaderInv, [Next]_vars, elect, LeaderLosesNoWork, NEW q \in Procs, NEW k \in CRs,
         run[q] = "active", cr'[k] = cr[k],
         Pending(q, k) => Pending(q, k)'
  PROVE  (Settled(k) \/ Pending(q, k))'
<1>1. CASE Settled(k)
  <2>1. cr'[k].ready /\ cr'[k].gen = cr[k].gen
    BY <1>1 DEF Settled
  <2>2. QED
    BY <1>1, <2>1, SettledStays
<1>2. CASE Pending(q, k)
  BY <1>2
<1>3. QED
  BY <1>1, <1>2 DEF LeaderLosesNoWork

LEMMA WorkStep ==
  ASSUME WorkInv, [Next]_vars, elect, NEW q \in Procs, NEW j \in CRs, run'[q] = "active"
  PROVE  (Settled(j) \/ Pending(q, j))'
<1> USE DEF apiVars, procVars, cacheVars
<1>0. LeaderInv /\ LeaderLosesNoWork /\ SeenInv /\ DoneInv
  BY DEF WorkInv
<1>a. TypeOK /\ ApiTyped /\ ProcTyped /\ MemoryTyped /\ OneLeader /\ AskedInv /\ IdleInv
  BY <1>0, TypeParts DEF LeaderInv
<1>b. Kind[j] \in Kinds
  BY KindAssumption
<1> DEFINE Kept == (Settled(j) \/ Pending(q, j))'
           Same == run[q] = "active" /\ cr'[j] = cr[j] /\ (Pending(q, j) => Pending(q, j)')
<1>c. Same => Kept
  BY <1>0, PendingKept
<1> HIDE DEF Same
<1>1. ASSUME NEW k \in CRs, Edit(k) PROVE Kept
  <2>1. UNCHANGED <<run, queue, worker, crCache>>
    BY <1>1 DEF Edit
  <2>2. CASE j # k
    BY <1>1, <1>a, <1>c, <2>1, <2>2 DEF Same, Edit, ApiTyped, Pending
  <2>3. CASE j = k
    <3>1. cr'[j].gen = cr[j].gen + 1 /\ cr[j].gen \in Nat /\ crCache[q][j].gen \in Nat
      BY <1>1, <1>a, <2>3 DEF Edit, ApiTyped, MemoryTyped, CRType
    <3>2. crCache[q][j].gen <= cr[j].gen
      BY <1>a, <2>1 DEF AskedInv, Running
    <3>3. crCache'[q][j] # cr'[j]
      BY <2>1, <3>1, <3>2
    <3>4. QED
      BY <3>3 DEF Pending
  <2>4. QED
    BY <2>2, <2>3
<1>2. ASSUME NEW p \in Procs, AddPod(p) \/ StartProcess(p) PROVE Kept
  BY <1>2, <1>a, <1>c DEF Same, AddPod, StartProcess, ProcTyped, Pending
<1>3. ASSUME NEW p \in Procs, StartControllers(p) PROVE Kept
  <2>1. q = p
    BY <1>3, <1>a DEF StartControllers, LeaseFree, ProcTyped
  <2>2. j \in queue'[q]
    BY <1>3, <1>a, <2>1 DEF StartControllers, MemoryTyped
  <2>3. QED
    BY <2>2 DEF Pending
<1>4. ASSUME NEW p \in Procs, Forget(p), cr' = cr PROVE Kept
  <2>1. q # p
    BY <1>4, <1>a DEF Forget, ProcTyped
  <2>2. QED
    BY <1>4, <1>a, <1>c, <2>1 DEF Same, Forget, ProcTyped, MemoryTyped, Pending
<1>5. ASSUME NEW p \in Procs, RemovePod(p) PROVE Kept
  <2>1. CASE run[p] = "active"
    BY <1>5, <1>a, <1>c, <2>1 DEF Same, RemovePod, ProcTyped, Pending
  <2>2. CASE run[p] # "active"
    BY <1>4, <1>5, <2>2 DEF RemovePod
  <2>3. QED
    BY <2>1, <2>2
<1>6. ASSUME NEW p \in Procs, EndProcess(p) \/ Crash(p) PROVE Kept
  BY <1>4, <1>6 DEF EndProcess, Crash
<1>7. ASSUME NEW p \in Procs, NEW k \in CRs, WatchCR(p, k) PROVE Kept
  <2>1. CASE q = p /\ j = k
    <3>1. j \in queue'[q]
      BY <1>7, <1>a, <2>1 DEF WatchCR, MemoryTyped
    <3>2. QED
      BY <3>1 DEF Pending
  <2>2. CASE <<q, j>> # <<p, k>>
    <3>1. crCache'[q][j] = crCache[q][j] /\ queue[q] \subseteq queue'[q]
      BY <1>7, <1>a, <2>2 DEF WatchCR, MemoryTyped
    <3>2. QED
      BY <1>7, <1>c, <3>1 DEF Same, WatchCR, Pending
  <2>3. QED
    BY <2>1, <2>2
<1>8. ASSUME NEW p \in Procs, NEW k \in CRs, NEW x \in Part, WatchChild(p, k, x) PROVE Kept
  BY <1>8, <1>c DEF Same, WatchChild, Pending
<1>9. ASSUME NEW p \in Procs, Resync(p) PROVE Kept
  <2>1. queue[q] \subseteq queue'[q]
    BY <1>9, <1>a DEF Resync, MemoryTyped
  <2>2. QED
    BY <1>9, <1>c, <2>1 DEF Same, Resync, Pending
<1>10. ASSUME NEW p \in Procs, NEW k \in CRs, Begin(p, k) PROVE Kept
  <2>1. /\ Kind[k] \in Kinds /\ worker[p][Kind[k]].key = NoKey
        /\ worker'[p][Kind[k]].key = k
        /\ \A d \in Kinds : <<q, d>> # <<p, Kind[k]>> => worker'[q][d] = worker[q][d]
        /\ q # p => queue'[q] = queue[q]
        /\ q = p => queue'[q] = queue[q] \ {k}
    BY <1>10, <1>a, KindAssumption DEF Begin, MemoryTyped, Idle
  <2>2. CASE q = p /\ j = k
    BY <2>1, <2>2 DEF Pending
  <2>3. CASE <<q, j>> # <<p, k>>
    <3>1. j \in queue[q] => j \in queue'[q]
      BY <2>1, <2>3
    <3>2. worker[q][Kind[j]].key = j => worker'[q][Kind[j]].key = j
      BY <1>b, <2>1, KeyAssumption
    <3>3. QED
      BY <1>10, <1>c, <3>1, <3>2 DEF Same, Begin, Pending
  <2>4. QED
    BY <2>2, <2>3
<1>11. ASSUME NEW p \in Procs, NEW kind \in Kinds, ReturnError(p, kind),
              UNCHANGED <<run, cr, crCache>>, worker[p][kind].key \in CRs
       PROVE  Kept
  <2>1. /\ \A d \in Kinds : <<q, d>> # <<p, kind>> => worker'[q][d] = worker[q][d]
        /\ queue[q] \subseteq queue'[q]
        /\ q = p => worker[p][kind].key \in queue'[q]
    BY <1>11, <1>a DEF ReturnError, MemoryTyped
  <2>2. worker[q][Kind[j]].key = j => worker'[q][Kind[j]].key = j \/ j \in queue'[q]
    BY <1>b, <2>1
  <2>3. QED
    BY <1>11, <1>c, <2>1, <2>2 DEF Same, Pending
<1>12. ASSUME NEW p \in Procs, NEW kind \in Kinds, Proceed(p, kind), UNCHANGED <<run, cr, crCache>>
       PROVE  Kept
  <2>1. \A d \in Kinds : worker'[q][d].key = worker[q][d].key
    BY <1>12, <1>a DEF Proceed, MemoryTyped, WorkerType
  <2>2. QED
    BY <1>12, <1>b, <1>c, <2>1 DEF Same, Proceed, Pending
<1>13. ASSUME NEW p \in Procs, NEW kind \in Kinds, Apply(p, kind) PROVE Kept
  <2>1. worker[p][kind].key \in CRs /\ UNCHANGED <<run, cr, crCache>>
    BY <1>0, <1>13, Applied DEF Apply, ApplyWrite, ApplyInSync, ApplyError
  <2>2. Proceed(p, kind) \/ ReturnError(p, kind)
    BY <1>13 DEF Apply, ApplyWrite, ApplyInSync, ApplyError
  <2>3. QED
    BY <1>11, <1>12, <2>1, <2>2
<1>14. ASSUME NEW p \in Procs, NEW kind \in Kinds, Panic(p, kind) PROVE Kept
  BY <1>4, <1>14 DEF Panic
<1>15. ASSUME NEW p \in Procs, NEW kind \in Kinds, UpdateStatus(p, kind) PROVE Kept
  <2> DEFINE w == worker[p][kind]
  <2>1. w.step = Len(Parts) + 1 /\ w.step # 0
    BY <1>15, PartsIndex DEF UpdateStatus
  <2>2. w.key \in CRs
    BY <1>0, <2>1, InHand
  <2>3. CASE cr[w.key] # w.copy
    BY <1>11, <1>15, <2>2, <2>3 DEF UpdateStatus
  <2>4. CASE cr[w.key] = w.copy
    <3>1. /\ cr' = [cr EXCEPT ![w.key].ready = TRUE]
          /\ worker' = [worker EXCEPT ![p][kind] = Idle]
          /\ UNCHANGED <<run, have, crCache, queue>>
      BY <1>15, <2>4 DEF UpdateStatus, Return
    <3>2. CASE j = w.key
      <4>1. cr'[j].ready /\ cr'[j].gen = cr[j].gen
        BY <1>a, <3>1, <3>2 DEF ApiTyped, CRType
      <4>2. \A i \in 1 .. Len(Parts) : have[j][Parts[i]] = cr[j].gen
        BY <1>0, <2>1, <2>4, <3>2, PartsIndex DEF DoneInv
      <4>3. \A x \in Part : have'[j][x] = cr'[j].gen
        BY <3>1, <4>1, <4>2, PartsIndex DEF Part
      <4>4. QED
        BY <4>1, <4>3 DEF Settled
    <3>3. CASE j # w.key
      <4>1. cr'[j] = cr[j]
        BY <1>a, <2>2, <3>1, <3>3 DEF ApiTyped
      <4>2. \A d \in Kinds : <<q, d>> # <<p, kind>> => worker'[q][d] = worker[q][d]
        BY <1>a, <3>1 DEF MemoryTyped
      <4>3. worker[q][Kind[j]].key = j => worker'[q][Kind[j]].key = j
        BY <1>b, <3>3, <4>2
      <4>4. QED
        BY <1>c, <3>1, <4>1, <4>3 DEF Same, Pending
    <3>4. QED
      BY <3>2, <3>3
  <2>5. QED
    BY <2>3, <2>4
<1>16. CASE UNCHANGED vars
  BY <1>16, <1>c DEF Same, vars, Pending
<1>17. QED
  BY <1>1, <1>2, <1>3, <1>5, <1>6, <1>7, <1>8, <1>9, <1>10, <1>13, <1>14, <1>15, <1>16
  DEF Next, Process, Informers, Controllers, Reconcile

(* With leader election a leader never forgets a CR it has not settled.    *)
THEOREM LeaderForgetsNothing == Safety => []LeaderLosesNoWork
<1>1. Init => WorkInv
  <2> SUFFICES ASSUME Init PROVE WorkInv
    OBVIOUS
  <2>1. LeaderInv
    BY LeaderInitially
  <2>2. \A p \in Procs : ~Running(p) /\ run[p] # "active"
    BY DEF Init, Running
  <2>3. \A p \in Procs, kind \in Kinds : worker[p][kind].step = 0
    BY Constants DEF Init
  <2>4. QED
    BY <2>1, <2>2, <2>3 DEF WorkInv, SeenInv, DoneInv, LeaderLosesNoWork
<1>2. WorkInv /\ [Next]_vars => WorkInv'
  <2> SUFFICES ASSUME WorkInv, [Next]_vars PROVE WorkInv'
    OBVIOUS
  <2>1. LeaderInv' /\ elect' = elect
    BY LeaderStep, ElectFixed DEF WorkInv
  <2>2. elect => SeenInv' /\ DoneInv'
    BY SeenStep, DoneStep DEF WorkInv
  <2>3. LeaderLosesNoWork'
    BY <2>1, WorkStep DEF LeaderLosesNoWork
  <2>4. QED
    BY <2>1, <2>2, <2>3 DEF WorkInv
<1>3. WorkInv => LeaderLosesNoWork
  BY DEF WorkInv
<1>4. QED
  BY <1>1, <1>2, <1>3, PTL DEF Safety
=============================================================================
