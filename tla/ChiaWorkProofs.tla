-------------------------- MODULE ChiaWorkProofs --------------------------
(***************************************************************************)
(* ChiaComponent never loses work: a CR whose children are not in place is *)
(* one its controller is bound to look at again.  On top of the order of   *)
(* versions (VersionInv), the invariant says that the cache of the         *)
(* children cannot show the worker a child that is not there, and that     *)
(* nobody undoes what the worker has done for the present CR.              *)
(***************************************************************************)
EXTENDS ChiaRefinementProofs

USE DEF CRType, ObjType

(* What the cache has of the present CR's children is there, or newer. *)
CacheInv ==
  \A k \in CRs, c \in Children :
    cr[k] # NoCR /\ childCache[k][c].owner = cr[k].uid =>
      /\ child[k][c].owner = cr[k].uid
      /\ childCache[k][c].gen <= child[k][c].gen

(* The children the worker has handled are still what its copy asks for. *)
InPlaceInv ==
  pc \in {"apply", "status"} /\ copy.uid = cr[key].uid =>
    \A i \in 1 .. Len(Plan) : i < step => child[key][Plan[i]] = Assemble(copy)

WorkInv == VersionInv /\ CacheInv /\ InPlaceInv /\ NoLostWork
-----------------------------------------------------------------------------
(* With users that leave the children alone and children without           *)
(* finalizers, a child stays, is garbage, or is written by the worker.     *)
KeepEffect(k, c) ==
  \/ child'[k][c] = child[k][c]
  \/ child[k][c].owner # cr[k].uid /\ UNCHANGED <<cr, crCache, childCache, copy, key, pc>>
  \/ /\ pc = "apply" /\ key = k /\ Plan[step] = c
     /\ child'[k][c] = Assemble(copy)
     /\ UNCHANGED <<cr, crCache, childCache, copy, key>>

LEMMA KeepEffects ==
  ASSUME Finalizers = {}, MaxMeddles = 0, AppliedInv, [Next]_vars
  PROVE  \A k \in CRs, c \in Children : KeepEffect(k, c)
<1> USE DEF apiVars, cacheVars, workVars, bounds
<1>0. TypeOK /\ NoneTerminating /\ meddles \in Nat
  BY DEF AppliedInv, TypeOK
<1>1. ASSUME NEW k \in CRs, NEW c \in Children, MeddleWithChild(k, c)
      PROVE  FALSE
  BY <1>0, <1>1 DEF MeddleWithChild
<1>2. ASSUME NEW k \in CRs, NEW c \in Children, GarbageCollect(k, c)
      PROVE  \A j \in CRs, d \in Children : KeepEffect(j, d)
  <2>1. Put(k, c, NoObj) /\ child[k][c].owner # cr[k].uid
    BY <1>2 DEF GarbageCollect, Remove
  <2>2. UNCHANGED <<cr, crCache, childCache, copy, key, pc>>
    BY <1>2 DEF GarbageCollect
  <2>3. QED
    BY <1>0, <2>1, <2>2, PutEffect DEF KeepEffect
<1>3. ASSUME NEW k \in CRs, NEW c \in Children, Finalize(k, c)
      PROVE  FALSE
  BY <1>0, <1>3 DEF Finalize, NoneTerminating
<1>4. CASE Apply /\ ApplyWrite(Plan[step])
  <2>1. key \in CRs /\ Plan[step] \in Children /\ pc = "apply"
    BY <1>0, <1>4, PlanIndex DEF TypeOK, Apply
  <2>2. /\ Put(key, Plan[step], Assemble(copy))
        /\ UNCHANGED <<cr, crCache, childCache, copy, key>>
    BY <1>4 DEF ApplyWrite, Proceed
  <2>3. QED
    BY <1>0, <2>1, <2>2, PutEffect DEF KeepEffect
<1>5. CASE UNCHANGED child
  BY <1>5 DEF KeepEffect
<1>6. QED
  BY <1>1, <1>2, <1>3, <1>4, <1>5
  DEF Next, User, Cluster, Informers, Operator, Reconcile, vars, CreateCR, EditCR,
      DeleteCR, WatchCR, WatchChild, Resync, Start, GetCR, Apply, ApplyInSync,
      ApplyBackOff, ApplyError, UpdateStatus, Fault, Crash, Restart

LEMMA CachePreserved ==
  ASSUME Finalizers = {}, MaxMeddles = 0, VersionInv, CacheInv, [Next]_vars
  PROVE  CacheInv'
<1>0. AppliedInv /\ TypeOK /\ KnownInv /\ CopyInv /\ OrderInv /\ VersionInv' /\ TypeOK'
  BY VersionPreserved DEF VersionInv, AppliedInv
<1> SUFFICES ASSUME NEW k \in CRs, NEW c \in Children,
                    cr'[k] # NoCR, childCache'[k][c].owner = cr'[k].uid
             PROVE  child'[k][c].owner = cr'[k].uid /\ childCache'[k][c].gen <= child'[k][c].gen
  BY DEF CacheInv
<1>a. cr[k] \in CRType /\ copy \in CRType /\ nextUid \in Nat
  BY <1>0 DEF TypeOK
<1>d. child[k][c] \in ObjType /\ childCache[k][c] \in ObjType
  BY <1>0 DEF TypeOK
<1>c. cr'[k] \in CRType
  BY <1>0 DEF TypeOK
<1>b. /\ Known(cr[k]) /\ cr'[k].uid # 0 /\ childCache[k][c].owner < nextUid
  BY <1>0 DEF VersionInv, KnownInv, Known
<1>1. /\ cr[k] \in CRType /\ cr'[k] \in CRType /\ copy \in CRType
      /\ child[k][c] \in ObjType /\ childCache[k][c] \in ObjType /\ nextUid \in Nat
      /\ Known(cr[k]) /\ cr'[k].uid # 0 /\ childCache[k][c].owner < nextUid
  BY <1>a, <1>b, <1>c, <1>d
<1>2. /\ CREffect(k) /\ KeepEffect(k, c) /\ ChildCacheEffect(k, c)
  BY <1>0, CREffects, KeepEffects, ChildCacheEffects
<1>3. childCache'[k][c] # NoObj
  BY <1>1 DEF NoObj
<1>4. CASE childCache'[k][c] = child[k][c] /\ UNCHANGED <<cr, child>>
  BY <1>1, <1>4
<1>5. CASE childCache'[k][c] = childCache[k][c]
  <2>1. cr[k].uid = cr'[k].uid /\ cr[k] # NoCR
    <3>1. cr[k] = NoCR => cr'[k].uid = nextUid \/ (pc = "status" /\ cr[k] = copy)
      BY <1>1, <1>2 DEF CREffect
    <3>2. cr[k] # NoCR
      BY <1>0, <1>1, <1>5, <3>1 DEF CopyInv
    <3>3. QED
      BY <1>1, <1>2, <3>2 DEF CREffect
  <2>2. child[k][c].owner = cr[k].uid /\ childCache[k][c].gen <= child[k][c].gen
    BY <1>5, <2>1 DEF CacheInv
  <2>3. CASE child'[k][c] = child[k][c]
    BY <1>5, <2>1, <2>2, <2>3
  <2>4. CASE pc = "apply" /\ key = k /\ child'[k][c] = Assemble(copy)
    <3>1. Before(copy, cr[k]) /\ From(child[k][c], copy)
      BY <1>0, <2>1, <2>4, KeyAssumption DEF OrderInv, CopyInv, ChildrenFrom
    <3>2. copy.uid = cr[k].uid /\ child[k][c].gen <= copy.gen
      BY <1>1, <2>2, <3>1 DEF Before, From
    <3>3. QED
      BY <1>1, <1>5, <2>1, <2>2, <2>4, <3>2 DEF Assemble
  <2>5. QED
    BY <1>2, <2>2, <2>3, <2>4 DEF KeepEffect
<1>6. QED
  BY <1>2, <1>3, <1>4, <1>5 DEF ChildCacheEffect

(* The worker's step through Reconcile. *)
StepEffect ==
  \/ pc' \in {"idle", "get"}
  \/ pc' = "apply" /\ step' = 1
  \/ UNCHANGED <<pc, step, copy, key>>
  \/ /\ pc = "apply" /\ step' = step + 1
     /\ UNCHANGED <<copy, key, cr>>
     /\ \/ child'[key][Plan[step]] = Assemble(copy)
        \/ InSync(Plan[step]) /\ UNCHANGED child

LEMMA StepEffects ==
  ASSUME AppliedInv, CopyInv, [Next]_vars
  PROVE  StepEffect
<1> USE DEF apiVars, cacheVars, workVars, bounds
<1>0. TypeOK /\ NoneTerminating
  BY DEF AppliedInv
<1>1. CASE Apply
  <2>1. key \in CRs /\ Plan[step] \in Children /\ pc = "apply"
    BY <1>0, <1>1, PlanIndex DEF TypeOK, Apply
  <2>2. CASE ApplyWrite(Plan[step])
    <3>1. child'[key][Plan[step]] = Assemble(copy)
      BY <1>0, <2>1, <2>2, PutEffect DEF ApplyWrite
    <3>2. QED
      BY <2>1, <2>2, <3>1 DEF ApplyWrite, Proceed, StepEffect
  <2>3. CASE ApplyInSync(Plan[step])
    BY <2>1, <2>3 DEF ApplyInSync, Proceed, StepEffect
  <2>4. CASE ApplyBackOff(Plan[step])
    BY <1>0, <2>1, <2>4 DEF ApplyBackOff, Cached, NoneTerminating
  <2>5. CASE ApplyError(Plan[step])
    BY <2>5 DEF ApplyError, ReturnError, Idle, StepEffect
  <2>6. QED
    BY <1>1, <2>2, <2>3, <2>4, <2>5 DEF Apply
<1>2. CASE GetCR
  BY <1>2 DEF GetCR, Return, Idle, StepEffect
<1>3. ASSUME NEW k \in CRs, Start(k) PROVE StepEffect
  BY <1>3 DEF Start, StepEffect
<1>4. CASE UpdateStatus \/ Fault \/ Crash
  BY <1>4 DEF UpdateStatus, Fault, Crash, Return, ReturnError, Idle, StepEffect
<1>5. CASE UNCHANGED <<pc, step, copy, key>>
  BY <1>5 DEF StepEffect
<1>6. QED
  BY <1>1, <1>2, <1>3, <1>4, <1>5
  DEF Next, User, Cluster, Informers, Operator, Reconcile, vars, CreateCR, EditCR,
      DeleteCR, MeddleWithChild, GarbageCollect, Finalize, WatchCR, WatchChild, Resync,
      Restart

(* What seems in sync is. *)
LEMMA InSyncIsTrue ==
  ASSUME VersionInv, CacheInv, pc = "apply", copy.uid = cr[key].uid, InSync(Plan[step])
  PROVE  child[key][Plan[step]] = Assemble(copy)
<1> DEFINE c == Plan[step]
<1>1. TypeOK /\ NoneTerminating /\ CopyInv /\ OrderInv /\ Known(copy)
  BY DEF VersionInv, AppliedInv, KnownInv
<1>2. key \in CRs /\ key # NoKey /\ c \in Children /\ copy # NoCR
  BY <1>1, PlanIndex, KeyAssumption DEF TypeOK, CopyInv
<1>3. copy \in CRType /\ cr[key] \in CRType /\ child[key][c] \in ObjType
  BY <1>1, <1>2 DEF TypeOK
<1>4. copy.uid # 0 /\ cr[key] # NoCR
  BY <1>1, <1>2 DEF Known, NoCR
<1>5. childCache[key][c].owner = copy.uid /\ childCache[key][c].gen = copy.gen
  BY DEF InSync, Cached, Assemble
<1>6. child[key][c].owner = copy.uid /\ copy.gen <= child[key][c].gen
  BY <1>2, <1>4, <1>5 DEF CacheInv
<1>7. From(child[key][c], copy) /\ ~child[key][c].term
  BY <1>1, <1>2 DEF OrderInv, ChildrenFrom, NoneTerminating
<1>8. child[key][c].gen = copy.gen
  BY <1>3, <1>6, <1>7 DEF From
<1>9. QED
  BY <1>3, <1>6, <1>7, <1>8 DEF Assemble

LEMMA InPlacePreserved ==
  ASSUME Finalizers = {}, MaxMeddles = 0, VersionInv, CacheInv, InPlaceInv, [Next]_vars
  PROVE  InPlaceInv'
<1>0. /\ AppliedInv /\ TypeOK /\ TypeOK' /\ KnownInv /\ CopyInv /\ CopyInv' /\ OrderInv
  BY VersionPreserved, StepTyped DEF VersionInv, AppliedInv
<1> SUFFICES ASSUME pc' \in {"apply", "status"}, copy'.uid = cr'[key'].uid,
                    NEW i \in 1 .. Len(Plan), i < step'
             PROVE  child'[key'][Plan[i]] = Assemble(copy)'
  BY DEF InPlaceInv
<1>1. CASE pc' = "apply" /\ step' = 1
  BY <1>1, PlanIndex
<1>2. CASE UNCHANGED <<copy, key>> /\ pc \in {"apply", "status"}
  <2>1. /\ key \in CRs /\ copy # NoCR /\ copy \in CRType /\ cr[key] \in CRType
        /\ nextUid \in Nat /\ Plan[i] \in Children
    BY <1>0, <1>2, PlanIndex DEF TypeOK, CopyInv
  <2>2. copy.uid # 0 /\ copy.uid < nextUid
    BY <1>0, <2>1 DEF KnownInv, Known
  <2>3. copy.uid = cr[key].uid
    <3>1. CREffect(key)
      BY <1>0, <2>1, CREffects
    <3>2. QED
      BY <1>2, <2>1, <2>2, <3>1 DEF CREffect, NoCR
  <2>4. child[key][Plan[i]] = Assemble(copy) => child'[key][Plan[i]] = Assemble(copy)
    <3>1. KeepEffect(key, Plan[i])
      BY <1>0, <2>1, KeepEffects
    <3>2. Assemble(copy).owner = cr[key].uid
      BY <2>3 DEF Assemble
    <3>3. QED
      BY <3>1, <3>2 DEF KeepEffect
  <2>5. CASE i < step
    BY <1>2, <2>3, <2>4, <2>5 DEF InPlaceInv, Assemble
  <2>6. CASE ~(i < step)
    <3>1. StepEffect /\ step \in Nat /\ i \in Nat
      BY <1>0, StepEffects, PlanIndex DEF TypeOK
    <3>2. /\ pc = "apply" /\ i = step
          /\ \/ child'[key][Plan[step]] = Assemble(copy)
             \/ InSync(Plan[step])
      BY <2>6, <3>1, <1>2 DEF StepEffect
    <3>3. InSync(Plan[step]) => child[key][Plan[step]] = Assemble(copy)
      BY <2>3, <3>2, InSyncIsTrue
    <3>4. QED
      BY <1>2, <2>4, <3>2, <3>3 DEF Assemble
  <2>7. QED
    BY <2>5, <2>6
<1>3. QED
  <2>1. StepEffect /\ CopyEffect
    BY <1>0, StepEffects, CopyEffects
  <2>2. QED
    BY <1>1, <1>2, <2>1 DEF StepEffect, CopyEffect

(* Some reason to look at k again stays, or its children are left alone.   *)
LEMMA Framed ==
  ASSUME NEW k \in CRs, Pending(k) \/ Settled(k), UNCHANGED <<cr, child, crCache>>,
         (~up \/ key = k \/ k \in queue) => (~up' \/ key' = k \/ k \in queue')
  PROVE  (Pending(k) \/ Settled(k))'
BY DEF Pending, Settled, Assemble

(* The users write the CR of k: the informer has yet to see it. *)
LEMMA WrittenIsPending ==
  ASSUME VersionInv, VersionInv', NoLostWork,
         NEW k \in CRs, CreateCR(k) \/ EditCR(k) \/ DeleteCR(k)
  PROVE  NoLostWork'
<1> USE DEF cacheVars, workVars
<1>0. /\ cr \in [CRs -> CRType] /\ cr[k] \in CRType /\ crCache[k] \in CRType
      /\ nextUid \in Nat /\ Known(crCache[k])
      /\ cr[k] # NoCR => Before(crCache[k], cr[k])
  BY DEF VersionInv, AppliedInv, TypeOK, KnownInv, OrderInv
<1>1. UNCHANGED <<child, crCache, queue, key, up>>
  BY DEF CreateCR, EditCR, DeleteCR
<1>2. cr'[k] = NoCR \/ cr'[k] # crCache[k]
  <2>1. CASE CreateCR(k)
    <3>1. cr'[k].uid = nextUid
      BY <1>0, <2>1 DEF CreateCR
    <3>2. QED
      BY <1>0, <3>1 DEF Known
  <2>2. CASE EditCR(k)
    <3>1. cr'[k].uid = cr[k].uid /\ cr'[k].gen = cr[k].gen + 1 /\ cr[k] # NoCR
      BY <1>0, <2>2 DEF EditCR
    <3>2. QED
      BY <1>0, <3>1 DEF Before
  <2>3. CASE DeleteCR(k)
    BY <1>0, <2>3 DEF DeleteCR
  <2>4. QED
    BY <2>1, <2>2, <2>3
<1>3. ASSUME NEW j \in CRs, j # k PROVE cr'[j] = cr[j]
  BY <1>0, <1>3 DEF CreateCR, EditCR, DeleteCR
<1>4. ASSUME NEW j \in CRs PROVE (Pending(j) \/ Settled(j))'
  <2>1. CASE j = k
    BY <1>1, <1>2, <2>1 DEF Pending, Settled
  <2>2. CASE j # k
    BY <1>1, <1>3, <2>2 DEF NoLostWork, Pending, Settled, Assemble
  <2>3. QED
    BY <2>1, <2>2
<1>5. QED
  BY <1>4 DEF NoLostWork

(* The garbage collector leaves the children of a CR that is settled. *)
LEMMA GarbageIsNotWork ==
  ASSUME Finalizers = {}, TypeOK, NoLostWork,
         NEW k \in CRs, NEW c \in Children, GarbageCollect(k, c)
  PROVE  NoLostWork'
<1> USE DEF cacheVars, workVars
<1>1. /\ Put(k, c, NoObj) /\ child[k][c].owner # cr[k].uid /\ child[k][c] # NoObj
      /\ UNCHANGED <<cr, crCache, queue, key, up>>
  BY DEF GarbageCollect, Remove, Live
<1>2. ASSUME NEW j \in CRs PROVE (Pending(j) \/ Settled(j))'
  <2>1. CASE Pending(j)
    BY <1>1, <2>1 DEF Pending
  <2>2. CASE Settled(j) /\ cr[j] = NoCR
    BY <1>1, <2>2 DEF Settled
  <2>3. CASE Settled(j) /\ cr[j] # NoCR
    <3>1. \A d \in Children : child[j][d] = Assemble(cr[j])
      BY <2>3 DEF Settled
    <3>2. j # k
      BY <1>1, <3>1 DEF Assemble
    <3>3. \A d \in Children : child'[j][d] = child[j][d]
      BY <1>1, <3>2, PutEffect
    <3>4. QED
      BY <1>1, <2>3, <3>1, <3>3 DEF Settled, Assemble
  <2>4. QED
    BY <2>1, <2>2, <2>3 DEF NoLostWork
<1>3. QED
  BY <1>2 DEF NoLostWork

(* The status goes through: every child is in place. *)
LEMMA DoneIsSettled ==
  ASSUME VersionInv, InPlaceInv, NoLostWork, UpdateStatus, NEW k \in CRs, key = k
  PROVE  NoLostWork'
<1> USE DEF cacheVars
<1>0. /\ TypeOK /\ pc = "status" /\ cr[k] \in CRType
      /\ UNCHANGED <<child, crCache, up>>
  BY DEF VersionInv, AppliedInv, TypeOK, UpdateStatus
<1>1. CASE cr[k] = copy
  <2>1. cr' = [cr EXCEPT ![k].ready = TRUE] /\ queue' = queue
    BY <1>1 DEF UpdateStatus, Return
  <2>2. ASSUME NEW c \in Children PROVE child[k][c] = Assemble(copy)
    <3>1. PICK i \in 1 .. Len(Plan) : Plan[i] = c
      BY PlanIndex
    <3>2. step = Len(Plan) + 1
      BY <1>0 DEF VersionInv, AppliedInv, AppliedSoFar
    <3>3. i < step
      BY <3>1, <3>2, PlanIndex
    <3>4. QED
      BY <1>0, <1>1, <3>1, <3>3 DEF InPlaceInv
  <2>3. cr'[k].ready /\ Assemble(cr'[k]) = Assemble(copy)
    BY <1>0, <1>1, <2>1 DEF TypeOK, Assemble
  <2>4. Settled(k)'
    BY <1>0, <2>2, <2>3 DEF Settled, Assemble
  <2>5. ASSUME NEW j \in CRs, j # k PROVE (Pending(j) \/ Settled(j))'
    <3>1. cr'[j] = cr[j]
      BY <1>0, <2>1, <2>5 DEF TypeOK
    <3>2. QED
      BY <1>0, <2>1, <2>5, <3>1 DEF NoLostWork, Pending, Settled, Assemble
  <2>6. QED
    BY <2>4, <2>5 DEF NoLostWork
<1>2. CASE cr[k] # copy
  <2>1. UNCHANGED cr /\ queue' = queue \cup {k}
    BY <1>2 DEF UpdateStatus, ReturnError
  <2>2. QED
    BY <1>0, <2>1, Framed DEF NoLostWork
<1>3. QED
  BY <1>1, <1>2

LEMMA NoLostPreserved ==
  ASSUME Finalizers = {}, MaxMeddles = 0, VersionInv, InPlaceInv, NoLostWork, [Next]_vars
  PROVE  NoLostWork'
<1> USE DEF apiVars, cacheVars, workVars, bounds
<1>0. /\ AppliedInv /\ TypeOK /\ NoneTerminating /\ VersionInv' /\ meddles \in Nat
      /\ \A k \in CRs : Pending(k) \/ Settled(k)
  BY VersionPreserved DEF VersionInv, AppliedInv, TypeOK, NoLostWork
<1>1. ASSUME NEW k \in CRs, CreateCR(k) \/ EditCR(k) \/ DeleteCR(k) PROVE NoLostWork'
  BY <1>0, <1>1, WrittenIsPending
<1>2. ASSUME NEW k \in CRs, NEW c \in Children, MeddleWithChild(k, c) \/ Finalize(k, c)
      PROVE  NoLostWork'
  BY <1>0, <1>2 DEF MeddleWithChild, Finalize, NoneTerminating
<1>3. ASSUME NEW k \in CRs, NEW c \in Children, GarbageCollect(k, c) PROVE NoLostWork'
  BY <1>0, <1>3, GarbageIsNotWork
<1>4. ASSUME NEW k \in CRs, WatchCR(k) PROVE NoLostWork'
  <2>1. ASSUME NEW j \in CRs PROVE (Pending(j) \/ Settled(j))'
    <3>1. CASE j = k
      BY <1>4, <3>1 DEF WatchCR, Pending
    <3>2. CASE j # k
      <4>1. crCache'[j] = crCache[j]
        BY <1>0, <1>4, <3>2 DEF WatchCR, TypeOK
      <4>2. QED
        BY <1>0, <1>4, <4>1 DEF WatchCR, Pending, Settled, Assemble
    <3>3. QED
      BY <3>1, <3>2
  <2>2. QED
    BY <2>1 DEF NoLostWork
<1>5. ASSUME NEW k \in CRs, Start(k) PROVE NoLostWork'
  <2>1. key = NoKey /\ NoKey \notin CRs
    BY <1>0, <1>5, KeyAssumption DEF Start, TypeOK
  <2>2. ASSUME NEW j \in CRs PROVE (Pending(j) \/ Settled(j))'
    BY <1>0, <1>5, <2>1, Framed DEF Start
  <2>3. QED
    BY <2>2 DEF NoLostWork
<1>6. CASE GetCR
  <2>1. key \in CRs /\ UNCHANGED <<cr, child, crCache, queue, up>>
    BY <1>0, <1>6 DEF TypeOK, GetCR, Return
  <2>2. CASE crCache[key] # NoCR
    BY <1>0, <1>6, <2>1, <2>2, Framed DEF GetCR, NoLostWork
  <2>3. CASE crCache[key] = NoCR
    <3>1. ASSUME NEW j \in CRs PROVE (Pending(j) \/ Settled(j))'
      <4>1. CASE j = key /\ cr[j] = NoCR
        BY <2>1, <4>1 DEF Settled
      <4>2. CASE j = key /\ cr[j] # NoCR
        BY <2>1, <2>3, <4>2 DEF Pending
      <4>3. CASE j # key
        BY <1>0, <2>1, <4>3, Framed
      <4>4. QED
        BY <4>1, <4>2, <4>3
    <3>2. QED
      BY <3>1 DEF NoLostWork
  <2>4. QED
    BY <2>2, <2>3
<1>7. CASE Apply
  <2>1. /\ key \in CRs /\ Plan[step] \in Children /\ UNCHANGED <<cr, crCache, up>>
        /\ pc = "apply"
    BY <1>0, <1>7, PlanIndex
    DEF TypeOK, Apply, ApplyWrite, ApplyInSync, ApplyBackOff, ApplyError
  <2>2. CASE ApplyWrite(Plan[step])
    <3>1. /\ UNCHANGED <<key, queue>>
          /\ \A j \in CRs, d \in Children : j # key => child'[j][d] = child[j][d]
      BY <1>0, <2>1, <2>2, PutEffect DEF ApplyWrite, Proceed
    <3>2. ASSUME NEW j \in CRs PROVE (Pending(j) \/ Settled(j))'
      BY <1>0, <2>1, <3>1 DEF Pending, Settled, Assemble
    <3>3. QED
      BY <3>2 DEF NoLostWork
  <2>3. CASE ApplyInSync(Plan[step]) \/ ApplyBackOff(Plan[step])
    BY <1>0, <2>1, <2>3, Framed DEF ApplyInSync, ApplyBackOff, Proceed, NoLostWork
  <2>4. CASE ApplyError(Plan[step])
    BY <1>0, <2>1, <2>4, Framed DEF ApplyError, ReturnError, NoLostWork
  <2>5. QED
    BY <1>7, <2>2, <2>3, <2>4 DEF Apply
<1>8. CASE UpdateStatus
  <2>1. PICK k \in CRs : key = k
    BY <1>0, <1>8 DEF TypeOK, UpdateStatus
  <2>2. QED
    BY <1>8, <2>1, DoneIsSettled
<1>9. CASE Fault
  <2>1. /\ key \in CRs /\ UNCHANGED <<child, crCache, up>> /\ queue' = queue \cup {key}
        /\ \A j \in CRs : j # key => cr'[j] = cr[j]
    BY <1>0, <1>9 DEF TypeOK, Fault, ReturnError
  <2>2. ASSUME NEW j \in CRs PROVE (Pending(j) \/ Settled(j))'
    <3>1. CASE j = key
      BY <2>1, <3>1 DEF Pending
    <3>2. CASE j # key
      BY <1>0, <2>1, <3>2 DEF Pending, Settled, Assemble
    <3>3. QED
      BY <3>1, <3>2
  <2>3. QED
    BY <2>2 DEF NoLostWork
<1>10. CASE Crash
  BY <1>10 DEF Crash, NoLostWork, Pending
<1>11. CASE Restart
  BY <1>11 DEF Restart, NoLostWork, Pending, Settled
<1>12. CASE Resync \/ UNCHANGED <<cr, child, crCache, queue, key, up>>
  BY <1>0, <1>12, Framed DEF Resync, NoLostWork
<1>13. QED
  BY <1>1, <1>2, <1>3, <1>4, <1>5, <1>6, <1>7, <1>8, <1>9, <1>10, <1>11, <1>12
  DEF Next, User, Cluster, Informers, Operator, Reconcile, vars, WatchChild

LEMMA WorkInitially == Init => WorkInv
<1> SUFFICES ASSUME Init PROVE WorkInv
  OBVIOUS
<1>1. VersionInv
  BY VersionInitially
<1>2. CacheInv /\ InPlaceInv
  BY DEF Init, CacheInv, InPlaceInv
<1>3. NoLostWork
  BY DEF Init, NoLostWork, Settled
<1>4. QED
  BY <1>1, <1>2, <1>3 DEF WorkInv

(* While users leave the children alone, and where no child has            *)
(* finalizers, a CR whose children are not what its spec asks for, or that *)
(* is not Ready, is one the controller will look at again: no error, lost  *)
(* reply, stale cache, reused name or crash makes it forget one.           *)
THEOREM WorkIsNeverLost ==
  ASSUME Finalizers = {}, MaxMeddles = 0
  PROVE  Safety => []NoLostWork
<1>1. WorkInv /\ [Next]_vars => WorkInv'
  BY VersionPreserved, CachePreserved, InPlacePreserved, NoLostPreserved DEF WorkInv
<1>2. WorkInv => NoLostWork
  BY DEF WorkInv
<1>3. QED
  BY WorkInitially, <1>1, <1>2, PTL DEF Safety
=============================================================================
