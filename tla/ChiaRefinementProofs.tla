----------------------- MODULE ChiaRefinementProofs -----------------------
(***************************************************************************)
(* ChiaComponent implements ChiaDesired.  It rests on one fact: the        *)
(* versions of a CR seen by the children, the worker's copy, the informer  *)
(* and the API server are in that order, so that everything only ever      *)
(* moves forward.                                                          *)
(***************************************************************************)
EXTENDS ChiaComponentProofs

USE DEF CRType, ObjType

(* A child is from no newer version of the CR than c. *)
From(obj, c) ==
  obj.owner < c.uid \/ (obj.owner = c.uid /\ obj.gen <= c.gen)

(* The CR b is no newer than c. *)
Before(b, c) == b.uid < c.uid \/ (b.uid = c.uid /\ b.gen <= c.gen)

ChildrenFrom(k, c) == \A x \in Children : From(child[k][x], c)

(* Only the absent CR has uid 0; the others have uids handed out before,   *)
(* and generations the users' edits account for.                           *)
Known(c) ==
  /\ c.uid < nextUid
  /\ c.gen <= edits
  /\ c.uid = 0 => c = NoCR

KnownInv ==
  /\ \A k \in CRs : Known(cr[k]) /\ Known(crCache[k])
  /\ Known(copy)
  /\ \A k \in CRs, c \in Children : child[k][c].owner < nextUid /\ childCache[k][c].owner < nextUid
  /\ edits <= MaxEdits

CopyInv ==
  /\ pc \in {"idle", "get"} => copy = NoCR
  /\ pc \in {"apply", "status"} => copy # NoCR

OrderInv ==
  /\ \A k \in CRs : cr[k] # NoCR => ChildrenFrom(k, cr[k]) /\ Before(crCache[k], cr[k])
  /\ \A k \in CRs : crCache[k] # NoCR => ChildrenFrom(k, crCache[k])
  /\ key # NoKey =>
       /\ cr[key] # NoCR => Before(copy, cr[key])
       /\ crCache[key] # NoCR => Before(copy, crCache[key])
       /\ copy # NoCR => ChildrenFrom(key, copy)

(* A child that exists, or seems to in the cache, was made by the worker. *)
MadeInv ==
  \A k \in CRs, c \in Children :
    /\ child[k][c].owner # 0 => <<child[k][c].owner, c>> \in applied
    /\ childCache[k][c].owner # 0 => <<childCache[k][c].owner, c>> \in applied

VersionInv == AppliedInv /\ KnownInv /\ CopyInv /\ OrderInv /\ MadeInv

-----------------------------------------------------------------------------
(***************************************************************************)
(* What a step can do to each variable, whoever takes it.                  *)
(***************************************************************************)

(* A child stays, is lost, ages, or is written by the worker. *)
ChildEffect(k, c) ==
  \/ child'[k][c] = child[k][c]
  \/ child'[k][c] = NoObj
  \/ child'[k][c].owner = child[k][c].owner /\ child'[k][c].gen \in {0, child[k][c].gen}
  \/ /\ pc = "apply" /\ key = k /\ Plan[step] = c
     /\ child'[k][c] = Assemble(copy)
     /\ <<copy.uid, c>> \in applied'
     /\ UNCHANGED <<cr, crCache, childCache, copy, key, nextUid, edits>>

LEMMA PutEffect ==
  ASSUME TypeOK, NEW k \in CRs, NEW c \in Children, NEW obj, Put(k, c, obj)
  PROVE  /\ child'[k][c] = obj
         /\ \A j \in CRs, d \in Children : <<j, d>> # <<k, c>> => child'[j][d] = child[j][d]
BY DEF TypeOK, Put

LEMMA RemoveEffect ==
  ASSUME TypeOK, NEW k \in CRs, NEW c \in Children, Remove(k, c)
  PROVE  \A j \in CRs, d \in Children : ChildEffect(j, d)
<1>1. child[k][c] \in ObjType
  BY DEF TypeOK
<1>2. PICK obj : Put(k, c, obj) /\ obj \in {NoObj, [child[k][c] EXCEPT !.term = TRUE]}
  BY DEF Remove
<1>3. child'[k][c] = obj
  BY <1>2, PutEffect
<1>4. child'[k][c] = NoObj \/ (child'[k][c].owner = child[k][c].owner /\ child'[k][c].gen = child[k][c].gen)
  BY <1>1, <1>2, <1>3
<1>5. QED
  BY <1>2, <1>4, PutEffect DEF ChildEffect

LEMMA ChildEffects ==
  ASSUME TypeOK, [Next]_vars
  PROVE  \A k \in CRs, c \in Children : ChildEffect(k, c)
<1> USE DEF apiVars, cacheVars, workVars, bounds
<1>1. ASSUME NEW k \in CRs, NEW c \in Children, MeddleWithChild(k, c)
      PROVE  \A j \in CRs, d \in Children : ChildEffect(j, d)
  <2>1. CASE Remove(k, c)
    BY <2>1, RemoveEffect
  <2>2. CASE Put(k, c, [child[k][c] EXCEPT !.gen = 0])
    <3>1. child[k][c] \in ObjType
      BY DEF TypeOK
    <3>2. child'[k][c].owner = child[k][c].owner /\ child'[k][c].gen = 0
      BY <2>2, <3>1, PutEffect
    <3>3. QED
      BY <2>2, <3>2, PutEffect DEF ChildEffect
  <2>3. QED
    BY <1>1, <2>1, <2>2 DEF MeddleWithChild
<1>2. ASSUME NEW k \in CRs, NEW c \in Children, GarbageCollect(k, c)
      PROVE  \A j \in CRs, d \in Children : ChildEffect(j, d)
  BY <1>2, RemoveEffect DEF GarbageCollect
<1>3. ASSUME NEW k \in CRs, NEW c \in Children, Finalize(k, c)
      PROVE  \A j \in CRs, d \in Children : ChildEffect(j, d)
  BY <1>3, PutEffect DEF Finalize, ChildEffect
<1>4. CASE Apply /\ ApplyWrite(Plan[step])
  <2>1. key \in CRs /\ Plan[step] \in Children /\ pc = "apply"
    BY <1>4, PlanIndex DEF TypeOK, Apply
  <2>2. /\ Put(key, Plan[step], Assemble(copy))
        /\ <<copy.uid, Plan[step]>> \in applied'
        /\ UNCHANGED <<cr, crCache, childCache, copy, key, nextUid, edits>>
    BY <1>4 DEF ApplyWrite, Proceed
  <2>3. QED
    BY <2>1, <2>2, PutEffect DEF ChildEffect
<1>5. CASE UNCHANGED child
  BY <1>5 DEF ChildEffect
<1>6. QED
  BY <1>1, <1>2, <1>3, <1>4, <1>5
  DEF Next, User, Cluster, Informers, Operator, Reconcile, vars, CreateCR, EditCR,
      DeleteCR, WatchCR, WatchChild, Resync, Start, GetCR, Apply, ApplyInSync,
      ApplyBackOff, ApplyError, UpdateStatus, Fault, Crash, Restart

(* A CR stays, is written by a user, or is declared Ready by the worker. *)
CREffect(k) ==
  \/ cr'[k] = cr[k]
  \/ /\ cr[k] = NoCR /\ cr'[k].uid = nextUid /\ cr'[k].gen = 1 /\ ~cr'[k].ready
     /\ nextUid' = nextUid + 1 /\ edits' = edits + 1
     /\ UNCHANGED <<child, crCache, childCache, key, copy>>
  \/ /\ cr[k] # NoCR /\ cr'[k].uid = cr[k].uid /\ cr'[k].gen = cr[k].gen + 1
     /\ cr'[k].ready = cr[k].ready
     /\ edits' = edits + 1
     /\ UNCHANGED <<child, crCache, childCache, key, copy>>
  \/ cr'[k] = NoCR
  \/ /\ pc = "status" /\ key = k /\ cr[k] = copy
     /\ cr'[k] = [copy EXCEPT !.ready = TRUE]
     /\ UNCHANGED <<child, crCache, childCache>>

LEMMA CREffects ==
  ASSUME TypeOK, [Next]_vars
  PROVE  \A k \in CRs : CREffect(k)
<1> USE DEF apiVars, cacheVars, workVars, bounds
<1>1. ASSUME NEW k \in CRs, CreateCR(k) PROVE \A j \in CRs : CREffect(j)
  <2>1. PICK bad \in BadSpecs :
          cr' = [cr EXCEPT ![k] =
                   [uid |-> nextUid, gen |-> 1, bad |-> bad, ready |-> FALSE]]
    BY <1>1 DEF CreateCR
  <2>2. cr'[k].uid = nextUid /\ cr'[k].gen = 1 /\ ~cr'[k].ready
    BY <2>1 DEF TypeOK
  <2>3. \A j \in CRs : j # k => cr'[j] = cr[j]
    BY <2>1 DEF TypeOK
  <2>4. QED
    BY <1>1, <2>2, <2>3 DEF CreateCR, CREffect
<1>2. ASSUME NEW k \in CRs, EditCR(k) PROVE \A j \in CRs : CREffect(j)
  BY <1>2 DEF TypeOK, EditCR, CREffect
<1>3. ASSUME NEW k \in CRs, DeleteCR(k) PROVE \A j \in CRs : CREffect(j)
  BY <1>3 DEF TypeOK, DeleteCR, CREffect
<1>4. CASE (UpdateStatus \/ Fault) /\ cr' # cr
  <2>1. /\ pc = "status" /\ key \in CRs /\ cr[key] = copy
        /\ cr' = [cr EXCEPT ![key].ready = TRUE]
        /\ UNCHANGED <<child, crCache, childCache>>
    BY <1>4 DEF TypeOK, UpdateStatus, Fault
  <2>2. cr' = [cr EXCEPT ![key] = [copy EXCEPT !.ready = TRUE]]
    BY <2>1 DEF TypeOK
  <2>3. QED
    BY <2>1, <2>2 DEF TypeOK, CREffect
<1>5. CASE UNCHANGED cr
  BY <1>5 DEF CREffect
<1>6. QED
  BY <1>1, <1>2, <1>3, <1>4, <1>5
  DEF Next, User, Cluster, Informers, Operator, Reconcile, vars, MeddleWithChild,
      GarbageCollect, Finalize, WatchCR, WatchChild, Resync, Start, GetCR, Apply,
      ApplyWrite, ApplyInSync, ApplyBackOff, ApplyError, Crash, Restart

(* The informer of the CRs stays, catches up, or is emptied by a crash. *)
CRCacheEffect(k) ==
  \/ crCache'[k] = crCache[k]
  \/ crCache'[k] = cr[k] /\ UNCHANGED <<cr, child, copy, key>>
  \/ crCache'[k] = NoCR

LEMMA CRCacheEffects ==
  ASSUME TypeOK, [Next]_vars
  PROVE  \A k \in CRs : CRCacheEffect(k)
<1> USE DEF apiVars, cacheVars, workVars, bounds
<1>1. ASSUME NEW k \in CRs, WatchCR(k) PROVE \A j \in CRs : CRCacheEffect(j)
  BY <1>1 DEF TypeOK, WatchCR, CRCacheEffect
<1>2. CASE Crash
  BY <1>2 DEF Crash, CRCacheEffect
<1>3. CASE Restart
  BY <1>3 DEF Restart, CRCacheEffect
<1>4. CASE UNCHANGED crCache
  BY <1>4 DEF CRCacheEffect
<1>5. QED
  BY <1>1, <1>2, <1>3, <1>4
  DEF Next, User, Cluster, Informers, Operator, Reconcile, vars, CreateCR, EditCR,
      DeleteCR, MeddleWithChild, GarbageCollect, Finalize, WatchChild, Resync, Start,
      GetCR, Apply, ApplyWrite, ApplyInSync, ApplyBackOff, ApplyError, UpdateStatus, Fault

(* So do the informers of the children. *)
ChildCacheEffect(k, c) ==
  \/ childCache'[k][c] = childCache[k][c]
  \/ childCache'[k][c] = child[k][c] /\ UNCHANGED <<cr, child>>
  \/ childCache'[k][c] = NoObj

LEMMA ChildCacheEffects ==
  ASSUME TypeOK, [Next]_vars
  PROVE  \A k \in CRs, c \in Children : ChildCacheEffect(k, c)
<1> USE DEF apiVars, cacheVars, workVars, bounds
<1>1. ASSUME NEW k \in CRs, NEW c \in Children, WatchChild(k, c)
      PROVE  \A j \in CRs, d \in Children : ChildCacheEffect(j, d)
  BY <1>1 DEF TypeOK, WatchChild, ChildCacheEffect
<1>2. CASE Crash
  BY <1>2 DEF Crash, ChildCacheEffect, NoChildren
<1>3. CASE Restart
  BY <1>3 DEF Restart, ChildCacheEffect
<1>4. CASE UNCHANGED childCache
  BY <1>4 DEF ChildCacheEffect
<1>5. QED
  BY <1>1, <1>2, <1>3, <1>4
  DEF Next, User, Cluster, Informers, Operator, Reconcile, vars, CreateCR, EditCR,
      DeleteCR, MeddleWithChild, GarbageCollect, Finalize, WatchCR, Resync, Start,
      GetCR, Apply, ApplyWrite, ApplyInSync, ApplyBackOff, ApplyError, UpdateStatus, Fault

(* The worker keeps its copy, drops it, or takes one from the informer. *)
CopyEffect ==
  \/ copy' = NoCR /\ pc' \in {"idle", "get"}
  \/ UNCHANGED <<copy, key, pc>>
  \/ UNCHANGED <<copy, key>> /\ pc = "apply" /\ pc' \in {"apply", "status"}
  \/ /\ pc = "get" /\ crCache[key] # NoCR
     /\ copy' = crCache[key] /\ pc' = "apply"
     /\ UNCHANGED <<key, cr, crCache, child>>

LEMMA CopyEffects ==
  ASSUME TypeOK, CopyInv, [Next]_vars
  PROVE  CopyEffect
<1> USE DEF apiVars, cacheVars, workVars, bounds
<1>1. ASSUME NEW k \in CRs, Start(k) PROVE CopyEffect
  BY <1>1 DEF CopyInv, Start, CopyEffect
<1>2. CASE GetCR
  BY <1>2 DEF GetCR, Return, Idle, CopyEffect
<1>3. CASE Apply
  BY <1>3 DEF Apply, ApplyWrite, ApplyInSync, ApplyBackOff, ApplyError, Proceed,
              ReturnError, Idle, CopyEffect
<1>4. CASE UpdateStatus \/ Fault \/ Crash
  BY <1>4 DEF UpdateStatus, Fault, Crash, Return, ReturnError, Idle, CopyEffect
<1>5. CASE UNCHANGED <<copy, key, pc>>
  BY <1>5 DEF CopyEffect
<1>6. QED
  BY <1>1, <1>2, <1>3, <1>4, <1>5
  DEF Next, User, Cluster, Informers, Operator, Reconcile, vars, CreateCR, EditCR,
      DeleteCR, MeddleWithChild, GarbageCollect, Finalize, WatchCR, WatchChild, Resync,
      Restart

(* Uids and edits are only ever counted up, and history only grows. *)
LEMMA Growth ==
  ASSUME TypeOK, [Next]_vars, edits <= MaxEdits
  PROVE  /\ nextUid <= nextUid' /\ edits <= edits' /\ edits' <= MaxEdits
         /\ applied \subseteq applied'
<1> USE DEF apiVars, cacheVars, workVars, bounds
<1>1. nextUid \in Nat /\ edits \in Nat /\ MaxEdits \in Nat
  BY BoundAssumption DEF TypeOK
<1>2. ASSUME NEW k \in CRs, CreateCR(k) \/ EditCR(k) \/ DeleteCR(k)
      PROVE  /\ nextUid <= nextUid' /\ edits <= edits' /\ edits' <= MaxEdits
             /\ applied \subseteq applied'
  BY <1>1, <1>2 DEF CreateCR, EditCR, DeleteCR
<1>3. CASE UNCHANGED <<nextUid, edits>> /\ applied \subseteq applied'
  BY <1>1, <1>3
<1>4. QED
  BY <1>2, <1>3
  DEF Next, User, Cluster, Informers, Operator, Reconcile, vars, MeddleWithChild,
      GarbageCollect, Finalize, WatchCR, WatchChild, Resync, Start, GetCR, Apply,
      ApplyWrite, ApplyInSync, ApplyBackOff, ApplyError, UpdateStatus, Fault, Crash,
      Restart

-----------------------------------------------------------------------------
(***************************************************************************)
(* VersionInv is inductive, one lemma for each of its parts.               *)
(***************************************************************************)

LEMMA KnownPreserved ==
  ASSUME TypeOK, KnownInv, CopyInv, [Next]_vars
  PROVE  KnownInv'
<1>0. /\ nextUid \in Nat /\ nextUid # 0 /\ edits \in Nat /\ MaxEdits \in Nat
      /\ nextUid <= nextUid' /\ edits <= edits' /\ edits' <= MaxEdits
      /\ nextUid' \in Nat /\ edits' \in Nat
  BY StepTyped, Growth, BoundAssumption DEF TypeOK, KnownInv
<1>1. ASSUME NEW k \in CRs PROVE Known(cr[k])'
  <2>1. CREffect(k) /\ Known(cr[k]) /\ cr[k] \in CRType /\ copy \in CRType
    BY CREffects DEF KnownInv, TypeOK
  <2>2. pc = "status" /\ cr[k] = copy => cr[k].uid # 0
    BY <2>1 DEF CopyInv, Known
  <2>3. QED
    BY <1>0, <2>1, <2>2 DEF CREffect, Known, NoCR
<1>2. ASSUME NEW k \in CRs PROVE Known(crCache[k])'
  <2>1. /\ CRCacheEffect(k) /\ Known(crCache[k]) /\ Known(cr[k])
        /\ crCache[k] \in CRType /\ cr[k] \in CRType
    BY CRCacheEffects DEF KnownInv, TypeOK
  <2>2. QED
    BY <1>0, <2>1 DEF CRCacheEffect, Known, NoCR
<1>3. Known(copy)'
  <2>1. CopyEffect /\ Known(copy) /\ copy \in CRType
    BY CopyEffects DEF KnownInv, TypeOK
  <2>2. pc = "get" => Known(crCache[key]) /\ crCache[key] \in CRType
    BY DEF KnownInv, TypeOK
  <2>3. QED
    BY <1>0, <2>1, <2>2 DEF CopyEffect, Known, NoCR
<1>4. ASSUME NEW k \in CRs, NEW c \in Children
      PROVE  child'[k][c].owner < nextUid' /\ childCache'[k][c].owner < nextUid'
  <2>0. child[k][c] \in ObjType /\ childCache[k][c] \in ObjType /\ copy \in CRType
    BY DEF TypeOK
  <2>1. /\ ChildEffect(k, c) /\ ChildCacheEffect(k, c)
        /\ child[k][c].owner \in Nat /\ childCache[k][c].owner \in Nat /\ copy.uid \in Nat
    BY <2>0, ChildEffects, ChildCacheEffects
  <2>2. child[k][c].owner < nextUid /\ childCache[k][c].owner < nextUid /\ copy.uid < nextUid
    BY DEF KnownInv, Known
  <2>3. child'[k][c].owner < nextUid'
    BY <1>0, <2>1, <2>2 DEF ChildEffect, Assemble, NoObj
  <2>4. childCache'[k][c].owner < nextUid'
    BY <1>0, <2>1, <2>2 DEF ChildCacheEffect, NoObj
  <2>5. QED
    BY <2>3, <2>4
<1>5. QED
  BY <1>0, <1>1, <1>2, <1>3, <1>4 DEF KnownInv

LEMMA CopyPreserved ==
  ASSUME TypeOK, CopyInv, [Next]_vars
  PROVE  CopyInv'
BY CopyEffects DEF CopyEffect, CopyInv

LEMMA MadePreserved ==
  ASSUME TypeOK, KnownInv, MadeInv, [Next]_vars
  PROVE  MadeInv'
<1> SUFFICES ASSUME NEW k \in CRs, NEW c \in Children
             PROVE  /\ child'[k][c].owner # 0 => <<child'[k][c].owner, c>> \in applied'
                    /\ childCache'[k][c].owner # 0 => <<childCache'[k][c].owner, c>> \in applied'
  BY DEF MadeInv
<1>1. ChildEffect(k, c) /\ ChildCacheEffect(k, c)
  BY ChildEffects, ChildCacheEffects
<1>2. /\ child[k][c].owner # 0 => <<child[k][c].owner, c>> \in applied'
      /\ childCache[k][c].owner # 0 => <<childCache[k][c].owner, c>> \in applied'
  BY Growth DEF MadeInv, KnownInv
<1>3. NoObj.owner = 0 /\ Assemble(copy).owner = copy.uid
  BY DEF NoObj, Assemble
<1>4. child'[k][c].owner # 0 => <<child'[k][c].owner, c>> \in applied'
  BY <1>1, <1>2, <1>3 DEF ChildEffect
<1>5. childCache'[k][c].owner # 0 => <<childCache'[k][c].owner, c>> \in applied'
  BY <1>1, <1>2, <1>3 DEF ChildCacheEffect
<1>6. QED
  BY <1>4, <1>5

(* A step leaves the children of k no newer than c, if c is as new as they *)
(* are and, in case the worker is the one that moves, as its copy.         *)
LEMMA ChildrenStayFrom ==
  ASSUME TypeOK, [Next]_vars, NEW k \in CRs, NEW c \in CRType, ChildrenFrom(k, c),
         NEW d \in CRType, Before(c, d),
         pc = "apply" /\ key = k => Before(copy, d) \/ child'[k] = child[k]
  PROVE  \A x \in Children : From(child'[k][x], d)
<1> SUFFICES ASSUME NEW x \in Children PROVE From(child'[k][x], d)
  OBVIOUS
<1>1. child[k][x] \in ObjType /\ copy \in CRType
  BY DEF TypeOK
<1>2. ChildEffect(k, x) /\ From(child[k][x], c)
  BY ChildEffects DEF ChildrenFrom
<1>3. From(child[k][x], d)
  BY <1>1, <1>2 DEF From, Before
<1>4. CASE child'[k][x].owner = child[k][x].owner /\ child'[k][x].gen \in {0, child[k][x].gen}
  BY <1>1, <1>3, <1>4 DEF From
<1>5. CASE child'[k][x] = NoObj
  BY <1>5 DEF From, NoObj
<1>6. CASE child'[k][x] = Assemble(copy) /\ pc = "apply" /\ key = k
  BY <1>1, <1>3, <1>6 DEF From, Before, Assemble
<1>7. QED
  BY <1>2, <1>3, <1>4, <1>5, <1>6 DEF ChildEffect

LEMMA OrderPreserved ==
  ASSUME TypeOK, KnownInv, CopyInv, OrderInv, [Next]_vars
  PROVE  OrderInv'
<1> USE DEF Before
<1>0. /\ TypeOK' /\ KnownInv' /\ CopyInv'
      /\ NoCR \in CRType /\ copy \in CRType /\ copy' \in CRType
  BY StepTyped, KnownPreserved, CopyPreserved, NoCRTyped DEF TypeOK
<1>1. ASSUME NEW k \in CRs, cr'[k] # NoCR
      PROVE  ChildrenFrom(k, cr[k])' /\ Before(crCache[k], cr[k])'
  <2>0. /\ cr[k] \in CRType /\ cr'[k] \in CRType /\ crCache[k] \in CRType /\ crCache'[k] \in CRType
        /\ Known(cr[k]) /\ Known(crCache[k]) /\ nextUid \in Nat
        /\ CREffect(k) /\ CRCacheEffect(k)
    BY <1>0, CREffects, CRCacheEffects DEF TypeOK, KnownInv
  <2>1. CASE cr[k] = NoCR
    <3>1. cr'[k].uid = nextUid /\ UNCHANGED <<child, crCache>>
      BY <1>1, <2>0, <2>1 DEF CREffect, CopyInv
    <3>2. \A x \in Children : child[k][x].owner < nextUid
      BY DEF KnownInv
    <3>3. QED
      BY <2>0, <3>1, <3>2 DEF ChildrenFrom, From, Known
  <2>2. CASE cr[k] # NoCR
    <3>1. Before(cr[k], cr'[k])
      BY <1>1, <2>0, <2>2 DEF CREffect
    <3>2. ChildrenFrom(k, cr[k]) /\ Before(crCache[k], cr[k])
      BY <2>2 DEF OrderInv
    <3>3. pc = "apply" /\ key = k => Before(copy, cr[k])
      BY <2>2, KeyAssumption DEF OrderInv
    <3>4. pc = "apply" /\ key = k => Before(copy, cr'[k])
      BY <1>0, <2>0, <3>1, <3>3
    <3>5. ChildrenFrom(k, cr[k])'
      BY <2>0, <3>1, <3>2, <3>4, ChildrenStayFrom DEF ChildrenFrom
    <3>6. Before(crCache[k], cr[k])'
      BY <2>0, <3>1, <3>2 DEF CRCacheEffect, NoCR
    <3>7. QED
      BY <3>5, <3>6
  <2>3. QED
    BY <2>1, <2>2
<1>2. ASSUME NEW k \in CRs, crCache'[k] # NoCR PROVE ChildrenFrom(k, crCache[k])'
  <2>0. /\ cr[k] \in CRType /\ crCache[k] \in CRType /\ CRCacheEffect(k)
    BY CRCacheEffects DEF TypeOK
  <2>1. CASE crCache'[k] = crCache[k]
    <3>1. ChildrenFrom(k, crCache[k]) /\ (key = k => Before(copy, crCache[k]))
      BY <1>2, <2>1, KeyAssumption DEF OrderInv
    <3>2. QED
      BY <2>0, <2>1, <3>1, ChildrenStayFrom DEF ChildrenFrom
  <2>2. CASE crCache'[k] = cr[k] /\ child' = child
    BY <1>2, <2>2 DEF OrderInv, ChildrenFrom
  <2>3. QED
    BY <1>2, <2>0, <2>1, <2>2 DEF CRCacheEffect
<1>3. ASSUME key' # NoKey
      PROVE  /\ cr'[key'] # NoCR => Before(copy, cr[key])'
             /\ crCache'[key'] # NoCR => Before(copy, crCache[key])'
             /\ copy' # NoCR => ChildrenFrom(key, copy)'
  <2>0. key' \in CRs /\ cr'[key'] \in CRType /\ crCache'[key'] \in CRType
    BY <1>0, <1>3 DEF TypeOK
  <2>1. CASE copy' = NoCR
    BY <2>0, <2>1 DEF NoCR
  <2>2. CASE UNCHANGED <<copy, key>> /\ copy # NoCR
    <3>0. /\ cr[key] \in CRType /\ crCache[key] \in CRType
          /\ Known(cr[key]) /\ Known(copy) /\ nextUid \in Nat
          /\ CREffect(key) /\ CRCacheEffect(key)
      BY <2>0, <2>2, CREffects, CRCacheEffects DEF TypeOK, KnownInv
    <3>1. /\ cr[key] # NoCR => Before(copy, cr[key])
          /\ crCache[key] # NoCR => Before(copy, crCache[key])
          /\ ChildrenFrom(key, copy)
      BY <1>3, <2>2 DEF OrderInv
    <3>2. cr'[key] # NoCR => Before(copy, cr'[key])
      BY <1>0, <2>0, <2>2, <3>0, <3>1 DEF CREffect, Known
    <3>3. crCache'[key] # NoCR => Before(copy, crCache'[key])
      BY <3>0, <3>1 DEF CRCacheEffect
    <3>4. ChildrenFrom(key, copy)'
      BY <1>0, <2>0, <2>2, <3>1, ChildrenStayFrom DEF ChildrenFrom
    <3>5. QED
      BY <2>2, <3>2, <3>3, <3>4
  <2>3. CASE crCache[key] # NoCR /\ copy' = crCache[key] /\ UNCHANGED <<key, cr, crCache, child>>
    BY <1>3, <2>0, <2>3 DEF OrderInv, ChildrenFrom
  <2>4. QED
    BY <2>1, <2>2, <2>3, CopyEffects DEF CopyEffect
<1>4. QED
  BY <1>1, <1>2, <1>3 DEF OrderInv

LEMMA VersionInitially == Init => VersionInv
<1> SUFFICES ASSUME Init PROVE VersionInv
  OBVIOUS
<1>1. AppliedInv
  BY AppliedInitially
<1>2. /\ \A k \in CRs : cr[k] = NoCR /\ crCache[k] = NoCR
      /\ \A k \in CRs, c \in Children : child[k][c] = NoObj /\ childCache[k][c] = NoObj
      /\ copy = NoCR /\ key = NoKey /\ pc = "idle" /\ nextUid = 1 /\ edits = 0
  BY DEF Init, NoChildren
<1>3. KnownInv
  BY <1>2, BoundAssumption DEF KnownInv, Known, NoCR, NoObj
<1>4. CopyInv /\ OrderInv
  BY <1>2 DEF CopyInv, OrderInv
<1>5. MadeInv
  BY <1>2 DEF MadeInv, NoObj
<1>6. QED
  BY <1>1, <1>3, <1>4, <1>5 DEF VersionInv

LEMMA VersionPreserved ==
  ASSUME Finalizers = {}
  PROVE  VersionInv /\ [Next]_vars => VersionInv'
<1> SUFFICES ASSUME VersionInv, [Next]_vars PROVE VersionInv'
  OBVIOUS
<1>1. TypeOK
  BY DEF VersionInv, AppliedInv
<1>2. QED
  BY <1>1, AppliedPreserved, KnownPreserved, CopyPreserved, OrderPreserved, MadePreserved
  DEF VersionInv

-----------------------------------------------------------------------------
(***************************************************************************)
(* The refinement, one lemma for each kind of step of the abstract         *)
(* specification.                                                          *)
(***************************************************************************)

Want == [k \in CRs |-> [uid |-> cr[k].uid, gen |-> cr[k].gen, ready |-> cr[k].ready]]
Have == [k \in CRs |-> [c \in Children |->
           [uid |-> child[k][c].owner, gen |-> child[k][c].gen]]]

(* A step that changes nothing the users see. *)
Unseen == UNCHANGED <<cr, child, applied, nextUid>>

LEMMA PutMaps ==
  ASSUME TypeOK, NEW k \in CRs, NEW c \in Children, NEW obj, Put(k, c, obj)
  PROVE  Have' = [Have EXCEPT ![k][c] = [uid |-> obj.owner, gen |-> obj.gen]]
<1> DEFINE v == [uid |-> obj.owner, gen |-> obj.gen]
           new == [Have EXCEPT ![k][c] = v]
<1>1. ASSUME NEW j \in CRs PROVE Have'[j] = new[j]
  <2>1. ASSUME NEW d \in Children PROVE Have'[j][d] = new[j][d]
    BY PutEffect DEF Have
  <2>2. Have'[j] = [d \in Children |-> Have'[j][d]] /\ new[j] = [d \in Children |-> new[j][d]]
    BY DEF Have
  <2>3. QED
    BY <2>1, <2>2
<1>2. Have' = [j \in CRs |-> Have'[j]] /\ new = [j \in CRs |-> new[j]]
  BY DEF Have
<1>3. QED
  BY <1>1, <1>2

LEMMA LoseMaps ==
  ASSUME TypeOK, NEW k \in CRs, NEW c \in Children, Put(k, c, NoObj),
         UNCHANGED <<cr, applied, nextUid>>
  PROVE  Desired!Next
<1>1. Have' = [Have EXCEPT ![k][c] = Desired!None]
  BY PutMaps DEF NoObj, Desired!None
<1>2. Desired!Lose(k, c)
  BY <1>1 DEF Have, Desired!Lose
<1>3. QED
  BY <1>2 DEF Desired!Next

LEMMA DriftMaps ==
  ASSUME TypeOK, NEW k \in CRs, NEW c \in Children,
         Put(k, c, [child[k][c] EXCEPT !.gen = 0]),
         UNCHANGED <<cr, applied, nextUid>>
  PROVE  Desired!Next
<1>0. child[k][c] \in ObjType
  BY DEF TypeOK
<1>1. Have' = [Have EXCEPT ![k][c] = [uid |-> child[k][c].owner, gen |-> 0]]
  BY <1>0, PutMaps
<1>2. [Have[k][c] EXCEPT !.gen = 0] = [uid |-> child[k][c].owner, gen |-> 0]
  BY DEF Have
<1>3. Have' = [Have EXCEPT ![k][c].gen = 0]
  BY <1>1, <1>2 DEF Have
<1>4. Desired!Drift(k, c)
  BY <1>3 DEF Have, Desired!Drift
<1>5. QED
  BY <1>4 DEF Desired!Next

(* The worker writes a child: its copy is a version the users asked for,   *)
(* and no older than the one the child stands for.                         *)
LEMMA AdvanceMaps ==
  ASSUME VersionInv, pc = "apply", NEW k \in CRs, key = k, NEW c \in Children,
         Put(k, c, Assemble(copy)),
         applied' = applied \cup {<<copy.uid, c>>}, UNCHANGED <<cr, nextUid>>
  PROVE  Desired!Next
<1> DEFINE v == [uid |-> copy.uid, gen |-> copy.gen]
<1>a. TypeOK /\ KnownInv /\ CopyInv /\ OrderInv
  BY DEF VersionInv, AppliedInv
<1>b. k # NoKey /\ copy # NoCR
  BY <1>a, KeyAssumption DEF CopyInv
<1>0. /\ copy \in CRType /\ cr[k] \in CRType /\ child[k][c] \in ObjType
      /\ nextUid \in Nat /\ edits \in Nat /\ MaxEdits \in Nat /\ edits <= MaxEdits
  BY <1>a, BoundAssumption DEF TypeOK, KnownInv
<1>1. copy.uid < nextUid /\ copy.gen <= MaxEdits /\ copy.uid # 0
  BY <1>a, <1>b, <1>0 DEF KnownInv, Known
<1>2. v \in Desired!Version
  BY <1>0, <1>1 DEF Desired!Version
<1>3. Desired!Asked(k, v)
  <2>1. cr[k] # NoCR => Before(copy, cr[k])
    BY <1>a, <1>b DEF OrderInv
  <2>2. copy.uid = cr[k].uid => copy.gen <= cr[k].gen
    BY <1>0, <1>1, <2>1 DEF Before, NoCR
  <2>3. QED
    BY <1>0, <1>1, <2>2 DEF Desired!Asked
<1>4. Desired!NotOlder(v, Have[k][c])
  <2>1. From(child[k][c], copy)
    BY <1>a, <1>b DEF OrderInv, ChildrenFrom
  <2>2. QED
    BY <1>0, <2>1 DEF From, Have, Desired!NotOlder
<1>5. Have' = [Have EXCEPT ![k][c] = v]
  BY <1>a, PutMaps DEF Assemble
<1>6. applied' = applied \cup {<<v.uid, c>>}
  OBVIOUS
<1>7. Desired!Advance(k, c)
  <2> HIDE DEF v
  <2>1. QED
    BY <1>2, <1>3, <1>4, <1>5, <1>6 DEF Have, Desired!Advance
<1>8. QED
  BY <1>7 DEF Desired!Next

(* A write of the CR of k. *)
LEMMA WriteMaps ==
  ASSUME TypeOK, NEW k \in CRs, NEW c \in CRType, cr' = [cr EXCEPT ![k] = c]
  PROVE  Want' = [Want EXCEPT ![k] = [uid |-> c.uid, gen |-> c.gen, ready |-> c.ready]]
BY DEF TypeOK, Want

LEMMA AskMaps ==
  ASSUME VersionInv, NEW k \in CRs, CreateCR(k) \/ EditCR(k) \/ DeleteCR(k)
  PROVE  Desired!Next
<1>0. TypeOK /\ cr[k] \in CRType /\ nextUid \in Nat /\ Known(cr[k]) /\ NoCR \in CRType
  BY NoCRTyped DEF VersionInv, AppliedInv, TypeOK, KnownInv
<1>1. Want[k] = [uid |-> cr[k].uid, gen |-> cr[k].gen, ready |-> cr[k].ready]
  BY DEF Want
<1>2. cr[k] = NoCR <=> Want[k] = Desired!Nothing
  <2>1. cr[k] = NoCR => Want[k] = Desired!Nothing
    BY <1>1 DEF NoCR, Desired!Nothing
  <2>2. Want[k] = Desired!Nothing => cr[k].uid = 0
    BY <1>1 DEF Desired!Nothing
  <2>3. QED
    BY <1>0, <2>1, <2>2 DEF Known
<1>3. UNCHANGED <<child, applied>>
  BY DEF CreateCR, EditCR, DeleteCR
<1>4. CASE CreateCR(k)
  <2>1. PICK bad \in BadSpecs :
          cr' = [cr EXCEPT ![k] =
                   [uid |-> nextUid, gen |-> 1, bad |-> bad, ready |-> FALSE]]
    BY <1>4 DEF CreateCR
  <2>2. [uid |-> nextUid, gen |-> 1, bad |-> bad, ready |-> FALSE] \in CRType
    BY <1>0, SpecAssumption
  <2>3. Want' = [Want EXCEPT ![k] = [uid |-> nextUid, gen |-> 1, ready |-> FALSE]]
    BY <1>0, <2>1, <2>2, WriteMaps
  <2>4. Want[k] = Desired!Nothing /\ nextUid' = nextUid + 1
    BY <1>2, <1>4 DEF CreateCR
  <2>5. Desired!Ask(k)
    BY <1>3, <2>3, <2>4 DEF Want, Desired!Ask
  <2>6. QED
    BY <2>5 DEF Desired!Next
<1>5. CASE EditCR(k)
  <2>1. PICK bad \in BadSpecs :
          cr' = [cr EXCEPT ![k] = [uid |-> @.uid, gen |-> @.gen + 1,
                                   bad |-> bad, ready |-> @.ready]]
    BY <1>5 DEF EditCR
  <2>2. [uid |-> cr[k].uid, gen |-> cr[k].gen + 1, bad |-> bad, ready |-> cr[k].ready] \in CRType
    BY <1>0, SpecAssumption
  <2>3. Want' = [Want EXCEPT ![k] =
                   [uid |-> cr[k].uid, gen |-> cr[k].gen + 1, ready |-> cr[k].ready]]
    BY <1>0, <2>1, <2>2, WriteMaps
  <2>4. Want' = [Want EXCEPT ![k].gen = @ + 1]
    BY <1>1, <2>3 DEF Want
  <2>5. Want[k] # Desired!Nothing /\ nextUid' = nextUid
    BY <1>2, <1>5 DEF EditCR
  <2>6. Desired!Ask(k)
    BY <1>3, <2>4, <2>5 DEF Want, Desired!Ask
  <2>7. QED
    BY <2>6 DEF Desired!Next
<1>6. CASE DeleteCR(k)
  <2>1. Want' = [Want EXCEPT ![k] = [uid |-> NoCR.uid, gen |-> NoCR.gen, ready |-> NoCR.ready]]
    BY <1>0, <1>6, WriteMaps DEF DeleteCR
  <2>2. Want' = [Want EXCEPT ![k] = Desired!Nothing]
    BY <2>1 DEF NoCR, Desired!Nothing
  <2>3. Want[k] # Desired!Nothing /\ nextUid' = nextUid
    BY <1>2, <1>6 DEF DeleteCR
  <2>4. Desired!Ask(k)
    BY <1>3, <2>2, <2>3 DEF Want, Desired!Ask
  <2>5. QED
    BY <2>4 DEF Desired!Next
<1>7. QED
  BY <1>4, <1>5, <1>6

(* The worker sets Ready: past the last child, it has made them all. *)
LEMMA DeclareMaps ==
  ASSUME VersionInv, pc = "status", NEW k \in CRs, key = k, cr[k] = copy,
         cr' = [cr EXCEPT ![k].ready = TRUE], UNCHANGED <<child, applied, nextUid>>
  PROVE  Desired!Next
<1>0. /\ TypeOK /\ cr[k] \in CRType /\ copy # NoCR /\ Known(cr[k])
  BY DEF VersionInv, AppliedInv, TypeOK, KnownInv, CopyInv
<1>1. Want[k] = [uid |-> cr[k].uid, gen |-> cr[k].gen, ready |-> cr[k].ready]
  BY <1>0 DEF Want
<1>2. Want[k] # Desired!Nothing
  BY <1>0, <1>1 DEF Known, Desired!Nothing
<1>3. ASSUME NEW c \in Children PROVE <<Want[k].uid, c>> \in applied
  <2>1. PICK i \in 1 .. Len(Plan) : Plan[i] = c
    BY PlanIndex
  <2>2. i < step
    BY <2>1, PlanIndex DEF VersionInv, AppliedInv, AppliedSoFar
  <2>3. QED
    BY <1>1, <2>1, <2>2 DEF VersionInv, AppliedInv, AppliedSoFar
<1>4. [cr[k] EXCEPT !.ready = TRUE] \in CRType
  BY <1>0
<1>5. Want' = [Want EXCEPT ![k] = [uid |-> cr[k].uid, gen |-> cr[k].gen, ready |-> TRUE]]
  BY <1>0, <1>4, WriteMaps
<1>6. Want' = [Want EXCEPT ![k].ready = TRUE]
  BY <1>1, <1>5 DEF Want
<1>7. Desired!Declare(k)
  BY <1>2, <1>3, <1>6 DEF Want, Desired!Declare
<1>8. QED
  BY <1>7 DEF Desired!Next

(* The three outcomes of Apply, UpdateStatus and Fault seen from outside:  *)
(* nothing, an advance or a declaration.                                   *)
LEMMA InSyncMaps ==
  ASSUME VersionInv, pc = "apply", ApplyInSync(Plan[step])
  PROVE  Unseen
<1> DEFINE c == Plan[step]
<1>1. TypeOK /\ CopyInv /\ MadeInv /\ Known(copy)
  BY DEF VersionInv, AppliedInv, KnownInv
<1>2. key \in CRs /\ c \in Children /\ copy.uid # 0
  BY <1>1, PlanIndex DEF TypeOK, CopyInv, Known
<1>3. childCache[key][c].owner = copy.uid
  BY DEF ApplyInSync, InSync, Cached, Assemble
<1>4. <<copy.uid, c>> \in applied
  BY <1>1, <1>2, <1>3 DEF MadeInv
<1>5. UNCHANGED <<cr, child, nextUid>> /\ applied' = applied \cup {<<copy.uid, c>>}
  BY DEF ApplyInSync
<1>6. QED
  BY <1>4, <1>5 DEF Unseen

LEMMA StepMaps ==
  ASSUME Finalizers = {}, VersionInv, [Next]_vars
  PROVE  Desired!Next \/ Unseen
<1> USE DEF apiVars, cacheVars, workVars, bounds
<1>0. TypeOK /\ CopyInv
  BY DEF VersionInv, AppliedInv
<1>1. ASSUME NEW k \in CRs, NEW c \in Children, MeddleWithChild(k, c)
      PROVE  Desired!Next
  <2>1. CASE Remove(k, c)
    BY <1>0, <1>1, <2>1, LoseMaps DEF Remove, MeddleWithChild
  <2>2. CASE Put(k, c, [child[k][c] EXCEPT !.gen = 0])
    BY <1>0, <1>1, <2>2, DriftMaps DEF MeddleWithChild
  <2>3. QED
    BY <1>1, <2>1, <2>2 DEF MeddleWithChild
<1>2. ASSUME NEW k \in CRs, NEW c \in Children, GarbageCollect(k, c) \/ Finalize(k, c)
      PROVE  Desired!Next
  BY <1>0, <1>2, LoseMaps DEF Remove, GarbageCollect, Finalize
<1>3. CASE Apply
  <2>1. pc = "apply" /\ key \in CRs /\ Plan[step] \in Children
    BY <1>0, <1>3, PlanIndex DEF TypeOK, Apply
  <2>2. CASE ApplyWrite(Plan[step])
    BY <2>1, <2>2, AdvanceMaps DEF ApplyWrite
  <2>3. CASE ApplyInSync(Plan[step])
    BY <2>1, <2>3, InSyncMaps
  <2>4. CASE ApplyBackOff(Plan[step]) \/ ApplyError(Plan[step])
    BY <2>4 DEF ApplyBackOff, ApplyError, Unseen
  <2>5. QED
    BY <1>3, <2>2, <2>3, <2>4 DEF Apply
<1>4. CASE UpdateStatus \/ Fault
  <2>1. UNCHANGED <<child, applied, nextUid>>
    BY <1>4 DEF UpdateStatus, Fault
  <2>2. CASE UNCHANGED cr
    BY <2>1, <2>2 DEF Unseen
  <2>3. CASE cr' # cr
    <3>1. /\ pc = "status" /\ key \in CRs /\ cr[key] = copy
          /\ cr' = [cr EXCEPT ![key].ready = TRUE]
      BY <1>0, <1>4, <2>3 DEF TypeOK, UpdateStatus, Fault
    <3>2. QED
      BY <2>1, <3>1, DeclareMaps
  <2>4. QED
    BY <2>2, <2>3
<1>5. ASSUME NEW k \in CRs, CreateCR(k) \/ EditCR(k) \/ DeleteCR(k)
      PROVE  Desired!Next
  BY <1>5, AskMaps
<1>6. CASE Unseen
  BY <1>6
<1>7. QED
  BY <1>1, <1>2, <1>3, <1>4, <1>5, <1>6
  DEF Next, User, Cluster, Informers, Operator, Reconcile, vars, WatchCR, WatchChild,
      Resync, Start, GetCR, Crash, Restart, Unseen

(* Every behaviour of the controller is one of the abstract specification, *)
(* whatever the CRs, the children and the bounds, where no child has       *)
(* finalizers: children never go back to an older spec or CR, and Ready is *)
(* declared for a CR all of whose children were made.                      *)
THEOREM Implements ==
  ASSUME Finalizers = {}
  PROVE  Safety => ImplementsDesired
<1>1. Init => Desired!Init
  BY DEF Init, NoChildren, NoCR, NoObj, Desired!Init, Desired!Nothing, Desired!None
<1>2. VersionInv /\ [Next]_vars => [Desired!Next]_(Desired!vars)
  <2>1. Unseen => UNCHANGED Desired!vars
    BY DEF Unseen, Desired!vars
  <2>2. QED
    BY <2>1, StepMaps
<1>3. QED
  BY <1>1, <1>2, VersionInitially, VersionPreserved, PTL
  DEF Safety, ImplementsDesired, Desired!Spec
=============================================================================
