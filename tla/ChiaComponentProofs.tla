------------------------ MODULE ChiaComponentProofs ------------------------
(***************************************************************************)
(* Theorems about ChiaComponent, for every set of CRs, every plan and      *)
(* every bound: type correctness, and ReadyAfterApplied where no child     *)
(* needs a finalizer.                                                      *)
(***************************************************************************)
EXTENDS ChiaComponent, TLAPS

USE DEF CRType, ObjType

(* An index of the plan names a child. *)
LEMMA PlanIndex ==
  /\ DOMAIN Plan = 1 .. Len(Plan)
  /\ Len(Plan) \in Nat \ {0}
  /\ \A i \in 1 .. Len(Plan) : Plan[i] \in Children
  /\ \A c \in Children : \E i \in 1 .. Len(Plan) : Plan[i] = c
BY PlanAssumption DEF Children

LEMMA NoCRTyped == NoCR \in CRType /\ NoObj \in ObjType
BY DEF NoCR, NoObj

LEMMA NoChildrenTyped == NoChildren \in [CRs -> [Children -> ObjType]]
BY NoCRTyped DEF NoChildren

(* A write of a child keeps the types. *)
LEMMA PutTyped ==
  ASSUME TypeOK, NEW k \in CRs, NEW c \in Children, NEW obj \in ObjType,
         Put(k, c, obj)
  PROVE  /\ child' \in [CRs -> [Children -> ObjType]]
         /\ current' \in [CRs -> SUBSET Children]
BY DEF TypeOK, Put

LEMMA RemoveTyped ==
  ASSUME TypeOK, NEW k \in CRs, NEW c \in Children, Remove(k, c)
  PROVE  /\ child' \in [CRs -> [Children -> ObjType]]
         /\ current' \in [CRs -> SUBSET Children]
<1>1. child[k][c] \in ObjType
  BY DEF TypeOK
<1>2. [child[k][c] EXCEPT !.term = TRUE] \in ObjType
  BY <1>1
<1>3. QED
  BY <1>1, <1>2, PutTyped, NoCRTyped DEF Remove

(* The ways Reconcile ends keep the types. *)
LEMMA ReturnTyped ==
  ASSUME TypeOK, pc # "idle", Return \/ ReturnError
  PROVE  /\ queue' \in SUBSET CRs
         /\ pc' = "idle" /\ key' = NoKey
         /\ copy' \in CRType
         /\ step' \in 1 .. Len(Plan) + 1
<1>1. key \in CRs
  BY DEF TypeOK
<1>2. 1 \in 1 .. Len(Plan) + 1
  BY PlanIndex
<1>3. QED
  BY <1>1, <1>2, NoCRTyped DEF TypeOK, Return, ReturnError, Idle

LEMMA ProceedTyped ==
  ASSUME TypeOK, pc = "apply", Proceed
  PROVE  /\ queue' = queue /\ key' = key /\ copy' = copy
         /\ pc' \in {"apply", "status"}
         /\ step' = step + 1
         /\ step' \in 1 .. Len(Plan) + 1
         /\ pc' = "apply" => step' <= Len(Plan)
         /\ pc' = "status" => step' = Len(Plan) + 1
<1>1. Len(Plan) \in Nat /\ step \in 1 .. Len(Plan)
  BY PlanIndex DEF TypeOK
<1>2. step' = step + 1 /\ step' \in 1 .. Len(Plan) + 1
  BY <1>1 DEF Proceed
<1>3. step = Len(Plan) \/ step + 1 <= Len(Plan)
  BY <1>1
<1>4. QED
  BY <1>1, <1>2, <1>3 DEF Proceed
-----------------------------------------------------------------------------
LEMMA InitTyped == Init => TypeOK
<1> SUFFICES ASSUME Init PROVE TypeOK
  OBVIOUS
<1>1. cr \in [CRs -> CRType] /\ crCache \in [CRs -> CRType] /\ copy \in CRType
  BY NoCRTyped DEF Init
<1>2. child \in [CRs -> [Children -> ObjType]] /\ childCache \in [CRs -> [Children -> ObjType]]
  BY NoChildrenTyped DEF Init
<1>3. step \in 1 .. Len(Plan) + 1
  BY PlanIndex DEF Init
<1>4. QED
  BY <1>1, <1>2, <1>3, KeyAssumption DEF Init, TypeOK

(* Every variable keeps its type: one step per action. *)
LEMMA StepTyped == TypeOK /\ [Next]_vars => TypeOK'
<1> SUFFICES ASSUME TypeOK, [Next]_vars PROVE TypeOK'
  OBVIOUS
<1> USE DEF apiVars, cacheVars, workVars, bounds
<1>1. ASSUME NEW k \in CRs, CreateCR(k) PROVE TypeOK'
  <2>1. PICK bad \in BadSpecs :
          cr' = [cr EXCEPT ![k] =
                   [uid |-> nextUid, gen |-> 1, bad |-> bad, ready |-> FALSE]]
    BY <1>1 DEF CreateCR
  <2>2. [uid |-> nextUid, gen |-> 1, bad |-> bad, ready |-> FALSE] \in CRType
    BY SpecAssumption DEF TypeOK
  <2>3. cr' \in [CRs -> CRType]
    BY <2>1, <2>2 DEF TypeOK
  <2>4. nextUid' \in Nat \ {0} /\ edits' \in Nat
    BY <1>1 DEF TypeOK, CreateCR
  <2>5. QED
    BY <1>1, <2>3, <2>4 DEF TypeOK, CreateCR
<1>2. ASSUME NEW k \in CRs, EditCR(k) PROVE TypeOK'
  <2>1. PICK bad \in BadSpecs :
          cr' = [cr EXCEPT ![k] = [uid |-> @.uid, gen |-> @.gen + 1,
                                   bad |-> bad, ready |-> @.ready]]
    BY <1>2 DEF EditCR
  <2>2. [uid |-> cr[k].uid, gen |-> cr[k].gen + 1,
         bad |-> bad, ready |-> cr[k].ready] \in CRType
    BY SpecAssumption DEF TypeOK
  <2>3. cr' \in [CRs -> CRType]
    BY <2>1, <2>2 DEF TypeOK
  <2>4. QED
    BY <1>2, <2>3 DEF TypeOK, EditCR
<1>3. ASSUME NEW k \in CRs, DeleteCR(k) PROVE TypeOK'
  <2>1. cr' \in [CRs -> CRType]
    BY <1>3, NoCRTyped DEF TypeOK, DeleteCR
  <2>2. QED
    BY <1>3, <2>1 DEF TypeOK, DeleteCR
<1>4. ASSUME NEW k \in CRs, NEW c \in Children, MeddleWithChild(k, c) PROVE TypeOK'
  <2> child[k][c] \in ObjType
    BY DEF TypeOK
  <2>1. [child[k][c] EXCEPT !.gen = 0] \in ObjType
    OBVIOUS
  <2>2. /\ child' \in [CRs -> [Children -> ObjType]]
        /\ current' \in [CRs -> SUBSET Children]
    BY <1>4, <2>1, PutTyped, RemoveTyped DEF MeddleWithChild
  <2>3. meddles' \in Nat
    BY <1>4 DEF TypeOK, MeddleWithChild
  <2>4. QED
    BY <1>4, <2>2, <2>3 DEF TypeOK, MeddleWithChild
<1>5. ASSUME NEW k \in CRs, NEW c \in Children, GarbageCollect(k, c) PROVE TypeOK'
  BY <1>5, RemoveTyped DEF TypeOK, GarbageCollect
<1>6. ASSUME NEW k \in CRs, NEW c \in Children, Finalize(k, c) PROVE TypeOK'
  BY <1>6, PutTyped, NoCRTyped DEF TypeOK, Finalize
<1>7. ASSUME NEW k \in CRs, WatchCR(k) PROVE TypeOK'
  BY <1>7 DEF TypeOK, WatchCR
<1>8. ASSUME NEW k \in CRs, NEW c \in Children, WatchChild(k, c) PROVE TypeOK'
  <2>1. childCache' \in [CRs -> [Children -> ObjType]]
    BY <1>8 DEF TypeOK, WatchChild
  <2>2. current' \in [CRs -> SUBSET Children]
    BY <1>8 DEF TypeOK, WatchChild
  <2>3. QED
    BY <1>8, <2>1, <2>2 DEF TypeOK, WatchChild
<1>9. CASE Resync
  BY <1>9 DEF TypeOK, Resync
<1>10. ASSUME NEW k \in CRs, Start(k) PROVE TypeOK'
  <2>1. key' \in CRs /\ key' # NoKey /\ pc' = "get" /\ queue' \in SUBSET CRs
    BY <1>10, KeyAssumption DEF TypeOK, Start
  <2>2. QED
    BY <1>10, <2>1 DEF TypeOK, Start
<1>11. CASE GetCR
  <2>1. CASE crCache[key] = NoCR
    BY <1>11, <2>1, ReturnTyped DEF TypeOK, GetCR
  <2>2. CASE crCache[key] # NoCR
    <3>1. key \in CRs
      BY <1>11 DEF TypeOK, GetCR
    <3>2. copy' \in CRType
      BY <1>11, <2>2, <3>1 DEF TypeOK, GetCR
    <3>3. step' = 1 /\ step' \in 1 .. Len(Plan) + 1 /\ step' <= Len(Plan)
      BY <1>11, <2>2, PlanIndex DEF GetCR
    <3>4. QED
      BY <1>11, <2>2, <3>2, <3>3 DEF TypeOK, GetCR
  <2>3. QED
    BY <2>1, <2>2
<1>12. CASE Apply
  <2> DEFINE c == Plan[step]
  <2>1. key \in CRs /\ c \in Children /\ pc = "apply" /\ key # NoKey
    BY <1>12, PlanIndex DEF TypeOK, Apply
  <2> HIDE DEF c
  <2>2. CASE ApplyWrite(c)
    <3>1. Assemble(copy) \in ObjType /\ copy.uid \in Nat
      BY DEF TypeOK, Assemble
    <3>2. applied' \in SUBSET (Nat \X Children)
      BY <2>1, <2>2, <3>1 DEF TypeOK, ApplyWrite
    <3>3. /\ child' \in [CRs -> [Children -> ObjType]]
          /\ current' \in [CRs -> SUBSET Children]
      BY <2>1, <2>2, <3>1, PutTyped DEF ApplyWrite
    <3>4. QED
      BY <2>1, <2>2, <3>2, <3>3, ProceedTyped DEF TypeOK, ApplyWrite
  <2>3. CASE ApplyInSync(c)
    <3>1. copy.uid \in Nat
      BY DEF TypeOK
    <3>2. applied' \in SUBSET (Nat \X Children)
      BY <2>1, <2>3, <3>1 DEF TypeOK, ApplyInSync
    <3>3. QED
      BY <2>1, <2>3, <3>2, ProceedTyped DEF TypeOK, ApplyInSync
  <2>4. CASE ApplyBackOff(c)
    BY <2>1, <2>4, ProceedTyped DEF TypeOK, ApplyBackOff
  <2>5. CASE ApplyError(c)
    <3>1. pc # "idle" /\ ReturnError
      BY <2>1, <2>5 DEF ApplyError
    <3>2. QED
      BY <2>5, <3>1, ReturnTyped DEF TypeOK, ApplyError
  <2>6. QED
    BY <1>12, <2>2, <2>3, <2>4, <2>5 DEF Apply, c
<1>13. CASE UpdateStatus
  <2>1. key \in CRs /\ pc # "idle"
    BY <1>13 DEF TypeOK, UpdateStatus
  <2>2. [cr EXCEPT ![key].ready = TRUE] \in [CRs -> CRType]
    BY <2>1 DEF TypeOK
  <2>3. cr' \in [CRs -> CRType]
    BY <1>13, <2>2 DEF TypeOK, UpdateStatus
  <2>4. Return \/ ReturnError
    BY <1>13 DEF UpdateStatus
  <2>5. QED
    BY <1>13, <2>1, <2>3, <2>4, ReturnTyped DEF TypeOK, UpdateStatus
<1>14. CASE Fault
  <2>1. key \in CRs /\ pc # "idle"
    BY <1>14 DEF TypeOK, Fault
  <2>2. [cr EXCEPT ![key].ready = TRUE] \in [CRs -> CRType]
    BY <2>1 DEF TypeOK
  <2>3. cr' \in [CRs -> CRType]
    BY <1>14, <2>2 DEF TypeOK, Fault
  <2>4. Return \/ ReturnError
    BY <1>14 DEF Fault
  <2>5. /\ queue' \in SUBSET CRs /\ pc' = "idle" /\ key' = NoKey
        /\ copy' \in CRType /\ step' \in 1 .. Len(Plan) + 1
    BY <2>1, <2>4, ReturnTyped
  <2>6. faults' \in Nat
    BY <1>14 DEF TypeOK, Fault
  <2>7. QED
    BY <1>14, <2>3, <2>5, <2>6 DEF TypeOK, Fault
<1>15. CASE Crash
  <2>1. crCache' \in [CRs -> CRType] /\ copy' \in CRType
    BY <1>15, NoCRTyped DEF Crash, Idle
  <2>2. step' \in 1 .. Len(Plan) + 1
    BY <1>15, PlanIndex DEF Crash, Idle
  <2>3. childCache' \in [CRs -> [Children -> ObjType]] /\ current' \in [CRs -> SUBSET Children]
    BY <1>15, NoChildrenTyped DEF Crash
  <2>4. pc' = "idle" /\ key' = NoKey /\ queue' = {} /\ crashes' \in Nat
    BY <1>15 DEF TypeOK, Crash, Idle
  <2>5. QED
    BY <1>15, <2>1, <2>2, <2>3, <2>4 DEF TypeOK, Crash
<1>16. CASE Restart
  BY <1>16 DEF TypeOK, Restart
<1>17. CASE UNCHANGED vars
  BY <1>17 DEF TypeOK, vars
<1>18. QED
  BY <1>1, <1>2, <1>3, <1>4, <1>5, <1>6, <1>7, <1>8, <1>9, <1>10, <1>11,
     <1>12, <1>13, <1>14, <1>15, <1>16, <1>17
  DEF Next, User, Cluster, Informers, Operator, Reconcile

(* The types are those TypeOK says, for every value of the constants. *)
THEOREM TypeCorrect == Safety => []TypeOK
BY InitTyped, StepTyped, PTL DEF Safety

-----------------------------------------------------------------------------
(***************************************************************************)
(* ReadyAfterApplied.  By itself it is not inductive: UpdateStatus sets    *)
(* Ready because the worker is past the last child, so the invariant also  *)
(* says what the worker has applied so far for the incarnation it copied.  *)
(***************************************************************************)
AppliedSoFar ==
  /\ pc \in {"apply", "status"} =>
       \A i \in 1 .. Len(Plan) : i < step => <<copy.uid, Plan[i]>> \in applied
  /\ pc = "status" => step = Len(Plan) + 1

(* No child is being deleted, nor seems so in the cache. *)
NoneTerminating ==
  \A k \in CRs, c \in Children : ~child[k][c].term /\ ~childCache[k][c].term

AppliedInv == TypeOK /\ AppliedSoFar /\ NoneTerminating /\ ReadyAfterApplied

(* A child that the worker wrote or found is applied, and the worker is    *)
(* one child further.                                                      *)
LEMMA ApplyOne ==
  ASSUME AppliedInv, pc = "apply", Proceed,
         applied' = applied \cup {<<copy.uid, Plan[step]>>}
  PROVE  AppliedSoFar'
<1>1. Len(Plan) \in Nat /\ step \in 1 .. Len(Plan)
  BY PlanIndex DEF AppliedInv, TypeOK
<1>2. copy' = copy /\ step' = step + 1 /\ (pc' = "status" => step = Len(Plan))
  BY DEF Proceed
<1>3. ASSUME NEW i \in 1 .. Len(Plan), i < step' PROVE <<copy'.uid, Plan[i]>> \in applied'
  <2>1. i < step \/ i = step
    BY <1>1, <1>2, <1>3
  <2>2. QED
    BY <1>2, <2>1 DEF AppliedInv, AppliedSoFar
<1>4. QED
  BY <1>1, <1>2, <1>3 DEF AppliedSoFar

LEMMA AppliedInitially == Init => AppliedInv
<1> SUFFICES ASSUME Init PROVE AppliedInv
  OBVIOUS
<1>1. TypeOK
  BY InitTyped
<1>2. AppliedSoFar
  BY DEF Init, AppliedSoFar
<1>3. NoneTerminating
  BY DEF Init, NoneTerminating, NoChildren, NoObj
<1>4. ReadyAfterApplied
  BY DEF Init, ReadyAfterApplied, NoCR
<1>5. QED
  BY <1>1, <1>2, <1>3, <1>4 DEF AppliedInv

(* One step per action that changes a part of the invariant. *)
LEMMA AppliedPreserved ==
  ASSUME Finalizers = {}
  PROVE  AppliedInv /\ [Next]_vars => AppliedInv'
<1> USE DEF apiVars, cacheVars, workVars, bounds
<1> SUFFICES ASSUME AppliedInv, [Next]_vars PROVE AppliedInv'
  OBVIOUS
<1>0. TypeOK /\ TypeOK'
  BY StepTyped DEF AppliedInv
<1>1. NoneTerminating'
  <2>1. ASSUME NEW k \in CRs, NEW c \in Children, NEW obj \in ObjType,
               ~obj.term, Put(k, c, obj), UNCHANGED childCache
        PROVE  NoneTerminating'
    BY <1>0, <2>1 DEF AppliedInv, NoneTerminating, Put, TypeOK
  <2>2. ASSUME NEW k \in CRs, NEW c \in Children, Remove(k, c), UNCHANGED childCache
        PROVE  NoneTerminating'
    BY <2>1, <2>2, NoCRTyped DEF Remove, NoObj
  <2>3. ASSUME NEW k \in CRs, NEW c \in Children, MeddleWithChild(k, c)
        PROVE  NoneTerminating'
    <3>1. child[k][c] \in ObjType /\ ~child[k][c].term
      BY <1>0 DEF TypeOK, AppliedInv, NoneTerminating
    <3>2. [child[k][c] EXCEPT !.gen = 0] \in ObjType
      BY <3>1
    <3>3. ~[child[k][c] EXCEPT !.gen = 0].term
      BY <3>1
    <3>4. QED
      BY <2>1, <2>2, <2>3, <3>2, <3>3 DEF MeddleWithChild
  <2>4. ASSUME NEW k \in CRs, NEW c \in Children, GarbageCollect(k, c) \/ Finalize(k, c)
        PROVE  NoneTerminating'
    BY <2>1, <2>2, <2>4, NoCRTyped DEF GarbageCollect, Finalize, NoObj
  <2>5. ASSUME NEW k \in CRs, NEW c \in Children, WatchChild(k, c)
        PROVE  NoneTerminating'
    BY <1>0, <2>5 DEF AppliedInv, NoneTerminating, WatchChild, TypeOK
  <2>6. CASE Apply
    <3>1. key \in CRs /\ Plan[step] \in Children
      BY <1>0, <2>6, PlanIndex DEF TypeOK, Apply
    <3>2. CASE ApplyWrite(Plan[step])
      <4>1. Assemble(copy) \in ObjType /\ ~Assemble(copy).term
        BY <1>0 DEF TypeOK, Assemble
      <4>2. QED
        BY <2>1, <3>1, <3>2, <4>1 DEF ApplyWrite
    <3>3. CASE UNCHANGED <<child, childCache>>
      BY <3>3 DEF AppliedInv, NoneTerminating
    <3>4. QED
      BY <2>6, <3>2, <3>3 DEF Apply, ApplyInSync, ApplyBackOff, ApplyError
  <2>7. CASE Crash
    BY <2>7 DEF AppliedInv, NoneTerminating, Crash, NoChildren, NoObj
  <2>8. CASE Restart
    BY <2>8 DEF AppliedInv, NoneTerminating, Restart
  <2>9. CASE UNCHANGED <<child, childCache>>
    BY <2>9 DEF AppliedInv, NoneTerminating
  <2>10. QED
    BY <2>3, <2>4, <2>5, <2>6, <2>7, <2>8, <2>9
    DEF Next, User, Cluster, Informers, Operator, Reconcile, vars, CreateCR,
        EditCR, DeleteCR, WatchCR, Resync, Start, GetCR, UpdateStatus, Fault
<1>2. ASSUME UNCHANGED <<cr, applied>>, AppliedSoFar' PROVE AppliedInv'
  BY <1>0, <1>1, <1>2 DEF AppliedInv, ReadyAfterApplied
<1>3. ASSUME UNCHANGED <<pc, step, copy, applied>> PROVE AppliedSoFar'
  BY <1>3 DEF AppliedInv, AppliedSoFar
<1>4. ASSUME pc' \in {"idle", "get"} PROVE AppliedSoFar'
  BY <1>4 DEF AppliedSoFar
<1>5. ASSUME NEW k \in CRs, CreateCR(k) \/ EditCR(k) \/ DeleteCR(k) PROVE AppliedInv'
  <2>1. \A j \in CRs : cr'[j].ready => cr[j].ready /\ cr'[j].uid = cr[j].uid
    <3>1. CASE CreateCR(k)
      BY <1>0, <3>1 DEF TypeOK, CreateCR
    <3>2. CASE EditCR(k)
      BY <1>0, <3>2 DEF TypeOK, EditCR
    <3>3. CASE DeleteCR(k)
      BY <1>0, <3>3 DEF TypeOK, DeleteCR, NoCR
    <3>4. QED
      BY <1>5, <3>1, <3>2, <3>3
  <2>2. UNCHANGED <<pc, step, copy, applied>>
    BY <1>5 DEF CreateCR, EditCR, DeleteCR
  <2>3. ReadyAfterApplied'
    BY <2>1, <2>2 DEF AppliedInv, ReadyAfterApplied
  <2>4. QED
    BY <1>0, <1>1, <1>3, <2>2, <2>3 DEF AppliedInv
<1>6. CASE GetCR
  <2>1. CASE pc' = "idle"
    BY <1>2, <1>4, <1>6, <2>1 DEF GetCR
  <2>2. CASE pc' = "apply" /\ step' = 1
    <3>1. AppliedSoFar'
      BY <2>2, PlanIndex DEF AppliedSoFar
    <3>2. QED
      BY <1>2, <1>6, <3>1 DEF GetCR
  <2>3. QED
    BY <1>6, <2>1, <2>2 DEF GetCR, Return, Idle
<1>7. CASE Apply
  <2> DEFINE c == Plan[step]
  <2>1. key \in CRs /\ c \in Children /\ pc = "apply"
    BY <1>0, <1>7, PlanIndex DEF TypeOK, Apply
  <2>2. CASE ApplyWrite(c) \/ ApplyInSync(c)
    <3>1. Proceed /\ cr' = cr /\ applied' = applied \cup {<<copy.uid, Plan[step]>>}
      BY <2>2 DEF ApplyWrite, ApplyInSync
    <3>2. AppliedSoFar'
      BY <2>1, <3>1, ApplyOne
    <3>3. ReadyAfterApplied'
      BY <3>1 DEF AppliedInv, ReadyAfterApplied
    <3>4. QED
      BY <1>0, <1>1, <3>2, <3>3 DEF AppliedInv
  <2>3. ~ApplyBackOff(c)
    BY <2>1 DEF AppliedInv, NoneTerminating, ApplyBackOff, Cached
  <2>4. CASE ApplyError(c)
    BY <1>2, <1>4, <2>4 DEF ApplyError, ReturnError, Idle
  <2>5. QED
    BY <1>7, <2>2, <2>3, <2>4 DEF Apply
<1>8. CASE (UpdateStatus \/ Fault) /\ UNCHANGED cr
  BY <1>2, <1>4, <1>8 DEF UpdateStatus, Fault, Return, ReturnError, Idle
<1>9. CASE (UpdateStatus \/ Fault) /\ cr' # cr
  <2>1. /\ pc = "status" /\ cr[key] = copy /\ key \in CRs
        /\ cr' = [cr EXCEPT ![key].ready = TRUE]
        /\ pc' = "idle" /\ applied' = applied
    BY <1>0, <1>9 DEF TypeOK, UpdateStatus, Fault, Return, ReturnError, Idle
  <2>2. \A d \in Children : <<cr[key].uid, d>> \in applied
    <3>1. step = Len(Plan) + 1
      BY <2>1 DEF AppliedInv, AppliedSoFar
    <3>2. \A i \in 1 .. Len(Plan) : i < step
      BY <3>1, PlanIndex
    <3>3. QED
      BY <2>1, <3>2, PlanIndex DEF AppliedInv, AppliedSoFar
  <2>3. \A j \in CRs : cr'[j].uid = cr[j].uid /\ (cr'[j].ready => j = key \/ cr[j].ready)
    BY <1>0, <2>1 DEF TypeOK
  <2>4. ReadyAfterApplied'
    BY <2>1, <2>2, <2>3 DEF AppliedInv, ReadyAfterApplied
  <2>5. QED
    BY <1>0, <1>1, <1>4, <2>1, <2>4 DEF AppliedInv
<1>10. CASE Crash
  BY <1>2, <1>4, <1>10 DEF Crash, Idle
<1>11. ASSUME NEW k \in CRs, Start(k) PROVE AppliedInv'
  BY <1>2, <1>4, <1>11 DEF Start
<1>12. CASE UNCHANGED <<cr, applied, pc, step, copy>>
  BY <1>2, <1>3, <1>12
<1>13. QED
  BY <1>5, <1>6, <1>7, <1>8, <1>9, <1>10, <1>11, <1>12
  DEF Next, User, Cluster, Informers, Operator, Reconcile, vars,
      MeddleWithChild, GarbageCollect, Finalize, WatchCR, WatchChild, Resync, Restart

(* Status.Ready is true only when every child of this incarnation of the   *)
(* CR was written or found in place, whatever the interleaving, the faults *)
(* and the crashes, if no child has a finalizer.                           *)
THEOREM ReadyIsEarned ==
  ASSUME Finalizers = {}
  PROVE  Safety => []ReadyAfterApplied
<1>1. AppliedInv => ReadyAfterApplied
  BY DEF AppliedInv
<1>2. QED
  BY AppliedInitially, AppliedPreserved, <1>1, PTL DEF Safety
=============================================================================
