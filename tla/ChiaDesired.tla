---------------------------- MODULE ChiaDesired ----------------------------
(***************************************************************************)
(* What a component controller promises the users of its CRs, without its  *)
(* caches, queue, retries and crashes.  Users ask for versions of a CR;    *)
(* each child of the CR only ever moves on to a version they asked for,    *)
(* never back to an older one; Ready is declared for an incarnation of the *)
(* CR all of whose children were made.  ChiaComponent implements it.       *)
(***************************************************************************)
EXTENDS Naturals

CONSTANTS
  CRs,       \* the names a CR may have
  Children,  \* the children of each CR
  Gens       \* the generations a spec may have

VARIABLES
  want,      \* what the users ask for under each name
  have,      \* the version each child stands for
  made,      \* <<uid, child>> once made for that incarnation of a CR
  nextUid

vars == <<want, have, made, nextUid>>

(* A version of a CR: its uid, and the generation of its spec.  Uid 0      *)
(* stands for none, generation 0 for a child that no longer is what a spec *)
(* says.                                                                   *)
Version == [uid : 0 .. nextUid - 1, gen : Gens]

None == [uid |-> 0, gen |-> 0]
Nothing == [uid |-> 0, gen |-> 0, ready |-> FALSE]

NotOlder(v, w) == w.uid < v.uid \/ (w.uid = v.uid /\ w.gen <= v.gen)

(* The users asked for v: no spec of the present CR is ahead of theirs. *)
Asked(k, v) == v.uid # 0 /\ (v.uid = want[k].uid => v.gen <= want[k].gen)

Init ==
  /\ want = [k \in CRs |-> Nothing]
  /\ have = [k \in CRs |-> [c \in Children |-> None]]
  /\ made = {}
  /\ nextUid = 1

(* Users create, edit and delete the CR. *)
Ask(k) ==
  /\ \/ /\ want[k] = Nothing
        /\ want' = [want EXCEPT ![k] = [uid |-> nextUid, gen |-> 1, ready |-> FALSE]]
        /\ nextUid' = nextUid + 1
     \/ /\ want[k] # Nothing
        /\ \/ want' = [want EXCEPT ![k].gen = @ + 1]
           \/ want' = [want EXCEPT ![k] = Nothing]
        /\ UNCHANGED nextUid
  /\ UNCHANGED <<have, made>>

(* A child moves on. *)
Advance(k, c) ==
  /\ \E v \in Version :
       /\ Asked(k, v)
       /\ NotOlder(v, have[k][c])
       /\ have' = [have EXCEPT ![k][c] = v]
       /\ made' = made \cup {<<v.uid, c>>}
  /\ UNCHANGED <<want, nextUid>>

(* A child is lost: to a user, or to the garbage collector. *)
Lose(k, c) ==
  /\ have' = [have EXCEPT ![k][c] = None]
  /\ UNCHANGED <<want, made, nextUid>>

(* A user changes a child. *)
Drift(k, c) ==
  /\ have' = [have EXCEPT ![k][c].gen = 0]
  /\ UNCHANGED <<want, made, nextUid>>

Declare(k) ==
  /\ want[k] # Nothing
  /\ \A c \in Children : <<want[k].uid, c>> \in made
  /\ want' = [want EXCEPT ![k].ready = TRUE]
  /\ UNCHANGED <<have, made, nextUid>>

Next ==
  \E k \in CRs :
    \/ Ask(k)
    \/ Declare(k)
    \/ \E c \in Children : Advance(k, c) \/ Lose(k, c) \/ Drift(k, c)

Spec == Init /\ [][Next]_vars
=============================================================================
