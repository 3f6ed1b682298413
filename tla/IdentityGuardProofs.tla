------------------------ MODULE IdentityGuardProofs ------------------------
(***************************************************************************)
(* Theorems about IdentityGuard, for any threads, identities and groups.   *)
(***************************************************************************)
EXTENDS IdentityGuard, TLAPS

\* The types are inductive.
LEMMA TypeStep == TypeOK /\ [Next]_vars => TypeOK'
<1> SUFFICES ASSUME TypeOK, [Next]_vars PROVE TypeOK'
  OBVIOUS
<1> USE NoneAssumption DEF TypeOK, Busy
<1>1. ASSUME NEW t \in Thread, NEW id \in Identity, Enter(t, id) PROVE TypeOK'
  <2>1. FsIdOf(id) \in FsId /\ Found(t, id) \in Guard
    BY DEF Identity, FsId, FsIdOf, Found, Guard
  <2>2. (Busy \cup {t})' = Busy \cup {t}
    BY <1>1 DEF Enter
  <2> QED
    BY <1>1, <2>1, <2>2 DEF Enter
<1>2. ASSUME NEW t \in Thread, SetGroups(t) PROVE TypeOK'
  <2>1. run[t].groups \in SUBSET Group
    BY <1>2 DEF SetGroups, Identity
  <2> QED
    BY <1>2, <2>1 DEF SetGroups
<1>3. ASSUME NEW t \in Thread, Leave(t) PROVE TypeOK'
  <2>1. guard[t].prev \in FsId /\ guard[t].prev_groups \in SUBSET Group
    BY <1>3 DEF Leave, Guard
  <2> QED
    BY <1>3, <2>1 DEF Leave
<1>4. CASE UNCHANGED vars
  BY <1>4 DEF vars
<1> QED
  BY <1>1, <1>2, <1>3, <1>4 DEF Next

\* Every variable of IdentityGuard always has its type.
THEOREM TypeCorrect == Spec => []TypeOK
<1>1. Init => TypeOK
  <2>1. FsIdOf(Service) \in FsId /\ Service.groups \in SUBSET Group
    BY ServiceAssumption DEF Identity, FsId, FsIdOf
  <2> QED
    BY <2>1 DEF Init, TypeOK, Busy
<1> QED
  BY <1>1, TypeStep, PTL DEF Spec

----------------------------------------------------------------------------
\* A guard has noted the ids of the service.
NotesService == \A t \in Busy : guard[t].prev = FsIdOf(Service)

IdsInv == ThreadIdentity /\ NotesService

LEMMA IdsStep == TypeOK /\ IdsInv /\ [Next]_vars => IdsInv'
<1> SUFFICES ASSUME TypeOK, IdsInv, [Next]_vars PROVE IdsInv'
  OBVIOUS
<1> USE DEF TypeOK, IdsInv, ThreadIdentity, NotesService, Busy
<1>1. ASSUME NEW t \in Thread, NEW id \in Identity, Enter(t, id) PROVE IdsInv'
  BY <1>1 DEF Enter, Found
<1>2. ASSUME NEW t \in Thread, SetGroups(t) PROVE IdsInv'
  BY <1>2 DEF SetGroups
<1>3. ASSUME NEW t \in Thread, Leave(t) PROVE IdsInv'
  BY <1>3 DEF Leave
<1>4. CASE UNCHANGED vars
  BY <1>4 DEF vars
<1> QED
  BY <1>1, <1>2, <1>3, <1>4 DEF Next

\* Whatever runs before it or next to it, a thread works with the ids of its
\* own operation, and has the service's ids between operations.
THEOREM ThreadsKeepIdentity == Spec => []ThreadIdentity
<1>1. Init => IdsInv
  BY DEF Init, IdsInv, ThreadIdentity, NotesService, Busy
<1>2. IdsInv => ThreadIdentity
  BY DEF IdsInv
<1> QED
  BY <1>1, <1>2, IdsStep, TypeCorrect, PTL DEF Spec

=============================================================================
