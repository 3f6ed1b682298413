--------------------------- MODULE IdentityGuard ---------------------------
(***************************************************************************)
(* FsUidGuard of src/src/fs/guard.rs on the threads of the blocking pool:  *)
(* every operation of src/src/fs/operations.rs makes one, does its file    *)
(* system calls and drops it.                                              *)
(*                                                                         *)
(* The kernel keeps fsuid and fsgid for each thread, while setgroups is    *)
(* carried to all threads of the process by the C library.  A new thread   *)
(* of the pool starts with the ids of the service.  The service may change *)
(* its ids: the code ignores a call that fails.                            *)
(***************************************************************************)
CONSTANTS
  Thread,           \* the threads of the blocking pool
  Uid, Gid, Group,  \* user, group and supplementary group ids
  Service,          \* the identity the service itself runs as
  None              \* no operation, no guard

Identity == [uid : Uid, gid : Gid, groups : SUBSET Group]

ASSUME ServiceAssumption == Service \in Identity
ASSUME NoneAssumption    == None \notin Identity

VARIABLES
  pc,       \* where each thread is in its operation
  run,      \* for whom it runs the operation: uid, gid, groups of the request
  fsid,     \* fsuid and fsgid of each thread
  groups,   \* the supplementary groups of the process
  guard     \* the guard of each thread: what it found

vars == <<pc, run, fsid, groups, guard>>

FsId  == [uid : Uid, gid : Gid]
Guard == [prev : FsId, prev_groups : SUBSET Group]

\* Mutant: setfsuid is given the group, setfsgid the user.
FsIdOf_Swapped(id) == [uid |-> id.gid, gid |-> id.uid]

FsIdOf(id) == [uid |-> id.uid, gid |-> id.gid]

Init ==
  /\ pc = [t \in Thread |-> "idle"]
  /\ run = [t \in Thread |-> None]
  /\ fsid = [t \in Thread |-> FsIdOf(Service)]
  /\ groups = Service.groups
  /\ guard = [t \in Thread |-> None]

Busy == {t \in Thread : pc[t] # "idle"}

\* Mutant: the ids of the operation are noted, not those it replaces.
Found_Own(t, id) == [prev |-> FsIdOf(id), prev_groups |-> groups]

\* What setfsuid, setfsgid and getgroups return.
Found(t, id) == [prev |-> fsid[t], prev_groups |-> groups]

\* FsUidGuard::new, up to getgroups.  Only requests with a uid above 0 get here.
Enter(t, id) ==
  /\ pc[t] = "idle"
  /\ id.uid # Service.uid
  /\ fsid' = [fsid EXCEPT ![t] = FsIdOf(id)]
  /\ guard' = [guard EXCEPT ![t] = Found(t, id)]
  /\ run' = [run EXCEPT ![t] = id]
  /\ pc' = [pc EXCEPT ![t] = IF id.groups = {} THEN "working" ELSE "entering"]
  /\ UNCHANGED groups

\* FsUidGuard::new, the rest: setgroups, if the request has groups.
SetGroups(t) ==
  /\ pc[t] = "entering"
  /\ groups' = run[t].groups
  /\ pc' = [pc EXCEPT ![t] = "working"]
  /\ UNCHANGED <<run, fsid, guard>>

\* The operation is over, or has panicked, and the guard is dropped: setgroups
\* is called even if the request had no groups.
Leave(t) ==
  /\ pc[t] = "working"
  /\ fsid' = [fsid EXCEPT ![t] = guard[t].prev]
  /\ groups' = guard[t].prev_groups
  /\ guard' = [guard EXCEPT ![t] = None]
  /\ run' = [run EXCEPT ![t] = None]
  /\ pc' = [pc EXCEPT ![t] = "idle"]

Next ==
  \E t \in Thread :
    \/ \E id \in Identity : Enter(t, id)
    \/ SetGroups(t)
    \/ Leave(t)

Spec == Init /\ [][Next]_vars

----------------------------------------------------------------------------
\* Every variable has its type.
TypeOK ==
  /\ pc \in [Thread -> {"idle", "entering", "working"}]
  /\ run \in [Thread -> Identity \cup {None}]
  /\ fsid \in [Thread -> FsId]
  /\ groups \in SUBSET Group
  /\ guard \in [Thread -> Guard \cup {None}]
  /\ \A t \in Busy : run[t] \in Identity /\ guard[t] \in Guard

\* However operations follow each other and overlap, a thread works with the
\* user and the group of its own operation, and between operations it is the
\* service's again: no operation inherits the ids of an earlier one.
ThreadIdentity ==
  \A t \in Thread :
    fsid[t] = FsIdOf(IF t \in Busy THEN run[t] ELSE Service)

\* "Each request runs as the specified Unix user": while an operation does its
\* system calls, its thread has the user and the group of its request, and the
\* process, which the groups belong to, the groups of its request.
\* GuardOverlap shows that it is not so: operations overlap on the threads of
\* the pool, and each sets and restores the groups of all.
RunsAsSpecified ==
  \A t \in Thread :
    pc[t] = "working" => fsid[t] = FsIdOf(run[t]) /\ groups = run[t].groups
=============================================================================
