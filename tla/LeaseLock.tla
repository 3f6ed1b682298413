----------------------------- MODULE LeaseLock -----------------------------
(***************************************************************************)
(* What a file lock of posixfy-bridge promises its users, with no table,   *)
(* no map of paths and no threads: a request holds a lease on one path,    *)
(* for reading or for writing, and while two leases of different users are *)
(* both unexpired on the same path both are for reading.  A lease ends     *)
(* when its holder gives it up, or counts for nothing once its time is up. *)
(* LockManager implements this specification under the conditions stated   *)
(* there.                                                                  *)
(***************************************************************************)
EXTENDS Naturals

CONSTANTS
  Request,   \* the HTTP requests that take locks
  Path,      \* the resolved paths that are locked
  UidOf,     \* the X-FS-UID of each request
  TTL        \* how long a lease lasts at most

VARIABLES
  clock,     \* the time
  lease      \* the leases held, a function on the requests that hold one

vars == <<clock, lease>>

LockType == {"read", "write"}

Unexpired(r) == r \in DOMAIN lease /\ clock < lease[r].expires

Init ==
  /\ clock = 0
  /\ lease = [r \in {} |-> {}]

\* A request gets a lease only if no unexpired lease of another user forbids
\* it.  It may last any time up to TTL.
Grant(r, p, t, expires) ==
  /\ r \notin DOMAIN lease
  /\ expires <= clock + TTL
  /\ \A q \in DOMAIN lease :
       /\ Unexpired(q)
       /\ lease[q].path = p
       /\ UidOf[q] # UidOf[r]
       => lease[q].type = "read" /\ t = "read"
  /\ lease' = [q \in DOMAIN lease \cup {r} |->
                 IF q = r THEN [path |-> p, type |-> t, expires |-> expires]
                          ELSE lease[q]]
  /\ UNCHANGED clock

GiveUp(r) ==
  /\ r \in DOMAIN lease
  /\ lease' = [q \in DOMAIN lease \ {r} |-> lease[q]]
  /\ UNCHANGED clock

Tick ==
  /\ clock' = clock + 1
  /\ UNCHANGED lease

Next ==
  \/ \E r \in Request :
       \/ \E p \in Path, t \in LockType, e \in 0 .. clock + TTL : Grant(r, p, t, e)
       \/ GiveUp(r)
  \/ Tick

Spec == Init /\ [][Next]_vars

(***************************************************************************)
(* What users rely on: two unexpired leases of different users on the same *)
(* path are both for reading.                                              *)
(***************************************************************************)
Exclusion ==
  \A q, r \in DOMAIN lease :
    /\ Unexpired(q) /\ Unexpired(r)
    /\ lease[q].path = lease[r].path
    /\ UidOf[q] # UidOf[r]
    => lease[q].type = "read" /\ lease[r].type = "read"
=============================================================================
