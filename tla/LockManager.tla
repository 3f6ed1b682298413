---------------------------- MODULE LockManager ----------------------------
(***************************************************************************)
(* The LockManager of src/src/fs/lock.rs and the request handlers that use *)
(* it, at the grain at which other threads can observe it.                 *)
(*                                                                         *)
(* The lock table is a DashMap: each access to a key holds the lock of the *)
(* key's shard, so one access is one step.  `acquire` is one access, but   *)
(* it reads the clock before it; `release` is one access when other        *)
(* entries remain and two when none does, with the shard unlocked in       *)
(* between.  Handlers are tasks of a tokio runtime with Workers worker     *)
(* threads, and neither `acquire` nor `release` awaits: a request that is  *)
(* inside one of them occupies a worker until it is through.               *)
(***************************************************************************)
EXTENDS Naturals, FiniteSets

CONSTANTS
  Request,   \* the requests that take locks; one that ended may start again
  Path,      \* the resolved paths they lock
  Uid,       \* the users they act for
  UidOf,     \* the user of each request
  TTL,       \* DEFAULT_TTL
  Workers,   \* the worker threads of the runtime
  MaxClock,  \* bound on the clock, for model checking
  NoJob      \* the local state of a request that is not running

ASSUME RequestAssumption == IsFiniteSet(Request) /\ UidOf \in [Request -> Uid]
ASSUME TimeAssumption    == TTL \in Nat /\ MaxClock \in Nat
ASSUME WorkersAssumption == Workers \in Nat \ {0}

VARIABLES
  clock,     \* Instant::now()
  locks,     \* LockManager.locks; its DOMAIN is the set of keys in the map
  pc,        \* where each request is
  job        \* the path, the lock type and the instant `now` of its acquire

vars == <<clock, locks, pc, job>>

LockType == {"read", "write"}

\* The Vec of a key holds at most one entry of each user, and its order is
\* only seen in the text of an error, so it is a set.  `acquired_at` is never
\* read.
LockEntry == [uid : Uid, type : LockType, expires : Nat]

Job == [path : Path, type : LockType, now : Nat]

ASSUME NoJobAssumption == NoJob \notin Job

\* "entering": acquire has read the clock and waits for the shard;
\* "holding" : the request owns a LockGuard that has not been released;
\* "removing": release has emptied the Vec, dropped its reference into the
\*             map and is about to remove the key.
PC == {"idle", "entering", "holding", "removing"}

----------------------------------------------------------------------------
(* The data of the table.                                                  *)

\* Mutants: an expiry in the past, an expiry one unit too late.
ExpiresAt_InThePast(r) == job[r].now - TTL
ExpiresAt_TooLate(r) == job[r].now + TTL + 1

\* The expiry of the lock that request r acquires.
ExpiresAt(r) == job[r].now + TTL

\* The entry that acquire pushes for r.
EntryOf(r) ==
  [uid |-> UidOf[r], type |-> job[r].type, expires |-> ExpiresAt(r)]

\* locks.entry(path).or_default(): the entries under a key, none if it is new.
Entries(p) == IF p \in DOMAIN locks THEN locks[p] ELSE {}

\* Mutants: no sweep of what expired, a sweep one unit too early.
Live_Unswept(es, now) == es
Live_TooEarly(es, now) == {e \in es : e.expires > now + 1}

\* entries.retain(|e| e.expires_at > now)
Live(es, now) == {e \in es : e.expires > now}

\* Mutant: the retain of a release inverted.
Others_Inverted(es, uid) == {e \in es : e.uid = uid}

\* entries.retain(|e| e.uid != uid)
Others(es, uid) == {e \in es : e.uid # uid}

\* Mutants: writers only exclude writers, a reader gets past a writer.
Conflicts_WritersOnly(e, uid, type) ==
  e.type = "write" /\ type = "write" /\ e.uid # uid
Conflicts_ReadersPass(e, uid, type) == type = "write" /\ e.uid # uid

\* The match of the conflict loop: two reads agree, and so does anything with
\* an entry of the same user.
Conflicts(e, uid, type) ==
  /\ ~(e.type = "read" /\ type = "read")
  /\ e.uid # uid

\* Mutant: a release that leaves the empty Vec behind.
Without_Kept(p) == locks

\* The map with es under key p, and the map without key p.
Put(p, es) ==
  [q \in DOMAIN locks \cup {p} |-> IF q = p THEN es ELSE locks[q]]
Without(p) == [q \in DOMAIN locks \ {p} |-> locks[q]]

----------------------------------------------------------------------------
(* The steps of a request.                                                 *)

Running == {r \in Request : pc[r] \in {"entering", "removing"}}

WorkerFree == Cardinality(Running) < Workers

Init ==
  /\ clock = 0
  /\ locks = [p \in {} |-> {}]
  /\ pc = [r \in Request |-> "idle"]
  /\ job = [r \in Request |-> NoJob]

\* acquire, up to `let now = Instant::now()`.
Begin(r, p, t) ==
  /\ pc[r] = "idle"
  /\ WorkerFree
  /\ pc' = [pc EXCEPT ![r] = "entering"]
  /\ job' = [job EXCEPT ![r] = [path |-> p, type |-> t, now |-> clock]]
  /\ UNCHANGED <<clock, locks>>

\* acquire, the rest: under the shard lock it forgets what had expired at
\* `now`, and either refuses the request (409 Conflict) or replaces the user's
\* entry by a new one.
Refuse(r) ==
  LET live == Live(Entries(job[r].path), job[r].now) IN
  /\ pc[r] = "entering"
  /\ \E e \in live : Conflicts(e, UidOf[r], job[r].type)
  /\ locks' = Put(job[r].path, live)
  /\ pc' = [pc EXCEPT ![r] = "idle"]
  /\ job' = [job EXCEPT ![r] = NoJob]
  /\ UNCHANGED clock

Acquire(r) ==
  LET live == Live(Entries(job[r].path), job[r].now) IN
  /\ pc[r] = "entering"
  /\ \A e \in live : ~Conflicts(e, UidOf[r], job[r].type)
  /\ locks' = Put(job[r].path, Others(live, UidOf[r]) \cup {EntryOf(r)})
  /\ pc' = [pc EXCEPT ![r] = "holding"]
  /\ UNCHANGED <<clock, job>>

\* LockGuard::release, or the drop of the guard when the handler returns, fails
\* or is cancelled: the entries of the user go.  A key that is not in the map
\* is left alone, and a Vec that stays non-empty ends the release.
Release(r) ==
  /\ pc[r] = "holding"
  /\ WorkerFree
  /\ LET p    == job[r].path
         rest == Others(Entries(p), UidOf[r])
         last == p \in DOMAIN locks /\ rest = {}
     IN /\ locks' = IF p \in DOMAIN locks THEN Put(p, rest) ELSE locks
        /\ pc' = [pc EXCEPT ![r] = IF last THEN "removing" ELSE "idle"]
        /\ job' = IF last THEN job ELSE [job EXCEPT ![r] = NoJob]
  /\ UNCHANGED clock

\* release, the second access: whatever is under the key by now goes with it.
Remove(r) ==
  /\ pc[r] = "removing"
  /\ locks' = Without(job[r].path)
  /\ pc' = [pc EXCEPT ![r] = "idle"]
  /\ job' = [job EXCEPT ![r] = NoJob]
  /\ UNCHANGED clock

Tick ==
  /\ clock < MaxClock
  /\ clock' = clock + 1
  /\ UNCHANGED <<locks, pc, job>>

Step(r) ==
  \/ \E p \in Path, t \in LockType : Begin(r, p, t)
  \/ Refuse(r)
  \/ Acquire(r)
  \/ Release(r)
  \/ Remove(r)

Next == (\E r \in Request : Step(r)) \/ Tick

Spec == Init /\ [][Next]_vars

(***************************************************************************)
(* Clients that never have two requests of one user in flight on one path, *)
(* as long as no release loses a race: between its two accesses nobody has *)
(* acquired the path whose key it removes.  The run LockRemoveRace shows   *)
(* that the code does not ensure this on two threads, whoever the clients. *)
(***************************************************************************)
OneRequestPerUserAndPath ==
  \A q, r \in Request :
    /\ q # r /\ UidOf[q] = UidOf[r]
    /\ pc[q] # "idle" /\ pc[r] # "idle"
    => job[q].path # job[r].path

\* The key p is removed in this step, by a release that has found it empty.
Removes(p) == \E r \in Request : pc[r] = "removing" /\ pc'[r] = "idle" /\ job[r].path = p

NoRace == \A p \in Path : Removes(p) => Entries(p) = {}

SerialNext == Next /\ OneRequestPerUserAndPath' /\ NoRace

SerialSpec == Init /\ [][SerialNext]_vars

----------------------------------------------------------------------------
(* Properties.                                                             *)

\* Every variable has its type, and a request knows its path as long as it
\* runs.
TypeOK ==
  /\ clock \in Nat
  /\ DOMAIN locks \subseteq Path
  /\ \A p \in DOMAIN locks : locks[p] \subseteq LockEntry
  /\ pc \in [Request -> PC]
  /\ job \in [Request -> Job \cup {NoJob}]
  /\ \A r \in Request : pc[r] # "idle" => job[r] \in Job
  /\ \A r \in Request : job[r] # NoJob => job[r].now <= clock

\* The table never admits a writer next to anybody else, expired or not: two
\* entries of a path belong to different users, and then both are reads.
TableExclusive ==
  \A p \in DOMAIN locks : \A e, f \in locks[p] :
    e # f => e.uid # f.uid /\ e.type = "read" /\ f.type = "read"

\* No lock leaks: each entry of the table is the one that a request which
\* still owns its guard has pushed.  Releases of expired, replaced and swept
\* locks in any order leave nothing behind.
EntryHasGuard ==
  \A p \in DOMAIN locks : \A e \in locks[p] :
    \E r \in Request :
      pc[r] = "holding" /\ job[r].path = p /\ e = EntryOf(r)

\* The map does not grow with the paths ever locked: a key with an empty Vec
\* is on its way out, some release is between its two accesses.
EmptyOnlyWhileRemoving ==
  \A p \in DOMAIN locks :
    locks[p] = {} => \E r \in Request : pc[r] = "removing" /\ job[r].path = p

\* No spurious 409: a request is refused only because a request of another
\* user owns a guard on the same path, one of the two is a write, and that
\* lock had not expired when the refused request read the clock.
RefusalHasCause ==
  [][\A r \in Request :
       pc[r] = "entering" /\ pc'[r] = "idle" =>
         \E q \in Request :
           /\ pc[q] = "holding"
           /\ UidOf[q] # UidOf[r]
           /\ job[q].path = job[r].path
           /\ "write" \in {job[q].type, job[r].type}
           /\ ExpiresAt(q) > job[r].now]_vars

\* An unexpired entry leaves the table only by a step of a request of the
\* user it belongs to: a release removes nobody else's lock.  The code says so,
\* and LockRemoveRace shows that it is not so.
OwnerActs(uid) == \E r \in Request : UidOf[r] = uid /\ pc'[r] # pc[r]

OnlyOwnerRemoves ==
  [][\A p \in DOMAIN locks : \A e \in locks[p] :
       clock < e.expires /\ e \notin Entries(p)' => OwnerActs(e.uid)]_vars

\* That race is the only way to lose a lock: neither a release of an expired,
\* swept or replaced lock nor the sweep of an acquire, by however old a clock
\* value, takes an unexpired entry of another user.
OnlyRaceRemoves ==
  [][\A p \in DOMAIN locks : \A e \in locks[p] :
       clock < e.expires /\ e \notin Entries(p)' => OwnerActs(e.uid) \/ Removes(p)]_vars

\* The guard is worth something: while two requests of different users own
\* unexpired guards on one path, both are reading.  Holds on any number of
\* threads if no user has two requests on one path at a time and no release
\* loses the race.
Covered(r) == pc[r] = "holding" /\ clock < ExpiresAt(r)

GuardExclusion ==
  \A q, r \in Request :
    /\ Covered(q) /\ Covered(r)
    /\ job[q].path = job[r].path
    /\ UidOf[q] # UidOf[r]
    => job[q].type = "read" /\ job[r].type = "read"

\* The guards implement the leases of LeaseLock, under the same conditions.
Holding == {r \in Request : pc[r] = "holding"}

leaseOf ==
  [r \in Holding |->
    [path |-> job[r].path, type |-> job[r].type, expires |-> ExpiresAt(r)]]

Leases == INSTANCE LeaseLock WITH lease <- leaseOf

ImplementsLeases == Leases!Spec
=============================================================================
