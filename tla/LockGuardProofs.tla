-------------------------- MODULE LockGuardProofs --------------------------
(***************************************************************************)
(* What the locks of LockManager are worth, on any number of threads: only *)
(* the race of LockRemoveRace takes an unexpired lock from its user; and   *)
(* as long as it does not happen and no user has two requests on one path  *)
(* at a time, guards exclude each other and implement the leases of        *)
(* LeaseLock.                                                              *)
(***************************************************************************)
EXTENDS LockManagerProofs

----------------------------------------------------------------------------
(* Any clients.                                                            *)

\* On any number of threads and for any clients, an unexpired entry leaves the
\* table only by a step of a request of its own user, or with its key in the
\* second access of a release.
THEOREM RaceRemoves == Spec => OnlyRaceRemoves
<1> DEFINE Owned ==
      \A p \in DOMAIN locks : \A e \in locks[p] :
        clock < e.expires /\ e \notin Entries(p)' => OwnerActs(e.uid) \/ Removes(p)
<1>1. TypeOK /\ [Next]_vars => Owned
  <2> SUFFICES ASSUME TypeOK, [Next]_vars,
                      NEW p \in DOMAIN locks, NEW e \in locks[p],
                      clock < e.expires, e \notin Entries(p)'
               PROVE  OwnerActs(e.uid) \/ Removes(p)
    OBVIOUS
  <2>1. locks' # locks
    BY DEF Entries
  <2>2. e \in LockEntry /\ clock \in Nat /\ e.expires \in Nat
    BY DEF TypeOK, LockEntry
  <2>3. ASSUME NEW r \in Request, job[r] \in Job
        PROVE  job[r].now \in Nat /\ e.expires > job[r].now
    BY <2>2, <2>3, NoJobAssumption DEF TypeOK, Job
  <2>4. ASSUME NEW r \in Request, Refuse(r) PROVE FALSE
    <3>1. job[r] \in Job
      BY <2>4 DEF Refuse, TypeOK
    <3>2. locks' = Put(job[r].path, Live(Entries(job[r].path), job[r].now))
      BY <2>4 DEF Refuse
    <3>3. job[r].path = p => e \in Live(Entries(p), job[r].now)
      BY <2>3, <3>1 DEF Live, Entries
    <3>4. QED
      BY <3>2, <3>3 DEF Put, Entries
  <2>5. ASSUME NEW r \in Request, Acquire(r)
        PROVE  UidOf[r] = e.uid /\ pc'[r] # pc[r]
    <3>1. job[r] \in Job /\ pc'[r] # pc[r]
      BY <2>5 DEF Acquire, TypeOK
    <3>2. locks' = Put(job[r].path,
                       Others(Live(Entries(job[r].path), job[r].now), UidOf[r])
                         \cup {EntryOf(r)})
      BY <2>5 DEF Acquire
    <3>3. job[r].path = p => e \in Live(Entries(p), job[r].now)
      BY <2>3, <3>1 DEF Live, Entries
    <3>4. QED
      BY <3>1, <3>2, <3>3 DEF Put, Entries, Others
  <2>6. ASSUME NEW r \in Request, Release(r)
        PROVE  UidOf[r] = e.uid /\ pc'[r] # pc[r]
    <3>1. pc'[r] # pc[r]
      BY <2>6 DEF Release, TypeOK
    <3>2. locks' = Put(job[r].path, Others(Entries(job[r].path), UidOf[r]))
      BY <2>1, <2>6 DEF Release
    <3>3. QED
      BY <3>1, <3>2 DEF Put, Entries, Others
  <2>7. ASSUME NEW r \in Request, Remove(r) PROVE Removes(p)
    <3>1. locks' = Without(job[r].path) /\ pc[r] = "removing" /\ pc'[r] = "idle"
      BY <2>7 DEF Remove, TypeOK
    <3>2. job[r].path = p
      BY <3>1 DEF Without, Entries
    <3>3. QED
      BY <3>1, <3>2 DEF Removes
  <2>8. QED
    BY <2>1, <2>4, <2>5, <2>6, <2>7 DEF Next, Step, Begin, Tick, vars, OwnerActs
<1>2. QED
  BY <1>1, TypeCorrect, PTL DEF Spec, OnlyRaceRemoves

----------------------------------------------------------------------------
(* One request of a user on a path at a time, and no race.                 *)

\* A guard that has not expired has its entry in the table.
GuardInTable ==
  \A r \in Request :
    Covered(r) => /\ job[r].path \in DOMAIN locks
                  /\ EntryOf(r) \in locks[job[r].path]

\* One step of a serial client keeps GuardInTable.
LEMMA GuardInTableStep ==
  ASSUME TypeOK, OneRequestPerUserAndPath, GuardInTable, [SerialNext]_vars
  PROVE  GuardInTable'
<1> SUFFICES ASSUME NEW q \in Request, Covered(q)'
             PROVE  /\ job'[q].path \in DOMAIN locks'
                    /\ EntryOf(q)' \in locks'[job'[q].path]
  BY DEF GuardInTable
<1> DEFINE InTable == /\ job'[q].path \in DOMAIN locks'
                      /\ EntryOf(q)' \in locks'[job'[q].path]
<1>0. clock \in Nat /\ TTL \in Nat /\ pc'[q] = "holding"
  BY TimeAssumption DEF TypeOK, Covered
<1>1. ASSUME job'[q] = job[q], pc'[q] = pc[q], clock' = clock \/ clock' = clock + 1
      PROVE  /\ Covered(q) /\ pc[q] = "holding"
             /\ job[q].path \in DOMAIN locks
             /\ EntryOf(q) \in locks[job[q].path]
             /\ EntryOf(q)' = EntryOf(q)
             /\ job[q] \in Job /\ job[q].now \in Nat
             /\ EntryOf(q).expires > clock
             /\ EntryOf(q).uid = UidOf[q]
  <2>1. pc[q] = "holding" /\ job[q] \in Job /\ job[q].now \in Nat
    BY <1>0, <1>1 DEF TypeOK, Job
  <2>2. ExpiresAt(q) \in Nat /\ ExpiresAt(q)' = ExpiresAt(q)
    BY <1>0, <1>1, <2>1 DEF ExpiresAt
  <2>3. Covered(q)
    BY <1>0, <1>1, <2>1, <2>2 DEF Covered
  <2>4. QED
    BY <1>1, <2>1, <2>2, <2>3 DEF GuardInTable, EntryOf, Covered
<1>2. ASSUME NEW r \in Request, NEW p \in Path, NEW t \in LockType, Begin(r, p, t)
      PROVE  InTable
  <2>1. q # r
    BY <1>0, <1>2 DEF Begin, TypeOK
  <2>2. job'[q] = job[q] /\ pc'[q] = pc[q] /\ clock' = clock /\ locks' = locks
    BY <1>2, <2>1 DEF Begin, TypeOK
  <2>3. QED
    BY <1>1, <2>2
<1>3. ASSUME NEW r \in Request, Refuse(r) PROVE InTable
  <2>1. q # r
    BY <1>0, <1>3 DEF Refuse, TypeOK
  <2>2. job'[q] = job[q] /\ pc'[q] = pc[q] /\ clock' = clock
    BY <1>3, <2>1 DEF Refuse, TypeOK
  <2>3. job[r].now \in Nat /\ job[r].now <= clock
    BY <1>3, NoJobAssumption DEF Refuse, TypeOK, Job
  <2>4. EntryOf(q).expires \in Nat
    BY <1>1, <2>2, EntryOfType DEF LockEntry
  <2>5. locks' = Put(job[r].path, Live(Entries(job[r].path), job[r].now))
    BY <1>3 DEF Refuse
  <2>6. EntryOf(q).expires > job[r].now
    BY <1>0, <1>1, <2>2, <2>3, <2>4
  <2>7. job[q].path = job[r].path =>
          EntryOf(q) \in Live(Entries(job[r].path), job[r].now)
    BY <1>1, <2>2, <2>6 DEF Live, Entries
  <2>8. QED
    BY <1>1, <2>2, <2>5, <2>7 DEF Put
<1>4. ASSUME NEW r \in Request, Acquire(r) PROVE InTable
  <2>1. locks' = Put(job[r].path,
                     Others(Live(Entries(job[r].path), job[r].now), UidOf[r])
                       \cup {EntryOf(r)})
    BY <1>4 DEF Acquire
  <2>2. CASE q = r
    BY <1>4, <2>1, <2>2 DEF Acquire, Put, EntryOf, ExpiresAt
  <2>3. CASE q # r
    <3>1. job'[q] = job[q] /\ pc'[q] = pc[q] /\ clock' = clock
      BY <1>4, <2>3 DEF Acquire, TypeOK
    <3>2. job[r].now \in Nat /\ job[r].now <= clock /\ pc[r] = "entering"
      BY <1>4, NoJobAssumption DEF Acquire, TypeOK, Job
    <3>3. EntryOf(q).expires \in Nat
      BY <1>1, <3>1, EntryOfType DEF LockEntry
    <3>4. EntryOf(q).expires > job[r].now
      BY <1>0, <1>1, <3>1, <3>2, <3>3
    <3>5. job[q].path = job[r].path => UidOf[q] # UidOf[r]
      BY <1>1, <2>3, <3>1, <3>2 DEF OneRequestPerUserAndPath
    <3>6. job[q].path = job[r].path =>
            EntryOf(q) \in Others(Live(Entries(job[r].path), job[r].now), UidOf[r])
      BY <1>1, <3>1, <3>4, <3>5 DEF Others, Live, Entries
    <3>7. QED
      BY <1>1, <2>1, <3>1, <3>6 DEF Put
  <2>4. QED
    BY <2>2, <2>3
<1>5. ASSUME NEW r \in Request, Release(r) PROVE InTable
  <2>1. q # r
    BY <1>0, <1>5 DEF Release, TypeOK
  <2>2. job'[q] = job[q] /\ pc'[q] = pc[q] /\ clock' = clock /\ pc[r] = "holding"
    BY <1>5, <2>1 DEF Release, TypeOK
  <2>3. job[q].path = job[r].path => UidOf[q] # UidOf[r]
    BY <1>1, <2>1, <2>2 DEF OneRequestPerUserAndPath
  <2>4. job[q].path = job[r].path =>
          EntryOf(q) \in Others(Entries(job[r].path), UidOf[r])
    BY <1>1, <2>2, <2>3 DEF Others, Entries
  <2>5. locks' = locks \/ locks' = Put(job[r].path, Others(Entries(job[r].path), UidOf[r]))
    BY <1>5 DEF Release
  <2>6. QED
    BY <1>1, <2>2, <2>4, <2>5 DEF Put
<1>6. ASSUME NEW r \in Request, Remove(r), NoRace PROVE InTable
  <2>1. q # r
    BY <1>0, <1>6 DEF Remove, TypeOK
  <2>2. job'[q] = job[q] /\ pc'[q] = pc[q] /\ clock' = clock
    BY <1>6, <2>1 DEF Remove, TypeOK
  <2>3. locks' = Without(job[r].path) /\ pc[r] = "removing" /\ pc'[r] = "idle"
    BY <1>6 DEF Remove, TypeOK
  <2>4. job[r].path \in Path
    BY <2>3, NoJobAssumption DEF TypeOK, Job
  <2>5. Entries(job[r].path) = {}
    BY <1>6, <2>3, <2>4 DEF NoRace, Removes
  <2>6. QED
    BY <1>1, <2>2, <2>3, <2>5 DEF Without, Entries
<1>7. CASE UNCHANGED <<locks, pc, job>> /\ (clock' = clock \/ clock' = clock + 1)
  BY <1>1, <1>7
<1>8. QED
  BY <1>2, <1>3, <1>4, <1>5, <1>6, <1>7 DEF SerialNext, Next, Step, Tick, vars

\* A serial client is a client.
LEMMA SerialIsSpec == SerialSpec => Spec
<1>1. [SerialNext]_vars => [Next]_vars
  BY DEF SerialNext
<1>2. QED
  BY <1>1, PTL DEF SerialSpec, Spec

\* A serial client's unexpired guards are in the table.
THEOREM GuardsInTable == SerialSpec => [](OneRequestPerUserAndPath /\ GuardInTable)
<1>1. Init => OneRequestPerUserAndPath /\ GuardInTable
  BY DEF Init, OneRequestPerUserAndPath, GuardInTable, Covered
<1>2. OneRequestPerUserAndPath /\ [SerialNext]_vars => OneRequestPerUserAndPath'
  BY DEF SerialNext, OneRequestPerUserAndPath, vars
<1>3. /\ TypeOK
      /\ OneRequestPerUserAndPath /\ GuardInTable
      /\ [SerialNext]_vars
      => GuardInTable'
  BY GuardInTableStep
<1>4. QED
  BY <1>1, <1>2, <1>3, SerialIsSpec, TypeCorrect, PTL DEF SerialSpec

\* On any number of threads, unexpired guards of different users on one path are
\* both for reading, if no user has two requests on a path at a time and no
\* release loses the race.
THEOREM GuardsExclude == SerialSpec => []GuardExclusion
<1>1. TypeOK /\ TableInv /\ GuardInTable => GuardExclusion
  <2> SUFFICES ASSUME TypeOK, TableInv, GuardInTable,
                      NEW q \in Request, NEW r \in Request,
                      Covered(q), Covered(r),
                      job[q].path = job[r].path, UidOf[q] # UidOf[r]
               PROVE  job[q].type = "read" /\ job[r].type = "read"
    BY DEF GuardExclusion
  <2> DEFINE p == job[q].path
  <2>1. p \in DOMAIN locks /\ EntryOf(q) \in locks[p] /\ EntryOf(r) \in locks[p]
    BY DEF GuardInTable
  <2>2. /\ EntryOf(q).uid = UidOf[q] /\ EntryOf(q).type = job[q].type
        /\ EntryOf(r).uid = UidOf[r] /\ EntryOf(r).type = job[r].type
    BY DEF EntryOf
  <2>3. EntryOf(q) # EntryOf(r)
    BY <2>2
  <2>4. QED
    BY <2>1, <2>2, <2>3 DEF TableInv, TableExclusive
<1>2. QED
  BY <1>1, SerialIsSpec, TypeCorrect, TableConsistent, GuardsInTable, PTL
     DEF TableInv

----------------------------------------------------------------------------
(* Refinement: the guards are leases.                                      *)

\* Acquire grants a lease.  A lease that forbids it would be an entry of the
\* table that is live at the instant acquire read, and a conflict.
LEMMA AcquireGrants ==
  ASSUME TypeOK, OneRequestPerUserAndPath, GuardInTable,
         NEW r \in Request, Acquire(r)
  PROVE  Leases!Grant(r, job[r].path, job[r].type, ExpiresAt(r))
<1>1. /\ job[r] \in Job /\ pc[r] = "entering"
      /\ job[r].now \in Nat /\ job[r].now <= clock
      /\ job' = job /\ clock' = clock
      /\ pc' = [pc EXCEPT ![r] = "holding"]
  BY NoJobAssumption DEF Acquire, TypeOK, Job
<1>2. r \notin DOMAIN leaseOf
  BY <1>1 DEF leaseOf, Holding
<1>3. ExpiresAt(r) <= clock + TTL
  BY <1>1, TimeAssumption DEF ExpiresAt, TypeOK
<1>4. ASSUME NEW q \in DOMAIN leaseOf, Leases!Unexpired(q),
             leaseOf[q].path = job[r].path, UidOf[q] # UidOf[r]
      PROVE  leaseOf[q].type = "read" /\ job[r].type = "read"
  <2>1. /\ q \in Request /\ pc[q] = "holding"
        /\ leaseOf[q] = [path |-> job[q].path, type |-> job[q].type,
                         expires |-> ExpiresAt(q)]
    BY DEF leaseOf, Holding
  <2>2. Covered(q)
    BY <1>4, <2>1 DEF Leases!Unexpired, Covered
  <2>3. job[q].path = job[r].path
    BY <1>4, <2>1
  <2>4. EntryOf(q) \in Entries(job[r].path)
    BY <2>1, <2>2, <2>3 DEF GuardInTable, Entries
  <2>5. ExpiresAt(q) > job[r].now
    <3>1. ExpiresAt(q) \in Nat /\ clock \in Nat
      BY <2>1, TimeAssumption, NoJobAssumption DEF ExpiresAt, TypeOK, Job
    <3>2. QED
      BY <1>1, <2>2, <3>1 DEF Covered
  <2>6. EntryOf(q) \in Live(Entries(job[r].path), job[r].now)
    BY <2>4, <2>5 DEF Live, EntryOf
  <2>7. ~Conflicts(EntryOf(q), UidOf[r], job[r].type)
    BY <1>4, <2>6 DEF Acquire
  <2>8. QED
    BY <1>4, <2>1, <2>7 DEF Conflicts, EntryOf
<1>5. leaseOf' = [q \in DOMAIN leaseOf \cup {r} |->
                    IF q = r THEN [path |-> job[r].path, type |-> job[r].type,
                                   expires |-> ExpiresAt(r)]
                             ELSE leaseOf[q]]
  <2>1. Holding' = Holding \cup {r}
    BY <1>1 DEF Holding, TypeOK
  <2>2. \A q \in Request : ExpiresAt(q)' = ExpiresAt(q)
    BY <1>1 DEF ExpiresAt
  <2>3. Holding' \subseteq Request
    BY DEF Holding
  <2>4. leaseOf' = [q \in Holding \cup {r} |->
                      [path |-> job[q].path, type |-> job[q].type,
                       expires |-> ExpiresAt(q)]]
    BY <1>1, <2>1, <2>2, <2>3 DEF leaseOf
  <2>5. /\ DOMAIN leaseOf = Holding
        /\ \A q \in Holding :
             leaseOf[q] = [path |-> job[q].path, type |-> job[q].type,
                           expires |-> ExpiresAt(q)]
    BY DEF leaseOf
  <2>6. QED
    BY <1>2, <2>4, <2>5
<1>6. QED
  BY <1>1, <1>2, <1>3, <1>4, <1>5 DEF Leases!Grant

\* Release gives the lease up.
LEMMA ReleaseGivesUp ==
  ASSUME TypeOK, NEW r \in Request, Release(r)
  PROVE  Leases!GiveUp(r)
<1>1. /\ r \in Holding /\ Holding' = Holding \ {r} /\ clock' = clock
      /\ \A q \in Request : q # r => job'[q] = job[q]
  BY DEF Release, Holding, TypeOK
<1>2. leaseOf' = [q \in DOMAIN leaseOf \ {r} |-> leaseOf[q]]
  <2>1. \A q \in Holding' : q # r /\ job'[q] = job[q] /\ ExpiresAt(q)' = ExpiresAt(q)
    BY <1>1 DEF Holding, ExpiresAt
  <2>2. QED
    BY <1>1, <2>1 DEF leaseOf
<1>3. QED
  BY <1>1, <1>2 DEF Leases!GiveUp, leaseOf

\* A step that touches no guard leaves the leases as they are.
LEMMA LeasesUnchanged ==
  ASSUME TypeOK, Holding' = Holding, \A q \in Holding : job'[q] = job[q]
  PROVE  leaseOf' = leaseOf
<1>1. \A q \in Holding : ExpiresAt(q)' = ExpiresAt(q)
  BY DEF ExpiresAt
<1>2. QED
  BY <1>1 DEF leaseOf

\* Under the same conditions, on any number of threads, the guards implement
\* LeaseLock.
THEOREM GuardsAreLeases == SerialSpec => ImplementsLeases
<1>1. Init => Leases!Init
  <2> SUFFICES ASSUME Init PROVE Leases!Init
    OBVIOUS
  <2>1. Holding = {}
    BY DEF Init, Holding
  <2>2. QED
    BY <2>1 DEF Init, Leases!Init, leaseOf
<1>2. /\ TypeOK /\ OneRequestPerUserAndPath /\ GuardInTable
      /\ [SerialNext]_vars
      => [Leases!Next]_(Leases!vars)
  <2> SUFFICES ASSUME TypeOK, OneRequestPerUserAndPath, GuardInTable, [SerialNext]_vars
               PROVE  Leases!Next \/ UNCHANGED <<clock, leaseOf>>
    BY DEF Leases!vars
  <2>1. ASSUME NEW r \in Request, Acquire(r) PROVE Leases!Next
    <3>1. /\ job[r].path \in Path /\ job[r].type \in Leases!LockType
          /\ ExpiresAt(r) \in 0 .. clock + TTL
      BY <2>1, TimeAssumption, NoJobAssumption
      DEF Acquire, TypeOK, Job, ExpiresAt, LockType, Leases!LockType
    <3>2. Leases!Grant(r, job[r].path, job[r].type, ExpiresAt(r))
      BY <2>1, AcquireGrants
    <3>3. QED
      BY <3>1, <3>2 DEF Leases!Next
  <2>2. ASSUME NEW r \in Request, Release(r) PROVE Leases!Next
    BY <2>2, ReleaseGivesUp DEF Leases!Next
  <2>3. ASSUME NEW r \in Request,
               \/ \E p \in Path, t \in LockType : Begin(r, p, t)
               \/ Refuse(r)
               \/ Remove(r)
        PROVE  UNCHANGED <<clock, leaseOf>>
    <3>1. /\ clock' = clock /\ Holding' = Holding
          /\ \A q \in Holding : job'[q] = job[q]
      BY <2>3 DEF Begin, Refuse, Remove, Holding, TypeOK
    <3>2. QED
      BY <3>1, LeasesUnchanged
  <2>4. CASE Tick
    <3>1. Holding' = Holding /\ \A q \in Holding : job'[q] = job[q]
      BY <2>4 DEF Tick, Holding
    <3>2. QED
      BY <2>4, <3>1, LeasesUnchanged DEF Tick, Leases!Tick, Leases!Next
  <2>5. CASE UNCHANGED vars
    <3>1. Holding' = Holding /\ \A q \in Holding : job'[q] = job[q]
      BY <2>5 DEF vars, Holding
    <3>2. QED
      BY <2>5, <3>1, LeasesUnchanged DEF vars
  <2>6. QED
    BY <2>1, <2>2, <2>3, <2>4, <2>5 DEF SerialNext, Next, Step
<1>3. QED
  BY <1>1, <1>2, SerialIsSpec, TypeCorrect, GuardsInTable, PTL
  DEF SerialSpec, ImplementsLeases, Leases!Spec
=============================================================================
