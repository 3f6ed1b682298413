------------------------- MODULE LockManagerProofs -------------------------
(* Theorems about LockManager, for all users, paths, requests and bounds.  *)
EXTENDS LockManager, FiniteSetTheorems, TLAPS

----------------------------------------------------------------------------
(* A lemma about the entries of the table.                                 *)

\* An acquired lock gives its user an entry of the right type.
LEMMA EntryOfType ==
  ASSUME NEW r \in Request, job[r] \in Job
  PROVE  EntryOf(r) \in LockEntry
BY RequestAssumption, TimeAssumption DEF EntryOf, ExpiresAt, LockEntry, Job

----------------------------------------------------------------------------
(* Type correctness.                                                       *)

\* Every reachable state has its type, whatever the requests, the users, the
\* paths and the number of worker threads.
THEOREM TypeCorrect == Spec => []TypeOK
<1>1. Init => TypeOK
  BY DEF Init, TypeOK, PC
<1>2. TypeOK /\ [Next]_vars => TypeOK'
  <2> SUFFICES ASSUME TypeOK, [Next]_vars PROVE TypeOK'
    OBVIOUS
  <2> USE DEF TypeOK, PC
  <2>1. ASSUME NEW r \in Request, NEW p \in Path, NEW t \in LockType,
               Begin(r, p, t)
        PROVE  TypeOK'
    <3>1. [path |-> p, type |-> t, now |-> clock] \in Job
      BY DEF Job
    <3>2. QED
      BY <2>1, <3>1, NoJobAssumption DEF Begin
  <2>2. ASSUME NEW r \in Request, Refuse(r) PROVE TypeOK'
    <3>1. job[r].path \in Path
      BY <2>2 DEF Refuse, Job
    <3>2. Live(Entries(job[r].path), job[r].now) \subseteq LockEntry
      BY <3>1 DEF Live, Entries
    <3>3. /\ DOMAIN locks' \subseteq Path
          /\ \A q \in DOMAIN locks' : locks'[q] \subseteq LockEntry
      BY <2>2, <3>1, <3>2 DEF Refuse, Put
    <3>4. QED
      BY <2>2, <3>3 DEF Refuse
  <2>3. ASSUME NEW r \in Request, Acquire(r) PROVE TypeOK'
    <3>1. job[r] \in Job /\ job[r].path \in Path
      BY <2>3 DEF Acquire, Job
    <3>2. Others(Live(Entries(job[r].path), job[r].now), UidOf[r])
             \cup {EntryOf(r)} \subseteq LockEntry
      BY <3>1, EntryOfType DEF Live, Entries, Others
    <3>3. /\ DOMAIN locks' \subseteq Path
          /\ \A q \in DOMAIN locks' : locks'[q] \subseteq LockEntry
      BY <2>3, <3>1, <3>2 DEF Acquire, Put
    <3>4. QED
      BY <2>3, <3>1, <3>3 DEF Acquire
  <2>4. ASSUME NEW r \in Request, Release(r) PROVE TypeOK'
    <3>1. job[r].path \in Path
      BY <2>4 DEF Release, Job
    <3>2. Others(Entries(job[r].path), UidOf[r]) \subseteq LockEntry
      BY <3>1 DEF Entries, Others
    <3>3. /\ DOMAIN locks' \subseteq Path
          /\ \A q \in DOMAIN locks' : locks'[q] \subseteq LockEntry
      BY <2>4, <3>1, <3>2 DEF Release, Put
    <3>4. QED
      BY <2>4, <3>3 DEF Release
  <2>5. ASSUME NEW r \in Request, Remove(r) PROVE TypeOK'
    <3>1. /\ DOMAIN locks' \subseteq Path
          /\ \A q \in DOMAIN locks' : locks'[q] \subseteq LockEntry
      BY <2>5 DEF Remove, Without
    <3>2. QED
      BY <2>5, <3>1 DEF Remove
  <2>6. CASE Tick
    BY <2>6 DEF Tick, Job
  <2>7. CASE UNCHANGED vars
    BY <2>7 DEF vars
  <2>8. QED
    BY <2>1, <2>2, <2>3, <2>4, <2>5, <2>6, <2>7 DEF Next, Step
<1>3. QED
  BY <1>1, <1>2, PTL DEF Spec

----------------------------------------------------------------------------
(* The lock table, for any number of worker threads.                       *)

\* The three parts together are inductive, given the types.
TableInv == TableExclusive /\ EntryHasGuard /\ EmptyOnlyWhileRemoving

LEMMA TableConsistent == Spec => []TableInv
<1>1. Init => TableInv
  BY DEF Init, TableInv, TableExclusive, EntryHasGuard, EmptyOnlyWhileRemoving
<1>2. TypeOK /\ TableInv /\ [Next]_vars => TableInv'
  <2> SUFFICES ASSUME TypeOK, TableInv, [Next]_vars PROVE TableInv'
    OBVIOUS
  <2>1. ASSUME NEW r \in Request, NEW p \in Path, NEW t \in LockType,
               Begin(r, p, t)
        PROVE  TableInv'
    <3>1. locks' = locks /\ \A q \in Request : q # r => job'[q] = job[q] /\ pc'[q] = pc[q]
      BY <2>1 DEF Begin, TypeOK
    <3>2. pc[r] = "idle"
      BY <2>1 DEF Begin
    <3>3. TableExclusive'
      BY <3>1 DEF TableInv, TableExclusive
    <3>4. EntryHasGuard'
      <4> SUFFICES ASSUME NEW s \in DOMAIN locks, NEW e \in locks[s]
                   PROVE  \E q \in Request :
                            pc'[q] = "holding" /\ job'[q].path = s /\ e = EntryOf(q)'
        BY <3>1 DEF EntryHasGuard
      <4>1. PICK q \in Request :
                   pc[q] = "holding" /\ job[q].path = s /\ e = EntryOf(q)
        BY DEF TableInv, EntryHasGuard
      <4>2. QED
        BY <3>1, <3>2, <4>1 DEF EntryOf, ExpiresAt
    <3>5. EmptyOnlyWhileRemoving'
      BY <3>1, <3>2 DEF TableInv, EmptyOnlyWhileRemoving
    <3>6. QED
      BY <3>3, <3>4, <3>5 DEF TableInv
  <2>2. ASSUME NEW r \in Request, Refuse(r) PROVE TableInv'
    <3> DEFINE p    == job[r].path
               live == Live(Entries(p), job[r].now)
    <3>1. /\ pc[r] = "entering" /\ live # {}
          /\ locks' = Put(p, live)
          /\ \A q \in Request : q # r => job'[q] = job[q] /\ pc'[q] = pc[q]
      BY <2>2 DEF Refuse, TypeOK
    <3>2. p \in DOMAIN locks /\ live \subseteq locks[p]
      BY <3>1 DEF Live, Entries
    <3> HIDE DEF p, live
    <3>3. /\ DOMAIN locks' = DOMAIN locks
          /\ locks'[p] = live
          /\ \A s \in DOMAIN locks : locks'[s] \subseteq locks[s]
          /\ \A s \in DOMAIN locks : s # p => locks'[s] = locks[s]
      BY <3>1, <3>2 DEF Put
    <3>4. TableExclusive'
      BY <3>3 DEF TableInv, TableExclusive
    <3>5. EntryHasGuard'
      <4> SUFFICES ASSUME NEW s \in DOMAIN locks, NEW e \in locks[s]
                   PROVE  \E q \in Request :
                            pc'[q] = "holding" /\ job'[q].path = s /\ e = EntryOf(q)'
        BY <3>3 DEF EntryHasGuard
      <4>1. PICK q \in Request :
                   pc[q] = "holding" /\ job[q].path = s /\ e = EntryOf(q)
        BY DEF TableInv, EntryHasGuard
      <4>2. QED
        BY <3>1, <4>1 DEF EntryOf, ExpiresAt
    <3>6. EmptyOnlyWhileRemoving'
      BY <3>1, <3>3 DEF TableInv, EmptyOnlyWhileRemoving
    <3>7. QED
      BY <3>4, <3>5, <3>6 DEF TableInv
  <2>3. ASSUME NEW r \in Request, Acquire(r) PROVE TableInv'
    <3> DEFINE p    == job[r].path
               live == Live(Entries(p), job[r].now)
               new  == Others(live, UidOf[r]) \cup {EntryOf(r)}
    <3>1. /\ pc[r] = "entering" /\ pc'[r] = "holding"
          /\ \A e \in live : ~Conflicts(e, UidOf[r], job[r].type)
          /\ locks' = Put(p, new)
          /\ job' = job
          /\ \A q \in Request : q # r => pc'[q] = pc[q]
      BY <2>3 DEF Acquire, TypeOK
    <3>2. live \subseteq Entries(p)
      BY DEF Live
    <3>3. \A e \in new : e = EntryOf(r) \/ (e \in Entries(p) /\ e.uid # UidOf[r]
                           /\ e.type = "read" /\ job[r].type = "read")
      BY <3>1, <3>2 DEF Others, Conflicts
    <3>4. EntryOf(r) \in new /\ EntryOf(r).uid = UidOf[r]
                            /\ EntryOf(r).type = job[r].type
      BY DEF EntryOf
    <3>5. Entries(p) = IF p \in DOMAIN locks THEN locks[p] ELSE {}
      BY DEF Entries
    <3> HIDE DEF p, live, new
    <3>6. /\ DOMAIN locks' = DOMAIN locks \cup {p}
          /\ locks'[p] = new
          /\ \A s \in DOMAIN locks : s # p => locks'[s] = locks[s]
      BY <3>1 DEF Put
    <3>7. TableExclusive'
      <4> SUFFICES ASSUME NEW s \in DOMAIN locks', NEW e \in locks'[s],
                          NEW f \in locks'[s], e # f
                   PROVE  e.uid # f.uid /\ e.type = "read" /\ f.type = "read"
        BY DEF TableExclusive
      <4>1. CASE s # p
        BY <3>6, <4>1 DEF TableInv, TableExclusive
      <4>2. CASE s = p
        <5>1. \A x, y \in Entries(p) :
                x # y => x.uid # y.uid /\ x.type = "read" /\ y.type = "read"
          BY <3>5 DEF TableInv, TableExclusive
        <5>2. QED
          BY <3>3, <3>4, <3>6, <4>2, <5>1
      <4>3. QED
        BY <4>1, <4>2
    <3>8. EntryHasGuard'
      <4> SUFFICES ASSUME NEW s \in DOMAIN locks', NEW e \in locks'[s]
                   PROVE  \E q \in Request :
                            pc'[q] = "holding" /\ job[q].path = s /\ e = EntryOf(q)
        BY <3>1 DEF EntryHasGuard, EntryOf, ExpiresAt
      <4>1. CASE s = p /\ e = EntryOf(r)
        BY <3>1, <4>1 DEF p
      <4>2. CASE ~(s = p /\ e = EntryOf(r))
        <5>1. s \in DOMAIN locks /\ e \in locks[s]
          BY <3>3, <3>5, <3>6, <4>2
        <5>2. PICK q \in Request :
                     pc[q] = "holding" /\ job[q].path = s /\ e = EntryOf(q)
          BY <5>1 DEF TableInv, EntryHasGuard
        <5>3. QED
          BY <3>1, <5>2
      <4>3. QED
        BY <4>1, <4>2
    <3>9. EmptyOnlyWhileRemoving'
      <4> SUFFICES ASSUME NEW s \in DOMAIN locks', locks'[s] = {}
                   PROVE  \E q \in Request : pc'[q] = "removing" /\ job[q].path = s
        BY <3>1 DEF EmptyOnlyWhileRemoving
      <4>1. s \in DOMAIN locks /\ locks[s] = {}
        BY <3>4, <3>6
      <4>2. PICK q \in Request : pc[q] = "removing" /\ job[q].path = s
        BY <4>1 DEF TableInv, EmptyOnlyWhileRemoving
      <4>3. QED
        BY <3>1, <4>2
    <3>10. QED
      BY <3>7, <3>8, <3>9 DEF TableInv
  <2>4. ASSUME NEW r \in Request, Release(r) PROVE TableInv'
    <3> DEFINE p    == job[r].path
               rest == Others(Entries(p), UidOf[r])
    <3>1. /\ pc[r] = "holding"
          /\ \A q \in Request : q # r => job'[q] = job[q] /\ pc'[q] = pc[q]
      BY <2>4 DEF Release, TypeOK
    <3>2. CASE p \notin DOMAIN locks
      <4>1. locks' = locks
        BY <2>4, <3>2 DEF Release
      <4>2. \A s \in DOMAIN locks : s # p
        BY <3>2
      <4>3. TableExclusive'
        BY <4>1 DEF TableInv, TableExclusive
      <4>4. EntryHasGuard'
        <5> SUFFICES ASSUME NEW s \in DOMAIN locks, NEW e \in locks[s]
                     PROVE  \E q \in Request :
                              pc'[q] = "holding" /\ job'[q].path = s /\ e = EntryOf(q)'
          BY <4>1 DEF EntryHasGuard
        <5>1. PICK q \in Request :
                     pc[q] = "holding" /\ job[q].path = s /\ e = EntryOf(q)
          BY DEF TableInv, EntryHasGuard
        <5>2. q # r
          BY <4>2, <5>1
        <5>3. QED
          BY <3>1, <5>1, <5>2 DEF EntryOf, ExpiresAt
      <4>5. EmptyOnlyWhileRemoving'
        BY <3>1, <4>1 DEF TableInv, EmptyOnlyWhileRemoving
      <4>6. QED
        BY <4>3, <4>4, <4>5 DEF TableInv
    <3>3. CASE p \in DOMAIN locks
      <4>1. locks' = Put(p, rest)
        BY <2>4, <3>3 DEF Release
      <4>2. rest = {} => pc'[r] = "removing" /\ job'[r] = job[r]
        BY <2>4, <3>3 DEF Release, TypeOK
      <4>3. rest = {e \in locks[p] : e.uid # UidOf[r]}
        BY <3>3 DEF Others, Entries
      <4>4. job[r].path = p
        OBVIOUS
      <4> HIDE DEF p, rest
      <4>5. /\ DOMAIN locks' = DOMAIN locks
            /\ locks'[p] = rest
            /\ \A s \in DOMAIN locks : s # p => locks'[s] = locks[s]
        BY <3>3, <4>1 DEF Put
      <4>6. \A s \in DOMAIN locks : locks'[s] \subseteq locks[s]
        BY <4>3, <4>5
      <4>7. TableExclusive'
        BY <4>5, <4>6 DEF TableInv, TableExclusive
      <4>8. EntryHasGuard'
        <5> SUFFICES ASSUME NEW s \in DOMAIN locks, NEW e \in locks'[s]
                     PROVE  \E q \in Request :
                              pc'[q] = "holding" /\ job'[q].path = s /\ e = EntryOf(q)'
          BY <4>5 DEF EntryHasGuard
        <5>1. PICK q \in Request :
                     pc[q] = "holding" /\ job[q].path = s /\ e = EntryOf(q)
          BY <4>6 DEF TableInv, EntryHasGuard
        <5>2. q # r
          BY <4>3, <4>4, <4>5, <5>1 DEF EntryOf
        <5>3. QED
          BY <3>1, <5>1, <5>2 DEF EntryOf, ExpiresAt
      <4>9. EmptyOnlyWhileRemoving'
        <5> SUFFICES ASSUME NEW s \in DOMAIN locks, locks'[s] = {}
                     PROVE  \E q \in Request : pc'[q] = "removing" /\ job'[q].path = s
          BY <4>5 DEF EmptyOnlyWhileRemoving
        <5>1. CASE s = p
          BY <4>2, <4>4, <4>5, <5>1
        <5>2. CASE s # p
          BY <3>1, <4>5, <5>2 DEF TableInv, EmptyOnlyWhileRemoving
        <5>3. QED
          BY <5>1, <5>2
      <4>10. QED
        BY <4>7, <4>8, <4>9 DEF TableInv
    <3>4. QED
      BY <3>2, <3>3
  <2>5. ASSUME NEW r \in Request, Remove(r) PROVE TableInv'
    <3>1. /\ pc[r] = "removing"
          /\ \A q \in Request : q # r => job'[q] = job[q] /\ pc'[q] = pc[q]
      BY <2>5 DEF Remove, TypeOK
    <3>2. /\ DOMAIN locks' = DOMAIN locks \ {job[r].path}
          /\ \A s \in DOMAIN locks' : locks'[s] = locks[s]
      BY <2>5 DEF Remove, Without
    <3>3. TableExclusive'
      BY <3>2 DEF TableInv, TableExclusive
    <3>4. EntryHasGuard'
      <4> SUFFICES ASSUME NEW s \in DOMAIN locks', NEW e \in locks[s]
                   PROVE  \E q \in Request :
                            pc'[q] = "holding" /\ job'[q].path = s /\ e = EntryOf(q)'
        BY <3>2 DEF EntryHasGuard
      <4>1. PICK q \in Request :
                   pc[q] = "holding" /\ job[q].path = s /\ e = EntryOf(q)
        BY <3>2 DEF TableInv, EntryHasGuard
      <4>2. QED
        BY <3>1, <4>1 DEF EntryOf, ExpiresAt
    <3>5. EmptyOnlyWhileRemoving'
      BY <3>1, <3>2 DEF TableInv, EmptyOnlyWhileRemoving
    <3>6. QED
      BY <3>3, <3>4, <3>5 DEF TableInv
  <2>6. CASE UNCHANGED <<locks, pc, job>>
    BY <2>6 DEF TableInv, TableExclusive, EntryHasGuard, EmptyOnlyWhileRemoving,
                EntryOf, ExpiresAt
  <2>7. QED
    BY <2>1, <2>2, <2>3, <2>4, <2>5, <2>6 DEF Next, Step, Tick, vars
<1>3. QED
  BY <1>1, <1>2, TypeCorrect, PTL DEF Spec

\* However the requests interleave, the table holds no writer next to an entry of
\* another request: lock types exclude each other as they should.
THEOREM TableStaysExclusive == Spec => []TableExclusive
BY TableConsistent, PTL DEF TableInv

\* Releases, sweeps and acquisitions over an old lock leave no entry behind that
\* no request would release.
THEOREM LocksDoNotLeak == Spec => []EntryHasGuard
BY TableConsistent, PTL DEF TableInv

\* A key stays in the map without an entry only while a release is about to
\* remove it.
THEOREM KeysDoNotPileUp == Spec => []EmptyOnlyWhileRemoving
BY TableConsistent, PTL DEF TableInv

\* A request is refused only for a live guard of another user: the entry it
\* conflicts with is, by EntryHasGuard, the entry of a request that holds.
THEOREM RefusalsJustified == Spec => RefusalHasCause
<1> DEFINE Justified ==
      \A r \in Request :
        pc[r] = "entering" /\ pc'[r] = "idle" =>
          \E q \in Request :
            /\ pc[q] = "holding"
            /\ UidOf[q] # UidOf[r]
            /\ job[q].path = job[r].path
            /\ "write" \in {job[q].type, job[r].type}
            /\ ExpiresAt(q) > job[r].now
<1>1. TypeOK /\ TableInv /\ [Next]_vars => Justified
  <2> SUFFICES ASSUME TypeOK, TableInv, [Next]_vars, NEW r \in Request,
                      pc[r] = "entering", pc'[r] = "idle"
               PROVE  \E q \in Request :
                        /\ pc[q] = "holding"
                        /\ UidOf[q] # UidOf[r]
                        /\ job[q].path = job[r].path
                        /\ "write" \in {job[q].type, job[r].type}
                        /\ ExpiresAt(q) > job[r].now
    OBVIOUS
  <2>1. Refuse(r)
    BY DEF Next, Step, Begin, Refuse, Acquire, Release, Remove, Tick, vars, TypeOK
  <2>2. PICK e \in Live(Entries(job[r].path), job[r].now) :
               Conflicts(e, UidOf[r], job[r].type)
    BY <2>1 DEF Refuse
  <2>3. job[r].path \in DOMAIN locks /\ e \in locks[job[r].path]
    BY <2>2 DEF Live, Entries
  <2>4. PICK q \in Request :
               pc[q] = "holding" /\ job[q].path = job[r].path /\ e = EntryOf(q)
    BY <2>3 DEF TableInv, EntryHasGuard
  <2>5. e.uid = UidOf[q] /\ e.type = job[q].type /\ e.expires = ExpiresAt(q)
    BY <2>4 DEF EntryOf
  <2>6. job[q].type \in LockType /\ job[r].type \in LockType
    BY <2>1, <2>4 DEF TypeOK, Job, Refuse
  <2>7. e.expires > job[r].now
    BY <2>2 DEF Live
  <2>8. QED
    BY <2>2, <2>4, <2>5, <2>6, <2>7 DEF Conflicts, LockType
<1>2. QED
  BY <1>1, TypeCorrect, TableConsistent, PTL DEF Spec, RefusalHasCause, TableInv
=============================================================================
