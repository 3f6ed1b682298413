------------------------- MODULE FileServiceProofs -------------------------
(***************************************************************************)
(* Theorems about FileService: the types of its variables, for any         *)
(* clients; for serial clients that it implements LeaseLock, as long as no *)
(* release loses the race for its key; and for careful clients that the    *)
(* locks cover the operations, so that what a download reads, what an      *)
(* upload leaves behind and what optimistic concurrency control compares   *)
(* are what they should be.  All of them for any number of worker threads. *)
(*                                                                         *)
(* The theorems about the locks are those of LockGuardProofs, taken over   *)
(* by instance: a step of FileService is one of LockManager, or leaves its *)
(* variables alone.                                                        *)
(***************************************************************************)
EXTENDS FileService, TLAPS

L == INSTANCE LockGuardProofs

----------------------------------------------------------------------------
(* The invariants.                                                         *)

\* Operation o is one that the handler of call c awaits.
Fits(o, c) ==
  /\ o.path = c.path /\ o.to = c.to
  /\ \/ o.do = WorkOf(c).do
     \/ o.do = "stat" /\ c.kind = "upload"

\* A prompt request's call, lock and operation belong together: it holds an
\* unexpired lock on the path of its call as long as its operation runs.
Bound(r) ==
  /\ call[r] # Absent /\ call[r].kind # "rename" => call[r].to = call[r].path
  /\ op[r] # Absent => /\ call[r] # Absent
                       /\ Fits(op[r], call[r])
                       /\ call[r].kind # "mkdir" => pc[r] = "holding"
  /\ pc[r] \in {"entering", "holding"} =>
       /\ call[r] # Absent
       /\ call[r].kind # "mkdir"
       /\ job[r].path = call[r].path
       /\ job[r].type = LockTypeOf(call[r])
  /\ pc[r] = "entering" => op[r] = Absent
  /\ pc[r] = "holding" => op[r] # Absent
  /\ pc[r] = "removing" => call[r] = Absent
  /\ pc[r] # "idle" => clock < Locks!ExpiresAt(r)

AllBound == \A r \in Request : Bound(r)

\* A file is open only while a write is between its two steps, at the path the
\* write was queued for; it is empty then, and complete otherwise.
OpenIsWritten ==
  /\ \A r \in Request :
       open[r] # Absent => Runs(r, "write", "opened") /\ open[r] = op[r].path
  /\ \A p \in Path : IsFile(p) =>
       IF \E r \in Request : open[r] = p THEN files[p].data = "empty"
                                         ELSE files[p].data \in {"whole", "broken"}

\* What the stat of an upload has found, and what its write expects, still is
\* what is there.
FoundIsThere ==
  \A r \in Request :
    Expects(r) /\ IsFile(op[r].path)
    => /\ Runs(r, "stat", "ok") => op[r].found = files[op[r].path].stamp
       /\ Runs(r, "write", "queued") => files[op[r].path].stamp = call[r].expected

----------------------------------------------------------------------------
(* The steps of the locks.                                                 *)

CallTypes == call \in [Request -> Call \cup {Absent}]

\* The assumptions of LockManager are those of FileService.
LEMMA LockAssumptions ==
  /\ L!IsFiniteSet(Request) /\ UidOf \in [Request -> Uid]
  /\ TTL \in Nat /\ MaxClock \in Nat
  /\ Workers \in Nat \ {0}
  /\ NoJob \notin L!Job
BY RequestAssumption, TimeAssumption, WorkersAssumption, NoJobAssumption
DEF IsFiniteSet, L!IsFiniteSet, Locks!Job, L!Job, Locks!LockType, L!LockType

\* A worker is free in the one module when it is in the other.
LEMMA SameWorkers == Locks!WorkerFree <=> L!WorkerFree
BY DEF Locks!WorkerFree, L!WorkerFree, Locks!Running, L!Running,
       Locks!Cardinality, L!Cardinality, Cardinality

\* The steps of Locks are steps of LockManager.
LEMMA SameBegin ==
  ASSUME NEW r, NEW p, NEW t PROVE Locks!Begin(r, p, t) => L!Begin(r, p, t)
BY SameWorkers DEF Locks!Begin, L!Begin

LEMMA SameRefuse ==
  ASSUME NEW r PROVE Locks!Refuse(r) => L!Refuse(r)
BY DEF Locks!Refuse, L!Refuse, Locks!Live, L!Live, Locks!Entries, L!Entries,
       Locks!Conflicts, L!Conflicts, Locks!Put, L!Put

LEMMA SameAcquire ==
  ASSUME NEW r PROVE Locks!Acquire(r) => L!Acquire(r)
BY DEF Locks!Acquire, L!Acquire, Locks!Live, L!Live, Locks!Entries, L!Entries,
       Locks!Others, L!Others, Locks!EntryOf, L!EntryOf,
       Locks!ExpiresAt, L!ExpiresAt, Locks!Conflicts, L!Conflicts,
       Locks!Put, L!Put

LEMMA SameRelease ==
  ASSUME NEW r PROVE Locks!Release(r) => L!Release(r)
BY SameWorkers DEF Locks!Release, L!Release, Locks!Entries, L!Entries,
       Locks!Others, L!Others, Locks!Put, L!Put

LEMMA SameRemove ==
  ASSUME NEW r PROVE Locks!Remove(r) => L!Remove(r)
BY DEF Locks!Remove, L!Remove, Locks!Without, L!Without

\* Every step of the handlers is one of LockManager, or leaves it alone.
LEMMA LockStep ==
  ASSUME CallTypes, [Next]_vars
  PROVE  [L!Next]_(L!vars)
<1> SUFFICES L!Next \/ UNCHANGED lockVars
  BY DEF L!vars, lockVars
<1>1. ASSUME NEW r \in Request, Begin(r) PROVE L!Next
  <2>1. call[r].path \in Path /\ LockTypeOf(call[r]) \in L!LockType
    BY <1>1 DEF Begin, Arrived, CallTypes, Call, LockTypeOf, L!LockType
  <2>2. L!Begin(r, call[r].path, LockTypeOf(call[r]))
    BY <1>1, SameBegin DEF Begin
  <2>3. QED
    BY <2>1, <2>2 DEF L!Next, L!Step
<1>2. ASSUME NEW r \in Request, Refused(r) PROVE L!Next
  BY <1>2, SameRefuse DEF Refused, L!Next, L!Step
<1>3. ASSUME NEW r \in Request, Acquired(r) PROVE L!Next
  BY <1>3, SameAcquire DEF Acquired, L!Next, L!Step
<1>4. ASSUME NEW r \in Request, Removed(r) PROVE L!Next
  BY <1>4, SameRemove DEF Removed, L!Next, L!Step
<1>5. ASSUME NEW r \in Request, Answer(r) \/ Cancel(r)
      PROVE  L!Next \/ UNCHANGED lockVars
  <2>1. Locks!Release(r) \/ UNCHANGED lockVars
    BY <1>5 DEF Answer, Cancel
  <2>2. QED
    BY <2>1, SameRelease DEF L!Next, L!Step
<1>6. ASSUME NEW r \in Request,
             \/ (Client(r) /\ ~Cancel(r))
             \/ Reject(r) \/ BeginMkdir(r) \/ Proceed(r) \/ Operate(r)
      PROVE  UNCHANGED lockVars
  BY <1>6 DEF Client, Arrive, BodyComes, BodyFails, Reject, BeginMkdir, Proceed, Operate, Stat, Read, Open,
     Fill, Look, Unlink, Rename, Mkdir, IoError
<1>7. CASE Time
  BY <1>7 DEF Time, Locks!Tick, L!Tick, L!Next
<1>8. CASE UNCHANGED vars
  BY <1>8 DEF vars, lockVars
<1>9. ASSUME NEW p \in Path, Outside(p) PROVE UNCHANGED lockVars
  BY <1>9 DEF Outside
<1>10. QED
  BY <1>1, <1>2, <1>3, <1>4, <1>5, <1>6, <1>7, <1>8, <1>9
  DEF Next, Handle, Stale, Succeed, Fail
----------------------------------------------------------------------------
(* Type correctness.                                                       *)

\* The operations that a call can queue have their type.
LEMMA WorkTypes ==
  ASSUME NEW c \in Call
  PROVE  WorkOf(c) \in Op /\ FirstOf(c) \in Op
BY DEF WorkOf, FirstOf, Queued, Call, Op, Kinds

\* Ending an operation keeps the types of the table of operations.
LEMMA EndTypes ==
  ASSUME op \in [Request -> Op \cup {Absent}], NEW r \in Request, NEW o \in Op, Ends(r, o)
  PROVE  op' \in [Request -> Op \cup {Absent}]
BY DEF Ends

LEMMA ResultTypes ==
  ASSUME op \in [Request -> Op \cup {Absent}], NEW r \in Request, op[r] # Absent
  PROVE  /\ op[r] \in Op /\ Ok(r) \in Op /\ Error(r) \in Op
         /\ op[r].path \in Path /\ op[r].to \in Path
BY DEF Ok, Error, Op

LEMMA CallStep == CallTypes /\ [Next]_vars => CallTypes'
<1> SUFFICES ASSUME CallTypes, [Next]_vars PROVE CallTypes'
  OBVIOUS
<1>1. Calls \subseteq Call
  BY KindAssumption, TimeAssumption DEF Calls, Call
<1>2. ASSUME NEW r \in Request, BodyComes(r) PROVE CallTypes'
  <2>1. call[r] \in Call
    BY <1>2 DEF BodyComes, Arrived, CallTypes
  <2>2. \A b \in {"name", "whole"} : [call[r] EXCEPT !.body = b] \in Call
    BY <2>1 DEF Call
  <2>3. QED
    BY <1>2, <2>2 DEF BodyComes, CallTypes
<1>3. ASSUME \A r \in Request : ~BodyComes(r)
      PROVE  \/ UNCHANGED call
             \/ \E r \in Request, c \in Calls \cup {Absent} : call' = [call EXCEPT ![r] = c]
  BY <1>3 DEF Next, Client, Handle, Operate, Arrive, BodyFails, Reject, Begin,
     BeginMkdir, Refused, Acquired, Answer, Proceed, Stale, Succeed, Fail, Removed,
     Cancel, Outside, Time, Stat, Read, Open, Fill, Look, Unlink, Rename, Mkdir,
     IoError, vars
<1>4. QED
  BY <1>1, <1>2, <1>3 DEF CallTypes
FileTypes ==
  /\ files \in [Path -> File \cup {Absent}]
  /\ op \in [Request -> Op \cup {Absent}]
  /\ open \in [Request -> Path \cup {Absent}]
  /\ \A r \in Request : open[r] # Absent => IsFile(open[r])

\* A request that acquires is there, and waits for no operation.
Entering ==
  \A r \in Request : pc[r] = "entering" => call[r] # Absent /\ op[r] = Absent

TypeInv == TypeOK /\ Entering

\* A step of a handler keeps the files, and the types of the operations.
LEMMA HandlerTypes ==
  ASSUME TypeInv, NEW r \in Request,
         Client(r) \/ Handle(r)
  PROVE  FileTypes'
<1>1. UNCHANGED fileVars
  BY DEF Client, Arrive, BodyComes, BodyFails, Handle, Reject, Begin, BeginMkdir,
         Refused, Acquired, Removed, Proceed, Stale, Succeed, Fail, Answer, Cancel
<1>2. Acquired(r) => call[r] # Absent
  BY DEF TypeInv, Entering, Acquired, Locks!Acquire
<1>3. \/ UNCHANGED op
      \/ op' = [op EXCEPT ![r] = Absent]
      \/ /\ call[r] # Absent
         /\ op' = [op EXCEPT ![r] = WorkOf(call[r])] \/ op' = [op EXCEPT ![r] = FirstOf(call[r])]
  <2>1. CASE Handle(r) \/ (Client(r) /\ ~Cancel(r))
    <3>1. Answer(r) => op' = [op EXCEPT ![r] = Absent]
      BY DEF Answer
    <3>2. QED
      BY <1>2, <2>1, <3>1 DEF Client, Arrive, BodyComes, BodyFails, Handle, Reject,
         Begin, BeginMkdir, Refused, Acquired, Removed, Proceed, Stale, Succeed, Fail,
         Arrived, Awaits
  <2>2. CASE Cancel(r)
    BY <2>2 DEF Cancel, TypeInv, TypeOK
  <2>3. QED
    BY <2>1, <2>2
<1>4. op' \in [Request -> Op \cup {Absent}]
  BY <1>3, WorkTypes DEF TypeInv, TypeOK
<1>5. QED
  BY <1>1, <1>4 DEF TypeInv, TypeOK, FileTypes, fileVars, IsFile, Exists

\* So does a step of an operation.  A file that is open has no directory put in
\* its place, and one that goes is nobody's any more.
LEMMA OperationTypes ==
  ASSUME TypeInv, NEW r \in Request, Operate(r)
  PROVE  FileTypes'
<1> USE DEF TypeInv, TypeOK
<1>1. op[r] # Absent /\ clock \in Nat
  BY DEF Locks!TypeOK, Operate, Stat, Read, Open, Fill, Look, Unlink, Rename,
         Mkdir, IoError, Runs
<1>2. /\ op[r] \in Op /\ Ok(r) \in Op /\ Error(r) \in Op
      /\ op[r].path \in Path /\ op[r].to \in Path
  BY <1>1, ResultTypes
<1>3. CASE Stat(r)
  <2> DEFINE s == IF Exists(op[r].path) THEN files[op[r].path].stamp ELSE Absent
  <2>1. s \in Nat \cup {Absent}
    BY <1>2 DEF Exists, File
  <2>2. [Ok(r) EXCEPT !.found = s] \in Op
    BY <1>2, <2>1 DEF Op
  <2>3. Ends(r, [Ok(r) EXCEPT !.found = s]) /\ UNCHANGED fileVars
    BY <1>3 DEF Stat
  <2>4. op' \in [Request -> Op \cup {Absent}]
    <3> HIDE DEF s
    <3>1. QED
      BY <2>2, <2>3, EndTypes
  <2>5. QED
    BY <2>3, <2>4 DEF FileTypes, fileVars, IsFile, Exists
<1>4. CASE Read(r)
  <2>1. IsFile(op[r].path) => [Ok(r) EXCEPT !.data = files[op[r].path].data] \in Op
    BY <1>2 DEF IsFile, Exists, File, Op
  <2>2. op' \in [Request -> Op \cup {Absent}]
    BY <1>2, <1>4, <2>1, EndTypes DEF Read
  <2>3. QED
    BY <1>4, <2>2 DEF Read, FileTypes, fileVars, IsFile, Exists
<1>5. CASE Open(r)
  <2> DEFINE p == op[r].path
             f == [dir |-> FALSE, stamp |-> clock, data |-> "empty"]
  <2>1. f \in File /\ f.dir = FALSE
    BY <1>1 DEF File
  <2>2. /\ files' = [files EXCEPT ![p] = f]
        /\ open' = [open EXCEPT ![r] = p]
        /\ op' = [op EXCEPT ![r].step = "opened"]
    BY <1>5 DEF Open
  <2>3. [op[r] EXCEPT !.step = "opened"] \in Op
    BY <1>2 DEF Op
  <2>4. op' \in [Request -> Op \cup {Absent}]
    BY <2>2, <2>3
  <2> HIDE DEF f
  <2>5. QED
    BY <1>2, <2>1, <2>2, <2>4, AbsentAssumption DEF FileTypes, IsFile, Exists
<1>6. CASE Fill(r)
  <2>1. op' \in [Request -> Op \cup {Absent}]
    BY <1>2, <1>6, EndTypes DEF Fill
  <2>2. open' = [open EXCEPT ![r] = Absent]
    BY <1>6 DEF Fill
  <2>3. \/ files' = files
        \/ /\ open[r] \in Path /\ IsFile(open[r])
           /\ \E d \in {"whole", "mixed"} :
                files' = [files EXCEPT ![open[r]].data = d, ![open[r]].stamp = clock]
    BY <1>6 DEF Fill
  <2>4. /\ files' \in [Path -> File \cup {Absent}]
        /\ \A p \in Path : IsFile(p)' <=> IsFile(p)
    BY <1>1, <2>3, AbsentAssumption DEF IsFile, Exists, File
  <2>5. QED
    BY <2>1, <2>2, <2>4 DEF FileTypes
<1>7. CASE Look(r)
  <2>1. [op[r] EXCEPT !.step = "saw_dir"] \in Op /\ [op[r] EXCEPT !.step = "saw_file"] \in Op
    BY <1>2 DEF Op
  <2>2. op' \in [Request -> Op \cup {Absent}]
    BY <1>2, <1>7, <2>1, EndTypes DEF Look
  <2>3. QED
    BY <1>7, <2>2 DEF Look, FileTypes, fileVars, IsFile, Exists
<1>8. CASE Unlink(r)
  <2>1. op' \in [Request -> Op \cup {Absent}]
    BY <1>2, <1>8, EndTypes DEF Unlink
  <2>2. QED
    BY <1>2, <1>8, <2>1 DEF Unlink, FileTypes, IsFile, Exists
<1>9. CASE Rename(r)
  <2>1. op' \in [Request -> Op \cup {Absent}]
    BY <1>2, <1>9, EndTypes DEF Rename
  <2>2. CASE UNCHANGED fileVars
    BY <2>1, <2>2 DEF FileTypes, fileVars, IsFile, Exists
  <2>3. CASE Moves(op[r].path, op[r].to) /\ op[r].path # op[r].to
    <3> DEFINE p == op[r].path
               q == op[r].to
    <3> HIDE DEF p, q
    <3>1. /\ p \in Path /\ q \in Path /\ p # q
          /\ files' = [files EXCEPT ![q] = files[p], ![p] = Absent]
      BY <1>2, <2>3 DEF Moves, p, q
    <3>2. \A s \in Request : open'[s] = IF open[s] = p THEN q ELSE IF open[s] = q THEN Absent ELSE open[s]
      BY <2>3 DEF Moves, p, q
    <3>3. open' = [s \in Request |-> open'[s]]
      BY <2>3 DEF Moves
    <3>4. /\ files' \in [Path -> File \cup {Absent}]
          /\ files'[q] = files[p] /\ \A x \in Path \ {p, q} : files'[x] = files[x]
      BY <3>1
    <3>5. /\ open' \in [Request -> Path \cup {Absent}]
          /\ \A s \in Request : open'[s] # Absent => IsFile(open[s]) /\ open'[s] # p
      BY <3>1, <3>2, <3>3, AbsentAssumption
    <3>6. QED
      BY <2>1, <3>1, <3>2, <3>4, <3>5 DEF FileTypes, IsFile, Exists
  <2>4. QED
    BY <1>9, <2>2, <2>3 DEF Rename
<1>10. CASE Mkdir(r)
  <2>1. op' \in [Request -> Op \cup {Absent}]
    BY <1>2, <1>10, EndTypes DEF Mkdir
  <2>2. [dir |-> TRUE, stamp |-> clock, data |-> "empty"] \in File
    BY <1>1 DEF File
  <2>3. QED
    BY <1>2, <1>10, <2>1, <2>2 DEF Mkdir, FileTypes, IsFile, Exists
<1>11. CASE IoError(r)
  <2>1. op' \in [Request -> Op \cup {Absent}]
    BY <1>2, <1>11, EndTypes DEF IoError
  <2>2. open' = [open EXCEPT ![r] = Absent]
    BY <1>11 DEF IoError
  <2>3. \/ files' = files
        \/ /\ open[r] \in Path /\ IsFile(open[r])
           /\ files' = [files EXCEPT ![open[r]].data = "broken"]
    BY <1>11 DEF IoError
  <2>4. /\ files' \in [Path -> File \cup {Absent}]
        /\ \A p \in Path : IsFile(p)' <=> IsFile(p)
    BY <2>3, AbsentAssumption DEF IsFile, Exists, File
  <2>5. QED
    BY <2>1, <2>2, <2>4 DEF FileTypes
<1>12. QED
  BY <1>3, <1>4, <1>5, <1>6, <1>7, <1>8, <1>9, <1>10, <1>11 DEF Operate

\* And a step of another process.
LEMMA OutsideTypes ==
  ASSUME TypeInv, NEW p \in Path, Outside(p)
  PROVE  FileTypes'
<1> USE DEF TypeInv, TypeOK
<1>1. [dir |-> FALSE, stamp |-> clock, data |-> "whole"] \in File
  BY DEF File, Locks!TypeOK
<1>2. files' \in [Path -> File \cup {Absent}] /\ \A x \in Path \ {p} : files'[x] = files[x]
  BY <1>1 DEF Outside
<1>3. /\ open' \in [Request -> Path \cup {Absent}]
      /\ \A r \in Request : open'[r] # Absent => open'[r] = open[r] /\ open[r] \in Path \ {p}
  BY DEF Outside
<1>4. op' = op
  BY DEF Outside
<1>5. QED
  BY <1>2, <1>3, <1>4 DEF FileTypes, IsFile, Exists

\* A request enters acquire only when it is there and waits for nothing, and
\* leaves it when its operation is queued or it is answered.
LEMMA EnteringStep == TypeInv /\ [Next]_vars => Entering'
<1> SUFFICES ASSUME TypeInv, [Next]_vars, NEW q \in Request, pc'[q] = "entering"
             PROVE  call'[q] # Absent /\ op'[q] = Absent
  BY DEF Entering
<1> USE DEF TypeInv, TypeOK, Locks!TypeOK, Entering
<1>1. ASSUME NEW r \in Request, Operate(r)
      PROVE  UNCHANGED <<pc, call>> /\ op[r] # Absent /\ \A x \in Request \ {r} : op'[x] = op[x]
  BY <1>1 DEF Operate, Stat, Read, Open, Fill, Look, Unlink, Rename, Mkdir,
     IoError, Runs, Ends, lockVars
<1>2. ASSUME NEW r \in Request, Begin(r) PROVE call'[q] # Absent /\ op'[q] = Absent
  BY <1>2 DEF Begin, Arrived, Locks!Begin
<1>3. ASSUME NEW r \in Request, Refused(r) \/ Acquired(r) \/ Removed(r)
      PROVE call'[q] # Absent /\ op'[q] = Absent
  BY <1>3 DEF Refused, Acquired, Removed, Locks!Refuse, Locks!Acquire, Locks!Remove
<1>4. ASSUME NEW r \in Request, Answer(r) \/ Cancel(r), op[r] # Absent \/ pc[r] = "idle"
      PROVE call'[q] # Absent /\ op'[q] = Absent
  <2>1. pc[q] = "entering"
    BY <1>4 DEF Answer, Cancel, Locks!Release, lockVars
  <2>2. q # r
    BY <1>4, <2>1
  <2>3. call'[q] = call[q] /\ op'[q] = op[q]
    BY <1>4, <2>2 DEF Answer, Cancel
  <2>4. QED
    BY <2>1, <2>3
<1>5. ASSUME NEW r \in Request, Client(r), ~Cancel(r)
      PROVE call'[q] # Absent /\ op'[q] = Absent
  <2>1. pc'[q] = pc[q] /\ op' = op /\ pc[r] = "idle" /\ \A x \in Request \ {r} : call'[x] = call[x]
    BY <1>5 DEF Client, Arrive, BodyComes, BodyFails, Arrived, lockVars
  <2>2. QED
    BY <2>1
<1>6. ASSUME NEW r \in Request, Reject(r) \/ BeginMkdir(r) \/ Proceed(r)
      PROVE call'[q] # Absent /\ op'[q] = Absent
  BY <1>6 DEF Reject, BeginMkdir, Proceed, Arrived, Awaits, lockVars
<1>7. CASE Time \/ UNCHANGED vars \/ \E p \in Path : Outside(p)
  BY <1>7 DEF Time, Locks!Tick, Outside, lockVars, vars
<1>8. ASSUME NEW r \in Request, Cancel(r) PROVE op[r] # Absent \/ pc[r] = "idle"
  BY <1>8 DEF Cancel, Arrived
<1>9. QED
  BY <1>1, <1>2, <1>3, <1>4, <1>5, <1>6, <1>7, <1>8
  DEF Next, Handle, Stale, Succeed, Fail, Awaits

\* The initial states have their types.
LEMMA InitTypes == Init => CallTypes /\ FileTypes /\ Entering
<1>1. [dir |-> FALSE, stamp |-> 0, data |-> "whole"] \in File
  BY DEF File
<1>2. QED
  BY <1>1 DEF Init, CallTypes, FileTypes, Entering, Locks!Init

\* What LockManager proves of its own steps holds of the locks of FileService.
LEMMA LockTypes == L!TypeOK <=> Locks!TypeOK
BY DEF Locks!TypeOK, L!TypeOK, Locks!Job, L!Job, Locks!PC, L!PC,
       Locks!LockEntry, L!LockEntry, Locks!LockType, L!LockType

LEMMA InitLocks == Init => L!Init
BY DEF Init, Locks!Init, L!Init

LEMMA LocksTyped == Spec => []CallTypes /\ []Locks!TypeOK
<1>1. Spec => []CallTypes
  BY InitTypes, CallStep, PTL DEF Spec
<1>2. CallTypes /\ [Next]_vars => [L!Next]_(L!vars)
  BY LockStep
<1>3. Spec => L!Spec
  BY <1>1, <1>2, InitLocks, PTL DEF Spec, L!Spec
<1>4. L!Spec => []L!TypeOK
  BY LockAssumptions, L!TypeCorrect
<1>5. QED
  BY <1>1, <1>3, <1>4, LockTypes, PTL

LEMMA TypeInvariant == Spec => []TypeInv
<1>1. Init /\ Locks!TypeOK => TypeInv
  BY InitTypes DEF TypeInv, TypeOK, CallTypes, FileTypes
<1>2. TypeInv /\ [Next]_vars /\ CallTypes' /\ Locks!TypeOK' => TypeInv'
  <2> SUFFICES ASSUME TypeInv, [Next]_vars, CallTypes', Locks!TypeOK'
               PROVE  FileTypes' /\ Entering'
    BY DEF TypeInv, TypeOK, CallTypes, FileTypes
  <2>1. Time \/ UNCHANGED vars => FileTypes'
    BY DEF Time, vars, TypeInv, TypeOK, FileTypes, fileVars, IsFile, Exists
  <2>2. ASSUME NEW p \in Path, Outside(p) PROVE FileTypes'
    BY <2>2, OutsideTypes
  <2>3. QED
    BY <2>1, <2>2, HandlerTypes, OperationTypes, EnteringStep DEF Next
<1>3. QED
  BY <1>1, <1>2, LocksTyped, PTL DEF Spec

\* Every reachable state has its type, and a file that a write has open has a
\* path, whatever the clients do, and whichever operations fail.
THEOREM TypeCorrect == Spec => []TypeOK
<1>1. TypeInv => TypeOK
  BY DEF TypeInv
<1>2. QED
  BY <1>1, TypeInvariant, PTL
----------------------------------------------------------------------------
(* Careful clients.                                                        *)

\* Careful steps are steps.
LEMMA CarefulIsSpec == CarefulSpec => Spec
<1>1. [CarefulNext]_vars => [Next]_vars
  BY DEF CarefulNext
<1>2. QED
  BY <1>1, PTL DEF CarefulSpec, Spec

LEMMA SameSerial ==
  /\ Locks!OneRequestPerUserAndPath <=> L!OneRequestPerUserAndPath
  /\ Locks!GuardExclusion <=> L!GuardExclusion
BY DEF Locks!OneRequestPerUserAndPath, L!OneRequestPerUserAndPath,
       Locks!GuardExclusion, L!GuardExclusion, Locks!Covered, L!Covered,
       Locks!ExpiresAt, L!ExpiresAt

\* Serial clients: no user has two requests on one path at a time, and no
\* release loses the race for its key.  Clients may go away, and their locks may
\* expire.
SerialNext == Next /\ Locks!OneRequestPerUserAndPath' /\ Locks!NoRace

SerialSpec == Init /\ [][SerialNext]_vars

\* The locks of serial clients are those of serial clients of LockManager.
LEMMA SerialLocks == SerialSpec => L!SerialSpec
<1>1. CallTypes /\ [SerialNext]_vars => [L!SerialNext]_(L!vars)
  <2>1. CallTypes /\ [Next]_vars => [L!Next]_(L!vars)
    BY LockStep
  <2>2. UNCHANGED vars => UNCHANGED L!vars
    BY DEF vars, L!vars
  <2>3. Locks!OneRequestPerUserAndPath' <=> L!OneRequestPerUserAndPath'
    BY DEF Locks!OneRequestPerUserAndPath, L!OneRequestPerUserAndPath
  <2>4. Locks!NoRace <=> L!NoRace
    BY DEF Locks!NoRace, L!NoRace, Locks!Removes, L!Removes, Locks!Entries, L!Entries
  <2>5. QED
    BY <2>1, <2>2, <2>3, <2>4 DEF SerialNext, L!SerialNext
<1>2. [SerialNext]_vars => [Next]_vars
  BY DEF SerialNext
<1>3. QED
  BY <1>1, <1>2, LocksTyped, InitLocks, PTL DEF SerialSpec, Spec, L!SerialSpec

\* Careful clients are serial.
LEMMA CarefulIsSerial == CarefulSpec => SerialSpec
<1>1. [CarefulNext]_vars => [SerialNext]_vars
  BY DEF CarefulNext, SerialNext, Prompt
<1>2. QED
  BY <1>1, PTL DEF CarefulSpec, SerialSpec

\* The file service keeps the promise of LeaseLock to serial clients, through all
\* of its handlers: answers, refusals, errors of operations, clients that go away
\* and locks that expire under an operation.
THEOREM ServiceKeepsLeases == SerialSpec => Locks!ImplementsLeases
<1>1. L!SerialSpec => L!ImplementsLeases
  BY LockAssumptions, L!GuardsAreLeases
<1>2. Locks!leaseOf = L!leaseOf /\ Locks!leaseOf' = L!leaseOf'
  BY DEF Locks!leaseOf, L!leaseOf, Locks!Holding, L!Holding, Locks!ExpiresAt, L!ExpiresAt
<1>3. Locks!Leases!Init <=> L!Leases!Init
  BY <1>2 DEF Locks!Leases!Init, L!Leases!Init
<1>4. [L!Leases!Next]_(L!Leases!vars) => [Locks!Leases!Next]_(Locks!Leases!vars)
  <2>1. \A r, p, t, e : L!Leases!Grant(r, p, t, e) => Locks!Leases!Grant(r, p, t, e)
    BY <1>2 DEF Locks!Leases!Grant, L!Leases!Grant, Locks!Leases!Unexpired, L!Leases!Unexpired
  <2>2. \A r : L!Leases!GiveUp(r) => Locks!Leases!GiveUp(r)
    BY <1>2 DEF Locks!Leases!GiveUp, L!Leases!GiveUp
  <2>3. L!Leases!Tick => Locks!Leases!Tick
    BY <1>2 DEF Locks!Leases!Tick, L!Leases!Tick
  <2>4. L!Leases!Next => Locks!Leases!Next
    BY <2>1, <2>2, <2>3 DEF Locks!Leases!Next, L!Leases!Next,
                            Locks!Leases!LockType, L!Leases!LockType
  <2>5. QED
    BY <1>2, <2>4 DEF Locks!Leases!vars, L!Leases!vars
<1>5. QED
  BY <1>1, <1>3, <1>4, SerialLocks, PTL DEF Locks!ImplementsLeases, L!ImplementsLeases,
  Locks!Leases!Spec, L!Leases!Spec

\* Hence two unexpired locks of different users on one path are both for
\* reading, whatever their handlers do.
THEOREM ServiceLocksExclude == SerialSpec => []Locks!GuardExclusion
<1>1. L!SerialSpec => []L!GuardExclusion
  BY LockAssumptions, L!GuardsExclude
<1>2. QED
  BY <1>1, SerialLocks, SameSerial, PTL

\* The locks of careful clients exclude each other.
LEMMA CarefulLocks == CarefulSpec => []Locks!OneRequestPerUserAndPath /\ []Locks!GuardExclusion
<1>1. L!SerialSpec => [](L!OneRequestPerUserAndPath /\ L!GuardInTable)
  BY LockAssumptions, L!GuardsInTable
<1>2. CarefulSpec => []Locks!GuardExclusion
  BY CarefulIsSerial, ServiceLocksExclude, PTL
<1>3. QED
  BY <1>1, <1>2, CarefulIsSerial, SerialLocks, SameSerial, PTL

\* A step of the handler or of the operation of r leaves other requests alone.
LEMMA OthersKeep ==
  ASSUME TypeInv, NEW r \in Request,
         Client(r) \/ Handle(r) \/ Operate(r)
  PROVE  /\ clock' = clock
         /\ \A q \in Request \ {r} :
              /\ pc'[q] = pc[q] /\ job'[q] = job[q]
              /\ call'[q] = call[q] /\ op'[q] = op[q]
<1> USE DEF TypeInv, TypeOK, Locks!TypeOK
<1>1. CASE Answer(r) \/ Cancel(r)
  BY <1>1 DEF Answer, Cancel, Locks!Release, lockVars
<1>2. CASE Begin(r) \/ Refused(r) \/ Acquired(r) \/ Removed(r)
  BY <1>2 DEF Begin, Refused, Acquired, Removed, Locks!Begin, Locks!Refuse,
     Locks!Acquire, Locks!Remove
<1>3. CASE (Client(r) /\ ~Cancel(r)) \/ Reject(r) \/ BeginMkdir(r) \/ Proceed(r)
  BY <1>3 DEF Client, Arrive, BodyComes, BodyFails, Reject, BeginMkdir, Proceed, lockVars
<1>4. CASE Operate(r)
  BY <1>4 DEF Operate, Stat, Read, Open, Fill, Look, Unlink, Rename, Mkdir,
     IoError, Ends, lockVars
<1>5. QED
  BY <1>1, <1>2, <1>3, <1>4 DEF Handle, Stale, Succeed, Fail

\* An operation is the same one after a step of its own.
LEMMA OperationKeeps ==
  ASSUME TypeInv, NEW r \in Request, Operate(r), call[r] # Absent
  PROVE  /\ op[r] # Absent /\ op'[r] # Absent
         /\ op'[r].do = op[r].do /\ op'[r].path = op[r].path /\ op'[r].to = op[r].to
         /\ UNCHANGED <<lockVars, call>>
<1> USE DEF TypeInv, TypeOK
<1>1. op[r] # Absent /\ UNCHANGED <<lockVars, call>>
  BY DEF Operate, Stat, Read, Open, Fill, Look, Unlink, Rename, Mkdir, IoError, Runs
<1>2. op[r] \in Op
  BY <1>1
<1> DEFINE Same(o) == o \in Op /\ o.do = op[r].do /\ o.path = op[r].path /\ o.to = op[r].to
<1>3. \A s \in {"ok", "error", "opened", "saw_file", "saw_dir"} : Same([op[r] EXCEPT !.step = s])
  BY <1>2 DEF Op
<1>4. Same(Ok(r)) /\ Same(Error(r))
  BY <1>3 DEF Ok, Error
<1>5. Same(op'[r])
  <2>1. CASE Stat(r)
    <3> DEFINE s == IF Exists(op[r].path) THEN files[op[r].path].stamp ELSE Absent
    <3>1. s \in Nat \cup {Absent}
      BY <1>2 DEF Exists, File, Op
    <3>2. op'[r] = [Ok(r) EXCEPT !.found = s]
      BY <2>1 DEF Stat, Ends
    <3> HIDE DEF s
    <3>3. QED
      BY <1>4, <3>1, <3>2 DEF Op
  <2>2. CASE Read(r)
    <3>1. IsFile(op[r].path) => Same([Ok(r) EXCEPT !.data = files[op[r].path].data])
      BY <1>2, <1>4 DEF IsFile, Exists, File, Op
    <3>2. QED
      BY <1>4, <2>2, <3>1 DEF Read, Ends
  <2>3. CASE Open(r) \/ Look(r)
    BY <1>3, <1>4, <2>3 DEF Open, Look, Ends
  <2>4. CASE Fill(r) \/ Unlink(r) \/ Rename(r) \/ Mkdir(r) \/ IoError(r)
    BY <1>4, <2>4 DEF Fill, Unlink, Rename, Mkdir, IoError, Ends
  <2>5. QED
    BY <2>1, <2>2, <2>3, <2>4 DEF Operate
<1>6. QED
  BY <1>1, <1>5, AbsentAssumption
\* The operations a call queues are ones it awaits.
LEMMA QueuedFits ==
  ASSUME NEW c \in Call
  PROVE  /\ WorkOf(c) # Absent /\ Fits(WorkOf(c), c)
         /\ FirstOf(c) # Absent /\ Fits(FirstOf(c), c)
         /\ FirstOf(c).step = "queued" /\ WorkOf(c).step = "queued"
BY WorkTypes, AbsentAssumption DEF FirstOf, WorkOf, Queued, Fits

\* A prompt step of request r keeps its call, its lock and its operation
\* together.
LEMMA BoundOwnStep ==
  ASSUME TypeInv, AllBound, Prompt, NEW r \in Request,
         Client(r) \/ Handle(r) \/ Operate(r)
  PROVE  Bound(r)'
<1> USE DEF TypeInv, TypeOK, Locks!TypeOK
<1>1. pc'[r] # "idle" => clock' < Locks!ExpiresAt(r)'
  BY DEF Prompt
<1>2. /\ call[r] # Absent => call[r] \in Call
      /\ Bound(r)
  BY DEF AllBound
<1>3. op[r] # Absent => call[r] # Absent
  BY <1>2 DEF Bound
<1>4. ASSUME NEW c \in Calls, Arrive(r, c) PROVE Bound(r)'
  <2>1. pc'[r] = "idle" /\ op'[r] = Absent /\ call'[r] = c
    BY <1>4 DEF Arrive, lockVars
  <2>2. c.kind # "rename" => c.to = c.path
    BY DEF Calls
  <2>3. QED
    BY <1>1, <2>1, <2>2 DEF Bound
<1>5. CASE Answer(r) /\ op[r] # Absent
  <2>1. call'[r] = Absent /\ op'[r] = Absent
    BY <1>5 DEF Answer
  <2>2. pc'[r] \in {"idle", "removing"}
    BY <1>2, <1>5 DEF Answer, Locks!Release, lockVars, Bound, Locks!PC
  <2>3. QED
    BY <1>1, <2>1, <2>2 DEF Bound
<1>6. CASE Cancel(r)
  <2>1. call'[r] = Absent
    BY <1>6 DEF Cancel
  <2>2. op'[r] = Absent
    BY <1>6, <2>1 DEF Cancel, Prompt
  <2>3. pc'[r] \in {"idle", "removing"}
    BY <1>2, <1>6 DEF Cancel, Arrived, Locks!Release, lockVars, Bound, Locks!PC
  <2>4. QED
    BY <1>1, <2>1, <2>2, <2>3 DEF Bound
<1>7. CASE BodyFails(r) \/ Reject(r) \/ Refused(r) \/ Removed(r)
  <2>1. pc'[r] = "idle" /\ op'[r] = Absent
    BY <1>2, <1>7 DEF BodyFails, Reject, Refused, Removed, Arrived, Locks!Refuse,
       Locks!Remove, lockVars, Bound
  <2>2. call'[r] = Absent
    BY <1>2, <1>7 DEF BodyFails, Reject, Refused, Removed, Locks!Remove, Bound
  <2>3. QED
    BY <1>1, <2>1, <2>2 DEF Bound
<1>8. CASE Begin(r)
  <2>1. /\ call[r] # Absent /\ call' = call /\ op'[r] = Absent
        /\ call[r].kind # "mkdir" /\ pc'[r] = "entering"
        /\ job'[r] = [path |-> call[r].path, type |-> LockTypeOf(call[r]), now |-> clock]
    BY <1>8 DEF Begin, Arrived, Locks!Begin
  <2>2. job'[r].path = call[r].path /\ job'[r].type = LockTypeOf(call[r])
    BY <2>1
  <2>3. QED
    BY <1>1, <1>2, <2>1, <2>2 DEF Bound
<1>9. CASE BeginMkdir(r)
  <2>1. /\ call[r] # Absent /\ pc'[r] = "idle" /\ call' = call
        /\ call[r].kind = "mkdir" /\ op'[r] = WorkOf(call[r])
    BY <1>9 DEF BeginMkdir, Arrived, lockVars
  <2>2. QED
    BY <1>1, <1>2, <2>1, QueuedFits DEF Bound
<1>10. CASE Acquired(r)
  <2>1. /\ pc[r] = "entering" /\ pc'[r] = "holding" /\ call' = call /\ job' = job
        /\ op'[r] = FirstOf(call[r])
    BY <1>10 DEF Acquired, Locks!Acquire
  <2>2. QED
    BY <1>1, <1>2, <2>1, QueuedFits DEF Bound
<1>11. CASE Proceed(r)
  <2>1. /\ call[r] # Absent /\ op[r] # Absent /\ UNCHANGED lockVars
        /\ call' = call /\ op'[r] = WorkOf(call[r])
    BY <1>11 DEF Proceed, Awaits
  <2>2. QED
    BY <1>1, <1>2, <2>1, QueuedFits DEF Bound, lockVars
<1>12. CASE Operate(r)
  <2>1. op[r] # Absent
    BY <1>12 DEF Operate, Stat, Read, Open, Fill, Look, Unlink, Rename, Mkdir,
       IoError, Runs
  <2>2. /\ op'[r] # Absent
        /\ op'[r].do = op[r].do /\ op'[r].path = op[r].path /\ op'[r].to = op[r].to
        /\ UNCHANGED <<lockVars, call>>
    BY <1>3, <1>12, <2>1, OperationKeeps
  <2>3. Fits(op[r], call[r]) => Fits(op'[r], call[r])
    BY <2>2 DEF Fits
  <2>4. QED
    BY <1>1, <1>2, <2>1, <2>2, <2>3 DEF Bound, lockVars
<1>13. CASE BodyComes(r)
  <2>1. /\ call[r] # Absent /\ pc'[r] = "idle" /\ op'[r] = Absent
        /\ \E b \in {"name", "whole"} : call'[r] = [call[r] EXCEPT !.body = b]
    BY <1>13 DEF BodyComes, Arrived, lockVars
  <2>2. call'[r].kind = call[r].kind /\ call'[r].to = call[r].to /\ call'[r].path = call[r].path
    BY <1>2, <2>1 DEF Call
  <2>3. QED
    BY <1>1, <1>2, <2>1, <2>2 DEF Bound
<1>14. QED
  BY <1>4, <1>5, <1>6, <1>7, <1>8, <1>9, <1>10, <1>11, <1>12, <1>13
  DEF Client, Handle, Stale, Succeed, Fail, Awaits

\* A prompt step keeps every request's call, lock and operation together.
LEMMA BoundStep ==
  ASSUME TypeInv, AllBound, [Next /\ Prompt]_vars
  PROVE  AllBound'
<1> SUFFICES ASSUME NEW q \in Request PROVE Bound(q)'
  BY DEF AllBound
<1>1. Bound(q)
  BY DEF AllBound
<1>2. CASE UNCHANGED vars
  BY <1>1, <1>2 DEF Bound, Fits, WorkOf, Queued, vars, Locks!ExpiresAt
<1>3. ASSUME Next, Prompt PROVE Bound(q)'
  <2>1. pc'[q] # "idle" => clock' < Locks!ExpiresAt(q)'
    BY <1>3 DEF Prompt
  <2>2. CASE /\ pc'[q] = pc[q] /\ job'[q] = job[q]
             /\ call'[q] = call[q] /\ op'[q] = op[q]
    BY <1>1, <2>1, <2>2 DEF Bound
  <2>3. ASSUME NEW r \in Request,
               Client(r) \/ Handle(r) \/ Operate(r)
        PROVE  Bound(q)'
    BY <1>3, <2>2, <2>3, BoundOwnStep, OthersKeep
  <2>4. Time \/ (\E p \in Path : Outside(p)) => pc' = pc /\ job' = job /\ call' = call /\ op' = op
    BY DEF Time, Locks!Tick, Outside, lockVars
  <2>5. QED
    BY <1>3, <2>2, <2>3, <2>4 DEF Next
<1>4. QED
  BY <1>2, <1>3
\* What is known of every state when the clients are careful, besides the types.
Covers ==
  /\ AllBound
  /\ NoRenameOnto
  /\ Locks!OneRequestPerUserAndPath
  /\ Locks!GuardExclusion

LEMMA CarefulCovers == CarefulSpec => []TypeInv /\ []Covers
<1>1. Init => AllBound /\ NoRenameOnto
  BY DEF Init, Locks!Init, AllBound, Bound, NoRenameOnto
<1>2. TypeInv /\ AllBound /\ [CarefulNext]_vars => AllBound'
  BY BoundStep DEF CarefulNext
<1>3. NoRenameOnto /\ [CarefulNext]_vars => NoRenameOnto'
  BY DEF CarefulNext, vars, NoRenameOnto
<1>4. QED
  BY <1>1, <1>2, <1>3, TypeInvariant, CarefulIsSpec, CarefulLocks, PTL
  DEF CarefulSpec, Covers

\* While an operation that takes a lock runs, its request holds an unexpired
\* lock on its path.
LEMMA WorkIsCovered ==
  ASSUME TypeInv, AllBound, NEW r \in Request, Works(r)
  PROVE  /\ Locks!Covered(r)
         /\ call[r] \in Call /\ op[r] \in Op
         /\ job[r].path = op[r].path /\ op[r].path = call[r].path
         /\ op[r].to = call[r].to
         /\ job[r].type = "read" => op[r].do = "read"
<1>1. Bound(r) /\ op[r] # Absent /\ op[r].do # "mkdir"
  BY DEF AllBound, Works
<1>2. /\ call[r] # Absent /\ Fits(op[r], call[r])
      /\ call[r].kind # "mkdir" => pc[r] = "holding"
  BY <1>1 DEF Bound
<1>3. call[r] \in Call /\ op[r] \in Op
  BY <1>1, <1>2 DEF TypeInv, TypeOK
<1>4. call[r].kind # "mkdir"
  BY <1>1, <1>2, <1>3 DEF Fits, WorkOf, Queued, Call, Kinds
<1>5. pc[r] = "holding" /\ job[r].path = call[r].path /\ job[r].type = LockTypeOf(call[r])
      /\ clock < Locks!ExpiresAt(r)
  BY <1>1, <1>2, <1>4 DEF Bound
<1>6. job[r].type = "read" => op[r].do = "read"
  BY <1>2, <1>5 DEF LockTypeOf, Fits, WorkOf, Queued
<1>7. QED
  BY <1>2, <1>3, <1>5, <1>6 DEF Locks!Covered, Fits

\* The locks keep the operations apart: by the guards, when the paths are those
\* that were locked, and by the care of the clients, when one is the target of
\* a rename, which nobody locks.
LEMMA CoversExclude == TypeInv /\ Covers => OperationsExclude
<1> SUFFICES ASSUME TypeInv, Covers,
                    NEW q \in Request, NEW r \in Request, q # r, Works(q), Works(r),
                    PathsOf(op[q]) \cap PathsOf(op[r]) # {}
             PROVE  op[q].do = "read" /\ op[r].do = "read"
  BY DEF OperationsExclude
<1> USE DEF Covers
<1>1. ASSUME NEW x \in {q, r}
      PROVE  /\ Locks!Covered(x)
             /\ call[x] \in Call /\ call[x] # Absent
             /\ job[x].path = op[x].path /\ op[x].path = call[x].path
             /\ op[x].to = call[x].to
             /\ job[x].type = "read" => op[x].do = "read"
             /\ call[x].kind # "rename" => call[x].to = call[x].path
  BY WorkIsCovered, AbsentAssumption DEF AllBound, Bound
<1>2. op[q].path = op[r].path
  <2>1. /\ call[q].kind = "rename" => call[q].to \notin {call[r].path, call[r].to}
        /\ call[r].kind = "rename" => call[r].to \notin {call[q].path, call[q].to}
    BY <1>1 DEF NoRenameOnto
  <2>2. QED
    BY <1>1, <2>1 DEF PathsOf
<1>3. UidOf[q] # UidOf[r]
  BY <1>1, <1>2 DEF Locks!OneRequestPerUserAndPath, Locks!Covered
<1>4. job[q].type = "read" /\ job[r].type = "read"
  BY <1>1, <1>2, <1>3 DEF Locks!GuardExclusion
<1>5. QED
  BY <1>1, <1>4

\* For careful clients, two operations on one path are both parts of downloads,
\* and the target of a rename is left alone.
THEOREM LocksCoverOperations == CarefulSpec => []OperationsExclude
BY CarefulCovers, CoversExclude, PTL
----------------------------------------------------------------------------
(* The files.                                                              *)

\* A step of a handler leaves the files alone, and replaces an operation only
\* when that is over.
LEMMA HandlerOperation ==
  ASSUME TypeInv, AllBound, Prompt, NEW r \in Request,
         Client(r) \/ Handle(r)
  PROVE  /\ UNCHANGED fileVars
         /\ \/ op'[r] = op[r] /\ (op[r] # Absent => call'[r] = call[r])
            \/ /\ op[r] = Absent \/ op[r].step \in {"ok", "error"}
               /\ \/ op'[r] = Absent
                  \/ /\ call[r] # Absent /\ call' = call
                     /\ \/ op'[r] = FirstOf(call[r])
                        \/ op'[r] = WorkOf(call[r]) /\ BeginMkdir(r)
                        \/ op'[r] = WorkOf(call[r]) /\ Proceed(r)
<1> USE DEF TypeInv, TypeOK
<1>1. UNCHANGED fileVars
  BY DEF Client, Arrive, BodyComes, BodyFails, Handle, Reject, Begin, BeginMkdir,
         Refused, Acquired, Removed, Proceed, Stale, Succeed, Fail, Answer, Cancel
<1>2. Bound(r)
  BY DEF AllBound
<1>3. CASE Answer(r) /\ (Awaits(r, "ok") \/ Awaits(r, "error"))
  BY <1>1, <1>3 DEF Answer, Awaits
<1>4. CASE Cancel(r)
  <2>1. op'[r] = Absent
    BY <1>4 DEF Cancel, Prompt
  <2>2. op[r] = Absent \/ op[r].step \in {"ok", "error"}
    BY <1>4, <2>1 DEF Cancel
  <2>3. QED
    BY <1>1, <2>1, <2>2
<1>5. CASE (Client(r) /\ ~Cancel(r)) \/ Reject(r) \/ Begin(r) \/ Removed(r)
  BY <1>1, <1>5 DEF Client, Arrive, BodyComes, BodyFails, Reject, Arrived, Begin, Removed
<1>6. CASE Refused(r)
  BY <1>1, <1>2, <1>6 DEF Refused, Locks!Refuse, Bound
<1>7. CASE Acquired(r)
  BY <1>1, <1>2, <1>7 DEF Acquired, Locks!Acquire, Bound
<1>8. CASE BeginMkdir(r) \/ Proceed(r)
  BY <1>1, <1>8 DEF BeginMkdir, Arrived, Proceed, Awaits
<1>9. QED
  BY <1>3, <1>4, <1>5, <1>6, <1>7, <1>8 DEF Handle, Stale, Succeed, Fail

\* Nobody writes a file that another operation works on.
LEMMA NobodyWrites ==
  ASSUME TypeInv, OperationsExclude, OpenIsWritten,
         NEW r \in Request, Works(r), NEW p \in PathsOf(op[r]),
         NEW x \in Request, x # r \/ ~Runs(r, "write", "opened")
  PROVE  open[x] # p
<1> SUFFICES ASSUME open[x] = p PROVE FALSE
  OBVIOUS
<1>1. p \in Path
  BY DEF TypeInv, TypeOK, Works, PathsOf, Op
<1>2. Runs(x, "write", "opened") /\ op[x].path = p
  BY <1>1, AbsentAssumption DEF OpenIsWritten
<1>3. x # r
  BY <1>2
<1>4. Works(x) /\ p \in PathsOf(op[x])
  BY <1>2 DEF Works, Runs, PathsOf
<1>5. op[x].do = "read"
  BY <1>3, <1>4 DEF OperationsExclude
<1>6. QED
  BY <1>2, <1>5 DEF Runs

\* The steps of a handler keep the files as they are, and who writes them.
LEMMA OpenHandlerStep ==
  ASSUME TypeInv, AllBound, OpenIsWritten, DownloadIsWhole, Prompt, NEW r \in Request,
         Client(r) \/ Handle(r)
  PROVE  OpenIsWritten' /\ DownloadIsWhole'
<1>1. /\ UNCHANGED fileVars
      /\ \A x \in Request \ {r} : op'[x] = op[x]
      /\ \/ op'[r] = op[r]
         \/ /\ op[r] = Absent \/ op[r].step \in {"ok", "error"}
            /\ op'[r] = Absent \/ op'[r].step = "queued"
  <2>1. call[r] # Absent => call[r] \in Call
    BY DEF TypeInv, TypeOK
  <2>2. QED
    BY <2>1, HandlerOperation, OthersKeep, QueuedFits
<1>2. \A x \in Request : Runs(x, "write", "opened")' <=> Runs(x, "write", "opened")
  BY <1>1 DEF Runs
<1>3. \A x \in Request : Runs(x, "write", "opened") => op'[x] = op[x]
  BY <1>1 DEF Runs
<1>4. \A x \in Request : Runs(x, "read", "ok")' => Runs(x, "read", "ok") /\ op'[x] = op[x]
  BY <1>1 DEF Runs
<1>5. OpenIsWritten'
  BY <1>1, <1>2, <1>3 DEF OpenIsWritten, fileVars, IsFile, Exists
<1>6. QED
  BY <1>4, <1>5 DEF DownloadIsWhole
\* An operation that opens nothing keeps who writes which file.
LEMMA SameWriters ==
  ASSUME OpenIsWritten, NEW r \in Request,
         ~Runs(r, "write", "opened"), ~Runs(r, "write", "opened")',
         \A x \in Request \ {r} : op'[x] = op[x],
         \A x \in Request : open'[x] = open[x]
  PROVE  \A x \in Request :
           open'[x] # Absent => Runs(x, "write", "opened")' /\ open'[x] = op'[x].path
BY DEF OpenIsWritten, Runs

\* An operation that only looks keeps the files, and a download gets one that
\* nobody writes.
LEMMA OpenLookStep ==
  ASSUME TypeInv, Covers, OperationsExclude, OpenIsWritten, DownloadIsWhole,
         NEW r \in Request, Stat(r) \/ Read(r) \/ Look(r)
  PROVE  OpenIsWritten' /\ DownloadIsWhole'
<1>1. /\ op[r] # Absent /\ op[r].do \in {"stat", "read", "delete"}
      /\ UNCHANGED fileVars
  BY DEF Stat, Read, Look, Runs
<1>2. call[r] # Absent /\ Operate(r)
  BY <1>1 DEF Covers, AllBound, Bound, Operate
<1>3. op'[r] # Absent /\ op'[r].do = op[r].do
  BY <1>2, OperationKeeps
<1>4. \A x \in Request \ {r} : op'[x] = op[x]
  BY <1>2, OthersKeep
<1>5. OpenIsWritten'
  <2>1. ~Runs(r, "write", "opened") /\ ~Runs(r, "write", "opened")'
    BY <1>1, <1>3 DEF Runs
  <2>2. QED
    BY <1>1, <1>4, <2>1, SameWriters DEF OpenIsWritten, fileVars, IsFile, Exists
<1>6. ASSUME Runs(r, "read", "ok")' PROVE op'[r].data \in {"whole", "broken"}
  <2>1. Read(r)
    BY <1>1, <1>3, <1>6 DEF Stat, Read, Look, Runs
  <2>2. op[r] \in Op /\ op[r].step = "queued" /\ op[r].path \in Path
    BY <1>1, <2>1 DEF TypeInv, TypeOK, Op, Read, Runs
  <2>3. IsFile(op[r].path)
    BY <1>2, <1>6, <2>1, <2>2 DEF Read, Ends, Error, Runs, Op, TypeInv, TypeOK
  <2>4. op'[r] = [Ok(r) EXCEPT !.data = files[op[r].path].data]
    BY <1>2, <2>1, <2>3 DEF Read, Ends, TypeInv, TypeOK
  <2>5. \A x \in Request : open[x] # op[r].path
    BY <1>1, NobodyWrites DEF Works, PathsOf, Runs
  <2>6. files[op[r].path].data \in {"whole", "broken"}
    BY <2>2, <2>3, <2>5 DEF OpenIsWritten
  <2>7. QED
    BY <2>2, <2>4, <2>6 DEF Ok, Op
<1>7. QED
  BY <1>4, <1>5, <1>6 DEF DownloadIsWhole, Runs

\* A write opens a file that nobody else writes, and fills it from empty.
LEMMA OpenWriteStep ==
  ASSUME TypeInv, Covers, OperationsExclude, OpenIsWritten,
         NEW r \in Request, Open(r) \/ Fill(r) \/ IoError(r)
  PROVE  OpenIsWritten'
<1> USE DEF TypeInv, TypeOK
<1>1. op[r] # Absent /\ op[r] \in Op /\ op[r].path \in Path
  BY DEF Open, Fill, IoError, Runs, Op
<1>2. call[r] # Absent /\ Operate(r)
  BY <1>1 DEF Covers, AllBound, Bound, Operate
<1>3. op'[r] # Absent /\ op'[r].do = op[r].do /\ op'[r].path = op[r].path
  BY <1>2, OperationKeeps
<1>4. \A x \in Request \ {r} : op'[x] = op[x]
  BY <1>2, OthersKeep
<1>5. \A x \in Request \ {r} : Runs(x, "write", "opened")' <=> Runs(x, "write", "opened")
  BY <1>4 DEF Runs
<1>6. op[r].do = "write" => \A x \in Request \ {r} : open[x] # op[r].path
  BY <1>1, NobodyWrites DEF Works, PathsOf
<1>7. CASE Open(r)
  <2> DEFINE p == op[r].path
  <2>1. /\ Runs(r, "write", "queued")
        /\ files' = [files EXCEPT ![p] = [dir |-> FALSE, stamp |-> clock, data |-> "empty"]]
        /\ open' = [open EXCEPT ![r] = p]
        /\ op'[r] = [op[r] EXCEPT !.step = "opened"]
    BY <1>7 DEF Open
  <2>2. Runs(r, "write", "opened")'
    BY <1>1, <1>3, <2>1 DEF Runs, Op
  <2>3. /\ files'[p].data = "empty" /\ open'[r] = p
        /\ \A x \in Path \ {p} : files'[x] = files[x]
        /\ \A x \in Request \ {r} : open'[x] = open[x]
    BY <1>1, <2>1
  <2>4. open[r] = Absent
    BY <2>1 DEF OpenIsWritten, Runs
  <2>5. \A x \in Request :
          open'[x] # Absent => Runs(x, "write", "opened")' /\ open'[x] = op'[x].path
    <3>1. open'[r] = op'[r].path
      BY <1>3, <2>3
    <3>2. \A x \in Request \ {r} :
            open'[x] # Absent => Runs(x, "write", "opened") /\ open'[x] = op'[x].path
      BY <1>4, <2>3 DEF OpenIsWritten
    <3>3. QED
      BY <1>5, <2>2, <3>1, <3>2
  <2>6. ASSUME NEW x \in Path, IsFile(x)'
        PROVE  IF \E s \in Request : open'[s] = x THEN files'[x].data = "empty"
                                                  ELSE files'[x].data \in {"whole", "broken"}
    BY <2>3, <2>4, <2>6, AbsentAssumption DEF OpenIsWritten, IsFile, Exists
  <2>7. QED
    BY <2>5, <2>6 DEF OpenIsWritten
<1>8. CASE Fill(r) \/ IoError(r)
  <2>1. /\ open' = [open EXCEPT ![r] = Absent]
        /\ op'[r].step # "opened"
    BY <1>1, <1>2, <1>8 DEF Fill, IoError, Ends, Ok, Error, Op
  <2>2. ~Runs(r, "write", "opened")'
    BY <2>1 DEF Runs
  <2>3. \A x \in Request :
          open'[x] # Absent => Runs(x, "write", "opened")' /\ open'[x] = op'[x].path
    BY <1>4, <1>5, <2>1, <2>2 DEF OpenIsWritten
  <2>4. CASE open[r] = Absent
    <3>1. files' = files
      BY <1>8, <2>4 DEF Fill, IoError
    <3>2. open' = open
      BY <2>1, <2>4
    <3>3. QED
      BY <2>3, <3>1, <3>2 DEF OpenIsWritten, IsFile, Exists
  <2>5. CASE open[r] # Absent
    <3>1. Runs(r, "write", "opened") /\ open[r] = op[r].path
      BY <2>5 DEF OpenIsWritten
    <3>2. IsFile(op[r].path) /\ files[op[r].path] \in File /\ files[op[r].path].data = "empty"
      BY <1>1, <2>5, <3>1 DEF OpenIsWritten, IsFile, Exists
    <3>3. /\ files'[op[r].path].data \in {"whole", "broken"}
          /\ \A x \in Path \ {op[r].path} : files'[x] = files[x]
      BY <1>1, <1>8, <2>5, <3>1, <3>2 DEF Fill, IoError, File
    <3>4. \A x \in Request : open'[x] # op[r].path
      BY <1>1, <1>6, <2>1, <3>1, AbsentAssumption DEF Runs
    <3>5. \A x \in Path \ {op[r].path} :
            (\E s \in Request : open'[s] = x) <=> (\E s \in Request : open[s] = x)
      BY <2>1, <3>1, AbsentAssumption
    <3>6. ASSUME NEW x \in Path, IsFile(x)'
          PROVE  IF \E s \in Request : open'[s] = x THEN files'[x].data = "empty"
                                                    ELSE files'[x].data \in {"whole", "broken"}
      BY <3>3, <3>4, <3>5, <3>6 DEF OpenIsWritten, IsFile, Exists
    <3>7. QED
      BY <2>3, <3>6 DEF OpenIsWritten
  <2>6. QED
    BY <2>4, <2>5
<1>9. QED
  BY <1>7, <1>8
\* A delete, a rename and a mkdir find nobody writing where they work.
LEMMA OpenMoveStep ==
  ASSUME TypeInv, Covers, OperationsExclude, OpenIsWritten,
         NEW r \in Request, Unlink(r) \/ Rename(r) \/ Mkdir(r)
  PROVE  OpenIsWritten'
<1> USE DEF TypeInv, TypeOK
<1>1. /\ op[r] # Absent /\ op[r] \in Op /\ op[r].path \in Path /\ op[r].to \in Path
      /\ op[r].do \in {"delete", "rename", "mkdir"}
  BY DEF Unlink, Rename, Mkdir, Runs, Op
<1>2. call[r] # Absent /\ Operate(r)
  BY <1>1 DEF Covers, AllBound, Bound, Operate
<1>3. op'[r] # Absent /\ op'[r].do = op[r].do
  BY <1>2, OperationKeeps
<1>4. \A x \in Request \ {r} : op'[x] = op[x]
  BY <1>2, OthersKeep
<1>5. ~Runs(r, "write", "opened") /\ ~Runs(r, "write", "opened")'
  BY <1>1, <1>3 DEF Runs
<1>6. op[r].do # "mkdir" =>
        \A x \in Request : open[x] # op[r].path /\ open[x] # op[r].to
  BY <1>1, <1>5, NobodyWrites DEF Works, PathsOf
<1>7. /\ \A x \in Request : open'[x] = open[x]
      /\ \A p \in Path : IsFile(p)' =>
           \/ IsFile(p) /\ files'[p] = files[p]
           \/ /\ files'[p].data \in {"whole", "broken"}
              /\ \A x \in Request : open[x] # p
  <2>1. CASE Unlink(r)
    <3>1. \A x \in Request : open[x] # op[r].path
      BY <1>6, <2>1 DEF Unlink, Runs
    <3>2. QED
      BY <1>1, <2>1, <3>1 DEF Unlink, IsFile, Exists
  <2>2. CASE Rename(r)
    <3>1. \A x \in Request : open[x] # op[r].path /\ open[x] # op[r].to
      BY <1>6, <2>2 DEF Rename, Runs
    <3>2. CASE UNCHANGED fileVars
      BY <3>2 DEF fileVars, IsFile, Exists
    <3>3. CASE Moves(op[r].path, op[r].to) /\ op[r].path # op[r].to
      <4> DEFINE p == op[r].path
                 q == op[r].to
      <4>1. \A x \in Request : open'[x] = open[x]
        BY <3>1, <3>3 DEF Moves
      <4>2. /\ files'[q] = files[p]
            /\ files'[p] = Absent
            /\ \A x \in Path \ {p, q} : files'[x] = files[x]
        BY <1>1, <3>3 DEF Moves
      <4>3. IsFile(p) => files[p].data \in {"whole", "broken"}
        BY <1>1, <3>1 DEF OpenIsWritten
      <4> HIDE DEF p, q
      <4>4. \A x \in Request : open[x] # q
        BY <3>1 DEF q
      <4>5. ASSUME NEW x \in Path, IsFile(x)'
            PROVE  \/ IsFile(x) /\ files'[x] = files[x]
                   \/ /\ files'[x].data \in {"whole", "broken"}
                      /\ \A y \in Request : open[y] # x
        BY <4>2, <4>3, <4>4, <4>5 DEF IsFile, Exists
      <4>6. QED
        BY <4>1, <4>5
    <3>4. QED
      BY <2>2, <3>2, <3>3 DEF Rename
  <2>3. CASE Mkdir(r)
    BY <1>1, <2>3 DEF Mkdir, IsFile, Exists
  <2>4. QED
    BY <2>1, <2>2, <2>3
<1>8. \A x \in Request :
        open'[x] # Absent => Runs(x, "write", "opened")' /\ open'[x] = op'[x].path
  BY <1>4, <1>5, <1>7, SameWriters
<1>9. ASSUME NEW p \in Path, IsFile(p)'
      PROVE  IF \E x \in Request : open'[x] = p THEN files'[p].data = "empty"
                                                ELSE files'[p].data \in {"whole", "broken"}
  <2>1. CASE IsFile(p) /\ files'[p] = files[p]
    BY <1>7, <2>1 DEF OpenIsWritten
  <2>2. CASE files'[p].data \in {"whole", "broken"} /\ \A x \in Request : open[x] # p
    BY <1>7, <2>2
  <2>3. QED
    BY <1>7, <1>9, <2>1, <2>2
<1>10. QED
  BY <1>8, <1>9 DEF OpenIsWritten

\* An operation other than a read changes no download.
LEMMA ReadsKept ==
  ASSUME TypeInv, Covers, DownloadIsWhole, NEW r \in Request, Operate(r), ~Read(r), ~Stat(r), ~Look(r)
  PROVE  DownloadIsWhole'
<1>1. op[r] # Absent /\ (op[r].do = "read" => op'[r].step # "ok")
  <2>1. CASE IoError(r)
    <3>1. op[r] # Absent /\ call[r] # Absent /\ op[r] \in Op
      BY <2>1 DEF IoError, Covers, AllBound, Bound, TypeInv, TypeOK
    <3>2. op'[r] = Error(r)
      BY <2>1, <3>1 DEF IoError, Ends, TypeInv, TypeOK
    <3>3. QED
      BY <3>1, <3>2 DEF Error, Op
  <2>2. CASE ~IoError(r)
    BY <2>2 DEF Operate, Open, Fill, Unlink, Rename, Mkdir, Runs
  <2>3. QED
    BY <2>1, <2>2
<1>2. call[r] # Absent
  BY <1>1 DEF Covers, AllBound, Bound
<1>3. op'[r].do = op[r].do /\ \A x \in Request \ {r} : op'[x] = op[x]
  BY <1>2, OperationKeeps, OthersKeep
<1>4. QED
  BY <1>1, <1>3 DEF DownloadIsWhole, Runs

\* Another process puts a whole file, or nothing, where it takes one away from
\* those who have it open.
LEMMA OpenOutsideStep ==
  ASSUME TypeInv, OpenIsWritten, DownloadIsWhole, NEW p \in Path, Outside(p)
  PROVE  OpenIsWritten' /\ DownloadIsWhole'
<1> USE DEF TypeInv, TypeOK
<1>1. /\ op' = op
      /\ \A x \in Path \ {p} : files'[x] = files[x]
      /\ files'[p] # Absent => files'[p].data = "whole"
  BY DEF Outside
<1>2. /\ \A r \in Request : open'[r] # Absent => open'[r] = open[r]
      /\ \A r \in Request : open'[r] # p
      /\ \A x \in Path \ {p}, r \in Request : open'[r] = x <=> open[r] = x
  BY AbsentAssumption DEF Outside
<1>3. OpenIsWritten'
  BY <1>1, <1>2 DEF OpenIsWritten, Runs, IsFile, Exists
<1>4. QED
  BY <1>1, <1>3 DEF DownloadIsWhole, Runs

\* A careful step keeps the files and their writers together.
LEMMA OpenStep ==
  ASSUME TypeInv, Covers, OperationsExclude, OpenIsWritten, DownloadIsWhole,
         [Next /\ Prompt]_vars
  PROVE  OpenIsWritten' /\ DownloadIsWhole'
<1>1. ASSUME NEW r \in Request, Operate(r) PROVE OpenIsWritten' /\ DownloadIsWhole'
  BY <1>1, OpenLookStep, OpenWriteStep, OpenMoveStep, ReadsKept DEF Operate
<1>2. ASSUME Prompt, NEW r \in Request,
             Client(r) \/ Handle(r)
      PROVE  OpenIsWritten' /\ DownloadIsWhole'
  BY <1>2, OpenHandlerStep DEF Covers
<1>3. CASE Time \/ UNCHANGED vars
  BY <1>3 DEF Time, vars, fileVars, OpenIsWritten, DownloadIsWhole, Runs, IsFile, Exists
<1>4. ASSUME NEW p \in Path, Outside(p) PROVE OpenIsWritten' /\ DownloadIsWhole'
  BY <1>4, OpenOutsideStep
<1>5. QED
  BY <1>1, <1>2, <1>3, <1>4 DEF Next

LEMMA FilesAreWritten == CarefulSpec => [](OpenIsWritten /\ DownloadIsWhole)
<1>1. Init => OpenIsWritten /\ DownloadIsWhole
  <2> SUFFICES ASSUME Init PROVE OpenIsWritten /\ DownloadIsWhole
    OBVIOUS
  <2>1. \A r \in Request : op[r] = Absent /\ open[r] = Absent
    BY DEF Init
  <2>2. \A p \in Path : IsFile(p) => files[p].data = "whole"
    BY DEF Init, IsFile, Exists
  <2>3. \A p \in Path, r \in Request : open[r] # p
    BY <2>1, AbsentAssumption
  <2>4. QED
    BY <2>1, <2>2, <2>3 DEF OpenIsWritten, DownloadIsWhole, Runs
<1>2. TypeInv /\ Covers /\ OperationsExclude /\ OpenIsWritten /\ DownloadIsWhole
        /\ [CarefulNext]_vars
      => (OpenIsWritten /\ DownloadIsWhole)'
  BY OpenStep DEF CarefulNext
<1>3. QED
  BY <1>1, <1>2, CarefulCovers, LocksCoverOperations, PTL DEF CarefulSpec

\* A download never gives the bytes of an upload that is still being written,
\* nor those of two uploads mixed.
THEOREM DownloadsAreWhole == CarefulSpec => []DownloadIsWhole
BY FilesAreWritten, PTL

\* A file that no write has open has all the bytes of one upload, or those of
\* one that failed.
THEOREM FilesAreSettled == CarefulSpec => []FilesSettle
<1>1. OpenIsWritten => FilesSettle
  BY DEF OpenIsWritten, FilesSettle
<1>2. QED
  BY <1>1, FilesAreWritten, PTL
----------------------------------------------------------------------------
(* Optimistic concurrency control.                                         *)

\* An operation changes files at its own paths only.
LEMMA ChangesOwnPaths ==
  ASSUME TypeInv, OpenIsWritten, NEW r \in Request, Operate(r),
         NEW p \in Path, p \notin PathsOf(op[r])
  PROVE  files'[p] = files[p]
<1> USE DEF TypeInv, TypeOK
<1>1. /\ op[r] # Absent
      /\ op[r].path \in Path /\ op[r].to \in Path
      /\ p # op[r].path /\ p # op[r].to
  BY DEF Operate, Stat, Read, Open, Fill, Look, Unlink, Rename, Mkdir, IoError,
     Runs, PathsOf, Op
<1>2. open[r] = Absent \/ open[r] = op[r].path
  BY DEF OpenIsWritten
<1>3. CASE Fill(r) \/ IoError(r)
  BY <1>1, <1>2, <1>3 DEF Fill, IoError
<1>4. CASE Stat(r) \/ Read(r) \/ Look(r)
  BY <1>4 DEF Stat, Read, Look, fileVars
<1>5. CASE Open(r) \/ Unlink(r) \/ Mkdir(r)
  BY <1>1, <1>5 DEF Open, Unlink, Mkdir
<1>6. CASE Rename(r)
  BY <1>1, <1>6 DEF Rename, Moves, fileVars
<1>7. QED
  BY <1>3, <1>4, <1>5, <1>6 DEF Operate

\* What an upload has looked at stays, until it writes: mkdir may make a
\* directory of nothing, and no other request comes near.
LEMMA PathKept ==
  ASSUME TypeInv, OperationsExclude, OpenIsWritten, NEW r \in Request, Operate(r),
         NEW x \in Request \ {r}, Works(x), op[x].do # "read",
         NEW p \in {op[x].path}
  PROVE  files'[p] = files[p] \/ (~Exists(p) /\ IsDir(p)')
<1>1. p \in Path /\ p \in PathsOf(op[x])
  BY DEF TypeInv, TypeOK, Works, Op, PathsOf
<1>2. CASE p \in PathsOf(op[r])
  <2>1. op[r] # Absent
    BY DEF Operate, Stat, Read, Open, Fill, Look, Unlink, Rename, Mkdir, IoError, Runs
  <2>2. ~Works(r)
    BY <1>1, <1>2 DEF OperationsExclude
  <2>3. op[r].do = "mkdir"
    BY <2>1, <2>2 DEF Works
  <2>4. open[r] = Absent
    BY <2>3 DEF OpenIsWritten, Runs
  <2>5. Mkdir(r) \/ IoError(r)
    BY <2>3 DEF Operate, Stat, Read, Open, Fill, Look, Unlink, Rename, Runs
  <2>6. CASE IoError(r)
    BY <2>4, <2>6 DEF IoError
  <2>7. CASE Mkdir(r)
    <3> DEFINE d == [dir |-> TRUE, stamp |-> clock, data |-> "empty"]
    <3>1. op[r].path \in Path
      BY <2>1 DEF TypeInv, TypeOK, Op
    <3>2. d \in File /\ d.dir
      BY DEF File, TypeInv, TypeOK, Locks!TypeOK
    <3>3. \/ files' = files
          \/ ~Exists(op[r].path) /\ files' = [files EXCEPT ![op[r].path] = d]
      BY <2>7 DEF Mkdir
    <3> HIDE DEF d
    <3>4. QED
      BY <1>1, <3>1, <3>2, <3>3, AbsentAssumption DEF TypeInv, TypeOK, IsDir, Exists
  <2>8. QED
    BY <2>5, <2>6, <2>7
<1>3. QED
  BY <1>1, <1>2, ChangesOwnPaths

\* What a step of its own makes of an operation.
LEMMA OperationEnds ==
  ASSUME TypeInv, Covers, NEW r \in Request, Operate(r)
  PROVE  /\ op[r] # Absent /\ call[r] # Absent /\ op'[r] # Absent
         /\ call'[r] = call[r]
         /\ op'[r].do = op[r].do /\ op'[r].path = op[r].path
         /\ op'[r].step # "queued"
         /\ op'[r].step = "opened" => Open(r)
         /\ op'[r].do = "stat" /\ op'[r].step = "ok" => Stat(r)
<1> USE DEF TypeInv, TypeOK
<1>1. op[r] # Absent /\ op[r] \in Op
  BY DEF Operate, Stat, Read, Open, Fill, Look, Unlink, Rename, Mkdir, IoError, Runs
<1>2. call[r] # Absent
  BY <1>1 DEF Covers, AllBound, Bound
<1>3. /\ op'[r] # Absent /\ UNCHANGED call
      /\ op'[r].do = op[r].do /\ op'[r].path = op[r].path
  BY <1>2, OperationKeeps
<1>4. CASE Open(r)
  <2>1. op'[r].step = "opened" /\ op[r].do = "write"
    BY <1>1, <1>4 DEF Open, Op, Runs
  <2>2. QED
    BY <1>1, <1>2, <1>3, <1>4, <2>1
<1>5. CASE IoError(r)
  <2>1. op'[r].step = "error"
    BY <1>1, <1>2, <1>5 DEF IoError, Ends, Error, Op
  <2>2. QED
    BY <1>1, <1>2, <1>3, <2>1
<1>6. CASE Stat(r)
  <2>1. op'[r].step = "ok"
    BY <1>1, <1>2, <1>6 DEF Stat, Ends, Ok, Op
  <2>2. QED
    BY <1>1, <1>2, <1>3, <1>6, <2>1
<1>7. CASE Read(r) \/ Fill(r) \/ Unlink(r) \/ Rename(r) \/ Mkdir(r)
  <2>1. op'[r].step \in {"ok", "error"}
    <3>1. Ok(r).step = "ok" /\ Error(r).step = "error"
      BY <1>1 DEF Ok, Error, Op
    <3>2. CASE Read(r)
      BY <1>1, <1>2, <3>1, <3>2 DEF Read, Ends, Ok, Op
    <3>3. CASE Fill(r) \/ Unlink(r) \/ Rename(r) \/ Mkdir(r)
      BY <1>2, <3>1, <3>3 DEF Fill, Unlink, Rename, Mkdir, Ends
    <3>4. QED
      BY <1>7, <3>2, <3>3
  <2>2. op[r].do # "stat"
    BY <1>7 DEF Read, Fill, Unlink, Rename, Mkdir, Runs
  <2>3. QED
    BY <1>1, <1>2, <1>3, <2>1, <2>2
<1>8. CASE Look(r)
  <2>1. op'[r].step \in {"ok", "saw_file", "saw_dir"}
    BY <1>1, <1>2, <1>8 DEF Look, Ends, Ok, Op
  <2>2. op[r].do # "stat"
    BY <1>8 DEF Look, Runs
  <2>3. QED
    BY <1>1, <1>2, <1>3, <2>1, <2>2
<1>9. QED
  BY <1>4, <1>5, <1>6, <1>7, <1>8 DEF Operate
\* A step of another request or process changes nothing that an upload has
\* found.
LEMMA FoundOtherStep ==
  ASSUME TypeInv, Covers, OperationsExclude, OpenIsWritten, Prompt, Undisturbed,
         NEW x \in Request, Expects(x), NEW p \in {op[x].path},
         \/ \E r \in Request \ {x} : Client(r) \/ Handle(r) \/ Operate(r)
         \/ \E q \in Path : Outside(q)
  PROVE  files'[p] = files[p] \/ (~Exists(p) /\ IsDir(p)')
<1>1. Works(x) /\ op[x].do # "read"
  BY DEF Expects, Runs, Works
<1>2. ASSUME NEW r \in Request \ {x}, Operate(r)
      PROVE  files'[p] = files[p] \/ (~Exists(p) /\ IsDir(p)')
  BY <1>1, <1>2, PathKept
<1>3. ASSUME NEW r \in Request \ {x}, Client(r) \/ Handle(r)
      PROVE  files'[p] = files[p]
  <2>1. UNCHANGED fileVars
    BY <1>3, HandlerOperation DEF Covers
  <2>2. QED
    BY <2>1 DEF fileVars
<1>4. ASSUME NEW q \in Path, Outside(q)
      PROVE  files'[p] = files[p]
  BY <1>4 DEF Outside, Undisturbed
<1>5. QED
  BY <1>2, <1>3, <1>4

\* A step of the operation itself: only a stat finds anything.
LEMMA FoundOperationStep ==
  ASSUME TypeInv, Covers, NEW r \in Request, Operate(r), IsFile(op[r].path)'
  PROVE  /\ Runs(r, "stat", "ok")' => op'[r].found = files'[op'[r].path].stamp
         /\ ~Runs(r, "write", "queued")'
<1> DEFINE p == op[r].path
<1>1. ~Runs(r, "write", "queued")' /\ op'[r].path = p
  BY OperationEnds DEF Runs
<1>2. ASSUME Runs(r, "stat", "ok")' PROVE op'[r].found = files'[p].stamp
  <2>1. Stat(r) /\ call[r] # Absent
    BY <1>2, OperationEnds DEF Runs
  <2>2. files' = files /\ Exists(p)
    BY <1>1, <2>1 DEF Stat, fileVars, IsFile, Exists
  <2>3. op[r] \in Op /\ op'[r] = [Ok(r) EXCEPT !.found = files[p].stamp]
    BY <2>1, <2>2 DEF Stat, Runs, Ends, TypeInv, TypeOK
  <2>4. QED
    BY <2>2, <2>3 DEF Ok, Op
<1>3. QED
  BY <1>1, <1>2

\* A step of the handler: it goes on to the write only after a stat that has
\* found what was expected, or nothing.
LEMMA FoundHandlerStep ==
  ASSUME TypeInv, Covers, FoundIsThere, Prompt, NEW r \in Request,
         Client(r) \/ Handle(r),
         Expects(r)', IsFile(op[r].path)'
  PROVE  /\ Runs(r, "stat", "ok")' => op'[r].found = files'[op'[r].path].stamp
         /\ Runs(r, "write", "queued")' => files'[op'[r].path].stamp = call'[r].expected
<1> USE DEF TypeInv, TypeOK
<1>1. UNCHANGED fileVars
  BY HandlerOperation DEF Covers
<1>2. CASE op'[r] = op[r] /\ (op[r] # Absent => call'[r] = call[r])
  <2>1. Expects(r)
    BY <1>2 DEF Expects, Runs
  <2>2. QED
    BY <1>1, <1>2, <2>1 DEF FoundIsThere, Expects, Runs, IsFile, Exists, fileVars
<1>3. CASE call[r] # Absent /\ call' = call /\ op'[r] = FirstOf(call[r])
  <2>1. call[r] \in Call /\ op'[r].step = "queued"
    BY <1>3, QueuedFits
  <2>2. op'[r].do = "write" => call[r].expected = Absent
    BY <1>3, <2>1 DEF FirstOf, WorkOf, Queued, Call, Kinds
  <2>3. QED
    BY <1>3, <2>1, <2>2 DEF Expects, Runs
<1>4. CASE op'[r] = WorkOf(call[r]) /\ BeginMkdir(r)
  <2>1. op'[r].do = "mkdir"
    BY <1>4 DEF BeginMkdir, WorkOf, Queued
  <2>2. QED
    BY <2>1 DEF Runs
<1>5. CASE op'[r] = WorkOf(call[r]) /\ Proceed(r)
  <2>1. /\ Runs(r, "stat", "ok") /\ ~Mismatch(r) /\ call' = call
        /\ call[r] \in Call /\ op[r] \in Op
    BY <1>5 DEF Proceed, Awaits, Runs
  <2>2. op'[r].step = "queued" /\ op'[r].path = call[r].path /\ op[r].path = call[r].path
    BY <1>5, <2>1 DEF WorkOf, Queued, Covers, AllBound, Bound, Fits, Runs
  <2>3. IsFile(op[r].path) /\ files' = files
    BY <1>1, <2>2 DEF IsFile, Exists, fileVars
  <2>4. op[r].found = files[op[r].path].stamp
    BY <2>1, <2>3 DEF FoundIsThere, Expects, Runs
  <2>5. files[op[r].path].stamp # Absent
    BY <2>1, <2>3, AbsentAssumption DEF IsFile, Exists, File, Op
  <2>6. files[op[r].path].stamp = call[r].expected
    BY <2>1, <2>4, <2>5 DEF Mismatch
  <2>7. QED
    BY <2>1, <2>2, <2>3, <2>6 DEF Runs
<1>6. op'[r] # Absent
  BY DEF Expects, Runs
<1>7. QED
  BY <1>2, <1>3, <1>4, <1>5, <1>6, HandlerOperation DEF Covers

LEMMA FoundStep ==
  ASSUME TypeInv, Covers, OperationsExclude, OpenIsWritten, FoundIsThere, [CarefulNext]_vars
  PROVE  FoundIsThere'
<1> USE DEF CarefulNext
<1> SUFFICES ASSUME NEW x \in Request, Expects(x)', IsFile(op[x].path)'
             PROVE  /\ Runs(x, "stat", "ok")' => op'[x].found = files'[op'[x].path].stamp
                    /\ Runs(x, "write", "queued")' => files'[op'[x].path].stamp = call'[x].expected
  BY DEF FoundIsThere
<1>1. CASE Time \/ UNCHANGED vars
  BY <1>1 DEF Time, vars, fileVars, FoundIsThere, Expects, Runs, IsFile, Exists
<1>2. ASSUME Prompt, Undisturbed, op'[x] = op[x], call'[x] = call[x],
             \/ \E r \in Request \ {x} : Client(r) \/ Handle(r) \/ Operate(r)
             \/ \E q \in Path : Outside(q)
      PROVE  /\ Runs(x, "stat", "ok")' => op'[x].found = files'[op'[x].path].stamp
             /\ Runs(x, "write", "queued")' => files'[op'[x].path].stamp = call'[x].expected
  <2>1. Expects(x)
    BY <1>2 DEF Expects, Runs
  <2>2. files'[op[x].path] = files[op[x].path]
    BY <1>2, <2>1, FoundOtherStep DEF IsFile, IsDir
  <2>3. IsFile(op[x].path)
    BY <1>2, <2>2 DEF IsFile, Exists
  <2>4. QED
    BY <1>2, <2>1, <2>2, <2>3 DEF FoundIsThere, Runs
<1>3. ASSUME Prompt, Undisturbed, NEW r \in Request, Client(r) \/ Handle(r) \/ Operate(r), x # r
      PROVE  op'[x] = op[x] /\ call'[x] = call[x]
  BY <1>3, OthersKeep
<1>4. ASSUME NEW q \in Path, Outside(q) PROVE op'[x] = op[x] /\ call'[x] = call[x]
  BY <1>4 DEF Outside
<1>5. ASSUME Prompt, Client(x) \/ Handle(x)
      PROVE  /\ Runs(x, "stat", "ok")' => op'[x].found = files'[op'[x].path].stamp
             /\ Runs(x, "write", "queued")' => files'[op'[x].path].stamp = call'[x].expected
  BY <1>5, FoundHandlerStep
<1>6. ASSUME Operate(x)
      PROVE  /\ Runs(x, "stat", "ok")' => op'[x].found = files'[op'[x].path].stamp
             /\ Runs(x, "write", "queued")' => files'[op'[x].path].stamp = call'[x].expected
  BY <1>6, FoundOperationStep, OperationEnds
<1>7. QED
  BY <1>1, <1>2, <1>3, <1>4, <1>5, <1>6 DEF Next

\* A careful step changes the path of an upload that has looked at its file only
\* by the upload's own write, of a file with the time that was expected, or by
\* making a directory of nothing.
LEMMA ExpectationStep ==
  ASSUME TypeInv, Covers, OperationsExclude, OpenIsWritten, FoundIsThere, [CarefulNext]_vars,
         NEW r \in Request, Expects(r), NEW p \in {op[r].path}
  PROVE  /\ Opens(r) /\ Exists(p) => files[p].stamp = call[r].expected
         /\ files'[p] # files[p] /\ ~Opens(r) => ~Exists(p) /\ IsDir(p)'
<1> USE DEF CarefulNext
<1>1. CASE Time \/ UNCHANGED vars
  <2>1. files' = files /\ op' = op
    BY <1>1 DEF Time, vars, fileVars
  <2>2. ~Opens(r)
    BY <2>1 DEF Opens, Expects, Runs
  <2>3. QED
    BY <2>1, <2>2
<1>2. ASSUME Prompt, Undisturbed,
             \/ \E q \in Request \ {r} : Client(q) \/ Handle(q) \/ Operate(q)
             \/ \E q \in Path : Outside(q)
      PROVE  ~Opens(r) /\ (files'[p] = files[p] \/ (~Exists(p) /\ IsDir(p)'))
  <2>1. op'[r] = op[r]
    BY <1>2, OthersKeep DEF Outside
  <2>2. ~Opens(r)
    BY <2>1 DEF Opens, Expects, Runs
  <2>3. QED
    BY <1>2, <2>2, FoundOtherStep
<1>3. ASSUME Prompt, Client(r) \/ Handle(r)
      PROVE  ~Opens(r) /\ files'[p] = files[p]
  <2>1. UNCHANGED fileVars
    BY <1>3, HandlerOperation DEF Covers
  <2>2. call[r] # Absent => call[r] \in Call
    BY DEF TypeInv, TypeOK
  <2>3. op'[r] = op[r] \/ op'[r] = Absent \/ op'[r].step = "queued"
    BY <1>3, <2>2, HandlerOperation, QueuedFits DEF Covers
  <2>4. ~Opens(r)
    BY <2>3 DEF Opens, Expects, Runs
  <2>5. QED
    BY <2>1, <2>4 DEF fileVars
<1>4. CASE Operate(r)
  <2>1. open[r] = Absent
    BY DEF OpenIsWritten, Expects, Runs
  <2>2. Open(r) \/ IoError(r) \/ files' = files
    BY <1>4 DEF Operate, Stat, Read, Fill, Look, Unlink, Rename, Mkdir, Expects, Runs, fileVars
  <2>3. CASE Open(r)
    <3>1. Runs(r, "write", "queued") /\ (Exists(p) => IsFile(p))
      BY <2>3 DEF Open, IsFile, IsDir
    <3>2. op[r] \in Op /\ op'[r] = [op[r] EXCEPT !.step = "opened"]
      BY <2>3, <3>1 DEF Open, Runs, TypeInv, TypeOK
    <3>3. Opens(r)
      BY <3>2, OperationEnds, <1>4 DEF Opens, Op
    <3>4. QED
      BY <3>1, <3>3 DEF FoundIsThere
  <2>4. CASE ~Open(r)
    <3>1. ~Opens(r)
      BY <1>4, <2>4, OperationEnds DEF Opens
    <3>2. files' = files
      BY <2>1, <2>2, <2>4 DEF IoError
    <3>3. QED
      BY <3>1, <3>2
  <2>5. QED
    BY <2>3, <2>4
<1>5. QED
  BY <1>1, <1>2, <1>3, <1>4 DEF Next

\* From the look of an upload at its file until its own write opens it nobody
\* touches the path, and what the write truncates has the time that the client
\* expected.
THEOREM ExpectationsHold == CarefulSpec => ExpectationHolds
<1>1. Init => FoundIsThere
  BY DEF Init, FoundIsThere, Expects, Runs
<1>2. TypeInv /\ Covers /\ OperationsExclude /\ OpenIsWritten /\ FoundIsThere
        /\ [CarefulNext]_vars
      => FoundIsThere'
  BY FoundStep
<1> DEFINE Held ==
      \A r \in Request : \A p \in Path :
        Expects(r) /\ op[r].path = p =>
          /\ Opens(r) /\ Exists(p) => files[p].stamp = call[r].expected
          /\ files'[p] # files[p] /\ ~Opens(r) => ~Exists(p) /\ IsDir(p)'
<1>3. TypeInv /\ Covers /\ OperationsExclude /\ OpenIsWritten /\ FoundIsThere
        /\ [CarefulNext]_vars
      => Held
  BY ExpectationStep
<1>4. QED
  BY <1>1, <1>2, <1>3, CarefulCovers, LocksCoverOperations, FilesAreWritten, PTL
  DEF CarefulSpec, ExpectationHolds
=============================================================================
