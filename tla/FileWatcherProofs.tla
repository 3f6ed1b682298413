------------------------- MODULE FileWatcherProofs -------------------------
(* Theorems about FileWatcher, for all streams, directories and threads.   *)
EXTENDS FileWatcher, FiniteSetTheorems, TLAPS

----------------------------------------------------------------------------
(* Type correctness.                                                       *)

\* A count stays a usize: both fetch_add and fetch_sub wrap around.
LEMMA CountType ==
  ASSUME NEW n \in 0 .. UsizeMax
  PROVE  Joined(n) \in 0 .. UsizeMax /\ Left(n) \in 0 .. UsizeMax
BY UsizeAssumption DEF Joined, Left

\* Every reachable state has its type, whatever the clients do.
THEOREM TypeCorrect == Spec => []TypeOK
<1>1. Init => TypeOK
  BY UsizeAssumption DEF Init, TypeOK
<1>2. TypeOK /\ [Next]_vars => TypeOK'
  <2> SUFFICES ASSUME TypeOK, [Next]_vars PROVE TypeOK'
    OBVIOUS
  <2> USE DEF TypeOK
  <2>1. ASSUME NEW c \in Stream, NEW d \in Dir, Join(c, d) PROVE TypeOK'
    <3>1. Joined(count[watches[d]]) \in 0 .. UsizeMax
      BY <2>1, CountType DEF Join
    <3>2. [state |-> "open", dir |-> d, watch |-> watches[d]] \in OpenStream
      BY <2>1 DEF Join, OpenStream
    <3>3. QED
      BY <2>1, <3>1, <3>2 DEF Join
  <2>2. ASSUME NEW c \in Stream, NEW d \in Dir, NEW w \in Watch, Create(c, d, w)
        PROVE  TypeOK'
    <3>1. Joined(0) \in 0 .. UsizeMax
      BY CountType, UsizeAssumption
    <3>2. /\ [state |-> "open", dir |-> d, watch |-> w] \in OpenStream
          /\ [state |-> "polling", dir |-> d] \in Task
      BY DEF OpenStream, Task
    <3>3. QED
      BY <2>2, <3>1, <3>2 DEF Create
  <2>3. ASSUME NEW c \in Stream, Unsubscribe(c) PROVE TypeOK'
    <3>1. stream[c] \in OpenStream /\ [stream[c] EXCEPT !.state = "removing"] \in OpenStream
      BY <2>3 DEF Unsubscribe, Open, OpenStream
    <3>2. stream' \in [Stream -> OpenStream \cup {Absent}]
      BY <2>3, <3>1 DEF Unsubscribe
    <3>3. count' \in [Watch -> 0 .. UsizeMax]
      BY <2>3, CountType DEF Unsubscribe
    <3>4. QED
      BY <2>3, <3>2, <3>3 DEF Unsubscribe
  <2>4. ASSUME NEW c \in Stream, RemoveWatch(c) PROVE TypeOK'
    BY <2>4 DEF RemoveWatch, Without
  <2>5. ASSUME NEW w \in Watch, Wake(w) PROVE TypeOK'
    <3>1. task[w] \in Task /\ [task[w] EXCEPT !.state = "leaving"] \in Task
      BY <2>5 DEF Wake, Polling, Alive, Task
    <3>2. QED
      BY <2>5, <3>1 DEF Wake
  <2>6. ASSUME NEW w \in Watch, Exit(w) PROVE TypeOK'
    BY <2>6 DEF Exit, Without
  <2>7. CASE UNCHANGED vars
    BY <2>7 DEF vars
  <2>8. QED
    BY <2>1, <2>2, <2>3, <2>4, <2>5, <2>6, <2>7 DEF Next, Poll
<1>3. QED
  BY <1>1, <1>2, PTL DEF Spec

----------------------------------------------------------------------------
(* Any number of threads, any clients.                                     *)

\* Every watch in the map is polled.  A task that exits takes its own key
\* along: if its watch is in the map at all, it is under its own directory.
THEOREM EntriesArePolled == Spec => []EntryIsPolled
<1>1. Init => EntryIsPolled
  BY DEF Init, EntryIsPolled
<1>2. TypeOK /\ EntryIsPolled /\ [Next]_vars => EntryIsPolled'
  <2> SUFFICES ASSUME TypeOK, EntryIsPolled, [Next]_vars PROVE EntryIsPolled'
    OBVIOUS
  <2> USE DEF EntryIsPolled, Alive, TypeOK
  <2>1. ASSUME NEW c \in Stream, NEW d \in Dir, Join(c, d) PROVE EntryIsPolled'
    BY <2>1 DEF Join
  <2>2. ASSUME NEW c \in Stream, NEW d \in Dir, NEW w \in Watch, Create(c, d, w)
        PROVE  EntryIsPolled'
    <3>1. task'[w] = [state |-> "polling", dir |-> d] /\ task'[w] # Absent
      BY <2>2, AbsentAssumption DEF Create, Task
    <3>2. QED
      BY <2>2, <3>1 DEF Create, Unused
  <2>3. ASSUME NEW c \in Stream, Unsubscribe(c) PROVE EntryIsPolled'
    BY <2>3 DEF Unsubscribe
  <2>4. ASSUME NEW c \in Stream, RemoveWatch(c) PROVE EntryIsPolled'
    BY <2>4 DEF RemoveWatch, Without
  <2>5. ASSUME NEW w \in Watch, Wake(w) PROVE EntryIsPolled'
    <3>1. task[w] \in Task
      BY <2>5 DEF Wake, Polling
    <3>2. task'[w].dir = task[w].dir /\ task'[w] \in Task
      BY <2>5, <3>1 DEF Wake, Task
    <3>3. QED
      BY <2>5, <3>2, AbsentAssumption DEF Wake
  <2>6. ASSUME NEW w \in Watch, Exit(w) PROVE EntryIsPolled'
    <3>1. \A d \in DOMAIN watches' :
            d \in DOMAIN watches /\ watches'[d] = watches[d] /\ d # task[w].dir
      BY <2>6 DEF Exit, Without
    <3>2. \A d \in DOMAIN watches' : watches[d] # w
      BY <3>1
    <3>3. QED
      BY <2>6, <3>1, <3>2 DEF Exit
  <2>7. CASE UNCHANGED vars
    BY <2>7 DEF vars
  <2>8. QED
    BY <2>1, <2>2, <2>3, <2>4, <2>5, <2>6, <2>7 DEF Next, Poll
<1>3. QED
  BY <1>1, <1>2, TypeCorrect, PTL DEF Spec

----------------------------------------------------------------------------
(* Patient clients, any number of threads.                                 *)

\* A task that leaves, and a stream that removes the key of its directory, do
\* so for a watch that nobody is attached to; and there is one task for each
\* directory.  These facts carry CountsAttached and SubscriberIsServed over
\* the gaps between the two accesses of unsubscribe and of the task's exit.
LeavingIsEmpty == \A w \in Watch : Leaving(w) => count[w] = 0

OneTaskPerDir ==
  \A v, w \in Watch :
    Alive(v) /\ Alive(w) /\ task[v].dir = task[w].dir => v = w

RemovingIsEmpty ==
  \A c \in Stream, w \in Watch :
    Removing(c) /\ Alive(w) /\ task[w].dir = stream[c].dir => count[w] = 0

ServedInDir ==
  \A c \in Stream :
    Open(c) => /\ stream[c].dir \in DOMAIN watches
               /\ watches[stream[c].dir] = stream[c].watch

PatientInv ==
  /\ CountsAttached
  /\ ServedInDir
  /\ LeavingIsEmpty
  /\ OneTaskPerDir
  /\ RemovingIsEmpty

\* The streams attached to a watch are finitely many, and a stream more or
\* less changes their number by one.
LEMMA AttachedFinite ==
  ASSUME NEW w \in Watch
  PROVE  /\ IsFiniteSet(Attached(w))
         /\ Cardinality(Attached(w)) \in Nat
         /\ Cardinality(Attached(w)) <= Cardinality(Stream)
         /\ Cardinality(Attached(w)) = 0 <=> Attached(w) = {}
<1>1. Attached(w) \subseteq Stream
  BY DEF Attached
<1>2. QED
  BY <1>1, StreamAssumption, FS_Subset, FS_CardinalityType, FS_EmptySet

LEMMA OneMore ==
  ASSUME NEW w \in Watch, NEW c \in Stream, c \notin Attached(w),
         Attached(w)' = Attached(w) \cup {c}
  PROVE  /\ Cardinality(Attached(w))' = Cardinality(Attached(w)) + 1
         /\ Cardinality(Attached(w)) < UsizeMax
<1>1. Cardinality(Attached(w))' = Cardinality(Attached(w)) + 1
  BY AttachedFinite, FS_AddElement
<1>2. Attached(w) \cup {c} \subseteq Stream
  BY DEF Attached
<1>3. Cardinality(Attached(w) \cup {c}) <= Cardinality(Stream)
  BY <1>2, StreamAssumption, FS_Subset
<1>4. Cardinality(Stream) \in Nat
  BY StreamAssumption, FS_CardinalityType
<1>5. QED
  BY <1>1, <1>3, <1>4, AttachedFinite, UsizeAssumption

LEMMA OneLess ==
  ASSUME NEW w \in Watch, NEW c \in Attached(w),
         Attached(w)' = Attached(w) \ {c}
  PROVE  /\ Cardinality(Attached(w)) >= 1
         /\ Cardinality(Attached(w))' = Cardinality(Attached(w)) - 1
<1>1. Cardinality(Attached(w))' = Cardinality(Attached(w)) - 1
  BY AttachedFinite, FS_RemoveElement
<1>2. Attached(w) # {}
  OBVIOUS
<1>3. QED
  BY <1>1, <1>2, AttachedFinite

\* The steps of Next, one lemma each where the count or the map changes.
LEMMA PatientJoin ==
  ASSUME TypeOK, EntryIsPolled, PatientInv,
         NEW c \in Stream, NEW d \in Dir, Join(c, d), Settled(d)
  PROVE  PatientInv'
<1>0. PICK w \in Watch : w = watches[d]
  BY DEF Join, TypeOK
<1>1. Alive(w) /\ task[w].dir = d /\ d \in DOMAIN watches
  BY <1>0 DEF Join, EntryIsPolled
<1>2. [state |-> "open", dir |-> d, watch |-> w] # Absent
  BY AbsentAssumption DEF OpenStream
<1>3. /\ stream[c] = Absent
      /\ stream' = [stream EXCEPT ![c] = [state |-> "open", dir |-> d, watch |-> w]]
      /\ watches' = watches /\ task' = task
      /\ count' = [count EXCEPT ![w] = Joined(count[w])]
  BY <1>0 DEF Join
<1>4. /\ Open(c)' /\ stream'[c].dir = d /\ stream'[c].watch = w /\ ~Removing(c)'
      /\ \A e \in Stream : e # c => stream'[e] = stream[e]
  BY <1>2, <1>3 DEF Open, Removing, TypeOK
<1>5. /\ c \notin Attached(w)
      /\ Attached(w)' = Attached(w) \cup {c}
      /\ \A v \in Watch : v # w => Attached(v)' = Attached(v)
  BY <1>3, <1>4 DEF Attached, Open
<1>6. Cardinality(Attached(w))' = count[w] + 1 /\ count[w] < UsizeMax
  BY <1>1, <1>5, OneMore DEF PatientInv, CountsAttached
<1>7. count'[w] = count[w] + 1 /\ \A v \in Watch : v # w => count'[v] = count[v]
  BY <1>1, <1>3, <1>6, UsizeAssumption DEF Joined, TypeOK
<1>8. CountsAttached'
  <2> SUFFICES ASSUME NEW v \in Watch, Alive(v)
               PROVE  count'[v] = Cardinality(Attached(v))'
    BY <1>3 DEF CountsAttached, Alive
  <2>1. v # w => Cardinality(Attached(v))' = Cardinality(Attached(v))
    BY <1>5
  <2>2. QED
    BY <1>6, <1>7, <2>1 DEF PatientInv, CountsAttached
<1>9. ServedInDir'
  BY <1>0, <1>1, <1>3, <1>4 DEF PatientInv, ServedInDir, Open
<1>10. count[w] # 0
  BY <1>1 DEF Settled
<1>11. LeavingIsEmpty'
  BY <1>3, <1>7, <1>10 DEF PatientInv, LeavingIsEmpty, Leaving, Alive
<1>12. OneTaskPerDir'
  BY <1>3 DEF PatientInv, OneTaskPerDir, Alive
<1>13. RemovingIsEmpty'
  BY <1>1, <1>3, <1>4, <1>7, <1>10 DEF PatientInv, RemovingIsEmpty, Removing, Alive
<1>14. QED
  BY <1>8, <1>9, <1>11, <1>12, <1>13 DEF PatientInv

LEMMA PatientCreate ==
  ASSUME TypeOK, EntryIsPolled, PatientInv,
         NEW c \in Stream, NEW d \in Dir, NEW w \in Watch,
         Create(c, d, w), Settled(d)
  PROVE  PatientInv'
<1>1. /\ [state |-> "open", dir |-> d, watch |-> w] # Absent
      /\ [state |-> "polling", dir |-> d] # Absent
  BY AbsentAssumption DEF OpenStream, Task
<1>2. /\ stream[c] = Absent /\ d \notin DOMAIN watches /\ Unused(w)
      /\ stream' = [stream EXCEPT ![c] = [state |-> "open", dir |-> d, watch |-> w]]
      /\ DOMAIN watches' = DOMAIN watches \cup {d}
      /\ watches'[d] = w
      /\ \A e \in DOMAIN watches : watches'[e] = watches[e]
      /\ task'[w] = [state |-> "polling", dir |-> d]
      /\ \A v \in Watch : v # w => task'[v] = task[v] /\ count'[v] = count[v]
      /\ count'[w] = Joined(0)
  BY DEF Create, TypeOK
<1>3. /\ Open(c)' /\ stream'[c].dir = d /\ stream'[c].watch = w /\ ~Removing(c)'
      /\ \A e \in Stream : e # c => stream'[e] = stream[e]
      /\ Alive(w)' /\ task'[w].dir = d /\ ~Leaving(w)'
      /\ \A v \in Watch : v # w => (Alive(v)' <=> Alive(v)) /\ (Leaving(v)' <=> Leaving(v))
  BY <1>1, <1>2 DEF Open, Removing, Alive, Leaving, TypeOK
<1>4. /\ c \notin Attached(w)
      /\ Attached(w) = {}
      /\ Attached(w)' = Attached(w) \cup {c}
      /\ \A v \in Watch : v # w => Attached(v)' = Attached(v)
  BY <1>2, <1>3 DEF Attached, Open, Unused
<1>5. count'[w] = 1 /\ Cardinality(Attached(w))' = 1
  <2>1. Cardinality(Attached(w)) = 0
    BY <1>4, FS_EmptySet
  <2>2. Cardinality(Attached(w))' = 1 /\ 0 < UsizeMax
    BY <1>4, <2>1, OneMore
  <2>3. QED
    BY <1>2, <2>2, UsizeAssumption DEF Joined
<1>6. \A v \in Watch : Alive(v) => task[v].dir # d
  <2> SUFFICES ASSUME NEW v \in Watch, Alive(v), task[v].dir = d PROVE FALSE
    OBVIOUS
  <2>1. count[v] # 0
    BY DEF Settled
  <2>2. PICK e \in Attached(v) : TRUE
    BY <2>1, AttachedFinite DEF PatientInv, CountsAttached
  <2>3. /\ stream[e].dir \in DOMAIN watches
        /\ watches[stream[e].dir] = v
    BY <2>2 DEF Attached, PatientInv, ServedInDir
  <2>4. task[v].dir = stream[e].dir
    BY <2>3 DEF EntryIsPolled
  <2>5. QED
    BY <1>2, <2>3, <2>4
<1>7. CountsAttached'
  <2> SUFFICES ASSUME NEW v \in Watch, Alive(v)'
               PROVE  count'[v] = Cardinality(Attached(v))'
    BY DEF CountsAttached
  <2>1. CASE v = w
    BY <1>5, <2>1
  <2>2. CASE v # w
    <3>1. Cardinality(Attached(v))' = Cardinality(Attached(v))
      BY <1>4, <2>2
    <3>2. QED
      BY <1>2, <1>3, <2>2, <3>1 DEF PatientInv, CountsAttached
  <2>3. QED
    BY <2>1, <2>2
<1>8. ServedInDir'
  BY <1>2, <1>3 DEF PatientInv, ServedInDir, Open
<1>9. LeavingIsEmpty'
  BY <1>2, <1>3 DEF PatientInv, LeavingIsEmpty
<1>10. OneTaskPerDir'
  BY <1>2, <1>3, <1>6 DEF PatientInv, OneTaskPerDir
<1>11. RemovingIsEmpty'
  <2>1. \A e \in Stream : Removing(e)' => Removing(e) /\ stream'[e] = stream[e]
    BY <1>3 DEF Removing
  <2>2. QED
    BY <1>2, <1>3, <2>1 DEF PatientInv, RemovingIsEmpty, Settled
<1>12. QED
  BY <1>7, <1>8, <1>9, <1>10, <1>11 DEF PatientInv

LEMMA PatientUnsubscribe ==
  ASSUME TypeOK, EntryIsPolled, PatientInv, NEW c \in Stream, Unsubscribe(c)
  PROVE  PatientInv'
<1>a. Open(c) /\ stream[c] \in OpenStream
  BY DEF Unsubscribe, Open, TypeOK
<1>b. PICK d \in Dir, w \in Watch : d = stream[c].dir /\ w = stream[c].watch
  BY <1>a DEF OpenStream
<1>1. /\ Open(c) /\ d \in DOMAIN watches /\ w = watches[d]
      /\ Alive(w) /\ task[w].dir = d
      /\ stream[c].dir = d /\ stream[c].watch = w
      /\ stream[c] \in OpenStream
  BY <1>a, <1>b DEF PatientInv, ServedInDir, EntryIsPolled
<1>2. /\ watches' = watches /\ task' = task
      /\ count' = [count EXCEPT ![w] = Left(count[w])]
      /\ stream' = [stream EXCEPT ![c] =
                      IF IsLast(count[w]) THEN [stream[c] EXCEPT !.state = "removing"]
                                          ELSE Absent]
  BY <1>1 DEF Unsubscribe
<1>3. /\ ~Open(c)'
      /\ Removing(c)' => IsLast(count[w]) /\ stream'[c].dir = d
      /\ \A e \in Stream : e # c => stream'[e] = stream[e]
  BY <1>1, <1>2 DEF Open, Removing, TypeOK, OpenStream
<1>4. /\ c \in Attached(w)
      /\ Attached(w)' = Attached(w) \ {c}
      /\ \A v \in Watch : v # w => Attached(v)' = Attached(v)
  BY <1>1, <1>3 DEF Attached, Open
<1>5. count[w] >= 1 /\ Cardinality(Attached(w))' = count[w] - 1
  BY <1>1, <1>4, OneLess DEF PatientInv, CountsAttached
<1>6. /\ count[w] \in Nat
      /\ count'[w] = count[w] - 1
      /\ \A v \in Watch : v # w => count'[v] = count[v]
  BY <1>1, <1>2, <1>5, UsizeAssumption DEF Left, TypeOK
<1>7. CountsAttached'
  <2> SUFFICES ASSUME NEW v \in Watch, Alive(v)
               PROVE  count'[v] = Cardinality(Attached(v))'
    BY <1>2 DEF CountsAttached, Alive
  <2>1. v # w => Cardinality(Attached(v))' = Cardinality(Attached(v))
    BY <1>4
  <2>2. QED
    BY <1>5, <1>6, <2>1 DEF PatientInv, CountsAttached
<1>8. ServedInDir'
  BY <1>2, <1>3 DEF PatientInv, ServedInDir, Open
<1>9. count[w] # 0
  BY <1>5, <1>6
<1>10. LeavingIsEmpty'
  BY <1>1, <1>2, <1>6, <1>9 DEF PatientInv, LeavingIsEmpty, Leaving, Alive
<1>11. OneTaskPerDir'
  BY <1>2 DEF PatientInv, OneTaskPerDir, Alive
<1>12. RemovingIsEmpty'
  <2> SUFFICES ASSUME NEW e \in Stream, NEW v \in Watch,
                      Removing(e)', Alive(v), task[v].dir = stream'[e].dir
               PROVE  count'[v] = 0
    BY <1>2 DEF RemovingIsEmpty, Alive
  <2>1. CASE e = c
    <3>1. v = w
      BY <1>1, <1>3, <2>1 DEF PatientInv, OneTaskPerDir
    <3>2. count[w] <= 1
      BY <1>3, <2>1 DEF IsLast
    <3>3. QED
      BY <1>5, <1>6, <3>1, <3>2
  <2>2. CASE e # c
    <3>1. count[v] = 0
      BY <1>3, <2>2 DEF PatientInv, RemovingIsEmpty, Removing
    <3>2. QED
      BY <1>6, <1>9, <3>1
  <2>3. QED
    BY <2>1, <2>2
<1>13. QED
  BY <1>7, <1>8, <1>10, <1>11, <1>12 DEF PatientInv

\* A key whose watch nobody is attached to goes, and a task with it perhaps.
LEMMA PatientRemoval ==
  ASSUME TypeOK, EntryIsPolled, PatientInv, NEW d \in Dir,
         \A w \in Watch : Alive(w) /\ task[w].dir = d => count[w] = 0,
         watches' = Without(d), count' = count,
         \A w \in Watch : task'[w] = task[w] \/ task'[w] = Absent,
         \A c \in Stream : stream'[c] = stream[c] \/ (stream'[c] = Absent /\ ~Open(c))
  PROVE  PatientInv'
<1>1. \A w \in Watch : Alive(w)' => Alive(w) /\ task'[w] = task[w]
  BY DEF Alive
<1>2. \A c \in Stream : /\ Open(c)' <=> Open(c)
                        /\ Open(c)' => stream'[c] = stream[c]
                        /\ Removing(c)' => Removing(c) /\ stream'[c] = stream[c]
  BY DEF Open, Removing
<1>3. \A w \in Watch : Attached(w)' = Attached(w)
  BY <1>2 DEF Attached
<1>4. CountsAttached'
  <2> SUFFICES ASSUME NEW w \in Watch, Alive(w)'
               PROVE  count[w] = Cardinality(Attached(w))'
    BY DEF CountsAttached
  <2>1. Cardinality(Attached(w))' = Cardinality(Attached(w))
    BY <1>3
  <2>2. QED
    BY <1>1, <2>1 DEF PatientInv, CountsAttached
<1>5. ServedInDir'
  <2> SUFFICES ASSUME NEW c \in Stream, Open(c)
               PROVE  /\ stream[c].dir \in DOMAIN watches'
                      /\ watches'[stream[c].dir] = stream[c].watch
    BY <1>2 DEF ServedInDir
  <2>1. /\ stream[c].dir \in DOMAIN watches
        /\ watches[stream[c].dir] = stream[c].watch
        /\ stream[c].watch \in Watch
    BY DEF PatientInv, ServedInDir, TypeOK
  <2>2. Alive(stream[c].watch) /\ task[stream[c].watch].dir = stream[c].dir
    BY <2>1 DEF EntryIsPolled
  <2>3. c \in Attached(stream[c].watch)
    BY DEF Attached
  <2>4. count[stream[c].watch] # 0
    BY <2>1, <2>2, <2>3, AttachedFinite DEF PatientInv, CountsAttached
  <2>5. stream[c].dir # d
    BY <2>1, <2>2, <2>4
  <2>6. QED
    BY <2>1, <2>5 DEF Without
<1>6. LeavingIsEmpty'
  BY <1>1 DEF PatientInv, LeavingIsEmpty, Leaving
<1>7. OneTaskPerDir'
  BY <1>1 DEF PatientInv, OneTaskPerDir
<1>8. RemovingIsEmpty'
  BY <1>1, <1>2 DEF PatientInv, RemovingIsEmpty
<1>9. QED
  BY <1>4, <1>5, <1>6, <1>7, <1>8 DEF PatientInv

\* One step of patient clients keeps the invariant.
LEMMA PatientStep ==
  ASSUME TypeOK, EntryIsPolled, PatientInv, [PatientNext]_vars
  PROVE  PatientInv'
<1>1. ASSUME NEW c \in Stream, NEW d \in Dir, Join(c, d), Patient PROVE PatientInv'
  <2>1. stream[c] = Absent /\ stream'[c] # Absent /\ stream'[c].dir = d
    <3>1. [state |-> "open", dir |-> d, watch |-> watches[d]] # Absent
      BY <1>1, AbsentAssumption DEF Join, OpenStream, TypeOK
    <3>2. QED
      BY <1>1, <3>1 DEF Join, TypeOK
  <2>2. QED
    BY <1>1, <2>1, PatientJoin DEF Patient
<1>2. ASSUME NEW c \in Stream, NEW d \in Dir, NEW w \in Watch, Create(c, d, w), Patient
      PROVE  PatientInv'
  <2>1. stream[c] = Absent /\ stream'[c] # Absent /\ stream'[c].dir = d
    <3>1. [state |-> "open", dir |-> d, watch |-> w] # Absent
      BY AbsentAssumption DEF OpenStream
    <3>2. QED
      BY <1>2, <3>1 DEF Create, TypeOK
  <2>2. QED
    BY <1>2, <2>1, PatientCreate DEF Patient
<1>3. ASSUME NEW c \in Stream, Unsubscribe(c) PROVE PatientInv'
  BY <1>3, PatientUnsubscribe
<1>4. ASSUME NEW c \in Stream, RemoveWatch(c) PROVE PatientInv'
  <2>1. PICK d \in Dir : d = stream[c].dir
    BY <1>4 DEF RemoveWatch, Removing, TypeOK, OpenStream
  <2>2. \A w \in Watch : Alive(w) /\ task[w].dir = d => count[w] = 0
    BY <1>4, <2>1 DEF RemoveWatch, PatientInv, RemovingIsEmpty
  <2>3. /\ watches' = Without(d) /\ count' = count /\ task' = task
        /\ stream' = [stream EXCEPT ![c] = Absent] /\ ~Open(c)
    BY <1>4, <2>1 DEF RemoveWatch, Removing, Open
  <2>4. \A e \in Stream :
          stream'[e] = stream[e] \/ (stream'[e] = Absent /\ ~Open(e))
    BY <2>3 DEF TypeOK
  <2>5. QED
    BY <2>2, <2>3, <2>4, PatientRemoval
<1>5. ASSUME NEW w \in Watch, Wake(w) PROVE PatientInv'
  <2>1. /\ Polling(w) /\ count[w] = 0 /\ task[w] \in Task
        /\ task' = [task EXCEPT ![w].state = "leaving"]
        /\ watches' = watches /\ count' = count /\ stream' = stream
    BY <1>5 DEF Wake, Polling, Alive, TypeOK
  <2>2. \A v \in Watch : /\ Alive(v)' <=> Alive(v)
                         /\ Alive(v) => task'[v].dir = task[v].dir
                         /\ v # w => task'[v] = task[v]
    BY <2>1, AbsentAssumption DEF Alive, Polling, TypeOK, Task
  <2>3. \A v \in Watch : Attached(v)' = Attached(v)
    BY <2>1 DEF Attached, Open
  <2>4. CountsAttached'
    BY <2>1, <2>2, <2>3 DEF PatientInv, CountsAttached
  <2>5. ServedInDir'
    BY <2>1 DEF PatientInv, ServedInDir, Open
  <2>6. LeavingIsEmpty'
    BY <2>1, <2>2 DEF PatientInv, LeavingIsEmpty, Leaving
  <2>7. OneTaskPerDir'
    BY <2>2 DEF PatientInv, OneTaskPerDir
  <2>8. RemovingIsEmpty'
    BY <2>1, <2>2 DEF PatientInv, RemovingIsEmpty, Removing
  <2>9. QED
    BY <2>4, <2>5, <2>6, <2>7, <2>8 DEF PatientInv
<1>6. ASSUME NEW w \in Watch, Exit(w) PROVE PatientInv'
  <2>1. PICK d \in Dir : d = task[w].dir
    BY <1>6 DEF Exit, Leaving, Alive, TypeOK, Task
  <2>2. Leaving(w) /\ Alive(w) /\ count[w] = 0
    BY <1>6 DEF Exit, Leaving, PatientInv, LeavingIsEmpty
  <2>3. \A v \in Watch : Alive(v) /\ task[v].dir = d => count[v] = 0
    BY <2>1, <2>2 DEF PatientInv, OneTaskPerDir
  <2>4. /\ watches' = Without(d) /\ count' = count /\ stream' = stream
        /\ task' = [task EXCEPT ![w] = Absent]
    BY <1>6, <2>1 DEF Exit
  <2>5. \A v \in Watch : task'[v] = task[v] \/ task'[v] = Absent
    BY <2>4 DEF TypeOK
  <2>6. QED
    BY <2>3, <2>4, <2>5, PatientRemoval
<1>7. CASE UNCHANGED vars
  <2>1. \A w \in Watch : Attached(w)' = Attached(w)
    BY <1>7 DEF vars, Attached, Open
  <2>2. CountsAttached'
    BY <1>7, <2>1 DEF vars, PatientInv, CountsAttached, Alive
  <2>3. QED
    BY <1>7, <2>2 DEF vars, PatientInv, ServedInDir, LeavingIsEmpty, OneTaskPerDir,
                      RemovingIsEmpty, Open, Removing, Alive, Leaving
<1>8. QED
  BY <1>1, <1>2, <1>3, <1>4, <1>5, <1>6, <1>7 DEF PatientNext, Next, Poll

\* Patient clients are clients.
LEMMA PatientIsSpec == PatientSpec => Spec
<1>1. [PatientNext]_vars => [Next]_vars
  BY DEF PatientNext
<1>2. QED
  BY <1>1, PTL DEF PatientSpec, Spec

\* With patient clients the invariant holds, for any number of threads.
THEOREM PatientCorrect == PatientSpec => []PatientInv
<1>1. Init => PatientInv
  BY DEF Init, PatientInv, CountsAttached, ServedInDir, LeavingIsEmpty,
         OneTaskPerDir, RemovingIsEmpty, Alive, Leaving, Open, Removing
<1>2. TypeOK /\ EntryIsPolled /\ PatientInv /\ [PatientNext]_vars => PatientInv'
  BY PatientStep
<1>3. QED
  BY <1>1, <1>2, PatientIsSpec, TypeCorrect, EntriesArePolled, PTL DEF PatientSpec

LEMMA PatientConsequences ==
  PatientSpec => [](CountsAttached /\ SubscriberIsServed /\ PollsForSubscribers)
<1>1. TypeOK /\ EntryIsPolled /\ PatientInv
      => CountsAttached /\ SubscriberIsServed /\ PollsForSubscribers
  <2> SUFFICES ASSUME TypeOK, EntryIsPolled, PatientInv
               PROVE  CountsAttached /\ SubscriberIsServed /\ PollsForSubscribers
    OBVIOUS
  <2>1. SubscriberIsServed
    <3> SUFFICES ASSUME NEW c \in Stream, Open(c)
                 PROVE  /\ stream[c].dir \in DOMAIN watches
                        /\ watches[stream[c].dir] = stream[c].watch
                        /\ Polling(stream[c].watch)
      BY DEF SubscriberIsServed
    <3>1. PICK w \in Watch : w = stream[c].watch
      BY DEF Open, TypeOK, OpenStream
    <3>2. stream[c].dir \in DOMAIN watches /\ watches[stream[c].dir] = w /\ Alive(w)
      BY <3>1 DEF PatientInv, ServedInDir, EntryIsPolled
    <3>3. c \in Attached(w)
      BY <3>1 DEF Attached
    <3>4. count[w] # 0
      BY <3>2, <3>3, AttachedFinite DEF PatientInv, CountsAttached
    <3>5. Polling(w)
      BY <3>2, <3>4 DEF PatientInv, LeavingIsEmpty, Leaving, Polling, Alive, TypeOK, Task
    <3>6. QED
      BY <3>1, <3>2, <3>5
  <2>2. PollsForSubscribers
    <3> SUFFICES ASSUME NEW w \in Watch, Polling(w), count[w] # 0
                 PROVE  \E c \in Stream : Open(c) /\ stream[c].dir = task[w].dir
      BY DEF PollsForSubscribers
    <3>1. PICK c \in Attached(w) : TRUE
      BY AttachedFinite DEF PatientInv, CountsAttached, Polling
    <3>2. QED
      BY <3>1 DEF Attached, PatientInv, ServedInDir, EntryIsPolled
  <2>3. QED
    BY <2>1, <2>2 DEF PatientInv
<1>2. QED
  BY <1>1, PatientIsSpec, TypeCorrect, EntriesArePolled, PatientCorrect, PTL

\* With patient clients the count of a watch is that of its streams, for any
\* number of threads.
THEOREM CountsAreRight == PatientSpec => []CountsAttached
BY PatientConsequences, PTL

\* A patient client is never left with a stream that nobody polls for.
THEOREM PatientsAreServed == PatientSpec => []SubscriberIsServed
BY PatientConsequences, PTL

\* With patient clients a task that goes on polling has a subscriber.
THEOREM NobodyPollsInVain == PatientSpec => []PollsForSubscribers
BY PatientConsequences, PTL
=============================================================================
