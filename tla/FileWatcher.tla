---------------------------- MODULE FileWatcher ----------------------------
(***************************************************************************)
(* The FileWatcher of src/src/fs/watcher.rs: the map of watched            *)
(* directories, the subscriber counts, and the life of the poll tasks.     *)
(* The users of it are the SSE streams of src/src/api/watch.rs, which      *)
(* subscribe when the request is answered and unsubscribe when the stream  *)
(* is dropped.                                                             *)
(*                                                                         *)
(* The map is a DashMap, and one access to a key is one step.  `subscribe` *)
(* is one access.  `unsubscribe` and the exit of a poll task are two       *)
(* accesses each, which other threads may come between: the first sees     *)
(* that nobody is left, and the second removes what is under the key by    *)
(* then.  Neither awaits, so a task that is between them occupies one of   *)
(* the runtime's Workers threads.                                          *)
(***************************************************************************)
EXTENDS Naturals, FiniteSets

CONSTANTS
  Stream,    \* the SSE connections; a client that left may come back
  Dir,       \* the resolved directories they watch
  Watch,     \* identities for a WatchState and its poll task, used again when
             \* nothing refers to them; their number bounds the model
  Workers,   \* the worker threads of the runtime
  UsizeMax,  \* usize::MAX
  Absent     \* a stream or a task that does not exist

ASSUME StreamAssumption == IsFiniteSet(Stream) /\ IsFiniteSet(Watch)
ASSUME DistinctAssumption == Stream \cap Watch = {}
ASSUME WorkersAssumption == Workers \in Nat \ {0}
ASSUME UsizeAssumption == UsizeMax \in Nat /\ Cardinality(Stream) <= UsizeMax

VARIABLES
  watches,   \* FileWatcher.watches; its DOMAIN is the set of keys in the map
  count,     \* the subscriber_count of each watch
  task,      \* the poll task of each watch, the directory it polls included
  stream     \* the streams, each with its directory and the watch of its `rx`

vars == <<watches, count, task, stream>>

\* "polling" : the task sleeps or takes a snapshot;
\* "leaving" : it has read a count of 0 and is about to remove its key.
Task == [state : {"polling", "leaving"}, dir : Dir]

\* "open"    : the client is connected;
\* "removing": the stream was dropped, unsubscribe has read the last count and
\*             is about to remove the key.
OpenStream == [state : {"open", "removing"}, dir : Dir, watch : Watch]

ASSUME AbsentAssumption == Absent \notin Task \cup OpenStream

\* The poll task of w has not returned, and which half of its life it is in.
Alive(w) == task[w] # Absent
Polling(w) == Alive(w) /\ task[w].state = "polling"
Leaving(w) == Alive(w) /\ task[w].state = "leaving"

\* The client of c is connected; its stream is being dropped.
Open(c) == stream[c] # Absent /\ stream[c].state = "open"
Removing(c) == stream[c] # Absent /\ stream[c].state = "removing"

\* The streams whose receiver is on the channel of w.
Attached(w) == {c \in Stream : Open(c) /\ stream[c].watch = w}

\* An identity to which neither the map, nor a task, nor a stream refers.
Unused(w) ==
  /\ ~Alive(w)
  /\ \A d \in DOMAIN watches : watches[d] # w
  /\ \A c \in Stream : stream[c] # Absent => stream[c].watch # w

\* Both senders of the channel are gone: `rx` returns None, the stream ends.
Closed(w) == ~Alive(w) /\ \A d \in DOMAIN watches : watches[d] # w

Running ==
  {c \in Stream : Removing(c)} \cup {w \in Watch : Leaving(w)}

WorkerFree == Cardinality(Running) < Workers

\* Mutants: the creator counted twice, a subscription that is not counted.
Joined_Twice(n) == n + 2
Joined_Uncounted(n) == n

\* subscriber_count.fetch_add(1)
Joined(n) == IF n = UsizeMax THEN 0 ELSE n + 1

\* Mutants: a signed count, a count that never goes down.
Left_Signed(n) == n - 1
Left_Kept(n) == n

\* subscriber_count.fetch_sub(1)
Left(n) == IF n = 0 THEN UsizeMax ELSE n - 1

\* Mutant: the last but one takes the key away.
IsLast_OneEarly(n) == n <= 2

\* `prev <= 1` in unsubscribe.
IsLast(n) == n <= 1

\* Mutant: the key stays.
Without_Kept(d) == watches

\* watches.remove(d)
Without(d) == [e \in DOMAIN watches \ {d} |-> watches[e]]

----------------------------------------------------------------------------
Init ==
  /\ watches = [d \in {} |-> Absent]
  /\ count = [w \in Watch |-> 0]
  /\ task = [w \in Watch |-> Absent]
  /\ stream = [c \in Stream |-> Absent]

\* The watch handler, first subscriber: subscribe makes the channel, the count
\* and the poll task under the lock of the key's shard.
Create(c, d, w) ==
  /\ WorkerFree
  /\ stream[c] = Absent
  /\ d \notin DOMAIN watches
  /\ Unused(w)
  /\ watches' = [e \in DOMAIN watches \cup {d} |-> IF e = d THEN w ELSE watches[e]]
  /\ count' = [count EXCEPT ![w] = Joined(0)]
  /\ task' = [task EXCEPT ![w] = [state |-> "polling", dir |-> d]]
  /\ stream' = [stream EXCEPT ![c] = [state |-> "open", dir |-> d, watch |-> w]]

\* The watch handler, later subscribers: whatever watch is under the key.
Join(c, d) ==
  /\ WorkerFree
  /\ stream[c] = Absent
  /\ d \in DOMAIN watches
  /\ count' = [count EXCEPT ![watches[d]] = Joined(@)]
  /\ stream' = [stream EXCEPT ![c] =
                  [state |-> "open", dir |-> d, watch |-> watches[d]]]
  /\ UNCHANGED <<watches, task>>

\* The stream is dropped, since the client left or the channel closed.
\* unsubscribe counts down the watch that is under the key now, if any.
Unsubscribe(c) ==
  /\ WorkerFree
  /\ Open(c)
  /\ LET d    == stream[c].dir
         w    == watches[d]
         last == d \in DOMAIN watches /\ IsLast(count[w])
     IN /\ count' = IF d \in DOMAIN watches
                      THEN [count EXCEPT ![w] = Left(@)] ELSE count
        /\ stream' = [stream EXCEPT ![c] =
                        IF last THEN [@ EXCEPT !.state = "removing"] ELSE Absent]
  /\ UNCHANGED <<watches, task>>

\* unsubscribe, the second access.
RemoveWatch(c) ==
  /\ Removing(c)
  /\ watches' = Without(stream[c].dir)
  /\ stream' = [stream EXCEPT ![c] = Absent]
  /\ UNCHANGED <<count, task>>

\* The poll task wakes, reads its count and finds nobody.
Wake(w) ==
  /\ WorkerFree
  /\ Polling(w)
  /\ count[w] = 0
  /\ task' = [task EXCEPT ![w].state = "leaving"]
  /\ UNCHANGED <<watches, count, stream>>

\* It finds somebody: it takes a snapshot, sends events and sleeps again.
Poll(w) ==
  /\ WorkerFree
  /\ Polling(w)
  /\ count[w] # 0
  /\ UNCHANGED vars

\* The second access: the key goes, and the task returns.
Exit(w) ==
  /\ Leaving(w)
  /\ watches' = Without(task[w].dir)
  /\ task' = [task EXCEPT ![w] = Absent]
  /\ UNCHANGED <<count, stream>>

Next ==
  \/ \E c \in Stream :
       \/ \E d \in Dir : Join(c, d) \/ \E w \in Watch : Create(c, d, w)
       \/ Unsubscribe(c)
       \/ RemoveWatch(c)
  \/ \E w \in Watch : Wake(w) \/ Poll(w) \/ Exit(w)

Spec == Init /\ [][Next]_vars

(***************************************************************************)
(* Fairness: the runtime runs every task that is ready.  A poll task is    *)
(* ready whenever its sleep is over, though a thread may be free for it    *)
(* only now and then (strong fairness); a task on a thread goes on; a      *)
(* stream whose channel closed is dropped.  No client has to leave.        *)
(***************************************************************************)
Fairness ==
  /\ \A c \in Stream :
       /\ WF_vars(RemoveWatch(c))
       /\ SF_vars(Open(c) /\ Closed(stream[c].watch) /\ Unsubscribe(c))
  /\ \A w \in Watch : SF_vars(Wake(w)) /\ WF_vars(Exit(w))

FairSpec == Spec /\ Fairness

(***************************************************************************)
(* Clients that come to a directory only while others are there, or when   *)
(* those who left are forgotten: no stream of it is still being dropped,   *)
(* and its poll task has gone (at most 3 seconds after the last one left). *)
(***************************************************************************)
Settled(d) ==
  /\ \A c \in Stream : Removing(c) => stream[c].dir # d
  /\ \A w \in Watch : Alive(w) /\ task[w].dir = d => count[w] # 0

Patient ==
  \A c \in Stream :
    stream[c] = Absent /\ stream'[c] # Absent => Settled(stream'[c].dir)

PatientNext == Next /\ Patient

PatientSpec == Init /\ [][PatientNext]_vars

FairPatientSpec == PatientSpec /\ Fairness

----------------------------------------------------------------------------
(* Properties.                                                             *)

\* Every variable has its type.
TypeOK ==
  /\ DOMAIN watches \subseteq Dir
  /\ \A d \in DOMAIN watches : watches[d] \in Watch
  /\ count \in [Watch -> 0 .. UsizeMax]
  /\ task \in [Watch -> Task \cup {Absent}]
  /\ stream \in [Stream -> OpenStream \cup {Absent}]

\* Nobody waits on a channel that nothing will ever be sent to: a watch that
\* can still be found in the map has a poll task, which looks after that very
\* directory.  Holds with any number of threads and any clients, though keys
\* are removed by tasks and streams they do not belong to.
EntryIsPolled ==
  \A d \in DOMAIN watches :
    Alive(watches[d]) /\ task[watches[d]].dir = d

\* A stream whose poll task gives up is not left hanging: it ends, and the
\* client can connect again.
AbandonedStreamEnds ==
  \A c \in Stream :
    Open(c) /\ ~Polling(stream[c].watch) ~> stream[c] = Absent

\* The count of a watch is the number of streams attached to it.
CountsAttached ==
  \A w \in Watch : Alive(w) => count[w] = Cardinality(Attached(w))

\* A connected stream stays served: its watch is the one in the map, and its
\* poll task is not leaving.
SubscriberIsServed ==
  \A c \in Stream :
    Open(c) => /\ stream[c].dir \in DOMAIN watches
               /\ watches[stream[c].dir] = stream[c].watch
               /\ Polling(stream[c].watch)

\* Polling only when SSE subscribers exist: a task that will go on polling
\* works for somebody.
PollsForSubscribers ==
  \A w \in Watch :
    Polling(w) /\ count[w] # 0 =>
      \E c \in Stream : Open(c) /\ stream[c].dir = task[w].dir

\* When everybody has left a directory for good its poll task exits.
PollingStops ==
  \A d \in Dir :
    <>[](\A c \in Stream : stream[c] # Absent => stream[c].dir # d)
      => <>[](\A w \in Watch : Alive(w) => task[w].dir # d)
=============================================================================
