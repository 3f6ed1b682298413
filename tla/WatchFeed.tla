----------------------------- MODULE WatchFeed -----------------------------
(***************************************************************************)
(* What an SSE client learns about a watched directory: the snapshots and  *)
(* the comparison of poll_directory in src/src/fs/watcher.rs, the          *)
(* broadcast channel between it and the streams, and WatchStream of        *)
(* src/src/api/watch.rs, which turns what it receives into SSE events and  *)
(* is polled only when somebody has woken it.                              *)
(*                                                                         *)
(* There is one directory, and one watch of it at a time: the first client *)
(* to come makes it, and the last one to leave takes it out of the map.    *)
(* Its poll task then has nobody to send to; how it ends, and the races of *)
(* clients that come and go at once, are in FileWatcher.                   *)
(***************************************************************************)
EXTENDS Naturals, Sequences, FiniteSetsExt

CONSTANTS
  Name,      \* the names in the directory
  Stamp,     \* what a FileSnapshot tells files apart by: values of the pair
             \* (size, modified)
  Client,    \* the SSE clients
  Start,     \* the listings that the directory may have to begin with
  Capacity,  \* how many events the channel holds: 64
  MaxFaults, \* bound on the changes of the directory and the failed calls
  Absent     \* no such name, no stream

ASSUME CapacityAssumption == Capacity \in Nat \ {0} /\ MaxFaults \in Nat

\* take_snapshot's map.  `is_dir` is sent along but never compared, and is left
\* out.  Two writes within a millisecond may leave a stamp as it was.
Listing == [Name -> Stamp \cup {Absent}]

ASSUME StartAssumption == Start \subseteq Listing

\* FsEvent.  A "deleted" event has no stamp.
FsEvent ==
  [event_type : {"created", "modified", "deleted"}, name : Name,
   stamp : Stamp \cup {Absent}]

VARIABLES
  entries,   \* the directory as it is
  faults,    \* how many changes and failures there were
  phase,     \* where the poll task is, "off" if there is none
  snapshot,  \* its snapshot of the last round
  fresh,     \* new_snapshot, a function on the names that were read so far
  told,      \* the names it has sent events about in this round
  stream     \* the WatchStream of each client

pollVars == <<phase, snapshot, fresh, told>>
vars == <<entries, faults, phase, snapshot, fresh, told, stream>>

Phase == {"off", "first", "sleep", "scan", "compare"}

\* A WatchStream with its receiver, and what its client can know:
\*   queue   the events that the receiver will still find in the channel;
\*   lagged  the channel has overwritten an event that it had not received;
\*   waiting its waker is registered with the channel;
\*   due     the keepalive interval has a tick to give;
\*   awake   the connection's task will poll it;
\*   view    the directory, according to the events that were sent to the
\*           client, from what the poll task took for granted when it came;
\*   lost    an event was overwritten since.
\* The client is not told of the last one.
WatchStream ==
  [queue : Seq(FsEvent), lagged : BOOLEAN, waiting : BOOLEAN, due : BOOLEAN,
   awake : BOOLEAN, view : Listing, lost : BOOLEAN]

ASSUME AbsentAssumption == Absent \notin Stamp /\ Absent \notin WatchStream

Connected == {c \in Client : stream[c] # Absent}

Nothing == [n \in Name |-> Absent]
NoneRead == [n \in {} |-> Absent]

----------------------------------------------------------------------------
(* The comparison of two snapshots.                                        *)

\* Mutant: only a newer file counts.
Changed_Newer(old, new) == old < new

Changed(old, new) == old # new

\* Mutants: a name that was there is created again; nothing is ever deleted.
Created_Again ==
  {n \in Name : /\ fresh[n] # Absent
                /\ snapshot[n] = Absent \/ Changed(snapshot[n], fresh[n])}
Deleted_Never == {}

\* The names of each of the three loops.
Created == {n \in Name : snapshot[n] = Absent /\ fresh[n] # Absent}
Modified ==
  {n \in Name : /\ snapshot[n] # Absent /\ fresh[n] # Absent
                /\ Changed(snapshot[n], fresh[n])}
Deleted == {n \in Name : snapshot[n] # Absent /\ fresh[n] = Absent}

\* The events of a round that have not been sent.
Due == (Created \cup Modified \cup Deleted) \ told

\* The names among which the next event is: the first loop that is not over.
Loop ==
  IF Created \ told # {} THEN Created \ told
  ELSE IF Modified \ told # {} THEN Modified \ told ELSE Deleted \ told

EventOf(n) ==
  [event_type |-> CASE n \in Created  -> "created"
                    [] n \in Modified -> "modified"
                    [] OTHER          -> "deleted",
   name |-> n, stamp |-> fresh[n]]

\* The directory according to the events that were sent, if none was lost.
Announced ==
  [n \in Name |-> IF phase = "compare" /\ n \notin Due THEN fresh[n] ELSE snapshot[n]]

----------------------------------------------------------------------------
(* The directory.                                                          *)

Init ==
  /\ entries \in Start
  /\ faults = 0
  /\ phase = "off"
  /\ snapshot = Nothing
  /\ fresh = NoneRead
  /\ told = {}
  /\ stream = [c \in Client |-> Absent]

Fault == faults < MaxFaults /\ faults' = faults + 1

\* Somebody creates, changes, replaces or deletes a file.
Change(n, e) ==
  /\ Fault
  /\ e # entries[n]
  /\ entries' = [entries EXCEPT ![n] = e]
  /\ UNCHANGED <<pollVars, stream>>

----------------------------------------------------------------------------
(* The poll task.                                                          *)

\* The sleep is over, and there are subscribers.
Wake ==
  /\ phase = "sleep"
  /\ phase' = "scan"
  /\ UNCHANGED <<entries, faults, snapshot, fresh, told, stream>>

\* take_snapshot reads the directory name by name.
Read(n, e) ==
  /\ phase \in {"first", "scan"}
  /\ n \notin DOMAIN fresh
  /\ fresh' = [m \in DOMAIN fresh \cup {n} |-> IF m = n THEN e ELSE fresh[m]]
  /\ UNCHANGED <<entries, phase, snapshot, told, stream>>

Scan(n) == Read(n, entries[n]) /\ UNCHANGED faults

\* A name whose metadata cannot be read is left out, as all are when the
\* directory cannot be opened.
Skip(n) == Fault /\ entries[n] # Absent /\ Read(n, Absent)

\* The first snapshot is what the later ones are compared with.  The clients
\* that are there are not told.
Baseline ==
  /\ phase = "first" /\ DOMAIN fresh = Name
  /\ phase' = "sleep"
  /\ snapshot' = fresh
  /\ fresh' = NoneRead
  /\ stream' = [c \in Client |-> IF stream[c] = Absent THEN Absent
                                 ELSE [stream[c] EXCEPT !.view = fresh]]
  /\ UNCHANGED <<entries, faults, told>>

Compare ==
  /\ phase = "scan" /\ DOMAIN fresh = Name
  /\ phase' = "compare"
  /\ UNCHANGED <<entries, faults, snapshot, fresh, told, stream>>

\* Mutant: a channel without bound.
Receives_Unbounded(s, event) ==
  [s EXCEPT !.queue   = Append(@, event),
            !.awake   = @ \/ s.waiting,
            !.waiting = FALSE]

\* What the channel does to a receiver when an event is sent: the oldest one
\* is overwritten if there is no room, and a registered waker is woken.
Receives(s, event) ==
  LET full == Len(s.queue) = Capacity IN
  [s EXCEPT !.queue   = Append(IF full THEN Tail(@) ELSE @, event),
            !.lagged  = @ \/ full,
            !.lost    = @ \/ full,
            !.awake   = @ \/ s.waiting,
            !.waiting = FALSE]

Send(n) ==
  /\ phase = "compare"
  /\ n \in Loop
  /\ told' = told \cup {n}
  /\ stream' = [c \in Client |-> IF stream[c] = Absent THEN Absent
                                 ELSE Receives(stream[c], EventOf(n))]
  /\ UNCHANGED <<entries, faults, phase, snapshot, fresh>>

EndRound ==
  /\ phase = "compare"
  /\ Due = {}
  /\ phase' = "sleep"
  /\ snapshot' = fresh
  /\ fresh' = NoneRead
  /\ told' = {}
  /\ UNCHANGED <<entries, faults, stream>>

----------------------------------------------------------------------------
(* The streams.                                                            *)

\* The watch handler: the receiver starts at the end of the channel, and the
\* first tick of the interval is due at once.
NewStream ==
  [queue |-> <<>>, lagged |-> FALSE, waiting |-> FALSE, due |-> TRUE,
   awake |-> TRUE, view |-> Announced, lost |-> FALSE]

Subscribe(c) ==
  /\ stream[c] = Absent
  /\ stream' = [stream EXCEPT ![c] = NewStream]
  /\ phase' = IF phase = "off" THEN "first" ELSE phase
  /\ UNCHANGED <<entries, faults, snapshot, fresh, told>>

\* The client leaves; the stream is dropped and counted down, and the last one
\* takes the watch along.
Leave(c) ==
  /\ stream[c] # Absent
  /\ stream' = [stream EXCEPT ![c] = Absent]
  /\ IF Connected = {c}
       THEN /\ phase' = "off"
            /\ snapshot' = Nothing
            /\ fresh' = NoneRead
            /\ told' = {}
       ELSE UNCHANGED pollVars
  /\ UNCHANGED <<entries, faults>>

\* The listing after an event.
After(view, event) ==
  [view EXCEPT ![event.name] =
     IF event.event_type = "deleted" THEN Absent ELSE event.stamp]

\* poll_next, an event is there: it is sent, and the stream is polled again.
Deliver(c) ==
  LET s == stream[c] IN
  /\ s # Absent
  /\ s.awake /\ ~s.lagged /\ s.queue # <<>>
  /\ stream' = [stream EXCEPT ![c].queue = Tail(@),
                              ![c].view = After(@, Head(s.queue))]
  /\ UNCHANGED <<entries, faults, pollVars>>

\* Mutant: the error comes again and again.
StillLagged_Forever(s) == s.lagged

\* BroadcastStream reports an overwritten event once, and goes on with the
\* oldest one that is left.
StillLagged(s) == FALSE

\* poll_next, no event: either there is none, and the channel gets the waker,
\* or the receiver has lagged, which is ignored, and the channel gets no
\* waker.  A tick that is due is sent, and the stream polled again; else the
\* interval gets the waker, and the stream is pending.
Idle(c) ==
  LET s == stream[c] IN
  /\ s # Absent
  /\ s.awake /\ (s.lagged \/ s.queue = <<>>)
  /\ stream' = [stream EXCEPT ![c] =
       [s EXCEPT !.lagged  = StillLagged(s),
                 !.waiting = ~s.lagged,
                 !.due     = FALSE,
                 !.awake   = s.due]]
  /\ UNCHANGED <<entries, faults, pollVars>>

\* 15 seconds are over.
Tick(c) ==
  /\ stream[c] # Absent
  /\ ~stream[c].due
  /\ stream' = [stream EXCEPT ![c].due = TRUE, ![c].awake = TRUE]
  /\ UNCHANGED <<entries, faults, pollVars>>

Poll(c) == Deliver(c) \/ Idle(c)

PollTask ==
  \/ Wake \/ Baseline \/ Compare \/ EndRound
  \/ \E n \in Name : Scan(n) \/ Send(n)

Next ==
  \/ PollTask
  \/ \E n \in Name : Skip(n) \/ \E e \in Stamp \cup {Absent} : Change(n, e)
  \/ \E c \in Client : Subscribe(c) \/ Leave(c) \/ Poll(c) \/ Tick(c)

Spec == Init /\ [][Next]_vars

\* The runtime runs the poll task, the timers and the streams that were woken,
\* and the clients read what they are sent.
Fairness ==
  /\ WF_vars(PollTask)
  /\ \A c \in Client : WF_vars(Poll(c)) /\ WF_vars(Tick(c))

FairSpec == Spec /\ Fairness

----------------------------------------------------------------------------
(* Properties.                                                             *)

\* Every variable has its type.
TypeOK ==
  /\ entries \in Listing
  /\ faults \in 0 .. MaxFaults
  /\ phase \in Phase
  /\ snapshot \in Listing
  /\ DOMAIN fresh \subseteq Name
  /\ fresh \in [DOMAIN fresh -> Stamp \cup {Absent}]
  /\ told \subseteq Name
  /\ stream \in [Client -> WatchStream \cup {Absent}]
  /\ \A c \in Connected : Len(stream[c].queue) <= Capacity

\* The listing a client will have after the first k events of its queue.
Foreseen(s, k, n) ==
  LET about == {i \in 1 .. k : s.queue[i].name = n}
  IN IF about = {} THEN s.view[n]
                   ELSE After(s.view, s.queue[Max(about)])[n]

\* The feed is exact: a client that lost no event, wherever in a round it came
\* and however far behind it is, has been sent or will find in its channel
\* all that the poll task has announced.
FeedIsExact ==
  \A c \in Connected, n \in Name :
    phase # "first" /\ ~stream[c].lost =>
      Foreseen(stream[c], Len(stream[c].queue), n) = Announced[n]

\* The events make sense to a client that lost none: only what is not there is
\* created, and only what is there is modified or deleted.
EventsFit ==
  \A c \in Connected : ~stream[c].lost =>
    \A i \in DOMAIN stream[c].queue :
      LET event == stream[c].queue[i] IN
      (event.event_type = "created") <=>
        (Foreseen(stream[c], i - 1, event.name) = Absent)

\* No wake-up is lost for good: what is in the channel of a client that stays
\* gets to it, after a lag too.
EventsAreDelivered ==
  \A c \in Client :
    stream[c] # Absent /\ stream[c].queue # <<>> ~>
      stream[c] = Absent \/ stream[c].queue = <<>>

\* When the directory changes no more, a client that lost no event gets to
\* know it as it is.
FeedConverges ==
  \A c \in Client :
    <>[](stream[c] # Absent) =>
      <>[](/\ stream[c] # Absent
           /\ \/ stream[c].lost
              \/ stream[c].view = entries)
=============================================================================
