-------------------------- MODULE WatchFeedProofs --------------------------
(***************************************************************************)
(* Theorems about WatchFeed, for all names, stamps, clients and capacities *)
(* of the channel: the types of its variables, and that the feed is exact. *)
(***************************************************************************)
EXTENDS WatchFeed, SequenceTheorems, WellFoundedInduction, TLAPS

----------------------------------------------------------------------------
(* The invariants.                                                         *)

\* What there is in each phase of the poll task: without a client there is no
\* task, before the first snapshot there is nothing to compare with, and only
\* a round that compares has a whole new listing and has sent events.
PhaseInv ==
  /\ phase = "off" => Connected = {}
  /\ phase \in {"off", "sleep"} => fresh = NoneRead
  /\ phase # "compare" => told = {}
  /\ phase = "compare" => DOMAIN fresh = Name
  /\ phase = "first" => \A c \in Connected : stream[c].queue = <<>>

FeedInv == TypeOK /\ PhaseInv

----------------------------------------------------------------------------
(* The last event about a name.                                            *)

\* A nonempty set of positions has a greatest one.
LEMMA MaxExists ==
  ASSUME NEW k \in Nat, NEW S, S \subseteq 1 .. k, S # {}
  PROVE  Max(S) \in S /\ \A y \in S : y <= Max(S)
<1> DEFINE T == {k - x : x \in S}
<1>1. T \subseteq Nat /\ T # {}
  <2>1. \A x \in S : k - x \in Nat
    OBVIOUS
  <2>2. QED
    BY <2>1
<1>2. PICK t \in T : \A u \in T : <<u, t>> \notin OpToRel(<, Nat)
  BY <1>1, NatLessThanWellFounded, WFMin
<1>3. \A u \in T : ~(u < t)
  BY <1>1, <1>2 DEF OpToRel
<1>4. PICK x \in S : t = k - x
  BY <1>2
<1>5. \A y \in S : x >= y
  <2> SUFFICES ASSUME NEW y \in S PROVE x >= y
    OBVIOUS
  <2>1. ~(k - y < t)
    BY <1>3
  <2>2. QED
    BY <1>4, <2>1
<1>6. Max(S) \in S /\ \A y \in S : Max(S) >= y
  BY <1>5 DEF Max
<1>7. QED
  BY <1>6

\* Only the greatest position is above all others.
LEMMA MaxIs ==
  ASSUME NEW k \in Nat, NEW S, S \subseteq 1 .. k, NEW x \in S, \A y \in S : y <= x
  PROVE  Max(S) = x
<1>1. Max(S) \in S /\ \A y \in S : y <= Max(S)
  BY MaxExists
<1>2. Max(S) <= x /\ x <= Max(S) /\ Max(S) \in 1 .. k /\ x \in 1 .. k
  BY <1>1
<1>3. QED
  BY <1>2

\* What an event says of its name.
Says(event) == IF event.event_type = "deleted" THEN Absent ELSE event.stamp

LEMMA AfterEvent ==
  ASSUME NEW view \in Listing, NEW event, event.name \in Name
  PROVE  /\ After(view, event)[event.name] = Says(event)
         /\ \A n \in Name \ {event.name} : After(view, event)[n] = view[n]
BY DEF After, Says, Listing

\* Without an event about a name the client will go on with what it knows ...
LEMMA ForeseenNone ==
  ASSUME NEW s, NEW k \in Nat, NEW n, \A i \in 1 .. k : s.queue[i].name # n
  PROVE  Foreseen(s, k, n) = s.view[n]
BY DEF Foreseen

\* ... and otherwise with what the last one says.
LEMMA ForeseenLast ==
  ASSUME NEW s, s.view \in Listing, NEW k \in Nat, NEW n \in Name,
         NEW i \in 1 .. k, s.queue[i].name = n,
         \A j \in i + 1 .. k : s.queue[j].name # n
  PROVE  Foreseen(s, k, n) = Says(s.queue[i])
<1> DEFINE about == {j \in 1 .. k : s.queue[j].name = n}
<1>1. i \in about /\ about \subseteq 1 .. k
  OBVIOUS
<1>2. \A j \in about : j <= i
  OBVIOUS
<1>3. Max(about) = i
  <2> HIDE DEF about
  <2>1. QED
    BY <1>1, <1>2, MaxIs
<1>4. Foreseen(s, k, n) = After(s.view, s.queue[i])[n]
  BY <1>1, <1>3 DEF Foreseen
<1>5. QED
  BY <1>4, AfterEvent

\* There is a last one, if there is one.
LEMMA LastEvent ==
  ASSUME NEW s, NEW k \in Nat, NEW n
  PROVE  \/ \A i \in 1 .. k : s.queue[i].name # n
         \/ \E i \in 1 .. k : /\ s.queue[i].name = n
                              /\ \A j \in i + 1 .. k : s.queue[j].name # n
<1> DEFINE about == {j \in 1 .. k : s.queue[j].name = n}
<1> SUFFICES ASSUME about # {}
             PROVE  \E i \in 1 .. k : /\ s.queue[i].name = n
                                      /\ \A j \in i + 1 .. k : s.queue[j].name # n
  OBVIOUS
<1>1. about \subseteq 1 .. k
  OBVIOUS
<1>2. Max(about) \in about /\ \A y \in about : y <= Max(about)
  <2> HIDE DEF about
  <2>1. QED
    BY <1>1, MaxExists
<1>3. PICK i \in about : \A y \in about : y <= i
  BY <1>2
<1>4. i \in 1 .. k /\ s.queue[i].name = n
  OBVIOUS
<1>5. \A j \in i + 1 .. k : j \in 1 .. k /\ ~(j <= i)
  BY <1>4
<1>6. \A j \in i + 1 .. k : s.queue[j].name # n
  BY <1>3, <1>5
<1>7. QED
  BY <1>4, <1>6

\* What a client foresees depends on its view and the events alone ...
LEMMA ForeseenSame ==
  ASSUME NEW s, NEW t, s.view \in Listing, t.view = s.view,
         NEW k \in Nat, NEW n \in Name, \A i \in 1 .. k : t.queue[i] = s.queue[i]
  PROVE  Foreseen(t, k, n) = Foreseen(s, k, n)
<1>1. CASE \A i \in 1 .. k : s.queue[i].name # n
  <2>1. \A i \in 1 .. k : t.queue[i].name # n
    BY <1>1
  <2>2. Foreseen(s, k, n) = s.view[n] /\ Foreseen(t, k, n) = t.view[n]
    BY <1>1, <2>1, ForeseenNone
  <2>3. QED
    BY <2>2
<1>2. ASSUME NEW i \in 1 .. k, s.queue[i].name = n,
             \A j \in i + 1 .. k : s.queue[j].name # n
      PROVE  Foreseen(t, k, n) = Foreseen(s, k, n)
  <2>1. t.queue[i].name = n /\ \A j \in i + 1 .. k : t.queue[j].name # n
    BY <1>2
  <2>2. Foreseen(s, k, n) = Says(s.queue[i]) /\ Foreseen(t, k, n) = Says(t.queue[i])
    BY <1>2, <2>1, ForeseenLast
  <2>3. QED
    BY <2>2
<1>3. QED
  BY <1>1, <1>2, LastEvent

\* ... a further event counts for its own name ...
LEMMA ForeseenNext ==
  ASSUME NEW s, s.view \in Listing, NEW k \in Nat, NEW n \in Name
  PROVE  Foreseen(s, k + 1, n) = IF s.queue[k + 1].name = n THEN Says(s.queue[k + 1])
                                                            ELSE Foreseen(s, k, n)
<1>0. k + 1 \in Nat
  OBVIOUS
<1>1. CASE s.queue[k + 1].name = n
  <2>1. k + 1 \in 1 .. k + 1 /\ \A j \in (k + 1) + 1 .. k + 1 : s.queue[j].name # n
    OBVIOUS
  <2>2. QED
    BY <1>0, <1>1, <2>1, ForeseenLast
<1>2. CASE s.queue[k + 1].name # n /\ \A i \in 1 .. k : s.queue[i].name # n
  <2>1. \A i \in 1 .. k + 1 : s.queue[i].name # n
    BY <1>2
  <2>2. Foreseen(s, k + 1, n) = s.view[n] /\ Foreseen(s, k, n) = s.view[n]
    BY <1>0, <1>2, <2>1, ForeseenNone
  <2>3. QED
    BY <1>2, <2>2
<1>3. ASSUME s.queue[k + 1].name # n,
             NEW i \in 1 .. k, s.queue[i].name = n,
             \A j \in i + 1 .. k : s.queue[j].name # n
      PROVE  Foreseen(s, k + 1, n) = Foreseen(s, k, n)
  <2>1. i \in 1 .. k + 1 /\ \A j \in i + 1 .. k + 1 : s.queue[j].name # n
    BY <1>3
  <2>2. Foreseen(s, k + 1, n) = Says(s.queue[i]) /\ Foreseen(s, k, n) = Says(s.queue[i])
    BY <1>0, <1>3, <2>1, ForeseenLast
  <2>3. QED
    BY <2>2
<1>4. QED
  BY <1>1, <1>2, <1>3, LastEvent

\* ... and the first one is as good in the view as in the channel.
LEMMA ForeseenShift ==
  ASSUME NEW s, NEW t, s.view \in Listing, s.queue[1].name \in Name,
         t.view = After(s.view, s.queue[1]), t.view \in Listing,
         NEW k \in Nat, NEW n \in Name, \A i \in 1 .. k : t.queue[i] = s.queue[i + 1]
  PROVE  Foreseen(t, k, n) = Foreseen(s, k + 1, n)
<1>0. k + 1 \in Nat
  OBVIOUS
<1>1. ASSUME \A i \in 1 .. k : t.queue[i].name # n
      PROVE  Foreseen(t, k, n) = Foreseen(s, k + 1, n)
  <2>1. Foreseen(t, k, n) = After(s.view, s.queue[1])[n]
    BY <1>1, ForeseenNone
  <2>2. \A i \in 2 .. k + 1 : s.queue[i].name # n
    <3>1. \A i \in 2 .. k + 1 : i - 1 \in 1 .. k /\ i = (i - 1) + 1
      OBVIOUS
    <3>2. QED
      BY <1>1, <3>1
  <2>3. CASE s.queue[1].name = n
    <3>1. 1 \in 1 .. k + 1 /\ \A j \in 1 + 1 .. k + 1 : s.queue[j].name # n
      BY <2>2
    <3>2. Foreseen(s, k + 1, n) = Says(s.queue[1])
      BY <1>0, <2>3, <3>1, ForeseenLast
    <3>3. QED
      BY <2>1, <2>3, <3>2, AfterEvent
  <2>4. CASE s.queue[1].name # n
    <3>1. \A i \in 1 .. k + 1 : s.queue[i].name # n
      BY <2>2, <2>4
    <3>2. Foreseen(s, k + 1, n) = s.view[n]
      BY <1>0, <3>1, ForeseenNone
    <3>3. QED
      BY <2>1, <2>4, <3>2, AfterEvent
  <2>5. QED
    BY <2>3, <2>4
<1>2. ASSUME NEW i \in 1 .. k, t.queue[i].name = n,
             \A j \in i + 1 .. k : t.queue[j].name # n
      PROVE  Foreseen(t, k, n) = Foreseen(s, k + 1, n)
  <2>1. Foreseen(t, k, n) = Says(t.queue[i])
    BY <1>2, ForeseenLast
  <2>2. i + 1 \in 1 .. k + 1 /\ s.queue[i + 1].name = n
    BY <1>2
  <2>3. \A j \in (i + 1) + 1 .. k + 1 : s.queue[j].name # n
    <3>1. \A j \in (i + 1) + 1 .. k + 1 : j - 1 \in i + 1 .. k /\ j - 1 \in 1 .. k /\ j = (j - 1) + 1
      OBVIOUS
    <3>2. QED
      BY <1>2, <3>1
  <2>4. Foreseen(s, k + 1, n) = Says(s.queue[i + 1])
    BY <1>0, <2>2, <2>3, ForeseenLast
  <2>5. QED
    BY <1>2, <2>1, <2>4
<1>3. QED
  BY <1>1, <1>2, LastEvent
----------------------------------------------------------------------------
(* Type correctness.                                                       *)

\* An event that the poll task sends, and what it has announced.
LEMMA EventTypes ==
  ASSUME FeedInv, phase = "compare", NEW n \in Loop
  PROVE  /\ n \in Name /\ n \in Due
         /\ EventOf(n) \in FsEvent /\ EventOf(n).name = n
         /\ Says(EventOf(n)) = fresh[n]
         /\ EventOf(n).event_type = "created" <=> snapshot[n] = Absent
<1>1. n \in Due /\ n \in Name
  BY DEF Loop, Due, Created, Modified, Deleted
<1>2. fresh[n] \in Stamp \cup {Absent}
  BY <1>1 DEF FeedInv, PhaseInv, TypeOK
<1>3. EventOf(n) \in FsEvent /\ EventOf(n).name = n /\ EventOf(n).stamp = fresh[n]
  BY <1>1, <1>2 DEF EventOf, FsEvent
<1>4. /\ EventOf(n).event_type = "created" <=> n \in Created
      /\ EventOf(n).event_type = "deleted" => n \in Deleted
  <2>1. EventOf(n).event_type = IF n \in Created THEN "created"
                                ELSE IF n \in Modified THEN "modified" ELSE "deleted"
    <3>1. CASE n \in Created
      <4>1. n \notin Modified
        BY <3>1 DEF Created, Modified
      <4>2. QED
        BY <3>1, <4>1 DEF EventOf
    <3>2. CASE n \notin Created
      BY <3>2 DEF EventOf
    <3>3. QED
      BY <3>1, <3>2
  <2>2. n \in Created \/ n \in Modified \/ n \in Deleted
    BY <1>1 DEF Due
  <2>3. QED
    BY <2>1, <2>2
<1>5. n \in Created <=> snapshot[n] = Absent
  BY <1>1 DEF Due, Created, Modified, Deleted
<1>6. Says(EventOf(n)) = fresh[n]
  <2>1. n \in Deleted => fresh[n] = Absent
    BY DEF Deleted
  <2>2. QED
    BY <1>3, <1>4, <2>1 DEF Says
<1>7. QED
  BY <1>1, <1>3, <1>4, <1>5, <1>6

LEMMA AnnouncedType == FeedInv => Announced \in Listing
BY DEF Announced, FeedInv, PhaseInv, TypeOK, Listing

\* A receiver that loses nothing appends; one that loses keeps the bound.
LEMMA ReceivesTypes ==
  ASSUME NEW s \in WatchStream, NEW event \in FsEvent, Len(s.queue) <= Capacity
  PROVE  /\ Receives(s, event) \in WatchStream
         /\ Len(Receives(s, event).queue) <= Capacity
         /\ Receives(s, event).view = s.view
         /\ ~Receives(s, event).lost =>
              ~s.lost /\ Receives(s, event).queue = Append(s.queue, event)
<1> DEFINE full == Len(s.queue) = Capacity
           kept == IF full THEN Tail(s.queue) ELSE s.queue
<1>1. s.queue \in Seq(FsEvent) /\ Len(s.queue) \in Nat
  BY LenProperties DEF WatchStream
<1>2. full => s.queue # <<>>
  BY <1>1, CapacityAssumption, EmptySeq
<1>3. kept \in Seq(FsEvent) /\ Len(kept) \in Nat /\ Len(kept) < Capacity
  BY <1>1, <1>2, HeadTailProperties, LenProperties, CapacityAssumption
<1>4. Append(kept, event) \in Seq(FsEvent) /\ Len(Append(kept, event)) <= Capacity
  <2> HIDE DEF kept
  <2>1. QED
    BY <1>3, AppendProperties, CapacityAssumption
<1> DEFINE lagged == s.lagged \/ full
           lost   == s.lost \/ full
           awake  == s.awake \/ s.waiting
<1>5. lagged \in BOOLEAN /\ lost \in BOOLEAN /\ awake \in BOOLEAN
  OBVIOUS
<1>6. Receives(s, event) =
        [s EXCEPT !.queue = Append(kept, event), !.lagged = lagged,
                  !.lost = lost, !.awake = awake, !.waiting = FALSE]
  BY DEF Receives
<1>7. lost = FALSE => s.lost = FALSE /\ kept = s.queue
  BY DEF WatchStream
<1> HIDE DEF kept, lagged, lost, awake
<1>8. Receives(s, event) \in WatchStream /\ Receives(s, event).queue = Append(kept, event)
      /\ Receives(s, event).view = s.view /\ Receives(s, event).lost = lost
  BY <1>4, <1>5, <1>6 DEF WatchStream
<1>9. QED
  BY <1>4, <1>5, <1>7, <1>8
\* The types of what the streams are, when one of them changes.
StreamTypes ==
  /\ stream \in [Client -> WatchStream \cup {Absent}]
  /\ \A c \in Connected : Len(stream[c].queue) <= Capacity

LEMMA OneStreamTypes ==
  ASSUME StreamTypes, NEW c \in Client, NEW s \in WatchStream \cup {Absent},
         s # Absent => Len(s.queue) <= Capacity,
         stream' = [stream EXCEPT ![c] = s]
  PROVE  StreamTypes'
BY DEF StreamTypes, Connected

\* A step of a stream: what is left in its queue is the end of what was there.
LEMMA PollTypes ==
  ASSUME FeedInv, NEW c \in Client, Poll(c) \/ Tick(c)
  PROVE  \E s \in WatchStream :
           /\ stream[c] # Absent
           /\ stream' = [stream EXCEPT ![c] = s]
           /\ s.lost = stream[c].lost
           /\ \/ s.queue = stream[c].queue /\ s.view = stream[c].view
              \/ /\ stream[c].queue # <<>>
                 /\ s.queue = Tail(stream[c].queue)
                 /\ s.view = After(stream[c].view, Head(stream[c].queue))
<1> DEFINE s == stream[c]
<1>1. s \in WatchStream /\ s.queue \in Seq(FsEvent) /\ s.view \in Listing /\ s # Absent
  BY DEF FeedInv, TypeOK, WatchStream, Poll, Deliver, Idle, Tick
<1>2. CASE Deliver(c)
  <2> DEFINE q == Tail(s.queue)
             v == After(s.view, Head(s.queue))
             t == [s EXCEPT !.queue = q, !.view = v]
  <2>1. s.queue # <<>> /\ stream' = [stream EXCEPT ![c] = t]
    BY <1>2 DEF Deliver
  <2>2. Head(s.queue) \in FsEvent /\ q \in Seq(FsEvent)
    BY <1>1, <2>1, HeadTailProperties
  <2>3. v \in Listing
    BY <1>1, <2>2 DEF After, Listing, FsEvent
  <2> HIDE DEF q, v
  <2>4. t \in WatchStream /\ t.queue = q /\ t.view = v /\ t.lost = s.lost
    BY <1>1, <2>2, <2>3 DEF WatchStream
  <2> HIDE DEF t
  <2>5. QED
    BY <1>1, <2>1, <2>4 DEF q, v
<1>3. CASE Idle(c)
  <2> DEFINE waiting == ~s.lagged
             t == [s EXCEPT !.lagged = FALSE, !.waiting = waiting, !.due = FALSE, !.awake = s.due]
  <2>1. stream' = [stream EXCEPT ![c] = t]
    BY <1>3 DEF Idle, StillLagged
  <2>2. waiting \in BOOLEAN
    OBVIOUS
  <2> HIDE DEF waiting
  <2>3. t \in WatchStream /\ t.queue = s.queue /\ t.view = s.view /\ t.lost = s.lost
    BY <1>1, <2>2 DEF WatchStream
  <2> HIDE DEF t
  <2>4. QED
    BY <1>1, <2>1, <2>3
<1>4. CASE Tick(c)
  <2> DEFINE t == [s EXCEPT !.due = TRUE, !.awake = TRUE]
  <2>1. stream' = [stream EXCEPT ![c] = t]
    BY <1>4 DEF Tick
  <2>2. t \in WatchStream /\ t.queue = s.queue /\ t.view = s.view /\ t.lost = s.lost
    BY <1>1 DEF WatchStream
  <2> HIDE DEF t
  <2>3. QED
    BY <1>1, <2>1, <2>2
<1>5. QED
  BY <1>2, <1>3, <1>4 DEF Poll
\* The streams that an event or a new baseline reaches keep their types.
LEMMA SendTypes ==
  ASSUME FeedInv, NEW n \in Name, Send(n)
  PROVE  /\ StreamTypes'
         /\ Connected' = Connected
         /\ \A c \in Connected : stream'[c] = Receives(stream[c], EventOf(n))
<1>1. phase = "compare" /\ n \in Loop
  BY DEF Send
<1>2. EventOf(n) \in FsEvent
  BY <1>1, EventTypes
<1>3. \A c \in Client :
        stream'[c] = IF stream[c] = Absent THEN Absent ELSE Receives(stream[c], EventOf(n))
  BY DEF Send
<1>4. \A c \in Connected : stream[c] \in WatchStream /\ Len(stream[c].queue) <= Capacity
  BY DEF FeedInv, TypeOK, Connected
<1>5. \A c \in Connected : /\ Receives(stream[c], EventOf(n)) \in WatchStream
                           /\ Len(Receives(stream[c], EventOf(n)).queue) <= Capacity
  BY <1>2, <1>4, ReceivesTypes
<1>6. Connected' = Connected
  BY <1>3, <1>5, AbsentAssumption DEF Connected
<1>7. stream' \in [Client -> WatchStream \cup {Absent}]
  BY <1>3, <1>5 DEF Send, Connected
<1>8. QED
  BY <1>3, <1>5, <1>6, <1>7 DEF StreamTypes, Connected

LEMMA BaselineTypes ==
  ASSUME FeedInv, Baseline
  PROVE  /\ StreamTypes'
         /\ Connected' = Connected /\ fresh \in Listing
         /\ \A c \in Connected : stream'[c] = [stream[c] EXCEPT !.view = fresh]
<1>1. fresh \in Listing
  BY DEF Baseline, FeedInv, TypeOK, Listing
<1>2. \A c \in Client :
        stream'[c] = IF stream[c] = Absent THEN Absent ELSE [stream[c] EXCEPT !.view = fresh]
  BY DEF Baseline
<1>3. ASSUME NEW s \in WatchStream
      PROVE  /\ [s EXCEPT !.view = fresh] \in WatchStream
             /\ [s EXCEPT !.view = fresh].queue = s.queue
  BY <1>1 DEF WatchStream
<1>4. \A c \in Connected : stream[c] \in WatchStream /\ Len(stream[c].queue) <= Capacity
  BY DEF FeedInv, TypeOK, Connected
<1>5. \A c \in Connected : /\ stream'[c] \in WatchStream
                           /\ stream'[c].queue = stream[c].queue
  BY <1>2, <1>3, <1>4 DEF Connected
<1>6. Connected' = Connected
  BY <1>2, <1>5, AbsentAssumption DEF Connected
<1>7. stream' \in [Client -> WatchStream \cup {Absent}]
  BY <1>2, <1>5 DEF Baseline, Connected
<1>8. \A c \in Connected : Len(stream'[c].queue) <= Capacity
  BY <1>4, <1>5
<1>9. QED
  BY <1>1, <1>2, <1>6, <1>7, <1>8 DEF StreamTypes, Connected

LEMMA NewStreamType ==
  FeedInv => NewStream \in WatchStream /\ NewStream.queue = <<>> /\ Len(NewStream.queue) <= Capacity
<1>1. <<>> \in Seq(FsEvent) /\ Len(<<>>) = 0
  BY EmptySeq
<1>2. QED
  BY <1>1, AnnouncedType, CapacityAssumption DEF NewStream, WatchStream

\* The poll task, but for what it sends, and the directory.
LEMMA TaskStep ==
  ASSUME FeedInv,
         \/ Wake \/ Compare \/ EndRound
         \/ \E n \in Name : Scan(n) \/ Skip(n)
         \/ \E n \in Name, e \in Stamp \cup {Absent} : Change(n, e)
  PROVE  FeedInv'
<1> USE DEF FeedInv, TypeOK, PhaseInv, Phase, Connected
<1>1. CASE Wake \/ Compare
  BY <1>1 DEF Wake, Compare
<1>2. CASE EndRound
  <2>1. fresh \in Listing
    BY <1>2 DEF EndRound, Listing
  <2>2. QED
    BY <1>2, <2>1 DEF EndRound, NoneRead
<1>3. ASSUME NEW n \in Name, NEW e \in Stamp \cup {Absent}, Read(n, e),
             entries' = entries, faults' \in 0 .. MaxFaults
      PROVE  FeedInv'
  <2>1. /\ DOMAIN fresh' = DOMAIN fresh \cup {n}
        /\ fresh' \in [DOMAIN fresh' -> Stamp \cup {Absent}]
    BY <1>3 DEF Read
  <2>2. QED
    BY <1>3, <2>1 DEF Read
<1>4. ASSUME NEW n \in Name, Scan(n) PROVE FeedInv'
  <2>1. entries[n] \in Stamp \cup {Absent}
    BY DEF Listing
  <2>2. QED
    BY <1>3, <1>4, <2>1 DEF Scan, Read
<1>5. ASSUME NEW n \in Name, Skip(n) PROVE FeedInv'
  <2>1. faults' \in 0 .. MaxFaults
    BY <1>5, CapacityAssumption DEF Skip, Fault
  <2>2. QED
    BY <1>3, <1>5, <2>1 DEF Skip, Read
<1>6. ASSUME NEW n \in Name, NEW e \in Stamp \cup {Absent}, Change(n, e) PROVE FeedInv'
  <2>1. faults' \in 0 .. MaxFaults
    BY <1>6, CapacityAssumption DEF Change, Fault
  <2>2. entries' \in Listing
    BY <1>6 DEF Change, Listing
  <2>3. QED
    BY <1>6, <2>1, <2>2 DEF Change, pollVars
<1>7. QED
  BY <1>1, <1>2, <1>4, <1>5, <1>6

\* The steps that the streams take part in.
LEMMA ClientStep ==
  ASSUME FeedInv,
         \/ Baseline
         \/ \E n \in Name : Send(n)
         \/ \E c \in Client : Subscribe(c) \/ Leave(c) \/ Poll(c) \/ Tick(c)
  PROVE  FeedInv'
<1>1. TypeOK /\ PhaseInv /\ StreamTypes
  BY DEF FeedInv, TypeOK, StreamTypes
<1>2. CASE Baseline
  <2>1. StreamTypes' /\ fresh \in Listing
    BY <1>2, BaselineTypes
  <2>2. QED
    BY <1>1, <1>2, <2>1 DEF Baseline, FeedInv, TypeOK, StreamTypes, PhaseInv, Phase, NoneRead
<1>3. ASSUME NEW n \in Name, Send(n) PROVE FeedInv'
  <2>1. StreamTypes'
    BY <1>3, SendTypes
  <2>2. QED
    BY <1>1, <1>3, <2>1 DEF Send, FeedInv, TypeOK, StreamTypes, PhaseInv, Phase
<1>4. ASSUME NEW c \in Client, Subscribe(c) PROVE FeedInv'
  <2>1. stream' = [stream EXCEPT ![c] = NewStream] /\ stream[c] = Absent
    BY <1>4 DEF Subscribe
  <2>2. StreamTypes'
    BY <1>1, <2>1, NewStreamType, OneStreamTypes DEF FeedInv
  <2>3. phase' = "first" => \A d \in Connected' : stream'[d].queue = <<>>
    BY <1>1, <1>4, <2>1, NewStreamType DEF Subscribe, FeedInv, PhaseInv, TypeOK, Connected
  <2>4. phase' # "off" /\ phase' \in Phase
    BY <1>1, <1>4 DEF Subscribe, TypeOK, Phase
  <2>5. QED
    BY <1>1, <1>4, <2>2, <2>3, <2>4 DEF Subscribe, FeedInv, TypeOK, StreamTypes, PhaseInv
<1>5. ASSUME NEW c \in Client, Leave(c) PROVE FeedInv'
  <2>1. stream' = [stream EXCEPT ![c] = Absent] /\ stream[c] # Absent
    BY <1>5 DEF Leave
  <2>2. StreamTypes'
    BY <1>1, <2>1, OneStreamTypes
  <2>3. /\ Connected' = Connected \ {c} /\ phase # "off"
        /\ \A d \in Connected' : stream'[d] = stream[d]
    BY <1>1, <2>1 DEF TypeOK, PhaseInv, Connected
  <2>4. CASE Connected = {c}
    BY <1>1, <1>5, <2>2, <2>3, <2>4
    DEF Leave, FeedInv, TypeOK, StreamTypes, PhaseInv, Phase, Nothing, NoneRead, Listing
  <2>5. CASE Connected # {c}
    BY <1>1, <1>5, <2>2, <2>3, <2>5
    DEF Leave, FeedInv, TypeOK, StreamTypes, PhaseInv, pollVars
  <2>6. QED
    BY <2>4, <2>5
<1>6. ASSUME NEW c \in Client, Poll(c) \/ Tick(c) PROVE FeedInv'
  <2>1. PICK s \in WatchStream :
          /\ stream[c] # Absent
          /\ stream' = [stream EXCEPT ![c] = s]
          /\ \/ s.queue = stream[c].queue
             \/ stream[c].queue # <<>> /\ s.queue = Tail(stream[c].queue)
    BY <1>6, PollTypes
  <2>2. stream[c].queue \in Seq(FsEvent) /\ Len(stream[c].queue) <= Capacity /\ c \in Connected
    BY <1>1, <2>1 DEF TypeOK, WatchStream, Connected
  <2>3. Len(s.queue) <= Capacity
    <3>1. Len(stream[c].queue) \in Nat
      BY <2>2, LenProperties
    <3>2. stream[c].queue # <<>> => Len(Tail(stream[c].queue)) = Len(stream[c].queue) - 1
      BY <2>2, HeadTailProperties
    <3>3. CASE s.queue = stream[c].queue
      BY <2>2, <3>3
    <3>4. CASE stream[c].queue # <<>> /\ s.queue = Tail(stream[c].queue)
      <4>1. Len(s.queue) = Len(stream[c].queue) - 1
        BY <3>2, <3>4
      <4>2. QED
        BY <2>2, <3>1, <4>1, CapacityAssumption
    <3>5. QED
      BY <2>1, <3>3, <3>4
  <2>4. StreamTypes'
    BY <1>1, <2>1, <2>3, OneStreamTypes
  <2>5. UNCHANGED <<entries, faults, pollVars>> /\ phase # "off"
    BY <1>1, <1>6, <2>2 DEF Poll, Deliver, Idle, Tick, PhaseInv
  <2>6. phase = "first" => \A d \in Connected' : stream'[d].queue = <<>>
    BY <1>1, <2>1, <2>2 DEF PhaseInv, TypeOK, Connected
  <2>7. QED
    BY <1>1, <2>4, <2>5, <2>6 DEF FeedInv, TypeOK, StreamTypes, PhaseInv, pollVars
<1>7. QED
  BY <1>2, <1>3, <1>4, <1>5, <1>6

LEMMA FeedInvariant == Spec => []FeedInv
<1>1. Init => FeedInv
  BY StartAssumption, CapacityAssumption
  DEF Init, FeedInv, TypeOK, PhaseInv, Phase, Connected, Nothing, NoneRead, Listing
<1>2. FeedInv /\ [Next]_vars => FeedInv'
  <2>1. FeedInv /\ UNCHANGED vars => FeedInv'
    BY DEF vars, pollVars, FeedInv, TypeOK, PhaseInv, Connected
  <2>2. QED
    BY <2>1, TaskStep, ClientStep DEF Next, PollTask
<1>3. QED
  BY <1>1, <1>2, PTL DEF Spec

\* Every reachable state has its type, and no receiver is more than a channel
\* behind, for any names, clients and capacity.
THEOREM TypeCorrect == Spec => []TypeOK
BY FeedInvariant, PTL DEF FeedInv
----------------------------------------------------------------------------
(* The feed is exact.                                                      *)

\* FeedIsExact and EventsFit for one stream.
Exact(s, listing) == \A n \in Name : Foreseen(s, Len(s.queue), n) = listing[n]
Fits(s) ==
  \A i \in 1 .. Len(s.queue) :
    (s.queue[i].event_type = "created") <=>
      (Foreseen(s, i - 1, s.queue[i].name) = Absent)

ExactInv ==
  \A c \in Connected : ~stream[c].lost =>
    (phase # "first" => Exact(stream[c], Announced)) /\ Fits(stream[c])

LEMMA ExactMeans == FeedInv /\ ExactInv => FeedIsExact /\ EventsFit
<1> SUFFICES ASSUME FeedInv, ExactInv PROVE FeedIsExact /\ EventsFit
  OBVIOUS
<1>1. \A c \in Connected : DOMAIN stream[c].queue = 1 .. Len(stream[c].queue)
  BY LenProperties DEF FeedInv, TypeOK, Connected, WatchStream
<1>2. FeedIsExact
  BY DEF ExactInv, Exact, FeedIsExact
<1>3. EventsFit
  BY <1>1 DEF ExactInv, Fits, EventsFit
<1>4. QED
  BY <1>2, <1>3

\* A stream that receives an event foresees what the event says of its name,
\* and of the other names what it did before.
LEMMA ReceivesForesees ==
  ASSUME NEW s \in WatchStream, NEW event \in FsEvent, Len(s.queue) <= Capacity,
         ~Receives(s, event).lost, NEW n \in Name
  PROVE  LET t == Receives(s, event) IN
         /\ Len(t.queue) = Len(s.queue) + 1
         /\ \A i \in 1 .. Len(s.queue) : t.queue[i] = s.queue[i]
         /\ t.queue[Len(s.queue) + 1] = event
         /\ \A k \in 0 .. Len(s.queue) : Foreseen(t, k, n) = Foreseen(s, k, n)
         /\ Foreseen(t, Len(t.queue), n) =
              IF event.name = n THEN Says(event) ELSE Foreseen(s, Len(s.queue), n)
<1> DEFINE t == Receives(s, event)
           len == Len(s.queue)
<1>1. t.queue = Append(s.queue, event) /\ t.view = s.view
  BY ReceivesTypes
<1>2. s.queue \in Seq(FsEvent) /\ len \in Nat /\ s.view \in Listing
  BY LenProperties DEF WatchStream
<1>3. /\ Len(t.queue) = len + 1
      /\ \A i \in 1 .. len : t.queue[i] = s.queue[i]
      /\ t.queue[len + 1] = event
  BY <1>1, <1>2, AppendProperties
<1> HIDE DEF t, len
<1>4. ASSUME NEW k \in 0 .. len PROVE Foreseen(t, k, n) = Foreseen(s, k, n)
  <2>1. k \in Nat /\ \A i \in 1 .. k : t.queue[i] = s.queue[i]
    BY <1>2, <1>3
  <2>2. QED
    BY <1>1, <1>2, <2>1, ForeseenSame
<1>5. Foreseen(t, len + 1, n) =
        IF t.queue[len + 1].name = n THEN Says(t.queue[len + 1]) ELSE Foreseen(t, len, n)
  BY <1>1, <1>2, ForeseenNext
<1>6. len \in 0 .. len
  BY <1>2
<1>7. QED
  BY <1>3, <1>4, <1>5, <1>6 DEF t, len

\* A stream that delivers its first event foresees what it did before.
LEMMA DeliverForesees ==
  ASSUME NEW s \in WatchStream, NEW t \in WatchStream, s.queue # <<>>,
         t.queue = Tail(s.queue), t.view = After(s.view, Head(s.queue)), NEW n \in Name
  PROVE  /\ Len(s.queue) \in Nat /\ Len(s.queue) = Len(t.queue) + 1
         /\ \A i \in 1 .. Len(t.queue) : t.queue[i] = s.queue[i + 1]
         /\ \A k \in 0 .. Len(t.queue) : Foreseen(t, k, n) = Foreseen(s, k + 1, n)
<1>1. /\ s.queue \in Seq(FsEvent) /\ t.queue \in Seq(FsEvent)
      /\ s.view \in Listing /\ t.view \in Listing
  BY DEF WatchStream
<1>2. /\ Len(s.queue) \in Nat /\ Len(t.queue) \in Nat
      /\ Len(t.queue) = Len(s.queue) - 1
      /\ \A i \in 1 .. Len(t.queue) : t.queue[i] = s.queue[i + 1]
      /\ Head(s.queue) = s.queue[1] /\ Head(s.queue) \in FsEvent
  BY <1>1, HeadTailProperties, LenProperties
<1>3. ASSUME NEW k \in 0 .. Len(t.queue) PROVE Foreseen(t, k, n) = Foreseen(s, k + 1, n)
  <2>1. k \in Nat /\ \A i \in 1 .. k : t.queue[i] = s.queue[i + 1]
    BY <1>2
  <2>2. s.queue[1].name \in Name /\ t.view = After(s.view, s.queue[1])
    BY <1>2 DEF FsEvent
  <2>3. QED
    BY <1>1, <2>1, <2>2, ForeseenShift
<1>4. QED
  BY <1>2, <1>3

\* What is announced stays when the poll task does nothing, sees an end, or
\* begins to compare, and a sent event changes it for its name.
LEMMA AnnouncedKept ==
  ASSUME FeedInv,
         \/ UNCHANGED pollVars
         \/ Wake \/ Compare \/ EndRound
         \/ \E n \in Name : Scan(n) \/ Skip(n)
  PROVE  Announced' = Announced
<1> USE DEF FeedInv, TypeOK, PhaseInv
<1>1. CASE UNCHANGED pollVars
  BY <1>1 DEF pollVars, Announced, Due, Created, Modified, Deleted
<1>2. CASE Wake \/ \E n \in Name : Scan(n) \/ Skip(n)
  BY <1>2 DEF Wake, Scan, Skip, Read, Announced
<1>3. CASE Compare
  <2>1. /\ phase # "compare" /\ phase' = "compare" /\ told' = {}
        /\ fresh' = fresh /\ snapshot' = snapshot
    BY <1>3 DEF Compare
  <2>2. \A n \in Name : n \notin Due' => fresh[n] = snapshot[n]
    BY <2>1 DEF Due, Created, Modified, Deleted, Changed
  <2>3. QED
    BY <2>1, <2>2 DEF Announced
<1>4. CASE EndRound
  BY <1>4 DEF EndRound, Announced
<1>5. QED
  BY <1>1, <1>2, <1>3, <1>4

LEMMA AnnouncedSent ==
  ASSUME FeedInv, NEW n \in Name, Send(n)
  PROVE  /\ Announced[n] = snapshot[n]
         /\ Announced'[n] = fresh[n]
         /\ \A m \in Name \ {n} : Announced'[m] = Announced[m]
<1>1. /\ phase = "compare" /\ phase' = phase /\ n \in Due /\ told' = told \cup {n}
      /\ snapshot' = snapshot /\ fresh' = fresh
  BY EventTypes DEF Send
<1>2. Due' = Due \ {n}
  BY <1>1 DEF Due, Created, Modified, Deleted
<1>3. QED
  BY <1>1, <1>2 DEF Announced
\* A stream whose queue is empty is exact when its view is.
LEMMA EmptyIsExact ==
  ASSUME NEW s, s.queue = <<>>
  PROVE  Exact(s, s.view) /\ Fits(s)
<1>1. Len(s.queue) = 0
  BY EmptySeq
<1>2. ASSUME NEW n PROVE Foreseen(s, 0, n) = s.view[n]
  <2>1. 0 \in Nat /\ \A i \in 1 .. 0 : s.queue[i].name # n
    OBVIOUS
  <2>2. QED
    BY <2>1, ForeseenNone
<1>3. QED
  BY <1>1, <1>2 DEF Exact, Fits

\* An event keeps a stream exact that fits and says what is now announced.
LEMMA ReceivesIsExact ==
  ASSUME NEW s \in WatchStream, NEW event \in FsEvent, Len(s.queue) <= Capacity,
         ~Receives(s, event).lost, NEW old, NEW new,
         Exact(s, old), Fits(s),
         event.event_type = "created" <=> old[event.name] = Absent,
         new[event.name] = Says(event),
         \A n \in Name \ {event.name} : new[n] = old[n]
  PROVE  Exact(Receives(s, event), new) /\ Fits(Receives(s, event))
<1> DEFINE t == Receives(s, event)
           len == Len(s.queue)
<1>1. len \in Nat /\ event.name \in Name /\ \A i \in 1 .. len : s.queue[i].name \in Name
  <2>1. s.queue \in Seq(FsEvent)
    BY DEF WatchStream
  <2>2. len \in Nat /\ \A i \in 1 .. len : s.queue[i] \in FsEvent
    BY <2>1, LenProperties, ElementOfSeq
  <2>3. QED
    BY <2>2 DEF FsEvent
<1>2. /\ Len(t.queue) = len + 1
      /\ \A i \in 1 .. len : t.queue[i] = s.queue[i]
      /\ t.queue[len + 1] = event
  BY <1>1, ReceivesForesees
<1>3. \A n \in Name : \A k \in 0 .. len : Foreseen(t, k, n) = Foreseen(s, k, n)
  BY ReceivesForesees
<1>4. \A n \in Name : Foreseen(t, Len(t.queue), n) =
        IF event.name = n THEN Says(event) ELSE Foreseen(s, len, n)
  BY ReceivesForesees
<1>5. \A n \in Name : Foreseen(s, len, n) = old[n]
  BY DEF Exact
<1> HIDE DEF t
<1>6. Exact(t, new)
  BY <1>1, <1>4, <1>5 DEF Exact
<1>7. ASSUME NEW i \in 1 .. len + 1
      PROVE  t.queue[i].event_type = "created" <=>
               Foreseen(t, i - 1, t.queue[i].name) = Absent
  <2>1. CASE i = len + 1
    <3>1. i - 1 = len /\ len \in 0 .. len
      BY <1>1, <2>1
    <3>2. Foreseen(t, len, event.name) = old[event.name]
      BY <1>1, <1>3, <1>5, <3>1
    <3>3. QED
      BY <1>2, <2>1, <3>1, <3>2
  <2>2. CASE i # len + 1
    <3>1. i \in 1 .. len /\ i - 1 \in 0 .. len
      BY <1>1, <2>2
    <3>2. t.queue[i] = s.queue[i]
      BY <1>2, <3>1
    <3>3. Foreseen(t, i - 1, s.queue[i].name) = Foreseen(s, i - 1, s.queue[i].name)
      BY <1>1, <1>3, <3>1
    <3>4. s.queue[i].event_type = "created" <=> Foreseen(s, i - 1, s.queue[i].name) = Absent
      BY <3>1 DEF Fits
    <3>5. QED
      BY <3>2, <3>3, <3>4
  <2>3. QED
    BY <2>1, <2>2
<1>8. Fits(t)
  BY <1>2, <1>7 DEF Fits
<1>9. QED
  BY <1>6, <1>8 DEF t

\* A delivery takes nothing from what a stream foresees.
LEMMA DeliverIsExact ==
  ASSUME NEW s \in WatchStream, NEW t \in WatchStream, s.queue # <<>>,
         t.queue = Tail(s.queue), t.view = After(s.view, Head(s.queue)), NEW listing
  PROVE  /\ Exact(s, listing) => Exact(t, listing)
         /\ Fits(s) => Fits(t)
<1> DEFINE len == Len(t.queue)
<1>1. t.queue \in Seq(FsEvent) /\ len \in Nat
  BY LenProperties DEF WatchStream
<1>2. \A n \in Name : \A k \in 0 .. len : Foreseen(t, k, n) = Foreseen(s, k + 1, n)
  BY DeliverForesees
<1>3. ASSUME Exact(s, listing) PROVE Exact(t, listing)
  <2> SUFFICES ASSUME NEW n \in Name PROVE Foreseen(t, len, n) = listing[n]
    BY DEF Exact
  <2>1. Len(s.queue) = len + 1
    BY DeliverForesees
  <2>2. Foreseen(t, len, n) = Foreseen(s, len + 1, n)
    BY <1>1, <1>2
  <2>3. QED
    BY <1>3, <2>1, <2>2 DEF Exact
<1>4. ASSUME Fits(s), NEW i \in 1 .. len
      PROVE  t.queue[i].event_type = "created" <=> Foreseen(t, i - 1, t.queue[i].name) = Absent
  <2>1. t.queue[i].name \in Name
    <3>1. t.queue[i] \in FsEvent
      BY <1>1, ElementOfSeq
    <3>2. QED
      BY <3>1 DEF FsEvent
  <2>2. Len(s.queue) = len + 1 /\ t.queue[i] = s.queue[i + 1]
    BY <2>1, DeliverForesees
  <2>3. i - 1 \in 0 .. len /\ (i - 1) + 1 = (i + 1) - 1 /\ i + 1 \in 1 .. len + 1
    BY <1>1
  <2>4. Foreseen(t, i - 1, t.queue[i].name) = Foreseen(s, (i + 1) - 1, t.queue[i].name)
    BY <1>2, <2>1, <2>3
  <2>5. s.queue[i + 1].event_type = "created" <=>
          Foreseen(s, (i + 1) - 1, s.queue[i + 1].name) = Absent
    BY <1>4, <2>2, <2>3 DEF Fits
  <2>6. QED
    BY <2>2, <2>4, <2>5
<1>5. Fits(s) => Fits(t)
  BY <1>4 DEF Fits
<1>6. QED
  BY <1>3, <1>5
\* The steps that send nothing and move no stream.
LEMMA QuietStep ==
  ASSUME FeedInv, ExactInv, stream' = stream,
         \/ UNCHANGED pollVars
         \/ Wake \/ Compare \/ EndRound
         \/ \E n \in Name : Scan(n) \/ Skip(n)
  PROVE  ExactInv'
<1>1. Announced' = Announced
  BY AnnouncedKept
<1>2. phase = "first" => phase' = "first"
  BY DEF pollVars, Wake, Compare, EndRound, Scan, Skip, Read
<1>3. Connected' = Connected
  BY DEF Connected
<1>4. QED
  BY <1>1, <1>2, <1>3 DEF ExactInv

\* The first snapshot makes it what all streams take for granted.
LEMMA BaselineStep ==
  ASSUME FeedInv, Baseline
  PROVE  ExactInv'
<1>1. /\ Connected' = Connected
      /\ \A c \in Connected : stream'[c] = [stream[c] EXCEPT !.view = fresh]
  BY BaselineTypes
<1>2. fresh \in Listing
  BY BaselineTypes
<1>3. snapshot' = fresh /\ phase' = "sleep"
  BY DEF Baseline
<1>4. Announced' = fresh
  BY <1>2, <1>3 DEF Announced, Listing
<1>5. ASSUME NEW c \in Connected PROVE stream'[c].queue = <<>> /\ stream'[c].view = fresh
  <2>1. stream[c] \in WatchStream /\ stream[c].queue = <<>>
    BY DEF FeedInv, TypeOK, PhaseInv, Connected, Baseline
  <2>2. QED
    BY <1>1, <2>1 DEF WatchStream
<1>6. \A c \in Connected : Exact(stream'[c], fresh) /\ Fits(stream'[c])
  BY <1>5, EmptyIsExact
<1>7. QED
  BY <1>1, <1>4, <1>6 DEF ExactInv

LEMMA SendStep ==
  ASSUME FeedInv, ExactInv, NEW n \in Name, Send(n)
  PROVE  ExactInv'
<1> DEFINE event == EventOf(n)
<1>1. phase = "compare" /\ n \in Loop /\ phase' = phase
  BY DEF Send
<1>2. /\ event \in FsEvent /\ event.name = n
      /\ Says(event) = fresh[n]
      /\ event.event_type = "created" <=> snapshot[n] = Absent
  BY <1>1, EventTypes
<1>3. /\ Announced[n] = snapshot[n]
      /\ Announced'[n] = fresh[n]
      /\ \A m \in Name \ {n} : Announced'[m] = Announced[m]
  BY AnnouncedSent
<1>4. /\ Connected' = Connected
      /\ \A c \in Connected : stream'[c] = Receives(stream[c], event)
  BY SendTypes
<1> HIDE DEF event
<1>5. ASSUME NEW c \in Connected, ~stream'[c].lost
      PROVE  Exact(stream'[c], Announced') /\ Fits(stream'[c])
  <2>1. stream[c] \in WatchStream /\ Len(stream[c].queue) <= Capacity
    BY DEF FeedInv, TypeOK, Connected
  <2>2. ~Receives(stream[c], event).lost
    BY <1>4, <1>5
  <2>3. ~stream[c].lost
    BY <1>2, <2>1, <2>2, ReceivesTypes
  <2>4. Exact(stream[c], Announced) /\ Fits(stream[c])
    BY <1>1, <2>3 DEF ExactInv
  <2>5. /\ event.event_type = "created" <=> Announced[event.name] = Absent
        /\ Announced'[event.name] = Says(event)
        /\ \A m \in Name \ {event.name} : Announced'[m] = Announced[m]
    BY <1>2, <1>3
  <2> DEFINE old == Announced
             new == Announced'
  <2> HIDE DEF old, new
  <2>6. Exact(Receives(stream[c], event), new) /\ Fits(Receives(stream[c], event))
    <3>1. /\ Exact(stream[c], old)
          /\ event.event_type = "created" <=> old[event.name] = Absent
          /\ new[event.name] = Says(event)
          /\ \A m \in Name \ {event.name} : new[m] = old[m]
      BY <2>4, <2>5 DEF old, new
    <3>2. QED
      BY <1>2, <2>1, <2>2, <2>4, <3>1, ReceivesIsExact
  <2>7. QED
    BY <1>4, <2>6 DEF new
<1>6. QED
  BY <1>4, <1>5 DEF ExactInv

\* A client that comes takes for granted what is announced, and the first one
\* has a task that has yet to announce something.
LEMMA SubscribeStep ==
  ASSUME FeedInv, ExactInv, NEW c \in Client, Subscribe(c)
  PROVE  ExactInv'
<1>1. /\ stream' = [stream EXCEPT ![c] = NewStream] /\ stream[c] = Absent
      /\ phase' = IF phase = "off" THEN "first" ELSE phase
      /\ snapshot' = snapshot /\ fresh' = fresh /\ told' = told
  BY DEF Subscribe
<1>2. NewStream \in WatchStream /\ NewStream.queue = <<>> /\ NewStream.view = Announced
  BY NewStreamType DEF NewStream
<1>3. Exact(NewStream, Announced) /\ Fits(NewStream)
  BY <1>2, EmptyIsExact
<1>4. phase' # "first" => Announced' = Announced
  <2>1. phase' # "first" => UNCHANGED pollVars
    BY <1>1 DEF pollVars
  <2>2. QED
    BY <2>1, AnnouncedKept
<1>5. /\ Connected' \subseteq Connected \cup {c}
      /\ \A d \in Connected' \ {c} : stream'[d] = stream[d]
      /\ stream'[c] = NewStream
  BY <1>1 DEF Connected, FeedInv, TypeOK
<1>6. phase' # "first" => phase # "first"
  BY <1>1
<1>7. ASSUME NEW d \in Connected', ~stream'[d].lost
      PROVE  (phase' # "first" => Exact(stream'[d], Announced')) /\ Fits(stream'[d])
  <2>1. CASE d = c
    BY <1>3, <1>4, <1>5, <2>1
  <2>2. CASE d # c
    <3>1. d \in Connected /\ stream'[d] = stream[d] /\ ~stream[d].lost
      BY <1>5, <1>7, <2>2
    <3>2. (phase # "first" => Exact(stream[d], Announced)) /\ Fits(stream[d])
      BY <3>1 DEF ExactInv
    <3>3. QED
      BY <1>4, <1>6, <3>1, <3>2
  <2>3. QED
    BY <2>1, <2>2
<1>8. QED
  BY <1>7 DEF ExactInv

LEMMA LeaveStep ==
  ASSUME FeedInv, ExactInv, NEW c \in Client, Leave(c)
  PROVE  ExactInv'
<1>1. /\ Connected' = Connected \ {c}
      /\ \A d \in Connected' : stream'[d] = stream[d]
  BY DEF Leave, Connected, FeedInv, TypeOK
<1>2. CASE Connected = {c}
  BY <1>1, <1>2 DEF ExactInv
<1>3. CASE Connected # {c}
  <2>1. UNCHANGED pollVars
    BY <1>3 DEF Leave
  <2>2. Announced' = Announced /\ phase' = phase
    BY <2>1, AnnouncedKept DEF pollVars
  <2>3. QED
    BY <1>1, <2>2 DEF ExactInv
<1>4. QED
  BY <1>2, <1>3

LEMMA PollStep ==
  ASSUME FeedInv, ExactInv, NEW c \in Client, Poll(c) \/ Tick(c)
  PROVE  ExactInv'
<1>1. PICK t \in WatchStream :
        /\ stream[c] # Absent
        /\ stream' = [stream EXCEPT ![c] = t]
        /\ t.lost = stream[c].lost
        /\ \/ t.queue = stream[c].queue /\ t.view = stream[c].view
           \/ /\ stream[c].queue # <<>>
              /\ t.queue = Tail(stream[c].queue)
              /\ t.view = After(stream[c].view, Head(stream[c].queue))
  BY PollTypes
<1> DEFINE s == stream[c]
<1>2. s \in WatchStream /\ c \in Connected
  BY <1>1 DEF FeedInv, TypeOK, Connected
<1>3. UNCHANGED pollVars
  BY DEF Poll, Deliver, Idle, Tick
<1>4. Announced' = Announced /\ phase' = phase
  BY <1>3, AnnouncedKept DEF pollVars
<1>5. /\ Connected' = Connected
      /\ \A d \in Connected \ {c} : stream'[d] = stream[d]
      /\ stream'[c] = t
  BY <1>1, <1>2, AbsentAssumption DEF Connected, FeedInv, TypeOK
<1>6. (Exact(s, Announced) => Exact(t, Announced)) /\ (Fits(s) => Fits(t))
  <2>1. CASE t.queue = s.queue /\ t.view = s.view
    BY <2>1 DEF Exact, Fits, Foreseen
  <2>2. CASE s.queue # <<>> /\ t.queue = Tail(s.queue) /\ t.view = After(s.view, Head(s.queue))
    BY <1>2, <2>2, DeliverIsExact
  <2>3. QED
    BY <1>1, <2>1, <2>2
<1>7. QED
  BY <1>1, <1>2, <1>4, <1>5, <1>6 DEF ExactInv

LEMMA ExactInvariant == Spec => []ExactInv
<1>1. Init => ExactInv
  BY DEF Init, ExactInv, Connected
<1>2. FeedInv /\ ExactInv /\ [Next]_vars => ExactInv'
  <2> SUFFICES ASSUME FeedInv, ExactInv, [Next]_vars PROVE ExactInv'
    OBVIOUS
  <2>1. CASE Wake \/ Compare \/ EndRound \/ \E n \in Name : Scan(n) \/ Skip(n)
    <3>1. stream' = stream
      BY <2>1 DEF Wake, Compare, EndRound, Scan, Skip, Read
    <3>2. QED
      BY <2>1, <3>1, QuietStep
  <2>2. CASE UNCHANGED vars \/ \E n \in Name, e \in Stamp \cup {Absent} : Change(n, e)
    <3>1. stream' = stream /\ UNCHANGED pollVars
      BY <2>2 DEF vars, pollVars, Change
    <3>2. QED
      BY <3>1, QuietStep
  <2>3. CASE Baseline
    BY <2>3, BaselineStep
  <2>4. CASE \E n \in Name : Send(n)
    BY <2>4, SendStep
  <2>5. CASE \E c \in Client : Subscribe(c) \/ Leave(c) \/ Poll(c) \/ Tick(c)
    BY <2>5, SubscribeStep, LeaveStep, PollStep
  <2>6. QED
    BY <2>1, <2>2, <2>3, <2>4, <2>5 DEF Next, PollTask
<1>3. QED
  BY <1>1, <1>2, FeedInvariant, PTL DEF Spec

\* A client that lost no event has been sent, or will find in its channel, all
\* that the poll task has announced: wherever in a round it subscribed, and
\* however far behind it is.
THEOREM FeedIsAlwaysExact == Spec => []FeedIsExact
BY FeedInvariant, ExactInvariant, ExactMeans, PTL

\* The events a client finds in its channel make sense one after the other,
\* if it lost none.
THEOREM EventsAlwaysFit == Spec => []EventsFit
BY FeedInvariant, ExactInvariant, ExactMeans, PTL
=============================================================================
