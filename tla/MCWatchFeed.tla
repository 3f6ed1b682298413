---------------------------- MODULE MCWatchFeed ----------------------------
(* A small instance of WatchFeed for TLC. *)
EXTENDS WatchFeed

\* All names are there, and equally old.
FullDirectory == {[n \in Name |-> 0]}
=============================================================================
