--------------------------- MODULE MCLockManager ---------------------------
(* Small instances of LockManager for TLC. *)
EXTENDS LockManager, TLC

CONSTANTS r1, r2, r3, u1, u2, u3, p1, p2

\* Two requests of one user and one of another.
SharedUser == (r1 :> u1) @@ (r2 :> u1) @@ (r3 :> u2)

\* Three users with one request each.
OwnUser == (r1 :> u1) @@ (r2 :> u2) @@ (r3 :> u3)
=============================================================================
