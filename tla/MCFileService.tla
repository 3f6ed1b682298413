--------------------------- MODULE MCFileService ---------------------------
(* Small instances of FileService for TLC. *)
EXTENDS FileService, TLC

CONSTANTS r1, r2, u1, u2, p1, p2

\* Two users with one request each.
TwoUsers == (r1 :> u1) @@ (r2 :> u2)

\* The users, each with its request, may be exchanged, and so may the paths.
OtherUser == (r1 :> r2) @@ (r2 :> r1) @@ (u1 :> u2) @@ (u2 :> u1)
Symmetry == {OtherUser} \cup Permutations({p1, p2})
=============================================================================
