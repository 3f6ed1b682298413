-------------------------- MODULE MCIdentityGuard --------------------------
(* Small instances of IdentityGuard for TLC. *)
EXTENDS IdentityGuard, TLC

CONSTANTS root, u1, u2, g1, g2, t1, t2, t3

RootService == [uid |-> root, gid |-> root, groups |-> {g1}]

\* A service without supplementary groups, so that a request which names none
\* has its groups if it is alone.
BareService == [uid |-> root, gid |-> root, groups |-> {}]

Symmetry == Permutations({t1, t2, t3})
=============================================================================
