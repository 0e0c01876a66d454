------------------------------ MODULE MCProfile ------------------------------
(* A small instance of Profile for TLC. *)
EXTENDS Profile, TLC

CONSTANTS r1, r2

MCRequests == {r1, r2}
MCSymmetry == Permutations(MCRequests)
=============================================================================
