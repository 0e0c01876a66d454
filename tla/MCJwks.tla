------------------------------- MODULE MCJwks -------------------------------
(* A small instance of Jwks for TLC. *)
EXTENDS Jwks

CONSTANTS old, new, l1, l2

MCKids == {old, new}
MCLookups == {l1, l2}
=============================================================================
