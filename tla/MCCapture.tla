----------------------------- MODULE MCCapture -----------------------------
(* A small instance of Capture for TLC. *)
EXTENDS Capture

CONSTANTS s1, b1, b2, u1, u2

MCScans == {s1}
MCSubmits == {b1, b2}
MCSlugs == {u1, u2}
=============================================================================
