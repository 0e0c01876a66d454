------------------------------- MODULE MCTrack -------------------------------
(* A small instance of Track for TLC. *)
EXTENDS Track

CONSTANTS alice, bob, owner, rice, h1, h2

MCFriends == {alice, bob}
MCItems == {rice}
\* The page's promises are about who has paid, not how much: with a free item
\* the amounts do not multiply the states.
Free == [i \in MCItems |-> 0]
MCCalls == {h1, h2}
=============================================================================
