------------------------------ MODULE MCBroker ------------------------------
(* A small instance of Broker for TLC. *)
EXTENDS Broker

CONSTANTS dinner, lunch, c1, c2, m1, m2, m3

MCSplits == {dinner, lunch}
MCClients == {c1, c2}
MCMessages == {m1, m2, m3}

\* Two messages and one client are about dinner; the third message and the
\* other client may be about either split.
MCInit ==
    /\ Init
    /\ on[c1] = dinner
    /\ to[m1] = dinner
    /\ to[m2] = dinner

MCSpec == MCInit /\ [][Next]_vars /\ Fairness
=============================================================================
