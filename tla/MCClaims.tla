------------------------------ MODULE MCClaims ------------------------------
(* Small instances of SplitClaims for TLC. *)
EXTENDS SplitClaims, TLC

CONSTANTS alice, bob, owner, rice, tea, wine, t1, t2

MCFriends == {alice, bob}
MCItems == {rice, tea}
ThreeItems == {rice, tea, wine}   \* wine is on the receipt but not split
OneItem == {rice}
MCLineTotal ==
    [i \in Items |-> CASE i = rice -> 101 [] i = tea -> 60 [] OTHER -> 500]
MCTxs == {t1, t2}
OneTx == {t1}

\* `want` only records the request: no step after Begin reads it, and of the
\* properties only ClaimsReplaced does.
WithoutWant == <<stored, pc, who, claimRows, owedRows>>

\* Two friends who save at the same time: the requests open together are
\* different friends', and each claims something.
TwoFriends ==
    /\ \A t, u \in Txs : t # u /\ Active(t) /\ Active(u) => who[t] # who[u]
    /\ \A t \in Txs : pc[t] = "deleting" => rest[t] # {}
FriendsSpec == Init /\ TwoFriends /\ [][Next /\ TwoFriends']_vars

Symmetry == Permutations(MCTxs) \cup Permutations(MCFriends)
=============================================================================
