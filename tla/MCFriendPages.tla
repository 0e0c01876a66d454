---------------------------- MODULE MCFriendPages ----------------------------
(* A small instance of FriendPages for TLC. *)
EXTENDS FriendPages, TLC

CONSTANTS alice, bob, owner, rice, tea, s1, s2, api, ali, bo

MCFriends == {alice, bob}
MCItems == {rice, tea}
MCLineTotal == [i \in MCItems |-> IF i = rice THEN 101 ELSE 60]
MCPagers == {alice}
MCNames == {ali, bo}
MCSaves == {s1, s2}
MCTxs == (MCPagers \X MCSaves) \union {api}
Symmetry == Permutations(MCSaves) \union Permutations(MCNames)

\* The bounds: two requests are on their way at once only while the pick page of
\* a friend who has not paid yet is open, and only if the friends have different
\* names: of pages of equal names only PaidAsAsked says something, and no other
\* page saves.  The friend without a page claims the
\* one dish.
InFlight == {s \in MCSaves : save[alice][s] # Idle} \union {t \in {api} : at[t] # "idle"}
Bounds ==
    /\ \/ Cardinality(InFlight) <= 1
       \/ /\ Cardinality(InFlight) = 2
          /\ page[alice] = "pick"
          /\ ~paid[alice]
          /\ name[alice] # name[bob]
    /\ add[api] \subseteq {rice}
MCSpec == FInit /\ [][FNext /\ Bounds']_fvars
=============================================================================
