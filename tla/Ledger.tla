------------------------------- MODULE Ledger -------------------------------
(***************************************************************************)
(* What the store promises about one split, every operation one step:      *)
(* SetClaims replaces a participant's claimed items and recomputes the     *)
(* amounts of everyone in the split.  SplitClaims refines this when its    *)
(* transactions do not overlap.                                            *)
(***************************************************************************)
EXTENDS Bill

VARIABLES
    joined,   \* participant rows of the split; {} once the split is deleted
    claims,   \* claims rows
    owed      \* participants.owed_sen

vars == <<joined, claims, owed>>

TypeOK ==
    /\ joined \subseteq Participants
    /\ claims \in ClaimTables
    /\ owed \in [Participants -> OwedValues]

\* CreateSplit has just committed: the owner is a participant already.
Init ==
    /\ joined = {Owner}
    /\ claims = NoClaims
    /\ owed = [p \in Participants |-> 0]

CreateParticipant(f) ==
    /\ Owner \in joined
    /\ f \notin joined
    /\ joined' = joined \cup {f}
    /\ UNCHANGED <<claims, owed>>

SetClaims(f, want) ==
    /\ f \in joined
    /\ claims' = [claims EXCEPT ![f] = want \cap Included]
    /\ owed' = [p \in Participants |-> IF p \in joined THEN OwedFor(p, claims') ELSE owed[p]]
    /\ UNCHANGED joined

\* Cascades to items, participants and claims.
DeleteSplit ==
    /\ Owner \in joined
    /\ joined' = {}
    /\ claims' = NoClaims
    /\ owed' = [p \in Participants |-> 0]

Next ==
    \/ \E f \in Friends :
        \/ CreateParticipant(f)
        \/ \E want \in SUBSET Items : SetClaims(f, want)
    \/ DeleteSplit

Spec == Init /\ [][Next]_vars

=============================================================================
