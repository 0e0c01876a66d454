-------------------------------- MODULE Bill --------------------------------
(***************************************************************************)
(* One split as it is stored: the rows of splits, items and participants   *)
(* that never change once the split exists (schema.sql), and the amount a  *)
(* participant owes for a given set of claims (recomputeOwedTx's formula). *)
(***************************************************************************)
EXTENDS ShareMath, FiniteSets

CONSTANTS
    Friends,    \* people who may join through the share link
    Owner,      \* the owner's own participant row; it never claims items
    Items,      \* the split's item rows
    Included,   \* those with included_in_split = true
    LineTotal,  \* line_total_sen of each item
    TaxTotal    \* sst_sen + service_sen + rounding_sen of the split

ASSUME OwnerAssumption == Owner \notin Friends
ASSUME IncludedAssumption == Included \subseteq Items
ASSUME BillAssumption == IsFiniteSet(Items) /\ LineTotal \in [Items -> Int] /\ TaxTotal \in Int

Participants == Friends \cup {Owner}

\* The claims table: the set of items each participant has claimed.
ClaimTables == [Participants -> SUBSET Items]
NoClaims == [p \in Participants |-> {}]

SplittableSubtotal == SumFunctionOnSet(LineTotal, Included)

Claimants(C) ==
    [i \in Items |-> Cardinality({p \in Participants : i \in C[p]})]

\* What the claims table C makes p owe.
OwedFor(p, C) ==
    Owed(ClaimedSen(C[p] \cap Included, LineTotal, Claimants(C)),
         SplittableSubtotal, TaxTotal)

\* Every amount some claims table could justify.
OwedValues == {0} \cup {OwedFor(p, C) : p \in Participants, C \in ClaimTables}

=============================================================================
