----------------------------- MODULE OpenLedger -----------------------------
(***************************************************************************)
(* What the store promises about one split when SetClaims transactions     *)
(* overlap, and no more: each replaces the rows its participant had when   *)
(* it began, recomputes the amounts from the claims it could see, and      *)
(* leaves both at its commit, in one step.  SplitClaims implements this.   *)
(*                                                                         *)
(* Nobody waits here: whatever Postgres makes wait may also come later.    *)
(* Ledger is the promise to transactions that do not overlap.              *)
(***************************************************************************)
EXTENDS Bill

CONSTANT Txs   \* SetClaims calls that may be open at once

VARIABLES
    joined, claims, owed,   \* committed rows, as in Ledger
    at,     \* how far each transaction is: "idle", "open" or "read"
    who,    \* its participant
    had,    \* claim rows of `who` it deletes (items)
    add,    \* claim rows it has inserted (items)
    seen    \* the claims it computes the amounts from

rows == <<joined, claims, owed>>
open == <<at, who, had, add, seen>>
vars == <<rows, open>>

SplitExists == Owner \in joined

\* The claims table as a statement of t sees it, and as t would commit it.
View(t) == [claims EXCEPT ![who[t]] = (@ \ had[t]) \union add[t]]

\* CreateSplit has just committed: the owner is a participant already.
Init ==
    /\ joined = {Owner}
    /\ claims = NoClaims
    /\ owed = [p \in Participants |-> 0]
    /\ at = [t \in Txs |-> "idle"]
    /\ who = [t \in Txs |-> Owner]
    /\ had = [t \in Txs |-> {}]
    /\ add = [t \in Txs |-> {}]
    /\ seen = [t \in Txs |-> NoClaims]

CreateParticipant(f) ==
    /\ SplitExists
    /\ f \notin joined
    /\ joined' = joined \union {f}
    /\ UNCHANGED <<claims, owed, open>>

\* Cascades to items, participants and claims; it waits for transactions that
\* have inserted a claim.
DeleteSplit ==
    /\ SplitExists
    /\ \A t \in Txs : add[t] = {}
    /\ joined' = {}
    /\ claims' = NoClaims
    /\ owed' = [p \in Participants |-> 0]
    /\ had' = [t \in Txs |-> {}]
    /\ UNCHANGED <<at, who, add, seen>>

-----------------------------------------------------------------------------
\* SetClaims.

\* The delete's snapshot: rows committed later survive it.
Begin(t, f) ==
    /\ at[t] = "idle"
    /\ f \in joined
    /\ at' = [at EXCEPT ![t] = "open"]
    /\ who' = [who EXCEPT ![t] = f]
    /\ had' = [had EXCEPT ![t] = claims[f]]
    /\ UNCHANGED <<rows, add, seen>>

\* Nothing is inserted for an item that is not split, that is claimed already,
\* or whose split has gone.
Insertable(t, i) == SplitExists /\ i \in Included \ View(t)[who[t]]

\* No other open transaction has inserted the same row.
Insert(t, i) ==
    /\ at[t] = "open"
    /\ Insertable(t, i)
    /\ \A u \in Txs \ {t} : at[u] # "idle" /\ who[u] = who[t] => i \notin add[u]
    /\ add' = [add EXCEPT ![t] = @ \union {i}]
    /\ UNCHANGED <<rows, at, who, had, seen>>

\* recomputeOwedTx reads the claims.
Read(t) ==
    /\ at[t] = "open"
    /\ at' = [at EXCEPT ![t] = "read"]
    /\ seen' = [seen EXCEPT ![t] = View(t)]
    /\ UNCHANGED <<rows, who, had, add>>

\* Those who got their claims after t read none of theirs: their amount is left
\* alone, or set to 0 if the last UPDATE began before they had any.
Unread(t) == {p \in joined : seen[t][p] = {} /\ View(t)[p] # {}}

\* The amounts t leaves: what it read makes people owe, and nothing for those
\* who have no claims any more.
Amounts(t, zeroed) ==
    [p \in Participants |->
        IF p \notin joined \/ p \in Unread(t) \ zeroed THEN owed[p]
        ELSE IF seen[t][p] = {} \/ View(t)[p] = {} THEN 0
        ELSE OwedFor(p, seen[t])]

\* The transaction is over.
End(t) ==
    /\ at' = [at EXCEPT ![t] = "idle"]
    /\ who' = [who EXCEPT ![t] = Owner]
    /\ add' = [add EXCEPT ![t] = {}]
    /\ seen' = [seen EXCEPT ![t] = NoClaims]

\* Mutant: the amounts are added to what is stored.
CommitAdding(t) ==
    /\ at[t] = "read"
    /\ claims' = View(t)
    /\ owed' = [p \in Participants |-> owed[p] + Amounts(t, {})[p]]
    /\ had' = [u \in Txs |-> IF u = t THEN {} ELSE had[u]]
    /\ End(t)
    /\ UNCHANGED joined

\* What others of the same participant were still to delete and t has deleted
\* is gone for them.
Commit(t) ==
    /\ at[t] = "read"
    /\ claims' = View(t)
    /\ \E zeroed \in SUBSET Unread(t) : owed' = Amounts(t, zeroed)
    /\ had' = [u \in Txs |-> IF u = t THEN {}
                             ELSE IF who[u] = who[t] THEN had[u] \ had[t] ELSE had[u]]
    /\ End(t)
    /\ UNCHANGED joined

\* Any statement may fail: nothing remains.
Rollback(t) ==
    /\ at[t] # "idle"
    /\ had' = [had EXCEPT ![t] = {}]
    /\ End(t)
    /\ UNCHANGED rows

-----------------------------------------------------------------------------
Next ==
    \/ \E f \in Friends : CreateParticipant(f)
    \/ DeleteSplit
    \/ \E t \in Txs :
        \/ \E f \in Friends : Begin(t, f)
        \/ \E i \in Included : Insert(t, i)
        \/ Read(t)
        \/ Commit(t)
        \/ Rollback(t)

Spec == Init /\ [][Next]_vars

-----------------------------------------------------------------------------
\* Type correctness; every stored amount is one that the share formula gives
\* for some claims table.
TypeOK ==
    /\ joined \subseteq Participants
    /\ claims \in ClaimTables
    /\ owed \in [Participants -> OwedValues]
    /\ at \in [Txs -> {"idle", "open", "read"}]
    /\ who \in [Txs -> Participants]
    /\ had \in [Txs -> SUBSET Items]
    /\ add \in [Txs -> SUBSET Items]
    /\ seen \in [Txs -> ClaimTables]

\* t commits with its read still current.
Current(t) == seen[t] = View(t)

=============================================================================
