----------------------------- MODULE SplitClaims -----------------------------
(***************************************************************************)
(* Store.SetClaims and its neighbours (store.go) as Postgres runs them:    *)
(* each SetClaims is a READ COMMITTED transaction of many statements, and  *)
(* requests of several friends (or of two tabs of one friend) interleave   *)
(* statement by statement.                                                 *)
(*                                                                         *)
(* A plain read sees what is committed plus the transaction's own writes   *)
(* (View).  A write waits while another transaction holds the row, and     *)
(* keeps the row until its transaction ends.  CreateParticipant and        *)
(* DeleteSplit are single statements, so single steps.                     *)
(*                                                                         *)
(* Statements that visit several rows (the request's items, Go's map of    *)
(* amounts, the heap) may visit them in any order here.                    *)
(***************************************************************************)
EXTENDS Bill

CONSTANT Txs   \* server goroutines that may be inside SetClaims at once

VARIABLES
    joined, claims, owed,   \* committed rows, as in Ledger
    pc,       \* the statement each transaction is at
    who,      \* its participantID
    want,     \* its itemIDs
    todo,     \* DELETE: rows of `who` its snapshot holds, not yet deleted
    del,      \* claim rows it has deleted (items of `who`)
    rest,     \* itemIDs still to insert
    ins,      \* claim rows it has inserted (items of `who`)
    seen,     \* what recomputeOwedTx read from claims
    left,     \* participant rows the current UPDATE has still to visit
    locked,   \* participant rows it has updated, hence locked
    new       \* the owed_sen it wrote to them

stored == <<joined, claims, owed>>
request == <<pc, who, want>>
claimRows == <<todo, del, rest, ins>>
owedRows == <<seen, left, locked, new>>
vars == <<stored, request, claimRows, owedRows>>

L == INSTANCE Ledger

\* The statements of a transaction as the steps of OpenLedger: the delete counts
\* from its snapshot, the updates of the amounts only at the commit.
Phase(t) ==
    CASE pc[t] = "idle" -> "idle"
      [] pc[t] \in {"deleting", "inserting", "reading"} -> "open"
      [] OTHER -> "read"
O == INSTANCE OpenLedger WITH
        at <- [t \in Txs |-> Phase(t)],
        had <- [t \in Txs |-> todo[t] \cup del[t]],
        add <- ins

Active(t) == pc[t] # "idle"
SplitExists == Owner \in joined

\* What a statement of t reads from the claims table.
View(t) == [claims EXCEPT ![who[t]] = (@ \ del[t]) \cup ins[t]]

\* Nobody but t holds p's participant row.
RowFree(t, p) == \A u \in Txs \ {t} : p \notin locked[u]

\* Another transaction of the same participant that has not ended.
Rivals(t) == {u \in Txs \ {t} : Active(u) /\ who[u] = who[t]}

-----------------------------------------------------------------------------
NoAmounts == [p \in Participants |-> 0]

Init ==
    /\ joined = {Owner}
    /\ claims = NoClaims
    /\ owed = NoAmounts
    /\ pc = [t \in Txs |-> "idle"]
    /\ who = [t \in Txs |-> Owner]
    /\ want = [t \in Txs |-> {}]
    /\ todo = [t \in Txs |-> {}]
    /\ del = [t \in Txs |-> {}]
    /\ rest = [t \in Txs |-> {}]
    /\ ins = [t \in Txs |-> {}]
    /\ seen = [t \in Txs |-> NoClaims]
    /\ left = [t \in Txs |-> {}]
    /\ locked = [t \in Txs |-> {}]
    /\ new = [t \in Txs |-> NoAmounts]

\* The transaction is over: its locks and private rows are gone.
End(t) ==
    /\ pc' = [pc EXCEPT ![t] = "idle"]
    /\ who' = [who EXCEPT ![t] = Owner]
    /\ want' = [want EXCEPT ![t] = {}]
    /\ del' = [del EXCEPT ![t] = {}]
    /\ rest' = [rest EXCEPT ![t] = {}]
    /\ ins' = [ins EXCEPT ![t] = {}]
    /\ seen' = [seen EXCEPT ![t] = NoClaims]
    /\ left' = [left EXCEPT ![t] = {}]
    /\ locked' = [locked EXCEPT ![t] = {}]
    /\ new' = [new EXCEPT ![t] = NoAmounts]

-----------------------------------------------------------------------------
\* Single-statement operations.

CreateParticipant(f) ==
    /\ SplitExists
    /\ f \notin joined
    /\ joined' = joined \cup {f}
    /\ UNCHANGED <<claims, owed, request, claimRows, owedRows>>

\* The cascade needs every row of the split, so it waits for transactions
\* that hold one: an updated participant, a deleted claim, or the key-share
\* locks an inserted claim takes on its participant and item.
DeleteSplit ==
    /\ SplitExists
    /\ \A t \in Txs : locked[t] = {} /\ del[t] = {} /\ ins[t] = {}
    /\ joined' = {}
    /\ claims' = NoClaims
    /\ owed' = NoAmounts
    /\ todo' = [t \in Txs |-> {}]
    /\ UNCHANGED <<request, del, rest, ins, owedRows>>

-----------------------------------------------------------------------------
\* SetClaims, statement by statement.

\* requireParticipant has found the row; `delete from claims` takes its
\* snapshot.
Begin(t, f, items) ==
    /\ pc[t] = "idle"
    /\ f \in joined
    /\ pc' = [pc EXCEPT ![t] = "deleting"]
    /\ who' = [who EXCEPT ![t] = f]
    /\ want' = [want EXCEPT ![t] = items]
    /\ rest' = [rest EXCEPT ![t] = items]
    /\ todo' = [todo EXCEPT ![t] = claims[f]]
    /\ UNCHANGED <<stored, del, ins, owedRows>>

\* Mutant: the delete runs on the pool instead of the transaction.
DeleteClaimsOutsideTx(t) ==
    /\ pc[t] = "deleting"
    /\ claims' = [claims EXCEPT ![who[t]] = @ \ todo[t]]
    /\ todo' = [todo EXCEPT ![t] = {}]
    /\ pc' = [pc EXCEPT ![t] = "inserting"]
    /\ UNCHANGED <<joined, owed, who, want, del, rest, ins, owedRows>>

\* Every row of the snapshot that still exists is free and is deleted.  Rows
\* other transactions insert meanwhile are not in the snapshot and survive.
\* Postgres deletes one row after the other and holds some while it waits for
\* the next: two deletes of one participant may then block each other, and one
\* is rolled back.  What a delete that ends has deleted is the same.
DeleteClaims(t) ==
    /\ pc[t] = "deleting"
    /\ \A u \in Rivals(t) : todo[t] \cap del[u] = {}
    /\ del' = [del EXCEPT ![t] = todo[t]]
    /\ todo' = [todo EXCEPT ![t] = {}]
    /\ pc' = [pc EXCEPT ![t] = "inserting"]
    /\ UNCHANGED <<stored, who, want, rest, ins, owedRows>>

\* The conflict check of `on conflict do nothing` waits for a transaction
\* that inserted or deleted the same key.
KeyFree(t, i) == \A u \in Rivals(t) : i \notin ins[u] \cup del[u]

\* Only items of this split that are included can be claimed.
Claimable == IF SplitExists THEN Included ELSE {}

InsertClaim(t, i) ==
    /\ pc[t] = "inserting"
    /\ i \in rest[t]
    /\ KeyFree(t, i)
    /\ rest' = [rest EXCEPT ![t] = @ \ {i}]
    /\ ins' = IF i \in Claimable \ View(t)[who[t]]
              THEN [ins EXCEPT ![t] = @ \cup {i}]
              ELSE ins
    /\ UNCHANGED <<stored, request, todo, del, owedRows>>

\* recomputeOwedTx: the split's totals, then its items.  No row: the error
\* rolls the transaction back.
ReadSplit(t) ==
    /\ pc[t] = "inserting"
    /\ rest[t] = {}
    /\ SplitExists
    /\ pc' = [pc EXCEPT ![t] = "reading"]
    /\ UNCHANGED <<stored, who, want, claimRows, owedRows>>

SplitGone(t) ==
    /\ pc[t] = "inserting"
    /\ rest[t] = {}
    /\ ~SplitExists
    /\ End(t)
    /\ UNCHANGED <<stored, todo>>

Considered(t) == [p \in Participants |-> View(t)[p] \cap Included]

\* Mutant: only the caller's amount is recomputed.
ReadClaimsForCaller(t) ==
    /\ pc[t] = "reading"
    /\ seen' = [seen EXCEPT ![t] = Considered(t)]
    /\ left' = [left EXCEPT ![t] = {p \in {who[t]} : Considered(t)[p] # {}}]
    /\ pc' = [pc EXCEPT ![t] = "updating"]
    /\ UNCHANGED <<stored, who, want, claimRows, locked, new>>

ReadClaims(t) ==
    /\ pc[t] = "reading"
    /\ seen' = [seen EXCEPT ![t] = Considered(t)]
    /\ left' = [left EXCEPT ![t] = {p \in Participants : Considered(t)[p] # {}}]
    /\ pc' = [pc EXCEPT ![t] = "updating"]
    /\ UNCHANGED <<stored, who, want, claimRows, locked, new>>

\* Mutant: the new share is added to the old amount.
UpdateOwedAdding(t, p) ==
    /\ pc[t] = "updating"
    /\ p \in left[t]
    /\ RowFree(t, p)
    /\ left' = [left EXCEPT ![t] = @ \ {p}]
    /\ locked' = [locked EXCEPT ![t] = @ \cup {p}]
    /\ new' = [new EXCEPT ![t][p] = owed[p] + OwedFor(p, seen[t])]
    /\ UNCHANGED <<stored, request, claimRows, seen>>

\* One `update participants set owed_sen` per claimant of the table it read.
UpdateOwed(t, p) ==
    /\ pc[t] = "updating"
    /\ p \in left[t]
    /\ RowFree(t, p)
    /\ left' = [left EXCEPT ![t] = @ \ {p}]
    /\ IF p \in joined
       THEN /\ locked' = [locked EXCEPT ![t] = @ \cup {p}]
            /\ new' = [new EXCEPT ![t][p] = OwedFor(p, seen[t])]
       ELSE UNCHANGED <<locked, new>>
    /\ UNCHANGED <<stored, request, claimRows, seen>>

\* Mutant: the zeroing reuses the claims read before the updates.
StartZeroingFromRead(t) ==
    /\ pc[t] = "updating"
    /\ left[t] = {}
    /\ left' = [left EXCEPT ![t] = {p \in joined : seen[t][p] = {}}]
    /\ pc' = [pc EXCEPT ![t] = "zeroing"]
    /\ UNCHANGED <<stored, who, want, claimRows, seen, locked, new>>

\* Mutant: only the caller's row is set to 0.
StartZeroingCaller(t) ==
    /\ pc[t] = "updating"
    /\ left[t] = {}
    /\ left' = [left EXCEPT ![t] = {p \in joined \cap {who[t]} : View(t)[p] = {}}]
    /\ pc' = [pc EXCEPT ![t] = "zeroing"]
    /\ UNCHANGED <<stored, who, want, claimRows, seen, locked, new>>

\* The last statement's snapshot: participants without claims right now.
StartZeroing(t) ==
    /\ pc[t] = "updating"
    /\ left[t] = {}
    /\ left' = [left EXCEPT ![t] = {p \in joined : View(t)[p] = {}}]
    /\ pc' = [pc EXCEPT ![t] = "zeroing"]
    /\ UNCHANGED <<stored, who, want, claimRows, seen, locked, new>>

\* After a wait Postgres re-checks the row but not the snapshot of claims.
ZeroOwed(t, p) ==
    /\ pc[t] = "zeroing"
    /\ p \in left[t]
    /\ RowFree(t, p)
    /\ left' = [left EXCEPT ![t] = @ \ {p}]
    /\ IF p \in joined
       THEN /\ locked' = [locked EXCEPT ![t] = @ \cup {p}]
            /\ new' = [new EXCEPT ![t][p] = 0]
       ELSE UNCHANGED <<locked, new>>
    /\ UNCHANGED <<stored, request, claimRows, seen>>

\* Rows the commit removes leave the snapshots of waiting deletes: a later
\* row with the same key is another row.
Commit(t) ==
    /\ pc[t] = "zeroing"
    /\ left[t] = {}
    /\ claims' = View(t)
    /\ owed' = [p \in Participants |-> IF p \in locked[t] THEN new[t][p] ELSE owed[p]]
    /\ todo' = [u \in Txs |-> IF who[u] = who[t] THEN todo[u] \ del[t] ELSE todo[u]]
    /\ End(t)
    /\ UNCHANGED joined

\* Any statement may fail (the request's context ends, the connection drops):
\* the deferred Rollback undoes everything.
Rollback(t) ==
    /\ Active(t)
    /\ todo' = [todo EXCEPT ![t] = {}]
    /\ End(t)
    /\ UNCHANGED stored

-----------------------------------------------------------------------------
\* Waiting and deadlock.

\* The row-holders that stop t, when every row its statement could still
\* visit is held.
BlockedBy(t) ==
    CASE pc[t] = "deleting" -> {u \in Rivals(t) : todo[t] \cap del[u] # {}}
      [] pc[t] = "inserting" /\ \A i \in rest[t] : ~KeyFree(t, i) ->
             {u \in Rivals(t) : rest[t] \cap (ins[u] \cup del[u]) # {}}
      [] pc[t] \in {"updating", "zeroing"} /\ \A p \in left[t] : ~RowFree(t, p) ->
             {u \in Txs \ {t} : left[t] \cap locked[u] # {}}
      [] OTHER -> {}

\* Mutant: no deadlock detection.
NeverDeadlocked(t) == FALSE

\* t is part of a set of transactions each waiting for another of the set.
Deadlocked(t) ==
    \E D \in SUBSET Txs : t \in D /\ \A u \in D : BlockedBy(u) \cap D # {}

\* Postgres's detector (deadlock_timeout) fails the statement of a victim.
BreakDeadlock(t) == Deadlocked(t) /\ Rollback(t)

-----------------------------------------------------------------------------
Step(t) ==
    \/ DeleteClaims(t)
    \/ \E i \in Items : InsertClaim(t, i)
    \/ ReadSplit(t)
    \/ SplitGone(t)
    \/ ReadClaims(t)
    \/ \E p \in Participants : UpdateOwed(t, p)
    \/ StartZeroing(t)
    \/ \E p \in Participants : ZeroOwed(t, p)
    \/ Commit(t)

Next ==
    \/ \E f \in Friends : CreateParticipant(f)
    \/ DeleteSplit
    \/ \E t \in Txs :
        \/ \E f \in Friends, items \in SUBSET Items : Begin(t, f, items)
        \/ Step(t)
        \/ Rollback(t)
        \/ BreakDeadlock(t)

Spec == Init /\ [][Next]_vars

\* Nobody has to join, pay, claim or delete; a transaction once begun goes on.
\* Waiters queue on a row, so a row that is free again and again is granted
\* (strong fairness); the detector runs whenever a wait lasts.
FairSpec ==
    /\ Spec
    /\ \A t \in Txs : SF_vars(Step(t)) /\ WF_vars(BreakDeadlock(t))

-----------------------------------------------------------------------------
\* Type correctness.  Every recorded amount is one that recomputeOwedTx's
\* formula gives for some claims table (store.go recomputeOwedTx), whatever
\* transactions overlapped.
TypeOK ==
    /\ joined \subseteq Participants
    /\ claims \in ClaimTables
    /\ owed \in [Participants -> OwedValues]
    /\ pc \in [Txs -> {"idle", "deleting", "inserting", "reading", "updating", "zeroing"}]
    /\ who \in [Txs -> Participants]
    /\ want \in [Txs -> SUBSET Items]
    /\ todo \in [Txs -> SUBSET Items]
    /\ del \in [Txs -> SUBSET Items]
    /\ rest \in [Txs -> SUBSET Items]
    /\ ins \in [Txs -> SUBSET Items]
    /\ seen \in [Txs -> ClaimTables]
    /\ left \in [Txs -> SUBSET Participants]
    /\ locked \in [Txs -> SUBSET Participants]
    /\ new \in [Txs -> [Participants -> OwedValues]]

\* "Participants with no claims owe nothing" (the last UPDATE of
\* recomputeOwedTx): whatever transactions overlapped or were rolled back,
\* the committed row of a participant without committed claims shows 0.
NonClaimantsOweNothing ==
    \A p \in joined : claims[p] = {} => owed[p] = 0

\* Requests of one participant delete one after the other: two open
\* transactions never both hold deleted claims of the same person, and one
\* that still has to delete meets the rows of the one that already did.
OneDeleterPerParticipant ==
    \A t, u \in Txs :
        t # u /\ who[t] = who[u] =>
            /\ todo[t] \subseteq todo[u] \/ todo[u] \subseteq todo[t]
            /\ del[u] # {} /\ todo[t] # {} => todo[t] \cap del[u] # {}
            /\ del[t] = {} \/ del[u] = {}

\* The private claim rows of a transaction fit the committed table they will
\* be merged into, and nobody else has touched the same keys.
PrivateRowsFit ==
    \A t \in Txs :
        /\ todo[t] \cup del[t] \subseteq claims[who[t]]
        /\ ins[t] \cap claims[who[t]] \subseteq del[t]
        /\ ~Active(t) => todo[t] = {} /\ del[t] = {} /\ ins[t] = {}
        /\ pc[t] # "deleting" => todo[t] = {}
        /\ pc[t] = "deleting" => del[t] = {} /\ ins[t] = {}
        /\ who[t] \notin joined => ~SplitExists /\ ins[t] = {}
        /\ \A u \in Txs \ {t} : who[t] = who[u] => ins[t] \cap (ins[u] \cup del[u]) = {}

\* A participant row has at most one transaction writing it, and only the two
\* kinds of UPDATE take rows.
LocksExclusive ==
    \A t \in Txs :
        /\ locked[t] \subseteq joined
        /\ pc[t] \notin {"updating", "zeroing"} => locked[t] = {}
        /\ \A u \in Txs \ {t} : locked[t] \cap locked[u] = {}

\* Once a transaction has fixed whom to set to 0, it sets (or will set) to 0
\* everyone its own table leaves without claims, unless that person had lost
\* the claims, and the amount, to a transaction that committed meanwhile.
ZeroingCovers ==
    \A t \in Txs : pc[t] = "zeroing" =>
        \A p \in joined : View(t)[p] = {} =>
            \/ p \in left[t]
            \/ p \in locked[t] /\ new[t][p] = 0
            \/ p \notin locked[t] /\ claims[p] = {}

\* Nobody outside the split has claims or an amount.
OutsidersBlank ==
    \A p \in Participants \ joined : claims[p] = {} /\ owed[p] = 0

\* What a transaction has read is what it writes: everyone it read with claims
\* is still to be visited, or has the amount of that read in a row it holds,
\* unless the split has gone or the row is being set to 0 because the claims
\* have gone.
FollowsRead(t) ==
    pc[t] \in {"updating", "zeroing"} =>
        /\ ins[t] \subseteq seen[t][who[t]]
        /\ \A p \in Participants : seen[t][p] # {} =>
            /\ p \in joined \/ ~SplitExists
            /\ \/ p \notin joined
               \/ pc[t] = "updating" /\ p \in left[t]
               \/ p \in locked[t] \ left[t] /\ new[t][p] = OwedFor(p, seen[t])
               \/ pc[t] = "zeroing" /\ p \in locked[t] /\ View(t)[p] = {}

\* Only included items are ever claimed, and nobody writes what it did not read.
AmountsFollowRead ==
    /\ \A p \in Participants : claims[p] \subseteq Included
    /\ \A t \in Txs : ins[t] \subseteq Included /\ FollowsRead(t)

\* The inductive invariant behind NonClaimantsOweNothing and
\* FreshCommitIsExact.
IInv ==
    /\ TypeOK
    /\ OutsidersBlank
    /\ OneDeleterPerParticipant
    /\ PrivateRowsFit
    /\ LocksExclusive
    /\ ZeroingCovers
    /\ NonClaimantsOweNothing
    /\ AmountsFollowRead

\* Every recorded amount is exactly what the committed claims imply.
OwedExact == \A p \in joined : owed[p] = OwedFor(p, claims)

\* A transaction whose read of the claims is still current when it commits
\* (no other commit fell between the two) leaves everybody's amount exact,
\* no matter what the amounts were before or what overlaps it.
FreshCommitIsExact ==
    [][\A t \in Txs :
        Commit(t) /\ seen[t] = Considered(t) => OwedExact']_vars

\* The same doc comment: after the commit the participant's claims are the
\* requested items of the split, no others.
ClaimsReplaced ==
    [][\A t \in Txs :
        Commit(t) /\ SplitExists => claims'[who[t]] = want[t] \cap Included]_vars

\* The doc comment of SetClaims: once no transaction is open, the amounts are
\* those of the claims.
OwedExactWhenQuiet == (\A t \in Txs : ~Active(t)) => OwedExact

\* Every SetClaims ends, in a commit or a rollback: row locks held across the
\* statements of several transactions never leave one waiting for ever.
SetClaimsEnds == \A t \in Txs : Active(t) ~> ~Active(t)

\* Transactions that do not overlap implement the ledger, even when people
\* join, pay or the split disappears between their statements.
Ledger == L!Spec

\* Transactions that do overlap implement the open ledger: whatever statements
\* interleave, a commit leaves what its delete's snapshot and its read of the
\* claims make of the two tables, and nothing else is ever seen of it.
OverlapsAllowed == O!Spec

=============================================================================
