------------------------- MODULE SplitClaims_proofs -------------------------
(***************************************************************************)
(* Proofs about SplitClaims for every set of friends, items and            *)
(* transactions: type correctness, that participants without claims owe    *)
(* nothing however transactions interleave, that a commit whose read is    *)
(* current is exact, and that the transactions implement OpenLedger when   *)
(* they overlap and Ledger when they do not.                               *)
(***************************************************************************)
EXTENDS SplitClaims, Amounts_proofs

LEMMA ZeroType == 0 \in OwedValues
BY DEF OwedValues

LEMMA OwnerType == Owner \in Participants
BY DEF Participants

LEMMA NoClaimsType == NoClaims \in ClaimTables
BY DEF NoClaims, ClaimTables

LEMMA NoAmountsType == NoAmounts \in [Participants -> OwedValues]
BY ZeroType DEF NoAmounts

\* A statement's view of the claims table is a claims table.
LEMMA ViewType ==
    ASSUME TypeOK, NEW t \in Txs
    PROVE  View(t) \in ClaimTables /\ Considered(t) \in ClaimTables
<1>1. View(t) \in ClaimTables
  BY DEF TypeOK, View, ClaimTables
<1>2. Considered(t) \in ClaimTables
  BY <1>1 DEF Considered, ClaimTables
<1> QED BY <1>1, <1>2

-----------------------------------------------------------------------------
LEMMA TypeInit == Init => TypeOK
BY OwnerType, NoClaimsType, NoAmountsType DEF Init, TypeOK

\* What ends a transaction keeps the types of its private rows.
LEMMA EndType ==
    ASSUME TypeOK, NEW t \in Txs, End(t)
    PROVE  /\ pc' \in [Txs -> {"idle", "deleting", "inserting", "reading", "updating", "zeroing"}]
           /\ who' \in [Txs -> Participants]
           /\ want' \in [Txs -> SUBSET Items]
           /\ del' \in [Txs -> SUBSET Items]
           /\ rest' \in [Txs -> SUBSET Items]
           /\ ins' \in [Txs -> SUBSET Items]
           /\ seen' \in [Txs -> ClaimTables]
           /\ left' \in [Txs -> SUBSET Participants]
           /\ locked' \in [Txs -> SUBSET Participants]
           /\ new' \in [Txs -> [Participants -> OwedValues]]
BY OwnerType, NoClaimsType, NoAmountsType DEF End, TypeOK

\* Every step keeps the types.
LEMMA TypeStep == TypeOK /\ [Next]_vars => TypeOK'
<1> SUFFICES ASSUME TypeOK, [Next]_vars PROVE TypeOK'
  OBVIOUS
<1> USE OwnerType, ZeroType, NoClaimsType, NoAmountsType
<1>1. ASSUME NEW f \in Friends, CreateParticipant(f) PROVE TypeOK'
  BY <1>1 DEF CreateParticipant, TypeOK, Participants, request, claimRows, owedRows
<1>2. CASE DeleteSplit
  BY <1>2 DEF DeleteSplit, TypeOK, request, owedRows
<1>3. ASSUME NEW t \in Txs, NEW f \in Friends, NEW items \in SUBSET Items, Begin(t, f, items)
      PROVE  TypeOK'
  <2>1. f \in Participants /\ claims[f] \subseteq Items
    BY DEF Participants, TypeOK, ClaimTables
  <2> QED BY <1>3, <2>1 DEF Begin, TypeOK, stored, owedRows
<1>4. ASSUME NEW t \in Txs, DeleteClaims(t) PROVE TypeOK'
  BY <1>4 DEF DeleteClaims, TypeOK, stored, owedRows
<1>5. ASSUME NEW t \in Txs, NEW i \in Items, InsertClaim(t, i) PROVE TypeOK'
  BY <1>5 DEF InsertClaim, TypeOK, stored, request, owedRows
<1>6. ASSUME NEW t \in Txs, ReadSplit(t) PROVE TypeOK'
  BY <1>6 DEF ReadSplit, TypeOK, stored, claimRows, owedRows
<1>7. ASSUME NEW t \in Txs, SplitGone(t) PROVE TypeOK'
  BY <1>7, EndType DEF SplitGone, TypeOK, stored
<1>8. ASSUME NEW t \in Txs, ReadClaims(t) PROVE TypeOK'
  BY <1>8, ViewType DEF ReadClaims, TypeOK, stored, claimRows
<1>9. ASSUME NEW t \in Txs, NEW p \in Participants, UpdateOwed(t, p) PROVE TypeOK'
  <2>1. OwedFor(p, seen[t]) \in OwedValues
    BY OwedForType DEF TypeOK
  <2>2. locked' \in [Txs -> SUBSET Participants]
    BY <1>9 DEF UpdateOwed, TypeOK
  <2>3. new' \in [Txs -> [Participants -> OwedValues]]
    <3>1. new[t] \in [Participants -> OwedValues]
      BY DEF TypeOK
    <3>2. new' = new \/ new' = [new EXCEPT ![t] = [new[t] EXCEPT ![p] = OwedFor(p, seen[t])]]
      BY <1>9 DEF UpdateOwed
    <3>3. [new[t] EXCEPT ![p] = OwedFor(p, seen[t])] \in [Participants -> OwedValues]
      BY <2>1, <3>1
    <3>4. new \in [Txs -> [Participants -> OwedValues]]
      BY DEF TypeOK
    <3> QED BY <3>2, <3>3, <3>4
  <2> QED BY <1>9, <2>2, <2>3 DEF UpdateOwed, TypeOK, stored, request, claimRows
<1>10. ASSUME NEW t \in Txs, StartZeroing(t) PROVE TypeOK'
  BY <1>10 DEF StartZeroing, TypeOK, stored, claimRows
<1>11. ASSUME NEW t \in Txs, NEW p \in Participants, ZeroOwed(t, p) PROVE TypeOK'
  <2>1. locked' \in [Txs -> SUBSET Participants]
    BY <1>11 DEF ZeroOwed, TypeOK
  <2>2. new' \in [Txs -> [Participants -> OwedValues]]
    <3>1. new[t] \in [Participants -> OwedValues]
      BY DEF TypeOK
    <3>2. new' = new \/ new' = [new EXCEPT ![t] = [new[t] EXCEPT ![p] = 0]]
      BY <1>11 DEF ZeroOwed
    <3>3. [new[t] EXCEPT ![p] = 0] \in [Participants -> OwedValues]
      BY <3>1
    <3>4. new \in [Txs -> [Participants -> OwedValues]]
      BY DEF TypeOK
    <3> QED BY <3>2, <3>3, <3>4
  <2> QED BY <1>11, <2>1, <2>2 DEF ZeroOwed, TypeOK, stored, request, claimRows
<1>12. ASSUME NEW t \in Txs, Commit(t) PROVE TypeOK'
  <2>1. claims' \in ClaimTables
    BY <1>12, ViewType DEF Commit
  <2>2. owed' \in [Participants -> OwedValues]
    BY <1>12 DEF Commit, TypeOK
  <2>3. todo' \in [Txs -> SUBSET Items]
    BY <1>12 DEF Commit, TypeOK
  <2> QED BY <1>12, <2>1, <2>2, <2>3, EndType DEF Commit, TypeOK
<1>13. ASSUME NEW t \in Txs, Rollback(t) PROVE TypeOK'
  BY <1>13, EndType DEF Rollback, TypeOK, stored
<1>14. CASE UNCHANGED vars
  BY <1>14 DEF vars, stored, request, claimRows, owedRows, TypeOK
<1> QED
  BY <1>1, <1>2, <1>3, <1>4, <1>5, <1>6, <1>7, <1>8, <1>9, <1>10, <1>11,
     <1>12, <1>13, <1>14 DEF Next, Step, BreakDeadlock

\* Type correctness of SplitClaims: in particular every amount ever recorded
\* is one that some claims table justifies.
THEOREM TypeCorrect == Spec => []TypeOK
BY TypeInit, TypeStep, PTL DEF Spec

-----------------------------------------------------------------------------
\* The view of a transaction, participant by participant.
LEMMA ViewAt ==
    ASSUME TypeOK, NEW t \in Txs, NEW p \in Participants
    PROVE  View(t)[p] = IF p = who[t] THEN (claims[p] \ del[t]) \cup ins[t] ELSE claims[p]
BY DEF TypeOK, View, ClaimTables

\* Every part of the invariant but the types.
Rows ==
    /\ OutsidersBlank
    /\ OneDeleterPerParticipant
    /\ PrivateRowsFit
    /\ LocksExclusive
    /\ ZeroingCovers
    /\ NonClaimantsOweNothing

LEMMA RowsInit == Init => Rows
<1> SUFFICES ASSUME Init PROVE Rows
  OBVIOUS
<1>1. OutsidersBlank /\ NonClaimantsOweNothing
  BY OwnerType DEF Init, OutsidersBlank, NonClaimantsOweNothing, NoClaims, NoAmounts
<1>2. OneDeleterPerParticipant /\ ZeroingCovers
  BY DEF Init, OneDeleterPerParticipant, ZeroingCovers
<1>3. PrivateRowsFit /\ LocksExclusive
  BY DEF Init, PrivateRowsFit, LocksExclusive, NoClaims, Active, SplitExists
<1> QED BY <1>1, <1>2, <1>3 DEF Rows

LEMMA RowsJoin ==
    ASSUME TypeOK, Rows, NEW f \in Friends, CreateParticipant(f)
    PROVE  Rows'
<1> USE DEF CreateParticipant, request, claimRows, owedRows
<1>0. f \in Participants
  BY DEF Participants
<1>1. OutsidersBlank'
  BY DEF Rows, OutsidersBlank
<1>2. OneDeleterPerParticipant'
  BY DEF Rows, OneDeleterPerParticipant
<1>3. PrivateRowsFit' /\ LocksExclusive'
  BY DEF Rows, PrivateRowsFit, LocksExclusive, Active, SplitExists
<1>4. ZeroingCovers'
  <2> SUFFICES ASSUME NEW t \in Txs, pc[t] = "zeroing",
                      NEW p \in joined', View(t)[p] = {}
               PROVE  \/ p \in left[t]
                      \/ p \in locked[t] /\ new[t][p] = 0
                      \/ p \notin locked[t] /\ claims[p] = {}
    BY DEF ZeroingCovers, View
  <2>1. CASE p \in joined
    BY <2>1 DEF Rows, ZeroingCovers
  <2>2. CASE p \notin joined
    BY <2>2, <1>0 DEF Rows, OutsidersBlank, LocksExclusive
  <2> QED BY <2>1, <2>2
<1>5. NonClaimantsOweNothing'
  BY <1>0 DEF Rows, NonClaimantsOweNothing, OutsidersBlank
<1> QED BY <1>1, <1>2, <1>3, <1>4, <1>5 DEF Rows

LEMMA RowsDelete ==
    ASSUME TypeOK, Rows, DeleteSplit
    PROVE  Rows'
<1> USE DEF DeleteSplit, request, owedRows
<1>1. OutsidersBlank' /\ NonClaimantsOweNothing' /\ ZeroingCovers'
  BY DEF OutsidersBlank, NonClaimantsOweNothing, ZeroingCovers, NoClaims, NoAmounts
<1>2. OneDeleterPerParticipant'
  BY DEF Rows, OneDeleterPerParticipant
<1>3. PrivateRowsFit' /\ LocksExclusive'
  BY DEF Rows, PrivateRowsFit, LocksExclusive, Active, SplitExists, TypeOK, NoClaims
<1> QED BY <1>1, <1>2, <1>3 DEF Rows

LEMMA RowsBegin ==
    ASSUME TypeOK, Rows, NEW t \in Txs, NEW f \in Friends, NEW items \in SUBSET Items,
           Begin(t, f, items)
    PROVE  Rows'
<1> USE DEF Begin, stored, owedRows
<1>1. OutsidersBlank' /\ NonClaimantsOweNothing'
  BY DEF Rows, OutsidersBlank, NonClaimantsOweNothing
<1>2. OneDeleterPerParticipant'
  <2> SUFFICES ASSUME NEW a \in Txs, NEW b \in Txs, a # b, who'[a] = who'[b]
               PROVE  /\ todo'[a] \subseteq todo'[b] \/ todo'[b] \subseteq todo'[a]
                      /\ del'[b] # {} /\ todo'[a] # {} => todo'[a] \cap del'[b] # {}
                      /\ del'[a] = {} \/ del'[b] = {}
    BY DEF OneDeleterPerParticipant
  <2>1. \A u \in Txs : todo[u] \cup del[u] \subseteq claims[who[u]]
    BY DEF Rows, PrivateRowsFit
  <2>2. del[t] = {} /\ todo'[t] = claims[f] /\ who'[t] = f
    BY DEF Rows, PrivateRowsFit, Active, TypeOK
  <2>3. \A u \in Txs \ {t} : todo'[u] = todo[u] /\ who'[u] = who[u]
    BY DEF TypeOK
  <2>4. CASE a = t
    BY <2>1, <2>2, <2>3, <2>4
  <2>5. CASE b = t
    BY <2>1, <2>2, <2>3, <2>5
  <2>6. CASE a # t /\ b # t
    BY <2>3, <2>6 DEF Rows, OneDeleterPerParticipant
  <2> QED BY <2>4, <2>5, <2>6
<1>3. PrivateRowsFit' /\ LocksExclusive'
  BY DEF Rows, PrivateRowsFit, LocksExclusive, Active, SplitExists, TypeOK
<1>4. ZeroingCovers'
  <2> SUFFICES ASSUME NEW u \in Txs, pc'[u] = "zeroing",
                      NEW p \in joined, View(u)'[p] = {}
               PROVE  \/ p \in left[u]
                      \/ p \in locked[u] /\ new[u][p] = 0
                      \/ p \notin locked[u] /\ claims[p] = {}
    BY DEF ZeroingCovers
  <2>1. u # t /\ pc[u] = "zeroing" /\ View(u)' = View(u)
    BY DEF View, TypeOK
  <2> QED BY <2>1 DEF Rows, ZeroingCovers
<1> QED BY <1>1, <1>2, <1>3, <1>4 DEF Rows

LEMMA RowsDeleteClaims ==
    ASSUME TypeOK, Rows, NEW t \in Txs, DeleteClaims(t)
    PROVE  Rows'
<1> USE DEF DeleteClaims, stored, owedRows
<1>1. OutsidersBlank' /\ NonClaimantsOweNothing'
  BY DEF Rows, OutsidersBlank, NonClaimantsOweNothing
<1>2. \A u \in Txs \ {t} : who[u] = who[t] => todo[t] \cap del[u] = {}
  BY DEF Rivals, Rows, PrivateRowsFit
<1>3. OneDeleterPerParticipant'
  <2> SUFFICES ASSUME NEW a \in Txs, NEW b \in Txs, a # b, who'[a] = who'[b]
               PROVE  /\ todo'[a] \subseteq todo'[b] \/ todo'[b] \subseteq todo'[a]
                      /\ del'[b] # {} /\ todo'[a] # {} => todo'[a] \cap del'[b] # {}
                      /\ del'[a] = {} \/ del'[b] = {}
    BY DEF OneDeleterPerParticipant
  <2>1. del'[t] = todo[t] /\ todo'[t] = {}
    BY DEF TypeOK
  <2>2. \A u \in Txs \ {t} : todo'[u] = todo[u] /\ del'[u] = del[u]
    BY DEF TypeOK
  <2>3. CASE a = t
    BY <1>2, <2>1, <2>2, <2>3 DEF Rows, OneDeleterPerParticipant
  <2>4. CASE b = t
    BY <1>2, <2>1, <2>2, <2>4 DEF Rows, OneDeleterPerParticipant
  <2>5. CASE a # t /\ b # t
    BY <2>2, <2>5 DEF Rows, OneDeleterPerParticipant
  <2> QED BY <2>3, <2>4, <2>5
<1>4. PrivateRowsFit' /\ LocksExclusive'
  <2>1. PrivateRowsFit'
    BY <1>2 DEF Rows, PrivateRowsFit, Active, SplitExists, TypeOK
  <2>2. LocksExclusive'
    BY DEF Rows, LocksExclusive, TypeOK
  <2> QED BY <2>1, <2>2
<1>5. ZeroingCovers'
  <2> SUFFICES ASSUME NEW u \in Txs, pc'[u] = "zeroing",
                      NEW p \in joined, View(u)'[p] = {}
               PROVE  \/ p \in left[u]
                      \/ p \in locked[u] /\ new[u][p] = 0
                      \/ p \notin locked[u] /\ claims[p] = {}
    BY DEF ZeroingCovers
  <2>1. u # t /\ pc[u] = "zeroing" /\ View(u)' = View(u)
    BY DEF View, TypeOK
  <2> QED BY <2>1 DEF Rows, ZeroingCovers
<1> QED BY <1>1, <1>3, <1>4, <1>5 DEF Rows

LEMMA RowsInsertClaim ==
    ASSUME TypeOK, Rows, NEW t \in Txs, NEW i \in Items, InsertClaim(t, i)
    PROVE  Rows'
<1> USE DEF InsertClaim, stored, request, owedRows
<1>1. OutsidersBlank' /\ NonClaimantsOweNothing'
  BY DEF Rows, OutsidersBlank, NonClaimantsOweNothing
<1>2. OneDeleterPerParticipant'
  BY DEF Rows, OneDeleterPerParticipant
<1>3. \A u \in Txs \ {t} : who[u] = who[t] => i \notin ins[u] \cup del[u]
  BY DEF KeyFree, Rivals, Rows, PrivateRowsFit
<1>4. /\ View(t)[who[t]] = (claims[who[t]] \ del[t]) \cup ins[t]
      /\ who[t] \notin joined => Claimable = {}
  BY ViewAt DEF TypeOK, Rows, PrivateRowsFit, Claimable
<1>5. PrivateRowsFit' /\ LocksExclusive'
  BY <1>3, <1>4 DEF Rows, PrivateRowsFit, LocksExclusive, Active, SplitExists, TypeOK
<1>6. ZeroingCovers'
  <2> SUFFICES ASSUME NEW u \in Txs, pc[u] = "zeroing",
                      NEW p \in joined, View(u)'[p] = {}
               PROVE  \/ p \in left[u]
                      \/ p \in locked[u] /\ new[u][p] = 0
                      \/ p \notin locked[u] /\ claims[p] = {}
    BY DEF ZeroingCovers
  <2>1. View(u)' = View(u)
    BY DEF View, TypeOK
  <2> QED BY <2>1 DEF Rows, ZeroingCovers
<1> QED BY <1>1, <1>2, <1>5, <1>6 DEF Rows

\* Steps that only move a transaction on, without touching claims or locks.
LEMMA RowsReadSplit ==
    ASSUME TypeOK, Rows, NEW t \in Txs, ReadSplit(t)
    PROVE  Rows'
<1> USE DEF ReadSplit, stored, claimRows, owedRows
<1>1. OutsidersBlank' /\ NonClaimantsOweNothing' /\ OneDeleterPerParticipant'
  BY DEF Rows, OutsidersBlank, NonClaimantsOweNothing, OneDeleterPerParticipant
<1>2. PrivateRowsFit' /\ LocksExclusive'
  BY DEF Rows, PrivateRowsFit, LocksExclusive, Active, SplitExists, TypeOK
<1>3. ZeroingCovers'
  BY DEF Rows, ZeroingCovers, View, TypeOK
<1> QED BY <1>1, <1>2, <1>3 DEF Rows

LEMMA RowsReadClaims ==
    ASSUME TypeOK, Rows, NEW t \in Txs, ReadClaims(t)
    PROVE  Rows'
<1> USE DEF ReadClaims, stored, claimRows
<1>1. OutsidersBlank' /\ NonClaimantsOweNothing' /\ OneDeleterPerParticipant'
  BY DEF Rows, OutsidersBlank, NonClaimantsOweNothing, OneDeleterPerParticipant
<1>2. PrivateRowsFit' /\ LocksExclusive'
  BY DEF Rows, PrivateRowsFit, LocksExclusive, Active, SplitExists, TypeOK
<1>3. ZeroingCovers'
  BY DEF Rows, ZeroingCovers, View, TypeOK
<1> QED BY <1>1, <1>2, <1>3 DEF Rows

LEMMA RowsUpdateOwed ==
    ASSUME TypeOK, Rows, NEW t \in Txs, NEW p \in Participants, UpdateOwed(t, p)
    PROVE  Rows'
<1> USE DEF UpdateOwed, stored, request, claimRows
<1>1. OutsidersBlank' /\ NonClaimantsOweNothing' /\ OneDeleterPerParticipant'
  BY DEF Rows, OutsidersBlank, NonClaimantsOweNothing, OneDeleterPerParticipant
<1>2. /\ locked' \in [Txs -> SUBSET Participants]
      /\ \A u \in Txs \ {t} : locked'[u] = locked[u]
      /\ locked'[t] = locked[t] \cup ({p} \cap joined)
  <2>1. CASE p \in joined
    BY <2>1 DEF TypeOK
  <2>2. CASE p \notin joined
    BY <2>2 DEF TypeOK
  <2> QED BY <2>1, <2>2
<1>3. PrivateRowsFit' /\ LocksExclusive'
  <2>1. \A u \in Txs : \A v \in Txs \ {u} : locked'[u] \cap locked'[v] = {}
    <3>1. \A v \in Txs \ {t} : p \notin locked[v]
      BY DEF RowFree
    <3>2. \A u \in Txs : \A v \in Txs \ {u} : locked[u] \cap locked[v] = {}
      BY DEF Rows, LocksExclusive
    <3> SUFFICES ASSUME NEW u \in Txs, NEW v \in Txs \ {u}
                 PROVE  locked'[u] \cap locked'[v] = {}
      OBVIOUS
    <3>3. CASE u = t
      BY <1>2, <3>1, <3>2, <3>3
    <3>4. CASE v = t
      BY <1>2, <3>1, <3>2, <3>4
    <3>5. CASE u # t /\ v # t
      BY <1>2, <3>2, <3>5
    <3> QED BY <3>3, <3>4, <3>5
  <2>2. \A u \in Txs :
           /\ locked'[u] \subseteq joined
           /\ pc[u] \notin {"updating", "zeroing"} => locked'[u] = {}
    BY <1>2 DEF Rows, LocksExclusive
  <2>3. PrivateRowsFit'
    BY DEF Rows, PrivateRowsFit, Active, SplitExists
  <2>4. joined' = joined /\ pc' = pc
    OBVIOUS
  <2>5. LocksExclusive'
    <3> SUFFICES ASSUME NEW u \in Txs
                 PROVE  /\ locked'[u] \subseteq joined
                        /\ pc[u] \notin {"updating", "zeroing"} => locked'[u] = {}
                        /\ \A v \in Txs \ {u} : locked'[u] \cap locked'[v] = {}
      BY <2>4 DEF LocksExclusive
    <3> QED BY <2>1, <2>2
  <2> QED BY <2>3, <2>5
<1>4. ZeroingCovers'
  BY <1>2 DEF Rows, ZeroingCovers, View, TypeOK
<1> QED BY <1>1, <1>3, <1>4 DEF Rows

LEMMA RowsStartZeroing ==
    ASSUME TypeOK, Rows, NEW t \in Txs, StartZeroing(t)
    PROVE  Rows'
<1> USE DEF StartZeroing, stored, claimRows
<1>1. OutsidersBlank' /\ NonClaimantsOweNothing' /\ OneDeleterPerParticipant'
  BY DEF Rows, OutsidersBlank, NonClaimantsOweNothing, OneDeleterPerParticipant
<1>2. PrivateRowsFit' /\ LocksExclusive'
  BY DEF Rows, PrivateRowsFit, LocksExclusive, Active, SplitExists, TypeOK
<1>3. ZeroingCovers'
  <2>1. \A u \in Txs : View(u)' = View(u)
    BY DEF View
  <2>2. left'[t] = {p \in joined : View(t)[p] = {}}
    BY DEF TypeOK
  <2>3. /\ \A u \in Txs \ {t} : pc'[u] = pc[u] /\ left'[u] = left[u]
        /\ joined' = joined /\ claims' = claims /\ locked' = locked /\ new' = new
    BY DEF TypeOK
  <2>4. ZeroingCovers
    BY DEF Rows
  <2> HIDE DEF StartZeroing
  <2> QED BY <2>1, <2>2, <2>3, <2>4 DEF ZeroingCovers
<1> QED BY <1>1, <1>2, <1>3 DEF Rows

LEMMA RowsZeroOwed ==
    ASSUME TypeOK, Rows, NEW t \in Txs, NEW p \in Participants, ZeroOwed(t, p)
    PROVE  Rows'
<1> USE DEF ZeroOwed, stored, request, claimRows
<1>1. OutsidersBlank' /\ NonClaimantsOweNothing' /\ OneDeleterPerParticipant'
  BY DEF Rows, OutsidersBlank, NonClaimantsOweNothing, OneDeleterPerParticipant
<1>2. /\ locked' \in [Txs -> SUBSET Participants]
      /\ \A u \in Txs \ {t} : locked'[u] = locked[u] /\ new'[u] = new[u] /\ left'[u] = left[u]
      /\ locked'[t] = locked[t] \cup ({p} \cap joined)
      /\ left'[t] = left[t] \ {p}
  <2>1. left' = [left EXCEPT ![t] = left[t] \ {p}] /\ left \in [Txs -> SUBSET Participants]
    BY DEF TypeOK
  <2>2. CASE p \in joined
    <3>1. /\ locked' = [locked EXCEPT ![t] = locked[t] \cup {p}]
          /\ new' = [new EXCEPT ![t][p] = 0]
          /\ locked \in [Txs -> SUBSET Participants]
          /\ new \in [Txs -> [Participants -> OwedValues]]
      BY <2>2 DEF TypeOK
    <3> HIDE DEF ZeroOwed
    <3> QED BY <2>1, <2>2, <3>1
  <2>3. CASE p \notin joined
    <3>1. locked' = locked /\ new' = new /\ locked \in [Txs -> SUBSET Participants]
      BY <2>3 DEF TypeOK
    <3> HIDE DEF ZeroOwed
    <3> QED BY <2>1, <2>3, <3>1
  <2> QED BY <2>2, <2>3
<1>3. PrivateRowsFit' /\ LocksExclusive'
  <2>1. \A u \in Txs : \A v \in Txs \ {u} : locked'[u] \cap locked'[v] = {}
    <3>1. \A v \in Txs \ {t} : p \notin locked[v]
      BY DEF RowFree
    <3>2. \A u \in Txs : \A v \in Txs \ {u} : locked[u] \cap locked[v] = {}
      BY DEF Rows, LocksExclusive
    <3> SUFFICES ASSUME NEW u \in Txs, NEW v \in Txs \ {u}
                 PROVE  locked'[u] \cap locked'[v] = {}
      OBVIOUS
    <3>3. CASE u = t
      BY <1>2, <3>1, <3>2, <3>3
    <3>4. CASE v = t
      BY <1>2, <3>1, <3>2, <3>4
    <3>5. CASE u # t /\ v # t
      BY <1>2, <3>2, <3>5
    <3> QED BY <3>3, <3>4, <3>5
  <2>2. \A u \in Txs :
           /\ locked'[u] \subseteq joined
           /\ pc[u] \notin {"updating", "zeroing"} => locked'[u] = {}
    BY <1>2 DEF Rows, LocksExclusive
  <2>3. PrivateRowsFit'
    BY DEF Rows, PrivateRowsFit, Active, SplitExists
  <2>4. joined' = joined /\ pc' = pc
    OBVIOUS
  <2>5. LocksExclusive'
    <3> SUFFICES ASSUME NEW u \in Txs
                 PROVE  /\ locked'[u] \subseteq joined
                        /\ pc[u] \notin {"updating", "zeroing"} => locked'[u] = {}
                        /\ \A v \in Txs \ {u} : locked'[u] \cap locked'[v] = {}
      BY <2>4 DEF LocksExclusive
    <3> QED BY <2>1, <2>2
  <2> QED BY <2>3, <2>5
<1>4. /\ p \in joined => new'[t][p] = 0
      /\ \A q \in Participants \ {p} : new'[t][q] = new[t][q]
  <2>1. new[t] \in [Participants -> OwedValues]
    BY DEF TypeOK
  <2>2. CASE p \in joined
    BY <2>1, <2>2 DEF TypeOK
  <2>3. CASE p \notin joined
    BY <2>3
  <2> QED BY <2>2, <2>3
<1>5. ZeroingCovers'
  <2>1. \A u \in Txs : View(u)' = View(u)
    BY DEF View
  <2> SUFFICES ASSUME NEW u \in Txs, pc[u] = "zeroing",
                      NEW q \in joined, View(u)[q] = {}
               PROVE  \/ q \in left'[u]
                      \/ q \in locked'[u] /\ new'[u][q] = 0
                      \/ q \notin locked'[u] /\ claims[q] = {}
    BY <2>1 DEF ZeroingCovers
  <2>2. \/ q \in left[u]
        \/ q \in locked[u] /\ new[u][q] = 0
        \/ q \notin locked[u] /\ claims[q] = {}
    BY DEF Rows, ZeroingCovers
  <2>3. CASE u # t
    BY <1>2, <2>2, <2>3
  <2>4. CASE u = t /\ q = p
    BY <1>2, <1>4, <2>4
  <2>5. CASE u = t /\ q # p
    BY <1>2, <1>4, <2>2, <2>5 DEF TypeOK
  <2> QED BY <2>3, <2>4, <2>5
<1> QED BY <1>1, <1>3, <1>5 DEF Rows

\* Ending a transaction without committing takes its rows out of the picture.
LEMMA RowsEnd ==
    ASSUME TypeOK, Rows, NEW t \in Txs, End(t), UNCHANGED stored,
           todo' = [todo EXCEPT ![t] = {}]
    PROVE  Rows'
<1> USE DEF End, stored
<1>1. OutsidersBlank' /\ NonClaimantsOweNothing'
  BY DEF Rows, OutsidersBlank, NonClaimantsOweNothing
<1>2. \A u \in Txs \ {t} :
         /\ pc'[u] = pc[u] /\ who'[u] = who[u] /\ todo'[u] = todo[u] /\ del'[u] = del[u]
         /\ ins'[u] = ins[u] /\ left'[u] = left[u] /\ locked'[u] = locked[u] /\ new'[u] = new[u]
  BY DEF TypeOK
<1>3. /\ pc'[t] = "idle" /\ who'[t] = Owner /\ todo'[t] = {} /\ del'[t] = {}
      /\ ins'[t] = {} /\ left'[t] = {} /\ locked'[t] = {}
  BY DEF TypeOK
<1>4. OneDeleterPerParticipant'
  <2> SUFFICES ASSUME NEW a \in Txs, NEW b \in Txs, a # b, who'[a] = who'[b]
               PROVE  /\ todo'[a] \subseteq todo'[b] \/ todo'[b] \subseteq todo'[a]
                      /\ del'[b] # {} /\ todo'[a] # {} => todo'[a] \cap del'[b] # {}
                      /\ del'[a] = {} \/ del'[b] = {}
    BY DEF OneDeleterPerParticipant
  <2>1. CASE a = t \/ b = t
    BY <1>3, <2>1
  <2>2. CASE a # t /\ b # t
    BY <1>2, <2>2 DEF Rows, OneDeleterPerParticipant
  <2> QED BY <2>1, <2>2
<1>5. PrivateRowsFit' /\ LocksExclusive'
  <2>1. \A u \in Txs \ {t} :
           /\ todo[u] \cup del[u] \subseteq claims[who[u]]
           /\ ins[u] \cap claims[who[u]] \subseteq del[u]
           /\ pc[u] = "idle" => todo[u] = {} /\ del[u] = {} /\ ins[u] = {}
           /\ pc[u] # "deleting" => todo[u] = {}
           /\ pc[u] = "deleting" => del[u] = {} /\ ins[u] = {}
           /\ pc[u] \notin {"updating", "zeroing"} => locked[u] = {}
           /\ who[u] \notin joined => ~SplitExists /\ ins[u] = {}
           /\ locked[u] \subseteq joined
           /\ \A v \in Txs \ {u} :
               /\ locked[u] \cap locked[v] = {}
               /\ who[u] = who[v] => ins[u] \cap (ins[v] \cup del[v]) = {}
    BY DEF Rows, PrivateRowsFit, LocksExclusive, Active
  <2>2. PrivateRowsFit'
    BY <1>2, <1>3, <2>1 DEF PrivateRowsFit, Active, SplitExists
  <2>3. LocksExclusive'
    BY <1>2, <1>3, <2>1 DEF LocksExclusive
  <2> QED BY <2>2, <2>3
<1>6. ZeroingCovers'
  <2> SUFFICES ASSUME NEW u \in Txs, pc'[u] = "zeroing",
                      NEW p \in joined, View(u)'[p] = {}
               PROVE  \/ p \in left'[u]
                      \/ p \in locked'[u] /\ new'[u][p] = 0
                      \/ p \notin locked'[u] /\ claims[p] = {}
    BY DEF ZeroingCovers
  <2>1. u # t
    BY <1>3
  <2>2. pc[u] = "zeroing" /\ View(u)' = View(u)
    BY <1>2, <2>1 DEF View
  <2> QED BY <1>2, <2>1, <2>2 DEF Rows, ZeroingCovers
<1> QED BY <1>1, <1>4, <1>5, <1>6 DEF Rows

LEMMA RowsCommit ==
    ASSUME TypeOK, Rows, NEW t \in Txs, Commit(t)
    PROVE  Rows'
<1> DEFINE f == who[t]
<1>0. f \in Participants
  BY DEF TypeOK
<1>1. \A u \in Txs \ {t} :
         /\ pc'[u] = pc[u] /\ who'[u] = who[u] /\ del'[u] = del[u]
         /\ todo'[u] = IF who[u] = f THEN todo[u] \ del[t] ELSE todo[u]
         /\ ins'[u] = ins[u] /\ left'[u] = left[u] /\ locked'[u] = locked[u] /\ new'[u] = new[u]
  BY DEF TypeOK, Commit, End
<1>2. /\ pc'[t] = "idle" /\ who'[t] = Owner /\ del'[t] = {}
      /\ ins'[t] = {} /\ left'[t] = {} /\ locked'[t] = {}
  BY DEF TypeOK, Commit, End
<1>3. todo[t] = {} /\ todo'[t] = {}
  BY DEF TypeOK, Commit, Rows, PrivateRowsFit
<1>4. joined' = joined
  BY DEF Commit
<1>5. \A p \in Participants :
         claims'[p] = IF p = f THEN (claims[f] \ del[t]) \cup ins[t] ELSE claims[p]
  BY ViewAt DEF Commit
<1>6. \A p \in Participants : owed'[p] = IF p \in locked[t] THEN new[t][p] ELSE owed[p]
  BY DEF Commit
\* The invariant at t and at the others.
<1>7. /\ del[t] \subseteq claims[f] /\ locked[t] \subseteq joined
      /\ f \notin joined => ~SplitExists /\ ins[t] = {}
  BY DEF Rows, PrivateRowsFit, LocksExclusive
<1>8. \A u \in Txs \ {t} :
         /\ todo[u] \cup del[u] \subseteq claims[who[u]]
         /\ ins[u] \cap claims[who[u]] \subseteq del[u]
         /\ pc[u] = "idle" => todo[u] = {} /\ del[u] = {} /\ ins[u] = {}
         /\ pc[u] # "deleting" => todo[u] = {}
         /\ pc[u] = "deleting" => del[u] = {} /\ ins[u] = {}
         /\ pc[u] \notin {"updating", "zeroing"} => locked[u] = {}
         /\ who[u] \notin joined => ~SplitExists /\ ins[u] = {}
         /\ locked[u] \subseteq joined
         /\ \A v \in Txs \ {u} :
             /\ locked[u] \cap locked[v] = {}
             /\ who[u] = who[v] => ins[u] \cap (ins[v] \cup del[v]) = {}
  BY DEF Rows, PrivateRowsFit, LocksExclusive, Active
<1>9. \A u \in Txs \ {t} : who[u] = f =>
         /\ del[t] = {} \/ del[u] = {}
         /\ ins[t] \cap (ins[u] \cup del[u]) = {}
  BY DEF Rows, OneDeleterPerParticipant, PrivateRowsFit
\* Whoever has no claims after the commit is at 0 after the commit.
<1>10. \A p \in joined : View(t)[p] = {} =>
          \/ p \in locked[t] /\ new[t][p] = 0
          \/ p \notin locked[t] /\ claims[p] = {}
  BY DEF Rows, ZeroingCovers, Commit
<1>11. NonClaimantsOweNothing'
  <2> SUFFICES ASSUME NEW p \in joined, claims'[p] = {} PROVE owed'[p] = 0
    BY <1>4 DEF NonClaimantsOweNothing
  <2>1. p \in Participants /\ View(t)[p] = {}
    BY DEF TypeOK, Commit
  <2>2. p \notin locked[t] /\ claims[p] = {} => owed[p] = 0
    BY DEF Rows, NonClaimantsOweNothing
  <2> QED BY <1>6, <1>10, <2>1, <2>2
<1>12. OutsidersBlank'
  <2> SUFFICES ASSUME NEW p \in Participants \ joined PROVE claims'[p] = {} /\ owed'[p] = 0
    BY <1>4 DEF OutsidersBlank
  <2>1. claims[p] = {} /\ owed[p] = 0
    BY DEF Rows, OutsidersBlank
  <2> QED BY <1>5, <1>6, <1>7, <2>1
<1>13. OneDeleterPerParticipant'
  <2> SUFFICES ASSUME NEW a \in Txs, NEW b \in Txs, a # b, who'[a] = who'[b]
               PROVE  /\ todo'[a] \subseteq todo'[b] \/ todo'[b] \subseteq todo'[a]
                      /\ del'[b] # {} /\ todo'[a] # {} => todo'[a] \cap del'[b] # {}
                      /\ del'[a] = {} \/ del'[b] = {}
    BY DEF OneDeleterPerParticipant
  <2>1. CASE a = t \/ b = t
    BY <1>2, <1>3, <2>1
  <2>2. CASE a # t /\ b # t
    <3>1. who[a] = who[b]
      BY <1>1, <2>2
    <3>2. /\ todo[a] \subseteq todo[b] \/ todo[b] \subseteq todo[a]
          /\ del[b] # {} /\ todo[a] # {} => todo[a] \cap del[b] # {}
          /\ del[a] = {} \/ del[b] = {}
      BY <3>1 DEF Rows, OneDeleterPerParticipant
    <3>3. who[b] = f => del[t] = {} \/ del[b] = {}
      BY <1>9, <2>2
    <3> QED BY <1>1, <2>2, <3>1, <3>2, <3>3
  <2> QED BY <2>1, <2>2
<1>14. PrivateRowsFit' /\ LocksExclusive'
  <2>1. ASSUME NEW u \in Txs \ {t}
        PROVE  /\ todo'[u] \cup del'[u] \subseteq claims'[who'[u]]
               /\ ins'[u] \cap claims'[who'[u]] \subseteq del'[u]
    <3>1. /\ who[u] \in Participants
          /\ todo[u] \cup del[u] \subseteq claims[who[u]]
          /\ ins[u] \cap claims[who[u]] \subseteq del[u]
      BY <1>8 DEF TypeOK
    <3>2. CASE who[u] = f
      <4>1. claims'[f] = (claims[f] \ del[t]) \cup ins[t]
        BY <1>0, <1>5
      <4>2. /\ del[t] = {} \/ del[u] = {}
            /\ ins[t] \cap ins[u] = {}
        BY <1>9, <3>2
      <4>3. /\ who'[u] = f /\ del'[u] = del[u] /\ ins'[u] = ins[u]
            /\ todo'[u] = todo[u] \ del[t]
        BY <1>1, <3>2
      <4>4. todo[u] \cup del[u] \subseteq claims[f] /\ ins[u] \cap claims[f] \subseteq del[u]
        BY <3>1, <3>2
      <4> HIDE DEF f
      <4> QED BY <4>1, <4>2, <4>3, <4>4
    <3>3. CASE who[u] # f
      <4>1. claims'[who[u]] = claims[who[u]]
        BY <1>5, <3>1, <3>3
      <4> QED BY <1>1, <3>1, <3>3, <4>1
    <3> QED BY <3>2, <3>3
  <2>2. ASSUME NEW u \in Txs \ {t}
        PROVE  /\ pc'[u] = "idle" => todo'[u] = {} /\ del'[u] = {} /\ ins'[u] = {}
               /\ pc'[u] # "deleting" => todo'[u] = {}
               /\ pc'[u] = "deleting" => del'[u] = {} /\ ins'[u] = {}
               /\ pc'[u] \notin {"updating", "zeroing"} => locked'[u] = {}
               /\ who'[u] \notin joined => ~SplitExists /\ ins'[u] = {}
               /\ locked'[u] \subseteq joined
    BY <1>1, <1>8
  <2>3. ASSUME NEW u \in Txs \ {t}, NEW v \in Txs \ {u}
        PROVE  /\ locked'[u] \cap locked'[v] = {}
               /\ who'[u] = who'[v] => ins'[u] \cap (ins'[v] \cup del'[v]) = {}
    <3>1. CASE v = t
      BY <1>2, <3>1
    <3>2. CASE v # t
      <4>1. /\ locked'[u] = locked[u] /\ locked'[v] = locked[v] /\ who'[u] = who[u]
            /\ who'[v] = who[v] /\ ins'[u] = ins[u] /\ ins'[v] = ins[v] /\ del'[v] = del[v]
        BY <1>1, <3>2
      <4>2. /\ locked[u] \cap locked[v] = {}
            /\ who[u] = who[v] => ins[u] \cap (ins[v] \cup del[v]) = {}
        BY <1>8
      <4> QED BY <4>1, <4>2
    <3> QED BY <3>1, <3>2
  <2>4. PrivateRowsFit'
    BY <1>2, <1>3, <1>4, <2>1, <2>2, <2>3 DEF PrivateRowsFit, Active, SplitExists
  <2>5. LocksExclusive'
    BY <1>2, <1>4, <2>2, <2>3 DEF LocksExclusive
  <2> QED BY <2>4, <2>5
<1>15. ZeroingCovers'
  <2> SUFFICES ASSUME NEW u \in Txs, pc'[u] = "zeroing",
                      NEW p \in joined, View(u)'[p] = {}
               PROVE  \/ p \in left'[u]
                      \/ p \in locked'[u] /\ new'[u][p] = 0
                      \/ p \notin locked'[u] /\ claims'[p] = {}
    BY <1>4 DEF ZeroingCovers
  <2>1. u # t /\ p \in Participants /\ pc[u] = "zeroing"
    BY <1>1, <1>2 DEF TypeOK
  <2>2. View(u)'[p] = IF p = who[u] THEN (claims'[p] \ del[u]) \cup ins[u] ELSE claims'[p]
    <3>1. TypeOK'
      BY TypeStep DEF Next, Step
    <3>2. who'[u] = who[u] /\ del'[u] = del[u] /\ ins'[u] = ins[u]
      BY <1>1, <2>1
    <3>3. claims' \in ClaimTables
      BY <3>1 DEF TypeOK
    <3> QED BY <2>1, <3>2, <3>3 DEF View, ClaimTables
  <2>3. View(u)[p] = IF p = who[u] THEN (claims[p] \ del[u]) \cup ins[u] ELSE claims[p]
    BY <2>1, ViewAt
  <2>4. CASE View(u)[p] = {}
    <3>1. \/ p \in left[u]
          \/ p \in locked[u] /\ new[u][p] = 0
          \/ p \notin locked[u] /\ claims[p] = {}
      BY <2>1, <2>4 DEF Rows, ZeroingCovers
    <3>2. claims[p] = {} => claims'[p] = {}
      <4> SUFFICES ASSUME claims[p] = {} PROVE claims'[p] = {}
        OBVIOUS
      <4>1. CASE p = who[u] /\ p = f
        \* del[u] is part of claims[p], so View(u)'[p] is the whole of claims'[p].
        BY <1>8, <2>1, <2>2, <4>1
      <4>2. CASE p # who[u]
        BY <2>2, <4>2
      <4>3. CASE p # f
        BY <1>5, <2>1, <4>3
      <4> QED BY <4>1, <4>2, <4>3
    <3> QED BY <1>1, <2>1, <3>1, <3>2
  <2>5. CASE View(u)[p] # {}
    \* t took the claims of p away, so t has p's row, or found it without claims.
    <3>1. p = f
      BY <1>5, <2>1, <2>2, <2>3, <2>5
    <3>2. claims[p] # {} /\ claims'[p] = {}
      <4>1. CASE who[u] # p
        BY <2>2, <2>3, <2>5, <4>1
      <4>2. CASE who[u] = p
        <5>1. ins[u] = {} /\ claims[p] \ del[u] # {} /\ claims'[p] \ del[u] = {}
          BY <2>2, <2>3, <2>5, <4>2
        <5>2. claims'[p] = (claims[p] \ del[t]) \cup ins[t]
          BY <1>5, <2>1, <3>1
        <5>3. del[t] = {} \/ del[u] = {}
          BY <1>9, <2>1, <3>1, <4>2
        <5>4. del[u] = {}
          BY <5>1, <5>2, <5>3
        <5> QED BY <5>1, <5>4
      <4> QED BY <4>1, <4>2
    <3>3. View(t)[p] = {}
      BY <3>2 DEF Commit
    <3>4. p \in locked[t]
      BY <1>10, <3>2, <3>3
    <3>5. p \notin locked[u]
      BY <1>8, <2>1, <3>4
    <3> QED BY <1>1, <2>1, <3>2, <3>5
  <2> QED BY <2>4, <2>5
<1> QED BY <1>11, <1>12, <1>13, <1>14, <1>15 DEF Rows

-----------------------------------------------------------------------------
\* Each transaction writes the amounts of the claims it has read.

LEMMA ReadsInit == Init => AmountsFollowRead
BY DEF Init, AmountsFollowRead, FollowsRead, NoClaims

\* A step that leaves a transaction's rows alone, and takes claims only away
\* from people whose participant row it holds, leaves it following its read.
LEMMA FollowKept ==
    ASSUME TypeOK, TypeOK', NEW u \in Txs, FollowsRead(u),
           pc'[u] = pc[u], who'[u] = who[u], del'[u] = del[u], ins'[u] = ins[u],
           seen'[u] = seen[u], left'[u] = left[u], locked'[u] = locked[u], new'[u] = new[u],
           \/ joined' = joined
           \/ joined' = {}
           \/ SplitExists /\ joined \subseteq joined',
           \A p \in locked[u] : claims'[p] \subseteq claims[p]
    PROVE  FollowsRead(u)'
<1> SUFFICES ASSUME pc[u] \in {"updating", "zeroing"}
             PROVE  /\ ins[u] \subseteq seen[u][who[u]]
                    /\ \A p \in Participants : seen[u][p] # {} =>
                        /\ p \in joined' \/ ~SplitExists'
                        /\ \/ p \notin joined'
                           \/ pc[u] = "updating" /\ p \in left[u]
                           \/ p \in locked[u] \ left[u] /\ new[u][p] = OwedFor(p, seen[u])
                           \/ pc[u] = "zeroing" /\ p \in locked[u] /\ View(u)'[p] = {}
  BY DEF FollowsRead
<1>1. ins[u] \subseteq seen[u][who[u]]
  BY DEF FollowsRead
<1>2. ASSUME NEW p \in Participants, seen[u][p] # {}
      PROVE  p \in joined' \/ ~SplitExists'
  BY <1>2 DEF FollowsRead, SplitExists
<1>3. ASSUME NEW p \in Participants, seen[u][p] # {}, p \in joined'
      PROVE  \/ pc[u] = "updating" /\ p \in left[u]
             \/ p \in locked[u] \ left[u] /\ new[u][p] = OwedFor(p, seen[u])
             \/ pc[u] = "zeroing" /\ p \in locked[u] /\ View(u)'[p] = {}
  <2>1. p \in joined
    BY <1>3 DEF FollowsRead, SplitExists
  <2>2. \/ pc[u] = "updating" /\ p \in left[u]
        \/ p \in locked[u] \ left[u] /\ new[u][p] = OwedFor(p, seen[u])
        \/ pc[u] = "zeroing" /\ p \in locked[u] /\ View(u)[p] = {}
    BY <1>3, <2>1 DEF FollowsRead
  <2>3. p \in locked[u] => View(u)'[p] \subseteq View(u)[p]
    <3>1. View(u)[p] = IF p = who[u] THEN (claims[p] \ del[u]) \cup ins[u] ELSE claims[p]
      BY ViewAt
    <3>2. View(u)'[p] = IF p = who[u] THEN (claims'[p] \ del[u]) \cup ins[u] ELSE claims'[p]
      BY DEF TypeOK, View, ClaimTables
    <3> QED BY <3>1, <3>2
  <2> QED BY <2>2, <2>3
<1> QED BY <1>1, <1>2, <1>3

\* Writing the amount of one participant row that nobody else holds.
LEMMA ReadsUpdateOwed ==
    ASSUME TypeOK, TypeOK', AmountsFollowRead, NEW t \in Txs, NEW p \in Participants, UpdateOwed(t, p)
    PROVE  FollowsRead(t)'
<1> USE DEF UpdateOwed, stored, request, claimRows
<1>1. FollowsRead(t) /\ pc[t] = "updating" /\ p \in left[t]
  BY DEF AmountsFollowRead
<1>2. /\ left'[t] = left[t] \ {p} /\ locked[t] \subseteq locked'[t]
      /\ seen' = seen /\ joined' = joined /\ pc' = pc /\ ins' = ins /\ who' = who
  BY DEF TypeOK
<1>3. p \in joined => p \in locked'[t]
  BY DEF TypeOK
<1>4. p \in joined => new'[t][p] = OwedFor(p, seen[t])
  <2>1. new[t] \in [Participants -> OwedValues]
    BY DEF TypeOK
  <2> QED BY <2>1 DEF TypeOK
<1>5. \A q \in Participants \ {p} : new'[t][q] = new[t][q]
  <2>1. new[t] \in [Participants -> OwedValues]
    BY DEF TypeOK
  <2>2. CASE p \in joined
    BY <2>1, <2>2 DEF TypeOK
  <2>3. CASE p \notin joined
    BY <2>3
  <2> QED BY <2>2, <2>3
<1>6. ASSUME NEW q \in Participants, seen[t][q] # {}, q \in joined
      PROVE  \/ q \in left'[t]
             \/ q \in locked'[t] \ left'[t] /\ new'[t][q] = OwedFor(q, seen[t])
  <2>1. \/ q \in left[t]
        \/ q \in locked[t] \ left[t] /\ new[t][q] = OwedFor(q, seen[t])
    BY <1>1, <1>6 DEF FollowsRead
  <2>2. CASE q = p
    BY <1>2, <1>3, <1>4, <1>6, <2>2
  <2>3. CASE q # p
    BY <1>2, <1>5, <2>1, <2>3
  <2> QED BY <2>2, <2>3
<1> HIDE DEF UpdateOwed
<1> QED BY <1>1, <1>2, <1>6 DEF FollowsRead, SplitExists

\* From then on only rows whose claims have gone are set to 0.
LEMMA ReadsZeroOwed ==
    ASSUME TypeOK, TypeOK', AmountsFollowRead, NEW t \in Txs, NEW p \in Participants, ZeroOwed(t, p)
    PROVE  FollowsRead(t)'
<1> USE DEF ZeroOwed, stored, request, claimRows
<1>1. FollowsRead(t) /\ pc[t] = "zeroing" /\ p \in left[t]
  BY DEF AmountsFollowRead
<1>2. /\ left'[t] = left[t] \ {p} /\ locked[t] \subseteq locked'[t]
      /\ seen' = seen /\ joined' = joined /\ pc' = pc /\ ins' = ins /\ who' = who
      /\ View(t)' = View(t)
  BY DEF TypeOK, View
<1>3. \A q \in Participants \ {p} : new'[t][q] = new[t][q]
  <2>1. new[t] \in [Participants -> OwedValues]
    BY DEF TypeOK
  <2>2. CASE p \in joined
    BY <2>1, <2>2 DEF TypeOK
  <2>3. CASE p \notin joined
    BY <2>3
  <2> QED BY <2>2, <2>3
<1>4. ASSUME NEW q \in Participants, seen[t][q] # {}, q \in joined
      PROVE  \/ q \in locked'[t] \ left'[t] /\ new'[t][q] = OwedFor(q, seen[t])
             \/ q \in locked'[t] /\ View(t)[q] = {}
  <2>1. \/ q \in locked[t] \ left[t] /\ new[t][q] = OwedFor(q, seen[t])
        \/ q \in locked[t] /\ View(t)[q] = {}
    BY <1>1, <1>4 DEF FollowsRead
  <2>2. CASE q = p
    BY <1>1, <1>2, <2>1, <2>2
  <2>3. CASE q # p
    BY <1>2, <1>3, <2>1, <2>3
  <2> QED BY <2>2, <2>3
<1> HIDE DEF ZeroOwed
<1> QED BY <1>1, <1>2, <1>4 DEF FollowsRead, SplitExists

LEMMA ReadsStartZeroing ==
    ASSUME TypeOK, AmountsFollowRead, NEW t \in Txs, StartZeroing(t)
    PROVE  FollowsRead(t)'
<1> USE DEF StartZeroing, stored, claimRows
<1>1. FollowsRead(t) /\ pc[t] = "updating" /\ left[t] = {}
  BY DEF AmountsFollowRead
<1>2. /\ left'[t] = {p \in joined : View(t)[p] = {}} /\ pc'[t] = "zeroing"
      /\ View(t)' = View(t) /\ UNCHANGED <<seen, joined, ins, who, locked, new>>
  BY DEF TypeOK, View
<1> HIDE DEF StartZeroing
<1> QED BY <1>1, <1>2 DEF FollowsRead, SplitExists

\* People who are not in the split have no claims to read.
LEMMA ReadsReadClaims ==
    ASSUME TypeOK, Rows, AmountsFollowRead, NEW t \in Txs, ReadClaims(t)
    PROVE  FollowsRead(t)'
<1> USE DEF ReadClaims, stored, claimRows
<1>1. /\ seen'[t] = Considered(t) /\ pc'[t] = "updating"
      /\ left'[t] = {p \in Participants : Considered(t)[p] # {}}
      /\ UNCHANGED <<joined, ins, who>>
  BY DEF TypeOK
<1>2. \A p \in Participants : Considered(t)[p] = View(t)[p] \cap Included
  BY DEF Considered
<1>3. who[t] \in Participants /\ ins[t] \subseteq Included
  BY DEF TypeOK, AmountsFollowRead
<1>4. ins[t] \subseteq Considered(t)[who[t]]
  BY <1>2, <1>3, ViewAt
<1>5. ASSUME NEW p \in Participants, Considered(t)[p] # {}
      PROVE  p \in joined
  <2>1. View(t)[p] # {}
    BY <1>2, <1>5
  <2>2. p \notin joined => claims[p] = {}
    BY DEF Rows, OutsidersBlank
  <2>3. p \notin joined /\ p = who[t] => ins[t] = {}
    BY DEF Rows, PrivateRowsFit
  <2> QED BY <2>1, <2>2, <2>3, ViewAt
<1> HIDE DEF ReadClaims
<1> QED BY <1>1, <1>4, <1>5 DEF FollowsRead

\* A commit brings claims only to someone whose participant row it holds.
LEMMA CommitTakesOnly ==
    ASSUME TypeOK, Rows, AmountsFollowRead, NEW t \in Txs, Commit(t),
           NEW p \in Participants, p \notin locked[t]
    PROVE  claims'[p] \subseteq claims[p]
<1>1. claims'[p] = View(t)[p]
  BY DEF Commit
<1>2. CASE p # who[t]
  BY <1>1, <1>2, ViewAt
<1>3. CASE p = who[t]
  <2>1. FollowsRead(t) /\ pc[t] = "zeroing" /\ left[t] = {}
    BY DEF AmountsFollowRead, Commit
  <2>2. ins[t] = {}
    <3>1. p \notin joined => ins[t] = {}
      BY <1>3 DEF Rows, PrivateRowsFit
    <3>2. p \in joined => seen[t][p] = {}
      BY <2>1 DEF FollowsRead
    <3>3. ins[t] \subseteq seen[t][p]
      BY <1>3, <2>1 DEF FollowsRead
    <3> QED BY <3>1, <3>2, <3>3
  <2> QED BY <1>1, <2>2, ViewAt
<1> QED BY <1>2, <1>3

LEMMA ReadsCommit ==
    ASSUME TypeOK, TypeOK', Rows, AmountsFollowRead, NEW t \in Txs, Commit(t)
    PROVE  AmountsFollowRead'
<1>1. \A u \in Txs \ {t} :
         /\ pc'[u] = pc[u] /\ who'[u] = who[u] /\ del'[u] = del[u] /\ ins'[u] = ins[u]
         /\ seen'[u] = seen[u] /\ left'[u] = left[u] /\ locked'[u] = locked[u] /\ new'[u] = new[u]
  BY DEF TypeOK, Commit, End
<1>2. pc'[t] = "idle" /\ ins'[t] = {} /\ joined' = joined
  BY DEF TypeOK, Commit, End
<1>3. ASSUME NEW p \in Participants PROVE claims'[p] \subseteq Included
  <2>1. claims'[p] = View(t)[p] /\ claims[p] \subseteq Included /\ ins[t] \subseteq Included
    BY DEF Commit, AmountsFollowRead
  <2> QED BY <2>1, ViewAt
<1>4. ASSUME NEW u \in Txs \ {t} PROVE FollowsRead(u)'
  <2>1. locked[u] \cap locked[t] = {} /\ locked[u] \subseteq Participants
    BY DEF Rows, LocksExclusive, TypeOK
  <2>2. \A p \in locked[u] : claims'[p] \subseteq claims[p]
    BY <2>1, CommitTakesOnly
  <2>3. FollowsRead(u)
    BY DEF AmountsFollowRead
  <2> QED BY <1>1, <1>2, <2>2, <2>3, FollowKept
<1>5. FollowsRead(t)'
  BY <1>2 DEF FollowsRead
<1>6. \A u \in Txs : ins'[u] \subseteq Included
  BY <1>1, <1>2 DEF AmountsFollowRead
<1> QED BY <1>3, <1>4, <1>5, <1>6 DEF AmountsFollowRead

\* A step of t, or of nobody, that neither changes the claims nor another
\* transaction's rows.
LEMMA ReadsOthers ==
    ASSUME TypeOK, TypeOK', AmountsFollowRead, NEW t \in Txs, claims' = claims,
           \A u \in Txs \ {t} :
             /\ pc'[u] = pc[u] /\ who'[u] = who[u] /\ del'[u] = del[u] /\ ins'[u] = ins[u]
             /\ seen'[u] = seen[u] /\ left'[u] = left[u] /\ locked'[u] = locked[u] /\ new'[u] = new[u],
           joined' = joined,
           ins'[t] \subseteq Included,
           FollowsRead(t)'
    PROVE  AmountsFollowRead'
<1>1. ASSUME NEW u \in Txs \ {t} PROVE FollowsRead(u)'
  <2>1. FollowsRead(u) /\ \A p \in locked[u] : claims'[p] \subseteq claims[p]
    BY DEF AmountsFollowRead
  <2> QED BY <2>1, FollowKept
<1> QED BY <1>1 DEF AmountsFollowRead

LEMMA ReadsStep ==
    ASSUME TypeOK, TypeOK', Rows, AmountsFollowRead, [Next]_vars
    PROVE  AmountsFollowRead'
<1> USE DEF stored, request, claimRows, owedRows
<1>1. ASSUME NEW f \in Friends, CreateParticipant(f) PROVE AmountsFollowRead'
  <2>1. ASSUME NEW u \in Txs PROVE FollowsRead(u)'
    <3>1. FollowsRead(u)
      BY DEF AmountsFollowRead
    <3> QED BY <1>1, <3>1, FollowKept DEF CreateParticipant
  <2> QED BY <1>1, <2>1 DEF CreateParticipant, AmountsFollowRead
<1>2. CASE DeleteSplit
  <2>1. ASSUME NEW u \in Txs PROVE FollowsRead(u)'
    <3>1. FollowsRead(u) /\ locked[u] = {}
      BY <1>2 DEF AmountsFollowRead, DeleteSplit
    <3> QED BY <1>2, <3>1, FollowKept DEF DeleteSplit
  <2> QED BY <1>2, <2>1 DEF DeleteSplit, AmountsFollowRead, NoClaims
<1>3. ASSUME NEW t \in Txs, NEW f \in Friends, NEW items \in SUBSET Items, Begin(t, f, items)
      PROVE  AmountsFollowRead'
  <2>1. FollowsRead(t)'
    BY <1>3 DEF Begin, TypeOK, FollowsRead
  <2> QED BY <1>3, <2>1, ReadsOthers DEF Begin, TypeOK, AmountsFollowRead
<1>4. ASSUME NEW t \in Txs, DeleteClaims(t) PROVE AmountsFollowRead'
  <2>1. FollowsRead(t)'
    BY <1>4 DEF DeleteClaims, TypeOK, FollowsRead
  <2> QED BY <1>4, <2>1, ReadsOthers DEF DeleteClaims, TypeOK, AmountsFollowRead
<1>5. ASSUME NEW t \in Txs, NEW i \in Items, InsertClaim(t, i) PROVE AmountsFollowRead'
  <2>1. FollowsRead(t)'
    BY <1>5 DEF InsertClaim, Claimable, TypeOK, FollowsRead
  <2> QED BY <1>5, <2>1, ReadsOthers DEF InsertClaim, Claimable, TypeOK, AmountsFollowRead
<1>6. ASSUME NEW t \in Txs, ReadSplit(t) PROVE AmountsFollowRead'
  <2>1. FollowsRead(t)'
    BY <1>6 DEF ReadSplit, TypeOK, FollowsRead
  <2> QED BY <1>6, <2>1, ReadsOthers DEF ReadSplit, TypeOK, AmountsFollowRead
<1>7. ASSUME NEW t \in Txs, End(t), UNCHANGED stored PROVE AmountsFollowRead'
  <2>1. FollowsRead(t)'
    BY <1>7 DEF End, TypeOK, FollowsRead
  <2> QED BY <1>7, <2>1, ReadsOthers DEF End, TypeOK, AmountsFollowRead
<1>8. ASSUME NEW t \in Txs, ReadClaims(t) PROVE AmountsFollowRead'
  <2>1. FollowsRead(t)'
    BY <1>8, ReadsReadClaims
  <2> QED BY <1>8, <2>1, ReadsOthers DEF ReadClaims, TypeOK, AmountsFollowRead
<1>9. ASSUME NEW t \in Txs, NEW p \in Participants, UpdateOwed(t, p) PROVE AmountsFollowRead'
  <2>1. FollowsRead(t)'
    BY <1>9, ReadsUpdateOwed
  <2> QED BY <1>9, <2>1, ReadsOthers DEF UpdateOwed, TypeOK, AmountsFollowRead
<1>10. ASSUME NEW t \in Txs, StartZeroing(t) PROVE AmountsFollowRead'
  <2>1. FollowsRead(t)'
    BY <1>10, ReadsStartZeroing
  <2> QED BY <1>10, <2>1, ReadsOthers DEF StartZeroing, TypeOK, AmountsFollowRead
<1>11. ASSUME NEW t \in Txs, NEW p \in Participants, ZeroOwed(t, p) PROVE AmountsFollowRead'
  <2>1. FollowsRead(t)'
    BY <1>11, ReadsZeroOwed
  <2> QED BY <1>11, <2>1, ReadsOthers DEF ZeroOwed, TypeOK, AmountsFollowRead
<1>12. ASSUME NEW t \in Txs, Commit(t) PROVE AmountsFollowRead'
  BY <1>12, ReadsCommit
<1>13. CASE UNCHANGED vars
  BY <1>13 DEF vars, AmountsFollowRead, FollowsRead, View, SplitExists
<1> QED
  BY <1>1, <1>2, <1>3, <1>4, <1>5, <1>6, <1>7, <1>8, <1>9, <1>10, <1>11, <1>12, <1>13
     DEF Next, Step, SplitGone, Rollback, BreakDeadlock

-----------------------------------------------------------------------------
LEMMA IInvStep == IInv /\ [Next]_vars => IInv'
<1> SUFFICES ASSUME IInv, [Next]_vars PROVE IInv'
  OBVIOUS
<1>1. TypeOK /\ Rows
  BY DEF IInv, Rows
<1>2. TypeOK'
  BY <1>1, TypeStep
<1>3. Rows'
  <2>1. ASSUME NEW f \in Friends, CreateParticipant(f) PROVE Rows'
    BY <1>1, <2>1, RowsJoin
  <2>2. CASE DeleteSplit
    BY <1>1, <2>2, RowsDelete
  <2>3. ASSUME NEW t \in Txs, NEW f \in Friends, NEW items \in SUBSET Items, Begin(t, f, items)
        PROVE  Rows'
    BY <1>1, <2>3, RowsBegin
  <2>4. ASSUME NEW t \in Txs, DeleteClaims(t) PROVE Rows'
    BY <1>1, <2>4, RowsDeleteClaims
  <2>5. ASSUME NEW t \in Txs, NEW i \in Items, InsertClaim(t, i) PROVE Rows'
    BY <1>1, <2>5, RowsInsertClaim
  <2>6. ASSUME NEW t \in Txs, ReadSplit(t) PROVE Rows'
    BY <1>1, <2>6, RowsReadSplit
  <2>7. ASSUME NEW t \in Txs, SplitGone(t) PROVE Rows'
    <3>1. todo[t] = {}
      BY <1>1, <2>7 DEF Rows, PrivateRowsFit, SplitGone
    <3>2. todo' = [todo EXCEPT ![t] = {}]
      BY <1>1, <2>7, <3>1 DEF SplitGone, TypeOK
    <3> QED BY <1>1, <2>7, <3>2, RowsEnd DEF SplitGone
  <2>8. ASSUME NEW t \in Txs, ReadClaims(t) PROVE Rows'
    BY <1>1, <2>8, RowsReadClaims
  <2>9. ASSUME NEW t \in Txs, NEW p \in Participants, UpdateOwed(t, p) PROVE Rows'
    BY <1>1, <2>9, RowsUpdateOwed
  <2>10. ASSUME NEW t \in Txs, StartZeroing(t) PROVE Rows'
    BY <1>1, <2>10, RowsStartZeroing
  <2>11. ASSUME NEW t \in Txs, NEW p \in Participants, ZeroOwed(t, p) PROVE Rows'
    BY <1>1, <2>11, RowsZeroOwed
  <2>12. ASSUME NEW t \in Txs, Commit(t) PROVE Rows'
    BY <1>1, <2>12, RowsCommit
  <2>13. ASSUME NEW t \in Txs, Rollback(t) PROVE Rows'
    BY <1>1, <2>13, RowsEnd DEF Rollback
  <2>14. CASE UNCHANGED vars
    BY <1>1, <2>14 DEF vars, stored, request, claimRows, owedRows, Rows, OutsidersBlank,
       OneDeleterPerParticipant, PrivateRowsFit, LocksExclusive, ZeroingCovers, NonClaimantsOweNothing,
       View, Active, SplitExists
  <2> QED
    BY <2>1, <2>2, <2>3, <2>4, <2>5, <2>6, <2>7, <2>8, <2>9, <2>10, <2>11,
       <2>12, <2>13, <2>14 DEF Next, Step, BreakDeadlock
<1>4. AmountsFollowRead'
  BY <1>1, <1>2, ReadsStep DEF IInv
<1> QED BY <1>2, <1>3, <1>4 DEF IInv, Rows

\* The inductive invariant holds of every behaviour.
THEOREM Inductive == Spec => []IInv
<1>1. Init => IInv
  BY TypeInit, RowsInit, ReadsInit DEF IInv, Rows
<1> QED BY <1>1, IInvStep, PTL DEF Spec

\* Whatever SetClaims transactions overlap, fail or race with a join or with
\* the deletion of the split, a committed participant row without claims
\* shows 0: the comment over recomputeOwedTx's last UPDATE is true.
THEOREM NothingForNothing == Spec => []NonClaimantsOweNothing
<1>1. IInv => NonClaimantsOweNothing
  BY DEF IInv
<1> QED BY <1>1, Inductive, PTL

-----------------------------------------------------------------------------
\* What a transaction commits is exact for its own view of the claims, if its
\* read is still that view.
LEMMA FreshCommit ==
    ASSUME IInv, NEW t \in Txs, Commit(t), seen[t] = Considered(t)
    PROVE  OwedExact'
<1>1. /\ TypeOK /\ Rows /\ AmountsFollowRead
      /\ pc[t] = "zeroing" /\ left[t] = {} /\ claims' = View(t) /\ joined' = joined
  BY DEF IInv, Rows, Commit
<1>2. View(t) = Considered(t)
  <2>1. \A p \in Participants : View(t)[p] \subseteq Included
    BY <1>1, ViewAt DEF AmountsFollowRead
  <2>2. View(t) \in ClaimTables
    BY <1>1, ViewType
  <2> QED BY <2>1, <2>2 DEF Considered, ClaimTables
<1>3. ASSUME NEW p \in joined
      PROVE  owed'[p] = OwedFor(p, claims')
  <2>1. p \in Participants /\ owed'[p] = IF p \in locked[t] THEN new[t][p] ELSE owed[p]
    BY <1>1 DEF TypeOK, Commit
  <2>2. CASE View(t)[p] = {}
    <3>1. OwedFor(p, claims') = 0
      BY <1>1, <2>2, NothingClaimed
    <3>2. \/ p \in locked[t] /\ new[t][p] = 0
          \/ p \notin locked[t] /\ claims[p] = {}
      BY <1>1, <2>2 DEF Rows, ZeroingCovers
    <3>3. claims[p] = {} => owed[p] = 0
      BY <1>1 DEF Rows, NonClaimantsOweNothing
    <3> QED BY <2>1, <3>1, <3>2, <3>3
  <2>3. CASE View(t)[p] # {}
    <3>1. FollowsRead(t) /\ seen[t] = View(t)
      BY <1>1, <1>2 DEF AmountsFollowRead
    <3>2. p \in locked[t] /\ new[t][p] = OwedFor(p, seen[t])
      BY <1>1, <2>1, <2>3, <3>1 DEF FollowsRead
    <3> QED BY <1>1, <2>1, <3>1, <3>2
  <2> QED BY <2>2, <2>3
<1> QED BY <1>1, <1>3 DEF OwedExact

\* A SetClaims whose read of the claims is still current when it commits leaves
\* every amount of the split equal to recomputeOwedTx's formula for the
\* committed claims, whatever else overlaps it.
THEOREM FreshCommitsExact == Spec => FreshCommitIsExact
<1>1. IInv /\ [Next]_vars =>
        [\A t \in Txs : Commit(t) /\ seen[t] = Considered(t) => OwedExact']_vars
  BY FreshCommit
<1> QED BY <1>1, Inductive, PTL DEF Spec, FreshCommitIsExact

-----------------------------------------------------------------------------
\* Overlapping transactions.

\* Whom a transaction visits: first those it read with claims, then others, whom
\* it sets to 0.
VisitsRead ==
    \A t \in Txs :
        /\ pc[t] = "updating" => \A p \in left[t] : seen[t][p] # {}
        /\ \A p \in locked[t] : seen[t][p] = {} => new[t][p] = 0

LEMMA VisitsInit == Init => VisitsRead
BY DEF Init, VisitsRead

LEMMA VisitsStep ==
    ASSUME IInv, VisitsRead, [Next]_vars
    PROVE  VisitsRead'
<1> USE DEF stored, request, claimRows, owedRows
<1>0. TypeOK /\ LocksExclusive
  BY DEF IInv
<1>1. ASSUME NEW f \in Friends, CreateParticipant(f) PROVE VisitsRead'
  BY <1>1 DEF CreateParticipant, VisitsRead
<1>2. CASE DeleteSplit
  BY <1>2 DEF DeleteSplit, VisitsRead
<1>3. ASSUME NEW t \in Txs, NEW f \in Friends, NEW items \in SUBSET Items, Begin(t, f, items)
      PROVE  VisitsRead'
  BY <1>0, <1>3 DEF Begin, TypeOK, VisitsRead
<1>4. ASSUME NEW t \in Txs,
             DeleteClaims(t) \/ (\E i \in Items : InsertClaim(t, i)) \/ ReadSplit(t)
      PROVE  VisitsRead'
  BY <1>0, <1>4 DEF DeleteClaims, InsertClaim, ReadSplit, TypeOK, VisitsRead
<1>5. ASSUME NEW t \in Txs, End(t) PROVE VisitsRead'
  BY <1>0, <1>5 DEF End, TypeOK, VisitsRead
<1>6. ASSUME NEW t \in Txs, ReadClaims(t) PROVE VisitsRead'
  <2>1. locked[t] = {} /\ Considered(t) \in ClaimTables
    BY <1>0, <1>6, ViewType DEF LocksExclusive, ReadClaims
  <2> QED BY <1>0, <1>6, <2>1 DEF ReadClaims, TypeOK, VisitsRead
<1>7. ASSUME NEW t \in Txs, NEW p \in Participants, UpdateOwed(t, p) PROVE VisitsRead'
  <2>1. /\ pc' = pc /\ seen' = seen /\ seen[t][p] # {}
        /\ \A u \in Txs : left'[u] \subseteq left[u]
    BY <1>0, <1>7 DEF UpdateOwed, TypeOK, VisitsRead
  <2>2. ASSUME NEW u \in Txs, NEW q \in locked'[u], u # t \/ q # p
        PROVE  q \in locked[u] /\ new'[u][q] = new[u][q]
    BY <1>0, <1>7, <2>2 DEF UpdateOwed, TypeOK
  <2> QED BY <2>1, <2>2 DEF VisitsRead
<1>8. ASSUME NEW t \in Txs, StartZeroing(t) PROVE VisitsRead'
  BY <1>0, <1>8 DEF StartZeroing, TypeOK, VisitsRead
<1>9. ASSUME NEW t \in Txs, NEW p \in Participants, ZeroOwed(t, p) PROVE VisitsRead'
  <2>1. /\ pc' = pc /\ seen' = seen
        /\ \A u \in Txs : left'[u] \subseteq left[u]
    BY <1>0, <1>9 DEF ZeroOwed, TypeOK
  <2>2. ASSUME NEW u \in Txs, NEW q \in locked'[u], u # t \/ q # p
        PROVE  q \in locked[u] /\ new'[u][q] = new[u][q]
    BY <1>0, <1>9, <2>2 DEF ZeroOwed, TypeOK
  <2>3. p \in locked'[t] => new'[t][p] = 0
    <3>1. CASE p \in joined
      BY <1>0, <1>9, <3>1 DEF ZeroOwed, TypeOK
    <3>2. CASE p \notin joined
      BY <1>0, <1>9, <3>2 DEF ZeroOwed, TypeOK, LocksExclusive
    <3> QED BY <3>1, <3>2
  <2> QED BY <2>1, <2>2, <2>3 DEF VisitsRead
<1>10. CASE UNCHANGED vars
  BY <1>10 DEF vars, VisitsRead
<1> QED
  BY <1>1, <1>2, <1>3, <1>4, <1>5, <1>6, <1>7, <1>8, <1>9, <1>10
     DEF Next, Step, SplitGone, Commit, Rollback, BreakDeadlock

\* The open ledger's amounts are the same formula.
LEMMA OpenSums == ASSUME NEW g, NEW S PROVE O!SumFunctionOnSet(g, S) = SumFunctionOnSet(g, S)
BY DEF O!SumFunctionOnSet, SumFunctionOnSet, O!FoldFunctionOnSet, FoldFunctionOnSet,
   O!MapThenFoldSet, MapThenFoldSet

LEMMA OpenRoundDiv == ASSUME NEW a, NEW b PROVE O!RoundDiv(a, b) = RoundDiv(a, b)
BY DEF O!RoundDiv, RoundDiv, O!GoDiv, GoDiv

LEMMA OpenNames ==
    /\ O!Participants = Participants
    /\ O!NoClaims = NoClaims
    /\ O!SplittableSubtotal = SplittableSubtotal
    /\ \A C : O!Claimants(C) = Claimants(C)
<1>1. O!Participants = Participants
  BY DEF O!Participants, Participants
<1>2. O!NoClaims = NoClaims
  BY <1>1 DEF O!NoClaims, NoClaims
<1>3. O!SplittableSubtotal = SplittableSubtotal
  BY OpenSums DEF O!SplittableSubtotal, SplittableSubtotal
<1>4. ASSUME NEW C PROVE O!Claimants(C) = Claimants(C)
  BY <1>1 DEF O!Claimants, Claimants, O!Cardinality, Cardinality
<1> QED BY <1>1, <1>2, <1>3, <1>4

LEMMA OpenOwedFor == ASSUME NEW p, NEW C PROVE O!OwedFor(p, C) = OwedFor(p, C)
<1>1. ASSUME NEW S, NEW line, NEW n PROVE O!ClaimedSen(S, line, n) = ClaimedSen(S, line, n)
  BY OpenSums, OpenRoundDiv DEF O!ClaimedSen, ClaimedSen, O!SumFunction, SumFunction
<1>2. ASSUME NEW a, NEW b, NEW c PROVE O!Owed(a, b, c) = Owed(a, b, c)
  BY OpenRoundDiv DEF O!Owed, Owed
<1> QED BY <1>1, <1>2, OpenNames DEF O!OwedFor, OwedFor

\* How far the statements of a transaction have brought it.
Phases == [t \in Txs |-> Phase(t)]

\* The rows of its participant it deletes.
Deletes == [t \in Txs |-> todo[t] \cup del[t]]

LEMMA PhaseKept ==
    ASSUME TypeOK, NEW t \in Txs, NEW now, pc' = [pc EXCEPT ![t] = now],
           \/ now \in {"inserting", "reading"} /\ pc[t] \in {"deleting", "inserting"}
           \/ now = "zeroing" /\ pc[t] = "updating"
    PROVE  Phases' = Phases
BY DEF TypeOK, Phases, Phase

\* Statements that change none of the open ledger's variables.
LEMMA OpenStutters ==
    ASSUME stored' = stored, Phases' = Phases, who' = who, Deletes' = Deletes, ins' = ins, seen' = seen
    PROVE  UNCHANGED O!vars
BY DEF stored, Phases, Deletes, O!vars, O!rows, O!open

\* Once its delete is through, a transaction sees what the open ledger says.
LEMMA SameView ==
    ASSUME TypeOK, PrivateRowsFit, NEW t \in Txs, pc[t] # "deleting"
    PROVE  O!View(t) = View(t) /\ Deletes[t] = del[t]
<1>1. Deletes[t] = del[t]
  BY DEF PrivateRowsFit, Deletes
<1> QED BY <1>1 DEF O!View, View, Deletes

LEMMA OpenEnd ==
    ASSUME TypeOK, NEW t \in Txs, End(t)
    PROVE  O!End(t)
BY OpenNames DEF TypeOK, End, O!End, Phase

\* The updates of recomputeOwedTx leave what the open ledger's commit leaves.
LEMMA OpenAmounts ==
    ASSUME IInv, VisitsRead, NEW t \in Txs, Commit(t)
    PROVE  \E zeroed \in SUBSET O!Unread(t) : owed' = O!Amounts(t, zeroed)
<1> DEFINE zeroed == O!Unread(t) \cap locked[t]
<1>1. /\ TypeOK /\ PrivateRowsFit /\ FollowsRead(t) /\ pc[t] = "zeroing" /\ left[t] = {}
      /\ locked[t] \subseteq joined /\ ZeroingCovers /\ NonClaimantsOweNothing
      /\ O!View(t) = View(t)
  BY SameView DEF IInv, AmountsFollowRead, LocksExclusive, Commit
<1>2. ASSUME NEW p \in Participants
      PROVE  owed'[p] = IF p \notin joined \/ p \in O!Unread(t) \ zeroed THEN owed[p]
                        ELSE IF seen[t][p] = {} \/ View(t)[p] = {} THEN 0
                        ELSE OwedFor(p, seen[t])
  <2>1. owed'[p] = IF p \in locked[t] THEN new[t][p] ELSE owed[p]
    BY DEF Commit
  <2>2. p \in O!Unread(t) <=> p \in joined /\ seen[t][p] = {} /\ View(t)[p] # {}
    BY <1>1 DEF O!Unread
  <2>3. CASE p \notin joined
    BY <1>1, <2>1, <2>3
  <2>4. CASE p \in joined /\ View(t)[p] = {}
    <3>1. \/ p \in locked[t] /\ new[t][p] = 0
          \/ p \notin locked[t] /\ claims[p] = {}
      BY <1>1, <2>4 DEF ZeroingCovers
    <3>2. claims[p] = {} => owed[p] = 0
      BY <1>1, <2>4 DEF NonClaimantsOweNothing
    <3> QED BY <2>1, <2>2, <2>4, <3>1, <3>2
  <2>5. CASE p \in joined /\ View(t)[p] # {} /\ seen[t][p] = {}
    <3>1. p \in locked[t] => new[t][p] = 0
      BY <2>5 DEF VisitsRead
    <3> QED BY <2>1, <2>2, <2>5, <3>1
  <2>6. CASE p \in joined /\ View(t)[p] # {} /\ seen[t][p] # {}
    <3>1. p \in locked[t] /\ new[t][p] = OwedFor(p, seen[t])
      BY <1>1, <2>6 DEF FollowsRead
    <3> QED BY <2>1, <2>2, <2>6, <3>1
  <2> QED BY <2>3, <2>4, <2>5, <2>6
<1>3. owed' = [p \in Participants |-> owed'[p]]
  BY DEF Commit
<1>4. owed' = O!Amounts(t, zeroed)
  BY <1>1, <1>2, <1>3, OpenNames, OpenOwedFor DEF O!Amounts
<1> QED BY <1>4

LEMMA OpenCommit ==
    ASSUME IInv, VisitsRead, NEW t \in Txs, Commit(t)
    PROVE  O!Commit(t)
<1>1. TypeOK /\ PrivateRowsFit /\ OneDeleterPerParticipant /\ pc[t] = "zeroing" /\ End(t)
  BY DEF IInv, Commit
<1>2. Phases[t] = "read" /\ O!View(t) = View(t) /\ O!End(t)
  BY <1>1, SameView, OpenEnd DEF Phases, Phase
<1>3. Deletes' = [u \in Txs |-> IF u = t THEN {}
                                ELSE IF who[u] = who[t] THEN Deletes[u] \ Deletes[t] ELSE Deletes[u]]
  <2>1. del' = [del EXCEPT ![t] = {}] /\ todo[t] = {} /\ Deletes[t] = del[t]
    BY <1>1, SameView DEF End, PrivateRowsFit
  <2>2. ASSUME NEW u \in Txs
        PROVE  todo'[u] \cup del'[u] = IF u = t THEN {}
                   ELSE IF who[u] = who[t] THEN Deletes[u] \ Deletes[t] ELSE Deletes[u]
    <3>1. todo'[u] = IF who[u] = who[t] THEN todo[u] \ del[t] ELSE todo[u]
      BY DEF Commit
    <3>2. u # t /\ who[u] = who[t] => del[u] \ del[t] = del[u]
      BY <1>1 DEF OneDeleterPerParticipant
    <3>3. del'[u] = IF u = t THEN {} ELSE del[u]
      BY <1>1, <2>1 DEF TypeOK
    <3> QED BY <2>1, <3>1, <3>2, <3>3 DEF Deletes
  <2> QED BY <2>2 DEF Deletes
<1>4. claims' = View(t) /\ joined' = joined
  BY DEF Commit
<1> QED BY <1>2, <1>3, <1>4, OpenAmounts DEF O!Commit, Phases, Deletes

LEMMA OpenRollback ==
    ASSUME IInv, NEW t \in Txs, Rollback(t) \/ SplitGone(t)
    PROVE  O!Rollback(t)
<1>1. TypeOK /\ PrivateRowsFit /\ pc[t] # "idle" /\ End(t) /\ UNCHANGED stored
  BY DEF IInv, Rollback, SplitGone, Active
<1>2. todo' = [todo EXCEPT ![t] = {}]
  BY <1>1 DEF Rollback, SplitGone, TypeOK, PrivateRowsFit
<1>3. Deletes' = [Deletes EXCEPT ![t] = {}]
  BY <1>1, <1>2 DEF End, TypeOK, Deletes
<1>4. Phases[t] # "idle"
  BY <1>1 DEF TypeOK, Phases, Phase
<1> QED BY <1>1, <1>3, <1>4, OpenEnd DEF O!Rollback, O!rows, stored, Phases, Deletes

LEMMA OpenInsert ==
    ASSUME IInv, NEW t \in Txs, NEW i \in Items, InsertClaim(t, i)
    PROVE  O!Next \/ UNCHANGED O!vars
<1>1. TypeOK /\ PrivateRowsFit /\ pc[t] = "inserting"
  BY DEF IInv, InsertClaim
<1>2. /\ stored' = stored /\ Phases' = Phases /\ who' = who /\ Deletes' = Deletes /\ seen' = seen
      /\ Phases[t] = "open" /\ O!View(t) = View(t)
  BY <1>1, SameView DEF InsertClaim, request, owedRows, Phases, Phase, Deletes
<1>3. CASE i \in Claimable \ View(t)[who[t]]
  <2>1. O!Insertable(t, i) /\ i \in Included
    BY <1>2, <1>3 DEF O!Insertable, Claimable, SplitExists, O!SplitExists
  <2>2. \A u \in Txs \ {t} : Phases[u] # "idle" /\ who[u] = who[t] => i \notin ins[u]
    BY DEF InsertClaim, KeyFree, Rivals, Active, Phases, Phase
  <2>3. ins' = [ins EXCEPT ![t] = @ \cup {i}]
    BY <1>3 DEF InsertClaim
  <2>4. O!Insert(t, i)
    BY <1>2, <2>1, <2>2, <2>3 DEF O!Insert, O!rows, stored, Phases, Deletes
  <2> QED BY <2>1, <2>4 DEF O!Next
<1>4. CASE i \notin Claimable \ View(t)[who[t]]
  BY <1>2, <1>4, OpenStutters DEF InsertClaim
<1> QED BY <1>3, <1>4

LEMMA OpenRead ==
    ASSUME IInv, NEW t \in Txs, ReadClaims(t)
    PROVE  O!Read(t)
<1>1. TypeOK /\ PrivateRowsFit /\ AmountsFollowRead /\ pc[t] = "reading"
  BY DEF IInv, ReadClaims
<1>2. Considered(t) = View(t)
  <2>1. \A p \in Participants : View(t)[p] \subseteq Included
    BY <1>1, ViewAt DEF AmountsFollowRead
  <2> QED BY <1>1, <2>1, ViewType DEF Considered, ClaimTables
<1>3. O!View(t) = View(t) /\ Phases[t] = "open"
  BY <1>1, SameView DEF Phases, Phase
<1>4. Phases' = [Phases EXCEPT ![t] = "read"]
  BY <1>1 DEF ReadClaims, TypeOK, Phases, Phase
<1>5. Deletes' = Deletes /\ seen' = [seen EXCEPT ![t] = View(t)]
  BY <1>2 DEF ReadClaims, claimRows, Deletes
<1> QED
  BY <1>3, <1>4, <1>5 DEF ReadClaims, claimRows, stored, O!Read, O!rows, Phases, Deletes

LEMMA OpenBegin ==
    ASSUME IInv, NEW t \in Txs, NEW f \in Friends, NEW items \in SUBSET Items, Begin(t, f, items)
    PROVE  O!Begin(t, f)
<1>1. TypeOK /\ del[t] = {} /\ pc[t] = "idle"
  BY DEF IInv, PrivateRowsFit, Active, Begin
<1>2. Phases[t] = "idle" /\ Phases' = [Phases EXCEPT ![t] = "open"]
  BY <1>1 DEF Begin, TypeOK, Phases, Phase
<1>3. Deletes' = [Deletes EXCEPT ![t] = claims[f]]
  BY <1>1 DEF Begin, TypeOK, Deletes
<1> QED BY <1>2, <1>3 DEF Begin, stored, owedRows, O!Begin, O!rows, Phases, Deletes

LEMMA OpenStep ==
    ASSUME IInv, VisitsRead, [Next]_vars
    PROVE  [O!Next]_O!vars
<1> USE DEF stored, request, claimRows, owedRows
<1>0. TypeOK /\ PrivateRowsFit
  BY DEF IInv
<1>1. ASSUME NEW f \in Friends, CreateParticipant(f) PROVE O!Next
  <2>1. O!CreateParticipant(f)
    BY <1>1 DEF CreateParticipant, SplitExists, O!CreateParticipant, O!SplitExists, O!open, Phase
  <2> QED BY <2>1 DEF O!Next
<1>2. CASE DeleteSplit
  <2>1. Deletes' = [t \in Txs |-> {}] /\ Phases' = Phases
    BY <1>2 DEF DeleteSplit, Deletes, Phases, Phase
  <2>2. O!DeleteSplit
    BY <1>2, <2>1, OpenNames
       DEF DeleteSplit, SplitExists, NoAmounts, O!DeleteSplit, O!SplitExists, Deletes, Phases
  <2> QED BY <2>2 DEF O!Next
<1>3. ASSUME NEW t \in Txs, NEW f \in Friends, NEW items \in SUBSET Items, Begin(t, f, items)
      PROVE  O!Next
  BY <1>3, OpenBegin DEF O!Next
<1>4. ASSUME NEW t \in Txs, DeleteClaims(t) PROVE UNCHANGED O!vars
  <2>1. Phases' = Phases
    BY <1>0, <1>4, PhaseKept DEF DeleteClaims
  <2>2. Deletes' = Deletes
    BY <1>0, <1>4 DEF DeleteClaims, TypeOK, PrivateRowsFit, Deletes
  <2> QED BY <1>4, <2>1, <2>2, OpenStutters DEF DeleteClaims
<1>5. ASSUME NEW t \in Txs, NEW i \in Items, InsertClaim(t, i) PROVE O!Next \/ UNCHANGED O!vars
  BY <1>5, OpenInsert
<1>6. ASSUME NEW t \in Txs, ReadSplit(t) \/ StartZeroing(t) PROVE UNCHANGED O!vars
  <2>1. Phases' = Phases
    BY <1>0, <1>6, PhaseKept DEF ReadSplit, StartZeroing
  <2>2. Deletes' = Deletes
    BY <1>6 DEF ReadSplit, StartZeroing, Deletes
  <2> QED BY <1>6, <2>1, <2>2, OpenStutters DEF ReadSplit, StartZeroing
<1>7. ASSUME NEW t \in Txs, Rollback(t) \/ SplitGone(t) PROVE O!Next
  BY <1>7, OpenRollback DEF O!Next
<1>8. ASSUME NEW t \in Txs, ReadClaims(t) PROVE O!Next
  BY <1>8, OpenRead DEF O!Next
<1>9. ASSUME NEW t \in Txs, NEW p \in Participants, UpdateOwed(t, p) \/ ZeroOwed(t, p)
      PROVE  UNCHANGED O!vars
  <2>1. Phases' = Phases /\ Deletes' = Deletes
    BY <1>9 DEF UpdateOwed, ZeroOwed, Phases, Phase, Deletes
  <2> QED BY <1>9, <2>1, OpenStutters DEF UpdateOwed, ZeroOwed
<1>10. ASSUME NEW t \in Txs, Commit(t) PROVE O!Next
  BY <1>10, OpenCommit DEF O!Next
<1>11. CASE UNCHANGED vars
  <2>1. Phases' = Phases /\ Deletes' = Deletes
    BY <1>11 DEF vars, Phases, Phase, Deletes
  <2> QED BY <1>11, <2>1, OpenStutters DEF vars
<1> QED
  BY <1>1, <1>2, <1>3, <1>4, <1>5, <1>6, <1>7, <1>8, <1>9, <1>10, <1>11
     DEF Next, Step, BreakDeadlock

LEMMA OpenInit == Init => O!Init
<1> SUFFICES ASSUME Init PROVE O!Init
  OBVIOUS
<1>1. Phases = [t \in Txs |-> "idle"] /\ Deletes = [t \in Txs |-> {}]
  BY DEF Init, Phases, Phase, Deletes
<1> QED BY <1>1, OpenNames DEF Init, NoAmounts, O!Init, Phases, Deletes

\* However the statements of any number of SetClaims calls interleave, fail and
\* wait, the rows change as the open ledger says: what a transaction leaves is
\* determined by its delete's snapshot and its read, all at its commit.
THEOREM OverlapsAreOpenLedger == Spec => OverlapsAllowed
<1>1. IInv /\ VisitsRead /\ [Next]_vars => VisitsRead'
  BY VisitsStep
<1>2. IInv /\ VisitsRead /\ [Next]_vars => [O!Next]_O!vars
  BY OpenStep
<1> QED BY <1>1, <1>2, VisitsInit, OpenInit, Inductive, PTL DEF Spec, OverlapsAllowed, O!Spec

-----------------------------------------------------------------------------
\* The ledger's amounts are the same formula.
LEMMA SameSums == ASSUME NEW g, NEW S PROVE L!SumFunctionOnSet(g, S) = SumFunctionOnSet(g, S)
BY DEF L!SumFunctionOnSet, SumFunctionOnSet, L!FoldFunctionOnSet, FoldFunctionOnSet,
   L!MapThenFoldSet, MapThenFoldSet

LEMMA SameRoundDiv == ASSUME NEW a, NEW b PROVE L!RoundDiv(a, b) = RoundDiv(a, b)
BY DEF L!RoundDiv, RoundDiv, L!GoDiv, GoDiv

LEMMA SameNames ==
    /\ L!Participants = Participants
    /\ L!NoClaims = NoClaims
    /\ L!SplittableSubtotal = SplittableSubtotal
    /\ \A C : L!Claimants(C) = Claimants(C)
<1>1. L!Participants = Participants
  BY DEF L!Participants, Participants
<1>2. L!NoClaims = NoClaims
  BY <1>1 DEF L!NoClaims, NoClaims
<1>3. L!SplittableSubtotal = SplittableSubtotal
  BY SameSums DEF L!SplittableSubtotal, SplittableSubtotal
<1>4. ASSUME NEW C PROVE L!Claimants(C) = Claimants(C)
  BY <1>1 DEF L!Claimants, Claimants, L!Cardinality, Cardinality
<1> QED BY <1>1, <1>2, <1>3, <1>4

LEMMA SameOwedFor == ASSUME NEW p, NEW C PROVE L!OwedFor(p, C) = OwedFor(p, C)
<1>1. ASSUME NEW S, NEW line, NEW n PROVE L!ClaimedSen(S, line, n) = ClaimedSen(S, line, n)
  BY SameSums, SameRoundDiv DEF L!ClaimedSen, ClaimedSen, L!SumFunction, SumFunction
<1>2. ASSUME NEW a, NEW b, NEW c PROVE L!Owed(a, b, c) = Owed(a, b, c)
  BY SameRoundDiv DEF L!Owed, Owed
<1> QED BY <1>1, <1>2, SameNames DEF L!OwedFor, OwedFor

-----------------------------------------------------------------------------
\* One transaction at a time.

\* A transaction that overlaps no other knows the claims it will leave, as
\* long as the split exists.
Alone(t) ==
    /\ Active(t) => who[t] \in Friends
    /\ SplitExists =>
        /\ pc[t] = "deleting" => todo[t] = claims[who[t]] /\ rest[t] = want[t]
        /\ pc[t] \in {"inserting", "reading", "updating", "zeroing"} =>
            /\ del[t] = claims[who[t]]
            /\ ins[t] = (want[t] \ rest[t]) \cap Included
            /\ rest[t] \subseteq want[t]
        /\ pc[t] \in {"reading", "updating", "zeroing"} => rest[t] = {}
        /\ pc[t] \in {"updating", "zeroing"} => seen[t] = Considered(t)

Apart ==
    /\ ~SplitExists => joined = {}
    /\ \A t \in Txs : Alone(t)

LEMMA ApartInit == Init => Apart
BY DEF Init, Apart, Alone, Active, SplitExists

LEMMA ApartStep ==
    ASSUME \A t, u \in Txs : t = u, IInv, Apart, [Next]_vars
    PROVE  Apart'
<1> USE DEF stored, request, claimRows, owedRows
<1>0. TypeOK /\ Rows
  BY DEF IInv, Rows
<1>1. ASSUME NEW f \in Friends, CreateParticipant(f) PROVE Apart'
  BY <1>1 DEF CreateParticipant, Apart, Alone, Active, SplitExists, Considered, View
<1>2. CASE DeleteSplit
  BY <1>2 DEF DeleteSplit, Apart, Alone, Active, SplitExists
<1>3. ASSUME NEW t \in Txs, NEW f \in Friends, NEW items \in SUBSET Items, Begin(t, f, items)
      PROVE  Apart'
  BY <1>0, <1>3 DEF Begin, TypeOK, Apart, Alone, Active, SplitExists
<1>4. ASSUME NEW t \in Txs, DeleteClaims(t) PROVE Apart'
  BY <1>0, <1>4 DEF DeleteClaims, TypeOK, Rows, PrivateRowsFit, Apart, Alone, Active, SplitExists
<1>5. ASSUME NEW t \in Txs, NEW i \in Items, InsertClaim(t, i) PROVE Apart'
  <2>1. View(t)[who[t]] = (claims[who[t]] \ del[t]) \cup ins[t]
    BY <1>0, ViewAt DEF TypeOK
  <2> QED BY <1>0, <1>5, <2>1 DEF InsertClaim, Claimable, TypeOK, Apart, Alone, Active, SplitExists
<1>6. ASSUME NEW t \in Txs, ReadSplit(t) PROVE Apart'
  BY <1>0, <1>6 DEF ReadSplit, TypeOK, Apart, Alone, Active, SplitExists
<1>7. ASSUME NEW t \in Txs, End(t), UNCHANGED joined PROVE Apart'
  BY <1>0, <1>7 DEF End, TypeOK, Apart, Alone, Active, SplitExists
<1>8. ASSUME NEW t \in Txs, ReadClaims(t) PROVE Apart'
  BY <1>0, <1>8 DEF ReadClaims, TypeOK, Apart, Alone, Active, SplitExists, Considered, View
<1>9. ASSUME NEW t \in Txs, NEW p \in Participants, UpdateOwed(t, p) \/ ZeroOwed(t, p) PROVE Apart'
  BY <1>9 DEF UpdateOwed, ZeroOwed, Apart, Alone, Active, SplitExists, Considered, View
<1>10. ASSUME NEW t \in Txs, StartZeroing(t) PROVE Apart'
  BY <1>0, <1>10 DEF StartZeroing, TypeOK, Apart, Alone, Active, SplitExists, Considered, View
<1>11. CASE UNCHANGED vars
  BY <1>11 DEF vars, Apart, Alone, Active, SplitExists, Considered, View
<1> QED
  BY <1>1, <1>2, <1>3, <1>4, <1>5, <1>6, <1>7, <1>8, <1>9, <1>10, <1>11
     DEF Next, Step, SplitGone, Commit, Rollback, BreakDeadlock

\* The commit is the ledger's SetClaims; if the split has gone meanwhile it
\* changes nothing.
LEMMA CommitIsSetClaims ==
    ASSUME \A t, u \in Txs : t = u, IInv, Apart, NEW t \in Txs, Commit(t)
    PROVE  [L!Next]_L!vars
<1>1. /\ TypeOK /\ Rows /\ Alone(t) /\ who[t] \in Participants
      /\ pc[t] = "zeroing" /\ claims' = View(t) /\ joined' = joined
  BY DEF IInv, Rows, Apart, Commit, TypeOK
<1>2. locked[t] \subseteq joined /\ joined \subseteq Participants
  BY <1>1 DEF Rows, LocksExclusive, TypeOK
<1>3. CASE SplitExists /\ who[t] \in joined
  <2>1. who[t] \in Friends /\ want[t] \in SUBSET Items
    BY <1>1 DEF Alone, Active, TypeOK
  <2>2. claims' = [claims EXCEPT ![who[t]] = want[t] \cap Included]
    <3>1. View(t)[who[t]] = want[t] \cap Included
      BY <1>1, <1>3, ViewAt DEF Alone
    <3> QED BY <1>1, <3>1 DEF View, TypeOK, ClaimTables
  <2>3. OwedExact'
    BY <1>1, <1>3, FreshCommit DEF Alone
  <2>4. owed' = [p \in L!Participants |-> IF p \in joined THEN L!OwedFor(p, claims') ELSE owed[p]]
    <3>1. ASSUME NEW p \in Participants
          PROVE  owed'[p] = IF p \in joined THEN L!OwedFor(p, claims') ELSE owed[p]
      <4>1. CASE p \in joined
        BY <1>1, <2>3, <4>1, SameOwedFor DEF OwedExact
      <4>2. CASE p \notin joined
        BY <1>2, <4>2 DEF Commit
      <4> QED BY <4>1, <4>2
    <3>2. owed' = [p \in Participants |-> owed'[p]]
      BY DEF Commit
    <3> QED BY <3>1, <3>2, SameNames
  <2>5. L!SetClaims(who[t], want[t])
    BY <1>1, <1>3, <2>2, <2>4 DEF L!SetClaims
  <2> QED BY <2>1, <2>5 DEF L!Next
<1>4. CASE ~(SplitExists /\ who[t] \in joined)
  <2>1. joined = {} /\ who[t] \notin joined
    BY <1>1, <1>4 DEF Rows, PrivateRowsFit, Apart
  <2>2. owed' = owed
    BY <1>1, <1>2, <2>1 DEF Commit, TypeOK
  <2>3. claims' = claims
    <3>1. claims[who[t]] = {} /\ ins[t] = {}
      BY <1>1, <2>1 DEF Rows, OutsidersBlank, PrivateRowsFit
    <3> QED BY <1>1, <3>1 DEF View, TypeOK, ClaimTables
  <2> QED BY <1>1, <2>2, <2>3 DEF L!vars
<1> QED BY <1>3, <1>4

LEMMA LedgerStep ==
    ASSUME \A t, u \in Txs : t = u, IInv, Apart, [Next]_vars
    PROVE  [L!Next]_L!vars
<1> USE DEF stored
<1>1. ASSUME NEW f \in Friends, CreateParticipant(f) PROVE L!Next
  BY <1>1 DEF CreateParticipant, SplitExists, L!Next, L!CreateParticipant
<1>2. CASE DeleteSplit
  BY <1>2, SameNames DEF DeleteSplit, SplitExists, NoAmounts, L!Next, L!DeleteSplit
<1>3. ASSUME NEW t \in Txs, Commit(t) PROVE [L!Next]_L!vars
  BY <1>3, CommitIsSetClaims
<1>4. CASE UNCHANGED stored
  BY <1>4 DEF L!vars
<1> QED
  BY <1>1, <1>2, <1>3, <1>4
     DEF Next, Step, Begin, DeleteClaims, InsertClaim, ReadSplit, SplitGone, ReadClaims, UpdateOwed,
         StartZeroing, ZeroOwed, Rollback, BreakDeadlock, vars

\* If SetClaims calls never overlap, the statements of store.go implement one
\* atomic SetClaims, even when people join or the split disappears between
\* two of them.
THEOREM AloneIsLedger ==
    ASSUME \A t, u \in Txs : t = u
    PROVE  Spec => Ledger
<1>1. Init => L!Init
  BY SameNames DEF Init, NoAmounts, L!Init
<1>2. Init => Apart
  BY ApartInit
<1>3. IInv /\ Apart /\ [Next]_vars => Apart'
  BY ApartStep
<1>4. IInv /\ Apart /\ [Next]_vars => [L!Next]_L!vars
  BY LedgerStep
<1> QED BY <1>1, <1>2, <1>3, <1>4, Inductive, PTL DEF Spec, Ledger, L!Spec

=============================================================================
