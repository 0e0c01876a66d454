------------------------- MODULE FriendPages_proofs -------------------------
(***************************************************************************)
(* For any friends, names, items, saves in progress and calls of the JSON  *)
(* API, whose transactions overlap: what a friend tapped is what gets      *)
(* stored, what the pages show adds up, and what the pay page asks for is  *)
(* what the done page says was paid.                                       *)
(***************************************************************************)
EXTENDS FriendPages, Amounts_proofs

Steps == {"idle", "posted", "abandoned", "saved", "read"}

SaveRecords == [at : Steps, ids : SUBSET Included, data : ClaimTables]

\* Finitely many people have joined, the owner before all others.  They alone
\* have claims and owe something, and transactions are those of friends.
Ledgered ==
    /\ TypeOK
    /\ IsFiniteSet(joined)
    /\ Owner \notin joined => joined = {}
    /\ claims[Owner] = {}
    /\ \A p \in Participants : claims[p] \subseteq Included
    /\ \A p \in Participants \ joined : claims[p] = {} /\ owed[p] = 0
    /\ \A t \in Txs :
        /\ add[t] \subseteq Included
        /\ at[t] = "idle" => add[t] = {}
        /\ at[t] # "idle" => who[t] \in Friends /\ (Owner \in joined => who[t] \in joined)
        /\ who[t] \notin joined => add[t] = {}

\* What is owed is what the formula gives for the claims there are, unless they
\* moved between the last commit and its read.
Exact == skewed \/ \A p \in joined : owed[p] = OwedFor(p, claims)

\* The types of the pages' own variables.
Shape ==
    /\ name \in [Friends -> Names]
    /\ paid \in [Participants -> BOOLEAN]
    /\ page \in [Pagers -> Pages]
    /\ items \in [Pagers -> ClaimTables]
    /\ sel \in [Pagers -> SUBSET Included]
    /\ save \in [Pagers -> [Saves -> SaveRecords]]
    /\ asked \in [Pagers -> OwedValues]
    /\ told \in [Pagers -> OwedValues]
    /\ last \in [Pagers -> Saves \union {"none"}]
    /\ astray \in [Pagers -> BOOLEAN]
    /\ moved \in [Pagers -> BOOLEAN]
    /\ skewed \in BOOLEAN

\* Only people of the split have pages; once the split is gone nobody joins it
\* again.
Members == \A f \in Pagers \ joined : Owner \in joined => page[f] = "away"

\* Only the pick page selects and saves.
Left ==
    \A f \in Pagers : page[f] # "pick" =>
        /\ sel[f] = {}
        /\ last[f] = "none"
        /\ \A s \in Saves : save[f][s].at \in {"idle", "abandoned"}

\* An open transaction is that of a save not answered yet, or of a friend without
\* a page.
Sent ==
    /\ \A f \in Pagers, s \in Saves : at[Tx(f, s)] # "idle" =>
        who[Tx(f, s)] = f /\ save[f][s].at \in Undelivered
    /\ \A c \in ApiCalls : at[c] # "idle" => who[c] \notin Pagers

\* The save of the last tap carries the selection the page shows: posted, or in
\* a transaction that replaces what is stored.
Carries(f, s) ==
    /\ page[f] = "pick"
    /\ save[f][s].at = "posted"
    /\ at[Tx(f, s)] = "idle" => save[f][s].ids = sel[f]
    /\ at[Tx(f, s)] = "read" => save[f][s].ids = {}
    /\ at[Tx(f, s)] # "idle" /\ f \in joined /\ ~astray[f] =>
        /\ had[Tx(f, s)] = claims[f]
        /\ add[Tx(f, s)] \union save[f][s].ids = sel[f]

Carrying == \A f \in Pagers, s \in Saves : last[f] = s => Carries(f, s)

\* Without a save on its way, the selection is stored.
Saved ==
    \A f \in Pagers :
        f \in joined /\ page[f] = "pick" /\ OnlyOfName(f) /\ ~astray[f] /\ last[f] = "none"
            => claims[f] = sel[f]

\* The share and pay pages show the claims there are until claims move.
Reading ==
    \A f \in Pagers :
        f \in joined /\ ~moved[f] /\ page[f] \in Pages \ {"away", "pick", "done"} => items[f] = claims

\* What a page asks for is what is owed until claims move.
Asking ==
    \A f \in Pagers : f \in joined /\ ~moved[f] =>
        /\ page[f] \in {"share", "pay", "done"} => asked[f] = owed[f]
        /\ page[f] = "done" => paid[f] /\ told[f] = owed[f]

PagesInv == Shape /\ Members /\ Left /\ Sent /\ Carrying /\ Saved /\ Reading /\ Asking

LEMMA IdleSave == Idle \in SaveRecords
  BY DEF Idle, SaveRecords, Steps, ClaimTables, NoClaims

LEMMA NoneClaimed == NoClaims \in ClaimTables
  BY DEF NoClaims, ClaimTables

LEMMA NoneOwed == 0 \in OwedValues
  BY DEF OwedValues

LEMMA LedgerTypes ==
  Ledgered => joined \subseteq Participants /\ claims \in ClaimTables /\ owed \in [Participants -> OwedValues]
  BY DEF Ledgered, TypeOK

\* A save has a transaction of its own.
LEMMA OwnTx ==
  ASSUME NEW f \in Pagers, NEW s \in Saves
  PROVE  /\ Tx(f, s) \in Txs /\ Tx(f, s) \notin ApiCalls
         /\ \A g \in Pagers, u \in Saves : Tx(g, u) = Tx(f, s) <=> g = f /\ u = s
  BY TxsAssumption DEF Tx, ApiCalls

-----------------------------------------------------------------------------
\* The open ledger's operations.

LEMMA BeginEffect ==
  ASSUME Ledgered, NEW t \in Txs, NEW f \in Friends, Begin(t, f)
  PROVE  /\ UNCHANGED <<joined, claims, owed, add>>
         /\ at[t] = "idle" /\ f \in joined /\ add[t] = {}
         /\ at'[t] = "open" /\ who'[t] = f /\ had'[t] = claims[f]
         /\ \A u \in Txs \ {t} : at'[u] = at[u] /\ who'[u] = who[u] /\ had'[u] = had[u]
  BY DEF Ledgered, TypeOK, Begin, rows

LEMMA InsertEffect ==
  ASSUME Ledgered, NEW t \in Txs, NEW i \in Included, Insert(t, i)
  PROVE  /\ UNCHANGED <<joined, claims, owed, at, who, had>>
         /\ at[t] = "open" /\ Owner \in joined
         /\ add'[t] = add[t] \union {i}
         /\ \A u \in Txs \ {t} : add'[u] = add[u]
  BY DEF Ledgered, TypeOK, Insert, Insertable, SplitExists, rows

LEMMA ReadEffect ==
  ASSUME Ledgered, NEW t \in Txs, Read(t)
  PROVE  /\ UNCHANGED <<joined, claims, owed, who, had, add>>
         /\ at[t] = "open" /\ at'[t] = "read"
         /\ \A u \in Txs \ {t} : at'[u] = at[u]
  BY DEF Ledgered, TypeOK, Read, rows

LEMMA EndEffect ==
  ASSUME Ledgered, NEW t \in Txs, End(t)
  PROVE  /\ at'[t] = "idle" /\ add'[t] = {}
         /\ \A u \in Txs \ {t} : at'[u] = at[u] /\ who'[u] = who[u] /\ add'[u] = add[u]
  BY DEF Ledgered, TypeOK, End

LEMMA CommitEffect ==
  ASSUME Ledgered, NEW t \in Txs, Commit(t)
  PROVE  /\ joined' = joined
         /\ at[t] = "read" /\ who[t] \in Friends
         /\ claims'[who[t]] = (claims[who[t]] \ had[t]) \union add[t]
         /\ \A p \in Participants \ {who[t]} : claims'[p] = claims[p]
         /\ at'[t] = "idle" /\ add'[t] = {}
         /\ \A u \in Txs \ {t} : /\ at'[u] = at[u] /\ who'[u] = who[u] /\ add'[u] = add[u]
                                 /\ who[u] # who[t] => had'[u] = had[u]
<1>1. at[t] = "read" /\ who[t] \in Friends
  BY DEF Ledgered, Commit
<1>2. claims' = View(t) /\ claims \in ClaimTables /\ who[t] \in Participants
  BY <1>1, LedgerTypes DEF Commit, Participants
<1>3. /\ claims'[who[t]] = (claims[who[t]] \ had[t]) \union add[t]
      /\ \A p \in Participants \ {who[t]} : claims'[p] = claims[p]
  BY <1>2 DEF View, ClaimTables
<1>4. \A u \in Txs \ {t} : who[u] # who[t] => had'[u] = had[u]
  BY DEF Commit
<1>5. joined' = joined /\ End(t)
  BY DEF Commit
<1> QED
  BY <1>1, <1>3, <1>4, <1>5, EndEffect

LEMMA RollbackEffect ==
  ASSUME Ledgered, NEW t \in Txs, Rollback(t)
  PROVE  /\ UNCHANGED <<joined, claims, owed>>
         /\ at'[t] = "idle" /\ add'[t] = {}
         /\ \A u \in Txs \ {t} : at'[u] = at[u] /\ who'[u] = who[u] /\ add'[u] = add[u] /\ had'[u] = had[u]
<1>1. \A u \in Txs \ {t} : had'[u] = had[u]
  BY DEF Rollback, Ledgered, TypeOK
<1>2. UNCHANGED <<joined, claims, owed>> /\ End(t)
  BY DEF Rollback, rows
<1> QED
  BY <1>1, <1>2, EndEffect

\* A commit leaves amounts of the formula, and exactly those of what it commits
\* if it has read just that.
LEMMA CommitAmounts ==
  ASSUME Ledgered, NEW t \in Txs, Commit(t)
  PROVE  /\ owed' \in [Participants -> OwedValues]
         /\ \A p \in Participants \ joined : owed'[p] = owed[p]
         /\ Current(t) => \A p \in joined : owed'[p] = OwedFor(p, claims')
<1>1. PICK zeroed \in SUBSET Unread(t) : owed' = Amounts(t, zeroed)
  BY DEF Commit
<1>2. seen[t] \in ClaimTables /\ joined \subseteq Participants
  BY DEF Ledgered, TypeOK
<1>3. ASSUME NEW p \in Participants
      PROVE  owed'[p] = IF p \notin joined \/ p \in Unread(t) \ zeroed THEN owed[p]
                        ELSE IF seen[t][p] = {} \/ View(t)[p] = {} THEN 0
                        ELSE OwedFor(p, seen[t])
  BY <1>1 DEF Amounts
<1>4. ASSUME NEW p \in Participants PROVE owed'[p] \in OwedValues
  <2>1. owed[p] \in OwedValues /\ OwedFor(p, seen[t]) \in OwedValues
    BY <1>2, LedgerTypes, OwedForType
  <2> QED
    BY <1>3, <2>1, NoneOwed
<1>5. owed' \in [Participants -> OwedValues]
  <2>1. owed' = [p \in Participants |-> owed'[p]]
    BY <1>1 DEF Amounts
  <2> QED
    BY <1>4, <2>1
<1>6. ASSUME Current(t), NEW p \in joined PROVE owed'[p] = OwedFor(p, claims')
  <2>1. seen[t] = View(t) /\ claims' = View(t) /\ p \in Participants
    BY <1>2, <1>6 DEF Current, Commit
  <2>2. p \notin Unread(t)
    BY <2>1 DEF Unread
  <2>3. View(t)[p] = {} => OwedFor(p, View(t)) = 0
    BY NothingClaimed
  <2> QED
    BY <1>3, <1>6, <2>1, <2>2, <2>3
<1> QED
  BY <1>3, <1>5, <1>6

-----------------------------------------------------------------------------
LEMMA InitLedgered == Init => Ledgered
<1> SUFFICES ASSUME Init PROVE Ledgered
  OBVIOUS
<1> USE DEF Init
<1>1. TypeOK
  BY NoneClaimed, NoneOwed DEF TypeOK, Participants
<1>2. IsFiniteSet(joined)
  BY FS_Singleton
<1>3. \A p \in Participants : claims[p] = {}
  BY DEF NoClaims
<1>4. Owner \in Participants
  BY DEF Participants
<1> QED
  BY <1>1, <1>2, <1>3, <1>4 DEF Ledgered

\* The types of a step.
LEMMA NextTypes == Ledgered /\ [Next]_vars => TypeOK'
<1> SUFFICES ASSUME Ledgered, [Next]_vars PROVE TypeOK'
  OBVIOUS
<1> USE IncludedAssumption DEF TypeOK, rows, open
<1>0. TypeOK /\ Owner \in Participants /\ Friends \subseteq Participants
  BY DEF Ledgered, Participants
<1>1. CASE UNCHANGED vars
  BY <1>0, <1>1 DEF vars
<1>2. ASSUME NEW f \in Friends, CreateParticipant(f) PROVE TypeOK'
  BY <1>0, <1>2 DEF CreateParticipant
<1>3. CASE DeleteSplit
  BY <1>0, <1>3, NoneClaimed, NoneOwed DEF DeleteSplit
<1>4. ASSUME NEW t \in Txs, NEW f \in Friends, Begin(t, f) PROVE TypeOK'
  BY <1>0, <1>4 DEF Begin, ClaimTables
<1>5. ASSUME NEW t \in Txs, NEW i \in Included, Insert(t, i) PROVE TypeOK'
  BY <1>0, <1>5 DEF Insert
<1>6. ASSUME NEW t \in Txs PROVE View(t) \in ClaimTables
  BY <1>0 DEF View, ClaimTables
<1>7. ASSUME NEW t \in Txs, Read(t) PROVE TypeOK'
  BY <1>0, <1>6, <1>7 DEF Read
<1>8. ASSUME NEW t \in Txs, End(t)
      PROVE  /\ at' \in [Txs -> {"idle", "open", "read"}]
             /\ who' \in [Txs -> Participants]
             /\ add' \in [Txs -> SUBSET Items]
             /\ seen' \in [Txs -> ClaimTables]
  BY <1>0, <1>8, NoneClaimed DEF End
<1>9. ASSUME NEW t \in Txs, Commit(t) PROVE TypeOK'
  <2>1. had' \in [Txs -> SUBSET Items]
    BY <1>0, <1>9 DEF Commit
  <2>2. End(t) /\ claims' = View(t) /\ joined' = joined
    BY <1>9 DEF Commit
  <2>3. owed' \in [Participants -> OwedValues]
    BY <1>9, CommitAmounts
  <2> QED
    BY <1>0, <1>6, <1>8, <2>1, <2>2, <2>3
<1>10. ASSUME NEW t \in Txs, Rollback(t) PROVE TypeOK'
  <2>1. had' \in [Txs -> SUBSET Items] /\ End(t)
    BY <1>0, <1>10 DEF Rollback
  <2> QED
    BY <1>0, <1>8, <1>10, <2>1 DEF Rollback
<1> QED
  BY <1>1, <1>2, <1>3, <1>4, <1>5, <1>7, <1>9, <1>10 DEF Next

\* What the open ledger promises however its operations follow each other.
LEMMA NextLedgered == Ledgered /\ [Next]_vars => Ledgered'
<1> SUFFICES ASSUME Ledgered, [Next]_vars PROVE Ledgered'
  OBVIOUS
<1> USE OwnerAssumption, IncludedAssumption
<1>0. TypeOK' /\ TypeOK
  BY NextTypes DEF Ledgered
<1>1. CASE UNCHANGED vars
  BY <1>0, <1>1 DEF vars, rows, open, Ledgered
<1>2. ASSUME NEW f \in Friends, CreateParticipant(f) PROVE Ledgered'
  <2>1. IsFiniteSet(joined')
    BY <1>2, FS_AddElement DEF CreateParticipant, Ledgered
  <2> QED
    BY <1>0, <1>2, <2>1 DEF CreateParticipant, SplitExists, open, Ledgered
<1>3. CASE DeleteSplit
  <2>1. IsFiniteSet(joined')
    BY <1>3, FS_EmptySet DEF DeleteSplit
  <2> QED
    BY <1>0, <1>3, <2>1 DEF DeleteSplit, NoClaims, Participants, Ledgered
<1>4. ASSUME NEW t \in Txs, NEW f \in Friends, Begin(t, f) PROVE Ledgered'
  BY <1>0, <1>4, BeginEffect DEF Ledgered
<1>5. ASSUME NEW t \in Txs, NEW i \in Included, Insert(t, i) PROVE Ledgered'
  BY <1>0, <1>5, InsertEffect DEF Ledgered
<1>6. ASSUME NEW t \in Txs, Read(t) PROVE Ledgered'
  BY <1>0, <1>6, ReadEffect DEF Ledgered
<1>7. ASSUME NEW t \in Txs, Commit(t) PROVE Ledgered'
  <2>1. Owner \in Participants /\ Owner # who[t]
    BY <1>7, CommitEffect DEF Participants
  <2>2. \A p \in Participants \ joined : owed'[p] = owed[p]
    BY <1>7, CommitAmounts
  <2>3. \A p \in Participants : p \notin joined => claims'[p] = {}
    BY <1>7, CommitEffect DEF Ledgered
  <2>4. \A p \in Participants : claims'[p] \subseteq Included
    BY <1>7, CommitEffect DEF Ledgered, Participants
  <2>5. claims'[Owner] = {}
    BY <1>7, <2>1, CommitEffect DEF Ledgered
  <2>6. joined' = joined
    BY <1>7, CommitEffect
  <2>7. ASSUME NEW u \in Txs
        PROVE  /\ add'[u] \subseteq Included
               /\ at'[u] = "idle" => add'[u] = {}
               /\ at'[u] # "idle" => who'[u] \in Friends /\ (Owner \in joined => who'[u] \in joined)
               /\ who'[u] \notin joined => add'[u] = {}
    BY <1>7, CommitEffect DEF Ledgered
  <2> QED
    BY <1>0, <2>2, <2>3, <2>4, <2>5, <2>6, <2>7 DEF Ledgered
<1>8. ASSUME NEW t \in Txs, Rollback(t) PROVE Ledgered'
  BY <1>0, <1>8, RollbackEffect DEF Ledgered
<1> QED
  BY <1>1, <1>2, <1>3, <1>4, <1>5, <1>6, <1>7, <1>8 DEF Next

-----------------------------------------------------------------------------
\* The pages leave the rows alone or use the open ledger's operations.
LEMMA PagesUseLedger == [FNext]_fvars => [Next]_vars
<1> SUFFICES ASSUME [FNext]_fvars PROVE [Next]_vars
  OBVIOUS
<1> USE PagersAssumption
<1>1. CASE UNCHANGED fvars
  BY <1>1 DEF fvars
<1>2. CASE Deletes
  BY <1>2 DEF Deletes, Next
<1>3. ASSUME NEW f \in Friends, Join(f) PROVE [Next]_vars
  BY <1>3 DEF Join, Next
<1>4. ASSUME NEW c \in ApiCalls, ApiClaims(c) PROVE [Next]_vars
  <2>1. c \in Txs
    BY DEF ApiCalls
  <2> QED
    BY <1>4, <2>1 DEF ApiClaims, ApiStep, Stores, Next
<1>5. ASSUME NEW f \in Pagers, NEW s \in Saves,
             \/ Arrive(f, s) \/ Recompute(f, s) \/ Store(f, s) \/ Fail(f, s)
             \/ \E i \in Included : InsertItem(f, s, i)
      PROVE  [Next]_vars
  <2>1. Tx(f, s) \in Txs
    BY OwnTx
  <2> QED
    BY <1>5, <2>1 DEF Arrive, Recompute, Store, Stores, Fail, InsertItem, Next
<1>6. ASSUME NEW f \in Pagers, NEW s \in Saves,
             (\E i \in Included : Tap(f, s, i)) \/ Refetch(f, s) \/ Show(f, s)
      PROVE  UNCHANGED vars
  BY <1>6 DEF Tap, Refetch, Show
<1>7. ASSUME NEW f \in Pagers,
             \/ OpenPick(f) \/ Leave(f) \/ MarkPaid(f)
             \/ \E from \in {"pick", "share"} : OpenShare(f, from, "opening share")
             \/ ReadOwed(f, "opening share", "share")
             \/ \E from \in {"share", "pay"} : OpenShare(f, from, "opening pay")
             \/ ReadOwed(f, "opening pay", "pay")
      PROVE  UNCHANGED vars
  BY <1>7 DEF OpenPick, Leave, MarkPaid, OpenShare, ReadOwed
<1> QED
  BY <1>1, <1>2, <1>3, <1>4, <1>5, <1>6, <1>7 DEF FNext

\* Amounts are exact again after a commit that has read what it commits.
LEMMA NextExact == Ledgered /\ Exact /\ skewed \in BOOLEAN /\ [FNext]_fvars => Exact'
<1> SUFFICES ASSUME Ledgered, Exact, skewed \in BOOLEAN, [FNext]_fvars PROVE Exact'
  OBVIOUS
<1>1. ASSUME UNCHANGED <<joined, claims, owed, skewed>> PROVE Exact'
  BY <1>1 DEF Exact
<1>2. ASSUME NEW t \in Txs, Stores(t) PROVE Exact'
  BY <1>2, CommitEffect, CommitAmounts DEF Stores, Exact
<1>3. CASE Deletes
  BY <1>3 DEF Deletes, DeleteSplit, Exact
<1>4. ASSUME NEW f \in Friends, Join(f) PROVE Exact'
  <2>1. owed[f] = OwedFor(f, claims)
    BY <1>4, NothingClaimed DEF Join, CreateParticipant, Ledgered, Participants
  <2> QED
    BY <1>4, <2>1 DEF Join, CreateParticipant, history, Exact
<1>5. ASSUME NEW c \in ApiCalls, ApiClaims(c) PROVE Exact'
  <2>1. c \in Txs
    BY DEF ApiCalls
  <2>2. CASE ApiStep(c) /\ UNCHANGED <<moved, skewed>>
    BY <1>1, <2>1, <2>2, BeginEffect, InsertEffect, ReadEffect, RollbackEffect DEF ApiStep
  <2> QED
    BY <1>2, <1>5, <2>1, <2>2 DEF ApiClaims
<1>6. ASSUME NEW f \in Pagers, NEW s \in Saves, Store(f, s) PROVE Exact'
  BY <1>2, <1>6, OwnTx DEF Store
<1>7. ASSUME NEW f \in Pagers, NEW s \in Saves,
             \/ Arrive(f, s) \/ Recompute(f, s) \/ Fail(f, s)
             \/ \E i \in Included : InsertItem(f, s, i)
      PROVE  UNCHANGED <<joined, claims, owed, skewed>>
  <2>1. Tx(f, s) \in Txs /\ f \in Friends
    BY OwnTx, PagersAssumption
  <2>2. CASE Arrive(f, s)
    BY <2>1, <2>2, BeginEffect DEF Arrive
  <2>3. CASE Recompute(f, s)
    BY <2>1, <2>3, ReadEffect DEF Recompute, history
  <2>4. CASE Fail(f, s)
    BY <2>1, <2>4, RollbackEffect DEF Fail, vars, rows
  <2>5. CASE \E i \in Included : InsertItem(f, s, i)
    BY <2>1, <2>5, InsertEffect DEF InsertItem, vars, rows, history
  <2> QED
    BY <1>7, <2>2, <2>3, <2>4, <2>5
<1>8. ASSUME NEW f \in Pagers, NEW s \in Saves,
             (\E i \in Included : Tap(f, s, i)) \/ Refetch(f, s) \/ Show(f, s)
      PROVE  UNCHANGED <<joined, claims, owed, skewed>>
  BY <1>8 DEF Tap, Refetch, Show, vars, rows, history
<1>9. ASSUME NEW f \in Pagers,
             \/ OpenPick(f) \/ Leave(f) \/ MarkPaid(f)
             \/ \E from \in {"pick", "share"} : OpenShare(f, from, "opening share")
             \/ ReadOwed(f, "opening share", "share")
             \/ \E from \in {"share", "pay"} : OpenShare(f, from, "opening pay")
             \/ ReadOwed(f, "opening pay", "pay")
      PROVE  UNCHANGED <<joined, claims, owed, skewed>>
  BY <1>9 DEF OpenPick, Leave, MarkPaid, OpenShare, ReadOwed, vars, rows, history
<1>10. CASE UNCHANGED fvars
  BY <1>10 DEF fvars, vars, rows, history, Exact
<1> QED
  BY <1>1, <1>3, <1>4, <1>5, <1>6, <1>7, <1>8, <1>9, <1>10 DEF FNext

LEMMA InitPages == FInit => Ledgered /\ Exact /\ PagesInv
<1> SUFFICES ASSUME FInit PROVE Ledgered /\ Exact /\ PagesInv
  OBVIOUS
<1>1. Ledgered
  BY InitLedgered DEF FInit
<1> USE PagersAssumption, OwnerAssumption, SavesAssumption, IdleSave, NoneClaimed, NoneOwed
        DEF FInit, Init
<1>2. Shape
  BY DEF Shape, Pages
<1>3. Members /\ Reading
  BY DEF Members, Reading
<1>4. Left
  BY DEF Left, Idle
<1>5. Sent /\ Carrying /\ Saved
  BY OwnTx DEF Sent, Carrying, Saved, ApiCalls
<1>6. Asking
  BY DEF Asking
<1>7. Exact
  <2>1. \A p \in joined : claims[p] = {} /\ owed[p] = 0
    BY DEF NoClaims, Participants
  <2> QED
    BY <2>1, NothingClaimed DEF Exact
<1> QED
  BY <1>1, <1>2, <1>3, <1>4, <1>5, <1>6, <1>7 DEF PagesInv

-----------------------------------------------------------------------------
\* One lemma per kind of step.

LEMMA JoinPages == ASSUME Ledgered, PagesInv, NEW f \in Friends, Join(f) PROVE PagesInv'
<1> USE PagersAssumption, OwnerAssumption
        DEF PagesInv, Join, CreateParticipant, SplitExists, browser, history, people, open, Participants
<1>1. Shape'
  BY DEF Shape
<1>2. Members' /\ Left' /\ Sent'
  BY DEF Members, Left, Sent
<1>3. Carrying'
  BY DEF Carrying, Carries, Members
<1>4. Saved'
  BY DEF Saved, Members, OnlyOfName
<1>5. Reading' /\ Asking'
  BY DEF Reading, Asking, Members
<1> QED
  BY <1>1, <1>2, <1>3, <1>4, <1>5

LEMMA DeletePages == ASSUME Ledgered, PagesInv, Deletes PROVE PagesInv'
<1> USE PagersAssumption DEF PagesInv, Deletes, DeleteSplit, browser, Participants
<1>1. Shape'
  BY DEF Shape, Computed
<1>2. Members' /\ Left' /\ Sent'
  BY DEF Members, Left, Sent
<1>3. Carrying' /\ Saved'
  <2>1. \A f, s : Carries(f, s) => Carries(f, s)'
    BY DEF Carries
  <2>2. Carrying'
    BY <2>1 DEF Carrying
  <2>3. Saved'
    BY DEF Saved
  <2> QED
    BY <2>2, <2>3
<1>4. Reading' /\ Asking'
  BY DEF Reading, Asking
<1> QED
  BY <1>1, <1>2, <1>3, <1>4

\* After a commit, pages that show an amount may be out of date.
LEMMA StoresMoves ==
  ASSUME Ledgered, PagesInv, NEW t \in Txs, Stores(t)
  PROVE  /\ moved' \in [Pagers -> BOOLEAN] /\ skewed' \in BOOLEAN
         /\ \A f \in Pagers : page[f] \notin {"away", "pick"} => moved'[f]
  BY DEF Stores, Computed

LEMMA ApiPages ==
  ASSUME Ledgered, PagesInv, NEW c \in ApiCalls, ApiClaims(c)
  PROVE  PagesInv'
<1>1. /\ c \in Txs
      /\ \A f \in Pagers, s \in Saves : Tx(f, s) \in Txs \ {c}
      /\ \A u \in ApiCalls : u \in Txs
  BY OwnTx DEF ApiCalls
<1>2. at[c] # "idle" => who[c] \notin Pagers
  BY DEF PagesInv, Sent
<1>3. CASE ApiStep(c) /\ UNCHANGED <<moved, skewed>>
  <2>1. UNCHANGED <<joined, claims, owed, people, browser, save, last, moved, skewed, astray>>
    BY <1>1, <1>3, BeginEffect, InsertEffect, ReadEffect, RollbackEffect DEF ApiClaims, ApiStep
  <2>2. \A u \in Txs \ {c} : at'[u] = at[u] /\ who'[u] = who[u] /\ had'[u] = had[u] /\ add'[u] = add[u]
    BY <1>1, <1>3, BeginEffect, InsertEffect, ReadEffect, RollbackEffect DEF ApiStep
  <2>3. at'[c] # "idle" => who'[c] \notin Pagers
    BY <1>1, <1>2, <1>3, BeginEffect, InsertEffect, ReadEffect, RollbackEffect DEF ApiStep
  <2> USE DEF PagesInv, people, browser
  <2>4. Shape' /\ Members' /\ Left' /\ Reading' /\ Asking'
    BY <2>1 DEF Shape, Members, Left, Reading, Asking
  <2>5. Sent'
    BY <1>1, <2>1, <2>2, <2>3 DEF Sent
  <2>6. Carrying'
    BY <1>1, <2>1, <2>2 DEF Carrying, Carries
  <2>7. Saved'
    BY <2>1 DEF Saved, OnlyOfName
  <2> QED
    BY <2>4, <2>5, <2>6, <2>7
<1>4. CASE Stores(c)
  <2>0. UNCHANGED <<people, browser, save, last, astray>>
    BY DEF ApiClaims
  <2>1. /\ joined' = joined /\ who[c] \notin Pagers /\ at'[c] = "idle"
        /\ \A p \in Participants \ {who[c]} : claims'[p] = claims[p]
        /\ \A u \in Txs \ {c} : /\ at'[u] = at[u] /\ who'[u] = who[u] /\ add'[u] = add[u]
                                /\ who[u] # who[c] => had'[u] = had[u]
    BY <1>1, <1>2, <1>4, CommitEffect DEF Stores
  <2>2. /\ moved' \in [Pagers -> BOOLEAN] /\ skewed' \in BOOLEAN
        /\ \A f \in Pagers : page[f] \notin {"away", "pick"} => moved'[f]
    BY <1>1, <1>4, StoresMoves
  <2>3. \A f \in Pagers : claims'[f] = claims[f]
    BY <2>1, PagersAssumption DEF Participants
  <2> USE DEF PagesInv, people, browser
  <2>4. Shape' /\ Members' /\ Left'
    BY <2>0, <2>1, <2>2 DEF Shape, Members, Left
  <2>5. Sent'
    BY <1>1, <2>0, <2>1 DEF Sent
  <2>6. Carrying'
    <3>1. \A f \in Pagers, s \in Saves : at[Tx(f, s)] # "idle" => had'[Tx(f, s)] = had[Tx(f, s)]
      BY <1>1, <2>1 DEF Sent
    <3> QED
      BY <1>1, <2>0, <2>1, <2>3, <3>1 DEF Carrying, Carries
  <2>7. Saved'
    BY <2>0, <2>1, <2>3 DEF Saved, OnlyOfName
  <2>8. Reading' /\ Asking'
    BY <2>0, <2>1, <2>2 DEF Reading, Asking
  <2> QED
    BY <2>4, <2>5, <2>6, <2>7, <2>8
<1> QED
  BY <1>3, <1>4 DEF ApiClaims

\* Leaving a page keeps the shape of its saves and gives up those not arrived.
LEMMA AbandonShape ==
  ASSUME save \in [Pagers -> [Saves -> SaveRecords]], NEW f \in Pagers, Abandon(f)
  PROVE  /\ save' \in [Pagers -> [Saves -> SaveRecords]]
         /\ \A g \in Pagers \ {f} : save'[g] = save[g]
         /\ \A s \in Saves :
             /\ save'[f][s].at \in {"idle", "abandoned"}
             /\ save[f][s].at \in Undelivered => save'[f][s].at \in Undelivered
<1> USE IdleSave
<1>1. ASSUME NEW s \in Saves
      PROVE  /\ [save[f][s] EXCEPT !.at = "abandoned"] \in SaveRecords
             /\ [save[f][s] EXCEPT !.at = "abandoned"].at = "abandoned"
  <2>1. save[f][s] \in SaveRecords
    OBVIOUS
  <2> QED
    BY <2>1 DEF SaveRecords, Steps
<1>2. save' \in [Pagers -> [Saves -> SaveRecords]]
  BY <1>1 DEF Abandon
<1>3. Idle.at = "idle"
  BY DEF Idle
<1>4. \A g \in Pagers \ {f} : save'[g] = save[g]
  BY DEF Abandon
<1>5. ASSUME NEW s \in Saves
      PROVE  /\ save'[f][s].at \in {"idle", "abandoned"}
             /\ save[f][s].at \in Undelivered => save'[f][s].at \in Undelivered
  <2>1. save'[f][s] = IF save[f][s].at \in Undelivered
                      THEN [save[f][s] EXCEPT !.at = "abandoned"] ELSE Idle
    BY DEF Abandon
  <2> QED
    BY <1>1, <1>3, <2>1 DEF Undelivered
<1> QED
  BY <1>2, <1>4, <1>5

\* A page that is left carries nothing any more.
LEMMA GonePages ==
  ASSUME PagesInv, NEW f \in Pagers, Abandon(f), UNCHANGED <<vars, people>>,
         page'[f] # "pick", last'[f] = "none",
         \A g \in Pagers \ {f} :
            /\ page'[g] = page[g] /\ last'[g] = last[g] /\ astray'[g] = astray[g]
            /\ sel'[g] = sel[g]
  PROVE  Sent' /\ Carrying' /\ Saved'
<1>1. /\ \A g \in Pagers \ {f} : save'[g] = save[g]
      /\ \A s \in Saves : save[f][s].at \in Undelivered => save'[f][s].at \in Undelivered
  BY AbandonShape DEF PagesInv, Shape
<1>2. Sent'
  <2>1. Sent /\ at' = at /\ who' = who
    BY DEF PagesInv, vars, open
  <2> QED
    BY <1>1, <2>1 DEF Sent
<1>3. Carrying'
  <2>1. Carrying /\ UNCHANGED <<at, had, add, joined, claims>>
    BY DEF PagesInv, vars, rows, open
  <2>2. \A s \in Saves : last'[f] # s
    BY SavesAssumption
  <2>3. ASSUME NEW g \in Pagers \ {f}, NEW s \in Saves, last'[g] = s PROVE Carries(g, s)'
    <3>1. Carries(g, s) /\ save'[g] = save[g]
      BY <1>1, <2>1, <2>3 DEF Carrying
    <3> QED
      BY <2>1, <3>1 DEF Carries
  <2> QED
    BY <2>2, <2>3 DEF Carrying
<1>4. Saved'
  BY <1>1 DEF PagesInv, Saved, OnlyOfName, vars, rows, people
<1> QED
  BY <1>2, <1>3, <1>4

LEMMA LeavePages == ASSUME Ledgered, PagesInv, NEW f \in Pagers, Leave(f) PROVE PagesInv'
<1> USE PagersAssumption DEF PagesInv, Leave, GoTo
<1>0. /\ save' \in [Pagers -> [Saves -> SaveRecords]]
      /\ \A g \in Pagers \ {f} : save'[g] = save[g]
      /\ \A s \in Saves : save'[f][s].at \in {"idle", "abandoned"}
  BY AbandonShape DEF Shape
<1>1. Shape'
  BY <1>0, NoneClaimed, NoneOwed DEF Shape, Pages, people
<1>2. Members'
  BY DEF Members, Shape, rows, vars
<1>3. Left'
  BY <1>0 DEF Left, Shape
<1>4. Sent' /\ Carrying' /\ Saved'
  <2>1. /\ page'[f] # "pick" /\ last'[f] = "none"
        /\ \A g \in Pagers \ {f} :
            page'[g] = page[g] /\ last'[g] = last[g] /\ astray'[g] = astray[g] /\ sel'[g] = sel[g]
    BY DEF Shape
  <2> QED
    BY <2>1, GonePages
<1>5. Reading' /\ Asking'
  BY DEF Reading, Asking, Shape, rows, vars, people
<1> QED
  BY <1>1, <1>2, <1>3, <1>4, <1>5

\* The page selects what is claimed under the friend's name: the friend's own
\* claims, when nobody else in the split has that name.
LEMMA OwnSelection ==
  ASSUME Ledgered, NEW f \in Pagers, f \in joined, OnlyOfName(f)
  PROVE  SelectedIDs(f, claims) = claims[f]
  BY PagersAssumption, OwnerAssumption
     DEF Ledgered, OnlyOfName, SelectedIDs, Own, Claimers, Participants

LEMMA OpenPickPages == ASSUME Ledgered, PagesInv, NEW f \in Pagers, OpenPick(f) PROVE PagesInv'
<1> USE PagersAssumption DEF PagesInv, OpenPick, GoTo, rows, open, people, history, vars
<1>1. Shape'
  BY LedgerTypes, NoneOwed DEF Shape, Pages, SelectedIDs
<1>2. Members' /\ Left' /\ Sent'
  BY DEF Members, Left, Sent, Shape
<1>3. OnlyOfName(f) => sel'[f] = claims[f]
  BY OwnSelection DEF Shape
<1>4. Carrying'
  BY DEF Carrying, Carries, Shape
<1>5. Saved'
  BY <1>3 DEF Saved, Shape, OnlyOfName
<1>6. Reading' /\ Asking'
  BY DEF Reading, Asking, Shape
<1> QED
  BY <1>1, <1>2, <1>4, <1>5, <1>6

LEMMA TapPages ==
  ASSUME Ledgered, PagesInv, NEW f \in Pagers, NEW s \in Saves, NEW i \in Included, Tap(f, s, i)
  PROVE  PagesInv'
<1> USE PagersAssumption, SavesAssumption DEF PagesInv, Tap, rows, open, people, vars
<1>1. sel' \in [Pagers -> SUBSET Included]
  BY DEF Shape
<1>2. [Idle EXCEPT !.at = "posted", !.ids = sel'[f]] \in SaveRecords
  BY <1>1, IdleSave DEF SaveRecords, Steps, Idle
<1>3. Shape'
  BY <1>1, <1>2 DEF Shape
<1>4. save'[f][s].at = "posted" /\ save'[f][s].ids = sel'[f]
  BY DEF Shape, Idle
<1>5. Members' /\ Left'
  BY DEF Members, Left, Shape
<1>6. \A g \in Pagers : \A u \in Saves : g # f \/ u # s => save'[g][u] = save[g][u]
  BY DEF Shape
<1>7. at[Tx(f, s)] = "idle"
  <2>1. save[f][s].at \notin Undelivered
    BY DEF Idle, Undelivered
  <2> QED
    BY <2>1 DEF Sent
<1>8. Sent'
  BY <1>4, <1>6 DEF Sent, Undelivered
<1>9. Carrying'
  BY <1>4, <1>6, <1>7 DEF Carrying, Carries, Shape
<1>10. Saved'
  BY DEF Saved, Shape, OnlyOfName
<1>11. Reading' /\ Asking'
  BY DEF Reading, Asking
<1> QED
  BY <1>3, <1>5, <1>8, <1>9, <1>10, <1>11

LEMMA ArrivePages ==
  ASSUME Ledgered, PagesInv, NEW f \in Pagers, NEW s \in Saves, Arrive(f, s)
  PROVE  PagesInv'
<1> DEFINE t == Tx(f, s)
<1>1. /\ t \in Txs /\ f \in Friends
      /\ \A g \in Pagers, u \in Saves : g # f \/ u # s => Tx(g, u) \in Txs \ {t}
      /\ \A c \in ApiCalls : c \in Txs \ {t}
  BY OwnTx, PagersAssumption DEF ApiCalls
<1>2. /\ UNCHANGED <<joined, claims, owed, add, people, browser, save, last, moved, skewed>>
      /\ at[t] = "idle" /\ add[t] = {} /\ save[f][s].at \in Undelivered
      /\ at'[t] = "open" /\ who'[t] = f /\ had'[t] = claims[f]
      /\ \A u \in Txs \ {t} : at'[u] = at[u] /\ who'[u] = who[u] /\ had'[u] = had[u]
      /\ astray' = [astray EXCEPT ![f] = @ /\ last[f] # s]
  BY <1>1, BeginEffect DEF Arrive
<1> HIDE DEF t
<1> USE DEF PagesInv, people, browser
<1>3. /\ astray' \in [Pagers -> BOOLEAN]
      /\ \A g \in Pagers : g # f \/ last[g] # s => astray'[g] = astray[g]
  BY <1>2 DEF Shape
<1>4. Shape' /\ Members' /\ Left' /\ Reading' /\ Asking'
  BY <1>2, <1>3 DEF Shape, Members, Left, Reading, Asking
<1>5. Sent'
  BY <1>1, <1>2 DEF Sent, t
<1>6. Carrying'
  <2> SUFFICES ASSUME NEW g \in Pagers, NEW u \in Saves, last[g] = u
               PROVE  Carries(g, u)'
    BY <1>2 DEF Carrying
  <2>0. Carries(g, u)
    BY DEF Carrying
  <2>1. CASE g = f /\ u = s
    BY <1>2, <2>0, <2>1 DEF Carries, t
  <2>2. CASE g # f \/ u # s
    BY <1>1, <1>2, <1>3, <2>0, <2>2 DEF Carries
  <2> QED
    BY <2>1, <2>2
<1>7. Saved'
  BY <1>2, <1>3, SavesAssumption DEF Saved, OnlyOfName
<1> QED
  BY <1>4, <1>5, <1>6, <1>7

LEMMA InsertPages ==
  ASSUME Ledgered, PagesInv, NEW f \in Pagers, NEW s \in Saves, NEW i \in Included, InsertItem(f, s, i)
  PROVE  PagesInv'
<1> DEFINE t == Tx(f, s)
<1>1. /\ t \in Txs /\ f \in Participants
      /\ \A g \in Pagers, u \in Saves : g # f \/ u # s => Tx(g, u) \in Txs \ {t}
      /\ \A c \in ApiCalls : c \in Txs \ {t}
  BY OwnTx, PagersAssumption DEF ApiCalls, Participants
<1>2. /\ UNCHANGED <<joined, claims, owed, at, who, had, people, browser, history>>
      /\ at[t] = "open" /\ i \in save[f][s].ids
      /\ \A u \in Txs \ {t} : add'[u] = add[u]
      /\ \/ add'[t] = add[t] \union {i}
         \/ ~Insertable(t, i) /\ add'[t] = add[t]
      /\ save' = [save EXCEPT ![f][s].ids = @ \ {i}]
  BY <1>1, InsertEffect DEF InsertItem, vars, rows, open
<1>3. /\ save'[f][s].at = save[f][s].at
      /\ save'[f][s].ids = save[f][s].ids \ {i}
      /\ \A g \in Pagers, u \in Saves : g # f \/ u # s => save'[g][u] = save[g][u]
      /\ save' \in [Pagers -> [Saves -> SaveRecords]]
  <2> DEFINE r == [save[f][s] EXCEPT !.ids = @ \ {i}]
  <2>1. save \in [Pagers -> [Saves -> SaveRecords]]
    BY DEF PagesInv, Shape
  <2>2. r \in SaveRecords /\ r.at = save[f][s].at /\ r.ids = save[f][s].ids \ {i}
    <3>1. save[f][s] \in SaveRecords
      BY <2>1
    <3> QED
      BY <3>1 DEF SaveRecords
  <2>3. save' = [save EXCEPT ![f] = [save[f] EXCEPT ![s] = r]]
    BY <1>2, <2>1
  <2> HIDE DEF r
  <2> QED
    BY <2>1, <2>2, <2>3
<1>4. \A g \in Pagers, u \in Saves : save'[g][u].at = save[g][u].at
  BY <1>3
<1>5. ASSUME f \in joined, had[t] = claims[f]
      PROVE  add'[t] \union save'[f][s].ids = add[t] \union save[f][s].ids
  <2>1. CASE add'[t] = add[t] \union {i}
    BY <1>2, <1>3, <2>1
  <2>2. CASE ~Insertable(t, i) /\ add'[t] = add[t]
    <3>1. who[t] = f /\ SplitExists /\ claims \in ClaimTables
      BY <1>2, <1>5, LedgerTypes DEF PagesInv, Sent, Ledgered, SplitExists, t
    <3>2. View(t)[f] = (claims[f] \ had[t]) \union add[t]
      BY <1>1, <3>1 DEF View, ClaimTables
    <3>3. i \in add[t]
      BY <1>5, <2>2, <3>1, <3>2 DEF Insertable
    <3> QED
      BY <1>2, <1>3, <2>2, <3>3
  <2> QED
    BY <1>2, <2>1, <2>2
<1> HIDE DEF t
<1> USE DEF PagesInv, people, browser, history
<1>6. Shape' /\ Members' /\ Left' /\ Reading' /\ Asking'
  BY <1>2, <1>3, <1>4 DEF Shape, Members, Left, Reading, Asking
<1>7. Sent'
  BY <1>2, <1>4 DEF Sent
<1>8. Carrying'
  <2> SUFFICES ASSUME NEW g \in Pagers, NEW u \in Saves, last[g] = u
               PROVE  Carries(g, u)'
    BY <1>2 DEF Carrying
  <2>0. Carries(g, u)
    BY DEF Carrying
  <2>1. CASE g = f /\ u = s
    BY <1>2, <1>3, <1>5, <2>0, <2>1 DEF Carries, t
  <2>2. CASE g # f \/ u # s
    <3>1. save'[g][u] = save[g][u] /\ add'[Tx(g, u)] = add[Tx(g, u)]
      BY <1>1, <1>2, <1>3, <2>2
    <3> QED
      BY <1>2, <2>0, <3>1 DEF Carries
  <2> QED
    BY <2>1, <2>2
<1>9. Saved'
  BY <1>2 DEF Saved, OnlyOfName
<1> QED
  BY <1>6, <1>7, <1>8, <1>9

LEMMA RecomputePages ==
  ASSUME Ledgered, PagesInv, NEW f \in Pagers, NEW s \in Saves, Recompute(f, s)
  PROVE  PagesInv'
<1> DEFINE t == Tx(f, s)
<1>1. /\ t \in Txs
      /\ \A g \in Pagers, u \in Saves : g # f \/ u # s => Tx(g, u) \in Txs \ {t}
      /\ \A c \in ApiCalls : c \in Txs \ {t}
  BY OwnTx DEF ApiCalls
<1>2. /\ UNCHANGED <<joined, claims, owed, who, had, add, people, browser, save, history>>
      /\ at[t] = "open" /\ at'[t] = "read" /\ save[f][s].ids = {}
      /\ \A u \in Txs \ {t} : at'[u] = at[u]
  BY <1>1, ReadEffect DEF Recompute
<1> HIDE DEF t
<1> USE DEF PagesInv, people, browser, history
<1>3. Shape' /\ Members' /\ Left' /\ Saved' /\ Reading' /\ Asking'
  BY <1>2 DEF Shape, Members, Left, Saved, OnlyOfName, Reading, Asking
<1>4. Sent'
  BY <1>1, <1>2 DEF Sent, t
<1>5. Carrying'
  BY <1>1, <1>2 DEF Carrying, Carries, t
<1> QED
  BY <1>3, <1>4, <1>5

LEMMA StorePages ==
  ASSUME Ledgered, PagesInv, NEW f \in Pagers, NEW s \in Saves, Store(f, s)
  PROVE  PagesInv'
<1> DEFINE t == Tx(f, s)
<1>1. /\ t \in Txs /\ f \in Participants
      /\ \A g \in Pagers, u \in Saves : g # f \/ u # s => Tx(g, u) \in Txs \ {t}
      /\ \A c \in ApiCalls : c \in Txs \ {t}
      /\ Commit(t) /\ Stores(t)
  BY OwnTx, PagersAssumption DEF ApiCalls, Participants, Store, Stores
<1>2. at[t] = "read" /\ who[t] = f /\ save[f][s].at \in Undelivered
  BY <1>1, CommitEffect DEF PagesInv, Sent
<1>3. /\ joined' = joined /\ at'[t] = "idle"
      /\ claims'[f] = (claims[f] \ had[t]) \union add[t]
      /\ \A p \in Participants \ {f} : claims'[p] = claims[p]
      /\ \A u \in Txs \ {t} : /\ at'[u] = at[u] /\ who'[u] = who[u] /\ add'[u] = add[u]
                              /\ who[u] # f => had'[u] = had[u]
  <2> HIDE DEF t
  <2> QED
    BY <1>1, <1>2, CommitEffect
<1>4. /\ UNCHANGED <<people, browser>>
      /\ last' = [last EXCEPT ![f] = IF @ = s THEN "none" ELSE @]
      /\ astray' = [astray EXCEPT ![f] = page[f] = "pick" /\ (@ \/ last[f] # s)]
      /\ save' = [save EXCEPT ![f][s] = IF @.at = "posted" THEN [Idle EXCEPT !.at = "saved"] ELSE Idle]
  BY DEF Store
<1>5. /\ moved' \in [Pagers -> BOOLEAN] /\ skewed' \in BOOLEAN
      /\ \A g \in Pagers : page[g] \notin {"away", "pick"} => moved'[g]
  BY <1>1, StoresMoves
<1>6. /\ save' \in [Pagers -> [Saves -> SaveRecords]]
      /\ \A g \in Pagers, u \in Saves : g # f \/ u # s => save'[g][u] = save[g][u]
      /\ save[f][s].at = "abandoned" => save'[f][s] = Idle
  <2>1. [Idle EXCEPT !.at = "saved"] \in SaveRecords
    BY IdleSave DEF SaveRecords, Steps, Idle
  <2> QED
    BY <1>4, <2>1, IdleSave DEF PagesInv, Shape
<1>7. /\ last' \in [Pagers -> Saves \union {"none"}] /\ astray' \in [Pagers -> BOOLEAN]
      /\ \A g \in Pagers \ {f} : last'[g] = last[g] /\ astray'[g] = astray[g]
      /\ last'[f] = IF last[f] = s THEN "none" ELSE last[f]
      /\ astray'[f] <=> page[f] = "pick" /\ (astray[f] \/ last[f] # s)
  BY <1>4 DEF PagesInv, Shape
<1> HIDE DEF t
<1> USE DEF PagesInv, people, browser
<1>8. Shape' /\ Members'
  BY <1>3, <1>4, <1>5, <1>6, <1>7 DEF Shape, Members
<1>9. Left'
  <2>1. page[f] # "pick" => save[f][s].at = "abandoned"
    BY <1>2 DEF Left, Undelivered
  <2>2. Idle.at = "idle"
    BY DEF Idle
  <2> QED
    BY <1>4, <1>6, <1>7, <2>1, <2>2 DEF Left
<1>10. Sent'
  BY <1>1, <1>3, <1>6 DEF Sent, t
<1>11. ASSUME NEW g \in Pagers, NEW u \in Saves, last'[g] = u
       PROVE  (g # f \/ u # s) /\ last[g] = u /\ (g = f => astray'[f])
  <2>1. CASE g = f
    <3>1. u # s
      BY <1>7, <1>11, <2>1, SavesAssumption
    <3>2. last[f] = u
      BY <1>7, <1>11, <2>1, <3>1, SavesAssumption
    <3>3. page[f] = "pick"
      BY <3>2 DEF Carrying, Carries
    <3> QED
      BY <1>7, <2>1, <3>1, <3>2, <3>3
  <2>2. CASE g # f
    BY <1>7, <1>11, <2>2
  <2> QED
    BY <2>1, <2>2
<1>12. Carrying'
  <2>1. \A g \in Pagers \ {f} : claims'[g] = claims[g]
    BY <1>3, PagersAssumption DEF Participants
  <2>2. \A g \in Pagers \ {f}, u \in Saves :
            at[Tx(g, u)] # "idle" => had'[Tx(g, u)] = had[Tx(g, u)]
    BY <1>1, <1>3 DEF Sent
  <2> SUFFICES ASSUME NEW g \in Pagers, NEW u \in Saves, last'[g] = u
               PROVE  Carries(g, u)'
    BY DEF Carrying
  <2>3. /\ g # f \/ u # s
        /\ last[g] = u /\ save'[g][u] = save[g][u]
        /\ at'[Tx(g, u)] = at[Tx(g, u)] /\ add'[Tx(g, u)] = add[Tx(g, u)]
        /\ g = f => astray'[g]
    BY <1>1, <1>3, <1>6, <1>11
  <2>4. Carries(g, u)
    BY <2>3 DEF Carrying
  <2> QED
    BY <1>3, <1>4, <1>7, <2>1, <2>2, <2>3, <2>4 DEF Carries
<1>13. Saved'
  <2>1. ASSUME f \in joined, page[f] = "pick", ~astray'[f], last'[f] = "none"
        PROVE  claims'[f] = sel[f]
    <3>1. last[f] = s /\ ~astray[f]
      BY <1>7, <2>1
    <3>2. had[t] = claims[f] /\ add[t] \union save[f][s].ids = sel[f] /\ save[f][s].ids = {}
      BY <1>2, <2>1, <3>1 DEF Carrying, Carries, t
    <3> QED
      BY <1>3, <3>2
  <2>2. \A g \in Pagers \ {f} : claims'[g] = claims[g]
    BY <1>3, PagersAssumption DEF Participants
  <2>3. \A g \in Pagers : OnlyOfName(g)' <=> OnlyOfName(g)
    BY <1>3, <1>4 DEF OnlyOfName
  <2>4. page' = page /\ sel' = sel /\ joined' = joined /\ Saved
    BY <1>3, <1>4
  <2>5. ASSUME NEW g \in Pagers, g # f PROVE last'[g] = last[g] /\ astray'[g] = astray[g]
    BY <1>7, <2>5
  <2> HIDE DEF PagesInv, browser, people
  <2> QED
    BY <2>1, <2>2, <2>3, <2>4, <2>5 DEF Saved
<1>14. Reading' /\ Asking'
  BY <1>3, <1>4, <1>5 DEF Reading, Asking
<1> QED
  BY <1>8, <1>9, <1>10, <1>12, <1>13, <1>14

\* Only an open pick page waits for an answer.
LEMMA AnswerPages ==
  ASSUME Ledgered, PagesInv, NEW f \in Pagers, NEW s \in Saves, Refetch(f, s) \/ Show(f, s)
  PROVE  PagesInv'
<1> USE PagersAssumption, IdleSave DEF PagesInv, rows, open, people, vars
<1>1. save[f][s].data \in ClaimTables
  BY DEF Shape, SaveRecords
<1>2. [Idle EXCEPT !.at = "read", !.data = claims] \in SaveRecords
  BY LedgerTypes DEF SaveRecords, Steps, Idle
<1>3. page[f] = "pick"
  BY DEF Left, Refetch, Show
<1>4. save[f][s].at \notin Undelivered /\ save[f][s].at # "posted"
  BY DEF Refetch, Show, Undelivered
<1>5. /\ \A g \in Pagers, u \in Saves : g # f \/ u # s => save'[g][u] = save[g][u]
      /\ save' \in [Pagers -> [Saves -> SaveRecords]]
  <2>1. \E r \in SaveRecords : save' = [save EXCEPT ![f][s] = r]
    BY <1>2 DEF Refetch, Show
  <2> QED
    BY <2>1 DEF Shape
<1>6. /\ UNCHANGED <<joined, claims, owed, at, who, had, add, name, paid, page, sel, asked, told>>
      /\ UNCHANGED history
      /\ items' \in [Pagers -> ClaimTables]
      /\ \A g \in Pagers : page[g] # "pick" => items'[g] = items[g]
  BY <1>1, <1>3 DEF Refetch, Show, browser, Shape
<1> USE DEF history
<1>7. Shape' /\ Members'
  BY <1>5, <1>6 DEF Shape, Members
<1>8. Left'
  BY <1>3, <1>5, <1>6 DEF Left
<1>9. Sent'
  BY <1>4, <1>5, <1>6 DEF Sent
<1>10. Carrying'
  <2> SUFFICES ASSUME NEW g \in Pagers, NEW u \in Saves, last[g] = u
               PROVE  Carries(g, u)'
    BY <1>6 DEF Carrying
  <2>1. Carries(g, u)
    BY DEF Carrying
  <2>2. save'[g][u] = save[g][u]
    BY <1>4, <1>5, <2>1 DEF Carries
  <2> QED
    BY <1>6, <2>1, <2>2 DEF Carries
<1>11. Saved'
  BY <1>6 DEF Saved, OnlyOfName
<1>12. Reading' /\ Asking'
  BY <1>6 DEF Reading, Asking
<1> QED
  BY <1>7, <1>8, <1>9, <1>10, <1>11, <1>12

LEMMA FailPages ==
  ASSUME Ledgered, PagesInv, NEW f \in Pagers, NEW s \in Saves, Fail(f, s)
  PROVE  PagesInv'
<1> DEFINE t == Tx(f, s)
<1>1. /\ t \in Txs
      /\ \A g \in Pagers, u \in Saves : g # f \/ u # s => Tx(g, u) \in Txs \ {t}
      /\ \A c \in ApiCalls : c \in Txs \ {t}
  BY OwnTx DEF ApiCalls
<1>2. /\ UNCHANGED <<joined, claims, owed>> /\ at'[t] = "idle"
      /\ \A u \in Txs \ {t} : at'[u] = at[u] /\ who'[u] = who[u] /\ add'[u] = add[u] /\ had'[u] = had[u]
  <2>1. CASE at[t] = "idle"
    BY <2>1 DEF Fail, vars, rows, open
  <2>2. CASE at[t] # "idle"
    <3>1. Rollback(t)
      BY <2>2 DEF Fail
    <3> HIDE DEF t
    <3> QED
      BY <1>1, <3>1, RollbackEffect
  <2> QED
    BY <2>1, <2>2
<1>3. /\ UNCHANGED <<people, browser, moved, skewed>>
      /\ save' = [save EXCEPT ![f][s] = Idle]
      /\ last' = [last EXCEPT ![f] = IF @ = s THEN "none" ELSE @]
      /\ astray' = [astray EXCEPT ![f] = @ \/ last[f] = s]
  BY DEF Fail
<1>4. /\ save' \in [Pagers -> [Saves -> SaveRecords]]
      /\ save'[f][s] = Idle
      /\ \A g \in Pagers, u \in Saves : g # f \/ u # s => save'[g][u] = save[g][u]
  BY <1>3, IdleSave DEF PagesInv, Shape
<1>5. /\ last' \in [Pagers -> Saves \union {"none"}] /\ astray' \in [Pagers -> BOOLEAN]
      /\ \A g \in Pagers \ {f} : last'[g] = last[g] /\ astray'[g] = astray[g]
      /\ last'[f] = IF last[f] = s THEN "none" ELSE last[f]
      /\ astray'[f] <=> astray[f] \/ last[f] = s
  BY <1>3 DEF PagesInv, Shape
<1> HIDE DEF t
<1> USE DEF PagesInv, people, browser
<1>6. Shape' /\ Members' /\ Reading' /\ Asking'
  BY <1>2, <1>3, <1>4, <1>5 DEF Shape, Members, Reading, Asking
<1>7. Left'
  <2>1. Idle.at = "idle"
    BY DEF Idle
  <2> QED
    BY <1>3, <1>4, <1>5, <2>1 DEF Left
<1>8. Sent'
  BY <1>1, <1>2, <1>4 DEF Sent, t
<1>9. Carrying'
  <2> SUFFICES ASSUME NEW g \in Pagers, NEW u \in Saves, last'[g] = u
               PROVE  Carries(g, u)'
    BY DEF Carrying
  <2>1. (g # f \/ u # s) /\ last[g] = u /\ (astray[g] => astray'[g])
    BY <1>5, SavesAssumption
  <2>2. Carries(g, u)
    BY <2>1 DEF Carrying
  <2>3. save'[g][u] = save[g][u] /\ Tx(g, u) \in Txs \ {t}
    BY <1>1, <1>4, <2>1
  <2> QED
    BY <1>2, <1>3, <2>1, <2>2, <2>3 DEF Carries
<1>10. Saved'
  <2>1. \A g \in Pagers : ~astray'[g] /\ last'[g] = "none" => ~astray[g] /\ last[g] = "none"
    BY <1>5
  <2> QED
    BY <1>2, <1>3, <2>1 DEF Saved, OnlyOfName
<1> QED
  BY <1>6, <1>7, <1>8, <1>9, <1>10

LEMMA OpenSharePages ==
  ASSUME Ledgered, PagesInv, NEW f \in Pagers,
         NEW from \in {"pick", "share", "pay"}, NEW to \in {"opening share", "opening pay"},
         OpenShare(f, from, to)
  PROVE  PagesInv'
<1> USE PagersAssumption DEF PagesInv, OpenShare, GoTo
<1>0. /\ save' \in [Pagers -> [Saves -> SaveRecords]]
      /\ \A g \in Pagers \ {f} : save'[g] = save[g]
      /\ \A s \in Saves : save'[f][s].at \in {"idle", "abandoned"}
  BY AbandonShape DEF Shape
<1>1. Shape'
  BY <1>0, LedgerTypes, NoneOwed DEF Shape, Pages, people
<1>2. Members'
  BY DEF Members, Shape, rows, vars
<1>3. Left'
  BY <1>0 DEF Left, Shape
<1>4. Sent' /\ Carrying' /\ Saved'
  <2>1. /\ page'[f] # "pick" /\ last'[f] = "none"
        /\ \A g \in Pagers \ {f} :
            page'[g] = page[g] /\ last'[g] = last[g] /\ astray'[g] = astray[g] /\ sel'[g] = sel[g]
    BY DEF Shape
  <2> QED
    BY <2>1, GonePages
<1>5. Reading' /\ Asking'
  BY DEF Reading, Asking, Shape, rows, vars, people
<1> QED
  BY <1>1, <1>2, <1>3, <1>4, <1>5

\* Nothing is on its way from the other pages.
LEMMA CarryingKept ==
  ASSUME PagesInv, NEW f \in Pagers, page[f] # "pick", page'[f] # "pick",
         UNCHANGED <<joined, claims, at, who, had, add, name, sel, save, history>>,
         \A g \in Pagers \ {f} : page'[g] = page[g]
  PROVE  Sent' /\ Carrying' /\ Saved'
<1> USE DEF PagesInv, history
<1>1. Sent'
  BY DEF Sent
<1>2. Carrying'
  <2> SUFFICES ASSUME NEW g \in Pagers, NEW u \in Saves, last[g] = u
               PROVE  Carries(g, u)'
    BY DEF Carrying
  <2>1. Carries(g, u)
    BY DEF Carrying
  <2>2. page'[g] = page[g]
    BY <2>1 DEF Carries
  <2> QED
    BY <2>1, <2>2 DEF Carries
<1>3. Saved'
  BY DEF Saved, OnlyOfName
<1> QED
  BY <1>1, <1>2, <1>3

LEMMA ReadOwedPages ==
  ASSUME Ledgered, PagesInv, NEW f \in Pagers,
         NEW from \in {"opening share", "opening pay"}, NEW to \in {"share", "pay"},
         ReadOwed(f, from, to)
  PROVE  PagesInv'
<1> USE PagersAssumption, LedgerTypes
        DEF PagesInv, ReadOwed, GoTo, rows, open, people, vars, history
<1>1. Shape'
  <2>1. page' \in [Pagers -> Pages]
    BY DEF Shape, Pages
  <2>2. items' \in [Pagers -> ClaimTables]
    BY NoneClaimed DEF Shape
  <2>3. asked' \in [Pagers -> OwedValues] /\ told' \in [Pagers -> OwedValues]
    <3>1. owed[f] \in OwedValues
      BY DEF Participants
    <3> QED
      BY <3>1, NoneOwed DEF Shape
  <2>4. UNCHANGED <<name, paid, sel, save, last, astray, moved, skewed>>
    OBVIOUS
  <2> QED
    BY <2>1, <2>2, <2>3, <2>4 DEF Shape
<1>2. page' = [page EXCEPT ![f] = to]
  OBVIOUS
<1>3. Members' /\ Left'
  BY <1>2 DEF Members, Left, Shape
<1>4. Sent' /\ Carrying' /\ Saved'
  <2>1. page[f] # "pick" /\ page'[f] # "pick"
    BY <1>2 DEF Shape
  <2>2. \A g \in Pagers \ {f} : page'[g] = page[g]
    BY <1>2 DEF Shape
  <2> QED
    BY <2>1, <2>2, CarryingKept
<1>5. Reading'
  BY DEF Reading, Shape, Pages
<1>6. Asking'
  <2>1. page'[f] # "done" /\ (f \in joined => asked'[f] = owed[f])
    BY DEF Shape
  <2>2. \A g \in Pagers \ {f} : page'[g] = page[g] /\ asked'[g] = asked[g] /\ told'[g] = told[g]
    BY DEF Shape
  <2> QED
    BY <2>1, <2>2 DEF Asking
<1> QED
  BY <1>1, <1>3, <1>4, <1>5, <1>6

LEMMA MarkPaidPages == ASSUME Ledgered, PagesInv, NEW f \in Pagers, MarkPaid(f) PROVE PagesInv'
<1> USE PagersAssumption, LedgerTypes
        DEF PagesInv, MarkPaid, GoTo, rows, open, vars, history, Participants
<1>1. Shape'
  BY NoneClaimed DEF Shape, Pages
<1>2. Members' /\ Left'
  BY DEF Members, Left, Shape
<1>3. Sent' /\ Carrying' /\ Saved'
  <2>1. page[f] # "pick" /\ page'[f] # "pick"
    BY DEF Shape
  <2>2. \A g \in Pagers \ {f} : page'[g] = page[g]
    BY DEF Shape
  <2> QED
    BY <2>1, <2>2, CarryingKept
<1>4. Reading'
  BY DEF Reading, Shape, Pages
<1>5. Asking'
  BY DEF Asking, Shape
<1> QED
  BY <1>1, <1>2, <1>3, <1>4, <1>5

LEMMA NextPages == Ledgered /\ Exact /\ PagesInv /\ [FNext]_fvars => Ledgered' /\ Exact' /\ PagesInv'
<1> SUFFICES ASSUME Ledgered, Exact, PagesInv, [FNext]_fvars PROVE Ledgered' /\ Exact' /\ PagesInv'
  OBVIOUS
<1>1. Ledgered' /\ Exact'
  BY PagesUseLedger, NextLedgered, NextExact DEF PagesInv, Shape
<1>2. CASE UNCHANGED fvars
  <2> USE <1>2 DEF fvars, rows, open, vars, people, browser, history, PagesInv
  <2>1. Shape'
    BY DEF Shape
  <2>2. Members' /\ Left' /\ Sent' /\ Reading' /\ Asking'
    BY DEF Members, Left, Sent, Reading, Asking
  <2>3. Carrying' /\ Saved'
    BY DEF Carrying, Carries, Saved, OnlyOfName
  <2> QED
    BY <1>1, <2>1, <2>2, <2>3
<1>3. CASE Deletes
  BY <1>1, <1>3, DeletePages
<1>4. ASSUME NEW f \in Friends, Join(f) PROVE PagesInv'
  BY <1>4, JoinPages
<1>5. ASSUME NEW c \in ApiCalls, ApiClaims(c) PROVE PagesInv'
  BY <1>5, ApiPages
<1>6. ASSUME NEW f \in Pagers, OpenPick(f) \/ Leave(f) \/ MarkPaid(f) PROVE PagesInv'
  BY <1>6, OpenPickPages, LeavePages, MarkPaidPages
<1>7. ASSUME NEW f \in Pagers, NEW s \in Saves,
             \/ \E i \in Included : Tap(f, s, i) \/ InsertItem(f, s, i)
             \/ Arrive(f, s) \/ Recompute(f, s) \/ Store(f, s)
             \/ Refetch(f, s) \/ Show(f, s) \/ Fail(f, s)
      PROVE  PagesInv'
  BY <1>7, TapPages, ArrivePages, InsertPages, RecomputePages, StorePages, AnswerPages, FailPages
<1>8. ASSUME NEW f \in Pagers,
             \/ \E from \in {"pick", "share"} : OpenShare(f, from, "opening share")
             \/ \E from \in {"share", "pay"} : OpenShare(f, from, "opening pay")
      PROVE  PagesInv'
  BY <1>8, OpenSharePages
<1>9. ASSUME NEW f \in Pagers,
             ReadOwed(f, "opening share", "share") \/ ReadOwed(f, "opening pay", "pay")
      PROVE  PagesInv'
  BY <1>9, ReadOwedPages
<1> QED
  BY <1>1, <1>2, <1>3, <1>4, <1>5, <1>6, <1>7, <1>8, <1>9 DEF FNext

-----------------------------------------------------------------------------
\* The one quotient there is.
LEMMA DivIs ==
  ASSUME NEW x \in Int, NEW b \in Int, b > 0, NEW q \in Int, q * b <= x, x < (q + 1) * b
  PROVE  x \div b = q
<1>1. /\ x \div b \in Int
      /\ (x \div b) * b <= x
      /\ x < ((x \div b) + 1) * b
  BY Z3
<1>2. ASSUME NEW u \in Int, NEW v \in Int, u * b <= x, x < (v + 1) * b PROVE u <= v
  <2>1. u * b < (v + 1) * b
    BY <1>2
  <2> QED
    BY <2>1, Z3
<1> QED
  BY <1>1, <1>2

\* The browser rounds as the server does, unless what is rounded is below minus
\* one half (a bill whose rounding is all its tax, and negative): then the browser
\* may show a sen less.
THEOREM RoundingsAgree ==
  ASSUME NEW a \in Int, NEW b \in Int
  PROVE  /\ a + b \div 2 >= 0 => JsRoundDiv(a, b) = RoundDiv(a, b)
         /\ JsRoundDiv(a, b) \in RoundDiv(a, b) - 1 .. RoundDiv(a, b)
<1>1. CASE b <= 0
  BY <1>1 DEF JsRoundDiv, RoundDiv
<1>2. CASE b > 0
  <2> DEFINE x == a + b \div 2
             q == x \div b
  <2>1. x \in Int /\ JsRoundDiv(a, b) = q /\ RoundDiv(a, b) = GoDiv(x, b)
    BY <1>2 DEF JsRoundDiv, RoundDiv, GoDiv
  <2>2. CASE x >= 0
    <3>1. q \in Int
      BY <1>2, <2>1
    <3>2. RoundDiv(a, b) = q
      BY <2>1, <2>2 DEF GoDiv
    <3> QED
      BY <2>1, <3>1, <3>2
  <2>3. CASE x < 0
    <3>1. q \in Int /\ q * b <= x /\ x < (q + 1) * b
      BY <1>2, <2>1, Z3
    <3>2. CASE x = q * b
      <4>1. (-x) \div b = -q
        BY <1>2, <2>1, <3>1, <3>2, DivIs, Z3
      <4> QED
        BY <2>1, <2>3, <3>1, <4>1 DEF GoDiv
    <3>3. CASE x > q * b
      <4>1. (-q - 1) * b <= -x /\ -x < -q * b
        BY <1>2, <2>1, <3>1, <3>3, Z3
      <4>2. (-x) \div b = -q - 1
        BY <1>2, <2>1, <3>1, <4>1, DivIs
      <4> QED
        BY <2>1, <2>3, <3>1, <4>2 DEF GoDiv
    <3> QED
      BY <2>1, <3>1, <3>2, <3>3
  <2> QED
    BY <2>1, <2>2, <2>3
<1> QED
  BY <1>1, <1>2

-----------------------------------------------------------------------------
\* The amounts on the pages.

\* On an item f has claimed, the friends are all that count, and f is one.
LEMMA ClaimersCount ==
  ASSUME Ledgered, NEW f \in Pagers, NEW i \in claims[f]
  PROVE  /\ i \in Included
         /\ f \in Claimers(claims, i)
         /\ IsFiniteSet(Claimers(claims, i))
         /\ Cardinality(Claimers(claims, i)) = Claimants(claims)[i]
         /\ Claimants(claims)[i] \in Nat \ {0}
<1> USE PagersAssumption, OwnerAssumption, IncludedAssumption
<1>1. f \in Participants /\ i \in Included
  BY DEF Ledgered, Participants
<1>2. Claimers(claims, i) = {p \in Participants : i \in claims[p]}
  BY DEF Claimers, Participants, Ledgered
<1>3. f \in Claimers(claims, i)
  BY <1>1 DEF Claimers
<1>4. IsFiniteSet({p \in Participants : i \in claims[p]}) /\ Claimants(claims)[i] \in Nat
  BY <1>1, ClaimantsType, LedgerTypes DEF Ledgered
<1>5. Cardinality(Claimers(claims, i)) = Claimants(claims)[i]
  BY <1>1, <1>2 DEF Claimants
<1>6. Cardinality(Claimers(claims, i)) # 0
  BY <1>2, <1>3, <1>4, FS_EmptySet
<1> QED
  BY <1>1, <1>2, <1>3, <1>4, <1>5, <1>6

\* What the server makes f owe, written with what the pages divide.
LEMMA OwedByPortions ==
  ASSUME Ledgered, Exact, ~skewed, NEW f \in Pagers, f \in joined, NEW portion,
         portion = [i \in claims[f] |-> RoundDiv(LineTotal[i], Cardinality(Claimers(claims, i)))]
  PROVE  /\ SumFunction(portion) \in Int
         /\ owed[f] = Owed(SumFunction(portion), SplittableSubtotal, TaxTotal)
<1> DEFINE n == Claimants(claims)
<1>1. claims[f] \cap Included = claims[f] /\ IsFiniteSet(claims[f])
  <2>1. claims[f] \subseteq Included
    BY PagersAssumption DEF Ledgered, Participants
  <2>2. IsFiniteSet(claims[f])
    BY <2>1, BillAssumption, IncludedAssumption, FS_Subset
  <2> QED
    BY <2>1, <2>2
<1>2. ASSUME NEW i \in claims[f]
      PROVE  /\ portion[i] \in Int
             /\ portion[i] = RoundDiv(LineTotal[i], IF n[i] < 1 THEN 1 ELSE n[i])
  <2>1. n[i] \in Nat \ {0} /\ portion[i] = RoundDiv(LineTotal[i], n[i])
    BY ClaimersCount
  <2>2. LineTotal[i] \in Int
    BY ClaimersCount, BillAssumption, IncludedAssumption
  <2> HIDE DEF n
  <2>3. (IF n[i] < 1 THEN 1 ELSE n[i]) = n[i]
    BY <2>1
  <2>4. RoundDiv(LineTotal[i], n[i]) \in Int
    <3>1. n[i] \in Int
      BY <2>1
    <3> QED
      BY <2>2, <3>1, RoundDivType
  <2> QED
    BY <2>1, <2>3, <2>4
<1>3. portion = [i \in claims[f] |-> RoundDiv(LineTotal[i], IF n[i] < 1 THEN 1 ELSE n[i])]
  BY <1>2
<1>4. SumFunction(portion) = ClaimedSen(claims[f] \cap Included, LineTotal, n)
  BY <1>1, <1>3 DEF ClaimedSen
<1>5. owed[f] = OwedFor(f, claims)
  BY DEF Exact
<1>6. SumFunctionOnSet(portion, claims[f]) \in Int
  BY <1>1, <1>2, SumType
<1> QED
  BY <1>4, <1>5, <1>6 DEF OwedFor, SumFunction

LEMMA PortionNat == ASSUME NEW a \in Nat, NEW b \in Nat \ {0} PROVE RoundDiv(a, b) \in Nat
<1>1. b \div 2 \in Nat
  BY Z3
<1> DEFINE x == a + b \div 2
<1>2. x \in Nat
  BY <1>1
<1>3. RoundDiv(a, b) = x \div b
  BY <1>1, <1>2 DEF RoundDiv, GoDiv
<1> HIDE DEF x
<1> QED
  BY <1>2, <1>3, Z3

\* What the pick page computes is what is stored, on a bill with no negative
\* prices and taxes; with them, RoundingsAgree says how far it may be off.
LEMMA EstimateIsOwed ==
  ASSUME \A i \in Items : LineTotal[i] >= 0, TaxTotal >= 0,
         Ledgered, Exact, ~skewed, Shape, NEW f \in Pagers, f \in joined, OnlyOfName(f),
         claims = [items[f] EXCEPT ![f] = sel[f]]
  PROVE  Estimate(f) = owed[f]
<1> USE PagersAssumption, OwnerAssumption
<1> DEFINE portion == [i \in sel[f] |->
                          JsRoundDiv(LineTotal[i], Cardinality(Others(f, items[f], i)) + 1)]
           claimed == SumFunction(portion)
<1>1. sel[f] = claims[f] /\ \A p \in Friends \ {f} : items[f][p] = claims[p]
  BY DEF Shape, ClaimTables, Participants
<1>2. ASSUME NEW i \in claims[f]
      PROVE  /\ portion[i] = RoundDiv(LineTotal[i], Cardinality(Claimers(claims, i)))
             /\ portion[i] \in Nat
  <2> DEFINE on == Claimers(claims, i)
  <2>1. i \in Included /\ f \in on /\ IsFiniteSet(on) /\ Cardinality(on) \in Nat \ {0}
    BY ClaimersCount
  <2>2. Others(f, items[f], i) = on \ {f}
    BY <1>1 DEF Others, Claimers, OnlyOfName, Ledgered, Participants
  <2>3. Cardinality(on \ {f}) = Cardinality(on) - 1
    BY <2>1, FS_RemoveElement
  <2>4. LineTotal[i] \in Nat
    BY <2>1, BillAssumption, IncludedAssumption
  <2> DEFINE n == Cardinality(on)
  <2>5. portion[i] = JsRoundDiv(LineTotal[i], (n - 1) + 1)
    BY <1>1, <2>2, <2>3
  <2> HIDE DEF n, portion
  <2>6. n \in Nat \ {0}
    BY <2>1 DEF n
  <2>7. portion[i] = JsRoundDiv(LineTotal[i], n)
    BY <2>5, <2>6
  <2>8. LineTotal[i] + n \div 2 >= 0
    BY <2>4, <2>6, Z3
  <2>9. JsRoundDiv(LineTotal[i], n) = RoundDiv(LineTotal[i], n)
    <3>1. LineTotal[i] \in Int /\ n \in Int
      BY <2>4, <2>6
    <3> QED
      BY <2>8, <3>1, RoundingsAgree
  <2>10. RoundDiv(LineTotal[i], n) \in Nat
    BY <2>4, <2>6, PortionNat
  <2> QED
    BY <2>7, <2>9, <2>10 DEF n
<1>3. portion = [i \in claims[f] |-> RoundDiv(LineTotal[i], Cardinality(Claimers(claims, i)))]
  BY <1>1, <1>2
<1>4. claimed \in Int /\ owed[f] = Owed(claimed, SplittableSubtotal, TaxTotal)
  BY <1>3, OwedByPortions
<1>5. claimed >= 0
  <2>1. IsFiniteSet(claims[f])
    BY BillAssumption, IncludedAssumption, FS_Subset DEF Ledgered, Participants
  <2>2. \A i \in claims[f] : portion[i] \in Nat
    BY <1>2
  <2>3. DOMAIN portion = claims[f]
    BY <1>1
  <2> HIDE DEF portion
  <2> QED
    BY <2>1, <2>2, <2>3, SumNat DEF SumFunction
<1>6. Estimate(f) = IF SplittableSubtotal <= 0 THEN claimed
                    ELSE claimed + JsRoundDiv(claimed * TaxTotal, SplittableSubtotal)
  BY DEF Estimate
<1> HIDE DEF claimed
<1>7. claimed * TaxTotal \in Int /\ claimed * TaxTotal >= 0
  BY <1>4, <1>5, BillAssumption, Z3
<1>8. SplittableSubtotal > 0 =>
          JsRoundDiv(claimed * TaxTotal, SplittableSubtotal) = RoundDiv(claimed * TaxTotal, SplittableSubtotal)
  <2> DEFINE x == claimed * TaxTotal
  <2> SUFFICES ASSUME SplittableSubtotal > 0
               PROVE  JsRoundDiv(x, SplittableSubtotal) = RoundDiv(x, SplittableSubtotal)
    OBVIOUS
  <2>1. x \in Int /\ x >= 0
    BY <1>7
  <2> HIDE DEF x
  <2>2. x + SplittableSubtotal \div 2 >= 0
    BY <2>1, SubtotalType, Z3
  <2> QED
    BY <2>1, <2>2, SubtotalType, RoundingsAgree
<1> QED
  BY <1>4, <1>6, <1>8, SubtotalType DEF Owed

\* The lines of the breakdown are those of the friend, and with the tax line they
\* make up the amount.
LEMMA BreakdownIsOwed ==
  ASSUME Ledgered, Exact, ~skewed, NEW f \in Pagers, f \in joined, OnlyOfName(f),
         items[f] = claims, asked[f] = owed[f]
  PROVE  /\ DOMAIN Lines(f) = claims[f]
         /\ TaxLine(f) = RoundDiv(LinesTotal(f) * TaxTotal, SplittableSubtotal)
<1>1. SelectedIDs(f, items[f]) = claims[f]
  BY OwnSelection
<1>2. Lines(f) = [i \in claims[f] |-> RoundDiv(LineTotal[i], Cardinality(Claimers(claims, i)))]
  BY <1>1 DEF Lines
<1>3. LinesTotal(f) \in Int /\ owed[f] = Owed(LinesTotal(f), SplittableSubtotal, TaxTotal)
  BY <1>2, OwedByPortions DEF LinesTotal
<1>4. TaxLine(f) = owed[f] - LinesTotal(f)
  BY DEF TaxLine
<1> DEFINE cut == RoundDiv(LinesTotal(f) * TaxTotal, SplittableSubtotal)
<1>5. cut \in Int
  <2>1. LinesTotal(f) * TaxTotal \in Int
    BY <1>3, BillAssumption
  <2> QED
    BY <2>1, SubtotalType, RoundDivType
<1>6. owed[f] = IF SplittableSubtotal <= 0 THEN LinesTotal(f) ELSE LinesTotal(f) + cut
  BY <1>3 DEF Owed
<1>7. SplittableSubtotal <= 0 => cut = 0
  BY DEF RoundDiv
<1> HIDE DEF cut
<1>8. TaxLine(f) = cut
  BY <1>3, <1>4, <1>5, <1>6, <1>7, SubtotalType
<1> QED
  BY <1>2, <1>8 DEF cut

-----------------------------------------------------------------------------
\* Once every item is claimed, the amounts of a split cover its bill but for the
\* roundings of their portions and cuts (CoversBill), whoever shares what; with
\* discounts among the items the portions may be off by more.
OwedCoversBill ==
    (\A i \in Included : Claimants(claims)[i] >= 1) =>
        CoversBill(SumFunctionOnSet(owed, joined), SplittableSubtotal, TaxTotal,
                   SumFunctionOnSet(Claimants(claims), Included), Cardinality(joined))

\* However the saves of pages and the calls of the JSON API overlap, the amounts
\* cover the bill as soon as a commit has read the claims it leaves, on every
\* bill with no negative prices and something to split.
THEOREM PagesCoverBill ==
  ASSUME \A i \in Included : LineTotal[i] >= 0, SplittableSubtotal > 0
  PROVE  FSpec => [](~skewed => OwedCoversBill)
<1>1. Ledgered /\ Exact /\ ~skewed => OwedCoversBill
  <2> SUFFICES ASSUME Ledgered, Exact, ~skewed, \A i \in Included : Claimants(claims)[i] >= 1
               PROVE  CoversBill(SumFunctionOnSet(owed, joined), SplittableSubtotal, TaxTotal,
                                 SumFunctionOnSet(Claimants(claims), Included), Cardinality(joined))
    BY DEF OwedCoversBill
  <2>1. \A i \in Included : LineTotal[i] \in Nat /\ Claimants(claims)[i] >= 1
    BY BillAssumption, IncludedAssumption
  <2>2. joined \in SUBSET Participants /\ claims \in ClaimTables
    BY LedgerTypes
  <2>3. /\ IsFiniteSet(joined)
        /\ \A p \in Participants \ joined : claims[p] = {}
        /\ \A p \in joined : owed[p] = OwedFor(p, claims)
    BY DEF Ledgered, Exact
  <2> QED
    BY <2>1, <2>2, <2>3, AmountsCoverBill
<1>2. Ledgered /\ Exact => (~skewed => OwedCoversBill)
  BY <1>1
<1> QED
  BY InitPages, NextPages, <1>2, PTL DEF FSpec

-----------------------------------------------------------------------------
\* Type correctness: the amounts the pages show are ones the share formula gives
\* for some claims, and a page that was left has no save it did not post.
THEOREM PagesTypes == FSpec => []FTypeOK
<1>1. Ledgered /\ PagesInv => FTypeOK
  BY DEF Ledgered, PagesInv, Shape, Left, FTypeOK, SaveRecords, Steps
<1> QED
  BY InitPages, NextPages, <1>1, PTL DEF FSpec

\* On every bill with no negative prices and taxes the pick page's "Your share",
\* which the browser computes from names, is the amount the server stored, as
\* soon as the page knows the others' claims and the last commit has read those
\* it left.
THEOREM EstimatesExact ==
  ASSUME \A i \in Items : LineTotal[i] >= 0, TaxTotal >= 0
  PROVE  FSpec => []EstimateExact
<1>1. Ledgered /\ Exact /\ PagesInv => EstimateExact
  BY EstimateIsOwed DEF PagesInv, EstimateExact
<1> QED
  BY InitPages, NextPages, <1>1, PTL DEF FSpec

\* Share and pay pages list the friend's own items, and what they show as tax is
\* the formula's cut of these lines, on every bill, unless claims moved since the
\* page's first read or between the last commit and its own.
THEOREM BreakdownsAddUp == FSpec => []BreakdownAddsUp
<1>1. Ledgered /\ Exact /\ PagesInv => BreakdownAddsUp
  <2> SUFFICES ASSUME Ledgered, Exact, PagesInv, NEW f \in joined \intersect Pagers,
                      page[f] \in {"share", "pay"}, OnlyOfName(f), ~moved[f], ~skewed
               PROVE  /\ DOMAIN Lines(f) = claims[f]
                      /\ TaxLine(f) = RoundDiv(LinesTotal(f) * TaxTotal, SplittableSubtotal)
    BY DEF BreakdownAddsUp
  <2>1. items[f] = claims
    BY DEF PagesInv, Reading, Pages
  <2>2. asked[f] = owed[f]
    BY DEF PagesInv, Asking
  <2> QED
    BY <2>1, <2>2, BreakdownIsOwed
<1> QED
  BY InitPages, NextPages, <1>1, PTL DEF FSpec

\* What is stored is what the friend selected, however the saves of the taps are
\* delayed and whatever transactions overlap them, unless the last one was lost,
\* or another save of the same friend was stored since it began.
THEOREM SelectionStored == FSpec => []SavedAsSelected
<1>1. Ledgered /\ PagesInv => SavedAsSelected
  <2> SUFFICES ASSUME Ledgered, PagesInv, NEW f \in joined \intersect Pagers,
                      page[f] = "pick", OnlyOfName(f), ~astray[f],
                      \A s \in Saves : save[f][s].at \notin Undelivered
               PROVE  claims[f] = sel[f]
    BY DEF SavedAsSelected
  <2>1. last[f] = "none"
    <3>1. last[f] \in Saves \union {"none"}
      BY DEF PagesInv, Shape
    <3> QED
      BY <3>1 DEF PagesInv, Carrying, Carries, Undelivered
  <2> QED
    BY <2>1 DEF PagesInv, Saved
<1> QED
  BY InitPages, NextPages, <1>1, PTL DEF FSpec

\* What the pay page asked for is what is recorded and told as paid, unless
\* somebody's claims move in between.
THEOREM PaidIsAsked == FSpec => []PaidAsAsked
<1>1. Ledgered /\ PagesInv => PaidAsAsked
  BY DEF PagesInv, Asking, PaidAsAsked
<1> QED
  BY InitPages, NextPages, <1>1, PTL DEF FSpec

=============================================================================
