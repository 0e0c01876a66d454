----------------------------- MODULE FriendPages -----------------------------
(***************************************************************************)
(* The pages a friend goes through: join, pick items, share, pay, done.    *)
(* The pick page saves the whole selection at every tap without waiting    *)
(* for the save before; the share and pay pages are built from two reads;  *)
(* and all of them tell people apart by the name they typed.               *)
(*                                                                         *)
(* Each save is a transaction of OpenLedger, which SplitClaims implements: *)
(* saves overlap as they do in the database.  Friends without a page use   *)
(* the JSON API, whose calls overlap with all of them.  One page per       *)
(* friend, on its own device.                                              *)
(***************************************************************************)
EXTENDS OpenLedger

CONSTANTS
    Pagers, \* the friends whose pages are followed
    Names,  \* what friends type when they join
    Saves   \* saveClaims calls one page can have in progress

ASSUME PagersAssumption == Pagers \subseteq Friends
ASSUME SavesAssumption == "none" \notin Saves
ASSUME TxsAssumption == Pagers \X Saves \subseteq Txs

VARIABLES
    name,   \* participants.name, as they will type it
    paid,   \* participants.paid
    page,   \* the page a friend is on; "opening" ones have made their first read
    items,  \* whose claims the page's item rows show
    sel,    \* pick page: `selected`
    save,   \* saveClaims calls: how far, the items still to insert, the rows read after
    asked,  \* share and pay page: OwedSen
    told,   \* done page: OwedSen
    \* history variables
    last,   \* the save of the last tap, until it is stored or lost
    astray, \* that save was lost, or another one of the friend was stored since
            \* it began
    moved,  \* somebody's claims moved since the share or pay page's first read
    skewed  \* the claims moved between the last commit and its read of them

people == <<name, paid>>
browser == <<page, items, sel, asked, told>>
history == <<last, astray, moved, skewed>>
fvars == <<vars, people, browser, save, history>>

\* The transaction of a save, and those of the JSON API.
Tx(f, s) == <<f, s>>
ApiCalls == Txs \ (Pagers \X Saves)

Pages == {"away", "pick", "opening share", "share", "opening pay", "pay", "done"}

Idle == [at |-> "idle", ids |-> {}, data |-> NoClaims]

\* Posted by the open page, or by one that was left since; not stored yet.
Undelivered == {"posted", "abandoned"}

FInit ==
    /\ Init
    /\ name \in [Friends -> Names]
    /\ paid = [p \in Participants |-> FALSE]
    /\ page = [f \in Pagers |-> "away"]
    /\ items = [f \in Pagers |-> NoClaims]
    /\ sel = [f \in Pagers |-> {}]
    /\ save = [f \in Pagers |-> [s \in Saves |-> Idle]]
    /\ asked = [f \in Pagers |-> 0]
    /\ told = [f \in Pagers |-> 0]
    /\ last = [f \in Pagers |-> "none"]
    /\ astray = [f \in Pagers |-> FALSE]
    /\ moved = [f \in Pagers |-> FALSE]
    /\ skewed = FALSE

-----------------------------------------------------------------------------
\* What the code makes of the item rows.

\* claimedBy of an item has the names of these, one per claim.
Claimers(C, i) == {p \in Friends : i \in C[p]}

\* The page of f takes every claim under f's name for f's own.
Own(f, C, i) == \E p \in Claimers(C, i) : name[p] = name[f]
SelectedIDs(f, C) == {i \in Included : Own(f, C, i)}

\* Mutant: everybody on the item is somebody else.
OthersAll(f, C, i) == Claimers(C, i)

Others(f, C, i) == {p \in Claimers(C, i) : name[p] # name[f]}

\* app.js rounds by flooring where share.go truncates.
JsRoundDiv(a, b) == IF b <= 0 THEN 0 ELSE (a + b \div 2) \div b

\* The pick page's "Your share".
Estimate(f) ==
    LET claimed == SumFunction([i \in sel[f] |->
                       JsRoundDiv(LineTotal[i], Cardinality(Others(f, items[f], i)) + 1)])
    IN IF SplittableSubtotal <= 0
       THEN claimed
       ELSE claimed + JsRoundDiv(claimed * TaxTotal, SplittableSubtotal)

\* Mutant: the portion of a shared line is rounded down.
LinesRoundedDown(f) ==
    [i \in SelectedIDs(f, items[f]) |-> LineTotal[i] \div Cardinality(Claimers(items[f], i))]

\* The share page's lines, and what it calls the part of SST and service.
Lines(f) ==
    [i \in SelectedIDs(f, items[f]) |-> RoundDiv(LineTotal[i], Cardinality(Claimers(items[f], i)))]

LinesTotal(f) == SumFunction(Lines(f))
TaxLine(f) == asked[f] - LinesTotal(f)

-----------------------------------------------------------------------------
\* Joining and the end of the split.

\* A friend with a token does not join again: the landing page leads on to the
\* pick page.
Join(f) ==
    /\ CreateParticipant(f)
    /\ UNCHANGED <<people, browser, save, history>>

\* On a page that shows an amount.
Computed(f) == page[f] \notin {"away", "pick"}

Deletes ==
    /\ DeleteSplit
    /\ paid' = [p \in Participants |-> FALSE]
    /\ moved' = [f \in Pagers |-> Computed(f)]
    /\ skewed' = FALSE
    /\ UNCHANGED <<name, browser, save, last, astray>>

\* A commit, whoever's: what pages have read may be out of date, and so may the
\* amounts it leaves.
Stores(t) ==
    /\ Commit(t)
    /\ moved' = [g \in Pagers |-> Computed(g)]
    /\ skewed' = ~Current(t)

\* The JSON API: set the items I ordered, in a transaction of its own.
ApiStep(c) ==
    \/ \E f \in Friends \ Pagers : Begin(c, f)
    \/ \E i \in Included : Insert(c, i)
    \/ Read(c)
    \/ Rollback(c)

ApiClaims(c) ==
    /\ \/ ApiStep(c) /\ UNCHANGED <<moved, skewed>>
       \/ Stores(c)
    /\ UNCHANGED <<people, browser, save, last, astray>>

\* Fetches of a page that is left are cancelled; a request already sent may
\* still arrive.
Abandon(f) ==
    save' = [save EXCEPT ![f] = [s \in Saves |->
                IF @[s].at \in Undelivered THEN [@[s] EXCEPT !.at = "abandoned"] ELSE Idle]]

GoTo(f, p, C, a, t) ==
    /\ page' = [page EXCEPT ![f] = p]
    /\ items' = [items EXCEPT ![f] = C]
    /\ asked' = [asked EXCEPT ![f] = a]
    /\ told' = [told EXCEPT ![f] = t]

\* The friend goes, or is sent back to the landing page: no token the split
\* knows, or the split is gone.
Leave(f) ==
    /\ page[f] # "away"
    /\ GoTo(f, "away", NoClaims, 0, 0)
    /\ sel' = [sel EXCEPT ![f] = {}]
    /\ last' = [last EXCEPT ![f] = "none"]
    /\ astray' = [astray EXCEPT ![f] = FALSE]
    /\ moved' = [moved EXCEPT ![f] = FALSE]
    /\ Abandon(f)
    /\ UNCHANGED <<vars, people, skewed>>

-----------------------------------------------------------------------------
\* The pick page.

\* handleFriendPick.
OpenPick(f) ==
    /\ f \in joined
    /\ page[f] = "away"
    /\ GoTo(f, "pick", claims, 0, 0)
    /\ sel' = [sel EXCEPT ![f] = SelectedIDs(f, claims)]
    /\ UNCHANGED <<vars, people, save, history>>

\* Mutant: the selection is posted as it was before the tap.
TapPostedFirst(f, s, i) ==
    /\ page[f] = "pick"
    /\ save[f][s] = Idle
    /\ sel' = [sel EXCEPT ![f] = IF i \in @ THEN @ \ {i} ELSE @ \union {i}]
    /\ save' = [save EXCEPT ![f][s] = [Idle EXCEPT !.at = "posted", !.ids = sel[f]]]
    /\ last' = [last EXCEPT ![f] = s]
    /\ UNCHANGED <<vars, people, page, items, asked, told, astray, moved, skewed>>

\* toggle() and the first half of saveClaims().
Tap(f, s, i) ==
    /\ page[f] = "pick"
    /\ save[f][s] = Idle
    /\ sel' = [sel EXCEPT ![f] = IF i \in @ THEN @ \ {i} ELSE @ \union {i}]
    /\ save' = [save EXCEPT ![f][s] = [Idle EXCEPT !.at = "posted", !.ids = sel'[f]]]
    /\ last' = [last EXCEPT ![f] = s]
    /\ UNCHANGED <<vars, people, page, items, asked, told, astray, moved, skewed>>

\* handleFriendClaims, in whatever order the requests arrive.
Arrive(f, s) ==
    /\ save[f][s].at \in Undelivered
    /\ Begin(Tx(f, s), f)
    /\ astray' = [astray EXCEPT ![f] = @ /\ last[f] # s]
    /\ UNCHANGED <<people, browser, save, last, moved, skewed>>

\* One insert of the loop; `on conflict do nothing` for a row it can see.
InsertItem(f, s, i) ==
    /\ i \in save[f][s].ids
    /\ at[Tx(f, s)] = "open"
    /\ \/ Insert(Tx(f, s), i)
       \/ ~Insertable(Tx(f, s), i) /\ UNCHANGED vars
    /\ save' = [save EXCEPT ![f][s].ids = @ \ {i}]
    /\ UNCHANGED <<people, browser, history>>

\* recomputeOwedTx, once the loop is through.
Recompute(f, s) ==
    /\ save[f][s].ids = {}
    /\ Read(Tx(f, s))
    /\ UNCHANGED <<people, browser, save, history>>

Store(f, s) ==
    /\ Stores(Tx(f, s))
    /\ save' = [save EXCEPT ![f][s] = IF @.at = "posted" THEN [Idle EXCEPT !.at = "saved"] ELSE Idle]
    /\ last' = [last EXCEPT ![f] = IF @ = s THEN "none" ELSE @]
    /\ astray' = [astray EXCEPT ![f] = page[f] = "pick" /\ (@ \/ last[f] # s)]
    /\ UNCHANGED <<people, browser>>

\* handleFriendPickData.
Refetch(f, s) ==
    /\ save[f][s].at = "saved"
    /\ f \in joined
    /\ save' = [save EXCEPT ![f][s] = [Idle EXCEPT !.at = "read", !.data = claims]]
    /\ UNCHANGED <<vars, people, browser, history>>

\* The rows are shown; the selection stays what was tapped.
Show(f, s) ==
    /\ save[f][s].at = "read"
    /\ items' = [items EXCEPT ![f] = save[f][s].data]
    /\ save' = [save EXCEPT ![f][s] = Idle]
    /\ UNCHANGED <<vars, people, page, sel, asked, told, history>>

\* A request, its answer or the transaction fails: logged, not tried again.
Fail(f, s) ==
    /\ save[f][s] # Idle
    /\ save' = [save EXCEPT ![f][s] = Idle]
    /\ IF at[Tx(f, s)] = "idle" THEN UNCHANGED vars ELSE Rollback(Tx(f, s))
    /\ last' = [last EXCEPT ![f] = IF @ = s THEN "none" ELSE @]
    /\ astray' = [astray EXCEPT ![f] = @ \/ last[f] = s]
    /\ UNCHANGED <<people, browser, moved, skewed>>

-----------------------------------------------------------------------------
\* The share, pay and done pages.

\* buildShareBreakdown reads the items first.
OpenShare(f, from, to) ==
    /\ f \in joined
    /\ page[f] = from
    /\ GoTo(f, to, claims, 0, 0)
    /\ sel' = [sel EXCEPT ![f] = {}]
    /\ last' = [last EXCEPT ![f] = "none"]
    /\ astray' = [astray EXCEPT ![f] = FALSE]
    /\ moved' = [moved EXCEPT ![f] = FALSE]
    /\ Abandon(f)
    /\ UNCHANGED <<vars, people, skewed>>

\* Mutant: the amount asked for is that of the lines.
ReadOwedBeforeTax(f, from, to) ==
    /\ page[f] = from
    /\ IF f \in joined
       THEN GoTo(f, to, items[f], LinesTotal(f), 0)
       ELSE GoTo(f, to, NoClaims, 0, 0)
    /\ UNCHANGED <<vars, people, sel, save, history>>

\* Then the participants; someone who is gone by now owes nothing for nothing.
ReadOwed(f, from, to) ==
    /\ page[f] = from
    /\ IF f \in joined
       THEN GoTo(f, to, items[f], owed[f], 0)
       ELSE GoTo(f, to, NoClaims, 0, 0)
    /\ UNCHANGED <<vars, people, sel, save, history>>

\* handleFriendPaid tells the amount of the row it has just updated; the done
\* page reloaded posts again.
MarkPaid(f) ==
    /\ page[f] \in {"pay", "done"}
    /\ f \in joined
    /\ paid' = [paid EXCEPT ![f] = TRUE]
    /\ GoTo(f, "done", NoClaims, asked[f], owed[f])
    /\ UNCHANGED <<vars, name, sel, save, history>>

-----------------------------------------------------------------------------
FNext ==
    \/ Deletes
    \/ \E f \in Friends : Join(f)
    \/ \E c \in ApiCalls : ApiClaims(c)
    \/ \E f \in Pagers :
        \/ OpenPick(f) \/ Leave(f)
        \/ \E s \in Saves :
            \/ \E i \in Included : Tap(f, s, i)
            \/ Arrive(f, s) \/ Recompute(f, s) \/ Store(f, s)
            \/ \E i \in Included : InsertItem(f, s, i)
            \/ Refetch(f, s) \/ Show(f, s) \/ Fail(f, s)
        \/ \E from \in {"pick", "share"} : OpenShare(f, from, "opening share")
        \/ ReadOwed(f, "opening share", "share")
        \/ \E from \in {"share", "pay"} : OpenShare(f, from, "opening pay")
        \/ ReadOwed(f, "opening pay", "pay")
        \/ MarkPaid(f)

FSpec == FInit /\ [][FNext]_fvars

-----------------------------------------------------------------------------
\* Type correctness; the amounts the pages show are ones the share formula gives,
\* and a page that is left saves nothing it has not posted yet.
FTypeOK ==
    /\ TypeOK
    /\ name \in [Friends -> Names]
    /\ paid \in [Participants -> BOOLEAN]
    /\ page \in [Pagers -> Pages]
    /\ items \in [Pagers -> ClaimTables]
    /\ sel \in [Pagers -> SUBSET Included]
    /\ save \in [Pagers -> [Saves -> [at : {"idle", "posted", "abandoned", "saved", "read"},
                                       ids : SUBSET Included, data : ClaimTables]]]
    /\ asked \in [Pagers -> OwedValues]
    /\ told \in [Pagers -> OwedValues]
    /\ last \in [Pagers -> Saves \union {"none"}]
    /\ astray \in [Pagers -> BOOLEAN]
    /\ moved \in [Pagers -> BOOLEAN]
    /\ skewed \in BOOLEAN
    /\ \A f \in Pagers : page[f] # "pick" =>
        /\ sel[f] = {}
        /\ last[f] = "none"
        /\ \A s \in Saves : save[f][s].at \in {"idle", "abandoned"}

\* Nobody else of the split goes by the name of f.
OnlyOfName(f) == \A p \in joined \ {f, Owner} : name[p] # name[f]

\* "Tap the items you ordered" (pick.html): once no save is on its way, what is
\* stored is what the page shows as selected, unless the last save was lost, or
\* another one of the same friend was stored since it began: an older one that it
\* overtook, or one whose transaction overlapped with its own, which leaves the
\* union of both (ClaimsReplaced).  No tap is forgotten because others were
\* tapped or saved before, and no answer changes the selection.
SavedAsSelected ==
    \A f \in joined \intersect Pagers :
        /\ page[f] = "pick"
        /\ OnlyOfName(f)
        /\ ~astray[f]
        /\ \A s \in Saves : save[f][s].at \notin Undelivered
        => claims[f] = sel[f]

\* "Your share" on the pick page, computed in the browser from names, is the
\* amount the server stored, as soon as the page knows the others' claims, unless
\* the amounts stored are out of date themselves (OwedExactWhenQuiet).
EstimateExact ==
    \A f \in joined \intersect Pagers :
        /\ page[f] = "pick"
        /\ OnlyOfName(f)
        /\ ~skewed
        /\ claims = [items[f] EXCEPT ![f] = sel[f]]
        => Estimate(f) = owed[f]

\* "My breakdown" (handleShare): a friend's share and pay pages list the
\* friend's own items, and the rest of the amount, shown as tax, is the formula's
\* cut of these lines, unless claims moved after the page's first read, or the
\* amounts stored are out of date themselves (OwedExactWhenQuiet).
BreakdownAddsUp ==
    \A f \in joined \intersect Pagers :
        /\ page[f] \in {"share", "pay"}
        /\ OnlyOfName(f)
        /\ ~moved[f]
        /\ ~skewed
        => /\ DOMAIN Lines(f) = claims[f]
           /\ TaxLine(f) = RoundDiv(LinesTotal(f) * TaxTotal, SplittableSubtotal)

\* The done page says that was paid what the pay page asked for, and the owner
\* collects just that, unless claims moved after the pay page's first read.
PaidAsAsked ==
    \A f \in joined \intersect Pagers :
        page[f] = "done" /\ ~moved[f] => paid[f] /\ told[f] = asked[f] /\ told[f] = owed[f]

=============================================================================
