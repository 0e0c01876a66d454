# Pisah in TLA+

Pisah is a bill-splitting web service: a Go server (`main.go`, `handlers.go`,
`web_handlers.go`, `store.go`), a Postgres database (`schema.sql`), stored
images, and server-rendered pages. An owner scans a receipt, reviews it and
creates a *split* with a share link; friends join, claim items and mark
themselves paid; the owner watches the payments arrive on a tracking page.

This directory holds TLA+ models of the parts of it that are hard to get right
and hard to test, TLC configurations that check them on small instances, and
proofs checked by TLAPS. Line numbers are of the files under `src/`.

## Inventory

| component | state it keeps | operations | interacts through | what is hard | correct when |
|---|---|---|---|---|---|
| share arithmetic (`share/share.go`) | none | `ClaimedSen`, `Owed`, `roundDiv` | called by `recomputeOwedTx` and, for display, `buildShareBreakdown`; mirrored in `web/static/app.js` | rounding, negative rounding totals | shares follow the formula, their sum stays near the bill |
| claims and owed amounts (`store.go` 278-410) | rows of `participants`, `claims`; `items`, `splits` are fixed | `CreateParticipant`, `SetClaims`, `DeleteSplit` | handlers call it; the database runs the statements of several requests interleaved | READ COMMITTED snapshots, lock order, failure between statements | amounts follow from the stored claims; who claims nothing owes nothing; every request ends |
| SSE broker (`main.go` 361-400) | map split -> channels, mutex, buffered channels | `subscribe`, `unsubscribe`, `publish`; the loop of `handleEvents` | goroutines, mutex, channels | sends racing a close, slow readers, clean-up | order, bounded loss, no send on a closed channel, mutex always released |
| paid handlers and tracking page (`handlers.go` 361-463, `web_handlers.go` 421-473, 805-828, `track.html`) | `participants.paid`; the browser's page | mark, count, publish; render, stream, refetch, swap | database, broker, htmx | three separate steps, breaks, crash, refetch races | the page comes to show every payment; totals are current |
| split creation (`handlers.go` 121-178, `web_handlers.go` 311-400) | new rows of `splits`, `items`, the owner's participant | retry with a new slug; delete the scan | store, scan sessions | ambiguous commits, retries | one split per request, items as reviewed |
| scan sessions (`scan_handlers.go`, `store.go` 575-650, `storage.go`) | `scan_sessions` rows, stored images | upload, create, rescan, delete, clean up at start | store and image storage, two systems without a common transaction | crashes and failures between the two | every row has its image; images do not outlive their rows for ever |
| receipt reading (`scan*.go`, `expandSplitItems`) | none | OCR or LLM, parse, validate, repair | external services | integer repairs of inconsistent receipts | an accepted receipt adds up |
| signing key cache (`jwks.go`) | key set, time of last refresh | `key`, `refresh` | RWMutex, external service | concurrent misses, rotation, throttle, an auth service that does not answer | refreshes are spaced; published keys are found, and come to stay after a rotation |
| owner profile (`store.go` 448-547, `web_handlers.go` 166-270, 518-581, `storage.go` 17-46, 136-146) | one row per owner, one stored QR image | set-up form, settings, QR upload; gates on pages and on split creation | store and image storage; redirects between pages | upload and upsert without a common transaction, overlapping forms, pages that redirect to each other | friends of every split are shown a QR code; redirects end |
| friend pages (`web_handlers.go` 585-851, `app.js` 344-422) | selection and item rows in the browser; amounts shown | join, pick, share, pay, done | every tap saves; pages are read in two queries; people are known by name | saves in flight together, reads that do not fit together, arithmetic done twice | what is shown as selected is stored; what is shown adds up; what was asked for is what is paid |
| sign-in (`auth_supabase.go`, `web_auth.go`) | cookies only | proxied to the auth service | external service | - | - |
| rendering, logging, OCR clients, infrastructure | none | reads, formatting, I/O | - | - | - |

`PROJECT.json` lists the components with their status and, under `hazards`,
every place where an order, a failure or a boundary could go wrong.

## Modules

| module | models |
|---|---|
| `ShareMath` | the integer arithmetic of `share.go`, Go's truncating division included |
| `Bill` | the rows of one split that never change, and what a claims table makes each participant owe |
| `Ledger` | the promise of the store about one split to requests that do not overlap, each operation one step |
| `OpenLedger` | the promise to `SetClaims` transactions that do: each replaces the rows it found, and computes amounts from what it read |
| `SplitClaims` | the same operations as Postgres runs them, one SQL statement (or one row of it) per step |
| `SplitClaims_proofs` | the theorems about `SplitClaims` |
| `LossyChannel` | the promise of the broker to one subscriber |
| `Broker`, `Broker_proofs` | the broker with its goroutines, mutex and channels, and the theorems about it |
| `Track`, `Track_proofs` | paid handlers, tracking page, event stream and crash, over `Ledger` and `LossyChannel`, and the theorems about them |
| `Capture`, `Capture_proofs` | scans, their images and rows, rescans, split creation with its retries, clean-up, crashes, and the theorems about them |
| `ReceiptMath` | the repairs and checks of a scanned receipt and `expandSplitItems`, as operators |
| `Receipt`, `Receipt_proofs` | a receipt from the model's answer through the pipeline to the rows of a split, and the theorems about it |
| `Amounts_proofs` | the theorems about `ShareMath`, `Bill` and `ReceiptMath`, and what they need of sums and quotients |
| `FriendPages` | a friend's way through the pages, its browser included, over `OpenLedger` |
| `FriendPages_proofs` | the theorems about `FriendPages` |
| `Jwks` | the cache of the auth service's signing keys |
| `Profile` | an owner's profile and QR image, the gates and the redirects |
| `Gates_proofs` | the theorems about `Jwks` and `Profile`, what stands between an owner and the pages |
| `MCClaims`, `MCBroker`, `MCTrack`, `MCCapture`, `MCReceipt`, `MCFriendPages`, `MCJwks`, `MCProfile` | small instances for TLC |

`Track` composes `Ledger` with `LossyChannel`, and `FriendPages` composes `OpenLedger`
with the browser. `SplitClaims` implements `OpenLedger`, and `Ledger` while nothing
overlaps; each channel of `Broker` implements `LossyChannel` (below). Definitions
commented *Mutant* are broken versions of the one that follows them; no specification
uses them. Each shows that a property can fail.

### SplitClaims

Variables `joined`, `claims` and `owed` are the committed rows. Each element of
`Txs` is a request inside `SetClaims`; `pc` is the statement it is at. Its
uncommitted rows are private: `del` and `ins` are claim rows it has deleted and
inserted, `new` the amounts it wrote to the participant rows in `locked`.

| action | code |
|---|---|
| `Begin` | the request has passed `requireParticipant`; `delete from claims` takes its snapshot (`todo`) |
| `DeleteClaims` | the delete of the snapshot's rows, waiting for rows another transaction has deleted |
| `InsertClaim` | one round of the insert loop, with its `exists` guard and `on conflict do nothing` |
| `ReadSplit`, `SplitGone` | the first reads of `recomputeOwedTx`; no split row is an error |
| `ReadClaims` | the read of all claims, from which every amount is computed |
| `UpdateOwed` | one `update participants set owed_sen`, in any order (a Go map) |
| `StartZeroing`, `ZeroOwed` | the last update: its subquery's snapshot, then its rows one by one |
| `Commit`, `Rollback` | the end; a rollback may come at any statement |
| `BreakDeadlock` | Postgres fails the statement of a transaction in a cycle of waits |
| `CreateParticipant`, `DeleteSplit` | single statements, single steps |

Postgres is modelled from how `store.go` uses it: pgx's default transaction is
READ COMMITTED, so each statement sees what is committed when it starts plus the
transaction's own writes; a write waits for a row another transaction holds and
then re-checks the row, not its subqueries. The cascade of a split's deletion
waits for transactions holding rows of it. The owner's row is written only by
the zeroing update: it has no token, so it neither claims nor pays. The delete takes
its rows in one step where Postgres takes one after the other; that leaves out
deadlocks between two deletes of one friend, which end as any deadlock does, and
no committed rows.

`OpenLedger` keeps of all this what a commit leaves behind: the rows the delete's
snapshot held (`had`), those inserted (`add`) and the claims read (`seen`). The
row locks, the waits and the order of the updates are gone: everybody gets the
amount that the read makes, except that people who got their claims after it
(`Unread`) keep the amount they have, or are set to 0 if the zeroing update's
snapshot is older than their claims. Rows of `had` that another transaction of
the same friend deletes and commits are gone for this one.

### Broker

One step per critical section boundary and per channel operation. What runs
under `Broker.mu` is split into lock, work (one step per send of `publish`) and
unlock, because receiving, leaving the loop and `close` happen without the
mutex and fall between those steps. `sent`, `since` and `lost` are history
variables: the order of publication, where in it a client began, and what was
dropped for it.

`LossyChannel` has the losses in its state too: `Drop(m)` records m and needs a
full buffer. So the refinement maps `lost` to the broker's, and a send that drops
from a buffer with room is a step the channel does not have. `StreamIsPublicationOrder`
adds that the recorded losses are the only ones, and the order.

### Track

A paid handler is three steps: `MarkPaid`, `CountCollected` (or `CountFails`:
both handlers go on with 0), `Publish`. The page is rendered, its stream
subscribes later and may break and reconnect; an event replaces the rows by its
text (`sse-swap` in `track.html`) and starts `hx-get`, or queues behind the one
under way; the answer is read from the rows (`Fetch`) and later swapped in
(`Swap`), or lost (`FetchFails`). A `Crash` stops handlers where they are and
empties the broker. The history variable `missed` says that something was lost
the page does not recover by itself: an event published while it had no stream,
events on a broken stream, a lost refetch, a crash. Any later refetch clears it.

### Capture

The image store and the database share no transaction, so each call to either is
a step, and each call may succeed, fail, or take effect with its answer lost. A
`Crash` may fall between any two steps; the next server starts with the clean-up.

| action | code |
|---|---|
| `Upload`, `RecordSession`, `UndoUpload` | `processScan` after the receipt is read: `uploadScanImage`, `CreateScanSession`, the delete on its error |
| `Expire` | `expires_at` passes |
| `RescanLoad`, `RescanFetch` | `GetScanSession`, then `fetchStorageObject`; a rescan writes nothing |
| `Submit` | the review page (or the API, without scan) asks for a split |
| `Create`, `CreateFails`, `CreateUnsure` | one round of the loop around `CreateSplit`: committed, failed (a taken slug or anything else), committed with the answer lost |
| `UnlinkSession`, `DropImage` | `deleteScanSessionForOwner`: the row, then the image |
| `DeleteSplit` | the owner deletes a split; its slug is free again |
| `SweepRows`, `SweepImage` | `runScanCleanup`: all expired rows at once, then their images one by one |

The history variables say what excuses a state: `doubt` (rows whose insertion
the server takes for failed), `faults` (images a failure or crash left behind),
`made` and `unsure` (splits committed for a request, and those it does not know
of). An image is in `faults` from the failure itself on, never because it is
found without a row, so `NothingLeftBehind` does fail when a path that meets no
failure forgets an image.

### Receipt

`paper` is the printed receipt, `slip` what the vision model got wrong about it,
`rec` the receipt as it goes through `ScanPipeline.Process`. The repairs guess
from figures that the one before may have changed, so what is checked is the
whole sequence.

| action | code |
|---|---|
| `Map` | `parseLLMReceiptJSON`, `mapLLMResponse` |
| `Totals`, `LineItems`, `Normalize`, `Enrich`, `Validate` | `repairMisassignedTotals`, `repairMisassignedLineItems`, `normalizeParsedReceipt`, `enrichParsedReceipt`, `validateReceipt` |
| `Create`, `Refuse` | `handleWebCreateSplit` with the form as shown, `expandSplitItems` |

The model's answer is correct or has one mistake that the prompt, a repair or a
test of the repository names: the total where the tax belongs, the tax under the
service charge, a summary figure on an item's line, missing figures and prices.
Left out are the merchant, confidences, the duplicates warning (it compares
names), the text of the answer (`extractJSON`) and the owner's edits.

What a printed receipt is stands in two assumptions. `PrintedAssumption`: the
figures add up, the items are named apart, their lines are unit price times
quantity, and they are priced net or with the taxes in. `RatesAssumption` is what
the repairs count on: the taxes, with 2 sen for rounding, are at most the fifth of
the subtotal that `repairMisassignedTotals` accepts as an implied tax, and neither
tax is of 1 to 4 sen, which `senClose` and rounding could not tell from nothing.
`Repairable` says the same of a summary figure on an item's line: prices are above
the 50 sen below which no price is inferred, none is within 2 sen of a summary
figure, and the other items cost more than the taxes.

### FriendPages

`Pagers` are friends whose browsers are followed; the others use the JSON API.
`sel` and `items` are the pick page's `selected` and `items`; `save` are its
`saveClaims` calls, which it starts at every tap without waiting for the one
before.

| action | code |
|---|---|
| `Join`, `ApiClaims`, `Deletes` | `handleFriendJoin` or `handleJoin`; `handleSetClaims`, step by step; `handleDeleteSplit` |
| `OpenPick` | `handleFriendPick`: the rows, and as selected whatever has the friend's name on it |
| `Tap` | `toggle` and the first half of `saveClaims` |
| `Arrive`, `InsertItem`, `Recompute`, `Store` | `handleFriendClaims` in any order of arrival: its transaction begins and deletes, inserts, reads the claims, commits |
| `Refetch`, `Show` | `handleFriendPickData`, the second half of `saveClaims` |
| `Fail` | a request, its answer or its transaction fails: logged and not tried again |
| `OpenShare`, `ReadOwed` | the two reads of `buildShareBreakdown`, items first, then amounts |
| `MarkPaid` | `handleFriendPaid` |
| `Leave` | the page is left, or the token is refused; fetches are cancelled, but a request that was sent may still arrive (`abandoned`) |

Every save is a transaction of `OpenLedger`, so two saves of one friend leave the
union when they overlap, and saves of two friends leave wrong amounts, as in the
code (findings 1 and 2). The history variables say where that bites. `astray`: the
last tap's save was lost, or another save of the same friend was stored since it
began, be it an older one it overtook or one it overlapped with. `skewed`: the last
commit's read of the claims was no longer current. `moved`: somebody's claims moved
since the share or pay page's first read. Each is set by the event itself, never
because a state looks wrong. So `SavedAsSelected` still says that saves that do not
overlap replace each other, however many there were, whatever others commit in
between, and that no answer changes the selection; and `EstimateExact` and `BreakdownAddsUp`
hold again as soon as one commit's read was current, whatever went wrong
before.

### Jwks

A lookup is `key()` of one request: it misses (`Miss`), the auth service answers
with what it publishes at that moment (`Answer`) or fails to (`Fail`), the answer
replaces the cache (`Install`), and the key is looked up again (`Reread`). What
is done under the mutex is one step; the HTTP request is made without it, so any
number of lookups refresh at once and install in any order. A key is its id; the
keys `refresh` would skip are not modelled. `Rotate` changes what is published,
`Tick` is time. The history variables `steady`, `early` and `stale` say whether a
lookup's key was published all along and whether an answer from before the lookup
overwrote its own; `flying` which lookups were refreshing when the cache was last
set.

### Profile

`row` is the owner's row, `bucket` the stored image, `splits` the kinds of split
there are (with a QR URL of their own or not). A request is a set-up form, an
upload or a submit, at any stage of its calls; any number overlap, each may fail
anywhere. An owner who uses the pages is a device cookie and one who uses the API
a signed-in user; the model lets one owner do both, which allows more. The
browser (`nav`) is redirected by the gates (`ServeGated`), by the set-up page when
the profile is ready (`ServeSetup`) and after forms (`GoTo`); `hops` counts the
redirects of pages in a row. Only whether there is a QR is kept, not which: all
uploads of an owner have one path and one URL.

## Runs

Most runs have `CHECK_DEADLOCK FALSE`: a split that is deleted, messages that are
all published and clients that are all gone leave nothing to do, and the
programs really stop there.

| run | instance | checks |
|---|---|---|
| `claims` | 2 friends, 2 items, 2 transactions, symmetric friends and transactions | `NonClaimantsOweNothing`, the inductive invariant `IInv` (`TypeOK` is its first part), `FreshCommitIsExact`: if no commit fell between a transaction's read and its commit, its commit leaves everybody's amount exact, and `OverlapsAllowed`: overlapping transactions implement `OpenLedger` |
| `claims_live` | 2 friends, 1 item, 2 transactions | `SetClaimsEnds` |
| `claims_ledger` | 2 friends, 3 items (one not split), 1 transaction | `Ledger`: without overlap, `SplitClaims` implements `Ledger`, failures and deletions included |
| `claims_skew` | as `claims`, one transaction for each friend | finding: `OwedExactWhenQuiet` is violated |
| `claims_replace` | as `claims` | finding: `ClaimsReplaced` is violated |
| `broker` | 2 clients, 3 messages, 2 splits, buffer of 1 | `NoSendOnClosed`, `StreamIsPublicationOrder`, `NoEmptyEntries`, `MutexReleased`, and `LossyChannels`: each channel implements `LossyChannel`, its losses included |
| `track` | 2 friends, 1 free item, 2 handlers, buffer of 1 | `PaidShownOrComing`, `PageCatchesUp` |
| `capture` | 1 scan, 2 requests, 2 slugs, 2 attempts (5 in the code) | `RowsKeepImages`, `NothingLeftBehind`, `ReviewSurvivesFailure`, `SplitsPerSubmit`, `SubmitsEnd` |
| `receipt` | 1530 receipts (34 baskets, 5 pairs of rates, net and tax-inclusive, 5 roundings), 14 kinds of reading, a form of 5 rows, up to 3 sharers | `CorrectReadingKept`, `FiguresRestoredOrWarned`, `LinesAddUp`, `InclusivePriceRestored`, `UnitsAddUp`, `SharesCoverBill` |
| `friends` | 2 friends, one with a page, 2 items, 2 saves and an API call of which 2 may be open, 2 names, symmetric saves and names | `SavedAsSelected`, `EstimateExact`, `BreakdownAddsUp`, `PaidAsAsked` |
| `keys` | 2 keys, 2 lookups, a window of 2 ticks | `InstallsSpaced`, `RejectionsExcused`, `RotationHandled`, and that a filled cache is never emptied (in `TypeOK`) |
| `profile` | 2 requests, symmetric | `FriendsSeeQr`, `RedirectsEnd`, and that no URL is held before its image is (in `PTypeOK`) |

Why the bounds are enough. Two transactions are what every conflict here needs: waits,
snapshots and overwritten amounts are between pairs, and the two may belong to one
friend or to two. Two items let a friend keep one and drop one and let two claimants
overlap in part; the prices 101 and 60 with tax 16 make different claim tables give
different amounts, so that an outdated amount is visible. The liveness run has one
item, as deadlocks are about participant rows and both friends still reach them in
both orders. The buffer of one (8 in the code) reaches the full buffer with two
messages, and three messages give one that waits, one that is dropped and one that
follows. In `broker` one client and two messages are fixed to one split; the others
choose either. In `track` the item is free because the page's promises are about who
paid, not how much. In `friends` the second friend stands for everybody else: it has,
or has not, the same name, shares the one dish it may claim or not, and changes its
claims at any moment. Two saves overlap, overtake each other and outlive their page,
and one save overlaps with the API call; a third would only be one more of these.
`MCSpec` lets two requests be open at once only while the pick page is open, not paid
yet, and the two friends have different names: no other page saves, and of friends of
one name only `PaidAsAsked` says something, which is about no save in flight. The
proofs have no such bounds. In `keys` two lookups overlap in every way, one key can
replace the other, and two ticks let a refresh come within, at and after the window.
In `profile` two requests overlap at any two stages; a third meets the same row.
`claims` and `claims_skew` leave the variable `want` out of the fingerprint (`VIEW`):
it records what a request asked for, no guard reads it, and only `ClaimsReplaced`,
checked by a run without the view, speaks of it. In `capture` scans meet only in the
clean-up's list, which treats each on its own, so one is enough; two requests for it
collide on the slug, race for its row, and with two attempts each can leave two
splits. The receipts have one to three items, among them two equal prices (which make
scaled lines miss the subtotal), a free item and one of several units, at Malaysian
rates (0, 6 or 8 % tax, 0 or 10 % service), priced net and tax-inclusive; rounding to
5 sen is -2..2. A form has 100 rows in the code and 5 in the run, where baskets have
up to 6 units, so that the last row of some item is lost. The repairs look at sums and
at one line at a time, so three items reach every case: a line to repair, another, and
one after it.

Fairness. `SetClaimsEnds`: a transaction that has begun goes on (strong fairness
of its steps, since Postgres queues waiters on a row that is free again and
again) and the deadlock detector runs while a wait lasts; nobody is required to
join, claim or delete. `MutexReleased`: a runnable goroutine runs; no client is
required to read, and none to hang up. `PageCatchesUp`: a handler goes on, the
browser handles its events and its answers; nothing is required to connect, and
a lost request or a break is excused by `missed`. `RotationHandled`: time passes,
an owner whose key is missing tries again, and a lookup that has its answer needs
nothing but the mutex; the auth service owes no answer, the property asks for one
by name. `SubmitsEnd`: a request being
served goes on, as its calls return, well or not; a crash ends it.

## Findings

1. `claims_skew`. Two friends claim the same dish at the same time, and each
   recomputes all amounts from a table without the other's claim. Both commit; each
   is charged the whole dish until somebody saves again. `SetClaims`'s comment
   (`store.go` 302-303) promises amounts recomputed for everyone. The run allows
   each friend one transaction at a time (`FriendsSpec`), so that the trace is of
   two people. One friend's two overlapping saves can do the same and more: the
   zeroing update of an empty save may set the amount of claims to 0 that were
   committed after its snapshot.
2. `claims_replace`. The same comment says a save replaces the claims. Two
   overlapping saves of one friend, which the pick page sends at two quick taps
   (`app.js` 363-367), can leave the union of both selections.

What the properties leave out because the code does not promise it:

- An image whose upload's answer was lost, one uploaded before a crash, and one
  whose row was deleted before its own deletion failed have no row, and the
  clean-up starts from rows: they stay. The migration that creates the bucket says
  "Expired via scan_sessions cleanup". `NothingLeftBehind` excuses just these.
- The total of an untaxed receipt read as its tax is not put back
  (`scan_validate.go` 72); with no total given, the total comes out doubled, and
  the figures agree, so nothing warns. `FiguresRestoredOrWarned` speaks of taxed
  receipts.
- `validateReceipt` compares the items with the total only when the summary
  figures disagree. An item without a name, or a summary figure on the line of a
  free item, leaves lines that do not add up and no warning; `LinesAddUp` is
  stated for the rest.
- `roundDiv` truncates toward zero after adding half, so a negative tax total is
  rounded up by as much as 1.5 sen; `SharesCoverBill` allows for it. The browser's
  mirror in `app.js` uses `Math.floor` and differs there by one sen at most
  (`RoundingsAgree`), only where the numerator to be rounded is negative.
- `main.go` 398 excuses a dropped event because the "next event [is] still fresh".
  Two paid handlers can publish in the opposite order of their reads
  (`handlers.go` 369), so the last event's `collectedSen` is outdated, also for a
  client that got every event. The owner's page ignores that total and refetches,
  which is what `PaidShownOrComing` is about.
- `store.go` 549 says `CollectedSen` sums "what paid friends have settled"; it sums
  their present amounts, which later claims change. `PaidAsAsked` says that they
  are equal as long as nobody's claims move.
- `scan_validate.go` 115-116 says a line that picked up a summary figure gets the
  menu price. The price is inferred from the total with taxes: where prices are
  net the line gets the whole bill's tax as well, and `normalizeParsedReceipt`
  then scales every line down, without a warning. `InclusivePriceRestored` shows
  that the repair is right where prices include the tax.
- Friends are told apart by the name they typed (`selectedIDs`, 662). Of two of one
  name each sees the other's items as selected, the next tap stores them as its
  own, and the breakdown lists them. A join form sent twice makes such a pair. The
  properties of `FriendPages` speak of friends whose name nobody else has.
- Saves posted at quick taps may overtake each other or overlap in the database
  (finding 2), a lost save is not tried again, and "Continue" does not wait for
  saves: the last tap may be forgotten, or an item untapped may stay claimed
  (`astray`). The page does not say so.
- `handleWebCreateSplit` reads the first 100 rows of the form (`web_handlers.go`
  328), and the browser posts a row per unit (`app.js` 293-306). The rows of a
  receipt of more units are lost without a word while its subtotal and total stay,
  so friends can claim every row and still owe too little. `UnitsAddUp` says exactly
  which rows there are; `SharesCoverBill` speaks of splits whose rows come to the
  subtotal.
- `share.go` 35-37 and the repository's README (64) call the drift of the shares "a
  sen or two". It grows with the number of portions: three friends who share a dish
  of 1699 and three of 115 each drift by 4 sen. `SharesCoverBill` states the bound
  the arithmetic gives, half a sen per portion and per cut.
- A share page whose split is deleted between its two reads shows RM 0.
- In `jwks.go` lookups that miss together all refresh, and a refresh that fails is
  not throttled: every further miss asks again at once. The comment at 34-35
  ("rate-limiting refreshes") holds for refreshes that succeed, as
  `InstallsSpaced` states it. `http.Get` has no timeout. An older answer may
  overwrite a newer one, and its owner is rejected until the window is over
  (`stale`).
- A QR upload replaces the image also when saving its URL then fails. Since the URL
  is the same for every upload, nobody is left without a code. An owner who first
  sets name and QR through the set-up form is never shown the walkthrough, as
  `SetOwnerProfile` marks it seen; a settings form with a blank name turns auto-fill
  off unless it says otherwise (`web_handlers.go` 542-547).

## Proofs

Everything in this section holds for every value of the constants: any finite set
of items, any friends, transactions, clients, messages, scans, requests and any
bill. The assumptions are the `ASSUME`s of the modules (the owner is not a friend,
included items are items, items are finite, amounts are integers, bounds are
positive, `Nobody` and `none` are nobody's names) and, where a theorem needs more,
the hypotheses it states. The inductive invariants hold on the instances of the
runs too; `IInv` is checked by one of them.

### Amounts_proofs

Sums are `SumFunctionOnSet` of the community modules, a recursion over a set. What
is needed of it, that any order of adding gives the same (`SumAdds`, `SumRemove`),
rests on induction over finite sets, made first-order: the subsets of a finite set
are well-founded, so among those without a property one is least (`LeastSubset`),
hence a set of subsets that has `{}` and is closed under joining an element has
them all (`SetInduction`).

- `SharersCoverBill`: k people who share every line owe together the bill, but for
  half a sen per portion (and the tax on it) and half a sen per cut of tax, service
  and rounding; 1.5 sen where these are negative, as `roundDiv` truncates. This is
  what `SharesCoverBill` checks on receipts, for all prices, taxes and k.
- `AmountsCoverBill`: the same bound for any claims of anybody, once every item is
  claimed and none is a discount. The sum over people of their portions is the sum
  over items of portion times claimants (`SumSwap`), each item's portion times its
  claimants is near its price (`RoundDivNear`), and the cuts are near their share
  of the taxes (`CutNear`); `DriftBound` puts the two together.
- `UnitsOfLine`: the rows of a line are as many as its quantity, add up to it and
  differ by less than a sen per unit.
- `ScaledToNet`: `ScaleItemsToNet` makes tax-inclusive prices add up to the
  subtotal exactly, if any stays above 0, each near its share of it. The last
  positive line takes the drift, which is at most half a sen per item.
- `CorrectFiguresKept`: a correct reading keeps its subtotal, its total and the sum
  of its taxes. `Plausible` is a printed receipt: a positive subtotal, taxes that add
  up to the total and are at most a fifth of the subtotal, rounding of -2..2. A tax
  may move from service charge to sales tax; with the taxes bounded, neither can
  then be taken for the total.
- `MisplacedTotalRestored`: a total read as the sales tax is put back, and the
  taxes come out within 2 sen, if the tax is at least 3 sen and its 2 sen of
  rounding stay within the fifth that the repair accepts. The run's taxes are at
  most 16 %, so only the theorem reaches the bounds of the repair.

### SplitClaims_proofs

- `TypeCorrect`: `Spec => []TypeOK`. The substance is the type of `owed`: each
  stored amount is one the share formula gives for some claims table, however
  transactions overlap, because the amounts a transaction writes all come from
  one table it has read.
- `Inductive`: `Spec => []IInv`.
- `NothingForNothing`: `Spec => []NonClaimantsOweNothing`, although amounts in
  general may be wrong (finding 1).
- `FreshCommitsExact`: `Spec => FreshCommitIsExact`. It bounds finding 1: amounts
  go wrong only by a commit that fell between another's read and commit.
- `AloneIsLedger`: with at most one transaction, `Spec => Ledger`, so every
  statement of a `SetClaims` is a stutter of the ledger but its commit, which is
  the ledger's `SetClaims`, rollbacks, joins and deletions included. The hypothesis
  is on the constant `Txs`, not on behaviours: nobody ever overlaps. `Alone` says
  that the committed rows are then still those the transaction began with.
- `OverlapsAreOpenLedger`: `Spec => OverlapsAllowed`, without that hypothesis: the
  transactions implement `OpenLedger` however they overlap. The begin, each insert
  and the read of the claims map to the ones of `OpenLedger`, everything else is a
  stutter until the commit. What is left to show there is that the amounts written
  row by row are `Amounts` of the read, but for `Unread`, which is what
  `AmountsFollowRead` and `ZeroingCovers` (below) say of a transaction that has no
  row left to write.

The argument. `NonClaimantsOweNothing` is not inductive: a commit merges private claim
rows and private amounts, so one must know what those are. `PrivateRowsFit` says that
deleted rows are still committed ones and inserted rows do not clash;
`OneDeleterPerParticipant` that of two open requests of one friend at most one has
deleted anything, so a commit removes exactly what its view says; `LocksExclusive`
that nobody else writes the amounts of a locked row; `OutsidersBlank` that rows
outside the split hold nothing. `ZeroingCovers` is one half of the heart: once the
last update has fixed its rows, every participant without claims in the transaction's
view is still to be zeroed, has been zeroed, or has no committed claims either, hence
owes 0 already. `AmountsFollowRead` is the other, for people with claims: everybody a
transaction read with claims is still to be updated, or locked with the amount of that
read, or locked and being zeroed because the claims are gone from the transaction's
view. The last of these cannot come undone, which is the point of the conjunct:
whoever commits new claims of a participant has written its amount and so holds its
row, hence the claims of a participant locked by another can only shrink. If the read
is still the view at the commit, only the amounts of that read are left. Each action
has a lemma for the parts it can disturb (`RowsBegin`, ..., `ReadsCommit`), collected
in `IInvStep`.

### Broker_proofs

- `BrokerTypes`, `ChannelsOpenWhileSending` (`NoSendOnClosed`), `MapHoldsWatched`
  (`NoEmptyEntries`): `MapInv` says who is inside the mutex (`MutexInv`), that a
  channel is in the map from `Register` to `Unregister`, under its own split, and
  closed only after that (`RegistryInv`), and that the channels a publisher has
  yet to visit are in the map (`TargetsInv`): `unsubscribe` closes without the
  mutex, but it took it to leave the map, so no publisher was at work then.
- `StreamsInOrder`: `Spec => []StreamIsPublicationOrder`. `OrderInv` adds that each
  message is published once and the one being handed out is the last (`SentInv`),
  so that appending it to a buffer keeps the order and repeats nothing.
- `BrokerIsLossyChannels`: `Spec => LossyChannels`, the refinement the run
  `broker` checks. Each step of the broker maps, for each client, to a step of its
  lossy channel or a stutter: joining, a message taken, one dropped and recorded
  because the buffer is full, one streamed, leaving. The buffer is never above
  `Capacity`, so a send that finds no room finds it full.

### Track_proofs

- `TrackTypes`, `PaymentsReachPage` (`PaidShownOrComing`). `TrackInv` adds what the
  page knows (`Known`): while the split exists, only payments that were made, and an
  answer on its way has everything the page shows. That `joined` is finite is part
  of the invariant, for the collected total to be a number.
- `TrackIsLedger`: `TSpec => Spec`, the composition leaves the ledger's rows to its
  operations; `TrackIsLossyChannel`: `TSpec => Channel!Spec`, the page's stream
  through reconnects, closed pages and crashes is one lossy channel.

### Capture_proofs

- `CaptureTypes`, `RowsHaveImages` (`RowsKeepImages`), `ImagesAccountedFor`
  (`NothingLeftBehind`), `ReviewCanBeRepeated` (`ReviewSurvivesFailure`) and
  `OneSplitPerSubmit` (`SplitsPerSubmit`). `CaptureInv` says for each stage of each
  handler which of row and image there are (`ScanInv`, `FormInv`): only a row whose
  insertion the server takes for failed is one no page was shown for, and a form's
  row goes before its image. Of retries it says that each follows an error that was
  counted (`AttemptInv`).

### FriendPages_proofs

- `SelectionStored`: `FSpec => []SavedAsSelected`. The invariant says of the save of
  the last tap how far it is (`Carries`): what it posts is the selection; while its
  transaction is open and nothing is astray, the rows it deletes are all the stored
  ones, and those inserted and still to insert are the selection, so its commit leaves
  just that. `Saved` says the same of a page whose saves are through, `Left` that
  pages other than the pick page have none on their way but abandoned ones, `Sent`
  that a save's transaction is open only while the save is under way, and that the
  transactions of the API are of friends without a page.
- `PagesTypes`, `PaidIsAsked`, `BreakdownsAddUp`: from the same invariant and
  `Ledgered`, the types of `OpenLedger`; unless `skewed`, the amounts follow from the
  claims (`Exact`), since `Amounts` of a current read are those of the view.
- `EstimatesExact`: the browser's estimate is the stored amount. It needs prices
  and taxes that are not negative: with a negative numerator `Math.floor` and
  `roundDiv` differ, by one sen at most (`RoundingsAgree`).
- `PagesCoverBill`: once all items are claimed and the last commit's read was
  current, the amounts stored add up to the bill within the bound of
  `AmountsCoverBill`, however many saves overlapped before.

### Receipt_proofs

All seven invariants of the run `receipt`, for receipts of any number of items, any
quantities, prices and taxes that the two assumptions allow, any rounding and every
mistake of the model.

- `ReceiptTraced`: `Spec => []Traced`, the inductive invariant: at each stage the
  receipt is the composition of the calls so far (`Totalled`, `Lined`, `Netted`,
  `Processed`, `Submitted`) applied to one of the answers the model may give to this
  paper, the warnings are `validateReceipt`'s of that receipt and the rows its
  expansion. The invariants speak of what is shown at the end, so none of them is
  inductive. With `Traced` each becomes a statement about the composed functions.
- `ReceiptTyped` (`TypeOK`): every call keeps figures integers and items named, with
  a quantity of at least 1. `Entries` adds that an item whose line is 0 has a unit
  price of 0, without which `expandSplitItems` would price it anew.
- `FirstRepaired`: the loop of `repairMisassignedLineItems` repairs the first line
  that can be repaired and no other. After a repair the lines add up to the total,
  so that each line is its own inferred price and none is above it.
- `ReceiptFigures` (`FiguresRestoredOrWarned`): after the repair of the totals the
  figures are the printed ones but for the rounding, which may be missing, counted
  in the tax or in the total (`NearFigures`, `TotalRestored`), and the later calls
  keep them so (`NearStay`). A receipt read without its subtotal gets the sum of the
  items, which is wrong for tax-inclusive prices and then warned of (`NoSubtotal`).
- `ReceiptLines` (`LinesAddUp`): before `normalizeParsedReceipt` the lines add up to
  what the printed ones do, or to the total (`LinesBefore`, `SummaryLineRepaired`).
  It takes them for tax-inclusive exactly if they do not add up to the subtotal
  (`GrossIsInclusive`), and scales them to it (`LinesScaled`, by `ScaledToNet`).
- `ReceiptPrices` (`InclusivePriceRestored`): the misread line is the only one near
  a summary figure, so it is the one repaired, and where prices include the tax what
  is missing from the total is its price.
- `ReceiptKept` (`CorrectReadingKept`): none of the guards of the repairs holds of a
  correct reading, and tax-inclusive prices are the only ones changed.
- `ReceiptUnits` (`UnitsAddUp`): the units of the form are the items' one after the
  other (`ExpandedRows`), of which the server reads the first `FormRows`
  (`PostedRows`); an item's rows are one block of them, cut at that length, and
  found by its name, since no two items share one (`RowsOfItem`). `FormRows` is any
  number, and an item is promised to add up only if it was read to its end.
- `ReceiptShares` (`SharesCoverBill`): of rows that come to the subtotal, whatever
  they are (`RowsCovered`), `SharersCoverBill` says what k sharers owe.

Folds and `FlattenSeq` are recursive functions over the sequence. Their results are
found without an induction rule over operators: the set of the lengths up to which
a claim about one given fold holds has 0 and is closed under the next number, so it
has all (`Upto`).

The proofs changed three statements that hold of the run's receipts of three items
but not of all. `CorrectReadingKept` allowed each scaled line an error of one sen;
the last positive line takes the drift of all, half a sen per item. The same drift
may leave that line below zero on a long receipt of cheap items, and a negative row
has its portions rounded up by more than half a sen, so `SharesCoverBill` speaks of
rows that are not negative. `Repairable` bounded prices from below; a price near a
summary figure may be repaired in place of the misread one, and a dear item's price
with the taxes on top may reach the figure it was misread as.
The module extends `Amounts_proofs` and with it `Bill`, whose constants and
assumptions it does not use.

### Gates_proofs

Of `Jwks`:


- `CacheTypeCorrect`: `Spec => []TypeOK`, hence a filled cache is never emptied.
- `SpacedInstalls`: `Spec => InstallsSpaced`. The invariant says that while the
  throttle is on, every refresh under way was under way when the cache was last
  set: only `Miss` adds to them, and it waits for the throttle.
- `ExcusedRejections`: `Spec => RejectionsExcused`. While a lookup's key stays
  published, every answer given since the lookup began has it, so only an answer
  from before (`early`) can take it out of the cache again (`SteadyInv`).

Of `Profile`, whose definitions bear a P where `Jwks` has the same name:

- `UrlsHaveImages`: `PSpec => []PTypeOK`; `QrForEveryFriend`: `PSpec => []FriendsSeeQr`;
  `NoRedirectCircle`: `PSpec => []RedirectsEnd`. The invariant `ProfileInv` says
  what a request may rely on while others run: a QR it has read about is still
  there, since no request ever takes one away. A ready profile therefore stays
  ready, and a browser redirected twice is on its way to a page it will be shown.

### Only model-checked

- Liveness, which the prover does not reach: `SetClaimsEnds`, `MutexReleased`,
  `PageCatchesUp`, `SubmitsEnd`, `RotationHandled`.
- `ClaimsReplaced` and `OwedExactWhenQuiet`, which the code violates (findings).

Every other property of the runs is a theorem above.

## Not modelled

Sign-in, rendering, logging, OCR clients and infrastructure keep no state of their
own. `ownerFromRequest` in `web_auth.go`, with what it calls, has no caller: pages
know an owner by a device cookie. The totals of the tracking page, which it reads in
two more queries than its rows, and its banner are not modelled. Widths of integers
are not modelled: sums of receipts are far below 2^63. Two servers (`main.go` 357-360:
the broker is per process) are not modelled; the deployment runs one.
`ParticipantByToken` runs just before a handler; the split may be deleted in between,
which `SplitGone` covers.

## Plan

1. Done: `ShareMath`, `Bill`, `Ledger`, `SplitClaims`, `LossyChannel`, `Broker`,
   `Track`, `Capture`, `ReceiptMath`, `Receipt`, `FriendPages`, `Jwks`, `Profile`,
   and the proofs of every safety property that the runs check.
2. `Track`: the totals and the banner of the tracking page, read after its rows.
3. Proofs of what no run asks: that an amount changes only by a commit; the figures of
   an untaxed receipt, of which the repairs promise less.
