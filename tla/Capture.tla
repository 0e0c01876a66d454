------------------------------ MODULE Capture ------------------------------
(***************************************************************************)
(* From a receipt photo to a split with a share link: the scan's image in  *)
(* the image store, its row in scan_sessions, the review page with its     *)
(* rescans, the creation of the split and the clean-up at server start.    *)
(*                                                                         *)
(* Database and image store share no transaction, so every call to either  *)
(* is a step of its own.  A call may succeed, fail, or take effect while   *)
(* its answer is lost (the connection breaks, the request's context ends); *)
(* the server may crash between any two calls.                             *)
(***************************************************************************)
EXTENDS Integers, FiniteSets

CONSTANTS
    Scans,        \* scan ids; NewScanID gives each upload its own
    Submits,      \* requests to create a split
    Slugs,        \* what newSlug may draw
    MaxAttempts,  \* 5 in the code
    NoScan,       \* form without scan_id: manual entry, or the JSON API
    Nobody        \* the slug is free

ASSUME AttemptsAssumption == MaxAttempts \in Nat \ {0}
ASSUME NamesAssumption == NoScan \notin Scans /\ Nobody \notin Submits

VARIABLES
    images,    \* scan images in the image store
    session,   \* the row of each scan; "removed" and "swept" rows are gone
    scan,      \* where each processScan is
    rescan,    \* where each rescan is
    submit,    \* where each request to create a split is
    form,      \* its scan_id
    attempt,   \* CreateSplit calls that returned an error
    splits,    \* the request whose split has each slug
    listing,   \* the clean-up has still to list the expired rows
    stale,     \* images the clean-up has still to delete
    \* history variables
    doubt,     \* scans whose row was inserted, the answer being lost
    faults,    \* scans for which a failure or a crash left an image behind
    made,      \* splits committed for each request
    unsure     \* those of them whose answer was lost

stores == <<images, session, splits>>
requests == <<scan, rescan, submit, form, attempt>>
cleanup == <<listing, stale>>
history == <<doubt, faults, made, unsure>>
vars == <<stores, requests, cleanup, history>>

HasRow(s) == session[s] \in {"live", "expired"}

Init ==
    /\ images = {}
    /\ session = [s \in Scans |-> "none"]
    /\ scan = [s \in Scans |-> "away"]
    /\ rescan = [s \in Scans |-> "away"]
    /\ submit = [b \in Submits |-> "away"]
    /\ form = [b \in Submits |-> NoScan]
    /\ attempt = [b \in Submits |-> 0]
    /\ splits = [u \in Slugs |-> Nobody]
    /\ listing = TRUE
    /\ stale = {}
    /\ doubt = {}
    /\ faults = {}
    /\ made = [b \in Submits |-> 0]
    /\ unsure = [b \in Submits |-> 0]

-----------------------------------------------------------------------------
\* The image store.

\* The delete took effect, or nothing did: then the image stays behind.
RemoveImage(s) ==
    \/ images' = images \ {s} /\ UNCHANGED faults
    \/ faults' = faults \cup {s} /\ UNCHANGED images

-----------------------------------------------------------------------------
\* processScan, once the receipt has been read.

ScanGoto(s, from, to) == scan[s] = from /\ scan' = [scan EXCEPT ![s] = to]

Upload(s) ==
    /\ \/ /\ ScanGoto(s, "away", "recording")
          /\ images' = images \cup {s}
          /\ UNCHANGED faults
       \/ ScanGoto(s, "away", "failed") /\ UNCHANGED <<images, faults>>
       \/ /\ ScanGoto(s, "away", "failed")          \* uploaded, answer lost
          /\ images' = images \cup {s}
          /\ faults' = faults \cup {s}
    /\ UNCHANGED <<session, splits, rescan, submit, form, attempt, cleanup, doubt, made, unsure>>

\* Mutant: an error of CreateScanSession is returned without deleting the image.
RecordSessionGivingUp(s) ==
    /\ \/ /\ ScanGoto(s, "recording", "shown")
          /\ session' = [session EXCEPT ![s] = "live"]
          /\ UNCHANGED doubt
       \/ ScanGoto(s, "recording", "failed") /\ UNCHANGED <<session, doubt>>
    /\ UNCHANGED <<images, splits, rescan, submit, form, attempt, cleanup, faults, made, unsure>>

RecordSession(s) ==
    /\ \/ /\ ScanGoto(s, "recording", "shown")
          /\ session' = [session EXCEPT ![s] = "live"]
          /\ UNCHANGED doubt
       \/ ScanGoto(s, "recording", "undoing") /\ UNCHANGED <<session, doubt>>
       \/ /\ ScanGoto(s, "recording", "undoing")    \* inserted, answer lost
          /\ session' = [session EXCEPT ![s] = "live"]
          /\ doubt' = doubt \cup {s}
    /\ UNCHANGED <<images, splits, rescan, submit, form, attempt, cleanup, faults, made, unsure>>

UndoUpload(s) ==
    /\ ScanGoto(s, "undoing", "failed")
    /\ RemoveImage(s)
    /\ UNCHANGED <<session, splits, rescan, submit, form, attempt, cleanup, doubt, made, unsure>>

\* expires_at passes.
Expire(s) ==
    /\ session[s] = "live"
    /\ session' = [session EXCEPT ![s] = "expired"]
    /\ UNCHANGED <<images, splits, requests, cleanup, history>>

-----------------------------------------------------------------------------
\* Rescan from the review page: the row, then the image.  Nothing is written.

RescanLoad(s) ==
    /\ scan[s] = "shown"
    /\ rescan[s] # "loaded"
    /\ rescan' = [rescan EXCEPT ![s] = IF session[s] = "live" THEN "loaded" ELSE "gone"]
    /\ UNCHANGED <<stores, scan, submit, form, attempt, cleanup, history>>

RescanFetch(s) ==
    /\ rescan[s] = "loaded"
    /\ rescan' = [rescan EXCEPT ![s] = IF s \in images THEN "read" ELSE "lost"]
    /\ UNCHANGED <<stores, scan, submit, form, attempt, cleanup, history>>

-----------------------------------------------------------------------------
\* handleWebCreateSplit and, without a scan, handleCreateSplit.

SubmitGoto(b, from, to) == submit[b] = from /\ submit' = [submit EXCEPT ![b] = to]

\* A review page may be submitted more than once.
Submit(b, s) ==
    /\ s \in Scans => scan[s] = "shown"
    /\ SubmitGoto(b, "away", "creating")
    /\ form' = [form EXCEPT ![b] = s]
    /\ UNCHANGED <<stores, scan, rescan, attempt, cleanup, history>>

\* The transaction of CreateSplit commits, with a slug nobody has.
Insert(b, u) ==
    /\ splits[u] = Nobody
    /\ splits' = [splits EXCEPT ![u] = b]
    /\ made' = [made EXCEPT ![b] = @ + 1]

\* The loop of attempts counts an error and ends after MaxAttempts.
CountError(b, onFailure) ==
    /\ attempt' = [attempt EXCEPT ![b] = @ + 1]
    /\ SubmitGoto(b, "creating", IF attempt'[b] < MaxAttempts THEN "creating" ELSE onFailure)

AfterCreate(b) == IF form[b] = NoScan THEN "answered" ELSE "unlinking"

\* Mutant: success does not leave the loop.
CreateOnAndOn(b, u) ==
    /\ submit[b] = "creating"
    /\ Insert(b, u)
    /\ attempt' = [attempt EXCEPT ![b] = @ + 1]
    /\ SubmitGoto(b, "creating", IF attempt'[b] < MaxAttempts THEN "creating" ELSE AfterCreate(b))
    /\ UNCHANGED <<images, session, scan, rescan, form, cleanup, doubt, faults, unsure>>

Create(b, u) ==
    /\ SubmitGoto(b, "creating", AfterCreate(b))
    /\ Insert(b, u)
    /\ UNCHANGED <<images, session, scan, rescan, form, attempt, cleanup, doubt, faults, unsure>>

\* Mutants: the session is deleted although no split was created; errors are
\* not counted; one attempt more than allowed.
CreateFailsUnlinking(b) ==
    /\ CountError(b, AfterCreate(b))
    /\ UNCHANGED <<stores, scan, rescan, form, cleanup, history>>

CreateFailsForEver(b) ==
    /\ submit[b] = "creating"
    /\ UNCHANGED vars

CreateFailsOnceMore(b) ==
    /\ attempt' = [attempt EXCEPT ![b] = @ + 1]
    /\ SubmitGoto(b, "creating", IF attempt[b] < MaxAttempts THEN "creating" ELSE "failed")
    /\ UNCHANGED <<stores, scan, rescan, form, cleanup, history>>

\* The slug drawn is taken, or anything else fails.
CreateFails(b) ==
    /\ CountError(b, "failed")
    /\ UNCHANGED <<stores, scan, rescan, form, cleanup, history>>

\* Committed, answer lost: an error like any other to the loop.
CreateUnsure(b, u) ==
    /\ CountError(b, "failed")
    /\ Insert(b, u)
    /\ unsure' = [unsure EXCEPT ![b] = @ + 1]
    /\ UNCHANGED <<images, session, scan, rescan, form, cleanup, doubt, faults>>

\* Mutant: the image goes before the row.
UnlinkSessionImageFirst(b) ==
    /\ SubmitGoto(b, "unlinking", "dropping")
    /\ images' = images \ {form[b]}
    /\ UNCHANGED <<session, splits, scan, rescan, form, attempt, cleanup, history>>

\* deleteScanSessionForOwner: the row, expired or not, then the image.
UnlinkSession(b) ==
    LET s == form[b] IN
    /\ submit[b] = "unlinking"
    /\ \/ /\ HasRow(s)
          /\ SubmitGoto(b, "unlinking", "dropping")
          /\ session' = [session EXCEPT ![s] = "removed"]
          /\ UNCHANGED faults
       \/ SubmitGoto(b, "unlinking", "answered") /\ UNCHANGED <<session, faults>>
       \/ /\ HasRow(s)                              \* deleted, its url lost
          /\ SubmitGoto(b, "unlinking", "answered")
          /\ session' = [session EXCEPT ![s] = "removed"]
          /\ faults' = faults \cup {s}
    /\ UNCHANGED <<images, splits, scan, rescan, form, attempt, cleanup, doubt, made, unsure>>

DropImage(b) ==
    /\ SubmitGoto(b, "dropping", "answered")
    /\ RemoveImage(form[b])
    /\ UNCHANGED <<session, splits, scan, rescan, form, attempt, cleanup, doubt, made, unsure>>

\* The slug becomes free for another split.
DeleteSplit(u) ==
    /\ splits[u] # Nobody
    /\ splits' = [splits EXCEPT ![u] = Nobody]
    /\ UNCHANGED <<images, session, requests, cleanup, history>>

-----------------------------------------------------------------------------
\* runScanCleanup, once per server start, and the crash before the next.

Expired == {s \in Scans : session[s] = "expired"}

SweepRows ==
    /\ listing
    /\ listing' = FALSE
    /\ \/ UNCHANGED <<session, stale, faults>>
       \/ /\ session' = [s \in Scans |-> IF s \in Expired THEN "swept" ELSE session[s]]
          /\ \/ stale' = Expired /\ UNCHANGED faults
             \/ faults' = faults \cup Expired /\ UNCHANGED stale   \* urls lost
    /\ UNCHANGED <<images, splits, requests, doubt, made, unsure>>

SweepImage(s) ==
    /\ s \in stale
    /\ stale' = stale \ {s}
    /\ RemoveImage(s)
    /\ UNCHANGED <<session, splits, requests, listing, doubt, made, unsure>>

\* Images in the hands of a handler between two calls.
Held ==
    {s \in Scans : scan[s] \in {"recording", "undoing"}}
        \cup {form[b] : b \in {c \in Submits : submit[c] = "dropping"}}
        \cup stale

\* The next server starts with its clean-up.
Crash ==
    /\ scan' = [s \in Scans |-> IF scan[s] \in {"recording", "undoing"} THEN "failed" ELSE scan[s]]
    /\ rescan' = [s \in Scans |-> IF rescan[s] = "loaded" THEN "away" ELSE rescan[s]]
    /\ submit' = [b \in Submits |->
                     IF submit[b] \in {"creating", "unlinking", "dropping"} THEN "crashed" ELSE submit[b]]
    /\ faults' = faults \cup Held
    /\ stale' = {}
    /\ listing' = TRUE
    /\ UNCHANGED <<stores, form, attempt, doubt, made, unsure>>

-----------------------------------------------------------------------------
Next ==
    \/ \E s \in Scans :
        \/ Upload(s) \/ RecordSession(s) \/ UndoUpload(s)
        \/ Expire(s)
        \/ RescanLoad(s) \/ RescanFetch(s)
        \/ SweepImage(s)
    \/ \E b \in Submits :
        \/ \E s \in Scans \cup {NoScan} : Submit(b, s)
        \/ \E u \in Slugs : Create(b, u) \/ CreateUnsure(b, u)
        \/ CreateFails(b)
        \/ UnlinkSession(b) \/ DropImage(b)
    \/ \E u \in Slugs : DeleteSplit(u)
    \/ SweepRows
    \/ Crash

Spec == Init /\ [][Next]_vars

\* A request being served goes on; its calls return, well or not.
Serving(b) ==
    \/ \E u \in Slugs : Create(b, u) \/ CreateUnsure(b, u)
    \/ CreateFails(b) \/ UnlinkSession(b) \/ DropImage(b)

FairSpec == Spec /\ \A b \in Submits : WF_vars(Serving(b))

-----------------------------------------------------------------------------
TypeOK ==
    /\ images \subseteq Scans
    /\ session \in [Scans -> {"none", "live", "expired", "removed", "swept"}]
    /\ scan \in [Scans -> {"away", "recording", "undoing", "shown", "failed"}]
    /\ rescan \in [Scans -> {"away", "loaded", "gone", "read", "lost"}]
    /\ submit \in [Submits -> {"away", "creating", "unlinking", "dropping",
                               "answered", "failed", "crashed"}]
    /\ form \in [Submits -> Scans \cup {NoScan}]
    /\ attempt \in [Submits -> 0..MaxAttempts]
    /\ splits \in [Slugs -> Submits \cup {Nobody}]
    /\ listing \in BOOLEAN
    /\ stale \subseteq Scans
    /\ doubt \subseteq Scans
    /\ faults \subseteq Scans
    /\ made \in [Submits -> 0..MaxAttempts]
    /\ unsure \in [Submits -> 0..MaxAttempts]

\* The image is stored before its row and deleted after it: a row without an
\* image is one whose insertion the server believes to have failed, and no page
\* shows it; a rescan that had the row and finds no image lost a race against a
\* split creation or the clean-up.
RowsKeepImages ==
    \A s \in Scans :
        /\ HasRow(s) => s \in images \cup doubt
        /\ rescan[s] = "lost" => session[s] # "live"

\* An image without a row, and in nobody's hands any more, was left there by a
\* failure or a crash: every path on which the calls succeed deletes it.  (No
\* clean-up finds the ones in faults: it starts from the rows.)
NothingLeftBehind ==
    \A s \in images : HasRow(s) \/ s \in Held \cup faults

\* The owner can submit the review page again: its session row goes only when
\* a split was created from it, or after it expired.
ReviewSurvivesFailure ==
    \A s \in Scans :
        session[s] = "removed" => \E b \in Submits : form[b] = s /\ made[b] > 0

\* The retries of one request leave one split, and one more for each commit
\* whose answer was lost; a request answered with an error leaves only those.
SplitsPerSubmit ==
    \A b \in Submits :
        /\ submit[b] \in {"creating", "failed"} => made[b] = unsure[b]
        /\ submit[b] \in {"unlinking", "dropping", "answered"} => made[b] = unsure[b] + 1

\* Retrying ends, even when every slug drawn is taken.
SubmitsEnd ==
    \A b \in Submits : (submit[b] = "creating") ~> (submit[b] \in {"answered", "failed", "crashed"})

=============================================================================
