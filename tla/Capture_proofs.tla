--------------------------- MODULE Capture_proofs ---------------------------
(***************************************************************************)
(* Scans, their images and the splits made from them, for any number of    *)
(* uploads, requests and slugs, and wherever calls fail or the server      *)
(* crashes: TypeOK and the four safety properties of Capture.              *)
(***************************************************************************)
EXTENDS Capture, TLAPS

\* How far the scan is says what may be stored for it.  Only a row whose
\* insertion was believed to fail is one no page has been shown for.
ScanInv(s) ==
    /\ scan[s] \in {"away", "recording"} => session[s] = "none"
    /\ scan[s] = "recording" => s \in images
    /\ session[s] # "none" => scan[s] = "shown" \/ s \in doubt
    /\ s \in doubt => scan[s] \in {"undoing", "failed"}
    /\ rescan[s] # "away" => scan[s] = "shown"
    /\ s \in stale => session[s] = "swept"

\* Only the review page of a scan names it; its row is deleted before its image.
FormInv(b) ==
    /\ form[b] \in Scans => scan[form[b]] = "shown"
    /\ submit[b] \in {"unlinking", "dropping"} => form[b] \in Scans
    /\ submit[b] = "dropping" => session[form[b]] = "removed"

\* A retry follows an error that was counted.
AttemptInv(b) ==
    /\ unsure[b] <= attempt[b]
    /\ submit[b] = "away" => attempt[b] = 0 /\ made[b] = 0
    /\ submit[b] = "creating" => attempt[b] < MaxAttempts

CaptureInv ==
    /\ TypeOK
    /\ \A s \in Scans : ScanInv(s)
    /\ \A b \in Submits : FormInv(b) /\ AttemptInv(b)
    /\ listing => stale = {}
    /\ RowsKeepImages
    /\ NothingLeftBehind
    /\ ReviewSurvivesFailure
    /\ SplitsPerSubmit

-----------------------------------------------------------------------------
LEMMA InitCapture == Init => CaptureInv
<1> SUFFICES ASSUME Init PROVE CaptureInv
  OBVIOUS
<1> USE AttemptsAssumption, NamesAssumption DEF Init
<1>1. TypeOK
  BY DEF TypeOK
<1>2. \A s \in Scans : ScanInv(s)
  BY DEF ScanInv
<1>3. \A b \in Submits : FormInv(b) /\ AttemptInv(b)
  BY DEF FormInv, AttemptInv
<1>4. (listing => stale = {}) /\ RowsKeepImages /\ NothingLeftBehind /\ ReviewSurvivesFailure /\ SplitsPerSubmit
  BY DEF RowsKeepImages, NothingLeftBehind, ReviewSurvivesFailure, SplitsPerSubmit, HasRow
<1> QED
  BY <1>1, <1>2, <1>3, <1>4 DEF CaptureInv

\* processScan, rescans and the sweeping of one image: no request is disturbed.
LEMMA ScanTypes ==
  ASSUME CaptureInv, NEW s \in Scans,
         \/ Upload(s) \/ RecordSession(s) \/ UndoUpload(s) \/ Expire(s)
         \/ RescanLoad(s) \/ RescanFetch(s) \/ SweepImage(s)
  PROVE  TypeOK' /\ (listing => stale = {})'
<1> USE DEF CaptureInv, TypeOK, stores, requests, cleanup, history, ScanGoto, RemoveImage
<1>1. CASE Upload(s)
  BY <1>1 DEF Upload
<1>2. CASE RecordSession(s)
  BY <1>2 DEF RecordSession
<1>3. CASE UndoUpload(s)
  BY <1>3 DEF UndoUpload
<1>4. CASE Expire(s)
  BY <1>4 DEF Expire
<1>5. CASE RescanLoad(s)
  BY <1>5 DEF RescanLoad
<1>6. CASE RescanFetch(s)
  BY <1>6 DEF RescanFetch
<1>7. CASE SweepImage(s)
  BY <1>7 DEF SweepImage
<1> QED
  BY <1>1, <1>2, <1>3, <1>4, <1>5, <1>6, <1>7

\* Each step of the scan keeps what its row and its image promise.
LEMMA ScanRows ==
  ASSUME CaptureInv, NEW s \in Scans,
         \/ Upload(s) \/ RecordSession(s) \/ UndoUpload(s) \/ Expire(s)
         \/ RescanLoad(s) \/ RescanFetch(s) \/ SweepImage(s)
  PROVE  (\A r \in Scans : ScanInv(r))' /\ RowsKeepImages'
<1> USE DEF CaptureInv, TypeOK, ScanInv, RowsKeepImages, HasRow, stores, requests, cleanup, history,
            ScanGoto, RemoveImage
<1>1. CASE Upload(s)
  BY <1>1 DEF Upload
<1>2. CASE RecordSession(s)
  BY <1>2 DEF RecordSession
<1>3. CASE UndoUpload(s)
  BY <1>3 DEF UndoUpload
<1>4. CASE Expire(s)
  BY <1>4 DEF Expire
<1>5. CASE RescanLoad(s)
  BY <1>5 DEF RescanLoad
<1>6. CASE RescanFetch(s)
  BY <1>6 DEF RescanFetch
<1>7. CASE SweepImage(s)
  BY <1>7 DEF SweepImage
<1> QED
  BY <1>1, <1>2, <1>3, <1>4, <1>5, <1>6, <1>7

\* An image is handed on, deleted or counted among the faults.
LEMMA ScanImages ==
  ASSUME CaptureInv, NEW s \in Scans,
         \/ Upload(s) \/ RecordSession(s) \/ UndoUpload(s) \/ Expire(s)
         \/ RescanLoad(s) \/ RescanFetch(s) \/ SweepImage(s)
  PROVE  NothingLeftBehind'
<1> USE DEF CaptureInv, TypeOK, NothingLeftBehind, Held, HasRow, stores, requests, cleanup, history,
            ScanGoto, RemoveImage
<1>1. CASE Upload(s)
  BY <1>1 DEF Upload
<1>2. CASE RecordSession(s)
  BY <1>2 DEF RecordSession
<1>3. CASE UndoUpload(s)
  BY <1>3 DEF UndoUpload
<1>4. CASE Expire(s)
  BY <1>4 DEF Expire
<1>5. CASE RescanLoad(s)
  BY <1>5 DEF RescanLoad
<1>6. CASE RescanFetch(s)
  BY <1>6 DEF RescanFetch
<1>7. CASE SweepImage(s)
  BY <1>7 DEF SweepImage
<1> QED
  BY <1>1, <1>2, <1>3, <1>4, <1>5, <1>6, <1>7

\* The scan a form names has been shown, and a removed row is not written again.
LEMMA ScanRequests ==
  ASSUME CaptureInv, NEW s \in Scans,
         \/ Upload(s) \/ RecordSession(s) \/ UndoUpload(s) \/ Expire(s)
         \/ RescanLoad(s) \/ RescanFetch(s) \/ SweepImage(s)
  PROVE  /\ (\A b \in Submits : FormInv(b) /\ AttemptInv(b))'
         /\ ReviewSurvivesFailure' /\ SplitsPerSubmit'
<1>1. UNCHANGED <<submit, form, attempt, made, unsure>>
  BY DEF Upload, RecordSession, UndoUpload, Expire, RescanLoad, RescanFetch, SweepImage, stores, requests, history
<1>2. \A r \in Scans : /\ scan[r] = "shown" => scan'[r] = "shown"
                       /\ session'[r] = "removed" <=> session[r] = "removed"
  BY DEF CaptureInv, TypeOK, ScanInv, Upload, RecordSession, UndoUpload, Expire, RescanLoad, RescanFetch, SweepImage,
         stores, requests, ScanGoto
<1> QED
  BY <1>1, <1>2 DEF CaptureInv, FormInv, AttemptInv, ReviewSurvivesFailure, SplitsPerSubmit

LEMMA ScanCapture ==
  ASSUME CaptureInv, NEW s \in Scans,
         \/ Upload(s) \/ RecordSession(s) \/ UndoUpload(s) \/ Expire(s)
         \/ RescanLoad(s) \/ RescanFetch(s) \/ SweepImage(s)
  PROVE  CaptureInv'
BY ScanTypes, ScanRows, ScanImages, ScanRequests DEF CaptureInv

-----------------------------------------------------------------------------
\* Creating a split touches neither scan nor image: the requests and the counts.
LEMMA CreateCapture ==
  ASSUME CaptureInv, NEW b \in Submits,
         \/ \E s \in Scans \cup {NoScan} : Submit(b, s)
         \/ \E u \in Slugs : Create(b, u) \/ CreateUnsure(b, u)
         \/ CreateFails(b)
  PROVE  CaptureInv'
<1>1. UNCHANGED <<images, session, scan, rescan, cleanup, doubt, faults>>
  BY DEF Submit, Create, CreateUnsure, CreateFails, stores, history
<1>2. TypeOK' /\ \A c \in Submits : (FormInv(c) /\ AttemptInv(c))'
  <2> USE AttemptsAssumption, NamesAssumption
      DEF CaptureInv, TypeOK, FormInv, AttemptInv, SplitsPerSubmit, AfterCreate, Insert, CountError, SubmitGoto, cleanup, stores, history
  <2>1. ASSUME NEW s \in Scans \cup {NoScan}, Submit(b, s)
        PROVE  TypeOK' /\ \A c \in Submits : (FormInv(c) /\ AttemptInv(c))'
    <3>1. TypeOK'
      BY <2>1, <1>1 DEF Submit
    <3>2. (\A c \in Submits : FormInv(c))'
      BY <2>1, <1>1 DEF Submit
    <3>3. (\A c \in Submits : AttemptInv(c))'
      BY <2>1, <1>1 DEF Submit
    <3> QED
      BY <3>1, <3>2, <3>3
  <2>2. CASE \E u \in Slugs : Create(b, u)
    BY <2>2, <1>1 DEF Create
  <2>3. CASE \E u \in Slugs : CreateUnsure(b, u)
    BY <2>3, <1>1 DEF CreateUnsure
  <2>4. CASE CreateFails(b)
    BY <2>4, <1>1 DEF CreateFails
  <2> QED
    BY <2>1, <2>2, <2>3, <2>4
<1>3. ReviewSurvivesFailure' /\ SplitsPerSubmit'
  <2> USE AttemptsAssumption, NamesAssumption
      DEF CaptureInv, TypeOK, AttemptInv, SplitsPerSubmit, ReviewSurvivesFailure, AfterCreate, Insert, CountError, SubmitGoto, stores, history
  <2>1. CASE \E s \in Scans \cup {NoScan} : Submit(b, s)
    BY <2>1, <1>1 DEF Submit
  <2>2. CASE \E u \in Slugs : Create(b, u)
    BY <2>2, <1>1 DEF Create
  <2>3. CASE \E u \in Slugs : CreateUnsure(b, u)
    BY <2>3, <1>1 DEF CreateUnsure
  <2>4. CASE CreateFails(b)
    BY <2>4, <1>1 DEF CreateFails
  <2> QED
    BY <2>1, <2>2, <2>3, <2>4
<1>4. \A c \in Submits : submit[c] = "dropping" => submit'[c] = "dropping" /\ form'[c] = form[c]
  BY DEF CaptureInv, TypeOK, Submit, Create, CreateUnsure, CreateFails, CountError, SubmitGoto
<1> QED
  BY <1>1, <1>2, <1>3, <1>4 DEF CaptureInv, ScanInv, RowsKeepImages, NothingLeftBehind, Held, HasRow, cleanup

\* The row goes before the image, and only because a split was made.
LEMMA UnlinkCapture ==
  ASSUME CaptureInv, NEW b \in Submits, UnlinkSession(b) \/ DropImage(b)
  PROVE  CaptureInv'
<1>1. UNCHANGED <<splits, scan, rescan, form, attempt, cleanup, doubt, made, unsure>>
  BY DEF UnlinkSession, DropImage
<1>2. form[b] \in Scans /\ scan[form[b]] = "shown" /\ form[b] \notin doubt
  BY DEF CaptureInv, FormInv, ScanInv, UnlinkSession, DropImage, SubmitGoto
<1>3. TypeOK' /\ (listing => stale = {})' /\ (\A s \in Scans : ScanInv(s))' /\ RowsKeepImages'
  <2> USE <1>1, <1>2 DEF CaptureInv, TypeOK, ScanInv, RowsKeepImages, HasRow, SubmitGoto, RemoveImage, cleanup
  <2>1. CASE UnlinkSession(b)
    BY <2>1 DEF UnlinkSession
  <2>2. CASE DropImage(b)
    BY <2>2 DEF DropImage, FormInv
  <2> QED
    BY <2>1, <2>2
<1>4. NothingLeftBehind'
  <2> USE <1>1, <1>2 DEF CaptureInv, TypeOK, NothingLeftBehind, Held, HasRow, SubmitGoto, RemoveImage, cleanup
  <2>1. CASE UnlinkSession(b)
    BY <2>1 DEF UnlinkSession
  <2>2. CASE DropImage(b)
    BY <2>2 DEF DropImage
  <2> QED
    BY <2>1, <2>2
<1>5. (\A c \in Submits : FormInv(c) /\ AttemptInv(c))' /\ ReviewSurvivesFailure' /\ SplitsPerSubmit'
  <2> USE <1>1, <1>2 DEF CaptureInv, TypeOK, FormInv, AttemptInv, ReviewSurvivesFailure, SplitsPerSubmit, SubmitGoto
  <2>1. CASE UnlinkSession(b)
    BY <2>1 DEF UnlinkSession
  <2>2. CASE DropImage(b)
    BY <2>2 DEF DropImage
  <2> QED
    BY <2>1, <2>2
<1> QED
  BY <1>3, <1>4, <1>5 DEF CaptureInv

-----------------------------------------------------------------------------
LEMMA DeleteCapture ==
  ASSUME CaptureInv, NEW u \in Slugs, DeleteSplit(u)
  PROVE  CaptureInv'
BY DEF DeleteSplit, CaptureInv, TypeOK, ScanInv, FormInv, AttemptInv, RowsKeepImages, NothingLeftBehind, Held, HasRow,
       ReviewSurvivesFailure, SplitsPerSubmit, requests, cleanup, history

\* The clean-up takes expired rows only, and their images are its to delete or
\* lost with the answer.
LEMMA SweepCapture == ASSUME CaptureInv, SweepRows PROVE CaptureInv'
<1>1. UNCHANGED <<images, splits, requests, doubt, made, unsure>>
  BY DEF SweepRows
<1>2. \A s \in Scans : session'[s] = session[s] \/ (session[s] = "expired" /\ session'[s] = "swept")
  BY DEF CaptureInv, TypeOK, SweepRows, Expired
<1>3. TypeOK' /\ (listing => stale = {})'
  <2>1. session' \in [Scans -> {"none", "live", "expired", "removed", "swept"}]
    BY DEF CaptureInv, TypeOK, SweepRows
  <2>2. stale' \subseteq Scans /\ faults' \subseteq Scans
    BY DEF CaptureInv, TypeOK, SweepRows, Expired
  <2>3. listing' = FALSE
    BY DEF SweepRows
  <2> QED
    BY <1>1, <2>1, <2>2, <2>3 DEF CaptureInv, TypeOK, requests
<1>4. (\A s \in Scans : ScanInv(s))'
  BY <1>1, <1>2 DEF CaptureInv, TypeOK, ScanInv, SweepRows, Expired, requests
<1>5. (\A b \in Submits : FormInv(b) /\ AttemptInv(b))' /\ ReviewSurvivesFailure' /\ SplitsPerSubmit'
  BY <1>1, <1>2 DEF CaptureInv, TypeOK, FormInv, AttemptInv, ReviewSurvivesFailure, SplitsPerSubmit, requests
<1>6. RowsKeepImages'
  BY <1>1, <1>2 DEF CaptureInv, RowsKeepImages, HasRow, requests
<1>7. NothingLeftBehind'
  BY <1>1, <1>2 DEF CaptureInv, TypeOK, NothingLeftBehind, Held, HasRow, SweepRows, Expired, ScanInv, requests
<1> QED
  BY <1>3, <1>4, <1>5, <1>6, <1>7 DEF CaptureInv

\* A crash loses what handlers held, never a row.
LEMMA CrashCapture == ASSUME CaptureInv, Crash PROVE CaptureInv'
<1>1. UNCHANGED <<images, session, splits, form, attempt, doubt, made, unsure>>
  BY DEF Crash, stores
<1>2. TypeOK' /\ (listing => stale = {})'
  BY <1>1 DEF CaptureInv, TypeOK, FormInv, Crash, Held
<1>3. (\A s \in Scans : ScanInv(s))' /\ RowsKeepImages'
  BY <1>1 DEF CaptureInv, TypeOK, ScanInv, RowsKeepImages, HasRow, Crash
<1>4. (\A b \in Submits : FormInv(b) /\ AttemptInv(b))' /\ ReviewSurvivesFailure' /\ SplitsPerSubmit'
  BY <1>1 DEF CaptureInv, TypeOK, FormInv, AttemptInv, ReviewSurvivesFailure, SplitsPerSubmit, Crash
<1>5. NothingLeftBehind'
  BY <1>1 DEF CaptureInv, NothingLeftBehind, HasRow, Crash
<1> QED
  BY <1>2, <1>3, <1>4, <1>5 DEF CaptureInv

LEMMA NextCapture == CaptureInv /\ [Next]_vars => CaptureInv'
<1> SUFFICES ASSUME CaptureInv, [Next]_vars PROVE CaptureInv'
  OBVIOUS
<1>1. CASE UNCHANGED vars
  BY <1>1 DEF vars, stores, requests, cleanup, history, CaptureInv, TypeOK, ScanInv, FormInv, AttemptInv,
              RowsKeepImages, NothingLeftBehind, Held, HasRow, ReviewSurvivesFailure, SplitsPerSubmit
<1> QED
  BY <1>1, ScanCapture, CreateCapture, UnlinkCapture, DeleteCapture, SweepCapture, CrashCapture DEF Next

LEMMA CaptureInvariant == Spec => []CaptureInv
BY InitCapture, NextCapture, PTL DEF Spec

-----------------------------------------------------------------------------
\* Attempts are bounded and every handler is where the code can be.
THEOREM CaptureTypes == Spec => []TypeOK
<1>1. CaptureInv => TypeOK
  BY DEF CaptureInv
<1> QED
  BY CaptureInvariant, <1>1, PTL

\* Wherever calls fail and the server crashes, a scan whose review page was
\* shown keeps its image as long as its row, and a rescan that lost its image
\* lost it together with the row.
THEOREM RowsHaveImages == Spec => []RowsKeepImages
<1>1. CaptureInv => RowsKeepImages
  BY DEF CaptureInv
<1> QED
  BY CaptureInvariant, <1>1, PTL

\* An image that no row names is in the hands of a handler, or a failure or a
\* crash left it: no order of successful calls does.
THEOREM ImagesAccountedFor == Spec => []NothingLeftBehind
<1>1. CaptureInv => NothingLeftBehind
  BY DEF CaptureInv
<1> QED
  BY CaptureInvariant, <1>1, PTL

\* The row of an unexpired scan goes only after a split was made from it, so a
\* failed submit can be repeated.
THEOREM ReviewCanBeRepeated == Spec => []ReviewSurvivesFailure
<1>1. CaptureInv => ReviewSurvivesFailure
  BY DEF CaptureInv
<1> QED
  BY CaptureInvariant, <1>1, PTL

\* However often its creation is tried again, a request leaves one split and
\* one for each commit whose answer was lost.
THEOREM OneSplitPerSubmit == Spec => []SplitsPerSubmit
<1>1. CaptureInv => SplitsPerSubmit
  BY DEF CaptureInv
<1> QED
  BY CaptureInvariant, <1>1, PTL

=============================================================================
