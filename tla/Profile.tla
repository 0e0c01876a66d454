------------------------------- MODULE Profile -------------------------------
(***************************************************************************)
(* An owner's profile row and DuitNow QR image, the set-up form, the       *)
(* settings and the gates on creating a split, for requests that overlap   *)
(* (tabs, double submits) and fail at any call.  The image is stored at    *)
(* one path per owner, so every upload has the same URL.                   *)
(***************************************************************************)
EXTENDS Naturals

CONSTANT Requests  \* requests in progress

VARIABLES
    row,     \* what the owner_profiles row has; nothing when there is none
    bucket,  \* the images the owner has in the duitnow-qr bucket
    splits,  \* what kinds of split there are: with a URL of their own or without
    req,     \* the requests: how far each is, what it has
    nav,     \* where the owner's browser is, or is being redirected to
    hops     \* the redirects of pages it has followed on the way, up to MaxHops

browser == <<nav, hops>>
pvars == <<row, bucket, splits, req, browser>>

MaxHops == 3

\* Auto-fill is on unless turned off; "seen" is onboarding_seen_at.
Columns == {"name", "qr", "autoOff", "seen"}

\* A request has a file in its form, a QR in the profile it read, an image's URL.
Stages == {"idle", "setup", "setupSaving", "upload", "uploadSaving", "naming", "creating"}
Assets == {"file", "qr", "url"}
NoRequest == [at |-> "idle", has |-> {}]

Places == {"away", "toCapture", "capture", "toSetup", "setup", "toReview", "review", "error"}

HasQR == "qr" \in row
HasImage == "qr.jpg" \in bucket
Ready == "name" \in row /\ HasQR

PInit ==
    /\ row = {}
    /\ bucket = {}
    /\ splits = {}
    /\ req = [r \in Requests |-> NoRequest]
    /\ nav = "away"
    /\ hops = 0

Step(r, stage) == req' = [req EXCEPT ![r].at = stage]
Done(r) == req' = [req EXCEPT ![r] = NoRequest]

\* The browser leaves for a place, whatever it was doing.
GoTo(place) ==
    /\ nav' = place
    /\ hops' = 0

\* Whether a friend of the split is given a URL.
OwnerQRForSplit(split) == split = "own" \/ HasQR

-----------------------------------------------------------------------------
\* The set-up form: handleWebSetupPost.

\* The form has a name; the profile is read before the file is.
SetupPost(r, form) ==
    /\ req[r].at = "idle"
    /\ req' = [req EXCEPT ![r] = [at |-> "setup", has |-> form \union (row \intersect {"qr"})]]
    /\ UNCHANGED <<row, bucket, splits, browser>>

\* Mutant: the storage's refusal is not looked at.
UploadUnchecked(r, from, to) ==
    /\ req[r].at = from
    /\ "file" \in req[r].has
    /\ bucket' \in {bucket, {"qr.jpg"}}
    /\ req' = [req EXCEPT ![r].at = to, ![r].has = @ \union {"url"}]
    /\ UNCHANGED <<row, splits, browser>>

\* uploadDuitNowQR, and the URL it returns.
Upload(r, from, to) ==
    /\ req[r].at = from
    /\ "file" \in req[r].has
    /\ bucket' = {"qr.jpg"}
    /\ req' = [req EXCEPT ![r].at = to, ![r].has = @ \union {"url"}]
    /\ UNCHANGED <<row, splits, browser>>

\* Without a file the QR of the profile will do, if it has one.
SetupKeeping(r) ==
    /\ req[r].at = "setup"
    /\ "file" \notin req[r].has
    /\ "qr" \in req[r].has
    /\ Step(r, "setupSaving")
    /\ UNCHANGED <<row, bucket, splits, browser>>

\* "DuitNow QR is required".
SetupRefused(r) ==
    /\ req[r].at = "setup"
    /\ "file" \notin req[r].has
    /\ "qr" \notin req[r].has
    /\ Done(r)
    /\ GoTo("toSetup")
    /\ UNCHANGED <<row, bucket, splits>>

\* The owner_qr_url a request writes.
UrlOf(r) == IF "url" \in req[r].has THEN {"qr"} ELSE {}

\* Mutant: the form's URL replaces the profile's, given or not.
SetOwnerProfileBlank(r) ==
    /\ req[r].at = "setupSaving"
    /\ row' = (row \ {"qr"}) \union {"name", "seen"} \union UrlOf(r)
    /\ Done(r)
    /\ GoTo("toCapture")
    /\ UNCHANGED <<bucket, splits>>

\* One upsert: a URL the form does not give is kept, and the walkthrough counts
\* as seen.  Without its answer the browser is shown an error.
SetOwnerProfile(r) ==
    /\ req[r].at = "setupSaving"
    /\ row' = row \union {"name", "seen"} \union UrlOf(r)
    /\ Done(r)
    /\ GoTo("toCapture") \/ UNCHANGED browser
    /\ UNCHANGED <<bucket, splits>>

-----------------------------------------------------------------------------
\* Settings, of the pages and of the JSON API.

SetOwnerDisplayName ==
    /\ row' = row \union {"name"}
    /\ UNCHANGED <<bucket, splits, req, browser>>

SetAutoFillAmount(auto) ==
    /\ row' = IF auto THEN row \ {"autoOff"} ELSE row \union {"autoOff"}
    /\ UNCHANGED <<bucket, splits, req, browser>>

MarkOnboardingSeen ==
    /\ row' = row \union {"seen"}
    /\ UNCHANGED <<bucket, splits, req, browser>>

\* handleWebUploadQR and handleUploadDuitNowQR: upload, then save the URL.
UploadQR(r) ==
    /\ req[r].at = "idle"
    /\ req' = [req EXCEPT ![r] = [at |-> "upload", has |-> {"file"}]]
    /\ UNCHANGED <<row, bucket, splits, browser>>

SetOwnerQRURL(r) ==
    /\ req[r].at = "uploadSaving"
    /\ row' = (row \ {"qr"}) \union UrlOf(r)
    /\ Done(r)
    /\ GoTo("toCapture") \/ UNCHANGED browser
    /\ UNCHANGED <<bucket, splits>>

-----------------------------------------------------------------------------
\* Creating a split.

\* handleWebCreateSplit wants the profile ready, and reads it a second time;
\* one that is not ready goes to the set-up page.
CreateWeb(r) ==
    /\ req[r].at = "idle"
    /\ IF Ready
       THEN Step(r, "naming") /\ UNCHANGED browser
       ELSE GoTo("toSetup") /\ UNCHANGED req
    /\ UNCHANGED <<row, bucket, splits>>

\* An error of the second read leaves the split without a URL.
ReadName(r, fails) ==
    /\ req[r].at = "naming"
    /\ req' = [req EXCEPT ![r] =
            [at |-> "creating", has |-> IF HasQR /\ ~fails THEN {"url"} ELSE {}]]
    /\ UNCHANGED <<row, bucket, splits, browser>>

\* handleCreateSplit wants a QR only, and passes on what it has read.
CreateApi(r) ==
    /\ req[r].at = "idle"
    /\ HasQR
    /\ req' = [req EXCEPT ![r] = [at |-> "creating", has |-> {"url"}]]
    /\ UNCHANGED <<row, bucket, splits, browser>>

CreateSplit(r) ==
    /\ req[r].at = "creating"
    /\ splits' = splits \union {IF "url" \in req[r].has THEN "own" ELSE "none"}
    /\ Done(r)
    /\ UNCHANGED <<row, bucket, browser>>

\* Any call fails, the rest of the form is refused, or the process ends: what
\* was done stays, and the browser may be sent back.
CallFails(r) ==
    /\ req[r].at # "idle"
    /\ Done(r)
    /\ GoTo("toSetup") \/ GoTo("toCapture") \/ UNCHANGED browser
    /\ UNCHANGED <<row, bucket, splits>>

\* The storage keeps the image but its answer is lost.
UploadLost(r) ==
    /\ req[r].at \in {"setup", "upload"}
    /\ "file" \in req[r].has
    /\ bucket' = {"qr.jpg"}
    /\ Done(r)
    /\ UNCHANGED <<row, splits, browser>>

-----------------------------------------------------------------------------
\* The owner's browser, which follows redirects.

\* With ?edit the set-up form is shown whatever the profile has.
Visit(place) ==
    /\ GoTo(place)
    /\ UNCHANGED <<row, bucket, splits, req>>

Serves(page) ==
    /\ nav' = page
    /\ hops' = 0
    /\ UNCHANGED <<row, bucket, splits, req>>

Redirects(place) ==
    /\ nav' = place
    /\ hops' = IF hops < MaxHops THEN hops + 1 ELSE hops
    /\ UNCHANGED <<row, bucket, splits, req>>

\* handleWebCapture; handleWebManualReview and handleWebScan have the same gate.
ServeGated(place, page) ==
    /\ nav = place
    /\ \/ Ready /\ Serves(page)
       \/ ~Ready /\ Redirects("toSetup")

\* Mutant: a profile with a QR needs no set-up.
ServeSetupForQR ==
    /\ nav = "toSetup"
    /\ \/ HasQR /\ Redirects("toCapture")
       \/ ~HasQR /\ Serves("setup")

\* handleWebSetupGet.
ServeSetup ==
    /\ nav = "toSetup"
    /\ \/ Ready /\ Redirects("toCapture")
       \/ ~Ready /\ Serves("setup")

\* The profile cannot be read.
ServeError ==
    /\ nav \in {"toCapture", "toSetup", "toReview"}
    /\ Serves("error")

-----------------------------------------------------------------------------
PNext ==
    \/ SetOwnerDisplayName \/ MarkOnboardingSeen
    \/ \E auto \in BOOLEAN : SetAutoFillAmount(auto)
    \/ \E place \in {"toCapture", "toSetup", "toReview", "setup"} : Visit(place)
    \/ ServeGated("toCapture", "capture") \/ ServeGated("toReview", "review")
    \/ ServeSetup \/ ServeError
    \/ \E r \in Requests :
        \/ \E form \in SUBSET {"file"} : SetupPost(r, form)
        \/ Upload(r, "setup", "setupSaving") \/ SetupKeeping(r) \/ SetupRefused(r)
        \/ SetOwnerProfile(r)
        \/ UploadQR(r) \/ Upload(r, "upload", "uploadSaving") \/ SetOwnerQRURL(r)
        \/ CreateWeb(r) \/ CreateApi(r) \/ CreateSplit(r)
        \/ \E fails \in BOOLEAN : ReadName(r, fails)
        \/ CallFails(r) \/ UploadLost(r)

PSpec == PInit /\ [][PNext]_pvars

-----------------------------------------------------------------------------
\* Type correctness.  A URL is in the row, or in a request's hands, only once the
\* storage holds an image there: uploadDuitNowQR returns none before.
PTypeOK ==
    /\ row \subseteq Columns
    /\ bucket \subseteq {"qr.jpg"}
    /\ splits \subseteq {"own", "none"}
    /\ req \in [Requests -> [at : Stages, has : SUBSET Assets]]
    /\ nav \in Places
    /\ hops \in 0 .. MaxHops
    /\ HasQR => HasImage
    /\ \A r \in Requests : "url" \in req[r].has => HasImage

\* ownerQRForSplit: a friend paying any split is shown a QR code and there is an
\* image behind it, whatever set-ups, uploads and failures the split was created
\* among, the second read of the profile included.
FriendsSeeQr == \A split \in splits : OwnerQRForSplit(split) /\ HasImage

\* The pages behind the gates and the set-up page never send the browser round in
\* a circle: two redirects at most, though the profile changes between them.
RedirectsEnd == hops < MaxHops

=============================================================================
