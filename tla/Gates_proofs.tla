---------------------------- MODULE Gates_proofs ----------------------------
(***************************************************************************)
(* The two gates an owner's request passes: the signing key cache, by      *)
(* which requireAuth knows the owner, and the profile, without which no    *)
(* split is created.  They share nothing; neither needs more than its own  *)
(* invariant.                                                              *)
(***************************************************************************)
EXTENDS Jwks, Profile, TLAPS

-----------------------------------------------------------------------------
\* The cache for any keys, any number of concurrent lookups and any window: what
\* it holds is well-formed, and refreshes are spaced.

\* While the throttle is on, every refresh under way began before the cache was
\* last set.
UnderWayBefore == age < Window => Refreshing \subseteq flying

SpacingInv == TypeOK /\ UnderWayBefore

LEMMA InitSpacing == Init => SpacingInv
<1> SUFFICES ASSUME Init PROVE SpacingInv
  OBVIOUS
<1> USE WindowAssumption DEF Init, SpacingInv
<1>1. TypeOK
  BY DEF TypeOK, States, Refreshing
<1>2. UnderWayBefore
  BY DEF UnderWayBefore
<1> QED
  BY <1>1, <1>2

\* One case per action: only Miss adds to the refreshes under way, and it waits
\* for the throttle; only Install turns the throttle on, and it notes them all.
LEMMA NextSpacing == SpacingInv /\ [Next]_vars => SpacingInv'
<1> SUFFICES ASSUME SpacingInv, [Next]_vars PROVE SpacingInv'
  OBVIOUS
<1> USE WindowAssumption DEF SpacingInv, TypeOK, UnderWayBefore, Refreshing, States
<1>1. CASE Rotate
  BY <1>1 DEF Rotate, cache, lookup
<1>2. CASE Tick
  BY <1>2 DEF Tick, lookup, history
<1>3. ASSUME NEW l \in Lookups, Arrive(l) PROVE SpacingInv'
  BY <1>3 DEF Arrive, cache, history
<1>4. ASSUME NEW l \in Lookups, Miss(l) PROVE SpacingInv'
  BY <1>4 DEF Miss, Throttled, cache
<1>5. ASSUME NEW l \in Lookups, Answer(l) PROVE SpacingInv'
  BY <1>5 DEF Answer, cache, history
<1>6. ASSUME NEW l \in Lookups, Fail(l) PROVE SpacingInv'
  BY <1>6 DEF Fail
<1>7. ASSUME NEW l \in Lookups, Install(l) PROVE SpacingInv'
  BY <1>7 DEF Install
<1>8. ASSUME NEW l \in Lookups, Reread(l) PROVE SpacingInv'
  BY <1>8 DEF Reread, cache
<1>9. CASE UNCHANGED vars
  BY <1>9 DEF vars, cache, lookup, history
<1> QED
  BY <1>1, <1>2, <1>3, <1>4, <1>5, <1>6, <1>7, <1>8, <1>9 DEF Next

\* The cache is well-formed and, once filled, never empty, for any number of
\* lookups refreshing it at once.
THEOREM CacheTypeCorrect == Spec => []TypeOK
<1>1. SpacingInv => TypeOK
  BY DEF SpacingInv
<1> QED
  BY InitSpacing, NextSpacing, <1>1, PTL DEF Spec

\* Refreshes are rate-limited however many lookups miss at once: within a window
\* of the last one only those already under way then still set the cache.
THEOREM SpacedInstalls == Spec => InstallsSpaced
<1>1. SpacingInv => (\A l \in Lookups : Install(l) /\ age < Window => l \in flying)
  BY DEF SpacingInv, UnderWayBefore, Install, Refreshing
<1>2. SpacingInv /\ [Next]_vars
        => [\A l \in Lookups : Install(l) /\ age < Window => l \in flying]_vars
  BY <1>1
<1> QED
  BY InitSpacing, NextSpacing, <1>2, PTL DEF Spec, InstallsSpaced

-----------------------------------------------------------------------------
\* What a lookup may rely on whose key has been published since it began: every
\* answer given since then holds the key, and so does the cache once its own
\* answer is in it, unless an older one came after.
SteadyInv ==
    /\ SpacingInv
    /\ \A l \in Lookups :
        /\ l \notin early[l]
        /\ \A m \in early[l] : pc[m] = "answered"
        /\ steady[l] =>
            /\ pc[l] # "idle"
            /\ kid[l] \in published
            /\ \A m \in Lookups \ early[l] : pc[m] = "answered" => kid[l] \in doc[m]
            /\ pc[l] = "installed" /\ ~stale[l] => kid[l] \in keys

LEMMA InitSteady == Init => SteadyInv
  BY InitSpacing DEF Init, SteadyInv

LEMMA NextSteady == SteadyInv /\ [Next]_vars => SteadyInv'
<1> SUFFICES ASSUME SteadyInv, [Next]_vars PROVE SteadyInv'
  OBVIOUS
<1> SpacingInv'
  BY NextSpacing DEF SteadyInv
<1> USE DEF SteadyInv, SpacingInv, TypeOK, States, Refreshing
<1>1. CASE Rotate
  BY <1>1 DEF Rotate, cache, lookup
<1>2. CASE Tick
  BY <1>2 DEF Tick, lookup, history
<1>3. ASSUME NEW l \in Lookups, Arrive(l) PROVE SteadyInv'
  BY <1>3 DEF Arrive, cache, history
<1>4. ASSUME NEW l \in Lookups, Miss(l) PROVE SteadyInv'
  BY <1>4 DEF Miss, cache
<1>5. ASSUME NEW l \in Lookups, Answer(l) PROVE SteadyInv'
  BY <1>5 DEF Answer, cache, history
<1>6. ASSUME NEW l \in Lookups, Fail(l) PROVE SteadyInv'
  BY <1>6 DEF Fail
<1>7. ASSUME NEW l \in Lookups, Install(l) PROVE SteadyInv'
  BY <1>7 DEF Install
<1>8. ASSUME NEW l \in Lookups, Reread(l) PROVE SteadyInv'
  BY <1>8 DEF Reread, cache
<1>9. CASE UNCHANGED vars
  BY <1>9 DEF vars, cache, lookup, history
<1> QED
  BY <1>1, <1>2, <1>3, <1>4, <1>5, <1>6, <1>7, <1>8, <1>9 DEF Next

\* An owner whose key is published all along is turned away only if an answer
\* from before the lookup overwrote a later one, however many lookups overlap.
THEOREM ExcusedRejections == Spec => RejectionsExcused
<1> DEFINE Excused == \A l \in Lookups : Reread(l) /\ steady[l] /\ kid[l] \notin keys => stale[l]
<1>1. SteadyInv /\ [Next]_vars => [Excused]_vars
  BY DEF SteadyInv, Reread
<1> QED
  BY InitSteady, NextSteady, <1>1, PTL DEF Spec, RejectionsExcused

-----------------------------------------------------------------------------
\* The profile for any number of overlapping requests: friends always have a QR
\* code to pay to, and the pages never redirect in a circle.

\* What a request knows: the URL it saves it has, the QR it read about is still
\* there.
Holds(r) ==
    /\ req[r].at = "uploadSaving" => "url" \in req[r].has
    /\ req[r].at \in {"naming", "creating"} \/ "qr" \in req[r].has => HasQR
    /\ req[r].at = "setupSaving" => req[r].has \intersect {"url", "qr"} # {}

\* A ready profile stays ready, so a browser that was redirected twice is on its
\* way to a page it will be shown.
Circling ==
    /\ hops = 1 => nav = "toSetup" \/ (nav = "toCapture" /\ Ready)
    /\ hops = 2 => nav = "toCapture" /\ Ready
    /\ hops < MaxHops

ProfileInv ==
    /\ PTypeOK
    /\ \A r \in Requests : Holds(r)
    /\ splits # {} => HasQR
    /\ Circling

LEMMA InitProfile == PInit => ProfileInv
  BY DEF PInit, ProfileInv, PTypeOK, Holds, Circling, Columns, Assets, NoRequest, Stages, Places, HasQR, HasImage, Ready, MaxHops

\* The browser's moves change no data.
LEMMA BrowserProfile ==
  ASSUME ProfileInv,
         \/ \E place \in {"toCapture", "toSetup", "toReview", "setup"} : Visit(place)
         \/ ServeGated("toCapture", "capture") \/ ServeGated("toReview", "review")
         \/ ServeSetup \/ ServeError
  PROVE  ProfileInv'
<1>1. UNCHANGED <<row, bucket, splits, req>>
  BY DEF Visit, ServeGated, ServeSetup, ServeError, Serves, Redirects
<1>2. nav' \in Places /\ hops' \in 0 .. MaxHops /\ Circling'
  <2> hops \in {0, 1, 2}
    BY DEF ProfileInv, PTypeOK, Circling, MaxHops
  <2> Ready' <=> Ready
    BY <1>1 DEF Ready, HasQR
  <2> USE DEF ProfileInv, Circling, Places, MaxHops
  <2>1. ASSUME NEW place \in {"toCapture", "toSetup", "toReview", "setup"}, GoTo(place)
        PROVE  nav' \in Places /\ hops' \in 0 .. MaxHops /\ Circling'
    BY <2>1 DEF GoTo
  <2>2. ASSUME NEW page \in {"capture", "review", "setup", "error"}, Serves(page)
        PROVE  nav' \in Places /\ hops' \in 0 .. MaxHops /\ Circling'
    BY <2>2 DEF Serves
  <2>3. ASSUME nav \in {"toCapture", "toReview"}, ~Ready, Redirects("toSetup")
        PROVE  nav' \in Places /\ hops' \in 0 .. MaxHops /\ Circling'
    BY <2>3 DEF Redirects
  <2>4. ASSUME nav = "toSetup", Ready, Redirects("toCapture")
        PROVE  nav' \in Places /\ hops' \in 0 .. MaxHops /\ Circling'
    BY <2>4 DEF Redirects
  <2> QED
    BY <2>1, <2>2, <2>3, <2>4 DEF Visit, ServeGated, ServeSetup, ServeError
<1> QED
  BY <1>1, <1>2 DEF ProfileInv, PTypeOK, Holds, HasQR, HasImage

\* The settings that no request has to wait for.
LEMMA SettingsProfile ==
  ASSUME ProfileInv,
         SetOwnerDisplayName \/ MarkOnboardingSeen \/ \E auto \in BOOLEAN : SetAutoFillAmount(auto)
  PROVE  ProfileInv'
<1> USE DEF ProfileInv, PTypeOK, Holds, Circling, HasQR, HasImage, Ready, Columns, MaxHops, browser
<1>1. CASE SetOwnerDisplayName
  BY <1>1 DEF SetOwnerDisplayName
<1>2. CASE MarkOnboardingSeen
  BY <1>2 DEF MarkOnboardingSeen
<1>3. CASE \E auto \in BOOLEAN : SetAutoFillAmount(auto)
  BY <1>3 DEF SetAutoFillAmount
<1> QED
  BY <1>1, <1>2, <1>3

\* The requests: a set-up or an upload saves a URL only once the image is there,
\* and none takes away the QR that another has seen.
LEMMA RequestProfile ==
  ASSUME ProfileInv, NEW r \in Requests,
         \/ \E form \in SUBSET {"file"} : SetupPost(r, form)
         \/ Upload(r, "setup", "setupSaving") \/ SetupKeeping(r) \/ SetupRefused(r)
         \/ SetOwnerProfile(r)
         \/ UploadQR(r) \/ Upload(r, "upload", "uploadSaving") \/ SetOwnerQRURL(r)
         \/ CreateWeb(r) \/ CreateApi(r) \/ CreateSplit(r)
         \/ \E fails \in BOOLEAN : ReadName(r, fails)
         \/ CallFails(r) \/ UploadLost(r)
  PROVE  ProfileInv'
<1> USE DEF ProfileInv, PTypeOK, Holds, Circling, Stages, Columns, Assets, Places, NoRequest, UrlOf, HasQR, HasImage, Ready, MaxHops,
            Step, Done, GoTo, browser
<1>1. CASE \E form \in SUBSET {"file"} : SetupPost(r, form)
  BY <1>1 DEF SetupPost
<1>2. CASE Upload(r, "setup", "setupSaving") \/ Upload(r, "upload", "uploadSaving")
  BY <1>2 DEF Upload
<1>3. CASE SetupKeeping(r) \/ SetupRefused(r)
  BY <1>3 DEF SetupKeeping, SetupRefused
<1>4. CASE SetOwnerProfile(r)
  BY <1>4 DEF SetOwnerProfile
<1>5. CASE UploadQR(r)
  BY <1>5 DEF UploadQR
<1>6. CASE SetOwnerQRURL(r)
  BY <1>6 DEF SetOwnerQRURL
<1>7. CASE CreateWeb(r) \/ CreateApi(r)
  BY <1>7 DEF CreateWeb, CreateApi
<1>8. CASE CreateSplit(r)
  BY <1>8 DEF CreateSplit
<1>9. CASE \E fails \in BOOLEAN : ReadName(r, fails)
  BY <1>9 DEF ReadName
<1>10. CASE CallFails(r)
  BY <1>10 DEF CallFails
<1>11. CASE UploadLost(r)
  BY <1>11 DEF UploadLost
<1> QED
  BY <1>1, <1>2, <1>3, <1>4, <1>5, <1>6, <1>7, <1>8, <1>9, <1>10, <1>11

LEMMA NextProfile == ProfileInv /\ [PNext]_pvars => ProfileInv'
<1> SUFFICES ASSUME ProfileInv, [PNext]_pvars PROVE ProfileInv'
  OBVIOUS
<1>1. CASE UNCHANGED pvars
  BY <1>1 DEF pvars, browser, ProfileInv, PTypeOK, Holds, Circling, HasQR, HasImage, Ready
<1> QED
  BY <1>1, BrowserProfile, SettingsProfile, RequestProfile DEF PNext

\* However many requests overlap and whichever of them fail, a friend of any split
\* is shown a QR code that has an image behind it.
THEOREM QrForEveryFriend == PSpec => []FriendsSeeQr
<1>1. ProfileInv => FriendsSeeQr
  BY DEF ProfileInv, PTypeOK, FriendsSeeQr, OwnerQRForSplit, HasQR, HasImage
<1> QED
  BY InitProfile, NextProfile, <1>1, PTL DEF PSpec

\* And the owner's browser is redirected twice at most.
THEOREM NoRedirectCircle == PSpec => []RedirectsEnd
<1>1. ProfileInv => RedirectsEnd
  BY DEF ProfileInv, Circling, RedirectsEnd
<1> QED
  BY InitProfile, NextProfile, <1>1, PTL DEF PSpec

\* No URL is stored or held before its image is.
THEOREM UrlsHaveImages == PSpec => []PTypeOK
<1>1. ProfileInv => PTypeOK
  BY DEF ProfileInv
<1> QED
  BY InitProfile, NextProfile, <1>1, PTL DEF PSpec

=============================================================================
