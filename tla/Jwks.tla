-------------------------------- MODULE Jwks --------------------------------
(***************************************************************************)
(* The cache of the auth service's signing keys (jwks.go): requests of     *)
(* owners look a key up by its id, and one that misses refreshes the cache *)
(* unless that was done less than a window ago.                            *)
(*                                                                         *)
(* A key is known by its id; only keys of the expected type and curve, the *)
(* usable ones, are modelled.  What happens under the cache's mutex is one *)
(* step; the request to the auth service is made without it.               *)
(***************************************************************************)
EXTENDS Naturals, FiniteSets

CONSTANTS
    Kids,     \* ids of signing keys
    Lookups,  \* calls of key() in progress
    Window    \* the 30 seconds between refreshes, in ticks

ASSUME WindowAssumption == Window \in Nat \ {0}

VARIABLES
    published,  \* the usable keys the auth service publishes
    keys,       \* jwksCache.keys
    age,        \* time since jwksCache.fetched, up to Window
    pc,         \* where each lookup is
    kid,        \* the id its token names
    doc,        \* the keys the auth service answered it
    \* history variables
    steady,     \* its key has been published since it began
    early,      \* the refreshes that had their answer when it began
    stale,      \* one of those was installed after its own refresh
    flying      \* the lookups refreshing since before the cache was last set

cache == <<keys, age, flying>>
lookup == <<pc, kid, doc>>
history == <<steady, early, stale>>
vars == <<published, cache, lookup, history>>

States == {"idle", "asked", "answered", "installed"}

Refreshing == {l \in Lookups : pc[l] \in {"asked", "answered"}}

\* The zero time of `fetched` is longer ago than any window.
Init ==
    /\ published \in SUBSET Kids
    /\ keys = {}
    /\ age = Window
    /\ pc = [l \in Lookups |-> "idle"]
    /\ kid \in [Lookups -> Kids]
    /\ doc = [l \in Lookups |-> {}]
    /\ steady = [l \in Lookups |-> FALSE]
    /\ early = [l \in Lookups |-> {}]
    /\ stale = [l \in Lookups |-> FALSE]
    /\ flying = {}

-----------------------------------------------------------------------------
\* The auth service and time.

Rotate ==
    /\ published' \in SUBSET Kids \ {published}
    /\ steady' = [l \in Lookups |-> steady[l] /\ kid[l] \in published']
    /\ UNCHANGED <<cache, lookup, early, stale>>

Tick ==
    /\ age < Window
    /\ age' = age + 1
    /\ UNCHANGED <<published, keys, flying, lookup, history>>

-----------------------------------------------------------------------------
\* key(), called by requireOwner with the id in a token.

\* A token names another key.
Arrive(l) ==
    /\ pc[l] = "idle"
    /\ \E k \in Kids \ {kid[l]} : kid' = [kid EXCEPT ![l] = k]
    /\ UNCHANGED <<published, cache, pc, doc, history>>

\* Mutant: only an empty cache is filled.
ThrottledOnceFilled == keys # {}

Throttled == age < Window

\* Mutant: the throttle looks at nothing but the key.
MissUnthrottled(l) ==
    /\ pc[l] = "idle"
    /\ kid[l] \notin keys
    /\ pc' = [pc EXCEPT ![l] = "asked"]
    /\ steady' = [steady EXCEPT ![l] = kid[l] \in published]
    /\ early' = [early EXCEPT ![l] = {m \in Lookups : pc[m] = "answered"}]
    /\ stale' = [stale EXCEPT ![l] = FALSE]
    /\ UNCHANGED <<published, cache, kid, doc>>

\* The key is not there and the cache is old enough to be fetched again.  A key
\* that is there, or that the throttle refuses, changes nothing.
Miss(l) ==
    /\ pc[l] = "idle"
    /\ kid[l] \notin keys
    /\ ~Throttled
    /\ pc' = [pc EXCEPT ![l] = "asked"]
    /\ steady' = [steady EXCEPT ![l] = kid[l] \in published]
    /\ early' = [early EXCEPT ![l] = {m \in Lookups : pc[m] = "answered"}]
    /\ stale' = [stale EXCEPT ![l] = FALSE]
    /\ UNCHANGED <<published, cache, kid, doc>>

\* Mutant: an answer without a usable key is taken for an answer.
AnswerWithoutKeys(l) ==
    /\ pc[l] = "asked"
    /\ pc' = [pc EXCEPT ![l] = "answered"]
    /\ doc' = [doc EXCEPT ![l] = published]
    /\ UNCHANGED <<published, cache, kid, history>>

\* refresh(): the auth service answers with what it publishes now.
Answer(l) ==
    /\ pc[l] = "asked"
    /\ published # {}
    /\ pc' = [pc EXCEPT ![l] = "answered"]
    /\ doc' = [doc EXCEPT ![l] = published]
    /\ UNCHANGED <<published, cache, kid, history>>

\* No answer, not one that can be read, or no usable key in it: the cache and its
\* age stay, and the next miss asks again at once.
Fail(l) ==
    /\ pc[l] = "asked"
    /\ pc' = [pc EXCEPT ![l] = "idle"]
    /\ steady' = [steady EXCEPT ![l] = FALSE]
    /\ early' = [early EXCEPT ![l] = {}]
    /\ flying' = flying \ {l}
    /\ UNCHANGED <<published, keys, age, kid, doc, stale>>

\* Mutant: keys are fetched once and kept.
InstallOnce(l) ==
    /\ pc[l] = "answered"
    /\ keys' = IF keys = {} THEN doc[l] ELSE keys
    /\ age' = 0
    /\ flying' = Refreshing \ {l}
    /\ pc' = [pc EXCEPT ![l] = "installed"]
    /\ doc' = [doc EXCEPT ![l] = {}]
    /\ stale' = [m \in Lookups |-> stale[m] \/ (pc[m] = "installed" /\ l \in early[m])]
    /\ early' = [m \in Lookups |-> early[m] \ {l}]
    /\ UNCHANGED <<published, kid, steady>>

\* The answer replaces the cache, whatever was installed meanwhile.
Install(l) ==
    /\ pc[l] = "answered"
    /\ keys' = doc[l]
    /\ age' = 0
    /\ flying' = Refreshing \ {l}
    /\ pc' = [pc EXCEPT ![l] = "installed"]
    /\ doc' = [doc EXCEPT ![l] = {}]
    /\ stale' = [m \in Lookups |-> stale[m] \/ (pc[m] = "installed" /\ l \in early[m])]
    /\ early' = [m \in Lookups |-> early[m] \ {l}]
    /\ UNCHANGED <<published, kid, steady>>

\* The key is looked up again: found, or unknown.
Reread(l) ==
    /\ pc[l] = "installed"
    /\ pc' = [pc EXCEPT ![l] = "idle"]
    /\ steady' = [steady EXCEPT ![l] = FALSE]
    /\ early' = [early EXCEPT ![l] = {}]
    /\ stale' = [stale EXCEPT ![l] = FALSE]
    /\ UNCHANGED <<published, cache, kid, doc>>

-----------------------------------------------------------------------------
Next ==
    \/ Rotate \/ Tick
    \/ \E l \in Lookups : Arrive(l) \/ Miss(l) \/ Answer(l) \/ Fail(l) \/ Install(l) \/ Reread(l)

Spec == Init /\ [][Next]_vars

\* Time passes, an owner whose key is missing tries again, and a lookup that
\* has its answer needs nothing but the mutex.  The auth service owes nothing.
FairSpec ==
    /\ Spec
    /\ WF_vars(Tick)
    /\ \A l \in Lookups : WF_vars(Miss(l)) /\ WF_vars(Install(l)) /\ WF_vars(Reread(l))

-----------------------------------------------------------------------------
\* Type correctness.  refresh() passes on no answer without a usable key, so the
\* cache, once filled, is never emptied.
TypeOK ==
    /\ published \subseteq Kids
    /\ keys \subseteq Kids
    /\ age \in 0 .. Window
    /\ pc \in [Lookups -> States]
    /\ kid \in [Lookups -> Kids]
    /\ doc \in [Lookups -> SUBSET Kids]
    /\ steady \in [Lookups -> BOOLEAN]
    /\ early \in [Lookups -> SUBSET Lookups]
    /\ stale \in [Lookups -> BOOLEAN]
    /\ flying \subseteq Refreshing
    /\ \A l \in Lookups : pc[l] = "answered" <=> doc[l] # {}
    /\ age < Window => keys # {}

\* "Rate-limiting refreshes" (comment of key): within a window of the last
\* refresh the cache is set only by a lookup whose own refresh was already under
\* way then, so one window sees no more refreshes than lookups that overlapped.
InstallsSpaced ==
    [][\A l \in Lookups : Install(l) /\ age < Window => l \in flying]_vars

\* "Refreshing once if it isn't cached" (comment of key): a lookup that refreshed
\* finds its key if the auth service has published it ever since the lookup
\* began, unless an answer older than the lookup was installed over its own.
RejectionsExcused ==
    [][\A l \in Lookups : Reread(l) /\ steady[l] /\ kid[l] \notin keys => stale[l]]_vars

\* "Handles signing-key rotation" (comment of key): a key that stays published
\* and in an owner's token comes to stay in the cache, whatever else is looked
\* up and rejected meanwhile, unless the auth service stops answering.
RotationHandled ==
    \A k \in Kids, l \in Lookups :
        /\ <>[](k \in published /\ kid[l] = k)
        /\ []<>(pc[l] = "asked") => []<>(pc[l] = "answered")
        => <>[](k \in keys)

=============================================================================
