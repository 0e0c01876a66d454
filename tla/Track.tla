-------------------------------- MODULE Track --------------------------------
(***************************************************************************)
(* Payments of one split and the owner's tracking page: the paid handlers  *)
(* mark, count and publish in three separate steps, the page loads once    *)
(* and then refetches its participants for every event of the stream.      *)
(*                                                                         *)
(* Claims move as in Ledger, the subscriber's channel as in LossyChannel;  *)
(* SplitClaims and Broker say how far the server keeps to those two.       *)
(***************************************************************************)
EXTENDS Ledger, Sequences

CONSTANTS
    Calls,     \* handlePaid / handleFriendPaid calls in progress
    Capacity   \* buffer of a subscriber's channel

ASSUME CapacityAssumption == Capacity \in Nat \ {0}

VARIABLES
    paid,       \* participants.paid
    call,       \* where each call is
    payer,      \* its participant
    total,      \* the collected total it has read
    streaming,  \* the page's event stream is subscribed
    chan,       \* events (collected totals) on their way to the page
    lost,       \* those dropped because the buffer was full
    page,       \* "closed" or "open"
    shown,      \* participants the page shows as paid
    fetch,      \* the page's refetch: "none", "asked" or "answered"
    fetched,    \* the participants it found paid
    again,      \* another event came while a refetch was under way
    \* history variable
    missed      \* something was lost that the page does not recover by itself

handlers == <<call, payer, total>>
stream == <<streaming, chan, lost>>
browser == <<page, shown, fetch, fetched, again, missed>>
tvars == <<vars, paid, handlers, stream, browser>>

Channel == INSTANCE LossyChannel WITH Messages <- Int, live <- streaming

PaidFriends == {f \in joined \ {Owner} : paid[f]}

\* CollectedSen: owed_sen over paid rows that are not the owner's.
Collected == SumFunctionOnSet(owed, PaidFriends)

TInit ==
    /\ Init
    /\ paid = [p \in Participants |-> FALSE]
    /\ call = [h \in Calls |-> "idle"]
    /\ payer = [h \in Calls |-> Owner]
    /\ total = [h \in Calls |-> 0]
    /\ Channel!Init
    /\ page = "closed"
    /\ shown = {}
    /\ fetch = "none"
    /\ fetched = {}
    /\ again = FALSE
    /\ missed = FALSE

-----------------------------------------------------------------------------
\* The ledger moves; nothing is published for it.

Joins(f) ==
    /\ CreateParticipant(f)
    /\ UNCHANGED <<paid, handlers, stream, browser>>

Claims(f, want) ==
    /\ SetClaims(f, want)
    /\ UNCHANGED <<paid, handlers, stream, browser>>

\* The participant rows go; a stream of the split stays subscribed.
Deletes ==
    /\ DeleteSplit
    /\ paid' = [p \in Participants |-> FALSE]
    /\ UNCHANGED <<handlers, stream, browser>>

-----------------------------------------------------------------------------
\* handlePaid and handleFriendPaid: MarkPaid, CollectedSen, publish.

\* `update participants set paid = true ... returning owed_sen`: the payer is
\* shown that amount; a second call of the same friend goes on alike.
MarkPaid(h, f) ==
    /\ call[h] = "idle"
    /\ f \in joined
    /\ paid' = [paid EXCEPT ![f] = TRUE]
    /\ call' = [call EXCEPT ![h] = "marked"]
    /\ payer' = [payer EXCEPT ![h] = f]
    /\ UNCHANGED <<vars, total, stream, browser>>

CountCollected(h) ==
    /\ call[h] = "marked"
    /\ total' = [total EXCEPT ![h] = Collected]
    /\ call' = [call EXCEPT ![h] = "counted"]
    /\ UNCHANGED <<vars, paid, payer, stream, browser>>

\* Mutant: the handler gives up, as it does after other errors.
CountFailsGivingUp(h) ==
    /\ call[h] = "marked"
    /\ call' = [call EXCEPT ![h] = "idle"]
    /\ payer' = [payer EXCEPT ![h] = Owner]
    /\ UNCHANGED <<vars, paid, total, stream, browser>>

\* The error is logged (or ignored) and the handler goes on with 0.
CountFails(h) ==
    /\ call[h] = "marked"
    /\ total' = [total EXCEPT ![h] = 0]
    /\ call' = [call EXCEPT ![h] = "counted"]
    /\ UNCHANGED <<vars, paid, payer, stream, browser>>

\* Mutant: the event is queued however many are waiting.
PublishUnbounded(h) ==
    /\ call[h] = "counted"
    /\ chan' = IF streaming THEN Append(chan, total[h]) ELSE chan
    /\ missed' = (missed \/ (page = "open" /\ ~streaming))
    /\ call' = [call EXCEPT ![h] = "idle"]
    /\ payer' = [payer EXCEPT ![h] = Owner]
    /\ total' = [total EXCEPT ![h] = 0]
    /\ UNCHANGED <<vars, paid, streaming, lost, page, shown, fetch, fetched, again>>

\* Without a subscriber the event goes nowhere.
Publish(h) ==
    /\ call[h] = "counted"
    /\ \/ Channel!Offer(total[h]) /\ UNCHANGED missed
       \/ /\ ~streaming
          /\ missed' = (missed \/ page = "open")
          /\ UNCHANGED stream
    /\ call' = [call EXCEPT ![h] = "idle"]
    /\ payer' = [payer EXCEPT ![h] = Owner]
    /\ total' = [total EXCEPT ![h] = 0]
    /\ UNCHANGED <<vars, paid, page, shown, fetch, fetched, again>>

-----------------------------------------------------------------------------
\* The owner's page.

\* handleWebTrack renders the rows as read now; the split still exists.
OpenPage ==
    /\ page = "closed"
    /\ Owner \in joined
    /\ page' = "open"
    /\ shown' = PaidFriends
    /\ missed' = FALSE
    /\ UNCHANGED <<vars, paid, handlers, stream, fetch, fetched, again>>

ClosePage ==
    /\ page = "open"
    /\ page' = "closed"
    /\ shown' = {}
    /\ fetch' = "none"
    /\ fetched' = {}
    /\ again' = FALSE
    /\ missed' = FALSE
    /\ streaming' = FALSE
    /\ chan' = <<>>
    /\ lost' = {}
    /\ UNCHANGED <<vars, paid, handlers>>

\* The browser's EventSource connects, the first time or after a break;
\* handleEvents looks the split up first.
Connect ==
    /\ page = "open"
    /\ Owner \in joined
    /\ Channel!Subscribe
    /\ UNCHANGED <<vars, paid, handlers, browser>>

\* The connection breaks; what was on its way is lost.
Disconnect ==
    /\ Channel!Unsubscribe
    /\ missed' = (missed \/ chan # <<>>)
    /\ UNCHANGED <<vars, paid, handlers, page, shown, fetch, fetched, again>>

\* Mutant: an event during a refetch is ignored.
EventUnlessFetching ==
    /\ page = "open"
    /\ Channel!Receive
    /\ shown' = {}
    /\ fetch' = IF fetch = "none" THEN "asked" ELSE fetch
    /\ UNCHANGED <<vars, paid, handlers, page, fetched, again, missed>>

\* An event reaches the page: sse-swap puts its text in place of the rows, and
\* hx-get starts, or is queued behind the one under way (htmx keeps the last).
Event ==
    /\ page = "open"
    /\ Channel!Receive
    /\ shown' = {}
    /\ IF fetch = "none"
       THEN fetch' = "asked" /\ UNCHANGED again
       ELSE again' = TRUE /\ UNCHANGED fetch
    /\ UNCHANGED <<vars, paid, handlers, page, fetched, missed>>

\* handleWebTrackParticipants reads the rows.
Fetch ==
    /\ fetch = "asked"
    /\ Owner \in joined
    /\ fetch' = "answered"
    /\ fetched' = PaidFriends
    /\ missed' = FALSE
    /\ UNCHANGED <<vars, paid, handlers, stream, page, shown, again>>

Swap ==
    /\ fetch = "answered"
    /\ shown' = fetched
    /\ fetched' = {}
    /\ fetch' = IF again THEN "asked" ELSE "none"
    /\ again' = FALSE
    /\ UNCHANGED <<vars, paid, handlers, stream, page, missed>>

\* The request or its answer is lost, or the split is gone (404): no swap.
FetchFails ==
    /\ fetch # "none"
    /\ missed' = TRUE
    /\ fetched' = {}
    /\ fetch' = IF again THEN "asked" ELSE "none"
    /\ again' = FALSE
    /\ UNCHANGED <<vars, paid, handlers, stream, page, shown>>

\* The process dies: handlers stop where they are and the broker, which is in
\* memory, forgets its subscribers.
Crash ==
    /\ \/ streaming
       \/ \E h \in Calls : call[h] # "idle"
    /\ call' = [h \in Calls |-> "idle"]
    /\ payer' = [h \in Calls |-> Owner]
    /\ total' = [h \in Calls |-> 0]
    /\ streaming' = FALSE
    /\ chan' = <<>>
    /\ lost' = {}
    /\ missed' = (page = "open")
    /\ UNCHANGED <<vars, paid, page, shown, fetch, fetched, again>>

-----------------------------------------------------------------------------
TNext ==
    \/ \E f \in Friends :
        \/ Joins(f)
        \/ \E want \in SUBSET Items : Claims(f, want)
        \/ \E h \in Calls : MarkPaid(h, f)
    \/ Deletes
    \/ \E h \in Calls : CountCollected(h) \/ CountFails(h) \/ Publish(h)
    \/ OpenPage \/ ClosePage \/ Connect \/ Disconnect
    \/ Event \/ Fetch \/ Swap \/ FetchFails
    \/ Crash

TSpec == TInit /\ [][TNext]_tvars

\* A handler that has begun goes on; a browser with an open page handles its
\* events and its answers.  Nobody has to claim, pay, connect or fail.
FairSpec ==
    /\ TSpec
    /\ \A h \in Calls : WF_tvars(CountCollected(h)) /\ WF_tvars(Publish(h))
    /\ WF_tvars(Event) /\ WF_tvars(Fetch) /\ WF_tvars(Swap)

-----------------------------------------------------------------------------
TTypeOK ==
    /\ TypeOK
    /\ paid \in [Participants -> BOOLEAN]
    /\ call \in [Calls -> {"idle", "marked", "counted"}]
    /\ payer \in [Calls -> Participants]
    /\ total \in [Calls -> Int]
    /\ streaming \in BOOLEAN
    /\ Len(chan) <= Capacity
    /\ lost \subseteq Int
    /\ page \in {"closed", "open"}
    /\ shown \subseteq Friends
    /\ fetch \in {"none", "asked", "answered"}
    /\ fetched \subseteq Friends
    /\ again \in BOOLEAN
    /\ missed \in BOOLEAN

\* A payment the open page does not show yet is on its way to it: its handler
\* has still to publish, or an event or a refetch that will find it is pending,
\* or an answer with it is about to be swapped in.  Dropping an event because
\* the buffer is full is harmless: the events before it refetch later.  Only a
\* break (no stream, lost refetch, crash) can leave the page behind.
PaidShownOrComing ==
    page = "open" /\ ~missed =>
        \A f \in PaidFriends \ shown :
            \/ \E h \in Calls : payer[h] = f
            \/ chan # <<>>
            \/ fetch = "asked"
            \/ fetch = "answered" /\ (again \/ f \in fetched)

\* So an open page comes to show every payment, unless something broke.
PageCatchesUp ==
    \A f \in Friends :
        (page = "open" /\ f \in PaidFriends)
            ~> (f \in shown \/ missed \/ page = "closed" \/ f \notin joined)

=============================================================================
