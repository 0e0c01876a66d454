---------------------------- MODULE Track_proofs ----------------------------
(***************************************************************************)
(* Payments and the tracking page for any friends, items, amounts, calls   *)
(* in progress and any buffer: what the page is promised to show, it shows *)
(* or is about to.                                                         *)
(***************************************************************************)
EXTENDS Track, Amounts_proofs, SequenceTheorems

\* Only people of the split have claims and have paid, and they are finitely
\* many; what they owe is a number.
Rows ==
    /\ TypeOK
    /\ IsFiniteSet(joined)
    /\ \A p \in Participants \ joined : claims[p] = {}
    /\ \A p \in Participants : owed[p] \in Int
    /\ paid \in [Participants -> BOOLEAN]
    /\ \A p \in Participants : paid[p] => p \in joined

Handlers ==
    /\ call \in [Calls -> {"idle", "marked", "counted"}]
    /\ payer \in [Calls -> Participants]
    /\ total \in [Calls -> Int]
    /\ \A h \in Calls : call[h] = "idle" => payer[h] = Owner

\* Only an open page has a stream, and only a stream has events on their way.
Stream ==
    /\ streaming \in BOOLEAN
    /\ chan \in Seq(Int)
    /\ Len(chan) <= Capacity
    /\ lost \subseteq Int
    /\ streaming => page = "open"
    /\ ~streaming => chan = <<>> /\ lost = {}

Browser ==
    /\ page \in {"closed", "open"}
    /\ shown \subseteq Friends
    /\ fetch \in {"none", "asked", "answered"}
    /\ fetched \subseteq Friends
    /\ again \in BOOLEAN
    /\ missed \in BOOLEAN
    /\ page = "closed" => fetch = "none"
    /\ fetch = "none" => ~again

\* While the split exists the page knows only of payments that were made, and an
\* answer has everything the page shows already.
Known ==
    /\ Owner \in joined => shown \cup fetched \subseteq PaidFriends
    /\ Owner \notin joined => joined = {}
    /\ Owner \in joined /\ fetch = "answered" => shown \subseteq fetched

TrackInv == Rows /\ Handlers /\ Stream /\ Browser /\ Known /\ PaidShownOrComing

\* What a conjunct of the invariant speaks of.
RowsRead == <<vars, paid>>
StreamRead == <<stream, page>>
PageRead == <<page, shown, fetch, fetched, again, missed>>

LEMMA NothingSent == <<>> \in Seq(Int) /\ Len(<<>>) <= Capacity
<1>1. <<>> \in Seq(Int) /\ Len(<<>>) = 0
  OBVIOUS
<1> QED
  BY <1>1, CapacityAssumption

LEMMA RowsKept == Rows /\ UNCHANGED RowsRead => Rows' /\ PaidFriends' = PaidFriends
  BY DEF Rows, RowsRead, TypeOK, vars, PaidFriends

LEMMA HandlersKept == Handlers /\ UNCHANGED handlers => Handlers'
  BY DEF Handlers, handlers

LEMMA StreamKept == Stream /\ UNCHANGED StreamRead => Stream'
  BY DEF Stream, StreamRead, stream

LEMMA BrowserKept == Browser /\ UNCHANGED PageRead => Browser'
  BY DEF Browser, PageRead

LEMMA KnownKept == Known /\ UNCHANGED <<RowsRead, PageRead>> => Known'
  BY DEF Known, RowsRead, PageRead, PaidFriends, vars

LEMMA InitTrack == TInit => TrackInv
<1> SUFFICES ASSUME TInit PROVE TrackInv
  OBVIOUS
<1> USE OwnerAssumption, CapacityAssumption DEF TInit, Init
<1>1. Rows
  <2>1. IsFiniteSet(joined)
    BY FS_Singleton
  <2>2. TypeOK
    BY DEF TypeOK, Participants, ClaimTables, NoClaims, OwedValues
  <2> QED
    BY <2>1, <2>2 DEF Rows, NoClaims
<1>2. Handlers
  BY DEF Handlers, Participants
<1>3. Stream
  BY NothingSent DEF Stream, Channel!Init
<1>4. Browser
  BY DEF Browser
<1>5. Known
  BY DEF Known
<1>6. PaidShownOrComing
  BY DEF PaidShownOrComing
<1> QED
  BY <1>1, <1>2, <1>3, <1>4, <1>5, <1>6 DEF TrackInv

-----------------------------------------------------------------------------
\* The ledger moves.

LEMMA JoinsTrack == ASSUME TrackInv, NEW f \in Friends, Joins(f) PROVE TrackInv'
<1> USE OwnerAssumption DEF TrackInv, Joins, CreateParticipant
<1>1. Rows'
  <2>1. IsFiniteSet(joined')
    BY FS_AddElement DEF Rows
  <2> QED
    BY <2>1 DEF Rows, TypeOK, Participants
<1>2. PaidFriends' = PaidFriends
  BY DEF PaidFriends, Rows, Participants
<1>3. Handlers' /\ Stream' /\ Browser'
  BY HandlersKept, StreamKept, BrowserKept DEF StreamRead, PageRead, stream, browser
<1>4. Known'
  BY <1>2 DEF Known, browser
<1>5. PaidShownOrComing'
  BY <1>2 DEF PaidShownOrComing, handlers, stream, browser
<1> QED
  BY <1>1, <1>3, <1>4, <1>5

LEMMA ClaimsTrack ==
  ASSUME TrackInv, NEW f \in Friends, NEW want \in SUBSET Items, Claims(f, want)
  PROVE  TrackInv'
<1> USE OwnerAssumption, IncludedAssumption DEF TrackInv, Claims, SetClaims
<1>1. claims' \in ClaimTables /\ \A p \in Participants \ joined : claims'[p] = {}
  BY DEF Rows, TypeOK, ClaimTables, Participants
<1>2. Rows'
  <2>1. \A p \in Participants : owed'[p] \in Int
    BY <1>1, OwedForInt DEF Rows
  <2>2. \A p \in Participants : owed'[p] \in OwedValues
    BY <1>1, OwedForType DEF Rows, TypeOK
  <2>3. TypeOK'
    BY <1>1, <2>2 DEF Rows, TypeOK
  <2> QED
    BY <1>1, <2>1, <2>3 DEF Rows
<1>3. PaidFriends' = PaidFriends
  BY DEF PaidFriends
<1>4. Handlers' /\ Stream' /\ Browser'
  BY HandlersKept, StreamKept, BrowserKept DEF StreamRead, PageRead, stream, browser
<1>5. Known'
  BY <1>3 DEF Known, browser
<1>6. PaidShownOrComing'
  BY <1>3 DEF PaidShownOrComing, handlers, stream, browser
<1> QED
  BY <1>2, <1>4, <1>5, <1>6

LEMMA DeletesTrack == ASSUME TrackInv, Deletes PROVE TrackInv'
<1> USE OwnerAssumption DEF TrackInv, Deletes, DeleteSplit
<1>1. Rows'
  <2>1. IsFiniteSet(joined')
    BY FS_EmptySet
  <2>2. TypeOK'
    BY DEF Rows, TypeOK, Participants, ClaimTables, NoClaims, OwedValues
  <2> QED
    BY <2>1, <2>2 DEF Rows, NoClaims
<1>2. PaidFriends' = {}
  BY DEF PaidFriends
<1>3. Handlers' /\ Stream' /\ Browser'
  BY HandlersKept, StreamKept, BrowserKept DEF StreamRead, PageRead, stream, browser
<1>4. Known'
  BY DEF Known
<1>5. PaidShownOrComing'
  BY <1>2 DEF PaidShownOrComing
<1> QED
  BY <1>1, <1>3, <1>4, <1>5

-----------------------------------------------------------------------------
\* The paid handlers.

LEMMA CollectedType == Rows => Collected \in Int
<1> SUFFICES ASSUME Rows PROVE Collected \in Int
  OBVIOUS
<1>1. IsFiniteSet(PaidFriends)
  BY FS_Subset DEF PaidFriends, Rows
<1>2. \A f \in PaidFriends : owed[f] \in Int
  BY DEF PaidFriends, Rows, TypeOK
<1> QED
  BY <1>1, <1>2, SumType DEF Collected

LEMMA MarkPaidTrack ==
  ASSUME TrackInv, NEW h \in Calls, NEW f \in Friends, MarkPaid(h, f)
  PROVE  TrackInv'
<1> USE OwnerAssumption DEF TrackInv, MarkPaid
<1>1. Rows'
  BY DEF Rows, TypeOK, vars, Participants
<1>2. PaidFriends' = PaidFriends \cup {f}
  BY DEF PaidFriends, Rows, TypeOK, vars, Participants
<1>3. Handlers'
  BY DEF Handlers, Participants
<1>4. Stream' /\ Browser'
  BY StreamKept, BrowserKept DEF StreamRead, PageRead, stream, browser
<1>5. Known'
  BY <1>2 DEF Known, browser, vars
<1>6. PaidShownOrComing'
  <2>1. payer'[h] = f /\ \A g \in Calls \ {h} : payer'[g] = payer[g]
    BY DEF Handlers
  <2>2. payer[h] = Owner
    BY DEF Handlers
  <2>3. Owner \notin PaidFriends
    BY DEF PaidFriends
  <2> QED
    BY <1>2, <2>1, <2>2, <2>3 DEF PaidShownOrComing, stream, browser
<1> QED
  BY <1>1, <1>3, <1>4, <1>5, <1>6

LEMMA CountTrack ==
  ASSUME TrackInv, NEW h \in Calls, CountCollected(h) \/ CountFails(h)
  PROVE  TrackInv'
<1> USE DEF TrackInv
<1>1. /\ call[h] = "marked"
      /\ call' = [call EXCEPT ![h] = "counted"]
      /\ \E t \in Int : total' = [total EXCEPT ![h] = t]
      /\ UNCHANGED <<vars, paid, payer, stream, browser>>
  BY CollectedType DEF CountCollected, CountFails
<1>2. Rows' /\ Stream' /\ Browser' /\ Known' /\ PaidFriends' = PaidFriends
  BY <1>1, RowsKept, StreamKept, BrowserKept, KnownKept DEF RowsRead, StreamRead, PageRead, stream, browser
<1>3. Handlers'
  BY <1>1 DEF Handlers
<1>4. PaidShownOrComing'
  BY <1>1, <1>2 DEF PaidShownOrComing, stream, browser
<1> QED
  BY <1>2, <1>3, <1>4

LEMMA PublishTrack == ASSUME TrackInv, NEW h \in Calls, Publish(h) PROVE TrackInv'
<1> USE CapacityAssumption DEF TrackInv, Publish
<1>1. Rows' /\ PaidFriends' = PaidFriends
  BY RowsKept DEF RowsRead
<1>2. Handlers'
  BY DEF Handlers, Participants
<1>3. CASE streaming
  <2>1. Channel!Offer(total[h]) /\ UNCHANGED missed
    BY <1>3
  <2>2. Browser' /\ Known'
    BY <2>1, BrowserKept, KnownKept DEF PageRead, RowsRead
  <2>3. /\ streaming' = streaming /\ chan' \in Seq(Int) /\ Len(chan') <= Capacity /\ chan' # <<>>
        /\ lost' \subseteq Int
    <3>0. total[h] \in Int
      BY DEF Handlers
    <3>1. CASE Channel!Deliver(total[h])
      BY <3>0, <3>1, AppendProperties DEF Channel!Deliver, Stream
    <3>2. CASE Channel!Drop(total[h])
      <4>1. chan # <<>>
        BY <3>2, EmptySeq DEF Channel!Drop
      <4> QED
        BY <3>0, <3>2, <4>1 DEF Channel!Drop, Stream
    <3> QED
      BY <2>1, <3>1, <3>2 DEF Channel!Offer
  <2>4. Stream'
    BY <1>3, <2>3 DEF Stream
  <2>5. PaidShownOrComing'
    BY <2>3 DEF PaidShownOrComing
  <2> QED
    BY <1>1, <1>2, <2>2, <2>4, <2>5
<1>4. CASE ~streaming
  <2>1. missed' = (missed \/ page = "open") /\ UNCHANGED stream
    BY <1>4 DEF Channel!Offer, Channel!Deliver, Channel!Drop
  <2>2. Stream'
    BY <2>1, StreamKept DEF StreamRead
  <2>3. missed' \in BOOLEAN
    BY <2>1
  <2>4. Browser'
    BY <2>3 DEF Browser
  <2>5. Known'
    BY <1>1 DEF Known, vars
  <2>6. PaidShownOrComing'
    BY <2>1 DEF PaidShownOrComing
  <2> QED
    BY <1>1, <1>2, <2>2, <2>4, <2>5, <2>6
<1> QED
  BY <1>3, <1>4

-----------------------------------------------------------------------------
\* The owner's page and its stream.

LEMMA OpenPageTrack == ASSUME TrackInv, OpenPage PROVE TrackInv'
<1> USE OwnerAssumption DEF TrackInv, OpenPage
<1>1. Rows' /\ Handlers' /\ PaidFriends' = PaidFriends
  BY RowsKept, HandlersKept DEF RowsRead
<1>2. PaidFriends \subseteq Friends
  BY DEF PaidFriends, Rows, TypeOK, Participants
<1>3. Stream'
  BY DEF Stream, stream
<1>4. Browser'
  BY <1>2 DEF Browser
<1>5. Known'
  BY <1>1 DEF Known, Browser, vars
<1>6. PaidShownOrComing'
  BY <1>1 DEF PaidShownOrComing
<1> QED
  BY <1>1, <1>3, <1>4, <1>5, <1>6

LEMMA ClosePageTrack == ASSUME TrackInv, ClosePage PROVE TrackInv'
<1> USE CapacityAssumption DEF TrackInv, ClosePage
<1>1. Rows' /\ Handlers' /\ PaidFriends' = PaidFriends
  BY RowsKept, HandlersKept DEF RowsRead
<1>2. Stream'
  BY NothingSent DEF Stream
<1>3. Browser'
  BY DEF Browser
<1>4. Known'
  BY DEF Known, vars
<1>5. PaidShownOrComing'
  BY DEF PaidShownOrComing
<1> QED
  BY <1>1, <1>2, <1>3, <1>4, <1>5

\* Without a subscriber nothing is on its way, so connecting forgets nothing.
LEMMA ConnectTrack == ASSUME TrackInv, Connect PROVE TrackInv'
<1> USE CapacityAssumption DEF TrackInv, Connect, Channel!Subscribe
<1>1. Rows' /\ Handlers' /\ Browser' /\ Known' /\ PaidFriends' = PaidFriends
  BY RowsKept, HandlersKept, BrowserKept, KnownKept DEF RowsRead, PageRead, browser
<1>2. chan' = chan /\ lost' = {} /\ streaming' /\ page = "open" /\ page' = page
  BY DEF Stream, browser
<1>3. Stream'
  BY <1>2 DEF Stream
<1>4. PaidShownOrComing'
  BY <1>1, <1>2 DEF PaidShownOrComing, handlers, browser
<1> QED
  BY <1>1, <1>3, <1>4

LEMMA DisconnectTrack == ASSUME TrackInv, Disconnect PROVE TrackInv'
<1> USE CapacityAssumption DEF TrackInv, Disconnect, Channel!Unsubscribe
<1>1. Rows' /\ Handlers' /\ PaidFriends' = PaidFriends
  BY RowsKept, HandlersKept DEF RowsRead
<1>2. Stream'
  BY NothingSent DEF Stream
<1>3. missed' \in BOOLEAN
  OBVIOUS
<1>4. Browser'
  BY <1>3 DEF Browser
<1>5. Known'
  BY <1>1 DEF Known, vars
<1>6. PaidShownOrComing'
  BY <1>1 DEF PaidShownOrComing, handlers
<1> QED
  BY <1>1, <1>2, <1>4, <1>5, <1>6

LEMMA EventTrack == ASSUME TrackInv, Event PROVE TrackInv'
<1> USE DEF TrackInv, Event, Channel!Receive
<1>1. Rows' /\ Handlers' /\ PaidFriends' = PaidFriends
  BY RowsKept, HandlersKept DEF RowsRead
<1>2. Stream'
  <2>1. Tail(chan) \in Seq(Int) /\ Len(Tail(chan)) <= Capacity
    BY HeadTailProperties, CapacityAssumption DEF Stream
  <2> QED
    BY <2>1 DEF Stream
<1>3. CASE fetch = "none"
  <2>1. Browser'
    BY <1>3 DEF Browser
  <2>2. Known'
    BY <1>1, <1>3 DEF Known, vars
  <2>3. PaidShownOrComing'
    BY <1>3 DEF PaidShownOrComing
  <2> QED
    BY <1>1, <1>2, <2>1, <2>2, <2>3
<1>4. CASE fetch # "none"
  <2>1. Browser'
    BY <1>4 DEF Browser
  <2>2. Known'
    BY <1>1, <1>4 DEF Known, vars
  <2>3. PaidShownOrComing'
    BY <1>4 DEF PaidShownOrComing, Browser
  <2> QED
    BY <1>1, <1>2, <2>1, <2>2, <2>3
<1> QED
  BY <1>3, <1>4

LEMMA FetchTrack == ASSUME TrackInv, Fetch PROVE TrackInv'
<1> USE OwnerAssumption DEF TrackInv, Fetch
<1>1. Rows' /\ Handlers' /\ Stream' /\ PaidFriends' = PaidFriends
  BY RowsKept, HandlersKept, StreamKept DEF RowsRead, StreamRead, stream
<1>2. PaidFriends \subseteq Friends
  BY DEF PaidFriends, Rows, TypeOK, Participants
<1>3. Browser'
  BY <1>2 DEF Browser
<1>4. Known'
  BY <1>1 DEF Known, vars
<1>5. PaidShownOrComing'
  BY <1>1 DEF PaidShownOrComing
<1> QED
  BY <1>1, <1>3, <1>4, <1>5

\* What an answer swapped in lacks is fetched next, or still on its way.
LEMMA SwapTrack == ASSUME TrackInv, Swap PROVE TrackInv'
<1> USE DEF TrackInv, Swap
<1>1. Rows' /\ Handlers' /\ Stream' /\ PaidFriends' = PaidFriends
  BY RowsKept, HandlersKept, StreamKept DEF RowsRead, StreamRead, stream
<1>2. Browser'
  BY DEF Browser
<1>3. Known'
  BY <1>1 DEF Known, vars
<1>4. PaidShownOrComing'
  <2>1. Owner \notin joined => PaidFriends = {}
    BY DEF Known, PaidFriends
  <2>2. Owner \in joined => shown \subseteq fetched
    BY DEF Known
  <2> QED
    BY <1>1, <2>1, <2>2 DEF PaidShownOrComing, handlers, stream
<1> QED
  BY <1>1, <1>2, <1>3, <1>4

LEMMA FetchFailsTrack == ASSUME TrackInv, FetchFails PROVE TrackInv'
<1> USE DEF TrackInv, FetchFails
<1>1. Rows' /\ Handlers' /\ Stream' /\ PaidFriends' = PaidFriends
  BY RowsKept, HandlersKept, StreamKept DEF RowsRead, StreamRead, stream
<1>2. Browser'
  BY DEF Browser
<1>3. Known'
  BY <1>1 DEF Known, vars
<1>4. PaidShownOrComing'
  BY DEF PaidShownOrComing
<1> QED
  BY <1>1, <1>2, <1>3, <1>4

LEMMA CrashTrack == ASSUME TrackInv, Crash PROVE TrackInv'
<1> USE CapacityAssumption DEF TrackInv, Crash
<1>1. Rows' /\ PaidFriends' = PaidFriends
  BY RowsKept DEF RowsRead
<1>2. Handlers'
  BY DEF Handlers, Participants
<1>3. Stream'
  BY NothingSent DEF Stream
<1>4. missed' \in BOOLEAN
  OBVIOUS
<1>5. Browser'
  BY <1>4 DEF Browser
<1>6. Known'
  BY <1>1 DEF Known, vars
<1>7. PaidShownOrComing'
  BY DEF PaidShownOrComing
<1> QED
  BY <1>1, <1>2, <1>3, <1>5, <1>6, <1>7

LEMMA NextTrack == TrackInv /\ [TNext]_tvars => TrackInv'
<1> SUFFICES ASSUME TrackInv, [TNext]_tvars PROVE TrackInv'
  OBVIOUS
<1>1. CASE UNCHANGED tvars
  <2>1. UNCHANGED <<RowsRead, handlers, StreamRead, PageRead>>
    BY <1>1 DEF tvars, browser, stream, RowsRead, StreamRead, PageRead
  <2>2. Rows' /\ Handlers' /\ Stream' /\ Browser' /\ Known' /\ PaidFriends' = PaidFriends
    BY <2>1, RowsKept, HandlersKept, StreamKept, BrowserKept, KnownKept DEF TrackInv
  <2>3. PaidShownOrComing'
    BY <1>1, <2>2 DEF TrackInv, PaidShownOrComing, tvars, handlers, stream, browser
  <2> QED
    BY <2>2, <2>3 DEF TrackInv
<1>2. ASSUME NEW f \in Friends,
             \/ Joins(f)
             \/ \E want \in SUBSET Items : Claims(f, want)
             \/ \E h \in Calls : MarkPaid(h, f)
      PROVE  TrackInv'
  BY <1>2, JoinsTrack, ClaimsTrack, MarkPaidTrack
<1>3. CASE Deletes
  BY <1>3, DeletesTrack
<1>4. ASSUME NEW h \in Calls, CountCollected(h) \/ CountFails(h) \/ Publish(h)
      PROVE  TrackInv'
  BY <1>4, CountTrack, PublishTrack
<1>5. CASE OpenPage \/ ClosePage \/ Connect \/ Disconnect
  BY <1>5, OpenPageTrack, ClosePageTrack, ConnectTrack, DisconnectTrack
<1>6. CASE Event \/ Fetch \/ Swap \/ FetchFails
  BY <1>6, EventTrack, FetchTrack, SwapTrack, FetchFailsTrack
<1>7. CASE Crash
  BY <1>7, CrashTrack
<1> QED
  BY <1>1, <1>2, <1>3, <1>4, <1>5, <1>6, <1>7 DEF TNext

-----------------------------------------------------------------------------
\* The handlers and the page leave the ledger alone or use its operations.
LEMMA TrackUsesLedger == [TNext]_tvars => [Next]_vars
<1> SUFFICES ASSUME [TNext]_tvars PROVE [Next]_vars
  OBVIOUS
<1>1. CASE UNCHANGED tvars
  BY <1>1 DEF tvars
<1>2. ASSUME NEW f \in Friends, Joins(f) \/ \E want \in SUBSET Items : Claims(f, want) PROVE Next
  BY <1>2 DEF Joins, Claims, Next
<1>3. CASE Deletes
  BY <1>3 DEF Deletes, Next
<1>4. ASSUME NEW h \in Calls,
             (\E f \in Friends : MarkPaid(h, f)) \/ CountCollected(h) \/ CountFails(h) \/ Publish(h)
      PROVE  UNCHANGED vars
  BY <1>4 DEF MarkPaid, CountCollected, CountFails, Publish
<1>5. CASE \/ OpenPage \/ ClosePage \/ Connect \/ Disconnect
           \/ Event \/ Fetch \/ Swap \/ FetchFails \/ Crash
  BY <1>5 DEF OpenPage, ClosePage, Connect, Disconnect, Event, Fetch, Swap, FetchFails, Crash
<1> QED
  BY <1>1, <1>2, <1>3, <1>4, <1>5 DEF TNext

\* What they do to the stream is what the broker promises a subscriber; a closed
\* page and a crash end its subscription.
LEMMA TrackUsesChannel == TrackInv /\ [TNext]_tvars => [Channel!Next]_Channel!vars
<1> SUFFICES ASSUME TrackInv, [TNext]_tvars PROVE [Channel!Next]_Channel!vars
  OBVIOUS
<1> USE DEF Channel!vars, stream
<1>1. CASE UNCHANGED tvars
  BY <1>1 DEF tvars
<1>2. CASE \/ \E f \in Friends : \/ Joins(f)
                                 \/ \E want \in SUBSET Items : Claims(f, want)
                                 \/ \E h \in Calls : MarkPaid(h, f)
           \/ Deletes
           \/ \E h \in Calls : CountCollected(h) \/ CountFails(h)
           \/ OpenPage \/ Fetch \/ Swap \/ FetchFails
  BY <1>2 DEF Joins, Claims, MarkPaid, Deletes, CountCollected, CountFails, OpenPage, Fetch, Swap, FetchFails
<1>3. ASSUME NEW h \in Calls, Publish(h) PROVE [Channel!Next]_Channel!vars
  <2>1. total[h] \in Int
    BY DEF TrackInv, Handlers
  <2> QED
    BY <1>3, <2>1 DEF Publish, Channel!Offer, Channel!Next
<1>4. CASE ClosePage \/ Crash
  <2>1. streaming \in BOOLEAN /\ (~streaming => chan = <<>> /\ lost = {})
    BY DEF TrackInv, Stream
  <2>2. streaming' = FALSE /\ chan' = <<>> /\ lost' = {}
    BY <1>4 DEF ClosePage, Crash
  <2>3. CASE streaming
    BY <2>2, <2>3 DEF Channel!Unsubscribe, Channel!Next
  <2>4. CASE ~streaming
    BY <2>1, <2>2, <2>4
  <2> QED
    BY <2>3, <2>4
<1>5. CASE Connect \/ Disconnect \/ Event
  BY <1>5 DEF Connect, Disconnect, Event, Channel!Next
<1> QED
  BY <1>1, <1>2, <1>3, <1>4, <1>5 DEF TNext

-----------------------------------------------------------------------------
\* Paying, and watching who pays, is an implementation of the ledger: of each step
\* the rows see one operation of the store or nothing.
THEOREM TrackIsLedger == TSpec => Spec
<1>1. TInit => Init
  BY DEF TInit
<1> QED
  BY <1>1, TrackUsesLedger, PTL DEF TSpec, Spec

\* The page's event stream, through reconnects, closed pages and crashes, is one
\* lossy channel.
THEOREM TrackIsLossyChannel == TSpec => Channel!Spec
<1>1. TInit => Channel!Init
  BY DEF TInit
<1> QED
  BY <1>1, InitTrack, NextTrack, TrackUsesChannel, PTL DEF TSpec, Channel!Spec

-----------------------------------------------------------------------------
\* Type correctness of the payments and the tracking page; the totals that are
\* published are numbers.
THEOREM TrackTypes == TSpec => []TTypeOK
<1>1. TrackInv => TTypeOK
  BY DEF TrackInv, TTypeOK, Rows, Handlers, Stream, Browser
<1> QED
  BY InitTrack, NextTrack, <1>1, PTL DEF TSpec

\* A payment an open page does not show yet is on its way to it unless something
\* broke, for any number of friends, payments at once and events buffered.
THEOREM PaymentsReachPage == TSpec => []PaidShownOrComing
<1>1. TrackInv => PaidShownOrComing
  BY DEF TrackInv
<1> QED
  BY InitTrack, NextTrack, <1>1, PTL DEF TSpec

=============================================================================
