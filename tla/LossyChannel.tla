---------------------------- MODULE LossyChannel ----------------------------
(***************************************************************************)
(* What the SSE broker promises one subscriber: while subscribed it gets   *)
(* published messages in the order of publication, and a message is lost   *)
(* to it only when Capacity earlier ones are still waiting.  The losses    *)
(* are part of the state, so that whoever implements the channel has to    *)
(* account for each of them.                                               *)
(***************************************************************************)
EXTENDS Sequences, Naturals

CONSTANTS Messages, Capacity

VARIABLES
    live,   \* between subscribe and unsubscribe
    chan,   \* messages buffered for the subscriber
    lost    \* messages dropped for it since it subscribed

vars == <<live, chan, lost>>

Init == live = FALSE /\ chan = <<>> /\ lost = {}

Subscribe ==
    /\ ~live
    /\ live' = TRUE
    /\ chan' = <<>>
    /\ lost' = {}

Deliver(m) ==
    /\ live
    /\ Len(chan) < Capacity
    /\ chan' = Append(chan, m)
    /\ UNCHANGED <<live, lost>>

\* Publish's non-blocking send: the newest message is the one dropped, and
\* only from a full buffer.
Drop(m) ==
    /\ live
    /\ Len(chan) = Capacity
    /\ lost' = lost \cup {m}
    /\ UNCHANGED <<live, chan>>

Offer(m) == Deliver(m) \/ Drop(m)

Receive ==
    /\ chan # <<>>
    /\ chan' = Tail(chan)
    /\ UNCHANGED <<live, lost>>

\* What is still buffered is never read: the handler that would has returned.
Unsubscribe ==
    /\ live
    /\ live' = FALSE
    /\ chan' = <<>>
    /\ lost' = {}

Next ==
    \/ Subscribe
    \/ \E m \in Messages : Offer(m)
    \/ Receive
    \/ Unsubscribe

Spec == Init /\ [][Next]_vars
=============================================================================
