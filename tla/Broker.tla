------------------------------- MODULE Broker -------------------------------
(***************************************************************************)
(* The in-memory SSE broker of main.go: handleEvents goroutines subscribe, *)
(* receive and unsubscribe while paid-handlers publish.  The map of        *)
(* subscribers is only touched under the mutex; receiving from a channel,  *)
(* leaving the stream loop and closing the channel are not, so they fall   *)
(* between the sends of a publish half done.                               *)
(***************************************************************************)
EXTENDS Integers, Sequences, FiniteSets, SequencesExt

CONSTANTS
    Splits,     \* split ids
    Clients,    \* handleEvents calls; each makes one channel
    Messages,   \* publish calls; each has its own message
    Capacity,   \* the channel's buffer, 8 in the code
    Nobody      \* the mutex is free

ASSUME CapacityAssumption == Capacity \in Nat \ {0}
ASSUME GoroutinesAssumption == Clients \cap Messages = {} /\ Nobody \notin Clients \cup Messages

VARIABLES
    mu,       \* the holder of Broker.mu
    subs,     \* Broker.subs: split id -> channels, for the keys present
    buf,      \* messages waiting in each channel
    closed,   \* channels closed
    client,   \* where each handleEvents call is
    on,       \* the split it streams
    got,      \* what it has written to its response
    pub,      \* where each publish call is
    to,       \* its split
    targets,  \* the channels its loop has not visited yet
    \* history variables
    sent,     \* messages in the order in which publish took the mutex
    since,    \* Len(sent) when the client was added
    lost      \* messages dropped for a client

registry == <<mu, subs>>
streams == <<buf, closed, client, on, got>>
publishing == <<pub, to, targets>>
history == <<sent, since, lost>>
vars == <<registry, streams, publishing, history>>

Subscribers(s) == IF s \in DOMAIN subs THEN subs[s] ELSE {}

Init ==
    /\ mu = Nobody
    /\ subs = [s \in {} |-> {}]
    /\ buf = [c \in Clients |-> <<>>]
    /\ closed = [c \in Clients |-> FALSE]
    /\ client = [c \in Clients |-> "away"]
    /\ on \in [Clients -> Splits]
    /\ got = [c \in Clients |-> <<>>]
    /\ pub = [m \in Messages |-> "away"]
    /\ to \in [Messages -> Splits]
    /\ targets = [m \in Messages |-> {}]
    /\ sent = <<>>
    /\ since = [c \in Clients |-> 0]
    /\ lost = [c \in Clients |-> {}]

Lock(g) == mu = Nobody /\ mu' = g
Unlock(g) == mu = g /\ mu' = Nobody

Goto(c, from, next) == client[c] = from /\ client' = [client EXCEPT ![c] = next]

-----------------------------------------------------------------------------
\* handleEvents: subscribe, the stream loop, the deferred unsubscribe.

SubscribeLock(c) ==
    /\ Goto(c, "away", "adding")
    /\ Lock(c)
    /\ UNCHANGED <<subs, buf, closed, on, got, publishing, history>>

Register(c) ==
    /\ Goto(c, "adding", "streaming")
    /\ subs' = [s \in DOMAIN subs \cup {on[c]} |->
                   IF s = on[c] THEN Subscribers(s) \cup {c} ELSE subs[s]]
    /\ since' = [since EXCEPT ![c] = Len(sent)]
    /\ Unlock(c)
    /\ UNCHANGED <<buf, closed, on, got, publishing, sent, lost>>

\* One round of the select: take a message, write it, flush.
Receive(c) ==
    /\ client[c] = "streaming"
    /\ buf[c] # <<>>
    /\ got' = [got EXCEPT ![c] = Append(@, Head(buf[c]))]
    /\ buf' = [buf EXCEPT ![c] = Tail(@)]
    /\ UNCHANGED <<registry, closed, client, on, publishing, history>>

\* Mutant: the channel is closed before it is unsubscribed.
DisconnectClosing(c) ==
    /\ Goto(c, "streaming", "leaving")
    /\ closed' = [closed EXCEPT ![c] = TRUE]
    /\ UNCHANGED <<registry, buf, on, got, publishing, history>>

\* The request's context is done; the select may see this with messages waiting.
Disconnect(c) ==
    /\ Goto(c, "streaming", "leaving")
    /\ UNCHANGED <<registry, buf, closed, on, got, publishing, history>>

UnsubscribeLock(c) ==
    /\ Goto(c, "leaving", "removing")
    /\ Lock(c)
    /\ UNCHANGED <<subs, buf, closed, on, got, publishing, history>>

\* Mutant: the split's entry stays behind empty.
UnregisterKeepingKey(c) ==
    /\ Goto(c, "removing", "closing")
    /\ subs' = [subs EXCEPT ![on[c]] = @ \ {c}]
    /\ Unlock(c)
    /\ UNCHANGED <<buf, closed, on, got, publishing, history>>

\* The last subscriber takes the split's entry with it.
Unregister(c) ==
    LET others == Subscribers(on[c]) \ {c} IN
    /\ Goto(c, "removing", "closing")
    /\ subs' = [s \in DOMAIN subs \ (IF others = {} THEN {on[c]} ELSE {}) |->
                   IF s = on[c] THEN others ELSE subs[s]]
    /\ Unlock(c)
    /\ UNCHANGED <<buf, closed, on, got, publishing, history>>

\* close(ch) comes after the unlock.
Close(c) ==
    /\ Goto(c, "closing", "gone")
    /\ closed' = [closed EXCEPT ![c] = TRUE]
    /\ UNCHANGED <<registry, buf, on, got, publishing, history>>

-----------------------------------------------------------------------------
\* publish

PublishLock(m) ==
    /\ pub[m] = "away"
    /\ Lock(m)
    /\ pub' = [pub EXCEPT ![m] = "sending"]
    /\ targets' = [targets EXCEPT ![m] = Subscribers(to[m])]
    /\ sent' = Append(sent, m)
    /\ UNCHANGED <<subs, streams, to, since, lost>>

\* Mutant: the send waits for room.
SendBlocking(m, c) ==
    /\ pub[m] = "sending"
    /\ c \in targets[m]
    /\ Len(buf[c]) < Capacity
    /\ targets' = [targets EXCEPT ![m] = @ \ {c}]
    /\ buf' = [buf EXCEPT ![c] = Append(@, m)]
    /\ UNCHANGED <<registry, closed, client, on, got, pub, to, sent, since, lost>>

\* Mutant: one message too many fits.
SendOneMore(m, c) ==
    /\ pub[m] = "sending"
    /\ c \in targets[m]
    /\ targets' = [targets EXCEPT ![m] = @ \ {c}]
    /\ buf' = IF Len(buf[c]) <= Capacity THEN [buf EXCEPT ![c] = Append(@, m)] ELSE buf
    /\ UNCHANGED <<registry, closed, client, on, got, pub, to, sent, since, lost>>

\* Mutant: the message is dropped with one place still free.
SendOneFewer(m, c) ==
    /\ pub[m] = "sending"
    /\ c \in targets[m]
    /\ targets' = [targets EXCEPT ![m] = @ \ {c}]
    /\ IF Len(buf[c]) < Capacity - 1
       THEN /\ buf' = [buf EXCEPT ![c] = Append(@, m)]
            /\ UNCHANGED lost
       ELSE /\ lost' = [lost EXCEPT ![c] = @ \cup {m}]
            /\ UNCHANGED buf
    /\ UNCHANGED <<registry, closed, client, on, got, pub, to, sent, since>>

\* Mutant: a full buffer ends the loop (return for continue).
SendStoppingWhenFull(m, c) ==
    /\ pub[m] = "sending"
    /\ c \in targets[m]
    /\ IF Len(buf[c]) < Capacity
       THEN /\ buf' = [buf EXCEPT ![c] = Append(@, m)]
            /\ targets' = [targets EXCEPT ![m] = @ \ {c}]
            /\ UNCHANGED lost
       ELSE /\ lost' = [lost EXCEPT ![c] = @ \cup {m}]
            /\ targets' = [targets EXCEPT ![m] = {}]
            /\ UNCHANGED buf
    /\ UNCHANGED <<registry, closed, client, on, got, pub, to, sent, since>>

\* One round of the loop: the send does not wait for room.
Send(m, c) ==
    /\ pub[m] = "sending"
    /\ c \in targets[m]
    /\ targets' = [targets EXCEPT ![m] = @ \ {c}]
    /\ IF Len(buf[c]) < Capacity
       THEN /\ buf' = [buf EXCEPT ![c] = Append(@, m)]
            /\ UNCHANGED lost
       ELSE /\ lost' = [lost EXCEPT ![c] = @ \cup {m}]
            /\ UNCHANGED buf
    /\ UNCHANGED <<registry, closed, client, on, got, pub, to, sent, since>>

PublishUnlock(m) ==
    /\ pub[m] = "sending"
    /\ targets[m] = {}
    /\ Unlock(m)
    /\ pub' = [pub EXCEPT ![m] = "done"]
    /\ UNCHANGED <<subs, streams, to, targets, history>>

-----------------------------------------------------------------------------
Leave(c) == UnsubscribeLock(c) \/ Unregister(c) \/ Close(c)
Publish(m) == PublishLock(m) \/ (\E c \in Clients : Send(m, c)) \/ PublishUnlock(m)

Next ==
    \/ \E c \in Clients :
        SubscribeLock(c) \/ Register(c) \/ Receive(c) \/ Disconnect(c) \/ Leave(c)
    \/ \E m \in Messages : Publish(m)

Spec == Init /\ [][Next]_vars

\* A runnable goroutine runs, so whoever holds the mutex or has left the map
\* goes on.  Nothing makes a client read, hang up or arrive.
Fairness ==
    /\ \A c \in Clients : WF_vars(Register(c) \/ Unregister(c) \/ Close(c))
    /\ \A m \in Messages : WF_vars((\E c \in Clients : Send(m, c)) \/ PublishUnlock(m))

FairSpec == Spec /\ Fairness

-----------------------------------------------------------------------------
\* Everything written to or waiting for a client, in order.
Stream(c) == got[c] \o buf[c]

TypeOK ==
    /\ mu \in Clients \cup Messages \cup {Nobody}
    /\ DOMAIN subs \subseteq Splits
    /\ \A s \in DOMAIN subs : subs[s] \subseteq Clients
    /\ \A c \in Clients : /\ Len(buf[c]) <= Capacity
                          /\ ToSet(Stream(c)) \subseteq Messages
                          /\ since[c] \in 0..Len(sent)
    /\ closed \in [Clients -> BOOLEAN]
    /\ client \in [Clients -> {"away", "adding", "streaming", "leaving",
                               "removing", "closing", "gone"}]
    /\ on \in [Clients -> Splits]
    /\ to \in [Messages -> Splits]
    /\ pub \in [Messages -> {"away", "sending", "done"}]
    /\ targets \in [Messages -> SUBSET Clients]
    /\ lost \in [Clients -> SUBSET Messages]

\* publish never sends on a closed channel, which would crash the server: the
\* close comes after the channel has left the map, and a publish in progress
\* holds the mutex that leaving needs.
NoSendOnClosed ==
    /\ \A m \in Messages, c \in Clients : c \in targets[m] => ~closed[c]
    /\ \A s \in DOMAIN subs, c \in Clients : c \in subs[s] => ~closed[c]

\* The places in sent of the messages a client should have by now: those of its
\* split published since it was added, except those dropped for it and those
\* publish is still handing out.
Due(c) ==
    {i \in since[c] + 1 .. Len(sent) :
        /\ to[sent[i]] = on[c]
        /\ sent[i] \notin lost[c]
        /\ c \notin targets[sent[i]]}

InOrder(c) ==
    /\ ToSet(Stream(c)) = {sent[i] : i \in Due(c)}
    /\ \A i, j \in DOMAIN Stream(c) :
           i < j => \E k, l \in Due(c) :
                        k < l /\ Stream(c)[i] = sent[k] /\ Stream(c)[j] = sent[l]
    /\ IsInjective(Stream(c))

\* A client streams exactly the messages due to it, in the one order of
\* publication that all clients see, and none of them twice.
StreamIsPublicationOrder == \A c \in Clients : client[c] = "streaming" => InOrder(c)

\* Splits nobody watches take no room in the map.
NoEmptyEntries ==
    /\ \A s \in DOMAIN subs : subs[s] # {}
    /\ (\A c \in Clients : client[c] \in {"away", "gone"}) => DOMAIN subs = {}

\* Whoever gets the mutex lets it go, even when other clients never read their
\* streams: a publish does not wait for slow clients, so they delay neither
\* paid-handlers nor the subscribers behind them.
MutexReleased ==
    \A g \in Clients \cup Messages : (mu = g) ~> (mu # g)

Subscribed(c) == \E s \in DOMAIN subs : c \in subs[s]
Channel(c) ==
    INSTANCE LossyChannel WITH
        live <- Subscribed(c),
        chan <- IF Subscribed(c) THEN buf[c] ELSE <<>>,
        lost <- IF Subscribed(c) THEN lost[c] ELSE {}

\* To each subscriber the broker is the lossy channel Track relies on: every
\* send it makes either delivers or drops, and it drops from a full buffer only.
\* With StreamIsPublicationOrder, where only a dropped message may be missing,
\* no message is lost while there is room for it.
LossyChannels ==
    /\ \A c \in Clients : Channel(c)!Init
    /\ [][\A c \in Clients : [Channel(c)!Next]_(Channel(c)!vars)]_vars

=============================================================================
