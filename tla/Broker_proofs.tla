---------------------------- MODULE Broker_proofs ----------------------------
(***************************************************************************)
(* The SSE broker for any number of clients, splits and publish calls and  *)
(* any buffer: the mutex keeps channels that are published to open, the    *)
(* streams are in the order of publication, and to each subscriber the     *)
(* broker is a LossyChannel.                                               *)
(***************************************************************************)
EXTENDS Broker, SequenceTheorems, TLAPS

\* What is buffered and written are published messages; no message is
\* published twice.
StreamTypes ==
    /\ buf \in [Clients -> Seq(Messages)]
    /\ got \in [Clients -> Seq(Messages)]
    /\ sent \in Seq(Messages)
    /\ since \in [Clients -> Nat]
    /\ \A c \in Clients : Len(buf[c]) <= Capacity /\ since[c] <= Len(sent)

MapTypes ==
    /\ mu \in Clients \cup Messages \cup {Nobody}
    /\ DOMAIN subs \subseteq Splits
    /\ \A s \in DOMAIN subs : subs[s] \subseteq Clients
    /\ closed \in [Clients -> BOOLEAN]
    /\ client \in [Clients -> {"away", "adding", "streaming", "leaving",
                               "removing", "closing", "gone"}]
    /\ on \in [Clients -> Splits]
    /\ to \in [Messages -> Splits]
    /\ pub \in [Messages -> {"away", "sending", "done"}]
    /\ targets \in [Messages -> SUBSET Clients]
    /\ lost \in [Clients -> SUBSET Messages]

\* The mutex is held exactly between a Lock and its Unlock.
MutexInv ==
    /\ \A c \in Clients : client[c] \in {"adding", "removing"} <=> mu = c
    /\ \A m \in Messages : pub[m] = "sending" <=> mu = m

\* A channel is in the map, under its own split only, from Register to
\* Unregister, and it is closed after that.
RegistryInv ==
    /\ \A s \in DOMAIN subs : subs[s] # {}
    /\ \A s \in DOMAIN subs, c \in Clients :
          c \in subs[s] => s = on[c] /\ client[c] \in {"streaming", "leaving", "removing"}
    /\ \A c \in Clients :
          /\ client[c] \in {"streaming", "leaving", "removing"} => on[c] \in DOMAIN subs /\ c \in subs[on[c]]
          /\ closed[c] => client[c] = "gone"

\* A publish call at work has yet to visit channels in the map only.
TargetsInv ==
    \A m \in Messages, c \in Clients :
        c \in targets[m] => pub[m] = "sending" /\ on[c] = to[m] /\ to[m] \in DOMAIN subs /\ c \in subs[to[m]]

MapInv == MapTypes /\ StreamTypes /\ MutexInv /\ RegistryInv /\ TargetsInv

\* Each message is published once, and the one being handed out is the last.
SentInv ==
    /\ IsInjective(sent)
    /\ \A m \in Messages :
          /\ pub[m] = "away" => \A i \in DOMAIN sent : sent[i] # m
          /\ pub[m] = "sending" => sent # <<>> /\ sent[Len(sent)] = m
    /\ \A m \in Messages, c \in Clients :
          /\ c \in targets[m] => m \notin lost[c] /\ since[c] < Len(sent)
          /\ pub[m] = "away" => m \notin lost[c]

\* Before a client is added nothing waits for it and nothing was dropped.
FreshInv ==
    \A c \in Clients : client[c] \in {"away", "adding"} =>
        buf[c] = <<>> /\ got[c] = <<>> /\ lost[c] = {}

OrderInv == MapInv /\ SentInv /\ FreshInv /\ StreamIsPublicationOrder

-----------------------------------------------------------------------------
\* The first element of a sequence may as well end the one before it.
LEMMA HeadMoves ==
  ASSUME NEW S, NEW g \in Seq(S), NEW b \in Seq(S), b # <<>>
  PROVE  Append(g, Head(b)) \o Tail(b) = g \o b
<1> DEFINE h == Append(g, Head(b))
<1>1. Head(b) \in S /\ Tail(b) \in Seq(S) /\ Len(Tail(b)) = Len(b) - 1
  BY HeadTailProperties
<1>2. \A i \in 1 .. Len(b) - 1 : Tail(b)[i] = b[i + 1]
  BY HeadTailProperties
<1>3. h \in Seq(S) /\ Len(h) = Len(g) + 1 /\ h[Len(g) + 1] = b[1] /\ \A i \in 1 .. Len(g) : h[i] = g[i]
  BY <1>1, AppendProperties
<1>4. Len(g) \in Nat /\ Len(b) \in Nat
  OBVIOUS
<1> HIDE DEF h
<1>5. h \o Tail(b) \in Seq(S) /\ g \o b \in Seq(S) /\ Len(h \o Tail(b)) = Len(g \o b)
  <2>1. h \o Tail(b) \in Seq(S) /\ Len(h \o Tail(b)) = Len(h) + Len(Tail(b))
    BY <1>1, <1>3, ConcatProperties
  <2>2. g \o b \in Seq(S) /\ Len(g \o b) = Len(g) + Len(b)
    BY ConcatProperties
  <2> QED
    BY <2>1, <2>2, <1>1, <1>3, <1>4
<1>6. ASSUME NEW i \in 1 .. Len(h \o Tail(b)) PROVE (h \o Tail(b))[i] = (g \o b)[i]
  <2>1. i \in 1 .. Len(g) + Len(b) /\ i \in 1 .. Len(h) + Len(Tail(b))
    BY <1>1, <1>3, <1>4, <1>5, ConcatProperties
  <2>2. (h \o Tail(b))[i] = IF i <= Len(h) THEN h[i] ELSE Tail(b)[i - Len(h)]
    BY <2>1, <1>1, <1>3, ConcatProperties
  <2>3. (g \o b)[i] = IF i <= Len(g) THEN g[i] ELSE b[i - Len(g)]
    BY <2>1, ConcatProperties
  <2> QED
    BY <2>1, <2>2, <2>3, <1>2, <1>3, <1>4
<1>7. h \o Tail(b) = g \o b
  BY <1>5, <1>6, SeqEqual
<1> QED
  BY <1>7 DEF h

LEMMA AppendToConcat ==
  ASSUME NEW S, NEW g \in Seq(S), NEW b \in Seq(S), NEW m \in S
  PROVE  g \o Append(b, m) = Append(g \o b, m)
<1>1. <<m>> \in Seq(S) /\ g \o b \in Seq(S)
  OBVIOUS
<1>2. Append(b, m) = b \o <<m>> /\ Append(g \o b, m) = (g \o b) \o <<m>>
  BY <1>1, AppendIsConcat
<1> QED
  BY <1>1, <1>2, ConcatAssociative

\* What is streamed is a sequence of messages.
LEMMA StreamOfMessages ==
  ASSUME StreamTypes, NEW c \in Clients
  PROVE  Stream(c) \in Seq(Messages) /\ ToSet(Stream(c)) \subseteq Messages
<1>1. Stream(c) \in Seq(Messages)
  BY DEF StreamTypes, Stream
<1> QED
  BY <1>1 DEF ToSet

LEMMA TypesSuffice == MapTypes /\ StreamTypes => TypeOK
<1> SUFFICES ASSUME MapTypes, StreamTypes PROVE TypeOK
  OBVIOUS
<1>1. \A c \in Clients : /\ Len(buf[c]) <= Capacity
                         /\ ToSet(Stream(c)) \subseteq Messages
                         /\ since[c] \in 0..Len(sent)
  <2> TAKE c \in Clients
  <2>1. Len(sent) \in Nat
    BY DEF StreamTypes
  <2> QED
    BY <2>1, StreamOfMessages DEF StreamTypes
<1> QED
  BY <1>1 DEF MapTypes, TypeOK

LEMMA InitMap == Init => MapInv
<1> SUFFICES ASSUME Init PROVE MapInv
  OBVIOUS
<1> USE CapacityAssumption, GoroutinesAssumption DEF Init
<1>1. MapTypes
  BY DEF MapTypes
<1>2. StreamTypes
  BY DEF StreamTypes
<1>3. MutexInv /\ RegistryInv /\ TargetsInv
  BY DEF MutexInv, RegistryInv, TargetsInv
<1> QED
  BY <1>1, <1>2, <1>3 DEF MapInv

LEMMA SubscribeLockMap ==
  ASSUME MapInv, NEW c \in Clients, SubscribeLock(c)
  PROVE  MapInv'
<1> USE GoroutinesAssumption DEF MapInv, MapTypes, registry, streams, publishing, history, Lock, Unlock, Goto, Subscribers
<1>1. MapTypes'
  BY DEF SubscribeLock
<1>2. StreamTypes'
  BY DEF SubscribeLock, StreamTypes
<1>3. MutexInv'
  BY DEF SubscribeLock, MutexInv
<1>4. RegistryInv'
  BY DEF SubscribeLock, MutexInv, RegistryInv
<1>5. TargetsInv'
  BY DEF SubscribeLock, MutexInv, RegistryInv, TargetsInv
<1> QED
  BY <1>1, <1>2, <1>3, <1>4, <1>5

LEMMA RegisterMap ==
  ASSUME MapInv, NEW c \in Clients, Register(c)
  PROVE  MapInv'
<1> USE GoroutinesAssumption DEF MapInv, MapTypes, registry, streams, publishing, history, Lock, Unlock, Goto, Subscribers
<1>1. MapTypes'
  BY DEF Register
<1>2. StreamTypes'
  BY DEF Register, StreamTypes
<1>3. MutexInv'
  BY DEF Register, MutexInv
<1>4. RegistryInv'
  <2>1. /\ DOMAIN subs' = DOMAIN subs \cup {on[c]}
        /\ subs'[on[c]] = Subscribers(on[c]) \cup {c}
        /\ \A s \in DOMAIN subs : s # on[c] => subs'[s] = subs[s]
        /\ client[c] = "adding" /\ client' = [client EXCEPT ![c] = "streaming"]
        /\ UNCHANGED <<closed, on>>
    BY DEF Register
  <2>2. \A s \in DOMAIN subs' : subs'[s] # {}
    BY <2>1 DEF RegistryInv
  <2>3. \A s \in DOMAIN subs', d \in Clients :
          d \in subs'[s] => s = on[d] /\ client'[d] \in {"streaming", "leaving", "removing"}
    <3> TAKE s \in DOMAIN subs', d \in Clients
    <3>1. CASE d = c
      BY <3>1, <2>1 DEF RegistryInv
    <3>2. CASE d # c
      BY <3>2, <2>1 DEF RegistryInv
    <3> QED
      BY <3>1, <3>2
  <2>4. \A d \in Clients :
          /\ client'[d] \in {"streaming", "leaving", "removing"} => on[d] \in DOMAIN subs' /\ d \in subs'[on[d]]
          /\ closed[d] => client'[d] = "gone"
    <3> TAKE d \in Clients
    <3>1. CASE d = c
      BY <3>1, <2>1 DEF RegistryInv
    <3>2. CASE d # c
      BY <3>2, <2>1 DEF RegistryInv
    <3> QED
      BY <3>1, <3>2
  <2> QED
    BY <2>1, <2>2, <2>3, <2>4 DEF RegistryInv
<1>5. TargetsInv'
  BY DEF Register, MutexInv, RegistryInv, TargetsInv
<1> QED
  BY <1>1, <1>2, <1>3, <1>4, <1>5

LEMMA ReceiveMap ==
  ASSUME MapInv, NEW c \in Clients, Receive(c)
  PROVE  MapInv'
<1> USE GoroutinesAssumption DEF MapInv, MapTypes, registry, streams, publishing, history, Lock, Unlock, Goto, Subscribers
<1>1. MapTypes'
  BY DEF Receive
<1>2. StreamTypes'
  <2>1. /\ UNCHANGED <<sent, since>>
        /\ got' = [got EXCEPT ![c] = Append(@, Head(buf[c]))]
        /\ buf' = [buf EXCEPT ![c] = Tail(@)]
    BY DEF Receive
  <2>2. buf[c] \in Seq(Messages) /\ buf[c] # <<>> /\ got[c] \in Seq(Messages) /\ Capacity \in Nat
    BY CapacityAssumption DEF Receive, StreamTypes
  <2>3. Head(buf[c]) \in Messages /\ Tail(buf[c]) \in Seq(Messages) /\ Len(Tail(buf[c])) = Len(buf[c]) - 1
    BY <2>2
  <2>4. Append(got[c], Head(buf[c])) \in Seq(Messages) /\ Len(Tail(buf[c])) <= Capacity
    BY <2>2, <2>3 DEF StreamTypes
  <2> QED
    BY <2>1, <2>3, <2>4 DEF StreamTypes
<1>3. MutexInv'
  BY DEF Receive, MutexInv
<1>4. RegistryInv'
  BY DEF Receive, MutexInv, RegistryInv
<1>5. TargetsInv'
  BY DEF Receive, MutexInv, RegistryInv, TargetsInv
<1> QED
  BY <1>1, <1>2, <1>3, <1>4, <1>5

LEMMA DisconnectMap ==
  ASSUME MapInv, NEW c \in Clients, Disconnect(c)
  PROVE  MapInv'
<1> USE GoroutinesAssumption DEF MapInv, MapTypes, registry, streams, publishing, history, Lock, Unlock, Goto, Subscribers
<1>1. MapTypes'
  BY DEF Disconnect
<1>2. StreamTypes'
  BY DEF Disconnect, StreamTypes
<1>3. MutexInv'
  BY DEF Disconnect, MutexInv
<1>4. RegistryInv'
  BY DEF Disconnect, MutexInv, RegistryInv
<1>5. TargetsInv'
  BY DEF Disconnect, MutexInv, RegistryInv, TargetsInv
<1> QED
  BY <1>1, <1>2, <1>3, <1>4, <1>5

LEMMA UnsubscribeLockMap ==
  ASSUME MapInv, NEW c \in Clients, UnsubscribeLock(c)
  PROVE  MapInv'
<1> USE GoroutinesAssumption DEF MapInv, MapTypes, registry, streams, publishing, history, Lock, Unlock, Goto, Subscribers
<1>1. MapTypes'
  BY DEF UnsubscribeLock
<1>2. StreamTypes'
  BY DEF UnsubscribeLock, StreamTypes
<1>3. MutexInv'
  BY DEF UnsubscribeLock, MutexInv
<1>4. RegistryInv'
  BY DEF UnsubscribeLock, MutexInv, RegistryInv
<1>5. TargetsInv'
  BY DEF UnsubscribeLock, MutexInv, RegistryInv, TargetsInv
<1> QED
  BY <1>1, <1>2, <1>3, <1>4, <1>5

LEMMA UnregisterMap ==
  ASSUME MapInv, NEW c \in Clients, Unregister(c)
  PROVE  MapInv'
<1> USE GoroutinesAssumption DEF MapInv, MapTypes, registry, streams, publishing, history, Lock, Unlock, Goto, Subscribers
<1>1. MapTypes'
  BY DEF Unregister
<1>2. StreamTypes'
  BY DEF Unregister, StreamTypes
<1>3. MutexInv'
  BY DEF Unregister, MutexInv
<1>4. RegistryInv'
  BY DEF Unregister, MutexInv, RegistryInv
<1>5. TargetsInv'
  BY DEF Unregister, MutexInv, RegistryInv, TargetsInv
<1> QED
  BY <1>1, <1>2, <1>3, <1>4, <1>5

LEMMA CloseMap ==
  ASSUME MapInv, NEW c \in Clients, Close(c)
  PROVE  MapInv'
<1> USE GoroutinesAssumption DEF MapInv, MapTypes, registry, streams, publishing, history, Lock, Unlock, Goto, Subscribers
<1>1. MapTypes'
  BY DEF Close
<1>2. StreamTypes'
  BY DEF Close, StreamTypes
<1>3. MutexInv'
  BY DEF Close, MutexInv
<1>4. RegistryInv'
  BY DEF Close, MutexInv, RegistryInv
<1>5. TargetsInv'
  BY DEF Close, MutexInv, RegistryInv, TargetsInv
<1> QED
  BY <1>1, <1>2, <1>3, <1>4, <1>5

LEMMA PublishLockMap ==
  ASSUME MapInv, NEW m \in Messages, PublishLock(m)
  PROVE  MapInv'
<1> USE GoroutinesAssumption DEF MapInv, MapTypes, registry, streams, publishing, history, Lock, Unlock, Goto, Subscribers
<1>1. MapTypes'
  BY DEF PublishLock
<1>2. StreamTypes'
  BY DEF PublishLock, StreamTypes
<1>3. MutexInv'
  BY DEF PublishLock, MutexInv
<1>4. RegistryInv'
  BY DEF PublishLock, MutexInv, RegistryInv
<1>5. TargetsInv'
  BY DEF PublishLock, MutexInv, RegistryInv, TargetsInv
<1> QED
  BY <1>1, <1>2, <1>3, <1>4, <1>5

LEMMA SendMap ==
  ASSUME MapInv, NEW m \in Messages, NEW c \in Clients, Send(m, c)
  PROVE  MapInv'
<1> USE GoroutinesAssumption DEF MapInv, MapTypes, registry, streams, publishing, history, Lock, Unlock, Goto, Subscribers
<1>1. MapTypes'
  BY DEF Send
<1>2. StreamTypes'
  <2>1. /\ UNCHANGED <<got, sent, since>>
        /\ buf' = buf \/ (Len(buf[c]) < Capacity /\ buf' = [buf EXCEPT ![c] = Append(@, m)])
    BY DEF Send
  <2>2. buf[c] \in Seq(Messages) /\ Capacity \in Nat
    BY CapacityAssumption DEF StreamTypes
  <2>3. Append(buf[c], m) \in Seq(Messages) /\ Len(Append(buf[c], m)) = Len(buf[c]) + 1
    BY <2>2
  <2>4. CASE buf' = buf
    BY <2>1, <2>4 DEF StreamTypes
  <2>5. CASE Len(buf[c]) < Capacity /\ buf' = [buf EXCEPT ![c] = Append(@, m)]
    <3>1. Len(Append(buf[c], m)) <= Capacity
      BY <2>2, <2>3, <2>5
    <3> QED
      BY <2>1, <2>3, <2>5, <3>1 DEF StreamTypes
  <2> QED
    BY <2>1, <2>4, <2>5
<1>3. MutexInv'
  BY DEF Send, MutexInv
<1>4. RegistryInv'
  BY DEF Send, MutexInv, RegistryInv
<1>5. TargetsInv'
  BY DEF Send, MutexInv, RegistryInv, TargetsInv
<1> QED
  BY <1>1, <1>2, <1>3, <1>4, <1>5

LEMMA PublishUnlockMap ==
  ASSUME MapInv, NEW m \in Messages, PublishUnlock(m)
  PROVE  MapInv'
<1> USE GoroutinesAssumption DEF MapInv, MapTypes, registry, streams, publishing, history, Lock, Unlock, Goto, Subscribers
<1>1. MapTypes'
  BY DEF PublishUnlock
<1>2. StreamTypes'
  BY DEF PublishUnlock, StreamTypes
<1>3. MutexInv'
  BY DEF PublishUnlock, MutexInv
<1>4. RegistryInv'
  BY DEF PublishUnlock, MutexInv, RegistryInv
<1>5. TargetsInv'
  BY DEF PublishUnlock, MutexInv, RegistryInv, TargetsInv
<1> QED
  BY <1>1, <1>2, <1>3, <1>4, <1>5

LEMMA NextMap == MapInv /\ [Next]_vars => MapInv'
<1> SUFFICES ASSUME MapInv, [Next]_vars PROVE MapInv'
  OBVIOUS
<1>1. CASE UNCHANGED vars
  BY <1>1 DEF vars, registry, streams, publishing, history, MapInv, MapTypes, StreamTypes, MutexInv, RegistryInv, TargetsInv
<1> QED
  BY <1>1, SubscribeLockMap, RegisterMap, ReceiveMap, DisconnectMap, UnsubscribeLockMap, UnregisterMap, CloseMap,
     PublishLockMap, SendMap, PublishUnlockMap DEF Next, Leave, Publish

-----------------------------------------------------------------------------
\* The order of the streams.

\* What a client is owed and what it has depend on these variables only.
LEMMA SameOrder ==
  ASSUME NEW c \in Clients, InOrder(c), Stream(c)' = Stream(c), UNCHANGED sent, Due(c)' = Due(c)
  PROVE  InOrder(c)'
BY DEF InOrder, IsInjective

LEMMA QuietOrder ==
  ASSUME OrderInv, UNCHANGED <<buf, got, sent, since, lost, targets, to, on>>,
         \A c \in Clients : /\ client'[c] = "streaming" => client[c] = "streaming"
                            /\ client'[c] \in {"away", "adding"} => client[c] \in {"away", "adding"},
         \A m \in Messages : /\ pub'[m] = "away" => pub[m] = "away"
                             /\ pub'[m] = "sending" => pub[m] = "sending"
  PROVE  SentInv' /\ FreshInv' /\ StreamIsPublicationOrder'
<1>1. \A c \in Clients : Stream(c)' = Stream(c) /\ Due(c)' = Due(c)
  BY DEF Stream, Due
<1>2. StreamIsPublicationOrder'
  <2> SUFFICES ASSUME NEW c \in Clients, client'[c] = "streaming" PROVE InOrder(c)'
    BY DEF StreamIsPublicationOrder
  <2>1. InOrder(c)
    BY DEF OrderInv, StreamIsPublicationOrder
  <2> QED
    BY <2>1, <1>1, SameOrder
<1>3. SentInv'
  BY DEF OrderInv, SentInv
<1>4. FreshInv'
  BY DEF OrderInv, FreshInv
<1> QED
  BY <1>2, <1>3, <1>4

\* Nothing is due to a client that was just added, and nothing waits for it.
LEMMA RegisterOrder ==
  ASSUME OrderInv, NEW c \in Clients, Register(c)
  PROVE  SentInv' /\ FreshInv' /\ StreamIsPublicationOrder'
<1>1. /\ UNCHANGED <<buf, got, sent, lost, targets, to, on, pub>>
      /\ client[c] = "adding" /\ client' = [client EXCEPT ![c] = "streaming"]
      /\ since' = [since EXCEPT ![c] = Len(sent)]
      /\ mu = c
  BY DEF Register, Goto, Unlock, publishing
<1>2. \A d \in Clients : Stream(d)' = Stream(d)
  BY <1>1 DEF Stream
<1>3. Len(sent) \in Nat /\ since \in [Clients -> Nat]
  BY DEF OrderInv, MapInv, StreamTypes
<1>4. InOrder(c)'
  <2>1. Due(c)' = {}
    BY <1>1, <1>3 DEF Due
  <2>2. Stream(c)' = <<>>
    BY <1>1 DEF OrderInv, FreshInv, Stream
  <2> QED
    BY <2>1, <2>2 DEF InOrder, ToSet, IsInjective
<1>5. \A d \in Clients : d # c => Due(d)' = Due(d)
  BY <1>1, <1>3 DEF Due
<1>6. StreamIsPublicationOrder'
  <2> SUFFICES ASSUME NEW d \in Clients, client'[d] = "streaming" PROVE InOrder(d)'
    BY DEF StreamIsPublicationOrder
  <2>1. CASE d = c
    BY <2>1, <1>4
  <2>2. CASE d # c
    BY <2>2, <1>1, <1>2, <1>5, SameOrder DEF OrderInv, StreamIsPublicationOrder, MapInv, MapTypes
  <2> QED
    BY <2>1, <2>2
<1>7. SentInv'
  <2>1. \A m \in Messages : pub[m] # "sending"
    BY <1>1, GoroutinesAssumption DEF OrderInv, MapInv, MutexInv
  <2>2. \A m \in Messages : targets[m] = {}
    BY <2>1 DEF OrderInv, MapInv, MapTypes, TargetsInv
  <2> QED
    BY <2>2, <1>1 DEF OrderInv, SentInv
<1>8. FreshInv'
  BY <1>1 DEF OrderInv, FreshInv, MapInv, MapTypes
<1> QED
  BY <1>6, <1>7, <1>8

\* Moving a message from the buffer to the response leaves the stream as it is.
LEMMA ReceiveOrder ==
  ASSUME OrderInv, NEW c \in Clients, Receive(c)
  PROVE  SentInv' /\ FreshInv' /\ StreamIsPublicationOrder'
<1>1. /\ UNCHANGED <<client, sent, since, lost, targets, to, on, pub>>
      /\ client[c] = "streaming" /\ buf[c] # <<>>
      /\ got' = [got EXCEPT ![c] = Append(@, Head(buf[c]))]
      /\ buf' = [buf EXCEPT ![c] = Tail(@)]
  BY DEF Receive, publishing, history
<1>2. \A d \in Clients : got[d] \in Seq(Messages) /\ buf[d] \in Seq(Messages)
  BY DEF OrderInv, MapInv, StreamTypes
<1>3. got \in [Clients -> Seq(Messages)] /\ buf \in [Clients -> Seq(Messages)]
  BY DEF OrderInv, MapInv, StreamTypes
<1>4. Append(got[c], Head(buf[c])) \o Tail(buf[c]) = got[c] \o buf[c]
  BY <1>1, <1>2, HeadMoves
<1>5. \A d \in Clients : Stream(d)' = Stream(d)
  BY <1>1, <1>3, <1>4 DEF Stream
<1>6. \A d \in Clients : Due(d)' = Due(d)
  BY <1>1 DEF Due
<1>7. StreamIsPublicationOrder'
  BY <1>1, <1>5, <1>6, SameOrder DEF OrderInv, StreamIsPublicationOrder
<1>8. SentInv'
  BY <1>1 DEF OrderInv, SentInv
<1>9. FreshInv'
  BY <1>1, <1>3 DEF OrderInv, FreshInv
<1> QED
  BY <1>7, <1>8, <1>9

\* A message that is published comes last, and is not due to a subscriber before
\* its turn in the loop.
LEMMA PublishLockOrder ==
  ASSUME OrderInv, NEW m \in Messages, PublishLock(m)
  PROVE  SentInv' /\ FreshInv' /\ StreamIsPublicationOrder'
<1>1. /\ UNCHANGED <<subs, buf, closed, client, on, got, to, since, lost>>
      /\ pub[m] = "away" /\ pub' = [pub EXCEPT ![m] = "sending"]
      /\ targets' = [targets EXCEPT ![m] = Subscribers(to[m])]
      /\ sent' = Append(sent, m)
      /\ mu = Nobody
  BY DEF PublishLock, Lock, streams
<1>2. sent \in Seq(Messages) /\ Len(sent) \in Nat /\ since \in [Clients -> Nat]
  BY DEF OrderInv, MapInv, StreamTypes
<1>3. /\ Len(sent') = Len(sent) + 1
      /\ sent'[Len(sent) + 1] = m
      /\ \A i \in 1 .. Len(sent) : sent'[i] = sent[i] /\ sent[i] \in Messages /\ sent[i] # m
  BY <1>1, <1>2 DEF OrderInv, SentInv
<1>4. \A n \in Messages : n # m => targets'[n] = targets[n]
  BY <1>1 DEF OrderInv, MapInv, MapTypes
<1>5. targets'[m] = Subscribers(to[m])
  BY <1>1 DEF OrderInv, MapInv, MapTypes
<1>6. ASSUME NEW c \in Clients, client[c] = "streaming"
      PROVE  Due(c)' = Due(c)
  <2>1. to[m] = on[c] => c \in targets'[m]
    BY <1>5, <1>6 DEF OrderInv, MapInv, RegistryInv, Subscribers
  <2>2. \A i \in since[c] + 1 .. Len(sent) : c \in targets'[sent'[i]] <=> c \in targets[sent[i]]
    BY <1>2, <1>3, <1>4
  <2> QED
    BY <2>1, <2>2, <1>1, <1>2, <1>3 DEF Due
<1>7. StreamIsPublicationOrder'
  <2> SUFFICES ASSUME NEW c \in Clients, client[c] = "streaming" PROVE InOrder(c)'
    BY <1>1 DEF StreamIsPublicationOrder
  <2>1. Due(c)' = Due(c) /\ Stream(c)' = Stream(c) /\ InOrder(c)
    BY <1>1, <1>6 DEF Stream, OrderInv, StreamIsPublicationOrder
  <2>2. \A i \in Due(c) : sent'[i] = sent[i]
    BY <1>2, <1>3 DEF Due
  <2> QED
    BY <2>1, <2>2 DEF InOrder, IsInjective
<1>8. SentInv'
  <2>1. IsInjective(sent')
    BY <1>2, <1>3 DEF OrderInv, SentInv, IsInjective
  <2>2. \A n \in Messages :
          /\ pub'[n] = "away" => \A i \in DOMAIN sent' : sent'[i] # n
          /\ pub'[n] = "sending" => sent' # <<>> /\ sent'[Len(sent')] = n
    <3>1. \A n \in Messages : pub[n] # "sending"
      BY <1>1, GoroutinesAssumption DEF OrderInv, MapInv, MutexInv
    <3>2. DOMAIN sent' = 1 .. Len(sent) + 1 /\ DOMAIN sent = 1 .. Len(sent) /\ sent' # <<>>
      BY <1>1, <1>2
    <3> QED
      BY <3>1, <3>2, <1>1, <1>2, <1>3 DEF OrderInv, SentInv, MapInv, MapTypes
  <2>3. \A n \in Messages, c \in Clients :
          /\ c \in targets'[n] => n \notin lost[c] /\ since[c] < Len(sent')
          /\ pub'[n] = "away" => n \notin lost[c]
    BY <1>1, <1>2, <1>3, <1>4 DEF OrderInv, SentInv, MapInv, MapTypes, StreamTypes
  <2> QED
    BY <2>1, <2>2, <2>3, <1>1 DEF SentInv
<1>9. FreshInv'
  BY <1>1 DEF OrderInv, FreshInv
<1> QED
  BY <1>7, <1>8, <1>9

\* One round of the loop appends the message, which comes after everything the
\* client has, or counts it as lost; it is not due before and not twice.
LEMMA SendOrder ==
  ASSUME OrderInv, NEW m \in Messages, NEW c \in Clients, Send(m, c)
  PROVE  SentInv' /\ FreshInv' /\ StreamIsPublicationOrder'
<1> DEFINE n == Len(sent)
<1>1. /\ UNCHANGED <<client, on, got, pub, to, sent, since>>
      /\ pub[m] = "sending" /\ c \in targets[m]
      /\ targets' = [targets EXCEPT ![m] = @ \ {c}]
      /\ \/ Len(buf[c]) < Capacity /\ buf' = [buf EXCEPT ![c] = Append(@, m)] /\ lost' = lost
         \/ buf' = buf /\ lost' = [lost EXCEPT ![c] = @ \cup {m}]
  BY DEF Send
<1>2. /\ sent \in Seq(Messages) /\ n \in Nat
      /\ since \in [Clients -> Nat] /\ targets \in [Messages -> SUBSET Clients]
      /\ buf \in [Clients -> Seq(Messages)] /\ got \in [Clients -> Seq(Messages)]
      /\ lost \in [Clients -> SUBSET Messages]
  BY DEF OrderInv, MapInv, MapTypes, StreamTypes
<1>3. /\ n \in 1 .. n /\ sent[n] = m /\ since[c] < n
      /\ to[m] = on[c] /\ m \notin lost[c]
      /\ client[c] \in {"streaming", "leaving", "removing"}
  BY <1>1, <1>2 DEF OrderInv, MapInv, MapTypes, TargetsInv, RegistryInv, SentInv
<1>4. \A i \in 1 .. n : sent[i] \in Messages /\ (sent[i] = m => i = n)
  BY <1>2, <1>3 DEF OrderInv, SentInv, IsInjective
<1>5. \A k \in Messages : targets'[k] = IF k = m THEN targets[m] \ {c} ELSE targets[k]
  BY <1>1, <1>2
<1>6. ASSUME NEW d \in Clients, d # c
      PROVE  Stream(d)' = Stream(d) /\ Due(d)' = Due(d)
  <2>1. buf'[d] = buf[d] /\ lost'[d] = lost[d]
    BY <1>1, <1>2, <1>6
  <2>2. \A i \in since[d] + 1 .. n : d \in targets'[sent[i]] <=> d \in targets[sent[i]]
    <3>1. \A i \in since[d] + 1 .. n : sent[i] \in Messages
      BY <1>2, <1>4
    <3> QED
      BY <3>1, <1>5, <1>6
  <2> QED
    BY <2>1, <2>2, <1>1, <1>2 DEF Stream, Due
<1>7. n \notin Due(c)
  BY <1>1, <1>3 DEF Due
<1>8. ASSUME InOrder(c), Len(buf[c]) < Capacity, buf' = [buf EXCEPT ![c] = Append(@, m)], lost' = lost
      PROVE  InOrder(c)'
  <2>1. Stream(c) \in Seq(Messages) /\ Stream(c)' = Append(Stream(c), m)
    BY <1>1, <1>2, <1>8, AppendToConcat DEF Stream
  <2>2. Due(c)' = Due(c) \cup {n}
    BY <1>1, <1>2, <1>3, <1>4, <1>5, <1>8 DEF Due
  <2> DEFINE S == Stream(c)
  <2>3. \A i \in DOMAIN S : S[i] \in {sent[k] : k \in Due(c)}
    BY <1>8 DEF InOrder, ToSet
  <2>4. \A k \in Due(c) : k \in 1 .. n /\ k < n /\ sent[k] # m
    BY <1>2, <1>4, <1>7 DEF Due
  <2>5. /\ Len(S) \in Nat /\ DOMAIN S = 1 .. Len(S) /\ DOMAIN Append(S, m) = 1 .. Len(S) + 1
        /\ Append(S, m)[Len(S) + 1] = m
        /\ \A i \in 1 .. Len(S) : Append(S, m)[i] = S[i]
    BY <2>1, AppendProperties, LenProperties
  <2>6. ToSet(S) = {sent[k] : k \in Due(c)}
    BY <1>8 DEF InOrder
  <2> HIDE DEF S
  <2>7. ToSet(Append(S, m)) = {sent[k] : k \in Due(c) \cup {n}}
    <3>1. ToSet(Append(S, m)) = ToSet(S) \cup {m}
      BY <2>5 DEF ToSet
    <3> QED
      BY <3>1, <2>6, <1>3
  <2>8. ASSUME NEW i \in DOMAIN Append(S, m), NEW j \in DOMAIN Append(S, m), i < j
        PROVE  \E k, l \in Due(c) \cup {n} : k < l /\ Append(S, m)[i] = sent[k] /\ Append(S, m)[j] = sent[l]
    <3>1. CASE j = Len(S) + 1
      <4>1. PICK k \in Due(c) : S[i] = sent[k]
        BY <2>3, <2>5, <2>8, <3>1
      <4>2. Append(S, m)[i] = sent[k] /\ Append(S, m)[j] = sent[n] /\ k < n
        BY <4>1, <3>1, <2>4, <2>5, <2>8, <1>3
      <4> QED
        BY <4>1, <4>2
    <3>2. CASE j # Len(S) + 1
      <4>1. i \in DOMAIN S /\ j \in DOMAIN S
        BY <2>5, <2>8, <3>2
      <4>2. PICK k \in Due(c), l \in Due(c) : k < l /\ S[i] = sent[k] /\ S[j] = sent[l]
        BY <4>1, <1>8, <2>8 DEF InOrder, S
      <4> QED
        BY <4>1, <4>2, <2>5
    <3> QED
      BY <3>1, <3>2
  <2>9. IsInjective(Append(S, m))
    <3>1. IsInjective(S)
      BY <1>8 DEF InOrder, S
    <3>2. \A i \in DOMAIN S : S[i] # m
      BY <2>3, <2>4
    <3> QED
      BY <3>1, <3>2, <2>5 DEF IsInjective
  <2> QED
    BY <2>1, <2>2, <2>7, <2>8, <2>9, <1>1 DEF InOrder, S
<1>9. ASSUME InOrder(c), buf' = buf, lost' = [lost EXCEPT ![c] = @ \cup {m}]
      PROVE  InOrder(c)'
  <2>1. Stream(c)' = Stream(c)
    BY <1>1, <1>9 DEF Stream
  <2>2. lost'[c] = lost[c] \cup {m}
    BY <1>2, <1>9
  <2>3. Due(c)' = Due(c)
    BY <2>2, <1>1, <1>2, <1>3, <1>4, <1>5 DEF Due
  <2> QED
    BY <2>1, <2>3, <1>1, <1>9, SameOrder
<1>10. StreamIsPublicationOrder'
  <2> SUFFICES ASSUME NEW d \in Clients, client[d] = "streaming" PROVE InOrder(d)'
    BY <1>1 DEF StreamIsPublicationOrder
  <2>1. InOrder(d)
    BY DEF OrderInv, StreamIsPublicationOrder
  <2>2. CASE d = c
    BY <2>1, <2>2, <1>1, <1>8, <1>9
  <2>3. CASE d # c
    BY <2>1, <2>3, <1>1, <1>6, SameOrder
  <2> QED
    BY <2>2, <2>3
<1>11. SentInv'
  <2>1. \A k \in Messages, d \in Clients :
          /\ d \in targets'[k] => k \notin lost'[d] /\ since[d] < n
          /\ pub[k] = "away" => k \notin lost'[d]
    BY <1>1, <1>2, <1>5 DEF OrderInv, SentInv
  <2> QED
    BY <2>1, <1>1 DEF OrderInv, SentInv
<1>12. FreshInv'
  BY <1>1, <1>2, <1>3 DEF OrderInv, FreshInv
<1> QED
  BY <1>10, <1>11, <1>12

LEMMA InitOrder == Init => OrderInv
<1> SUFFICES ASSUME Init PROVE OrderInv
  OBVIOUS
<1>1. SentInv /\ FreshInv
  BY DEF Init, SentInv, FreshInv, IsInjective
<1>2. StreamIsPublicationOrder
  BY DEF Init, StreamIsPublicationOrder
<1> QED
  BY <1>1, <1>2, InitMap DEF OrderInv

LEMMA NextOrder == OrderInv /\ [Next]_vars => OrderInv'
<1> SUFFICES ASSUME OrderInv, [Next]_vars PROVE SentInv' /\ FreshInv' /\ StreamIsPublicationOrder'
  BY NextMap DEF OrderInv
<1>1. client \in [Clients -> {"away", "adding", "streaming", "leaving", "removing", "closing", "gone"}]
      /\ pub \in [Messages -> {"away", "sending", "done"}]
  BY DEF OrderInv, MapInv, MapTypes
<1>2. CASE UNCHANGED vars
  BY <1>2, QuietOrder DEF vars, streams, publishing, history
<1>3. ASSUME NEW c \in Clients, SubscribeLock(c) \/ Disconnect(c) \/ UnsubscribeLock(c) \/ Unregister(c) \/ Close(c)
      PROVE  SentInv' /\ FreshInv' /\ StreamIsPublicationOrder'
  <2>1. UNCHANGED <<buf, got, sent, since, lost, targets, to, on, pub>>
    BY <1>3 DEF SubscribeLock, Disconnect, UnsubscribeLock, Unregister, Close, publishing, history
  <2>2. \A d \in Clients : /\ client'[d] = "streaming" => client[d] = "streaming"
                           /\ client'[d] \in {"away", "adding"} => client[d] \in {"away", "adding"}
    BY <1>1, <1>3 DEF SubscribeLock, Disconnect, UnsubscribeLock, Unregister, Close, Goto
  <2> QED
    BY <2>1, <2>2, QuietOrder
<1>4. ASSUME NEW m \in Messages, PublishUnlock(m)
      PROVE  SentInv' /\ FreshInv' /\ StreamIsPublicationOrder'
  BY <1>1, <1>4, QuietOrder DEF PublishUnlock, streams, history
<1> QED
  BY <1>2, <1>3, <1>4, RegisterOrder, ReceiveOrder, PublishLockOrder, SendOrder DEF Next, Leave, Publish

LEMMA OrderInvariant == Spec => []OrderInv
BY InitOrder, NextOrder, PTL DEF Spec

-----------------------------------------------------------------------------
\* The refinement.

LEMMA SubscribedIs ==
  ASSUME MapInv, NEW c \in Clients
  PROVE  Subscribed(c) <=> client[c] \in {"streaming", "leaving", "removing"}
BY DEF MapInv, RegistryInv, Subscribed

\* Before it is added and after it was removed, a channel is not live.
LEMMA InitChannels == Init => \A c \in Clients : Channel(c)!Init
BY DEF Init, Subscribed, Channel!Init

\* Every step of the broker is, for each subscriber, a step of its channel or
\* none.
LEMMA NextChannels ==
  ASSUME OrderInv, OrderInv', [Next]_vars, NEW c \in Clients
  PROVE  [Channel(c)!Next]_(Channel(c)!vars)
<1> DEFINE chan == IF Subscribed(c) THEN buf[c] ELSE <<>>
<1>1. Subscribed(c) <=> client[c] \in {"streaming", "leaving", "removing"}
  BY SubscribedIs DEF OrderInv
<1>2. Subscribed(c)' <=> client'[c] \in {"streaming", "leaving", "removing"}
  BY SubscribedIs DEF OrderInv, MapInv, RegistryInv, Subscribed
<1>3. Subscribed(c) \in BOOLEAN /\ Subscribed(c)' \in BOOLEAN
  BY DEF Subscribed
<1>4. client \in [Clients -> {"away", "adding", "streaming", "leaving", "removing", "closing", "gone"}]
      /\ buf \in [Clients -> Seq(Messages)]
      /\ lost \in [Clients -> SUBSET Messages]
  BY DEF OrderInv, MapInv, MapTypes, StreamTypes
<1>5. (Subscribed(c)' <=> Subscribed(c)) /\ buf'[c] = buf[c] /\ lost'[c] = lost[c] => UNCHANGED Channel(c)!vars
  BY <1>3 DEF Channel!vars
<1>6. ASSUME NEW d \in Clients, Register(d) PROVE [Channel(c)!Next]_(Channel(c)!vars)
  <2>1. client[d] = "adding" /\ client' = [client EXCEPT ![d] = "streaming"] /\ buf' = buf /\ lost' = lost
    BY <1>6 DEF Register, Goto
  <2>2. CASE d = c
    <3>1. ~Subscribed(c) /\ Subscribed(c)' /\ buf'[c] = <<>> /\ lost'[c] = {}
      BY <2>1, <2>2, <1>1, <1>2, <1>4 DEF OrderInv, FreshInv
    <3>2. Channel(c)!Subscribe
      BY <3>1, <1>3 DEF Channel!Subscribe
    <3> QED
      BY <3>2 DEF Channel!Next
  <2>3. CASE d # c
    BY <2>1, <2>3, <1>1, <1>2, <1>4, <1>5
  <2> QED
    BY <2>2, <2>3
<1>7. ASSUME NEW d \in Clients, Unregister(d) PROVE [Channel(c)!Next]_(Channel(c)!vars)
  <2>1. client[d] = "removing" /\ client' = [client EXCEPT ![d] = "closing"] /\ buf' = buf /\ lost' = lost
    BY <1>7 DEF Unregister, Goto, history
  <2>2. CASE d = c
    <3>1. Subscribed(c) /\ ~Subscribed(c)'
      BY <2>1, <2>2, <1>1, <1>2, <1>4
    <3>2. Channel(c)!Unsubscribe
      BY <3>1, <1>3 DEF Channel!Unsubscribe
    <3> QED
      BY <3>2 DEF Channel!Next
  <2>3. CASE d # c
    BY <2>1, <2>3, <1>1, <1>2, <1>4, <1>5
  <2> QED
    BY <2>2, <2>3
<1>8. ASSUME NEW d \in Clients, Receive(d) PROVE [Channel(c)!Next]_(Channel(c)!vars)
  <2>1. /\ client[d] = "streaming" /\ client' = client /\ buf[d] # <<>>
        /\ buf' = [buf EXCEPT ![d] = Tail(@)] /\ lost' = lost
    BY <1>8 DEF Receive, history
  <2>2. CASE d = c
    <3>1. Subscribed(c) /\ Subscribed(c)' /\ buf[c] # <<>> /\ buf'[c] = Tail(buf[c]) /\ lost'[c] = lost[c]
      BY <2>1, <2>2, <1>1, <1>2, <1>4
    <3>2. Channel(c)!Receive
      BY <3>1, <1>3 DEF Channel!Receive
    <3> QED
      BY <3>2 DEF Channel!Next
  <2>3. CASE d # c
    BY <2>1, <2>3, <1>1, <1>2, <1>4, <1>5
  <2> QED
    BY <2>2, <2>3
<1>9. ASSUME NEW m \in Messages, NEW d \in Clients, Send(m, d) PROVE [Channel(c)!Next]_(Channel(c)!vars)
  <2>1. /\ client' = client /\ d \in targets[m]
        /\ \/ /\ Len(buf[d]) < Capacity
              /\ buf' = [buf EXCEPT ![d] = Append(@, m)] /\ lost' = lost
           \/ /\ ~(Len(buf[d]) < Capacity)
              /\ buf' = buf /\ lost' = [lost EXCEPT ![d] = @ \cup {m}]
    BY <1>9 DEF Send
  <2>2. CASE d = c
    <3>1. Subscribed(c) /\ Subscribed(c)'
      BY <2>1, <2>2, <1>1, <1>2, <1>4 DEF OrderInv, MapInv, TargetsInv, RegistryInv
    <3>2. CASE Len(buf[c]) < Capacity
      <4>1. buf'[c] = Append(buf[c], m) /\ lost'[c] = lost[c]
        BY <2>1, <2>2, <3>2, <1>4
      <4>2. Channel(c)!Deliver(m)
        BY <3>1, <3>2, <4>1, <1>3 DEF Channel!Deliver
      <4> QED
        BY <4>2 DEF Channel!Next, Channel!Offer
    <3>3. CASE ~(Len(buf[c]) < Capacity)
      <4>1. buf'[c] = buf[c] /\ lost'[c] = lost[c] \cup {m}
        BY <2>1, <2>2, <3>3, <1>4
      <4>2. Len(buf[c]) = Capacity
        BY <3>3, <1>4, CapacityAssumption DEF OrderInv, MapInv, StreamTypes
      <4>3. Channel(c)!Drop(m)
        BY <3>1, <4>1, <4>2, <1>3 DEF Channel!Drop
      <4> QED
        BY <4>3 DEF Channel!Next, Channel!Offer
    <3> QED
      BY <3>2, <3>3
  <2>3. CASE d # c
    BY <2>1, <2>3, <1>1, <1>2, <1>4, <1>5
  <2> QED
    BY <2>2, <2>3
<1>10. ASSUME NEW d \in Clients, SubscribeLock(d) \/ Disconnect(d) \/ UnsubscribeLock(d) \/ Close(d)
       PROVE  UNCHANGED Channel(c)!vars
  <2>1. buf' = buf /\ lost' = lost
    BY <1>10 DEF SubscribeLock, Disconnect, UnsubscribeLock, Close, history
  <2>2. client[c] \in {"streaming", "leaving", "removing"} <=> client'[c] \in {"streaming", "leaving", "removing"}
    BY <1>4, <1>10 DEF SubscribeLock, Disconnect, UnsubscribeLock, Close, Goto
  <2> QED
    BY <2>1, <2>2, <1>1, <1>2, <1>5
<1>11. ASSUME NEW m \in Messages, PublishLock(m) \/ PublishUnlock(m)
       PROVE  UNCHANGED Channel(c)!vars
  BY <1>11, <1>1, <1>2, <1>5 DEF PublishLock, PublishUnlock, streams, history
<1>12. CASE UNCHANGED vars
  BY <1>12, <1>1, <1>2, <1>5 DEF vars, streams, history
<1> QED
  BY <1>6, <1>7, <1>8, <1>9, <1>10, <1>11, <1>12 DEF Next, Leave, Publish

-----------------------------------------------------------------------------
\* The registry, the streams and the buffers have their types whatever the
\* interleaving; in particular no buffer holds more than Capacity.
THEOREM BrokerTypes == Spec => []TypeOK
<1>1. OrderInv => TypeOK
  BY TypesSuffice DEF OrderInv, MapInv
<1> QED
  BY OrderInvariant, <1>1, PTL

\* publish cannot crash the server: a channel it visits is open, although
\* handlers leave while it runs.
THEOREM ChannelsOpenWhileSending == Spec => []NoSendOnClosed
<1>1. OrderInv => NoSendOnClosed
  BY DEF OrderInv, MapInv, MapTypes, RegistryInv, TargetsInv, NoSendOnClosed
<1> QED
  BY OrderInvariant, <1>1, PTL

\* Every stream is the publication order without what was dropped.
THEOREM StreamsInOrder == Spec => []StreamIsPublicationOrder
<1>1. OrderInv => StreamIsPublicationOrder
  BY DEF OrderInv
<1> QED
  BY OrderInvariant, <1>1, PTL

\* The map holds the splits somebody streams and no others.
THEOREM MapHoldsWatched == Spec => []NoEmptyEntries
<1>1. ASSUME OrderInv PROVE NoEmptyEntries
  <2>1. \A s \in DOMAIN subs : \E c \in Clients : client[c] \in {"streaming", "leaving", "removing"}
    <3> TAKE s \in DOMAIN subs
    <3>1. PICK c : c \in subs[s]
      BY <1>1 DEF OrderInv, MapInv, RegistryInv
    <3> QED
      BY <3>1, <1>1 DEF OrderInv, MapInv, MapTypes, RegistryInv
  <2> QED
    BY <2>1, <1>1 DEF OrderInv, MapInv, RegistryInv, NoEmptyEntries
<1> QED
  BY OrderInvariant, <1>1, PTL

\* To each of its subscribers the broker is a LossyChannel.
THEOREM BrokerIsLossyChannels == Spec => LossyChannels
<1>1. OrderInv /\ OrderInv' /\ [Next]_vars => [\A c \in Clients : [Channel(c)!Next]_(Channel(c)!vars)]_vars
  BY NextChannels
<1> QED
  BY OrderInvariant, InitChannels, <1>1, PTL DEF Spec, LossyChannels

=============================================================================
