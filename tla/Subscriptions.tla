---------------------------- MODULE Subscriptions ----------------------------
(***************************************************************************)
(* Subscriptions to one key at one server, and the key listeners behind    *)
(* them at both sides.                                                     *)
(*                                                                         *)
(* A server keeps a key listener for each client that subscribed.  Storing *)
(* a record triggers the listeners of its key, each after a pause in which *)
(* a later trigger takes its place (triggerDebouce), and the listener of a *)
(* client sends it the record as a put with the id of the subscription.    *)
(* The client treats it as any put: clientOnMessage drops it if a put with *)
(* that id was processed before, handlePut stores it if it is newer and    *)
(* triggers the listeners of the application.                              *)
(*                                                                         *)
(* A peer's own put triggers none of its listeners, and with subscriptions *)
(* to answer the server may send it back like any other.                   *)
(*                                                                         *)
(* A record is its timestamp, 0 is none, and what a peer puts is newer     *)
(* than what it holds.  Handlers of puts do not overlap here:              *)
(* PutReplication is about what happens when they do.                      *)
(***************************************************************************)
EXTENDS Naturals, Sequences, FiniteSetsExt

CONSTANTS
    Subscriber,       \* the clients
    MaxTime,          \* bound: the last timestamp
    MaxSubscriptions  \* bound: the subscriptions; they have the ids 1, 2, ...

ASSUME SubscriptionsAssumption == MaxTime \in Nat /\ MaxSubscriptions \in Nat

VARIABLES
    record,       \* what the store of the server holds
    asks,         \* asks[c]: the subscribe messages on their way from c, by id
    subscription, \* subscription[c]: the id its key listener sends with, or 0
    debounced,    \* debounced[c]: the record its timer will send, or 0
    oldReads,     \* handlers of handleSubscribe that wait for the store
    outHashes,    \* outHashes[c]: processedOutHashes of c
    pushed,       \* pushed[c]: the puts on their way to c, pairs <<id, record>>
    online,       \* the clients that are connected
    putIds,       \* putIds[c]: processedIds.put of c, without ids used once
    copy,         \* copy[c]: what the store of c holds
    ownReads,     \* ownReads[c]: the records toolDbSubscribe has read at c
    listens,      \* the clients whose application listens to the key
    delayed,      \* delayed[c]: the record its listener will be called with
    shown,        \* shown[c]: the record its listener was called with last
    made,         \* the subscriptions made
    \* History variables.
    ownPut,       \* ownPut[c]: the record c put last, or 0
    due,          \* due[c]: what the server held when c subscribed first
    parted,       \* the clients whose connection was lost
    overtaken     \* the clients where a put came while toolDbSubscribe read

SubsVars == <<record, asks, subscription, debounced, oldReads, outHashes, pushed,
              online, putIds, copy, ownReads, listens, delayed, shown, made,
              ownPut, due, parted, overtaken>>

serverVars == <<record, subscription, debounced, oldReads, due>>
clientVars == <<putIds, copy, ownReads, listens, delayed, shown, ownPut, overtaken>>

Time == 0..MaxTime
SubscriptionId == 1..MaxSubscriptions

SubsTypeOK ==
    /\ record \in Time
    /\ asks \in [Subscriber -> SUBSET SubscriptionId]
    /\ subscription \in [Subscriber -> 0..MaxSubscriptions]
    /\ debounced \in [Subscriber -> Time]
    /\ oldReads \subseteq [client : Subscriber, id : SubscriptionId, data : Time]
    /\ outHashes \in [Subscriber -> SUBSET Time]
    /\ \A c \in Subscriber : pushed[c] \in Seq((0..MaxSubscriptions) \X Time)
    /\ online \cup listens \cup parted \cup overtaken \subseteq Subscriber
    /\ putIds \in [Subscriber -> SUBSET SubscriptionId]
    /\ {copy, delayed, shown, ownPut, due} \subseteq [Subscriber -> Time]
    /\ ownReads \in [Subscriber -> SUBSET Time]
    /\ made \in 0..MaxSubscriptions
    \* A listener sends to those who subscribed only.
    /\ \A c \in Subscriber : debounced[c] # 0 => subscription[c] # 0

Zeros == [c \in Subscriber |-> 0]
Empties == [c \in Subscriber |-> {}]

SubsInit ==
    /\ record = 0 /\ made = 0
    /\ asks = Empties /\ outHashes = Empties /\ putIds = Empties /\ ownReads = Empties
    /\ subscription = Zeros /\ debounced = Zeros /\ copy = Zeros /\ delayed = Zeros
    /\ shown = Zeros /\ ownPut = Zeros /\ due = Zeros
    /\ pushed = [c \in Subscriber |-> <<>>]
    /\ oldReads = {} /\ listens = {} /\ parted = {} /\ overtaken = {}
    /\ online = Subscriber

-----------------------------------------------------------------------------
(***************************************************************************)
(* toolDbSubscribe: ask, and read the own store.                           *)
(***************************************************************************)
Subscribe(c) ==
    /\ made < MaxSubscriptions
    /\ made' = made + 1
    /\ asks' = IF c \in online THEN [asks EXCEPT ![c] = @ \cup {made + 1}] ELSE asks
    /\ ownReads' = [ownReads EXCEPT ![c] = @ \cup ({copy[c]} \ {0})]
    /\ UNCHANGED <<serverVars, outHashes, pushed, online, putIds, copy, listens,
                   delayed, shown, ownPut, parted, overtaken>>

\* triggerKeyListener at c, with its debounce.
Trigger(c, t) == delayed' = IF c \in listens THEN [delayed EXCEPT ![c] = t] ELSE delayed

\* The continuation of the read of the own store.
OwnRead(c) ==
    \E t \in ownReads[c] :
        /\ ownReads' = [ownReads EXCEPT ![c] = @ \ {t}]
        /\ Trigger(c, t)
        /\ UNCHANGED <<serverVars, asks, outHashes, pushed, online, putIds, copy,
                       listens, shown, ownPut, made, parted, overtaken>>

\* addKeyListener, removeKeyListener.
Listen(c) ==
    /\ listens' = (listens \ {c}) \cup ({c} \ listens)
    /\ delayed' = [delayed EXCEPT ![c] = 0]
    /\ shown' = [shown EXCEPT ![c] = 0]
    /\ UNCHANGED <<serverVars, asks, outHashes, pushed, online, putIds, copy,
                   ownReads, ownPut, made, parted, overtaken>>

\* The timer of the listener runs out: the application sees the record.
Show(c) ==
    /\ delayed[c] # 0
    /\ shown' = [shown EXCEPT ![c] = delayed[c]]
    /\ delayed' = [delayed EXCEPT ![c] = 0]
    /\ UNCHANGED <<serverVars, asks, outHashes, pushed, online, putIds, copy,
                   ownReads, listens, ownPut, made, parted, overtaken>>

\* toolDbPut at c: stored, no listener is triggered.  What reaches the server
\* is handled by ServerHandlePut.
ClientPut(c, t) ==
    /\ t > copy[c]
    /\ copy' = [copy EXCEPT ![c] = t]
    /\ ownPut' = [ownPut EXCEPT ![c] = t]
    /\ UNCHANGED <<serverVars, asks, outHashes, pushed, online, putIds, ownReads,
                   listens, delayed, shown, made, parted, overtaken>>

-----------------------------------------------------------------------------
\* Mutant of HandleSubscribe: only what is put from now on is sent.
HandleSubscribeLazily(c) ==
    \E i \in asks[c] :
        /\ asks' = [asks EXCEPT ![c] = @ \ {i}]
        /\ subscription' = [subscription EXCEPT ![c] = IF @ = 0 THEN i ELSE @]
        /\ due' = IF subscription[c] = 0 THEN [due EXCEPT ![c] = record] ELSE due
        /\ UNCHANGED <<record, debounced, oldReads, outHashes, pushed, online,
                       clientVars, made, parted>>

(***************************************************************************)
(* handleSubscribe: a key listener for each client, which keeps the id of  *)
(* its first subscription, and a read of the store.                        *)
(***************************************************************************)
HandleSubscribe(c) ==
    \E i \in asks[c] :
        /\ asks' = [asks EXCEPT ![c] = @ \ {i}]
        /\ subscription' = [subscription EXCEPT ![c] = IF @ = 0 THEN i ELSE @]
        /\ oldReads' = IF record = 0 THEN oldReads
                       ELSE oldReads \cup {[client |-> c, id |-> i, data |-> record]}
        /\ due' = IF subscription[c] = 0 THEN [due EXCEPT ![c] = record] ELSE due
        /\ UNCHANGED <<record, debounced, outHashes, pushed, online, clientVars,
                       made, parted>>

\* sendToClientId with a put: once for a hash, which is kept even if c is gone.
SendPut(C, id, t) ==
    /\ pushed' = [c \in Subscriber |->
                    IF c \in C \cap online /\ t \notin outHashes[c]
                    THEN Append(pushed[c], <<id[c], t>>) ELSE pushed[c]]
    /\ outHashes' = [c \in Subscriber |->
                       IF c \in C THEN outHashes[c] \cup {t} ELSE outHashes[c]]

\* The continuation of the read of handleSubscribe.
SendOldData(q) ==
    /\ q \in oldReads
    /\ oldReads' = oldReads \ {q}
    /\ SendPut({q.client}, [Zeros EXCEPT ![q.client] = q.id], q.data)
    /\ UNCHANGED <<record, asks, subscription, debounced, online, clientVars,
                   made, due, parted>>

\* The timer of the listener of c runs out.
SendNewData(c) ==
    /\ debounced[c] # 0
    /\ debounced' = [debounced EXCEPT ![c] = 0]
    /\ SendPut({c}, subscription, debounced[c])
    /\ UNCHANGED <<record, asks, subscription, oldReads, online, clientVars,
                   made, due, parted>>

\* handlePut at the server, of a record put elsewhere, at a subscriber
\* or not: the newer one is stored, and listeners are triggered in any case.
ServerHandlePut(t) ==
    /\ record' = Max({record, t})
    /\ debounced' = [c \in Subscriber |-> IF subscription[c] = 0 THEN 0 ELSE record']
    /\ UNCHANGED <<asks, subscription, oldReads, outHashes, pushed, online,
                   clientVars, made, due, parted>>

\* toolDbPut at the server: no listener is triggered, but everybody is sent to.
ServerPut(t) ==
    /\ t > record
    /\ record' = t
    /\ SendPut(online, Zeros, t)
    /\ UNCHANGED <<asks, subscription, debounced, oldReads, online, clientVars,
                   made, due, parted>>

-----------------------------------------------------------------------------
\* Mutant of Stored: listeners are called with what came, stored or not.
StoredOrNot(c, t) ==
    /\ copy' = [copy EXCEPT ![c] = Max({@, t})]
    /\ Trigger(c, t)

\* handlePut at a client.
Stored(c, t) ==
    /\ copy' = [copy EXCEPT ![c] = Max({@, t})]
    /\ Trigger(c, copy'[c])

\* clientOnMessage at a client: a put with an id that it knows is dropped.
ClientReceive(c) ==
    /\ pushed[c] # <<>>
    /\ pushed' = [pushed EXCEPT ![c] = Tail(@)]
    /\ LET id == Head(pushed[c])[1]
       IN  IF id \in putIds[c] THEN UNCHANGED <<putIds, copy, delayed, overtaken>>
           ELSE /\ putIds' = [putIds EXCEPT ![c] = @ \cup ({id} \ {0})]
                /\ Stored(c, Head(pushed[c])[2])
                /\ overtaken' = IF ownReads[c] = {} THEN overtaken ELSE overtaken \cup {c}
    /\ UNCHANGED <<serverVars, asks, outHashes, online, ownReads, listens, shown,
                   ownPut, made, parted>>

\* The connection of c is lost, with what it carried.
Part(c) ==
    /\ c \in online
    /\ online' = online \ {c}
    /\ asks' = [asks EXCEPT ![c] = {}]
    /\ pushed' = [pushed EXCEPT ![c] = <<>>]
    /\ parted' = parted \cup {c}
    /\ UNCHANGED <<serverVars, outHashes, clientVars, made>>

\* c connects again: the server forgets the hashes, but not the listener.
Rejoin(c) ==
    /\ c \notin online
    /\ online' = online \cup {c}
    /\ outHashes' = [outHashes EXCEPT ![c] = {}]
    /\ UNCHANGED <<serverVars, asks, pushed, clientVars, made, parted>>

SubsNext ==
    \/ \E c \in Subscriber :
        \/ Subscribe(c) \/ OwnRead(c) \/ Listen(c) \/ Show(c)
        \/ HandleSubscribe(c) \/ SendNewData(c) \/ ClientReceive(c)
        \/ Part(c) \/ Rejoin(c)
    \/ \E q \in oldReads : SendOldData(q)
    \/ \E t \in 1..MaxTime : ServerHandlePut(t) \/ ServerPut(t)
    \/ \E c \in Subscriber, t \in 1..MaxTime : ClientPut(c, t)

SubsSpec == SubsInit /\ [][SubsNext]_SubsVars

-----------------------------------------------------------------------------
\* Nothing is under way for c.
Settled(c) ==
    /\ asks[c] = {} /\ pushed[c] = <<>> /\ debounced[c] = 0 /\ delayed[c] = 0
    /\ ownReads[c] = {} /\ \A q \in oldReads : q.client # c

(***************************************************************************)
(* A client ends with a record that is at least as new as the one the      *)
(* server held when it subscribed first, although only the first put with  *)
(* the id of a subscription counts and the server sends a hash once        *)
(* (handleSubscribe, sendToClientId, clientOnMessage).  Subscribing again  *)
(* promises nothing: what was sent before, and dropped for its id, is not  *)
(* sent again.                                                             *)
(***************************************************************************)
SubscribersServed ==
    \A c \in Subscriber \ parted : Settled(c) => copy[c] >= due[c]

(***************************************************************************)
(* What a listener of the application was called with last is what its     *)
(* peer holds, in whatever order records and the timers of triggers come   *)
(* (handlePut, triggerKeyListener), with two exceptions: the peer put      *)
(* itself what it holds, which is stored without a trigger; or a put came  *)
(* while toolDbSubscribe read the store, which then triggers with what it  *)
(* read before.                                                            *)
(***************************************************************************)
ListenersCurrent ==
    \A c \in listens \ overtaken :
        Settled(c) /\ shown[c] # 0 => shown[c] = copy[c] \/ copy[c] = ownPut[c]

(***************************************************************************)
(* "Subscribe to all PUT updates for this key": a client that subscribed   *)
(* and stays connected ends with the record that the server holds          *)
(* (toolDbSubscribe).                                                      *)
(***************************************************************************)
SubscribersFollow ==
    \A c \in Subscriber \ parted :
        Settled(c) /\ subscription[c] # 0 => copy[c] >= record
=============================================================================
