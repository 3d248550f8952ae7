----------------------------- MODULE WebrtcPeers -----------------------------
(***************************************************************************)
(* The peers of the WebRTC adapter (packages/webrtc-network): how offers   *)
(* and answers that trackers and Nostr relays carry become connections,    *)
(* and how connections are replaced, lost and forgotten.                   *)
(*                                                                         *)
(* An offer has a simple-peer object at its maker, and one at each peer    *)
(* that answers it; <<n, o>> is the object of peer n for offer o.  The     *)
(* objects fire connect and close events later than what causes them, so a *)
(* close may be handled when its connection has been replaced.             *)
(***************************************************************************)
EXTENDS FiniteSets, Naturals

CONSTANTS
    Node,       \* the peers, all browsers; also the ids they announce
    Offer,      \* bound: the offers ever made
    MaxPeers,   \* maxPeers: the cap on connections
    Nostr,      \* the peers with modules.nostr enabled
    Announcer,  \* bound: the peers whose announce interval fires
    Unstable,   \* bound: the peers whose connections may fail
    None

ASSUME PeersAssumption ==
    /\ MaxPeers \in Nat
    /\ Nostr \cup Announcer \cup Unstable \subseteq Node
    /\ None \notin Node \cup Offer
    /\ Node \cap Offer = {}

VARIABLES
    maker,           \* maker[o]: the peer that made offer o, or None
    offerPool,       \* offerPool[n]: the offers n announced to the trackers
    pendingOffers,   \* nostrPendingOffers of n
    handledOffers,   \* handledOffers[n]
    phase,           \* phase[<<n, o>>]: the state of the object
    remotes,         \* remotes[<<n, o>>]: the ids its handlers name
    peerMap,         \* peerMap[n][m]: the offer of the object for m, or None
    connectedPeers,  \* connectedPeers[n]: ids of peers and of offers
    clientToSend,    \* clientToSend[n][m]: the object that sends to m, or None
    signals,         \* messages of trackers and Nostr relays on their way
    pings            \* the objects a ping is on its way to

vars == <<maker, offerPool, pendingOffers, handledOffers, phase, remotes,
          peerMap, connectedPeers, clientToSend, signals, pings>>

End == Node \X Offer

\* A closing object is destroyed and its close event has not fired yet.
Phase == {"none", "new", "signalled", "open", "closing", "closed"}

\* Nobody gets its own messages back (index.ts 349 and 899).
Signal ==
    {x \in [type : {"offer", "answer"}, nostr : BOOLEAN, src : Node, dst : Node, offer : Offer]
            \cup [type : {"hello"}, src : Node, dst : Node] : x.src # x.dst}

TypeOK ==
    /\ maker \in [Offer -> Node \cup {None}]
    /\ offerPool \in [Node -> SUBSET Offer]
    /\ pendingOffers \in [Node -> SUBSET Offer]
    /\ handledOffers \in [Node -> SUBSET Offer]
    /\ phase \in [End -> Phase]
    /\ remotes \in [End -> SUBSET Node]
    /\ peerMap \in [Node -> [Node -> Offer \cup {None}]]
    /\ connectedPeers \in [Node -> SUBSET (Node \cup Offer)]
    /\ clientToSend \in [Node -> [Node -> Offer \cup {None}]]
    /\ signals \subseteq Signal
    /\ pings \subseteq End

Init ==
    /\ maker = [o \in Offer |-> None]
    /\ offerPool = [n \in Node |-> {}]
    /\ pendingOffers = [n \in Node |-> {}]
    /\ handledOffers = [n \in Node |-> {}]
    /\ phase = [e \in End |-> "none"]
    /\ remotes = [e \in End |-> {}]
    /\ peerMap = [n \in Node |-> [m \in Node |-> None]]
    /\ connectedPeers = [n \in Node |-> {}]
    /\ clientToSend = [n \in Node |-> [m \in Node |-> None]]
    /\ signals = {}
    /\ pings = {}

-----------------------------------------------------------------------------
Mapped(n) == {m \in Node : peerMap[n][m] # None}

AtCap(n) == Cardinality(Mapped(n)) >= MaxPeers

\* destroy() on the objects of a set: their close events come later.
Destroyed(E) ==
    [e \in End |-> IF e \in E /\ phase[e] \in {"new", "signalled", "open"}
                   THEN "closing" ELSE phase[e]]

\* cleanPool gives up old offers, and those nobody answered.
Abandoned(n, stale) ==
    {o \in offerPool[n] : o \in stale \/ o \notin handledOffers[n] \cup connectedPeers[n]}

\* Offers are alike: the next one made is any that is not.
Fresh(o) ==
    /\ \E p \in Offer : maker[p] = None
    /\ o = CHOOSE p \in Offer : maker[p] = None

Offers(n, o, nostr, to) ==
    {[type |-> "offer", nostr |-> nostr, src |-> n, dst |-> m, offer |-> o] : m \in to}

\* Mutant: an announcement comes back to its maker.
HellosEchoed(n) ==
    {[type |-> "hello", src |-> n, dst |-> m] : m \in {m \in Nostr : n \in Nostr}}

Hellos(n) ==
    {[type |-> "hello", src |-> n, dst |-> m] :
        m \in {m \in Nostr \ {n} : n \in Nostr}}

(***************************************************************************)
(* announceAll: cleanPool, makeOffers, and announcements to the trackers   *)
(* and the relays.  A tracker passes an offer on to some peer, and several *)
(* trackers to several; what never arrives stays in signals.  An offer is  *)
(* stale when the interval was late.  Bounds: the pool has one offer, and  *)
(* no peer gets an offer, or a greeting, of one announcement twice.        *)
(***************************************************************************)
AnnounceAll(n, o) ==
    /\ Fresh(o)
    /\ \E stale \in SUBSET offerPool[n] :
        phase' = [Destroyed({n} \X Abandoned(n, stale)) EXCEPT ![<<n, o>>] = "new"]
    /\ handledOffers' = [handledOffers EXCEPT ![n] = {}]
    /\ maker' = [maker EXCEPT ![o] = n]
    /\ offerPool' = [offerPool EXCEPT ![n] = {o}]
    /\ signals' = signals \cup Offers(n, o, FALSE, Node \ {n}) \cup Hellos(n)
    /\ UNCHANGED <<pendingOffers, remotes, peerMap, connectedPeers, clientToSend, pings>>

Consume(x) == signals' = signals \ {x}

\* onNostrMessage, an announcement: sendNostrOffer, which all relays spread.
SendNostrOffer(x, o) ==
    LET n == x.dst
    IN  /\ x.type = "hello"
        /\ x.src \notin connectedPeers[n]
        /\ ~AtCap(n)
        /\ Fresh(o)
        /\ maker' = [maker EXCEPT ![o] = n]
        /\ pendingOffers' = [pendingOffers EXCEPT ![n] = @ \cup {o}]
        /\ phase' = [phase EXCEPT ![<<n, o>>] = "new"]
        /\ signals' = (signals \ {x}) \cup Offers(n, o, TRUE, Nostr \ {n})
        /\ UNCHANGED <<offerPool, handledOffers, remotes, peerMap,
                       connectedPeers, clientToSend, pings>>

\* An offer or answer from a connected peer, or one handled before, is dropped.
Dropped(x) ==
    \/ x.src \in connectedPeers[x.dst]
    \/ x.type # "hello" /\ x.offer \in handledOffers[x.dst]

(***************************************************************************)
(* onSocketMessage and handleNostrOffer, an offer: answer it, unless there *)
(* are too many peers; the tracker's handler then cleans the pool.         *)
(***************************************************************************)
AnswerOffer(x) ==
    LET n == x.dst
        e == <<n, x.offer>>
    IN  /\ x.type = "offer" /\ ~Dropped(x) /\ ~AtCap(n)
        /\ handledOffers' = [handledOffers EXCEPT ![n] = @ \cup {x.offer}]
        /\ phase' = [phase EXCEPT ![e] = "signalled"]
        /\ remotes' = [remotes EXCEPT ![e] = {x.src}]
        /\ signals' = (signals \ {x}) \cup
             {[type |-> "answer", nostr |-> x.nostr, src |-> n, dst |-> x.src,
               offer |-> x.offer]}
        /\ UNCHANGED <<maker, offerPool, pendingOffers, peerMap,
                       connectedPeers, clientToSend, pings>>

RefuseOffer(x) ==
    LET n == x.dst
    IN  /\ x.type = "offer" /\ ~Dropped(x) /\ AtCap(n)
        /\ Consume(x)
        /\ IF x.nostr
           THEN UNCHANGED <<phase, offerPool, handledOffers>>
           ELSE \E stale \in SUBSET offerPool[n] :
                  /\ phase' = Destroyed({n} \X Abandoned(n, stale))
                  /\ offerPool' = [offerPool EXCEPT ![n] = @ \ Abandoned(n, stale)]
                  /\ handledOffers' = [handledOffers EXCEPT ![n] = {}]
        /\ UNCHANGED <<maker, pendingOffers, remotes, peerMap,
                       connectedPeers, clientToSend, pings>>

Offered(x) == x.offer \in IF x.nostr THEN pendingOffers[x.dst] ELSE offerPool[x.dst]

(***************************************************************************)
(* onSocketMessage and handleNostrAnswer, an answer to an offer that is    *)
(* still held.  A second answer breaks the object: it is signalled twice.  *)
(***************************************************************************)
TakeAnswer(x) ==
    LET n == x.dst
        e == <<n, x.offer>>
    IN  /\ x.type = "answer" /\ ~Dropped(x) /\ Offered(x)
        /\ phase[e] \in {"new", "signalled", "open"}
        /\ Consume(x)
        /\ handledOffers' = [handledOffers EXCEPT ![n] = @ \cup {x.offer}]
        /\ remotes' = [remotes EXCEPT ![e] = @ \cup {x.src}]
        /\ phase' = [phase EXCEPT ![e] = IF @ = "new" THEN "signalled" ELSE "closing"]
        /\ UNCHANGED <<maker, offerPool, pendingOffers, peerMap,
                       connectedPeers, clientToSend, pings>>

\* Mutants: only one of the two lists is cleared.
OnDisconnectUncounted(n, ids) ==
    /\ connectedPeers' = [connectedPeers EXCEPT ![n] = @ \ ids]
    /\ UNCHANGED peerMap

OnDisconnectUnlisted(n, ids) ==
    /\ peerMap' = [peerMap EXCEPT ![n] = [m \in Node |-> IF m \in ids THEN None ELSE @[m]]]
    /\ UNCHANGED connectedPeers

\* onDisconnect for the ids of a set: forget what is in peerMap for them.
OnDisconnect(n, ids) ==
    /\ peerMap' = [peerMap EXCEPT ![n] = [m \in Node |-> IF m \in ids THEN None ELSE @[m]]]
    /\ connectedPeers' = [connectedPeers EXCEPT ![n] = @ \ ids]

\* An answer to an offer whose object is destroyed.
AnswerTooLate(x) ==
    /\ x.type = "answer" /\ ~Dropped(x) /\ Offered(x)
    /\ phase[<<x.dst, x.offer>>] \in {"closing", "closed"}
    /\ Consume(x)
    /\ IF x.nostr
       THEN /\ handledOffers' = [handledOffers EXCEPT ![x.dst] = @ \cup {x.offer}]
            /\ pendingOffers' = [pendingOffers EXCEPT ![x.dst] = @ \ {x.offer}]
            /\ UNCHANGED <<peerMap, connectedPeers>>
       ELSE /\ OnDisconnect(x.dst, {x.src})
            /\ UNCHANGED <<handledOffers, pendingOffers>>
    /\ UNCHANGED <<maker, offerPool, phase, remotes, clientToSend, pings>>

\* A message that changes nothing.
Ignore(x) ==
    /\ \/ Dropped(x)
       \/ x.type = "hello" /\ AtCap(x.dst)
       \/ x.type = "answer" /\ ~Offered(x)
    /\ Consume(x)
    /\ UNCHANGED <<maker, offerPool, pendingOffers, handledOffers, phase,
                   remotes, peerMap, connectedPeers, clientToSend, pings>>

-----------------------------------------------------------------------------
\* The object at the other end: it and e name each other.
Joined(e, m) == m \in remotes[e] /\ e[1] \in remotes[<<m, e[2]>>]

(***************************************************************************)
(* The connect event: onConnect and onPeerConnect.  The object that was in *)
(* peerMap for this peer is destroyed and replaced, and a ping goes out.   *)
(* The maker of the offer also enters the offer's id; whoever answered a   *)
(* Nostr offer does too, which nothing reads.                              *)
(***************************************************************************)
Connect(e, m) ==
    LET n == e[1]
        o == e[2]
        old == {<<n, p>> : p \in {peerMap[n][m]} \ {None}}
    IN  /\ phase[e] = "signalled"
        /\ Joined(e, m)
        /\ phase[<<m, o>>] \in {"signalled", "open"}
        /\ phase' = [Destroyed(old) EXCEPT ![e] = "open"]
        /\ peerMap' = [peerMap EXCEPT ![n][m] = o]
        /\ connectedPeers' = [connectedPeers EXCEPT ![n] =
             @ \cup {m} \cup {p \in {o} : maker[p] = n}]
        /\ pendingOffers' = [pendingOffers EXCEPT ![n] = @ \ {o}]
        /\ pings' = pings \cup {<<m, o>>}
        /\ UNCHANGED <<maker, offerPool, handledOffers, remotes, clientToSend, signals>>

(***************************************************************************)
(* onData, a ping: from now on messages for the peer go to this object.    *)
(* The pong that answers it does at the other end what the other ping did. *)
(***************************************************************************)
Greet(e) ==
    /\ e \in pings
    /\ phase[e] = "open"
    /\ pings' = pings \ {e}
    /\ clientToSend' = [clientToSend EXCEPT ![e[1]] =
         [m \in Node |-> IF m \in remotes[e] THEN e[2] ELSE @[m]]]
    /\ UNCHANGED <<maker, offerPool, pendingOffers, handledOffers, phase, remotes,
                   peerMap, connectedPeers, signals>>

-----------------------------------------------------------------------------
Destroy(e) ==
    /\ phase' = Destroyed({e})
    /\ UNCHANGED <<maker, offerPool, handledOffers, remotes, peerMap,
                   connectedPeers, clientToSend, signals, pings>>

\* initPeer: an offer that has not led to a connection in time is given up.
IceTimeout(n, o) ==
    /\ maker[o] = n
    /\ phase[<<n, o>>] \in {"new", "signalled"}
    /\ Destroy(<<n, o>>)
    /\ UNCHANGED pendingOffers

\* sendNostrOffer's timer.
NostrTimeout(n, o) ==
    /\ o \in pendingOffers[n]
    /\ phase[<<n, o>>] # "open"
    /\ Destroy(<<n, o>>)
    /\ pendingOffers' = [pendingOffers EXCEPT ![n] = @ \ {o}]

\* The browser gives up a connection whose other end is gone.
Lose(e) ==
    /\ phase[e] \in {"signalled", "open"}
    /\ \E m \in remotes[e] : phase[<<m, e[2]>>] \in {"closing", "closed"}
    /\ Destroy(e)
    /\ UNCHANGED pendingOffers

\* An open connection fails with both ends alive.
Break(e) ==
    /\ e[1] \in Unstable
    /\ phase[e] = "open"
    /\ Destroy(e)
    /\ UNCHANGED pendingOffers

\* The close event: every handler the object has runs onDisconnect.
Close(e) ==
    /\ phase[e] = "closing"
    /\ phase' = [phase EXCEPT ![e] = "closed"]
    /\ OnDisconnect(e[1], remotes[e])
    /\ pings' = pings \ {e}
    /\ UNCHANGED <<maker, offerPool, pendingOffers, handledOffers, remotes,
                   clientToSend, signals>>

\* peersCheck: once a second, the greeted peers whose object is not connected.
PeersCheck(n) ==
    LET lost == {m \in Node : /\ clientToSend[n][m] # None
                              /\ peerMap[n][m] # None
                              /\ phase[<<n, peerMap[n][m]>>] # "open"}
    IN  /\ lost # {}
        /\ clientToSend' = [clientToSend EXCEPT ![n] =
             [m \in Node |-> IF m \in lost THEN None ELSE @[m]]]
        /\ phase' = Destroyed({<<n, peerMap[n][m]>> : m \in lost})
        /\ OnDisconnect(n, lost)
        /\ UNCHANGED <<maker, offerPool, pendingOffers, handledOffers, remotes,
                       signals, pings>>

-----------------------------------------------------------------------------
Discover ==
    \/ \E n \in Announcer, o \in Offer : AnnounceAll(n, o)
    \/ \E x \in signals :
          \/ \E o \in Offer : SendNostrOffer(x, o)
          \/ AnswerOffer(x)
          \/ RefuseOffer(x)
          \/ TakeAnswer(x)
          \/ AnswerTooLate(x)
          \/ Ignore(x)

Next ==
    \/ Discover
    \/ \E e \in End :
          \/ \E m \in Node : Connect(e, m)
          \/ Greet(e)
          \/ Break(e)
          \/ Lose(e)
          \/ Close(e)
    \/ \E n \in Node :
          \/ PeersCheck(n)
          \/ \E o \in Offer : IceTimeout(n, o) \/ NostrTimeout(n, o)

Spec == Init /\ [][Next]_vars

-----------------------------------------------------------------------------
\* No entry of peerMap outlives the close event of its object, whatever was
\* replaced, broken or given up meanwhile: an entry nobody removes would have
\* every later offer and answer of that peer dropped, and count towards the cap.
NoDeadPeers ==
    \A n, m \in Node : peerMap[n][m] # None =>
        /\ phase[<<n, peerMap[n][m]>>] \in {"open", "closing"}
        /\ m \in remotes[<<n, peerMap[n][m]>>]

\* connectedPeers, which drops the signals of those it names, and peerMap, which
\* counts towards the cap, name the same peers, late close events included.
ListsAgree ==
    \A n \in Node : connectedPeers[n] \cap Node = Mapped(n)
=============================================================================
