--------------------------- MODULE AdaptersProofs ---------------------------
(***************************************************************************)
(* Proofs about the adapters of a browser and of a hybrid peer, each for   *)
(* any peers, offers, servers, trackers and messages.  The hybrid adapter  *)
(* forgets no server that it found, and its queue loses no message that    *)
(* waits; the peers a WebRTC adapter lists are never dead; and its sockets *)
(* to trackers and relays are retried, but never more often than it        *)
(* announced itself.                                                       *)
(***************************************************************************)
EXTENDS MCAdapters, SequenceTheorems, FoldTheorems, TLAPS

\* The state of sockets, tries and timers.
LinksOK ==
    /\ linkState \in [Dialled \cup Visitor -> {"none", "connecting", "open", "failing", "closed"}]
    /\ awaited \subseteq ServerPeer
    /\ retried \in [ServerPeer -> 0..MaxRetries]
    /\ deferred \subseteq awaited
    \* A timer runs only while there are tries left.
    /\ \A s \in deferred : retried[s] < MaxRetries

\* Who was ever dialled is in the list that reconnect looks at.
DialledAwaited ==
    \A k \in Dialled : linkState[k] # "none" => k[1] \in awaited

TriedInv == LinksOK /\ DialledAwaited /\ FoundServerTried

-----------------------------------------------------------------------------
\* Sockets of dialled servers and of clients are different ones.
LEMMA Sockets == /\ \A k \in Dialled : k[1] \in ServerPeer
                 /\ \A v \in Visitor : v \notin Dialled
BY HybridAssumption DEF Dialled

(***************************************************************************)
(* The invariant needs nothing of names, queue and trackers.               *)
(***************************************************************************)
LEMMA LinksOnly ==
    ASSUME TriedInv, UNCHANGED <<linkState, awaited, retried, deferred>>
    PROVE  TriedInv'
BY DEF TriedInv, LinksOK, DialledAwaited, FoundServerTried, LiveSocket

(***************************************************************************)
(* connectTo makes its server one with a socket that is alive; timers of   *)
(* other servers go on.                                                    *)
(***************************************************************************)
LEMMA Connected ==
    ASSUME TriedInv, NEW s \in ServerPeer, ConnectTo(s),
           deferred' \subseteq deferred, deferred \ {s} \subseteq deferred',
           retried' \in [ServerPeer -> 0..MaxRetries],
           \A r \in ServerPeer \ {s} : retried'[r] = retried[r],
           s \in deferred' => retried'[s] < MaxRetries
    PROVE  TriedInv'
<1>1. PICK k \in Dialled : /\ k[1] = s /\ linkState[k] = "none"
                           /\ linkState' = [linkState EXCEPT ![k] = "connecting"]
                           /\ awaited' = awaited \cup {s}
  BY DEF ConnectTo, Undialled
<1>2. /\ linkState'[k] = "connecting"
      /\ \A l \in Dialled : l # k => linkState'[l] = linkState[l]
  BY <1>1 DEF TriedInv, LinksOK
<1>3. LinksOK'
  BY <1>1 DEF TriedInv, LinksOK
<1>4. DialledAwaited'
  BY <1>1, <1>2 DEF TriedInv, DialledAwaited
<1>5. ASSUME NEW r \in ServerPeer, NEW l \in Dialled, l[1] = r, linkState'[l] # "none"
      PROVE  LiveSocket(r)' \/ r \in deferred' \/ retried'[r] = MaxRetries
  <2>1. CASE r = s
    BY <1>1, <1>2, <2>1 DEF LiveSocket
  <2>2. CASE r # s
    <3>1. linkState[l] # "none"
      BY <1>1, <1>2, <1>5, <2>2
    <3>2. LiveSocket(r) \/ r \in deferred \/ retried[r] = MaxRetries
      BY <1>5, <3>1 DEF TriedInv, FoundServerTried
    <3>3. LiveSocket(r) => LiveSocket(r)'
      BY <1>1, <1>2, <2>2 DEF LiveSocket
    <3> QED BY <2>2, <3>2, <3>3
  <2> QED BY <2>1, <2>2
<1>6. FoundServerTried'
  BY <1>5 DEF FoundServerTried
<1> QED BY <1>3, <1>4, <1>6 DEF TriedInv

(***************************************************************************)
(* reconnect leaves a timer behind unless the tries are used up.           *)
(***************************************************************************)
LEMMA Reconnected ==
    ASSUME LinksOK, NEW s \in awaited, HybridReconnect(s)
    PROVE  /\ awaited' = awaited
           /\ deferred' \subseteq awaited
           /\ \A r \in deferred' : r = s \/ r \in deferred
           /\ s \in deferred' => retried[s] < MaxRetries
           /\ \A r \in deferred : r # s => r \in deferred'
           /\ s \in deferred' \/ retried[s] = MaxRetries
BY RetriesAssumption DEF LinksOK, HybridReconnect, RemoveFromAwaiting

-----------------------------------------------------------------------------
\* Nobody was dialled yet.
LEMMA TriedInit == HybridInit => TriedInv
BY RetriesAssumption, Sockets
   DEF HybridInit, TriedInv, LinksOK, DialledAwaited, FoundServerTried

\* Every step keeps the invariant.
LEMMA TriedStep == ASSUME TriedInv, [HybridNext]_HybridVars PROVE TriedInv'
<1> USE Sockets
<1>1. CASE UNCHANGED HybridVars
  BY <1>1, LinksOnly DEF HybridVars
<1>2. ASSUME NEW id, NEW to, NEW chosen, Push(id, to, chosen) PROVE TriedInv'
  BY <1>2, LinksOnly DEF Push, knownVars
<1>3. CASE HybridPoll \/ HybridAge
  BY <1>3, LinksOnly DEF HybridPoll, HybridAge, knownVars
<1>4. ASSUME NEW name, FindServer(name) PROVE TriedInv'
  BY <1>4, LinksOnly DEF FindServer, knownVars
<1>5. ASSUME NEW t, HybridAnnounceAll(t) \/ TrackerLost(t) PROVE TriedInv'
  BY <1>5, LinksOnly DEF HybridAnnounceAll, TrackerLost, knownVars
<1>6. ASSUME NEW t, NEW name, TrackerAnswers(t, name) PROVE TriedInv'
  BY <1>6, LinksOnly DEF TrackerAnswers, knownVars
<1>7. ASSUME NEW t, NEW o \in ServerOffer, ReceiveOffer(t, o) PROVE TriedInv'
  <2> DEFINE s == OfferedBy[o]
  <2>1. s \in ServerPeer /\ retried' = retried /\ deferred' = deferred
    BY <1>7, HybridAssumption DEF ReceiveOffer
  <2>2. CASE NameOf[s] \in connectedServers
    BY <1>7, <2>1, <2>2, LinksOnly DEF ReceiveOffer
  <2>3. CASE NameOf[s] \notin connectedServers
    <3>1. ConnectTo(s)
      BY <1>7, <2>3 DEF ReceiveOffer
    <3> QED BY <2>1, <3>1, Connected DEF TriedInv, LinksOK
  <2> QED BY <2>2, <2>3
<1>8. ASSUME NEW s \in ServerPeer, HybridRetry(s) PROVE TriedInv'
  <2>1. /\ s \in deferred /\ deferred' = deferred \ {s} /\ ConnectTo(s)
        /\ retried' = [retried EXCEPT ![s] = @ + 1]
    BY <1>8 DEF HybridRetry
  <2>2. retried[s] \in 0..MaxRetries /\ retried[s] < MaxRetries
    BY <2>1 DEF TriedInv, LinksOK
  <2>3. retried[s] + 1 \in 0..MaxRetries
    BY <2>2, RetriesAssumption
  <2>4. /\ retried' \in [ServerPeer -> 0..MaxRetries]
        /\ \A r \in ServerPeer \ {s} : retried'[r] = retried[r]
    BY <2>1, <2>3 DEF TriedInv, LinksOK
  <2> QED BY <2>1, <2>4, Connected
<1>9. ASSUME NEW k \in Dialled, HybridOpen(k) PROVE TriedInv'
  <2>1. /\ linkState[k] = "connecting" /\ linkState' = [linkState EXCEPT ![k] = "open"]
        /\ UNCHANGED <<awaited, retried, deferred>>
    BY <1>9 DEF HybridOpen, RemoveFromAwaiting
  <2>2. \A l \in Dialled : linkState'[l] = IF l = k THEN "open" ELSE linkState[l]
    BY <2>1 DEF TriedInv, LinksOK
  <2>3. \A s \in ServerPeer : LiveSocket(s) => LiveSocket(s)'
    BY <2>2 DEF LiveSocket
  <2>4. LinksOK'
    BY <2>1 DEF TriedInv, LinksOK
  <2>5. DialledAwaited'
    BY <2>1, <2>2 DEF TriedInv, DialledAwaited
  <2>6. FoundServerTried'
    BY <2>1, <2>2, <2>3 DEF TriedInv, FoundServerTried
  <2> QED BY <2>4, <2>5, <2>6 DEF TriedInv
<1>10. ASSUME NEW k \in Dialled, HybridError(k) PROVE TriedInv'
  <2>1. /\ linkState[k] \in {"connecting", "open"}
        /\ linkState' = [linkState EXCEPT ![k] = "failing"]
        /\ HybridReconnect(k[1]) \/ UNCHANGED <<awaited, deferred>>
        /\ retried' = retried
    BY <1>10 DEF HybridError
  <2>2. \A l \in Dialled : linkState'[l] = IF l = k THEN "failing" ELSE linkState[l]
    BY <2>1 DEF TriedInv, LinksOK
  <2>3. \A s \in ServerPeer : LiveSocket(s) => LiveSocket(s)'
    BY <2>2 DEF LiveSocket
  <2>4. k[1] \in awaited
    BY <2>1 DEF TriedInv, DialledAwaited
  <2>5. /\ awaited' = awaited
        /\ deferred' \subseteq awaited
        /\ \A r \in deferred' : retried[r] < MaxRetries
        /\ \A r \in deferred : r = k[1] \/ r \in deferred'
    BY <2>1, <2>4, Reconnected DEF TriedInv, LinksOK
  <2>6. LinksOK'
    BY <2>1, <2>5 DEF TriedInv, LinksOK
  <2>7. DialledAwaited'
    BY <2>1, <2>2, <2>5 DEF TriedInv, DialledAwaited
  <2>8. LiveSocket(k[1])'
    BY <2>2 DEF LiveSocket
  <2>9. FoundServerTried'
    BY <2>1, <2>2, <2>3, <2>5, <2>8 DEF TriedInv, FoundServerTried
  <2> QED BY <2>6, <2>7, <2>9 DEF TriedInv
<1>11. ASSUME NEW k \in Dialled, HybridClose(k) PROVE TriedInv'
  <2>1. /\ linkState[k] \in {"open", "failing"}
        /\ linkState' = [linkState EXCEPT ![k] = "closed"]
        /\ HybridReconnect(k[1]) /\ retried' = retried
    BY <1>11 DEF HybridClose
  <2>2. \A l \in Dialled : linkState'[l] = IF l = k THEN "closed" ELSE linkState[l]
    BY <2>1 DEF TriedInv, LinksOK
  <2>3. k[1] \in awaited
    BY <2>1 DEF TriedInv, DialledAwaited
  <2>4. /\ awaited' = awaited
        /\ deferred' \subseteq awaited
        /\ \A r \in deferred' : retried[r] < MaxRetries
        /\ \A r \in deferred : r = k[1] \/ r \in deferred'
        /\ k[1] \in deferred' \/ retried[k[1]] = MaxRetries
    BY <2>1, <2>3, Reconnected DEF TriedInv, LinksOK
  <2>5. LinksOK'
    BY <2>1, <2>4 DEF TriedInv, LinksOK
  <2>6. DialledAwaited'
    BY <2>1, <2>2, <2>4 DEF TriedInv, DialledAwaited
  <2>7. \A s \in ServerPeer : s # k[1] /\ LiveSocket(s) => LiveSocket(s)'
    BY <2>2 DEF LiveSocket
  <2>8. FoundServerTried'
    BY <2>1, <2>2, <2>4, <2>7 DEF TriedInv, FoundServerTried
  <2> QED BY <2>5, <2>6, <2>8 DEF TriedInv
<1>12. ASSUME NEW v \in Visitor, ClientGreets(v) \/ ClientLeaves(v) PROVE TriedInv'
  <2>1. /\ \A k \in Dialled : linkState'[k] = linkState[k]
        /\ linkState' \in [Dialled \cup Visitor ->
                             {"none", "connecting", "open", "failing", "closed"}]
        /\ UNCHANGED <<awaited, retried, deferred>>
    BY <1>12 DEF TriedInv, LinksOK, ClientGreets, ClientLeaves, knownVars
  <2> QED BY <2>1 DEF TriedInv, LinksOK, DialledAwaited, FoundServerTried, LiveSocket
<1> QED
  BY <1>1, <1>2, <1>3, <1>4, <1>5, <1>6, <1>7, <1>8, <1>9, <1>10, <1>11, <1>12
  DEF HybridNext, HybridSendToAll, HybridSendToClientId, HybridSendToAllServers

-----------------------------------------------------------------------------
(***************************************************************************)
(* A server that was found has a socket or a timer as long as it has tries *)
(* left, however offers, errors, closes and retries come.                  *)
(***************************************************************************)
THEOREM NoServerForgotten == HybridSpec => []FoundServerTried
<1>1. TriedInv /\ [HybridNext]_HybridVars => TriedInv'
  BY TriedStep
<1>2. TriedInv => FoundServerTried
  BY DEF TriedInv
<1> QED BY TriedInit, <1>1, <1>2, PTL DEF HybridSpec

-----------------------------------------------------------------------------
\* Destroying objects leaves each in a phase.
LEMMA DestroyedType ==
    ASSUME phase \in [End -> Phase], NEW E PROVE Destroyed(E) \in [End -> Phase]
BY DEF Destroyed, Phase

\* Destroying objects changes no others, and no object that is not alive.
LEMMA DestroyedPhase ==
    ASSUME phase \in [End -> Phase], NEW E, NEW e \in End
    PROVE  /\ phase[e] \in {"none", "closing", "closed"} => Destroyed(E)[e] = phase[e]
           /\ phase[e] = "open" => Destroyed(E)[e] \in {"open", "closing"}
BY DEF Destroyed, Phase

\* The node and the offer of an object.
LEMMA Ends == ASSUME NEW e \in End
              PROVE  e[1] \in Node /\ e[2] \in Offer /\ e = <<e[1], e[2]>>
BY DEF End

\* What onDisconnect leaves of the two lists.
LEMMA Disconnected ==
    ASSUME TypeOK, NEW n \in Node, NEW ids \in SUBSET Node, OnDisconnect(n, ids)
    PROVE  /\ peerMap' \in [Node -> [Node -> Offer \cup {None}]]
           /\ connectedPeers' \in [Node -> SUBSET (Node \cup Offer)]
           /\ \A k, m \in Node : peerMap'[k][m] =
                IF k = n /\ m \in ids THEN None ELSE peerMap[k][m]
           /\ \A k \in Node : connectedPeers'[k] =
                IF k = n THEN connectedPeers[k] \ ids ELSE connectedPeers[k]
BY DEF OnDisconnect, TypeOK

\* What is on its way between peers.
LEMMA SignalType ==
    ASSUME TypeOK, NEW x \in signals
    PROVE  /\ x \in Signal
           /\ x.src \in Node /\ x.dst \in Node /\ x.src # x.dst
           /\ x.type \in {"offer", "answer"} => x.offer \in Offer /\ x.nostr \in BOOLEAN
BY DEF TypeOK, Signal

\* Offers and announcements are signals.
LEMMA SentType ==
    ASSUME NEW n \in Node, NEW o \in Offer, NEW nostr \in BOOLEAN, NEW to \in SUBSET (Node \ {n})
    PROVE  Offers(n, o, nostr, to) \subseteq Signal /\ Hellos(n) \subseteq Signal
<1>1. \A m \in to : [type |-> "offer", nostr |-> nostr, src |-> n, dst |-> m, offer |-> o]
                     \in Signal
  BY DEF Signal
<1>2. \A m \in Nostr \ {n} : [type |-> "hello", src |-> n, dst |-> m] \in Signal
  BY PeersAssumption DEF Signal
<1> QED BY <1>1, <1>2 DEF Offers, Hellos

(***************************************************************************)
(* Type correctness: every handler keeps TypeOK.                           *)
(***************************************************************************)
THEOREM PeersTyped == Spec => []TypeOK
<1>1. Init => TypeOK
  BY DEF Init, TypeOK, Phase
<1>2. TypeOK /\ [Next]_vars => TypeOK'
  <2> SUFFICES ASSUME TypeOK, [Next]_vars PROVE TypeOK'
    OBVIOUS
  <2>1. ASSUME NEW n \in Announcer, NEW o \in Offer, AnnounceAll(n, o) PROVE TypeOK'
    <3>1. n \in Node
      BY PeersAssumption
    <3>2. phase' \in [End -> Phase]
      BY <2>1, <3>1, DestroyedType DEF AnnounceAll, TypeOK, End, Phase
    <3>3. signals' \subseteq Signal
      <4>1. Node \ {n} \in SUBSET (Node \ {n}) /\ FALSE \in BOOLEAN
        OBVIOUS
      <4>2. Offers(n, o, FALSE, Node \ {n}) \subseteq Signal /\ Hellos(n) \subseteq Signal
        BY <3>1, <4>1, SentType
      <4> QED BY <2>1, <4>2 DEF AnnounceAll, TypeOK
    <3> QED BY <2>1, <3>1, <3>2, <3>3 DEF AnnounceAll, TypeOK
  <2>2. ASSUME NEW x \in signals, NEW o \in Offer, SendNostrOffer(x, o) PROVE TypeOK'
    <3>1. x \in Signal /\ x.dst \in Node
      BY SignalType
    <3>2. signals' \subseteq Signal
      <4>1. Nostr \ {x.dst} \in SUBSET (Node \ {x.dst}) /\ TRUE \in BOOLEAN
        BY PeersAssumption
      <4>2. Offers(x.dst, o, TRUE, Nostr \ {x.dst}) \subseteq Signal
        BY <3>1, <4>1, SentType
      <4> QED BY <2>2, <4>2 DEF SendNostrOffer, TypeOK
    <3>3. phase' \in [End -> Phase]
      BY <2>2 DEF SendNostrOffer, TypeOK, Phase
    <3> QED BY <2>2, <3>1, <3>2, <3>3 DEF SendNostrOffer, TypeOK
  <2>3. ASSUME NEW x \in signals, AnswerOffer(x) PROVE TypeOK'
    <3>1. x \in Signal /\ x.dst \in Node /\ x.src \in Node /\ x.offer \in Offer
          /\ x.nostr \in BOOLEAN /\ x.src # x.dst
      BY <2>3, SignalType DEF AnswerOffer
    <3>2. signals' \subseteq Signal
      BY <2>3, <3>1 DEF AnswerOffer, TypeOK, Signal
    <3>3. phase' \in [End -> Phase]
      BY <2>3 DEF AnswerOffer, TypeOK, Phase
    <3> QED BY <2>3, <3>1, <3>2, <3>3 DEF AnswerOffer, TypeOK
  <2>4. ASSUME NEW x \in signals, RefuseOffer(x) PROVE TypeOK'
    <3>1. x.dst \in Node
      BY SignalType
    <3>2. signals' \subseteq Signal /\ UNCHANGED <<maker, pendingOffers, remotes, peerMap,
                                                  connectedPeers, clientToSend, pings>>
      BY <2>4 DEF RefuseOffer, Consume, TypeOK
    <3>3. CASE x.nostr
      BY <2>4, <3>2, <3>3 DEF RefuseOffer, TypeOK
    <3>4. CASE ~x.nostr
      <4>1. PICK stale \in SUBSET offerPool[x.dst] :
              /\ phase' = Destroyed({x.dst} \X Abandoned(x.dst, stale))
              /\ offerPool' = [offerPool EXCEPT ![x.dst] = @ \ Abandoned(x.dst, stale)]
              /\ handledOffers' = [handledOffers EXCEPT ![x.dst] = {}]
        BY <2>4, <3>4 DEF RefuseOffer
      <4>2. phase' \in [End -> Phase]
        BY <4>1, DestroyedType DEF TypeOK
      <4> QED BY <3>1, <3>2, <4>1, <4>2 DEF TypeOK
    <3> QED BY <3>3, <3>4
  <2>5. ASSUME NEW x \in signals, TakeAnswer(x) PROVE TypeOK'
    <3>1. x.dst \in Node /\ x.src \in Node /\ x.offer \in Offer
      BY <2>5, SignalType DEF TakeAnswer
    <3>2. phase' \in [End -> Phase]
      BY <2>5 DEF TakeAnswer, TypeOK, Phase
    <3> QED BY <2>5, <3>1, <3>2 DEF TakeAnswer, TypeOK, Consume
  <2>6. ASSUME NEW x \in signals, AnswerTooLate(x) PROVE TypeOK'
    <3>1. x.dst \in Node /\ x.src \in Node /\ x.offer \in Offer
      BY <2>6, SignalType DEF AnswerTooLate
    <3>2. signals' \subseteq Signal /\ UNCHANGED <<maker, offerPool, phase, remotes,
                                                  clientToSend, pings>>
      BY <2>6 DEF AnswerTooLate, Consume, TypeOK
    <3>3. CASE x.nostr
      <4>1. /\ handledOffers' = [handledOffers EXCEPT ![x.dst] = @ \cup {x.offer}]
            /\ pendingOffers' = [pendingOffers EXCEPT ![x.dst] = @ \ {x.offer}]
            /\ UNCHANGED <<peerMap, connectedPeers>>
        BY <2>6, <3>3 DEF AnswerTooLate
      <4> QED BY <3>1, <3>2, <4>1 DEF TypeOK
    <3>4. CASE ~x.nostr
      <4>1. OnDisconnect(x.dst, {x.src}) /\ UNCHANGED <<handledOffers, pendingOffers>>
        BY <2>6, <3>4 DEF AnswerTooLate
      <4>2. peerMap' \in [Node -> [Node -> Offer \cup {None}]]
            /\ connectedPeers' \in [Node -> SUBSET (Node \cup Offer)]
        BY <3>1, <4>1, Disconnected
      <4> QED BY <3>2, <4>1, <4>2 DEF TypeOK
    <3> QED BY <3>3, <3>4
  <2>7. ASSUME NEW x \in signals, Ignore(x) PROVE TypeOK'
    BY <2>7 DEF Ignore, TypeOK, Consume
  <2>8. ASSUME NEW e \in End, NEW m \in Node, Connect(e, m) PROVE TypeOK'
    <3>1. phase' \in [End -> Phase]
      BY <2>8, DestroyedType DEF Connect, TypeOK, Phase
    <3>2. e[1] \in Node /\ e[2] \in Offer /\ <<m, e[2]>> \in End
      BY Ends DEF End
    <3> QED BY <2>8, <3>1, <3>2 DEF Connect, TypeOK
  <2>9. ASSUME NEW e \in End, Greet(e) PROVE TypeOK'
    BY <2>9, Ends DEF Greet, TypeOK
  <2>10. ASSUME NEW e \in End, Break(e) \/ Lose(e) PROVE TypeOK'
    <3>1. phase' \in [End -> Phase]
      BY <2>10, DestroyedType DEF Break, Lose, Destroy, TypeOK
    <3> QED BY <2>10, <3>1 DEF Break, Lose, Destroy, TypeOK
  <2>11. ASSUME NEW e \in End, Close(e) PROVE TypeOK'
    <3>1. e[1] \in Node /\ remotes[e] \in SUBSET Node
      BY Ends DEF TypeOK
    <3> QED BY <2>11, <3>1, Disconnected DEF Close, TypeOK, Phase
  <2>12. ASSUME NEW n \in Node, PeersCheck(n) PROVE TypeOK'
    <3> DEFINE lost == {m \in Node : /\ clientToSend[n][m] # None
                                    /\ peerMap[n][m] # None
                                    /\ phase[<<n, peerMap[n][m]>>] # "open"}
    <3>1. OnDisconnect(n, lost) /\ lost \in SUBSET Node
      BY <2>12 DEF PeersCheck
    <3>2. phase' \in [End -> Phase]
      <4>1. \E E : phase' = Destroyed(E)
        BY <2>12 DEF PeersCheck
      <4> QED BY <4>1, DestroyedType DEF TypeOK
    <3>3. peerMap' \in [Node -> [Node -> Offer \cup {None}]]
          /\ connectedPeers' \in [Node -> SUBSET (Node \cup Offer)]
      <4> HIDE DEF lost
      <4> QED BY <3>1, Disconnected
    <3> QED BY <2>12, <3>2, <3>3 DEF PeersCheck, TypeOK
  <2>13. ASSUME NEW n \in Node, NEW o \in Offer, IceTimeout(n, o) \/ NostrTimeout(n, o)
         PROVE  TypeOK'
    <3>1. phase' \in [End -> Phase]
      BY <2>13, DestroyedType DEF IceTimeout, NostrTimeout, Destroy, TypeOK, End
    <3> QED BY <2>13, <3>1, ZenonT(30) DEF IceTimeout, NostrTimeout, Destroy, TypeOK
  <2>14. CASE UNCHANGED vars
    BY <2>14 DEF vars, TypeOK
  <2> QED BY <2>1, <2>2, <2>3, <2>4, <2>5, <2>6, <2>7, <2>8, <2>9, <2>10, <2>11,
             <2>12, <2>13, <2>14 DEF Next, Discover
<1> QED BY <1>1, <1>2, PTL DEF Spec

-----------------------------------------------------------------------------
\* An offer nobody made has no objects and is in no message.
Unmade ==
    /\ \A n \in Node, o \in Offer : maker[o] = None => phase[<<n, o>>] = "none"
    /\ \A x \in signals : x.type # "hello" => maker[x.offer] # None

\* An offer on its way was not answered by the peer it goes to, which gets it once.
Unanswered ==
    \A x \in signals : x.type = "offer" =>
        /\ phase[<<x.dst, x.offer>>] = "none"
        /\ \A y \in signals :
             y.type = "offer" /\ y.dst = x.dst /\ y.offer = x.offer => y = x

PeersInv == TypeOK /\ NoDeadPeers /\ Unmade /\ Unanswered

\* Steps that start no object and send nothing.
LEMMA KeepsOffers ==
    ASSUME TypeOK, Unmade, Unanswered, maker' = maker, signals' \subseteq signals,
           \A e \in End : phase[e] = "none" => phase'[e] = "none"
    PROVE  Unmade' /\ Unanswered'
<1>1. Unmade'
  BY DEF Unmade, End
<1>2. ASSUME NEW x \in signals', x.type = "offer" PROVE <<x.dst, x.offer>> \in End
  BY <1>2, SignalType DEF End
<1>3. Unanswered'
  BY <1>2 DEF Unanswered
<1> QED BY <1>1, <1>3

\* Steps that list nobody new and end no object that is listed.
LEMMA KeepsListed ==
    ASSUME TypeOK, NoDeadPeers,
           \A e \in End : phase[e] \in {"open", "closing"} => phase'[e] \in {"open", "closing"},
           \A e \in End : remotes[e] \subseteq remotes'[e],
           \A n, m \in Node : peerMap'[n][m] \in {None, peerMap[n][m]}
    PROVE  NoDeadPeers'
<1> SUFFICES ASSUME NEW n \in Node, NEW m \in Node, peerMap'[n][m] # None
             PROVE  /\ phase'[<<n, peerMap'[n][m]>>] \in {"open", "closing"}
                    /\ m \in remotes'[<<n, peerMap'[n][m]>>]
  BY DEF NoDeadPeers
<1>1. peerMap'[n][m] = peerMap[n][m] /\ peerMap[n][m] # None
  OBVIOUS
<1>2. <<n, peerMap[n][m]>> \in End
  BY <1>1 DEF TypeOK, End
<1> QED BY <1>1, <1>2 DEF NoDeadPeers

(***************************************************************************)
(* NoDeadPeers: no entry of peerMap outlives the close event of its object.*)
(***************************************************************************)
THEOREM NeverDead == Spec => []NoDeadPeers
<1>1. Init => PeersInv
  <2> SUFFICES ASSUME Init PROVE NoDeadPeers /\ Unmade /\ Unanswered
    BY DEF PeersInv, Init, TypeOK, Phase
  <2> QED BY DEF Init, NoDeadPeers, Unmade, Unanswered, End
<1>2. PeersInv /\ TypeOK' /\ [Next]_vars => PeersInv'
  <2> SUFFICES ASSUME PeersInv, TypeOK', [Next]_vars
               PROVE  NoDeadPeers' /\ Unmade' /\ Unanswered'
    BY DEF PeersInv
  <2> USE DEF PeersInv
  <2>1. ASSUME NEW n \in Node, NEW o \in Offer, maker[o] = None,
               maker' = [maker EXCEPT ![o] = n],
               \A e \in End : e # <<n, o>> /\ phase[e] \in {"none", "closing", "closed"}
                                => phase'[e] = phase[e],
               \A e \in End : e # <<n, o>> /\ phase[e] = "open"
                                => phase'[e] \in {"open", "closing"},
               UNCHANGED <<remotes, peerMap>>,
               NEW nostr \in BOOLEAN, NEW to \in SUBSET (Node \ {n}),
               \A x \in signals' : x \in signals \/ x.type = "hello"
                                   \/ x \in Offers(n, o, nostr, to)
        PROVE  NoDeadPeers' /\ Unmade' /\ Unanswered'
    <3>1. \A k, m \in Node : peerMap[k][m] # o
      <4> SUFFICES ASSUME NEW k \in Node, NEW m \in Node, peerMap[k][m] = o PROVE FALSE
        OBVIOUS
      <4>1. phase[<<k, o>>] = "none"
        BY <2>1 DEF Unmade
      <4> QED BY <4>1, PeersAssumption DEF NoDeadPeers
    <3>2. NoDeadPeers'
      <4> SUFFICES ASSUME NEW k \in Node, NEW m \in Node, peerMap[k][m] # None
                   PROVE  phase'[<<k, peerMap[k][m]>>] \in {"open", "closing"}
        BY <2>1 DEF NoDeadPeers
      <4>1. <<k, peerMap[k][m]>> \in End /\ peerMap[k][m] # o
        BY <3>1 DEF TypeOK, End
      <4> QED BY <2>1, <4>1 DEF NoDeadPeers
    <3>3. \A x \in signals : x.type # "hello" => x.offer # o /\ x.offer \in Offer
      BY <2>1, SignalType DEF Unmade, TypeOK, Signal
    <3>4. \A x \in Offers(n, o, nostr, to) :
             x.type = "offer" /\ x.offer = o /\ x.dst # n /\ x.dst \in Node
      BY DEF Offers
    <3>5. Unmade'
      <4>1. ASSUME NEW k \in Node, NEW p \in Offer, maker'[p] = None
            PROVE  phase'[<<k, p>>] = "none"
        <5>1. p # o /\ maker[p] = None
          BY <2>1, <4>1, PeersAssumption DEF TypeOK
        <5>2. <<k, p>> \in End /\ <<k, p>> # <<n, o>>
          BY <5>1 DEF End
        <5> QED BY <2>1, <5>1, <5>2 DEF Unmade
      <4>2. ASSUME NEW x \in signals', x.type # "hello" PROVE maker'[x.offer] # None
        BY <2>1, <3>3, <3>4, <4>2, PeersAssumption DEF Unmade, TypeOK
      <4> QED BY <4>1, <4>2 DEF Unmade
    <3>6. ASSUME NEW x \in signals', x.type = "offer"
          PROVE  phase'[<<x.dst, x.offer>>] = "none"
      <4>1. CASE x \in signals
        <5>1. <<x.dst, x.offer>> \in End /\ <<x.dst, x.offer>> # <<n, o>>
          BY <3>3, <3>6, <4>1, SignalType DEF End
        <5> QED BY <2>1, <3>6, <4>1, <5>1 DEF Unanswered
      <4>2. CASE x \in Offers(n, o, nostr, to)
        <5>1. <<x.dst, o>> \in End /\ <<x.dst, o>> # <<n, o>>
          BY <3>4, <4>2 DEF End
        <5>2. phase[<<x.dst, o>>] = "none"
          BY <2>1, <3>4, <4>2 DEF Unmade
        <5> QED BY <2>1, <3>4, <4>2, <5>1, <5>2
      <4> QED BY <2>1, <3>6, <4>1, <4>2
    <3>7. ASSUME NEW x \in signals', NEW y \in signals', x.type = "offer", y.type = "offer",
                 y.dst = x.dst, y.offer = x.offer
          PROVE  y = x
      <4>1. CASE x \in signals /\ y \in signals
        BY <3>7, <4>1 DEF Unanswered
      <4>2. CASE x \in Offers(n, o, nostr, to) /\ y \in Offers(n, o, nostr, to)
        BY <3>7, <4>2 DEF Offers
      <4>3. CASE x.offer = o
        BY <2>1, <3>3, <3>7, <4>2, <4>3
      <4>4. CASE x.offer # o
        BY <2>1, <3>4, <3>7, <4>1, <4>4
      <4> QED BY <4>3, <4>4
    <3> QED BY <3>2, <3>5, <3>6, <3>7 DEF Unanswered
  <2>2. ASSUME NEW n \in Announcer, NEW o \in Offer, AnnounceAll(n, o)
        PROVE  NoDeadPeers' /\ Unmade' /\ Unanswered'
    <3>1. n \in Node /\ maker[o] = None
      BY <2>2, PeersAssumption DEF AnnounceAll, Fresh
    <3>2. PICK stale \in SUBSET offerPool[n] :
            phase' = [Destroyed({n} \X Abandoned(n, stale)) EXCEPT ![<<n, o>>] = "new"]
      BY <2>2 DEF AnnounceAll
    <3>3. \A e \in End : e # <<n, o>> => phase'[e] = Destroyed({n} \X Abandoned(n, stale))[e]
      BY <3>2 DEF Destroyed
    <3>4. \A x \in signals' : x \in signals \/ x.type = "hello"
                              \/ x \in Offers(n, o, FALSE, Node \ {n})
      <4>1. signals' = signals \cup Offers(n, o, FALSE, Node \ {n}) \cup Hellos(n)
        BY <2>2 DEF AnnounceAll
      <4>2. \A x \in Hellos(n) : x.type = "hello"
        BY DEF Hellos
      <4> QED BY <4>1, <4>2
    <3>5. UNCHANGED <<remotes, peerMap>> /\ maker' = [maker EXCEPT ![o] = n]
      BY <2>2 DEF AnnounceAll
    <3>6. FALSE \in BOOLEAN /\ Node \ {n} \in SUBSET (Node \ {n})
      OBVIOUS
    <3>7. phase \in [End -> Phase]
      BY DEF TypeOK
    <3>8. \A e \in End : e # <<n, o>> /\ phase[e] \in {"none", "closing", "closed"}
                                => phase'[e] = phase[e]
      BY <3>3, <3>7, DestroyedPhase
    <3>9. \A e \in End : e # <<n, o>> /\ phase[e] = "open" => phase'[e] \in {"open", "closing"}
      BY <3>3, <3>7, DestroyedPhase
    <3> QED BY <2>1, <3>1, <3>4, <3>5, <3>6, <3>8, <3>9
  <2>3. ASSUME NEW x \in signals, NEW o \in Offer, SendNostrOffer(x, o)
        PROVE  NoDeadPeers' /\ Unmade' /\ Unanswered'
    <3>1. x.dst \in Node /\ maker[o] = None
      BY <2>3, SignalType DEF SendNostrOffer, Fresh
    <3>2. phase' = [phase EXCEPT ![<<x.dst, o>>] = "new"]
      BY <2>3 DEF SendNostrOffer
    <3>3. \A e \in End : e # <<x.dst, o>> => phase'[e] = phase[e]
      BY <3>2 DEF TypeOK
    <3>4. \A y \in signals' : y \in signals \/ y.type = "hello"
                              \/ y \in Offers(x.dst, o, TRUE, Nostr \ {x.dst})
      BY <2>3 DEF SendNostrOffer
    <3>5. UNCHANGED <<remotes, peerMap>> /\ maker' = [maker EXCEPT ![o] = x.dst]
      BY <2>3 DEF SendNostrOffer
    <3>6. TRUE \in BOOLEAN /\ Nostr \ {x.dst} \in SUBSET (Node \ {x.dst})
      BY PeersAssumption
    <3> QED BY <2>1, <3>1, <3>3, <3>4, <3>5, <3>6
  <2>4. ASSUME NEW x \in signals, AnswerOffer(x)
        PROVE  NoDeadPeers' /\ Unmade' /\ Unanswered'
    <3> DEFINE e == <<x.dst, x.offer>>
    <3>1. x.type = "offer" /\ x.dst \in Node /\ x.offer \in Offer
      BY <2>4, SignalType DEF AnswerOffer
    <3>2. e \in End /\ phase[e] = "none" /\ maker[x.offer] # None
      BY <2>4, <3>1 DEF Unanswered, Unmade, End
    <3>3. /\ phase' = [phase EXCEPT ![e] = "signalled"]
          /\ remotes' = [remotes EXCEPT ![e] = {x.src}]
          /\ UNCHANGED <<maker, peerMap>>
      BY <2>4 DEF AnswerOffer
    <3>4. NoDeadPeers'
      <4> SUFFICES ASSUME NEW n \in Node, NEW m \in Node, peerMap[n][m] # None
                   PROVE  /\ phase'[<<n, peerMap[n][m]>>] \in {"open", "closing"}
                          /\ m \in remotes'[<<n, peerMap[n][m]>>]
        BY <3>3 DEF NoDeadPeers
      <4>1. <<n, peerMap[n][m]>> \in End
        BY DEF TypeOK, End
      <4>2. <<n, peerMap[n][m]>> # e
        BY <3>2 DEF NoDeadPeers
      <4> QED BY <3>3, <4>1, <4>2 DEF NoDeadPeers, TypeOK
    <3>5. \A y \in signals' : \/ y \in signals \ {x}
                              \/ y.type = "answer" /\ y.offer = x.offer
      <4> DEFINE answer == [type |-> "answer", nostr |-> x.nostr, src |-> x.dst,
                            dst |-> x.src, offer |-> x.offer]
      <4>1. signals' = (signals \ {x}) \cup {answer}
        BY <2>4 DEF AnswerOffer
      <4>2. answer.type = "answer" /\ answer.offer = x.offer
        OBVIOUS
      <4> HIDE DEF answer
      <4> QED BY <4>1, <4>2
    <3>6. Unmade'
      <4>1. \A n \in Node, o \in Offer : maker[o] = None => phase'[<<n, o>>] = "none"
        <5> SUFFICES ASSUME NEW n \in Node, NEW o \in Offer, maker[o] = None
                     PROVE  phase'[<<n, o>>] = "none"
          OBVIOUS
        <5>1. <<n, o>> \in End /\ <<n, o>> # e
          BY <3>2 DEF End
        <5> QED BY <3>3, <5>1 DEF Unmade, TypeOK
      <4> QED BY <3>2, <3>3, <3>5, <4>1 DEF Unmade
    <3>7. ASSUME NEW y \in signals', y.type = "offer"
          PROVE  y \in signals \ {x} /\ phase'[<<y.dst, y.offer>>] = "none"
      <4>1. y \in signals \ {x}
        BY <3>5, <3>7
      <4>2. <<y.dst, y.offer>> \in End
        BY <3>7, <4>1, SignalType DEF End
      <4>3. <<y.dst, y.offer>> # e
        BY <3>1, <3>7, <4>1 DEF Unanswered
      <4> QED BY <3>3, <3>7, <4>1, <4>2, <4>3 DEF Unanswered, TypeOK
    <3> QED BY <3>4, <3>6, <3>7 DEF Unanswered
  <2>5. ASSUME NEW e \in End, NEW m \in Node, Connect(e, m)
        PROVE  NoDeadPeers' /\ Unmade' /\ Unanswered'
    <3> DEFINE n == e[1]
               o == e[2]
               old == {<<n, p>> : p \in {peerMap[n][m]} \ {None}}
    <3>1. n \in Node /\ o \in Offer /\ e = <<n, o>>
      BY Ends
    <3>2. /\ phase[e] = "signalled" /\ m \in remotes[e]
          /\ phase' = [Destroyed(old) EXCEPT ![e] = "open"]
          /\ peerMap' = [peerMap EXCEPT ![n][m] = o]
          /\ UNCHANGED <<maker, remotes, signals>>
      BY <2>5 DEF Connect, Joined
    <3>3. phase'[e] = "open" /\ \A d \in End : d # e => phase'[d] = Destroyed(old)[d]
      BY <3>2 DEF Destroyed
    <3>4. /\ \A d \in End : phase[d] = "none" => phase'[d] = "none"
          /\ \A d \in End : phase[d] \in {"open", "closing"} => phase'[d] \in {"open", "closing"}
      <4> HIDE DEF old
      <4> QED BY <3>2, <3>3, DestroyedPhase DEF TypeOK
    <3>5. NoDeadPeers'
      <4> SUFFICES ASSUME NEW k \in Node, NEW j \in Node, peerMap'[k][j] # None
                   PROVE  /\ phase'[<<k, peerMap'[k][j]>>] \in {"open", "closing"}
                          /\ j \in remotes[<<k, peerMap'[k][j]>>]
        BY <3>2 DEF NoDeadPeers
      <4>1. CASE k = n /\ j = m
        <5>1. peerMap'[k][j] = o
          BY <3>1, <3>2, <4>1 DEF TypeOK
        <5> QED BY <3>1, <3>2, <3>3, <4>1, <5>1
      <4>2. CASE ~(k = n /\ j = m)
        <5>1. peerMap'[k][j] = peerMap[k][j]
          BY <3>1, <3>2, <4>2 DEF TypeOK
        <5>2. <<k, peerMap[k][j]>> \in End
          BY <5>1 DEF TypeOK, End
        <5> QED BY <3>4, <5>1, <5>2 DEF NoDeadPeers
      <4> QED BY <4>1, <4>2
    <3> QED BY <3>2, <3>4, <3>5, KeepsOffers
  <2>6. ASSUME NEW e \in End, Close(e)
        PROVE  NoDeadPeers' /\ Unmade' /\ Unanswered'
    <3>1. e[1] \in Node /\ e = <<e[1], e[2]>> /\ remotes[e] \in SUBSET Node
      BY Ends DEF TypeOK
    <3>2. /\ phase[e] = "closing" /\ phase' = [phase EXCEPT ![e] = "closed"]
          /\ OnDisconnect(e[1], remotes[e])
          /\ UNCHANGED <<maker, remotes, signals>>
      BY <2>6 DEF Close
    <3>3. NoDeadPeers'
      <4> SUFFICES ASSUME NEW n \in Node, NEW m \in Node, peerMap'[n][m] # None
                   PROVE  /\ phase'[<<n, peerMap'[n][m]>>] \in {"open", "closing"}
                          /\ m \in remotes[<<n, peerMap'[n][m]>>]
        BY <3>2 DEF NoDeadPeers
      <4>1. peerMap'[n][m] = peerMap[n][m] /\ ~(n = e[1] /\ m \in remotes[e])
        BY <3>1, <3>2, Disconnected
      <4>2. <<n, peerMap[n][m]>> \in End
        BY <4>1 DEF TypeOK, End
      <4>3. <<n, peerMap[n][m]>> # e
        BY <3>1, <4>1 DEF NoDeadPeers
      <4> QED BY <3>2, <4>1, <4>2, <4>3 DEF NoDeadPeers, TypeOK
    <3>4. \A d \in End : phase[d] = "none" => phase'[d] = "none"
      BY <3>2 DEF TypeOK
    <3> QED BY <3>2, <3>3, <3>4, KeepsOffers
  <2>7. ASSUME maker' = maker, signals' \subseteq signals,
               \A e \in End : phase[e] = "none" => phase'[e] = "none",
               \A e \in End : phase[e] \in {"open", "closing"} => phase'[e] \in {"open", "closing"},
               \A e \in End : remotes[e] \subseteq remotes'[e],
               \A n, m \in Node : peerMap'[n][m] \in {None, peerMap[n][m]}
        PROVE  NoDeadPeers' /\ Unmade' /\ Unanswered'
    BY <2>7, KeepsListed, KeepsOffers
  <2>8. ASSUME NEW E, maker' = maker, signals' \subseteq signals, phase' = Destroyed(E),
               remotes' = remotes, \A n, m \in Node : peerMap'[n][m] \in {None, peerMap[n][m]}
        PROVE  NoDeadPeers' /\ Unmade' /\ Unanswered'
    <3>1. \A e \in End : phase[e] = "none" => phase'[e] = "none"
      BY <2>8, DestroyedPhase DEF TypeOK
    <3>2. \A e \in End : phase[e] \in {"open", "closing"} => phase'[e] \in {"open", "closing"}
      BY <2>8, DestroyedPhase DEF TypeOK
    <3> QED BY <2>7, <2>8, <3>1, <3>2
  <2>9. ASSUME UNCHANGED <<maker, phase, remotes>>, signals' \subseteq signals,
               \A n, m \in Node : peerMap'[n][m] \in {None, peerMap[n][m]}
        PROVE  NoDeadPeers' /\ Unmade' /\ Unanswered'
    BY <2>7, <2>9
  <2>10. ASSUME NEW x \in signals, RefuseOffer(x) PROVE NoDeadPeers' /\ Unmade' /\ Unanswered'
    <3>1. signals' \subseteq signals /\ UNCHANGED <<maker, remotes, peerMap>>
      BY <2>10 DEF RefuseOffer, Consume
    <3>2. phase' = phase \/ \E E : phase' = Destroyed(E)
      BY <2>10 DEF RefuseOffer
    <3> QED BY <2>8, <2>9, <3>1, <3>2
  <2>11. ASSUME NEW x \in signals, TakeAnswer(x) PROVE NoDeadPeers' /\ Unmade' /\ Unanswered'
    <3> DEFINE e == <<x.dst, x.offer>>
    <3>1. e \in End
      BY <2>11, SignalType DEF TakeAnswer, End
    <3>2. /\ signals' \subseteq signals /\ UNCHANGED <<maker, peerMap>>
          /\ phase[e] \in {"new", "signalled", "open"}
          /\ remotes' = [remotes EXCEPT ![e] = @ \cup {x.src}]
          /\ phase' = [phase EXCEPT ![e] = IF @ = "new" THEN "signalled" ELSE "closing"]
      BY <2>11 DEF TakeAnswer, Consume
    <3>3. \A d \in End : d # e => phase'[d] = phase[d]
      BY <3>2 DEF TypeOK
    <3>4. phase[e] = "open" => phase'[e] = "closing"
      BY <3>1, <3>2 DEF TypeOK
    <3>5. \A d \in End : remotes[d] \subseteq remotes'[d]
      BY <3>2 DEF TypeOK
    <3> QED BY <2>7, <3>2, <3>3, <3>4, <3>5
  <2>12. ASSUME NEW x \in signals, AnswerTooLate(x)
         PROVE  NoDeadPeers' /\ Unmade' /\ Unanswered'
    <3>1. x.dst \in Node /\ {x.src} \in SUBSET Node
      BY SignalType
    <3>2. signals' \subseteq signals /\ UNCHANGED <<maker, phase, remotes>>
      BY <2>12 DEF AnswerTooLate, Consume
    <3>3. peerMap' = peerMap \/ OnDisconnect(x.dst, {x.src})
      BY <2>12 DEF AnswerTooLate
    <3>4. \A n, m \in Node : peerMap'[n][m] \in {None, peerMap[n][m]}
      BY <3>1, <3>3, Disconnected
    <3> QED BY <2>9, <3>2, <3>4
  <2>13. ASSUME NEW x \in signals, Ignore(x) PROVE NoDeadPeers' /\ Unmade' /\ Unanswered'
    BY <2>9, <2>13 DEF Ignore, Consume
  <2>14. ASSUME NEW e \in End, Greet(e) PROVE NoDeadPeers' /\ Unmade' /\ Unanswered'
    BY <2>9, <2>14 DEF Greet
  <2>15. ASSUME NEW e \in End, Break(e) \/ Lose(e) PROVE NoDeadPeers' /\ Unmade' /\ Unanswered'
    BY <2>8, <2>15 DEF Break, Lose, Destroy
  <2>16. ASSUME NEW n \in Node, PeersCheck(n) PROVE NoDeadPeers' /\ Unmade' /\ Unanswered'
    <3> DEFINE lost == {m \in Node : /\ clientToSend[n][m] # None
                                    /\ peerMap[n][m] # None
                                    /\ phase[<<n, peerMap[n][m]>>] # "open"}
    <3>1. OnDisconnect(n, lost) /\ lost \in SUBSET Node
      BY <2>16 DEF PeersCheck
    <3>2. UNCHANGED <<maker, remotes, signals>> /\ \E E : phase' = Destroyed(E)
      BY <2>16 DEF PeersCheck
    <3>3. \A k, m \in Node : peerMap'[k][m] \in {None, peerMap[k][m]}
      <4> HIDE DEF lost
      <4> QED BY <3>1, Disconnected
    <3> QED BY <2>8, <3>2, <3>3
  <2>17. ASSUME NEW n \in Node, NEW o \in Offer, IceTimeout(n, o) \/ NostrTimeout(n, o)
         PROVE  NoDeadPeers' /\ Unmade' /\ Unanswered'
    BY <2>8, <2>17 DEF IceTimeout, NostrTimeout, Destroy
  <2>18. CASE UNCHANGED vars
    BY <2>9, <2>18 DEF vars
  <2> QED BY <2>2, <2>3, <2>4, <2>5, <2>6, <2>10, <2>11, <2>12, <2>13, <2>14, <2>15,
             <2>16, <2>17, <2>18 DEF Next, Discover
<1>3. PeersInv => NoDeadPeers
  BY DEF PeersInv
<1> QED BY <1>1, <1>2, <1>3, PeersTyped, PTL DEF Spec

(***************************************************************************)
(* ListsAgree: connectedPeers and peerMap name the same peers.             *)
(***************************************************************************)
THEOREM Agreed == Spec => []ListsAgree
<1>1. Init => ListsAgree
  BY PeersAssumption DEF Init, ListsAgree, Mapped
<1>2. TypeOK /\ ListsAgree /\ [Next]_vars => ListsAgree'
  <2> SUFFICES ASSUME TypeOK, ListsAgree, [Next]_vars PROVE ListsAgree'
    OBVIOUS
  <2>1. ASSUME UNCHANGED <<peerMap, connectedPeers>> PROVE ListsAgree'
    BY <2>1 DEF ListsAgree, Mapped
  <2>2. ASSUME NEW n \in Node, NEW ids \in SUBSET Node, OnDisconnect(n, ids)
        PROVE  ListsAgree'
    <3> SUFFICES ASSUME NEW k \in Node PROVE connectedPeers'[k] \cap Node = Mapped(k)'
      BY DEF ListsAgree
    <3>1. connectedPeers[k] \cap Node = Mapped(k)
      BY DEF ListsAgree
    <3>2. CASE k = n
      <4>1. connectedPeers'[k] = connectedPeers[k] \ ids
        BY <2>2, <3>2, Disconnected
      <4>2. Mapped(k)' = Mapped(k) \ ids
        BY <2>2, <3>2, Disconnected DEF Mapped
      <4> QED BY <3>1, <4>1, <4>2
    <3>3. CASE k # n
      <4>1. connectedPeers'[k] = connectedPeers[k]
        BY <2>2, <3>3, Disconnected, ZenonT(30)
      <4>2. Mapped(k)' = Mapped(k)
        BY <2>2, <3>3, Disconnected DEF Mapped
      <4> QED BY <3>1, <4>1, <4>2
    <3> QED BY <3>2, <3>3
  <2>3. ASSUME NEW e \in End, NEW m \in Node, Connect(e, m) PROVE ListsAgree'
    <3>1. e[1] \in Node /\ e[2] \in Offer
      BY Ends
    <3>2. /\ peerMap' = [peerMap EXCEPT ![e[1]][m] = e[2]]
          /\ connectedPeers' = [connectedPeers EXCEPT ![e[1]] =
               @ \cup {m} \cup {p \in {e[2]} : maker[p] = e[1]}]
      BY <2>3 DEF Connect
    <3>3. e[2] # None /\ e[2] \notin Node
      BY <3>1, PeersAssumption
    <3> SUFFICES ASSUME NEW n \in Node
                 PROVE  connectedPeers'[n] \cap Node = {k \in Node : peerMap'[n][k] # None}
      BY DEF ListsAgree, Mapped
    <3>4. connectedPeers[n] \cap Node = {k \in Node : peerMap[n][k] # None}
      BY DEF ListsAgree, Mapped
    <3>5. CASE n = e[1]
      <4>1. connectedPeers'[n] \cap Node = (connectedPeers[n] \cap Node) \cup {m}
        BY <3>2, <3>3, <3>5 DEF TypeOK
      <4>2. \A k \in Node : peerMap'[n][k] = IF k = m THEN e[2] ELSE peerMap[n][k]
        BY <3>2, <3>5 DEF TypeOK
      <4> QED BY <3>3, <3>4, <4>1, <4>2
    <3>6. CASE n # e[1]
      BY <3>2, <3>4, <3>6 DEF TypeOK
    <3> QED BY <3>5, <3>6
  <2>4. ASSUME NEW x \in signals, AnswerTooLate(x) PROVE ListsAgree'
    <3>1. x.dst \in Node /\ {x.src} \in SUBSET Node
      BY SignalType
    <3>2. UNCHANGED <<peerMap, connectedPeers>> \/ OnDisconnect(x.dst, {x.src})
      BY <2>4 DEF AnswerTooLate
    <3> QED BY <2>1, <2>2, <3>1, <3>2
  <2>5. ASSUME NEW e \in End, Close(e) PROVE ListsAgree'
    <3>1. e[1] \in Node /\ remotes[e] \in SUBSET Node
      BY Ends DEF TypeOK
    <3> QED BY <2>2, <2>5, <3>1 DEF Close
  <2>6. ASSUME NEW n \in Node, PeersCheck(n) PROVE ListsAgree'
    <3>1. \E lost \in SUBSET Node : OnDisconnect(n, lost)
      BY <2>6 DEF PeersCheck
    <3> QED BY <2>2, <3>1
  <2>7. ASSUME NEW n \in Announcer, NEW o \in Offer, AnnounceAll(n, o) PROVE ListsAgree'
    BY <2>1, <2>7 DEF AnnounceAll
  <2>8. ASSUME NEW x \in signals,
               \/ \E o \in Offer : SendNostrOffer(x, o)
               \/ AnswerOffer(x) \/ RefuseOffer(x) \/ TakeAnswer(x) \/ Ignore(x)
        PROVE  ListsAgree'
    BY <2>1, <2>8 DEF SendNostrOffer, AnswerOffer, RefuseOffer, TakeAnswer, Ignore
  <2>9. ASSUME NEW e \in End, Greet(e) \/ Break(e) \/ Lose(e) PROVE ListsAgree'
    BY <2>1, <2>9 DEF Greet, Break, Lose, Destroy
  <2>10. ASSUME NEW n \in Node, NEW o \in Offer, IceTimeout(n, o) \/ NostrTimeout(n, o)
         PROVE  ListsAgree'
    BY <2>1, <2>10 DEF IceTimeout, NostrTimeout, Destroy
  <2>11. CASE UNCHANGED vars
    BY <2>1, <2>11 DEF vars
  <2> QED BY <2>3, <2>4, <2>5, <2>6, <2>7, <2>8, <2>9, <2>10, <2>11 DEF Next, Discover
<1> QED BY <1>1, <1>2, PeersTyped, PTL DEF Spec

-----------------------------------------------------------------------------
(***************************************************************************)
(* The announcements that wait at one of the first j - 1 relays: each will *)
(* go on to the j-th one yet.                                              *)
(***************************************************************************)
Before(j) == {w \in (1..(j - 1)) \X Nat : w[2] \in 1..promised[RelayUrls[w[1]]]}

\* An announcement makes one attempt at a relay, if it ever gets there.
Counted(j) ==
    /\ IsFiniteSet(Before(j))
    /\ Attempts(RelayUrls[j]) + Cardinality(Before(j)) <= announced

TrackerCounted(u) ==
    /\ Attempts(u) <= announced
    /\ announced > 0 => Attempts(u) >= 1

SignalInv ==
    /\ SignalTypeOK
    /\ \A j \in 1..Len(RelayUrls) : Counted(j)
    /\ \A u \in TrackerUrl : TrackerCounted(u)

\* The attempts at u without a socket.
Backlog(u) ==
    redial[u] + queued[u]["connect"] + queued[u]["reconnect"] + queued[u]["callback"]

-----------------------------------------------------------------------------
\* A relay has one place in the list, and is no tracker.
LEMMA RelayFacts ==
    /\ DOMAIN RelayUrls = 1..Len(RelayUrls) /\ Len(RelayUrls) \in Nat
    /\ \A i \in 1..Len(RelayUrls) :
          RelayUrls[i] \in Relay /\ RelayUrls[i] \in Url /\ RelayUrls[i] \notin TrackerUrl
    /\ \A i, j \in 1..Len(RelayUrls) : RelayUrls[i] = RelayUrls[j] => i = j
    /\ \A u \in Relay : \E i \in 1..Len(RelayUrls) : u = RelayUrls[i]
    /\ Url = TrackerUrl \cup Relay /\ TrackerUrl \cap Relay = {}
BY SignalAssumption DEF Relay, Url

\* The numbers of one url.
LEMMA Numbers ==
    ASSUME SignalTypeOK, NEW u \in Url
    PROVE  /\ dialling[u] \in Nat /\ live[u] \in Nat /\ redial[u] \in Nat
           /\ queued[u]["connect"] \in Nat /\ queued[u]["reconnect"] \in Nat
           /\ queued[u]["callback"] \in Nat /\ Backlog(u) \in Nat
           /\ promised[u] \in Nat /\ promised[u] <= dialling[u]
           /\ u \in current => live[u] >= 1
           /\ Attempts(u) = dialling[u] + live[u] + Backlog(u)
           /\ announced \in Nat
<1>1. queued[u] \in [Pending -> Nat]
  BY DEF SignalTypeOK
<1>2. queued[u]["connect"] \in Nat /\ queued[u]["reconnect"] \in Nat /\ queued[u]["callback"] \in Nat
  BY <1>1 DEF Pending
<1>3. /\ dialling[u] \in Nat /\ live[u] \in Nat /\ redial[u] \in Nat
      /\ promised[u] \in Nat /\ promised[u] <= dialling[u]
      /\ u \in current => live[u] > 0
      /\ announced \in 0..MaxAnnounces
  BY DEF SignalTypeOK
<1>4. Backlog(u) \in Nat /\ Attempts(u) = dialling[u] + live[u] + Backlog(u)
  BY <1>2, <1>3 DEF Attempts, Backlog
<1> QED BY <1>2, <1>3, <1>4, SignalAssumption

\* A loop waits at one relay at most, the first that is not open.
LEMMA OneWait ==
    ASSUME NEW i \in 1..(Len(RelayUrls) + 1), NEW open
    PROVE  \/ WaitsAt(i, open) = {}
           \/ \E k \in i..Len(RelayUrls) :
                 /\ k \in 1..Len(RelayUrls) /\ RelayUrls[k] \notin open
                 /\ WaitsAt(i, open) = {RelayUrls[k]}
<1> SUFFICES ASSUME WaitsAt(i, open) # {}
             PROVE  \E k \in i..Len(RelayUrls) :
                       /\ k \in 1..Len(RelayUrls) /\ RelayUrls[k] \notin open
                       /\ WaitsAt(i, open) = {RelayUrls[k]}
  OBVIOUS
<1>1. PICK k \in i..Len(RelayUrls) : /\ RelayUrls[k] \notin open
                                     /\ \A l \in i..(k - 1) : RelayUrls[l] \in open
  BY DEF WaitsAt
<1>2. ASSUME NEW j \in i..Len(RelayUrls), RelayUrls[j] \notin open,
             \A l \in i..(j - 1) : RelayUrls[l] \in open
      PROVE  j = k
  <2>1. ~(j \in i..(k - 1)) /\ ~(k \in i..(j - 1))
    BY <1>1, <1>2
  <2> QED BY <2>1, RelayFacts
<1>3. WaitsAt(i, open) = {RelayUrls[k]}
  BY <1>1, <1>2 DEF WaitsAt
<1> QED BY <1>1, <1>3, RelayFacts

\* A finite set that loses what is in X, at least an element, for one other.
LEMMA CountedSet ==
    ASSUME NEW S, IsFiniteSet(S), NEW w, NEW x, NEW T, T \subseteq (S \ {w}) \cup {x}
    PROVE  /\ IsFiniteSet(T) /\ Cardinality(T) \in Nat /\ Cardinality(S) \in Nat
           /\ Cardinality(T) <= Cardinality(S) + 1
           /\ w \in S => Cardinality(T) <= Cardinality(S)
<1>1. /\ IsFiniteSet(S \ {w}) /\ Cardinality(S) \in Nat
      /\ Cardinality(S \ {w}) = IF w \in S THEN Cardinality(S) - 1 ELSE Cardinality(S)
  BY FS_RemoveElement, FS_CardinalityType
<1>2. /\ IsFiniteSet((S \ {w}) \cup {x})
      /\ Cardinality((S \ {w}) \cup {x}) \in {Cardinality(S \ {w}), Cardinality(S \ {w}) + 1}
  BY <1>1, FS_AddElement
<1>3. /\ IsFiniteSet(T) /\ Cardinality(T) \in Nat
      /\ Cardinality(T) <= Cardinality((S \ {w}) \cup {x})
  BY <1>2, FS_Subset, FS_CardinalityType
<1> QED BY <1>1, <1>2, <1>3

\* What gets smaller stays counted.
LEMMA FewerCounted ==
    ASSUME SignalTypeOK, NEW j \in 1..Len(RelayUrls), Counted(j), Before(j)' \subseteq Before(j),
           Attempts(RelayUrls[j])' \in Nat, announced' \in Nat,
           \/ Attempts(RelayUrls[j])' <= Attempts(RelayUrls[j]) /\ announced' >= announced
           \/ Attempts(RelayUrls[j])' <= Attempts(RelayUrls[j]) + 1 /\ announced' = announced + 1
    PROVE  Counted(j)'
<1>1. /\ IsFiniteSet(Before(j)') /\ Cardinality(Before(j)') \in Nat
      /\ Cardinality(Before(j)) \in Nat /\ Cardinality(Before(j)') <= Cardinality(Before(j))
  BY FS_Subset, FS_CardinalityType DEF Counted
<1>2. Attempts(RelayUrls[j]) \in Nat /\ announced \in Nat
  BY Numbers, RelayFacts
<1> QED BY <1>1, <1>2 DEF Counted

\* An announcement that comes to wait is counted by those behind.
LEMMA WaitCounted ==
    ASSUME SignalTypeOK, NEW j \in 1..Len(RelayUrls), Counted(j),
           NEW x, Before(j)' \subseteq Before(j) \cup {x},
           Attempts(RelayUrls[j])' \in Nat, announced' = announced + 1,
           Attempts(RelayUrls[j])' <= Attempts(RelayUrls[j])
    PROVE  Counted(j)'
<1>1. <<0, 0>> \notin Before(j)
  BY DEF Before
<1>2. /\ IsFiniteSet(Before(j)') /\ Cardinality(Before(j)') \in Nat
      /\ Cardinality(Before(j)) \in Nat /\ Cardinality(Before(j)') <= Cardinality(Before(j)) + 1
  BY <1>1, CountedSet DEF Counted
<1>3. Attempts(RelayUrls[j]) \in Nat /\ announced \in Nat
  BY Numbers, RelayFacts
<1> QED BY <1>2, <1>3 DEF Counted

\* One that goes on to relay j makes an attempt there; to another, it still
\* is behind or is no more.
LEMMA PassCounted ==
    ASSUME SignalTypeOK, NEW j \in 1..Len(RelayUrls), Counted(j), NEW w \in Before(j),
           Attempts(RelayUrls[j])' \in Nat, announced' = announced,
           \/ /\ Before(j)' \subseteq Before(j) \ {w}
              /\ Attempts(RelayUrls[j])' <= Attempts(RelayUrls[j]) + 1
           \/ /\ \E x : Before(j)' \subseteq (Before(j) \ {w}) \cup {x}
              /\ Attempts(RelayUrls[j])' <= Attempts(RelayUrls[j])
    PROVE  Counted(j)'
<1>1. Attempts(RelayUrls[j]) \in Nat /\ announced \in Nat
  BY Numbers, RelayFacts
<1>2. CASE /\ Before(j)' \subseteq Before(j) \ {w}
           /\ Attempts(RelayUrls[j])' <= Attempts(RelayUrls[j]) + 1
  <2>1. /\ IsFiniteSet(Before(j) \ {w}) /\ Cardinality(Before(j)) \in Nat
        /\ Cardinality(Before(j) \ {w}) = Cardinality(Before(j)) - 1
    BY FS_RemoveElement, FS_CardinalityType DEF Counted
  <2>2. /\ IsFiniteSet(Before(j)') /\ Cardinality(Before(j)') \in Nat
        /\ Cardinality(Before(j)') <= Cardinality(Before(j) \ {w})
    BY <1>2, <2>1, FS_Subset, FS_CardinalityType
  <2> QED BY <1>1, <1>2, <2>1, <2>2 DEF Counted
<1>3. CASE /\ \E x : Before(j)' \subseteq (Before(j) \ {w}) \cup {x}
           /\ Attempts(RelayUrls[j])' <= Attempts(RelayUrls[j])
  <2>1. PICK x : Before(j)' \subseteq (Before(j) \ {w}) \cup {x}
    BY <1>3
  <2>2. /\ IsFiniteSet(Before(j)') /\ Cardinality(Before(j)') \in Nat
        /\ Cardinality(Before(j)) \in Nat /\ Cardinality(Before(j)') <= Cardinality(Before(j))
    BY <2>1, CountedSet DEF Counted
  <2> QED BY <1>1, <1>3, <2>2 DEF Counted
<1> QED BY <1>2, <1>3

\* Who waits at no more relays than before is not behind at more either.
LEMMA BeforeKept ==
    ASSUME SignalTypeOK, SignalTypeOK', NEW j \in 1..Len(RelayUrls),
           \A i \in 1..(j - 1) : promised'[RelayUrls[i]] <= promised[RelayUrls[i]]
    PROVE  Before(j)' \subseteq Before(j)
<1> SUFFICES ASSUME NEW w \in Before(j)' PROVE w \in Before(j)
  OBVIOUS
<1>1. /\ w \in (1..(j - 1)) \X Nat /\ w[2] \in 1..promised'[RelayUrls[w[1]]]
      /\ w[1] \in 1..(j - 1) /\ w[2] \in Nat
  BY DEF Before
<1>2. w[1] \in 1..Len(RelayUrls)
  BY <1>1, RelayFacts
<1>3. promised[RelayUrls[w[1]]] \in Nat /\ promised'[RelayUrls[w[1]]] \in Nat
  BY <1>2, RelayFacts DEF SignalTypeOK
<1> QED BY <1>1, <1>3 DEF Before

\* One more waits at relay k.
LEMMA BeforeGrows ==
    ASSUME SignalTypeOK, SignalTypeOK', NEW j \in 1..Len(RelayUrls), NEW k \in 1..Len(RelayUrls),
           promised'[RelayUrls[k]] = promised[RelayUrls[k]] + 1,
           \A i \in 1..(j - 1) : i # k => promised'[RelayUrls[i]] <= promised[RelayUrls[i]]
    PROVE  Before(j)' \subseteq Before(j) \cup {<<k, promised[RelayUrls[k]] + 1>>}
<1> SUFFICES ASSUME NEW w \in Before(j)', w \notin Before(j)
             PROVE  w = <<k, promised[RelayUrls[k]] + 1>>
  OBVIOUS
<1>1. /\ w \in (1..(j - 1)) \X Nat /\ w[2] \in 1..promised'[RelayUrls[w[1]]]
      /\ w[1] \in 1..(j - 1) /\ w[2] \in Nat /\ w = <<w[1], w[2]>>
  BY DEF Before
<1>2. w[1] \in 1..Len(RelayUrls)
  BY <1>1, RelayFacts
<1>3. promised[RelayUrls[w[1]]] \in Nat /\ promised'[RelayUrls[w[1]]] \in Nat
  BY <1>2, RelayFacts DEF SignalTypeOK
<1>4. ~(w[2] \in 1..promised[RelayUrls[w[1]]])
  BY <1>1 DEF Before
<1>5. w[1] = k
  BY <1>1, <1>3, <1>4
<1>6. w[2] = promised[RelayUrls[k]] + 1
  BY <1>1, <1>3, <1>4, <1>5
<1> QED BY <1>1, <1>5, <1>6

\* They are numbers in the next state.
LEMMA NumbersLater ==
    ASSUME SignalTypeOK', NEW u \in Url
    PROVE  Attempts(u)' \in Nat /\ announced' \in Nat
<1>1. queued'[u] \in [Pending -> Nat]
  BY DEF SignalTypeOK
<1>2. /\ queued'[u]["connect"] \in Nat /\ queued'[u]["reconnect"] \in Nat
      /\ queued'[u]["callback"] \in Nat
  BY <1>1 DEF Pending
<1>3. /\ dialling'[u] \in Nat /\ live'[u] \in Nat /\ redial'[u] \in Nat
      /\ announced' \in 0..MaxAnnounces
  BY DEF SignalTypeOK
<1>4. Attempts(u)' = dialling'[u] + live'[u] + redial'[u] + queued'[u]["connect"]
                        + queued'[u]["reconnect"] + queued'[u]["callback"]
  BY DEF Attempts
<1> QED BY <1>2, <1>3, <1>4, SignalAssumption, SMTT(30)

(***************************************************************************)
(* A step that makes no attempt and waits nowhere, and forgets none at a   *)
(* tracker.                                                                *)
(***************************************************************************)
LEMMA AttemptsKept ==
    ASSUME SignalInv, SignalTypeOK', announced' = announced,
           \A v \in Url : promised'[v] <= promised[v] /\ Attempts(v)' <= Attempts(v),
           \A v \in TrackerUrl : Attempts(v)' = Attempts(v) \/ Attempts(v)' >= 1
    PROVE  SignalInv'
<1>1. \A v \in Url : Attempts(v) \in Nat /\ Attempts(v)' \in Nat
  BY Numbers, NumbersLater DEF SignalInv
<1>2. ASSUME NEW j \in 1..Len(RelayUrls) PROVE Counted(j)'
  <2>1. Before(j)' \subseteq Before(j)
    BY BeforeKept, RelayFacts DEF SignalInv
  <2> QED BY <1>1, <2>1, FewerCounted, RelayFacts, Numbers DEF SignalInv
<1>3. ASSUME NEW u \in TrackerUrl PROVE TrackerCounted(u)'
  BY <1>1, <1>3, RelayFacts, Numbers DEF SignalInv, TrackerCounted
<1> QED BY <1>2, <1>3 DEF SignalInv

-----------------------------------------------------------------------------
(***************************************************************************)
(* An announcement: the loop over the relays waits at one of them at most, *)
(* and each tracker without a socket gets an attempt.                      *)
(***************************************************************************)
LEMMA AnnounceStep ==
    ASSUME SignalInv, SignalTypeOK', announced' = announced + 1,
           \A v \in Url :
              promised'[v] = promised[v] + (IF v \in WaitsAt(1, current) THEN 1 ELSE 0),
           \A v \in Relay :
              Attempts(v)' <= Attempts(v) + (IF v \in WaitsAt(1, current) THEN 1 ELSE 0),
           \A v \in TrackerUrl : Attempts(v)' <= Attempts(v) + 1 /\ Attempts(v)' >= 1
    PROVE  SignalInv'
<1>1. \A v \in Url : Attempts(v) \in Nat /\ Attempts(v)' \in Nat /\ promised[v] \in Nat
  BY Numbers, NumbersLater DEF SignalInv
<1>2. announced \in Nat
  BY DEF SignalInv, SignalTypeOK
<1>3. ASSUME NEW j \in 1..Len(RelayUrls) PROVE Counted(j)'
  <2>1. SignalTypeOK /\ Counted(j) /\ RelayUrls[j] \in Relay /\ RelayUrls[j] \in Url
    BY RelayFacts DEF SignalInv
  <2>2. CASE WaitsAt(1, current) = {}
    <3>1. Before(j)' \subseteq Before(j)
      BY <1>1, <2>1, <2>2, BeforeKept, RelayFacts
    <3>2. Attempts(RelayUrls[j])' <= Attempts(RelayUrls[j])
      BY <1>1, <2>1, <2>2
    <3> QED BY <1>1, <1>2, <2>1, <3>1, <3>2, FewerCounted
  <2>3. CASE WaitsAt(1, current) # {}
    <3>1. PICK k \in 1..Len(RelayUrls) : WaitsAt(1, current) = {RelayUrls[k]}
      BY <2>3, OneWait, RelayFacts
    <3>2. \A i \in 1..Len(RelayUrls) :
             promised'[RelayUrls[i]] = IF i = k THEN promised[RelayUrls[i]] + 1
                                       ELSE promised[RelayUrls[i]]
      BY <1>1, <3>1, RelayFacts
    <3>3. CASE k = j
      <4>1. Before(j)' \subseteq Before(j)
        <5>1. \A i \in 1..(j - 1) : i \in 1..Len(RelayUrls) /\ i # k
          BY <3>3, RelayFacts
        <5>2. \A i \in 1..(j - 1) : promised'[RelayUrls[i]] <= promised[RelayUrls[i]]
          BY <1>1, <3>2, <5>1, RelayFacts
        <5> QED BY <2>1, <5>2, BeforeKept
      <4>2. Attempts(RelayUrls[j])' <= Attempts(RelayUrls[j]) + 1
        BY <1>1, <2>1, <3>1, <3>3
      <4> QED BY <1>1, <1>2, <2>1, <4>1, <4>2, FewerCounted
    <3>4. CASE k # j
      <4>1. Attempts(RelayUrls[j])' <= Attempts(RelayUrls[j])
        BY <1>1, <2>1, <3>1, <3>4, RelayFacts
      <4>2. Before(j)' \subseteq Before(j) \cup {<<k, promised[RelayUrls[k]] + 1>>}
        <5>1. \A i \in 1..(j - 1) : i \in 1..Len(RelayUrls)
          BY RelayFacts
        <5>2. \A i \in 1..(j - 1) : i # k => promised'[RelayUrls[i]] <= promised[RelayUrls[i]]
          BY <1>1, <3>2, <5>1, RelayFacts, SMTT(30)
        <5> QED BY <2>1, <3>2, <5>2, BeforeGrows
      <4> QED BY <1>1, <2>1, <4>1, <4>2, WaitCounted
    <3> QED BY <3>3, <3>4
  <2> QED BY <2>2, <2>3
<1>4. ASSUME NEW u \in TrackerUrl PROVE TrackerCounted(u)'
  BY <1>1, <1>2, RelayFacts DEF SignalInv, TrackerCounted
<1> QED BY <1>3, <1>4 DEF SignalInv

(***************************************************************************)
(* A relay that an announcement waits for opens, and the loop goes on to   *)
(* the next one that is not open.                                          *)
(***************************************************************************)
LEMMA PassStep ==
    ASSUME SignalInv, SignalTypeOK', announced' = announced,
           NEW i \in 1..Len(RelayUrls), promised[RelayUrls[i]] > 0,
           \A v \in Url :
              LET next == IF v \in WaitsAt(i + 1, current') THEN 1 ELSE 0
              IN  /\ promised'[v] = promised[v] + (next - (IF v = RelayUrls[i] THEN 1 ELSE 0))
                  /\ Attempts(v)' = Attempts(v) + next
    PROVE  SignalInv'
<1>1. \A v \in Url : Attempts(v) \in Nat /\ Attempts(v)' \in Nat /\ promised[v] \in Nat
  BY Numbers, NumbersLater, SMTT(30) DEF SignalInv
<1>2. announced \in Nat
  BY DEF SignalInv, SignalTypeOK
<1>3. ASSUME NEW u \in TrackerUrl PROVE TrackerCounted(u)'
  <2>1. u \notin WaitsAt(i + 1, current')
    BY OneWait, RelayFacts
  <2>2. Attempts(u)' = Attempts(u)
    BY <1>1, <2>1, RelayFacts
  <2> QED BY <1>2, <2>2 DEF SignalInv, TrackerCounted
<1>4. ASSUME NEW j \in 1..Len(RelayUrls) PROVE Counted(j)'
  <2> DEFINE w == <<i, promised[RelayUrls[i]]>>
  <2>1. SignalTypeOK /\ Counted(j) /\ RelayUrls[j] \in Relay /\ RelayUrls[j] \in Url
    BY RelayFacts DEF SignalInv
  <2>2. i < j => w \in Before(j)
    BY <1>1, RelayFacts DEF Before
  <2>3. promised'[RelayUrls[i]] = promised[RelayUrls[i]] - 1 => w \notin Before(j)'
    BY <1>1, RelayFacts DEF Before
  <2> HIDE DEF w
  <2>4. CASE WaitsAt(i + 1, current') = {}
    <3>1. Attempts(RelayUrls[j])' = Attempts(RelayUrls[j])
      BY <1>1, <2>1, <2>4
    <3>2. \A l \in 1..Len(RelayUrls) : promised'[RelayUrls[l]] <= promised[RelayUrls[l]]
      BY <1>1, <2>4, RelayFacts
    <3>3. Before(j)' \subseteq Before(j)
      <4>1. \A l \in 1..(j - 1) : l \in 1..Len(RelayUrls)
        BY RelayFacts
      <4> QED BY <2>1, <3>2, <4>1, BeforeKept
    <3> QED BY <1>1, <1>2, <2>1, <3>1, <3>3, FewerCounted
  <2>5. CASE WaitsAt(i + 1, current') # {}
    <3>1. PICK k \in 1..Len(RelayUrls) : k > i /\ WaitsAt(i + 1, current') = {RelayUrls[k]}
      BY <2>5, OneWait, RelayFacts
    <3>2. ASSUME NEW l \in 1..Len(RelayUrls)
          PROVE  /\ l # k => promised'[RelayUrls[l]] <= promised[RelayUrls[l]]
                 /\ l = k => promised'[RelayUrls[l]] = promised[RelayUrls[l]] + 1
                 /\ l = i => promised'[RelayUrls[l]] = promised[RelayUrls[l]] - 1
                 /\ l = k => Attempts(RelayUrls[l])' = Attempts(RelayUrls[l]) + 1
                 /\ l # k => Attempts(RelayUrls[l])' = Attempts(RelayUrls[l])
      <4>1. /\ (RelayUrls[l] \in WaitsAt(i + 1, current') <=> l = k)
            /\ (RelayUrls[l] = RelayUrls[i] <=> l = i)
            /\ RelayUrls[l] \in Url
        BY <3>1, RelayFacts
      <4>2. k # i /\ k \in Nat /\ i \in Nat
        BY <3>1
      <4>3. /\ promised'[RelayUrls[l]] = promised[RelayUrls[l]]
                   + ((IF l = k THEN 1 ELSE 0) - (IF l = i THEN 1 ELSE 0))
            /\ Attempts(RelayUrls[l])' = Attempts(RelayUrls[l]) + (IF l = k THEN 1 ELSE 0)
        BY <4>1
      <4>4. promised[RelayUrls[l]] \in Nat /\ Attempts(RelayUrls[l]) \in Nat
        BY <1>1, <4>1
      <4> QED BY <4>2, <4>3, <4>4
    <3>3. \A l \in 1..(j - 1) : l \in 1..Len(RelayUrls)
      BY RelayFacts
    <3>4. \A l \in 1..(j - 1) : l # k => promised'[RelayUrls[l]] <= promised[RelayUrls[l]]
      BY <3>2, <3>3
    <3>5. Before(j)' \subseteq Before(j) \cup {<<k, promised[RelayUrls[k]] + 1>>}
      BY <2>1, <3>2, <3>4, BeforeGrows
    <3>6. k >= j => Before(j)' \subseteq Before(j)
      <4> SUFFICES ASSUME k >= j PROVE Before(j)' \subseteq Before(j)
        OBVIOUS
      <4>1. \A l \in 1..(j - 1) : l # k
        BY RelayFacts
      <4> QED BY <2>1, <3>4, <4>1, BeforeKept
    <3>7. w \notin Before(j)'
      BY <2>3, <3>1, <3>2
    <3>8. CASE k < j
      <4>1. w \in Before(j)
        BY <2>2, <3>1, <3>8, RelayFacts
      <4>2. \E x : Before(j)' \subseteq (Before(j) \ {w}) \cup {x}
        BY <3>5, <3>7
      <4>3. Attempts(RelayUrls[j])' <= Attempts(RelayUrls[j]) /\ Attempts(RelayUrls[j])' \in Nat
        BY <1>1, <2>1, <3>2, <3>8
      <4> QED BY <2>1, <4>1, <4>2, <4>3, PassCounted
    <3>9. CASE k = j
      <4>1. w \in Before(j)
        BY <2>2, <3>1, <3>9, RelayFacts
      <4>2. Before(j)' \subseteq Before(j) \ {w}
        BY <3>6, <3>7, <3>9
      <4>3. Attempts(RelayUrls[j])' = Attempts(RelayUrls[j]) + 1
        BY <3>2, <3>9
      <4> QED BY <1>1, <2>1, <4>1, <4>2, <4>3, PassCounted
    <3>10. CASE k > j
      <4>1. Attempts(RelayUrls[j])' = Attempts(RelayUrls[j])
        BY <3>2, <3>10
      <4> QED BY <1>1, <1>2, <2>1, <3>6, <3>10, <4>1, FewerCounted
    <3> QED BY <3>8, <3>9, <3>10
  <2> QED BY <2>4, <2>5
<1> QED BY <1>3, <1>4 DEF SignalInv

-----------------------------------------------------------------------------
\* The attempts at one url in the next state.
LEMMA AttemptsLater ==
    ASSUME SignalTypeOK', NEW u \in Url
    PROVE  /\ dialling'[u] \in Nat /\ live'[u] \in Nat /\ Backlog(u)' \in Nat
           /\ Attempts(u)' = dialling'[u] + live'[u] + Backlog(u)'
<1>1. queued'[u] \in [Pending -> Nat]
  BY DEF SignalTypeOK
<1>2. /\ queued'[u]["connect"] \in Nat /\ queued'[u]["reconnect"] \in Nat
      /\ queued'[u]["callback"] \in Nat
  BY <1>1 DEF Pending
<1>3. dialling'[u] \in Nat /\ live'[u] \in Nat /\ redial'[u] \in Nat
  BY DEF SignalTypeOK
<1>4. /\ Attempts(u)' = dialling'[u] + live'[u] + redial'[u] + queued'[u]["connect"]
                           + queued'[u]["reconnect"] + queued'[u]["callback"]
      /\ Backlog(u)' = redial'[u] + queued'[u]["connect"] + queued'[u]["reconnect"]
                           + queued'[u]["callback"]
  BY DEF Attempts, Backlog
<1> QED BY <1>2, <1>3, <1>4

\* A reconnection is put off.
LEMMA PutOff ==
    ASSUME SignalTypeOK, NEW u \in Url, NEW p \in Pending,
           queued' = [queued EXCEPT ![u][p] = @ + 1]
    PROVE  /\ queued' \in [Url -> [Pending -> Nat]]
           /\ \A v \in Url : v # u => queued'[v] = queued[v]
           /\ queued'[u][p] = queued[u][p] + 1
           /\ \A k \in Pending : k # p => queued'[u][k] = queued[u][k]
<1>1. queued \in [Url -> [Pending -> Nat]] /\ queued[u] \in [Pending -> Nat]
  BY DEF SignalTypeOK
<1>2. queued' = [queued EXCEPT ![u] = [queued[u] EXCEPT ![p] = queued[u][p] + 1]]
  OBVIOUS
<1>3. [queued[u] EXCEPT ![p] = queued[u][p] + 1] \in [Pending -> Nat]
  BY <1>1
<1>4. queued' \in [Url -> [Pending -> Nat]]
  BY <1>1, <1>2, <1>3
<1>5. /\ \A v \in Url : v # u => queued'[v] = queued[v]
      /\ queued'[u] = [queued[u] EXCEPT ![p] = queued[u][p] + 1]
  BY <1>1, <1>2
<1>6. /\ queued'[u][p] = queued[u][p] + 1
      /\ \A k \in Pending : k # p => queued'[u][k] = queued[u][k]
  BY <1>1, <1>5
<1> QED BY <1>4, <1>5, <1>6

\* A socket that closes leaves one attempt, or, a relay's while offline, none.
LEMMA SocketClosed ==
    ASSUME SignalTypeOK, NEW u \in Url, OnSocketClose(u)
    PROVE  /\ redial' \in [Url -> Nat] /\ queued' \in [Url -> [Pending -> Nat]]
           /\ \A v \in Url : v # u => Backlog(v)' = Backlog(v)
           /\ Backlog(u)' = Backlog(u) \/ Backlog(u)' = Backlog(u) + 1
           /\ u \in TrackerUrl => Backlog(u)' = Backlog(u) + 1
<1>1. redial \in [Url -> Nat] /\ queued \in [Url -> [Pending -> Nat]]
  BY DEF SignalTypeOK
<1>2. /\ redial[u] \in Nat /\ queued[u]["connect"] \in Nat /\ queued[u]["reconnect"] \in Nat
      /\ queued[u]["callback"] \in Nat
  BY Numbers
<1>3. CASE ~paused
  <2>1. redial' = [redial EXCEPT ![u] = @ + 1] /\ queued' = queued
    BY <1>3 DEF OnSocketClose
  <2>2. redial'[u] = redial[u] + 1 /\ \A v \in Url : v # u => redial'[v] = redial[v]
    BY <1>1, <2>1
  <2>3. redial' \in [Url -> Nat]
    BY <1>1, <1>2, <2>1
  <2>4. \A v \in Url : v # u => Backlog(v)' = Backlog(v)
    BY <2>1, <2>2 DEF Backlog
  <2>5. Backlog(u)' = Backlog(u) + 1
    BY <1>2, <2>1, <2>2 DEF Backlog
  <2> QED BY <1>1, <2>1, <2>3, <2>4, <2>5
<1>4. CASE paused /\ u \in Relay
  <2>1. redial' = redial /\ queued' = queued
    BY <1>4 DEF OnSocketClose
  <2>2. \A v \in Url : Backlog(v)' = Backlog(v)
    BY <2>1 DEF Backlog
  <2> QED BY <1>1, <1>4, <2>1, <2>2, RelayFacts
<1>5. CASE paused /\ u \notin Relay
  <2>1. redial' = redial /\ queued' = [queued EXCEPT ![u]["reconnect"] = @ + 1]
    BY <1>5 DEF OnSocketClose
  <2>2. /\ queued' \in [Url -> [Pending -> Nat]]
        /\ \A v \in Url : v # u => queued'[v] = queued[v]
        /\ queued'[u]["reconnect"] = queued[u]["reconnect"] + 1
        /\ queued'[u]["connect"] = queued[u]["connect"]
        /\ queued'[u]["callback"] = queued[u]["callback"]
    BY <2>1, PutOff DEF Pending
  <2>3. \A v \in Url : v # u => Backlog(v)' = Backlog(v)
    BY <2>1, <2>2 DEF Backlog
  <2>4. Backlog(u)' = Backlog(u) + 1
    BY <1>2, <2>1, <2>2 DEF Backlog
  <2> QED BY <1>1, <2>1, <2>2, <2>3, <2>4
<1> QED BY <1>3, <1>4, <1>5

\* An announcement waits at relays only.
LEMMA WaitsAtRelays ==
    ASSUME NEW open, NEW u \in WaitsAt(1, open)
    PROVE  u \in Relay
BY OneWait, RelayFacts

-----------------------------------------------------------------------------
\* SignalAnnounceAll.
LEMMA SignalAnnounceAllStep ==
    ASSUME SignalInv, SignalAnnounceAll
    PROVE  SignalInv'
<1> DEFINE wait == WaitsAt(1, current)
<1>1. SignalTypeOK
  BY DEF SignalInv
<1>2. /\ announced' = announced + 1 /\ announced < MaxAnnounces
      /\ dialling' = [u \in Url |-> dialling[u] + (IF u \in wait THEN 1 ELSE 0)
                                      + (IF paused THEN 0 ELSE DialsFor(u))]
      /\ promised' = [u \in Url |-> promised[u] + (IF u \in wait THEN 1 ELSE 0)]
      /\ queued' = [u \in Url |-> [queued[u] EXCEPT !["connect"] =
                       @ + (IF paused THEN DialsFor(u) ELSE 0)]]
      /\ live' = live /\ current' = current /\ redial' = redial /\ paused' = paused
      /\ offline' = offline /\ left' = left
  BY DEF SignalAnnounceAll
<1> HIDE DEF wait
<1>3. ASSUME NEW u \in Url
      PROVE  /\ dialling'[u] \in Nat /\ promised'[u] \in Nat /\ promised'[u] <= dialling'[u]
             /\ queued'[u] \in [Pending -> Nat]
             /\ promised'[u] = promised[u] + (IF u \in wait THEN 1 ELSE 0)
             /\ dialling'[u] + Backlog(u)'
                   = dialling[u] + Backlog(u) + (IF u \in wait THEN 1 ELSE 0) + DialsFor(u)
  <2>1. DialsFor(u) \in {0, 1}
    BY DEF DialsFor
  <2>2. queued[u] \in [Pending -> Nat]
    BY <1>1 DEF SignalTypeOK
  <2>3. /\ dialling'[u] = dialling[u] + (IF u \in wait THEN 1 ELSE 0)
                             + (IF paused THEN 0 ELSE DialsFor(u))
        /\ promised'[u] = promised[u] + (IF u \in wait THEN 1 ELSE 0)
        /\ queued'[u] = [queued[u] EXCEPT !["connect"] =
                            queued[u]["connect"] + (IF paused THEN DialsFor(u) ELSE 0)]
        /\ redial'[u] = redial[u]
    BY <1>2
  <2>4. /\ queued'[u]["connect"] = queued[u]["connect"] + (IF paused THEN DialsFor(u) ELSE 0)
        /\ queued'[u]["reconnect"] = queued[u]["reconnect"]
        /\ queued'[u]["callback"] = queued[u]["callback"]
    BY <2>2, <2>3 DEF Pending
  <2>5. /\ queued[u]["connect"] \in Nat /\ queued[u]["reconnect"] \in Nat
        /\ queued[u]["callback"] \in Nat /\ redial[u] \in Nat /\ dialling[u] \in Nat
        /\ promised[u] \in Nat /\ promised[u] <= dialling[u]
    BY <1>1, Numbers
  <2>6. queued'[u] \in [Pending -> Nat]
    <3>1. queued[u]["connect"] + (IF paused THEN DialsFor(u) ELSE 0) \in Nat
      BY <2>1, <2>5
    <3> QED BY <2>2, <2>3, <3>1
  <2>7. Backlog(u)' = Backlog(u) + (IF paused THEN DialsFor(u) ELSE 0) /\ Backlog(u) \in Nat
    BY <2>1, <2>3, <2>4, <2>5 DEF Backlog
  <2> QED BY <2>1, <2>3, <2>5, <2>6, <2>7
<1>4. SignalTypeOK'
  <2>1. /\ live' \in [Url -> Nat] /\ redial' \in [Url -> Nat]
        /\ current' \subseteq {u \in Url : live'[u] > 0}
        /\ offline' \in 0..MaxOffline /\ {paused', left'} \subseteq BOOLEAN
    BY <1>1, <1>2 DEF SignalTypeOK
  <2>2. announced' \in 0..MaxAnnounces
    BY <1>1, <1>2, SignalAssumption DEF SignalTypeOK
  <2>3. /\ dialling' \in [Url -> Nat] /\ promised' \in [Url -> Nat]
        /\ queued' \in [Url -> [Pending -> Nat]]
    BY <1>2, <1>3
  <2> QED BY <1>3, <2>1, <2>2, <2>3 DEF SignalTypeOK
<1>5. ASSUME NEW v \in Url
      PROVE  Attempts(v)' = Attempts(v) + (IF v \in wait THEN 1 ELSE 0) + DialsFor(v)
  <2>1. DialsFor(v) \in {0, 1} /\ live'[v] = live[v]
    BY <1>2 DEF DialsFor
  <2> QED BY <1>1, <1>3, <1>4, <2>1, Numbers, AttemptsLater
<1>6. \A v \in Relay : Attempts(v)' <= Attempts(v) + (IF v \in wait THEN 1 ELSE 0)
  BY <1>1, <1>5, RelayFacts, Numbers DEF DialsFor
<1>7. ASSUME NEW v \in TrackerUrl PROVE Attempts(v)' <= Attempts(v) + 1 /\ Attempts(v)' >= 1
  <2>1. v \notin wait /\ v \in Url
    BY WaitsAtRelays, RelayFacts DEF wait
  <2> QED BY <1>1, <1>5, <2>1, Numbers DEF DialsFor
<1> QED BY <1>2, <1>3, <1>4, <1>6, <1>7, AnnounceStep DEF wait

\* HandleOnline.
LEMMA HandleOnlineStep ==
    ASSUME SignalInv, HandleOnline
    PROVE  SignalInv'
<1> DEFINE wait == WaitsAt(1, current)
           more(u) == queued[u]["connect"] + CallbackDials(u, queued[u]["callback"])
<1>1. SignalTypeOK
  BY DEF SignalInv
<1>2. /\ announced' = announced + 1 /\ announced < MaxAnnounces
      /\ dialling' = [u \in Url |-> dialling[u] + more(u) + DialsFor(u)
                                      + (IF u \in wait THEN 1 ELSE 0)]
      /\ promised' = [u \in Url |-> promised[u] + (IF u \in wait THEN 1 ELSE 0)]
      /\ redial' = [u \in Url |-> redial[u] + queued[u]["reconnect"]]
      /\ queued' = [u \in Url |-> [p \in Pending |-> 0]]
      /\ live' = live /\ current' = current /\ paused' = FALSE
      /\ offline' = offline /\ left' = left
  BY DEF HandleOnline
<1>3. \A u \in Url : more(u) = queued[u]["connect"] + CallbackDials(u, queued[u]["callback"])
  OBVIOUS
<1> HIDE DEF wait, more
<1>4. ASSUME NEW u \in Url
      PROVE  /\ dialling'[u] \in Nat /\ promised'[u] \in Nat /\ promised'[u] <= dialling'[u]
             /\ redial'[u] \in Nat /\ queued'[u] \in [Pending -> Nat]
             /\ promised'[u] = promised[u] + (IF u \in wait THEN 1 ELSE 0)
             /\ dialling'[u] + Backlog(u)'
                   <= dialling[u] + Backlog(u) + (IF u \in wait THEN 1 ELSE 0) + DialsFor(u)
             /\ dialling'[u] >= DialsFor(u)
             /\ Backlog(u)' \in Nat
  <2>1. DialsFor(u) \in {0, 1}
    BY DEF DialsFor
  <2>2. /\ queued[u]["connect"] \in Nat /\ queued[u]["reconnect"] \in Nat
        /\ queued[u]["callback"] \in Nat /\ redial[u] \in Nat /\ dialling[u] \in Nat
        /\ promised[u] \in Nat /\ promised[u] <= dialling[u]
    BY <1>1, Numbers
  <2>3. more(u) \in Nat /\ more(u) <= queued[u]["connect"] + queued[u]["callback"]
    BY <1>3, <2>2 DEF CallbackDials
  <2>4. /\ dialling'[u] = dialling[u] + more(u) + DialsFor(u) + (IF u \in wait THEN 1 ELSE 0)
        /\ promised'[u] = promised[u] + (IF u \in wait THEN 1 ELSE 0)
        /\ redial'[u] = redial[u] + queued[u]["reconnect"]
        /\ queued'[u] = [p \in Pending |-> 0]
    BY <1>2
  <2>5. queued'[u]["connect"] = 0 /\ queued'[u]["reconnect"] = 0 /\ queued'[u]["callback"] = 0
    BY <2>4 DEF Pending
  <2>6. Backlog(u)' = redial'[u]
    BY <2>2, <2>4, <2>5 DEF Backlog
  <2>7. Backlog(u) = redial[u] + queued[u]["connect"] + queued[u]["reconnect"]
                         + queued[u]["callback"]
    BY DEF Backlog
  <2>8. queued'[u] \in [Pending -> Nat]
    BY <2>4
  <2>9. (IF u \in wait THEN 1 ELSE 0) \in {0, 1}
    OBVIOUS
  <2>10. redial'[u] \in Nat /\ Backlog(u)' \in Nat
    BY <2>2, <2>4, <2>6
  <2>11. /\ dialling'[u] \in Nat /\ promised'[u] \in Nat
         /\ promised'[u] <= dialling'[u] /\ dialling'[u] >= DialsFor(u)
    BY <2>1, <2>2, <2>3, <2>4, <2>9
  <2>12. dialling'[u] + Backlog(u)'
            <= dialling[u] + Backlog(u) + (IF u \in wait THEN 1 ELSE 0) + DialsFor(u)
    BY <2>1, <2>2, <2>3, <2>4, <2>6, <2>7, <2>9
  <2> QED BY <2>4, <2>8, <2>10, <2>11, <2>12
<1>5. SignalTypeOK'
  <2>1. /\ live' \in [Url -> Nat] /\ current' \subseteq {u \in Url : live'[u] > 0}
        /\ offline' \in 0..MaxOffline /\ {paused', left'} \subseteq BOOLEAN
    BY <1>1, <1>2 DEF SignalTypeOK
  <2>2. announced' \in 0..MaxAnnounces
    BY <1>1, <1>2, SignalAssumption DEF SignalTypeOK
  <2>3. /\ dialling' \in [Url -> Nat] /\ promised' \in [Url -> Nat]
        /\ redial' \in [Url -> Nat] /\ queued' \in [Url -> [Pending -> Nat]]
    BY <1>2, <1>4
  <2> QED BY <1>4, <2>1, <2>2, <2>3 DEF SignalTypeOK
<1>6. ASSUME NEW v \in Url
      PROVE  /\ Attempts(v)' <= Attempts(v) + (IF v \in wait THEN 1 ELSE 0) + DialsFor(v)
             /\ Attempts(v)' >= DialsFor(v) + live[v]
  <2>1. DialsFor(v) \in {0, 1} /\ live'[v] = live[v]
    BY <1>2 DEF DialsFor
  <2> QED BY <1>1, <1>4, <1>5, <2>1, Numbers, AttemptsLater
<1>7. \A v \in Url : Attempts(v) \in Nat /\ Attempts(v)' \in Nat /\ live[v] \in Nat
  BY <1>1, <1>5, Numbers, NumbersLater
<1>8. \A v \in Relay : Attempts(v)' <= Attempts(v) + (IF v \in wait THEN 1 ELSE 0)
  BY <1>6, <1>7, RelayFacts DEF DialsFor
<1>9. ASSUME NEW v \in TrackerUrl PROVE Attempts(v)' <= Attempts(v) + 1 /\ Attempts(v)' >= 1
  <2>1. v \notin wait /\ v \in Url
    BY WaitsAtRelays, RelayFacts DEF wait
  <2>2. v \in current => live[v] >= 1
    BY <1>1, <2>1, Numbers
  <2> QED BY <1>6, <1>7, <2>1, <2>2 DEF DialsFor
<1> QED BY <1>2, <1>4, <1>5, <1>8, <1>9, AnnounceStep DEF wait

-----------------------------------------------------------------------------
\* SignalOpen.
LEMMA SignalOpenStep ==
    ASSUME SignalInv, NEW u \in Url, SignalOpen(u)
    PROVE  SignalInv'
<1>1. SignalTypeOK
  BY DEF SignalInv
<1>2. /\ dialling[u] > 0 /\ live' = [live EXCEPT ![u] = @ + 1] /\ current' = current \cup {u}
      /\ redial' = redial /\ queued' = queued /\ paused' = paused
      /\ announced' = announced /\ offline' = offline /\ left' = left
  BY DEF SignalOpen
<1>3. /\ dialling \in [Url -> Nat] /\ live \in [Url -> Nat] /\ promised \in [Url -> Nat]
      /\ current \subseteq {v \in Url : live[v] > 0}
  BY <1>1 DEF SignalTypeOK
<1>4. /\ live' \in [Url -> Nat] /\ live'[u] = live[u] + 1
      /\ \A v \in Url : v # u => live'[v] = live[v]
  BY <1>2, <1>3
<1>5. current' \subseteq {v \in Url : live'[v] > 0}
  BY <1>2, <1>3, <1>4
<1>6. /\ dialling' \in [Url -> Nat] /\ promised' \in [Url -> Nat]
      /\ \A v \in Url : promised'[v] <= dialling'[v]
      => SignalTypeOK'
  BY <1>1, <1>2, <1>4, <1>5 DEF SignalTypeOK
<1>7. \A v \in Url : Backlog(v)' = Backlog(v)
  BY <1>2 DEF Backlog
<1>8. CASE promised[u] < dialling[u] /\ dialling' = [dialling EXCEPT ![u] = @ - 1]
           /\ promised' = promised
  <2>1. /\ dialling' \in [Url -> Nat] /\ dialling'[u] = dialling[u] - 1
        /\ \A v \in Url : v # u => dialling'[v] = dialling[v]
    BY <1>2, <1>3, <1>8
  <2>2. \A v \in Url : promised'[v] <= dialling'[v]
    <3>1. ASSUME NEW v \in Url PROVE promised'[v] <= dialling'[v]
      BY <1>1, <1>3, <1>8, <2>1, Numbers
    <3> QED BY <3>1
  <2>3. SignalTypeOK'
    BY <1>3, <1>6, <1>8, <2>1, <2>2
  <2>4. ASSUME NEW v \in Url PROVE Attempts(v)' = Attempts(v) /\ Attempts(v) \in Nat
    <3>1. /\ dialling[v] \in Nat /\ live[v] \in Nat /\ Backlog(v) \in Nat
          /\ Attempts(v) = dialling[v] + live[v] + Backlog(v)
      BY <1>1, Numbers
    <3>2. Attempts(v)' = dialling'[v] + live'[v] + Backlog(v)
      BY <1>7, <2>3, AttemptsLater
    <3>3. CASE v = u
      BY <1>4, <2>1, <3>1, <3>2, <3>3
    <3>4. CASE v # u
      BY <1>4, <2>1, <3>1, <3>2, <3>4
    <3> QED BY <3>3, <3>4
  <2>5. \A v \in Url : promised'[v] <= promised[v] /\ Attempts(v)' <= Attempts(v)
    BY <1>3, <1>8, <2>4
  <2> QED BY <1>2, <2>3, <2>4, <2>5, AttemptsKept, RelayFacts
<1>9. ASSUME promised[u] > 0, NEW i \in DOMAIN RelayUrls, RelayUrls[i] = u,
             \A v \in Url :
                LET change == (IF v \in WaitsAt(i + 1, current') THEN 1 ELSE 0)
                                  - (IF v = u THEN 1 ELSE 0)
                IN  dialling'[v] = dialling[v] + change /\ promised'[v] = promised[v] + change,
             dialling' = [v \in Url |-> dialling'[v]], promised' = [v \in Url |-> promised'[v]]
      PROVE  SignalInv'
  <2>1. i \in 1..Len(RelayUrls)
    BY RelayFacts
  <2>2. ASSUME NEW v \in Url
        PROVE  /\ dialling'[v] \in Nat /\ promised'[v] \in Nat /\ promised'[v] <= dialling'[v]
    <3>1. dialling[v] \in Nat /\ promised[v] \in Nat /\ promised[v] <= dialling[v]
      BY <1>1, Numbers
    <3>2. v = u => promised[v] >= 1
      BY <1>9, <3>1
    <3> QED BY <1>9, <3>1, <3>2
  <2>3. SignalTypeOK'
    <3>1. dialling' \in [Url -> Nat] /\ promised' \in [Url -> Nat]
      BY <1>9, <2>2
    <3> QED BY <1>6, <2>2, <3>1
  <2>4. ASSUME NEW v \in Url
        PROVE  Attempts(v)' = Attempts(v) + (IF v \in WaitsAt(i + 1, current') THEN 1 ELSE 0)
    <3>1. dialling[v] \in Nat /\ live[v] \in Nat /\ Backlog(v) \in Nat
          /\ Attempts(v) = dialling[v] + live[v] + Backlog(v)
      BY <1>1, Numbers
    <3>2. Attempts(v)' = dialling'[v] + live'[v] + Backlog(v)
      BY <1>7, <2>3, AttemptsLater
    <3>3. live'[v] = live[v] + (IF v = u THEN 1 ELSE 0)
      BY <1>4, <3>1
    <3>4. dialling'[v] = dialling[v] + ((IF v \in WaitsAt(i + 1, current') THEN 1 ELSE 0)
                                           - (IF v = u THEN 1 ELSE 0))
      BY <1>9
    <3> QED BY <3>1, <3>2, <3>3, <3>4
  <2>5. \A v \in Url :
           LET next == IF v \in WaitsAt(i + 1, current') THEN 1 ELSE 0
           IN  /\ promised'[v] = promised[v] + (next - (IF v = RelayUrls[i] THEN 1 ELSE 0))
               /\ Attempts(v)' = Attempts(v) + next
    BY <1>9, <2>4
  <2> QED BY <1>2, <1>9, <2>1, <2>3, <2>5, PassStep
<1> QED
  <2>1. \/ promised[u] < dialling[u] /\ dialling' = [dialling EXCEPT ![u] = @ - 1]
              /\ promised' = promised
        \/ /\ promised[u] > 0
           /\ \E i \in DOMAIN RelayUrls :
                LET wait == WaitsAt(i + 1, current')
                    change(v) == (IF v \in wait THEN 1 ELSE 0) - (IF v = u THEN 1 ELSE 0)
                IN  /\ RelayUrls[i] = u
                    /\ dialling' = [v \in Url |-> dialling[v] + change(v)]
                    /\ promised' = [v \in Url |-> promised[v] + change(v)]
    BY DEF SignalOpen
  <2>2. CASE promised[u] < dialling[u] /\ dialling' = [dialling EXCEPT ![u] = @ - 1]
             /\ promised' = promised
    BY <1>8, <2>2
  <2>3. CASE /\ promised[u] > 0
             /\ \E i \in DOMAIN RelayUrls :
                LET wait == WaitsAt(i + 1, current')
                    change(v) == (IF v \in wait THEN 1 ELSE 0) - (IF v = u THEN 1 ELSE 0)
                IN  /\ RelayUrls[i] = u
                    /\ dialling' = [v \in Url |-> dialling[v] + change(v)]
                    /\ promised' = [v \in Url |-> promised[v] + change(v)]
    <3>1. PICK i \in DOMAIN RelayUrls :
             /\ RelayUrls[i] = u
             /\ dialling' = [v \in Url |-> dialling[v]
                   + ((IF v \in WaitsAt(i + 1, current') THEN 1 ELSE 0) - (IF v = u THEN 1 ELSE 0))]
             /\ promised' = [v \in Url |-> promised[v]
                   + ((IF v \in WaitsAt(i + 1, current') THEN 1 ELSE 0) - (IF v = u THEN 1 ELSE 0))]
      BY <2>3
    <3>2. /\ dialling' = [v \in Url |-> dialling'[v]] /\ promised' = [v \in Url |-> promised'[v]]
          /\ \A v \in Url :
                LET change == (IF v \in WaitsAt(i + 1, current') THEN 1 ELSE 0)
                                  - (IF v = u THEN 1 ELSE 0)
                IN  dialling'[v] = dialling[v] + change /\ promised'[v] = promised[v] + change
      BY <3>1
    <3> QED BY <1>9, <2>3, <3>1, <3>2
  <2> QED BY <2>1, <2>2, <2>3

\* SignalFail.
LEMMA SignalFailStep ==
    ASSUME SignalInv, NEW u \in Url, SignalFail(u)
    PROVE  SignalInv'
<1>1. SignalTypeOK
  BY DEF SignalInv
<1>2. /\ dialling[u] > 0 /\ dialling' = [dialling EXCEPT ![u] = @ - 1]
      /\ \/ promised[u] < dialling[u] /\ promised' = promised
         \/ promised[u] > 0 /\ promised' = [promised EXCEPT ![u] = @ - 1]
      /\ current' = current \ {u} /\ OnSocketClose(u)
      /\ live' = live /\ paused' = paused /\ announced' = announced
      /\ offline' = offline /\ left' = left
  BY DEF SignalFail
<1>3. /\ dialling \in [Url -> Nat] /\ promised \in [Url -> Nat]
      /\ \A v \in Url : promised[v] <= dialling[v]
  BY <1>1 DEF SignalTypeOK
<1>4. /\ dialling' \in [Url -> Nat] /\ dialling'[u] = dialling[u] - 1
      /\ \A v \in Url : v # u => dialling'[v] = dialling[v]
  BY <1>2, <1>3
<1>5. /\ promised' \in [Url -> Nat]
      /\ \A v \in Url : promised'[v] <= promised[v] /\ promised'[v] <= dialling'[v]
  <2>1. CASE promised[u] < dialling[u] /\ promised' = promised
    BY <1>3, <1>4, <2>1
  <2>2. CASE promised[u] > 0 /\ promised' = [promised EXCEPT ![u] = @ - 1]
    <3>1. /\ promised' \in [Url -> Nat] /\ promised'[u] = promised[u] - 1
          /\ \A v \in Url : v # u => promised'[v] = promised[v]
      BY <1>3, <2>2
    <3>2. ASSUME NEW v \in Url PROVE promised'[v] <= promised[v] /\ promised'[v] <= dialling'[v]
      <4>1. promised[v] \in Nat /\ dialling[v] \in Nat /\ promised[v] <= dialling[v]
        BY <1>3
      <4>2. CASE v = u
        BY <1>4, <3>1, <4>1, <4>2
      <4>3. CASE v # u
        BY <1>4, <3>1, <4>1, <4>3
      <4> QED BY <4>2, <4>3
    <3> QED BY <3>1, <3>2
  <2> QED BY <1>2, <2>1, <2>2
<1>6. /\ redial' \in [Url -> Nat] /\ queued' \in [Url -> [Pending -> Nat]]
      /\ \A v \in Url : v # u => Backlog(v)' = Backlog(v)
      /\ Backlog(u)' = Backlog(u) \/ Backlog(u)' = Backlog(u) + 1
      /\ u \in TrackerUrl => Backlog(u)' = Backlog(u) + 1
  BY <1>1, <1>2, SocketClosed
<1>7. SignalTypeOK'
  BY <1>1, <1>2, <1>4, <1>5, <1>6 DEF SignalTypeOK
<1>8. ASSUME NEW v \in Url
      PROVE  /\ Attempts(v) \in Nat /\ Attempts(v)' \in Nat /\ Attempts(v)' <= Attempts(v)
             /\ v \in TrackerUrl => Attempts(v)' = Attempts(v)
  <2>1. live'[v] = live[v]
    BY <1>2
  <2>2. CASE v # u
    BY <1>1, <1>4, <1>6, <1>7, <2>1, <2>2, Numbers, AttemptsLater
  <2>3. CASE v = u
    BY <1>1, <1>4, <1>6, <1>7, <2>1, <2>3, Numbers, AttemptsLater
  <2> QED BY <2>2, <2>3
<1> QED BY <1>2, <1>5, <1>7, <1>8, AttemptsKept, RelayFacts

\* SignalClose.
LEMMA SignalCloseStep ==
    ASSUME SignalInv, NEW u \in Url, SignalClose(u)
    PROVE  SignalInv'
<1>1. SignalTypeOK
  BY DEF SignalInv
<1>2. /\ live[u] > 0 /\ live' = [live EXCEPT ![u] = @ - 1]
      /\ current' = current \ {u} /\ OnSocketClose(u)
      /\ dialling' = dialling /\ promised' = promised /\ paused' = paused
      /\ announced' = announced /\ offline' = offline /\ left' = left
  BY DEF SignalClose
<1>3. live \in [Url -> Nat] /\ current \subseteq {v \in Url : live[v] > 0}
  BY <1>1 DEF SignalTypeOK
<1>4. /\ live' \in [Url -> Nat] /\ live'[u] = live[u] - 1
      /\ \A v \in Url : v # u => live'[v] = live[v]
  BY <1>2, <1>3
<1>5. current' \subseteq {v \in Url : live'[v] > 0}
  BY <1>2, <1>3, <1>4
<1>6. /\ redial' \in [Url -> Nat] /\ queued' \in [Url -> [Pending -> Nat]]
      /\ \A v \in Url : v # u => Backlog(v)' = Backlog(v)
      /\ Backlog(u)' = Backlog(u) \/ Backlog(u)' = Backlog(u) + 1
      /\ u \in TrackerUrl => Backlog(u)' = Backlog(u) + 1
  BY <1>1, <1>2, SocketClosed
<1>7. SignalTypeOK'
  BY <1>1, <1>2, <1>4, <1>5, <1>6 DEF SignalTypeOK
<1>8. ASSUME NEW v \in Url
      PROVE  /\ Attempts(v) \in Nat /\ Attempts(v)' \in Nat /\ Attempts(v)' <= Attempts(v)
             /\ v \in TrackerUrl => Attempts(v)' = Attempts(v)
             /\ promised'[v] <= promised[v]
  <2>1. dialling'[v] = dialling[v] /\ promised'[v] = promised[v]
    BY <1>2
  <2>2. /\ dialling[v] \in Nat /\ live[v] \in Nat /\ Backlog(v) \in Nat /\ promised[v] \in Nat
        /\ Attempts(v) = dialling[v] + live[v] + Backlog(v)
    BY <1>1, Numbers
  <2>3. /\ Attempts(v)' = dialling[v] + live'[v] + Backlog(v)' /\ Attempts(v)' \in Nat
        /\ Backlog(v)' \in Nat /\ live'[v] \in Nat
    BY <1>7, <2>1, AttemptsLater, NumbersLater
  <2>4. CASE v # u
    BY <1>4, <1>6, <2>1, <2>2, <2>3, <2>4
  <2>5. CASE v = u
    <3>1. live'[v] = live[v] - 1
      BY <1>4, <2>5
    <3>2. /\ Backlog(v)' = Backlog(v) \/ Backlog(v)' = Backlog(v) + 1
          /\ v \in TrackerUrl => Backlog(v)' = Backlog(v) + 1
      BY <1>6, <2>5
    <3> QED BY <2>1, <2>2, <2>3, <3>1, <3>2
  <2> QED BY <2>4, <2>5
<1> QED BY <1>2, <1>7, <1>8, AttemptsKept, RelayFacts

\* Redial.
LEMMA RedialStep ==
    ASSUME SignalInv, NEW u \in Url, Redial(u)
    PROVE  SignalInv'
<1>1. SignalTypeOK
  BY DEF SignalInv
<1>2. /\ redial[u] > 0 /\ redial' = [redial EXCEPT ![u] = @ - 1]
      /\ IF paused
         THEN queued' = [queued EXCEPT ![u]["callback"] = @ + 1] /\ dialling' = dialling
         ELSE /\ dialling' = [dialling EXCEPT ![u] = @ + CallbackDials(u, 1)]
              /\ queued' = queued
      /\ live' = live /\ current' = current /\ promised' = promised /\ paused' = paused
      /\ announced' = announced /\ offline' = offline /\ left' = left
  BY DEF Redial
<1>3. redial \in [Url -> Nat] /\ dialling \in [Url -> Nat]
      /\ queued \in [Url -> [Pending -> Nat]]
  BY <1>1 DEF SignalTypeOK
<1>4. /\ redial' \in [Url -> Nat] /\ redial'[u] = redial[u] - 1
      /\ \A v \in Url : v # u => redial'[v] = redial[v]
  BY <1>2, <1>3
<1>5. \A v \in Url : /\ redial[v] \in Nat /\ queued[v]["connect"] \in Nat
                     /\ queued[v]["reconnect"] \in Nat /\ queued[v]["callback"] \in Nat
  BY <1>1, Numbers
<1>6. /\ dialling' \in [Url -> Nat] /\ queued' \in [Url -> [Pending -> Nat]]
      /\ \A v \in Url : v # u => dialling'[v] = dialling[v] /\ Backlog(v)' = Backlog(v)
      /\ dialling'[u] >= dialling[u]
      /\ \/ dialling'[u] + Backlog(u)' = dialling[u] + Backlog(u)
         \/ dialling'[u] + Backlog(u)' = dialling[u] + Backlog(u) - 1 /\ u \in current
  <2>1. CASE paused
    <3>1. queued' = [queued EXCEPT ![u]["callback"] = @ + 1] /\ dialling' = dialling
      BY <1>2, <2>1
    <3>2. /\ queued' \in [Url -> [Pending -> Nat]]
          /\ \A v \in Url : v # u => queued'[v] = queued[v]
          /\ queued'[u]["callback"] = queued[u]["callback"] + 1
          /\ queued'[u]["connect"] = queued[u]["connect"]
          /\ queued'[u]["reconnect"] = queued[u]["reconnect"]
      BY <1>1, <3>1, PutOff DEF Pending
    <3>3. \A v \in Url : v # u => Backlog(v)' = Backlog(v)
      BY <1>4, <3>2 DEF Backlog
    <3>4. Backlog(u)' = Backlog(u) /\ Backlog(u) \in Nat
      BY <1>4, <1>5, <3>2 DEF Backlog
    <3> QED BY <1>3, <3>1, <3>2, <3>3, <3>4
  <2>2. CASE ~paused
    <3>1. dialling' = [dialling EXCEPT ![u] = @ + CallbackDials(u, 1)] /\ queued' = queued
      BY <1>2, <2>2
    <3>2. /\ CallbackDials(u, 1) \in {0, 1}
          /\ CallbackDials(u, 1) = 0 => u \in current
      BY DEF CallbackDials
    <3>3. /\ dialling' \in [Url -> Nat] /\ dialling'[u] = dialling[u] + CallbackDials(u, 1)
          /\ \A v \in Url : v # u => dialling'[v] = dialling[v]
      BY <1>3, <3>1, <3>2
    <3>4. \A v \in Url : v # u => Backlog(v)' = Backlog(v)
      BY <1>4, <3>1 DEF Backlog
    <3>5. Backlog(u)' = Backlog(u) - 1 /\ Backlog(u) \in Nat
      BY <1>4, <1>5, <3>1 DEF Backlog
    <3>6. dialling[u] \in Nat
      BY <1>3
    <3>7. /\ dialling'[u] >= dialling[u]
          /\ \/ dialling'[u] + Backlog(u)' = dialling[u] + Backlog(u)
             \/ dialling'[u] + Backlog(u)' = dialling[u] + Backlog(u) - 1 /\ u \in current
      BY <3>2, <3>3, <3>5, <3>6
    <3> QED BY <1>3, <3>1, <3>3, <3>4, <3>7
  <2> QED BY <2>1, <2>2
<1>7. SignalTypeOK'
  <2>1. ASSUME NEW v \in Url PROVE promised'[v] <= dialling'[v]
    <3>1. promised[v] \in Nat /\ dialling[v] \in Nat /\ dialling'[v] \in Nat
          /\ promised[v] <= dialling[v] /\ promised'[v] = promised[v]
      BY <1>1, <1>2, <1>6, Numbers
    <3>2. dialling'[v] >= dialling[v]
      BY <1>6, <3>1
    <3> QED BY <3>1, <3>2
  <2> QED BY <1>1, <1>2, <1>4, <1>6, <2>1 DEF SignalTypeOK
<1>8. ASSUME NEW v \in Url
      PROVE  /\ promised'[v] <= promised[v] /\ Attempts(v)' <= Attempts(v)
             /\ Attempts(v)' = Attempts(v) \/ Attempts(v)' >= 1
  <2>1. live'[v] = live[v] /\ promised'[v] = promised[v]
    BY <1>2
  <2>2. CASE v # u
    BY <1>1, <1>6, <1>7, <2>1, <2>2, Numbers, AttemptsLater
  <2>3. CASE v = u
    BY <1>1, <1>6, <1>7, <2>1, <2>3, Numbers, AttemptsLater
  <2> QED BY <2>2, <2>3
<1> QED BY <1>2, <1>7, <1>8, AttemptsKept, RelayFacts

\* HandleOffline and OnLeave touch no socket, timer or pending reconnection.
LEMMA QuietSignalStep ==
    ASSUME SignalInv, HandleOffline \/ OnLeave \/ UNCHANGED SignalVars
    PROVE  SignalInv'
<1>1. SignalTypeOK
  BY DEF SignalInv
<1>2. /\ dialling' = dialling /\ live' = live /\ redial' = redial /\ queued' = queued
      /\ promised' = promised /\ announced' = announced /\ current' \subseteq current
      /\ offline' \in 0..MaxOffline /\ {paused', left'} \subseteq BOOLEAN
  <2>1. offline \in 0..MaxOffline /\ {paused, left} \subseteq BOOLEAN /\ MaxOffline \in Nat
    BY <1>1, SignalAssumption DEF SignalTypeOK
  <2>2. CASE HandleOffline
    BY <2>1, <2>2 DEF HandleOffline
  <2>3. CASE OnLeave
    BY <2>1, <2>3 DEF OnLeave
  <2>4. CASE UNCHANGED SignalVars
    BY <2>1, <2>4 DEF SignalVars
  <2> QED BY <2>2, <2>3, <2>4
<1>3. SignalTypeOK'
  BY <1>1, <1>2 DEF SignalTypeOK
<1>4. ASSUME NEW v \in Url
      PROVE  promised'[v] <= promised[v] /\ Attempts(v)' <= Attempts(v)
             /\ Attempts(v)' = Attempts(v)
  <2>1. Attempts(v)' = Attempts(v) /\ promised'[v] = promised[v]
    BY <1>2 DEF Attempts
  <2> QED BY <1>1, <2>1, Numbers
<1> QED BY <1>2, <1>3, <1>4, AttemptsKept, RelayFacts

\* The initial state: nothing was announced, and nothing is dialled.
LEMMA SignalInitInv ==
    ASSUME SignalInit
    PROVE  SignalInv
<1>1. SignalTypeOK
  <2>1. /\ announced \in 0..MaxAnnounces /\ offline \in 0..MaxOffline
        /\ {paused, left} \subseteq BOOLEAN
    <3>1. announced \in 0..MaxAnnounces /\ offline \in 0..MaxOffline
      BY SignalAssumption DEF SignalInit
    <3>2. paused = FALSE /\ left = FALSE
      BY DEF SignalInit
    <3> QED BY <3>1, <3>2
  <2>2. queued \in [Url -> [Pending -> Nat]]
    BY DEF SignalInit
  <2>3. /\ dialling \in [Url -> Nat] /\ live \in [Url -> Nat] /\ redial \in [Url -> Nat]
        /\ promised \in [Url -> Nat] /\ current \subseteq {u \in Url : live[u] > 0}
        /\ \A u \in Url : promised[u] <= dialling[u]
    BY DEF SignalInit
  <2> QED BY <2>1, <2>2, <2>3 DEF SignalTypeOK
<1>2. ASSUME NEW u \in Url PROVE Attempts(u) = 0 /\ promised[u] = 0
  BY DEF SignalInit, Attempts, Pending
<1>3. announced = 0
  BY DEF SignalInit
<1>4. ASSUME NEW j \in 1..Len(RelayUrls) PROVE Counted(j)
  <2>1. \A i \in 1..(j - 1) : i \in 1..Len(RelayUrls)
    BY RelayFacts
  <2>2. Before(j) = {}
    BY <1>2, <2>1, RelayFacts DEF Before
  <2> QED BY <1>2, <1>3, <2>2, RelayFacts, FS_EmptySet DEF Counted
<1>5. ASSUME NEW u \in TrackerUrl PROVE TrackerCounted(u)
  BY <1>2, <1>3, RelayFacts DEF TrackerCounted
<1> QED BY <1>1, <1>4, <1>5 DEF SignalInv

\* One step of the sockets.
LEMMA SignalStep ==
    ASSUME SignalInv, [SignalNext]_SignalVars
    PROVE  SignalInv'
<1>1. CASE SignalAnnounceAll
  BY <1>1, SignalAnnounceAllStep
<1>2. ASSUME NEW u \in Url, SignalOpen(u) \/ SignalFail(u) \/ SignalClose(u) \/ Redial(u)
      PROVE  SignalInv'
  BY <1>2, SignalOpenStep, SignalFailStep, SignalCloseStep, RedialStep
<1>3. CASE HandleOnline
  BY <1>3, HandleOnlineStep
<1>4. CASE HandleOffline \/ OnLeave \/ UNCHANGED SignalVars
  BY <1>4, QuietSignalStep
<1> QED BY <1>1, <1>2, <1>3, <1>4 DEF SignalNext

\* What is counted bounds the attempts.
LEMMA SignalCounts ==
    ASSUME SignalInv
    PROVE  TrackersRetried
<1>1. SignalTypeOK
  BY DEF SignalInv
<1>2. ASSUME NEW u \in Url PROVE Attempts(u) <= announced
  <2>1. CASE u \in TrackerUrl
    BY <2>1 DEF SignalInv, TrackerCounted
  <2>2. CASE u \in Relay
    <3>1. PICK j \in 1..Len(RelayUrls) : u = RelayUrls[j]
      BY <2>2, RelayFacts
    <3>2. IsFiniteSet(Before(j)) /\ Attempts(u) + Cardinality(Before(j)) <= announced
      BY <3>1 DEF SignalInv, Counted
    <3>3. Cardinality(Before(j)) \in Nat
      BY <3>2, FS_CardinalityType
    <3> QED BY <1>1, <3>2, <3>3, Numbers
  <2> QED BY <2>1, <2>2, RelayFacts
<1>3. announced > 0 => \A u \in TrackerUrl : Attempts(u) >= 1
  BY DEF SignalInv, TrackerCounted
<1> QED BY <1>2, <1>3 DEF TrackersRetried

(***************************************************************************)
(* The counts of sockets, timers and pending reconnections are numbers,    *)
(* and no announcement waits for a socket that is not being dialled.       *)
(***************************************************************************)
THEOREM SignalTyped == SignalSpec => []SignalTypeOK
<1>1. SignalInv => SignalTypeOK
  BY DEF SignalInv
<1> QED BY <1>1, SignalInitInv, SignalStep, PTL DEF SignalSpec

(***************************************************************************)
(* A tracker that was announced to always has a socket or an attempt at    *)
(* one, and no url has more than one for each announcement, for any number *)
(* of trackers, relays, announcements and times offline.                   *)
(***************************************************************************)
THEOREM TrackersRetriedAlways == SignalSpec => []TrackersRetried
BY SignalInitInv, SignalStep, SignalCounts, PTL DEF SignalSpec

-----------------------------------------------------------------------------
\* The greatest of a set of numbers, as the folds choose it.
Highest(s) == CHOOSE x \in s : \A y \in s : x >= y

\* The first indices of a sequence, chosen from above.
LEMMA HighestLast ==
    ASSUME NEW n \in Nat, NEW s \in SUBSET (1..n), s # {}
    PROVE  Highest(s) \in s /\ \A y \in s : Highest(s) >= y
<1>1. \E x \in s : \A y \in s : x >= y
  BY GreatestExists
<1> QED BY <1>1 DEF Highest

-----------------------------------------------------------------------------
\* How often x is among the first k of a sequence.
Count(s, k, x) == Cardinality({j \in 1..k : s[j] = x})

\* What one more makes of the count.
Counts(s, x) ==
    /\ Count(s, 0, x) = 0
    /\ \A k \in Nat :
          /\ Count(s, k, x) \in Nat /\ Count(s, k, x) <= k
          /\ Count(s, k + 1, x) = Count(s, k, x) + (IF s[k + 1] = x THEN 1 ELSE 0)

\* The entries of a sequence up to one more.
LEMMA CountNext == ASSUME NEW s, NEW x PROVE Counts(s, x)
<1>1. Count(s, 0, x) = 0
  <2>1. {j \in 1..0 : s[j] = x} = {}
    OBVIOUS
  <2> QED BY <2>1, FS_EmptySet DEF Count
<1>2. ASSUME NEW k \in Nat
      PROVE  /\ Count(s, k, x) \in Nat /\ Count(s, k, x) <= k
             /\ Count(s, k + 1, x) = Count(s, k, x) + (IF s[k + 1] = x THEN 1 ELSE 0)
  <2> DEFINE S == {j \in 1..k : s[j] = x}
             T == {j \in 1..(k + 1) : s[j] = x}
  <2>1. IsFiniteSet(1..k) /\ Cardinality(1..k) = k
    BY FS_Interval
  <2>2. IsFiniteSet(S) /\ Cardinality(S) \in Nat /\ Cardinality(S) <= k
    <3>1. S \in SUBSET (1..k)
      OBVIOUS
    <3> HIDE DEF S
    <3> QED BY <2>1, <3>1, FS_Subset, FS_CardinalityType
  <2>3. T = IF s[k + 1] = x THEN S \cup {k + 1} ELSE S
    OBVIOUS
  <2>4. k + 1 \notin S
    OBVIOUS
  <2>5. Cardinality(T) = Cardinality(S) + (IF s[k + 1] = x THEN 1 ELSE 0)
    <3> HIDE DEF S, T
    <3> QED BY <2>2, <2>3, <2>4, FS_AddElement
  <2> QED BY <2>2, <2>5 DEF Count
<1> QED BY <1>1, <1>2 DEF Counts

\* It depends on the first k only.
LEMMA CountSame ==
    ASSUME NEW s, NEW t, NEW k \in Nat, NEW x, \A j \in 1..k : s[j] = t[j]
    PROVE  Count(s, k, x) = Count(t, k, x)
<1>1. {j \in 1..k : s[j] = x} = {j \in 1..k : t[j] = x}
  OBVIOUS
<1> QED BY <1>1 DEF Count

\* It grows with k.
LEMMA CountGrows ==
    ASSUME NEW s, NEW k \in Nat, NEW n \in Nat, k <= n, NEW x
    PROVE  Count(s, k, x) <= Count(s, n, x)
<1> DEFINE S == {j \in 1..k : s[j] = x}
           T == {j \in 1..n : s[j] = x}
<1>1. S \in SUBSET T
  OBVIOUS
<1>2. IsFiniteSet(T)
  <2>1. T \in SUBSET (1..n) /\ IsFiniteSet(1..n)
    BY FS_Interval
  <2> HIDE DEF T
  <2> QED BY <2>1, FS_Subset
<1>3. Cardinality(S) <= Cardinality(T)
  <2> HIDE DEF S, T
  <2> QED BY <1>1, <1>2, FS_Subset
<1> QED BY <1>3 DEF Count

-----------------------------------------------------------------------------
\* q is what is left of Q, and h tells where.
LeftOf(q, h, Q) ==
    /\ h \in [1..Len(q) -> 1..Len(Q)]
    /\ \A i, j \in 1..Len(q) : i < j => h[i] < h[j]
    /\ \A i \in 1..Len(q) : q[i] = Q[h[i]]

\* The entries with an id that are not left.
Gone(q, h, Q, id) == {m \in Entries(Q, id) : \A i \in 1..Len(q) : h[i] # m}

\* The least of a set of indices, as the community modules choose it.
LEMMA LeastIndex ==
    ASSUME NEW n \in Nat, NEW I \in SUBSET (1..n), I # {}
    PROVE  Min(I) \in I /\ \A j \in I : Min(I) <= j
<1> DEFINE K == {j \in 1..n : n + 1 - j \in I}
<1>1. K \in SUBSET (1..n)
  OBVIOUS
<1>2. \A i \in I : n + 1 - i \in K
  <2> SUFFICES ASSUME NEW i \in I PROVE n + 1 - i \in K
    OBVIOUS
  <2>1. i \in 1..n /\ n + 1 - i \in 1..n /\ n + 1 - (n + 1 - i) = i
    OBVIOUS
  <2> QED BY <2>1
<1>3. PICK x \in K : \A y \in K : x >= y
  <2>1. K # {}
    BY <1>2
  <2> HIDE DEF K
  <2> QED BY <1>1, <2>1, GreatestExists
<1>4. n + 1 - x \in I /\ x \in 1..n
  OBVIOUS
<1>5. \A j \in I : n + 1 - x <= j
  <2> SUFFICES ASSUME NEW j \in I PROVE n + 1 - x <= j
    OBVIOUS
  <2>1. n + 1 - j \in K /\ j \in 1..n
    BY <1>2
  <2>2. x >= n + 1 - j
    BY <1>3, <2>1
  <2> QED BY <1>4, <2>1, <2>2
<1>6. \E i \in I : \A j \in I : i <= j
  BY <1>4, <1>5
<1> QED BY <1>6 DEF Min

\* Removing the entry at m from a sequence.
LEMMA Removed ==
    ASSUME NEW S, NEW q \in Seq(S), NEW m \in 1..Len(q)
    PROVE  /\ RemoveAt(q, m) \in Seq(S) /\ Len(RemoveAt(q, m)) = Len(q) - 1
           /\ \A i \in 1..(Len(q) - 1) :
                RemoveAt(q, m)[i] = IF i < m THEN q[i] ELSE q[i + 1]
<1> DEFINE s == SubSeq(q, 1, m - 1)
           t == SubSeq(q, m + 1, Len(q))
<1>0. Len(q) \in Nat /\ m \in Nat /\ 1 <= m /\ m <= Len(q)
  OBVIOUS
<1>1. /\ s \in Seq(S) /\ Len(s) = m - 1 /\ \A i \in 1..(m - 1) : s[i] = q[i]
  OBVIOUS
<1>2. /\ t \in Seq(S) /\ Len(t) = Len(q) - m
      /\ \A i \in 1..(Len(q) - m) : t[i] = q[m + i]
  OBVIOUS
<1> HIDE DEF s, t
<1>3. RemoveAt(q, m) = s \o t
  BY DEF RemoveAt, s, t
<1>4. s \o t \in Seq(S) /\ Len(s \o t) = Len(q) - 1
  <2>1. s \o t \in Seq(S) /\ Len(s \o t) = Len(s) + Len(t)
    BY <1>1, <1>2, ConcatProperties
  <2> QED BY <1>0, <1>1, <1>2, <2>1
<1>5. ASSUME NEW i \in 1..(Len(q) - 1)
      PROVE  (s \o t)[i] = IF i < m THEN q[i] ELSE q[i + 1]
  <2>1. CASE i < m
    BY <1>0, <1>1, <1>2, <2>1
  <2>2. CASE ~(i < m)
    <3>1. i > Len(s) /\ i <= Len(s) + Len(t) /\ i - Len(s) \in 1..(Len(q) - m)
          /\ m + (i - Len(s)) = i + 1
      BY <1>0, <1>1, <1>2, <2>2
    <3>2. (s \o t)[i] = t[i - Len(s)]
      BY <1>1, <1>2, <3>1
    <3> QED BY <1>2, <2>2, <3>1, <3>2
  <2> QED BY <2>1, <2>2
<1> QED BY <1>3, <1>4, <1>5

\* p is q without its entry at m, the first with id x.
Spliced(q, x, p, m) ==
    /\ q[m].id = x /\ \A i \in 1..Len(q) : i < m => q[i].id # x
    /\ p \in Seq(Entry) /\ Len(p) = Len(q) - 1
    /\ \A i \in 1..(Len(q) - 1) : p[i] = IF i < m THEN q[i] ELSE q[i + 1]

\* Splicing an id that some entry has removes the first of them.
LEMMA SpliceFirst ==
    ASSUME NEW q \in Seq(Entry), NEW x, NEW k \in 1..Len(q), q[k].id = x
    PROVE  \E m \in 1..Len(q) : Spliced(q, x, Splice(q, x), m)
<1> DEFINE I == {i \in 1..Len(q) : q[i].id = x}
           m == Min(I)
<1>1. I \in SUBSET (1..Len(q)) /\ k \in I /\ Len(q) \in Nat
  OBVIOUS
<1>2. m \in I /\ \A j \in I : m <= j
  <2> HIDE DEF I
  <2> QED BY <1>1, LeastIndex
<1>3. Splice(q, x) = RemoveAt(q, m)
  BY <1>1 DEF Splice, RemoveFirstMatch, SelectInSeq
<1> HIDE DEF m
<1>4. m \in 1..Len(q) /\ q[m].id = x /\ \A i \in 1..Len(q) : i < m => q[i].id # x
  BY <1>2
<1> QED BY <1>3, <1>4, Removed DEF Spliced

\* p is left of Q too, without the first entry n with id x that q still has.
OneGone(q, h, Q, x, p, g, n) ==
    /\ p \in Seq(Entry) /\ LeftOf(p, g, Q)
    /\ n \in Entries(Q, x) \ Gone(q, h, Q, x)
    /\ \A i \in Entries(Q, x) : i < n => i \in Gone(q, h, Q, x)
    /\ Gone(p, g, Q, x) = Gone(q, h, Q, x) \cup {n}
    /\ \A y : y # x => Gone(p, g, Q, y) = Gone(q, h, Q, y)

\* What is left is left in its order, and one more entry is gone.
LEMMA SpliceGone ==
    ASSUME NEW Q \in Seq(Entry), NEW q \in Seq(Entry), NEW h, LeftOf(q, h, Q), NEW x,
           NEW k \in 1..Len(q), q[k].id = x
    PROVE  \E g, n : OneGone(q, h, Q, x, Splice(q, x), g, n)
<1> DEFINE p == Splice(q, x)
<1>0. Splice(q, x) = p
  OBVIOUS
<1>13. \E m \in 1..Len(q) : Spliced(q, x, Splice(q, x), m)
  BY SpliceFirst
<1> HIDE DEF p
<1>1. PICK m \in 1..Len(q) :
         /\ q[m].id = x /\ \A i \in 1..Len(q) : i < m => q[i].id # x
         /\ p \in Seq(Entry) /\ Len(p) = Len(q) - 1
         /\ \A i \in 1..(Len(q) - 1) : p[i] = IF i < m THEN q[i] ELSE q[i + 1]
  BY <1>0, <1>13 DEF Spliced
<1> DEFINE g == [i \in 1..Len(p) |-> IF i < m THEN h[i] ELSE h[i + 1]]
           n == h[m]
<1>2. /\ h \in [1..Len(q) -> 1..Len(Q)]
      /\ \A i, j \in 1..Len(q) : i < j => h[i] < h[j]
      /\ \A i \in 1..Len(q) : q[i] = Q[h[i]]
  BY DEF LeftOf
<1>3. LeftOf(p, g, Q)
  <2>1. g \in [1..Len(p) -> 1..Len(Q)]
    BY <1>1, <1>2
  <2>2. \A i, j \in 1..Len(p) : i < j => g[i] < g[j]
    BY <1>1, <1>2
  <2>3. \A i \in 1..Len(p) : p[i] = Q[g[i]]
    BY <1>1, <1>2
  <2> HIDE DEF g
  <2> QED BY <2>1, <2>2, <2>3 DEF LeftOf
<1>4. n \in Entries(Q, x)
  BY <1>1, <1>2 DEF Entries
<1>5. n \notin Gone(q, h, Q, x)
  BY DEF Gone
<1>6. ASSUME NEW i \in Entries(Q, x), i < n PROVE i \in Gone(q, h, Q, x)
  <2> SUFFICES ASSUME NEW j \in 1..Len(q), h[j] = i PROVE FALSE
    BY DEF Gone
  <2>1. Q[i].id = x /\ q[j].id = x
    BY <1>2 DEF Entries
  <2>2. ~(j < m)
    BY <1>1, <2>1
  <2>3. h[m] <= h[j]
    BY <1>2, <2>2
  <2> QED BY <1>2, <1>6, <2>3
<1>7. \A j \in 1..Len(Q) : (\E i \in 1..Len(p) : g[i] = j)
                              <=> j # n /\ \E i \in 1..Len(q) : h[i] = j
  <2> SUFFICES ASSUME NEW j \in 1..Len(Q)
               PROVE  (\E i \in 1..Len(p) : g[i] = j)
                         <=> j # n /\ \E i \in 1..Len(q) : h[i] = j
    OBVIOUS
  <2>1. ASSUME NEW i \in 1..Len(p), g[i] = j
        PROVE  j # n /\ \E l \in 1..Len(q) : h[l] = j
    <3>1. CASE i < m
      BY <1>1, <1>2, <2>1, <3>1
    <3>2. CASE ~(i < m)
      <4>1. i + 1 \in 1..Len(q) /\ m < i + 1 /\ h[i + 1] = j
        BY <1>1, <2>1, <3>2
      <4> QED BY <1>2, <4>1
    <3> QED BY <3>1, <3>2
  <2>2. ASSUME j # n, NEW i \in 1..Len(q), h[i] = j
        PROVE  \E l \in 1..Len(p) : g[l] = j
    <3>1. CASE i < m
      <4>1. i \in 1..Len(p) /\ g[i] = j
        BY <1>1, <2>2, <3>1
      <4> QED BY <4>1
    <3>2. CASE i > m
      <4>1. i - 1 \in 1..Len(p) /\ ~(i - 1 < m) /\ (i - 1) + 1 = i
        BY <1>1, <3>2
      <4>2. g[i - 1] = j
        BY <2>2, <4>1
      <4> QED BY <4>1, <4>2
    <3> QED BY <2>2, <3>1, <3>2
  <2> HIDE DEF g
  <2> QED BY <2>1, <2>2
<1>8. \A y : Entries(Q, y) \subseteq 1..Len(Q)
  BY DEF Entries
<1>9. Gone(p, g, Q, x) = Gone(q, h, Q, x) \cup {n}
  <2> HIDE DEF g, n
  <2> QED BY <1>4, <1>7, <1>8 DEF Gone
<1>10. \A y : y # x => n \notin Entries(Q, y)
  BY <1>4 DEF Entries
<1>11. \A y : y # x => Gone(p, g, Q, y) = Gone(q, h, Q, y)
  <2> HIDE DEF g, n
  <2> QED BY <1>7, <1>8, <1>10 DEF Gone
<1>12. p \in Seq(Entry)
  BY <1>1
<1> HIDE DEF g, n
<1>14. OneGone(q, h, Q, x, p, g, n)
  BY <1>3, <1>4, <1>5, <1>6, <1>9, <1>11, <1>12 DEF OneGone
<1> QED BY <1>14 DEF p

\* A queue that something is spliced from is a queue.
LEMMA SpliceType == ASSUME NEW q \in Seq(Entry), NEW x PROVE Splice(q, x) \in Seq(Entry)
<1>1. CASE \E k \in 1..Len(q) : q[k].id = x
  <2>1. PICK k \in 1..Len(q) : q[k].id = x
    BY <1>1
  <2>2. \E m \in 1..Len(q) : Spliced(q, x, Splice(q, x), m)
    BY <2>1, SpliceFirst
  <2> QED BY <2>2 DEF Spliced
<1>2. CASE ~ \E k \in 1..Len(q) : q[k].id = x
  <2>3. DOMAIN q = 1..Len(q)
    OBVIOUS
  <2>4. ~ \E k \in DOMAIN q : q[k].id = x
    BY <1>2, <2>3
  <2>1. Splice(q, x) = SubSeq(q, 1, Len(q) - 1)
    BY <2>4 DEF Splice, Front
  <2>2. SubSeq(q, 1, Len(q) - 1) \in Seq(Entry)
    OBVIOUS
  <2> QED BY <2>1, <2>2
<1> QED BY <1>1, <1>2

-----------------------------------------------------------------------------
\* g is the queue Q after each splice of an id in R.
Splices(g, Q, R) ==
    /\ g \in [0..Len(R) -> Seq(Entry)]
    /\ g[0] = Q
    /\ \A k \in 1..Len(R) : g[k] = Splice(g[k - 1], R[k])

\* Folding Splice is splicing one id after the other.
LEMMA SplicesFold ==
    ASSUME NEW Q \in Seq(Entry), NEW R \in Seq(MessageId)
    PROVE  \E g : Splices(g, Q, R) /\ g[Len(R)] = FoldLeft(Splice, Q, R)
<1> DEFINE n == Len(R)
           S == 1..n
           V == Seq(Entry)
           C == [s \in SUBSET S |-> Highest(s)]
           H == [i \in S |-> [v \in V |-> Splice(v, R[i])]]
           Step(g) == [s \in SUBSET S |->
               IF s = {} THEN Q ELSE Splice(g[s \ {Highest(s)}], R[Highest(s)])]
           G == CHOOSE g : g = Step(g)
<1>0. n \in Nat /\ DOMAIN R = S /\ IsFiniteSet(S)
  BY FS_Interval
<1>1. \A i \in S, v \in V : Splice(v, R[i]) \in V
  BY SpliceType
<1>2. ASSUME NEW s \in SUBSET S, s # {}
      PROVE  Highest(s) \in s /\ \A y \in s : Highest(s) >= y
  <2> HIDE DEF n
  <2> QED BY <1>0, <1>2, HighestLast
<1>3. Folds(S, V, Q, C, H)
  <2>1. \A x \in S, v \in V : H[x][v] \in V
    BY <1>1
  <2>2. \A s \in SUBSET S : s # {} => C[s] \in s
    BY <1>2
  <2> HIDE DEF C, H, S
  <2> QED BY <1>0, <2>1, <2>2 DEF Folds
<1>4. PICK h : IsFold(h, S, V, Q, C, H)
  <2> HIDE DEF C, H, S, V
  <2> QED BY <1>3, FoldExists
<1>5. Folded(h, S, V, Q, C, H)
  <2> HIDE DEF C, H, S, V
  <2> QED BY <1>3, <1>4, FoldValues
<1>6. ASSUME NEW s \in SUBSET S PROVE h[s] = Step(h)[s]
  <2>1. CASE s = {}
    BY <1>5, <2>1 DEF Folded
  <2>2. CASE s # {}
    <3> DEFINE x == Highest(s)
    <3>1. x \in s /\ x \in S /\ s \ {x} \in SUBSET S /\ C[s] = x
      BY <1>2, <2>2
    <3>2. h[s \ {x}] \in V
      BY <1>5, <3>1 DEF Folded
    <3>3. h[s] = H[x][h[s \ {x}]]
      <4> HIDE DEF x, H, C, S, V
      <4> QED BY <1>5, <2>2, <3>1 DEF Folded
    <3> QED BY <2>2, <3>1, <3>2, <3>3
  <2> QED BY <2>1, <2>2
<1>7. h = [s \in SUBSET S |-> h[s]]
  BY <1>4 DEF IsFold
<1>8. h = Step(h)
  BY <1>6, <1>7
<1>9. G = Step(G)
  <2> HIDE DEF Step
  <2> QED BY <1>8
<1>10. IsFold(G, S, V, Q, C, H)
  <2>1. G = [s \in SUBSET S |-> G[s]] /\ G[{}] = Q
    <3> HIDE DEF G
    <3> QED BY <1>9
  <2>2. ASSUME NEW s \in SUBSET S, s # {}, G[s \ {C[s]}] \in V
        PROVE  G[s] = H[C[s]][G[s \ {C[s]}]]
    <3> DEFINE x == Highest(s)
    <3>1. x \in S /\ C[s] = x
      BY <1>2, <2>2
    <3> HIDE DEF G
    <3>2. G[s] = Splice(G[s \ {x}], R[x])
      BY <1>9, <2>2
    <3> HIDE DEF x, C, S, V
    <3> QED BY <2>2, <3>1, <3>2
  <2> HIDE DEF G, H, C, S, V
  <2> QED BY <2>1, <2>2 DEF IsFold
<1>11. G[S] = FoldLeft(Splice, Q, R)
  BY <1>0 DEF FoldLeft, MapThenFoldSet, Max, Highest
<1>12. \A s \in SUBSET (1..n) : s # {} => C[s] \in s /\ \A y \in s : C[s] >= y
  BY <1>2
<1> HIDE DEF G
<1>13. /\ G[1..0] = Q
       /\ \A i \in 0..n : G[1..i] \in V
       /\ \A i \in 1..n : G[1..i] = H[i][G[1..(i - 1)]]
  <2> HIDE DEF H, C, V, n
  <2> QED BY <1>0, <1>3, <1>10, <1>12, FoldInOrder
<1> DEFINE g == [k \in 0..n |-> G[1..k]]
<1>14. /\ g \in [0..n -> V] /\ g[0] = Q
       /\ \A k \in 1..n : g[k] = Splice(g[k - 1], R[k])
  <2>1. ASSUME NEW k \in 1..n PROVE g[k] = Splice(g[k - 1], R[k])
    <3>1. k \in 0..n /\ k - 1 \in 0..n
      BY <1>0
    <3>2. G[1..(k - 1)] \in V /\ G[1..k] = H[k][G[1..(k - 1)]]
      BY <1>13, <3>1
    <3>3. H[k][G[1..(k - 1)]] = Splice(G[1..(k - 1)], R[k])
      BY <3>2
    <3> HIDE DEF H, V, n
    <3> QED BY <3>1, <3>2, <3>3
  <2>2. g[0] = G[1..0] /\ g \in [0..n -> V]
    BY <1>0, <1>13
  <2> HIDE DEF g
  <2> QED BY <1>13, <2>1, <2>2
<1>15. g[n] = FoldLeft(Splice, Q, R)
  BY <1>0, <1>11
<1> HIDE DEF g
<1> QED BY <1>14, <1>15 DEF Splices

\* g is what is collected of the ids of old entries after each entry of Q.
Collects(g, Q) ==
    /\ g \in [0..Len(Q) -> Seq(MessageId)]
    /\ g[0] = <<>>
    /\ \A k \in 1..Len(Q) :
          g[k] = IF Q[k].old THEN Append(g[k - 1], Q[k].id) ELSE g[k - 1]

\* The ids of old entries are collected from one entry after the other.
LEMMA ExpiredFold ==
    ASSUME NEW Q \in Seq(Entry)
    PROVE  \E g : Collects(g, Q) /\ g[Len(Q)] = ExpiredIds(Q)
<1> DEFINE n == Len(Q)
           S == 1..n
           V == Seq(MessageId)
           C == [s \in SUBSET S |-> Highest(s)]
           Collect(v, i) == IF Q[i].old THEN Append(v, Q[i].id) ELSE v
           H == [i \in S |-> [v \in V |-> Collect(v, i)]]
           Step(g) == [s \in SUBSET S |->
               IF s = {} THEN <<>> ELSE Collect(g[s \ {Highest(s)}], Highest(s))]
           G == CHOOSE g : g = Step(g)
<1>0. n \in Nat /\ DOMAIN Q = S /\ IsFiniteSet(S)
  BY FS_Interval
<1>1. \A i \in S, v \in V : Collect(v, i) \in V
  <2>1. \A i \in S : Q[i].id \in MessageId
    <3>1. \A i \in S : Q[i] \in Entry
      OBVIOUS
    <3> QED BY <3>1 DEF Entry
  <2> QED BY <2>1
<1>2. ASSUME NEW s \in SUBSET S, s # {}
      PROVE  Highest(s) \in s /\ \A y \in s : Highest(s) >= y
  <2> HIDE DEF n
  <2> QED BY <1>0, <1>2, HighestLast
<1>3. Folds(S, V, <<>>, C, H)
  <2>1. \A x \in S, v \in V : H[x][v] \in V
    BY <1>1
  <2>2. \A s \in SUBSET S : s # {} => C[s] \in s
    BY <1>2
  <2> HIDE DEF C, H, S
  <2> QED BY <1>0, <2>1, <2>2 DEF Folds
<1>4. PICK h : IsFold(h, S, V, <<>>, C, H)
  <2> HIDE DEF C, H, S, V
  <2> QED BY <1>3, FoldExists
<1>5. Folded(h, S, V, <<>>, C, H)
  <2> HIDE DEF C, H, S, V
  <2> QED BY <1>3, <1>4, FoldValues
<1>6. ASSUME NEW s \in SUBSET S PROVE h[s] = Step(h)[s]
  <2>1. CASE s = {}
    BY <1>5, <2>1 DEF Folded
  <2>2. CASE s # {}
    <3> DEFINE x == Highest(s)
    <3>1. x \in s /\ x \in S /\ s \ {x} \in SUBSET S /\ C[s] = x
      BY <1>2, <2>2
    <3>2. h[s \ {x}] \in V
      BY <1>5, <3>1 DEF Folded
    <3>3. h[s] = H[x][h[s \ {x}]]
      <4> HIDE DEF x, H, C, S, V
      <4> QED BY <1>5, <2>2, <3>1 DEF Folded
    <3> QED BY <2>2, <3>1, <3>2, <3>3
  <2> QED BY <2>1, <2>2
<1>7. h = [s \in SUBSET S |-> h[s]]
  BY <1>4 DEF IsFold
<1>8. h = Step(h)
  BY <1>6, <1>7
<1>9. G = Step(G)
  <2> HIDE DEF Step
  <2> QED BY <1>8
<1>10. IsFold(G, S, V, <<>>, C, H)
  <2>1. G = [s \in SUBSET S |-> G[s]] /\ G[{}] = <<>>
    <3> HIDE DEF G
    <3> QED BY <1>9
  <2>2. ASSUME NEW s \in SUBSET S, s # {}, G[s \ {C[s]}] \in V
        PROVE  G[s] = H[C[s]][G[s \ {C[s]}]]
    <3> DEFINE x == Highest(s)
    <3>1. x \in S /\ C[s] = x
      BY <1>2, <2>2
    <3> HIDE DEF G
    <3>2. G[s] = Collect(G[s \ {x}], x)
      BY <1>9, <2>2
    <3> HIDE DEF x, C, S, V
    <3> QED BY <2>2, <3>1, <3>2
  <2> HIDE DEF G, H, C, S, V
  <2> QED BY <2>1, <2>2 DEF IsFold
<1>11. G[S] = ExpiredIds(Q)
  BY <1>0 DEF ExpiredIds, FoldLeft, MapThenFoldSet, Max, Highest
<1>12. \A s \in SUBSET (1..n) : s # {} => C[s] \in s /\ \A y \in s : C[s] >= y
  BY <1>2
<1> HIDE DEF G
<1>13. /\ G[1..0] = <<>>
       /\ \A i \in 0..n : G[1..i] \in V
       /\ \A i \in 1..n : G[1..i] = H[i][G[1..(i - 1)]]
  <2> HIDE DEF H, C, V, n
  <2> QED BY <1>0, <1>3, <1>10, <1>12, FoldInOrder
<1> DEFINE g == [k \in 0..n |-> G[1..k]]
<1>14. /\ g \in [0..n -> V] /\ g[0] = <<>>
       /\ \A k \in 1..n : g[k] = Collect(g[k - 1], k)
  <2>1. ASSUME NEW k \in 1..n PROVE g[k] = Collect(g[k - 1], k)
    <3>1. k \in 0..n /\ k - 1 \in 0..n
      BY <1>0
    <3>2. G[1..(k - 1)] \in V /\ G[1..k] = H[k][G[1..(k - 1)]]
      BY <1>13, <3>1
    <3>3. H[k][G[1..(k - 1)]] = Collect(G[1..(k - 1)], k)
      BY <3>2
    <3> HIDE DEF H, V, n
    <3> QED BY <3>1, <3>2, <3>3
  <2>2. g[0] = G[1..0] /\ g \in [0..n -> V]
    BY <1>0, <1>13
  <2> HIDE DEF g
  <2> QED BY <1>13, <2>1, <2>2
<1>15. g[n] = ExpiredIds(Q)
  BY <1>0, <1>11
<1> HIDE DEF g
<1> QED BY <1>14, <1>15 DEF Collects

-----------------------------------------------------------------------------
\* One more in a sequence.
LEMMA CountAppend ==
    ASSUME NEW S, NEW s \in Seq(S), NEW e \in S, NEW x
    PROVE  Count(Append(s, e), Len(Append(s, e)), x)
              = Count(s, Len(s), x) + (IF e = x THEN 1 ELSE 0)
<1> DEFINE t == Append(s, e)
<1>1. /\ Len(s) \in Nat /\ Len(t) = Len(s) + 1
      /\ \A j \in 1..Len(s) : t[j] = s[j] /\ t[Len(s) + 1] = e
  OBVIOUS
<1>2. t[Len(s) + 1] = e
  OBVIOUS
<1> HIDE DEF t
<1>3. Count(t, Len(s) + 1, x) = Count(t, Len(s), x) + (IF t[Len(s) + 1] = x THEN 1 ELSE 0)
  <2>1. Counts(t, x)
    BY CountNext
  <2> QED BY <1>1, <2>1 DEF Counts
<1>4. Count(t, Len(s), x) = Count(s, Len(s), x)
  BY <1>1, CountSame
<1>5. Count(t, Len(t), x) = Count(s, Len(s), x) + (IF e = x THEN 1 ELSE 0)
  BY <1>1, <1>2, <1>3, <1>4
<1> QED BY <1>5 DEF t

\* Two sequences after each other.
LEMMA CountConcat ==
    ASSUME NEW S, NEW s \in Seq(S), NEW t \in Seq(S), NEW x
    PROVE  Count(s \o t, Len(s \o t), x) = Count(s, Len(s), x) + Count(t, Len(t), x)
<1> DEFINE r == s \o t
           m == Len(s)
           N == {k \in Nat : k <= Len(t) => Count(r, m + k, x) = Count(s, m, x) + Count(t, k, x)}
<1>1. /\ m \in Nat /\ Len(t) \in Nat /\ Len(r) = m + Len(t)
      /\ \A j \in 1..m : r[j] = s[j]
      /\ \A j \in 1..Len(t) : r[m + j] = t[j]
  OBVIOUS
<1> HIDE DEF r, m
<1>2. 0 \in N
  <2>1. Count(r, m, x) = Count(s, m, x)
    BY <1>1, CountSame
  <2>2. Counts(t, x) /\ Counts(s, x)
    BY CountNext
  <2> QED BY <1>1, <2>1, <2>2 DEF Counts
<1>3. ASSUME NEW k \in Nat, k \in N PROVE k + 1 \in N
  <2> SUFFICES ASSUME k + 1 <= Len(t)
               PROVE  Count(r, m + (k + 1), x) = Count(s, m, x) + Count(t, k + 1, x)
    OBVIOUS
  <2>1. Count(r, m + k, x) = Count(s, m, x) + Count(t, k, x)
    BY <1>1, <1>3
  <2>5. Counts(t, x) /\ Counts(r, x) /\ Counts(s, x)
    BY CountNext
  <2>2. /\ Count(t, k + 1, x) = Count(t, k, x) + (IF t[k + 1] = x THEN 1 ELSE 0)
        /\ Count(t, k, x) \in Nat
    BY <2>5 DEF Counts
  <2>3. /\ Count(r, (m + k) + 1, x) = Count(r, m + k, x) + (IF r[(m + k) + 1] = x THEN 1 ELSE 0)
        /\ Count(r, m + k, x) \in Nat /\ Count(s, m, x) \in Nat
    <3>1. m + k \in Nat /\ m \in Nat
      BY <1>1
    <3> HIDE DEF N
    <3>2. /\ Count(r, (m + k) + 1, x) = Count(r, m + k, x) + (IF r[(m + k) + 1] = x THEN 1 ELSE 0)
          /\ Count(r, m + k, x) \in Nat
      BY ONLY <2>5, <3>1 DEF Counts
    <3> QED BY <2>5, <3>1, <3>2 DEF Counts
  <2>4. r[(m + k) + 1] = t[k + 1] /\ (m + k) + 1 = m + (k + 1)
    <3>1. k + 1 \in 1..Len(t) /\ (m + k) + 1 = m + (k + 1)
      BY <1>1
    <3> QED BY <1>1, <3>1
  <2> QED BY <2>1, <2>2, <2>3, <2>4
<1>4. Nat \subseteq N
  <2> HIDE DEF N
  <2> QED BY <1>2, <1>3, SetInduction
<1>5. Count(r, Len(r), x) = Count(s, m, x) + Count(t, Len(t), x)
  BY <1>1, <1>4
<1> QED BY <1>5 DEF r, m

\* The first k entries with an id that are old.
OldUpTo(Q, k, id) == {i \in 1..k : Q[i].id = id /\ Q[i].old}

\* As many ids are collected as there are old entries with them.
LEMMA ExpiredCounted ==
    ASSUME NEW Q \in Seq(Entry), NEW id
    PROVE  /\ ExpiredIds(Q) \in Seq(MessageId)
           /\ Count(ExpiredIds(Q), Len(ExpiredIds(Q)), id) = Cardinality(OldUpTo(Q, Len(Q), id))
<1>1. PICK g : Collects(g, Q) /\ g[Len(Q)] = ExpiredIds(Q)
  BY ExpiredFold
<1> DEFINE N == {k \in Nat : k <= Len(Q) =>
                   Count(g[k], Len(g[k]), id) = Cardinality(OldUpTo(Q, k, id))}
<1>2. Len(Q) \in Nat /\ \A i \in 1..Len(Q) : Q[i] \in Entry
  OBVIOUS
<1>3. \A k \in 0..Len(Q) : g[k] \in Seq(MessageId) /\ Len(g[k]) \in Nat
  BY <1>1 DEF Collects
<1>4. 0 \in N
  <2>1. g[0] = <<>> /\ Len(g[0]) = 0
    BY <1>1 DEF Collects
  <2>2. OldUpTo(Q, 0, id) = {}
    BY DEF OldUpTo
  <2>3. Counts(g[0], id)
    BY CountNext
  <2> QED BY <2>1, <2>2, <2>3, FS_EmptySet DEF Counts
<1>5. ASSUME NEW k \in Nat, k \in N PROVE k + 1 \in N
  <2> SUFFICES ASSUME k + 1 <= Len(Q)
               PROVE  Count(g[k + 1], Len(g[k + 1]), id) = Cardinality(OldUpTo(Q, k + 1, id))
    OBVIOUS
  <2>1. Count(g[k], Len(g[k]), id) = Cardinality(OldUpTo(Q, k, id))
    BY <1>2, <1>5
  <2>2. k \in 0..Len(Q) /\ k + 1 \in 1..Len(Q) /\ (k + 1) - 1 = k
    BY <1>2
  <2>3. g[k + 1] = IF Q[k + 1].old THEN Append(g[k], Q[k + 1].id) ELSE g[k]
    BY <1>1, <2>2 DEF Collects
  <2>4. Q[k + 1].id \in MessageId /\ g[k] \in Seq(MessageId)
    BY <1>2, <1>3, <2>2 DEF Entry
  <2>5. IsFiniteSet(OldUpTo(Q, k, id)) /\ Cardinality(OldUpTo(Q, k, id)) \in Nat
        /\ k + 1 \notin OldUpTo(Q, k, id)
    <3>1. OldUpTo(Q, k, id) \in SUBSET (1..k) /\ IsFiniteSet(1..k) /\ k + 1 \notin 1..k
      BY FS_Interval DEF OldUpTo
    <3> QED BY <3>1, FS_Subset, FS_CardinalityType
  <2>6. OldUpTo(Q, k + 1, id) = IF Q[k + 1].id = id /\ Q[k + 1].old
                                THEN OldUpTo(Q, k, id) \cup {k + 1} ELSE OldUpTo(Q, k, id)
    BY DEF OldUpTo
  <2>7. Cardinality(OldUpTo(Q, k + 1, id)) = Cardinality(OldUpTo(Q, k, id))
            + (IF Q[k + 1].id = id /\ Q[k + 1].old THEN 1 ELSE 0)
    <3> DEFINE O == OldUpTo(Q, k, id)
    <3>1. /\ IsFiniteSet(O) /\ Cardinality(O) \in Nat /\ k + 1 \notin O
          /\ OldUpTo(Q, k + 1, id) = IF Q[k + 1].id = id /\ Q[k + 1].old
                                     THEN O \cup {k + 1} ELSE O
      BY <2>5, <2>6
    <3> HIDE DEF O
    <3>2. Cardinality(O \cup {k + 1}) = Cardinality(O) + 1
      BY <3>1, FS_AddElement
    <3> QED BY <3>1, <3>2 DEF O
  <2>8. CASE Q[k + 1].old
    <3>1. Count(g[k + 1], Len(g[k + 1]), id)
            = Count(g[k], Len(g[k]), id) + (IF Q[k + 1].id = id THEN 1 ELSE 0)
      BY <2>3, <2>4, <2>8, CountAppend
    <3> QED BY <2>1, <2>7, <2>8, <3>1
  <2>9. CASE ~Q[k + 1].old
    BY <2>1, <2>3, <2>5, <2>7, <2>9
  <2> QED BY <2>8, <2>9
<1>6. Nat \subseteq N
  <2> HIDE DEF N
  <2> QED BY <1>4, <1>5, SetInduction
<1> QED BY <1>1, <1>2, <1>3, <1>6

-----------------------------------------------------------------------------
\* The entries with an id that are young and go to somebody.
SentNow(Q) == {i \in DOMAIN Q : ~Q[i].old /\ Targets(Q[i]) # {}}

\* The ids sent now are a sequence without repetition.
LEMMA SentOnce ==
    ASSUME NEW Q \in Seq(Entry), NEW id
    PROVE  /\ SentIds(Q) \in Seq(MessageId)
           /\ Count(SentIds(Q), Len(SentIds(Q)), id) \in {0, 1}
           /\ Count(SentIds(Q), Len(SentIds(Q)), id) = 1
                 => \E i \in SentNow(Q) : Q[i].id = id
<1> DEFINE I == SentNow(Q)
           T == {Q[i].id : i \in I}
           S == SentIds(Q)
           n == Cardinality(T)
<1>1. I \subseteq 1..Len(Q) /\ IsFiniteSet(1..Len(Q)) /\ Len(Q) \in Nat
  <2>1. I \subseteq 1..Len(Q) /\ Len(Q) \in Nat
    BY DEF SentNow
  <2> QED BY <2>1, FS_Interval
<1>2. IsFiniteSet(I)
  <2> HIDE DEF I
  <2> QED BY <1>1, FS_Subset
<1>3. IsFiniteSet(T)
  <2> DEFINE f == [i \in I |-> Q[i].id]
  <2>1. f \in Surjection(I, T)
    BY DEF Surjection
  <2> HIDE DEF f, I, T
  <2> QED BY <1>2, <2>1, FS_Surjection
<1>4. T \subseteq MessageId
  <2>1. \A i \in 1..Len(Q) : Q[i] \in Entry
    OBVIOUS
  <2> QED BY <1>1, <2>1 DEF Entry
<1>5. S = SetToSeq(T)
  BY DEF SentIds, SentNow
<1>6. S \in [1..n -> T] /\ IsInjective(S) /\ n \in Nat
  <2> HIDE DEF S, T
  <2>1. n \in Nat /\ ExistsBijection(1..n, T)
    BY <1>3, FS_CardinalityType
  <2>2. \E f \in [1..n -> T] : IsInjective(f)
    BY <2>1 DEF ExistsBijection, Bijection, Injection
  <2> QED BY <1>5, <2>1, <2>2 DEF SetToSeq
<1> HIDE DEF S, n
<1>7. S \in Seq(MessageId) /\ Len(S) = n
  <2>1. S \in [1..n -> MessageId]
    BY <1>4, <1>6
  <2> QED BY <1>6, <2>1, IsASeq, LenProperties
<1> DEFINE J == {j \in 1..n : S[j] = id}
<1>8. J = {} \/ \E j : J = {j}
  <2> SUFFICES ASSUME NEW i \in J, NEW j \in J PROVE i = j
    OBVIOUS
  <2> QED BY <1>6 DEF IsInjective
<1>9. Cardinality(J) \in {0, 1} /\ (Cardinality(J) = 1 => J # {})
  <2> HIDE DEF J
  <2> QED BY <1>8, FS_EmptySet, FS_Singleton
<1>10. J # {} => \E i \in I : Q[i].id = id
  BY <1>6
<1> QED BY <1>7, <1>9, <1>10 DEF Count, S

\* The ids that executing the queue splices.
Removals(Q) == SentIds(Q) \o ExpiredIds(Q)

\* It splices an id for each old entry, and one more if a young one was sent.
LEMMA RemovalsCounted ==
    ASSUME NEW Q \in Seq(Entry), NEW id
    PROVE  LET n == Count(Removals(Q), Len(Removals(Q)), id)
               m == Cardinality(OldUpTo(Q, Len(Q), id))
           IN  /\ Removals(Q) \in Seq(MessageId)
               /\ n = m \/ (n = m + 1 /\ \E i \in SentNow(Q) : Q[i].id = id)
               /\ n \in Nat /\ m \in Nat /\ n <= Cardinality(Entries(Q, id))
               /\ IsFiniteSet(Entries(Q, id)) /\ OldUpTo(Q, Len(Q), id) \subseteq Entries(Q, id)
<1> DEFINE A == SentIds(Q)
           B == ExpiredIds(Q)
           R == Removals(Q)
           n == Count(R, Len(R), id)
           O == OldUpTo(Q, Len(Q), id)
           E == Entries(Q, id)
           m == Cardinality(O)
<1>1. A \in Seq(MessageId) /\ B \in Seq(MessageId)
  BY SentOnce, ExpiredCounted
<1>2. R \in Seq(MessageId) /\ R = A \o B
  BY <1>1 DEF Removals
<1>3. n = Count(A, Len(A), id) + Count(B, Len(B), id)
  <2> HIDE DEF A, B, R
  <2> QED BY <1>1, <1>2, CountConcat
<1>4. Count(B, Len(B), id) = m
  BY ExpiredCounted
<1>5. /\ Count(A, Len(A), id) \in {0, 1}
      /\ Count(A, Len(A), id) = 1 => \E i \in SentNow(Q) : Q[i].id = id
  BY SentOnce
<1>6. O \subseteq E /\ E \subseteq 1..Len(Q) /\ IsFiniteSet(1..Len(Q))
  <2>1. O \subseteq E /\ E \subseteq 1..Len(Q) /\ Len(Q) \in Nat
    BY DEF OldUpTo, Entries
  <2> QED BY <2>1, FS_Interval
<1>7. IsFiniteSet(E) /\ IsFiniteSet(O) /\ m \in Nat /\ Cardinality(E) \in Nat /\ m <= Cardinality(E)
  <2> HIDE DEF O, E
  <2> QED BY <1>6, FS_Subset, FS_CardinalityType
<1>8. (\E i \in SentNow(Q) : Q[i].id = id) => m + 1 <= Cardinality(E)
  <2> SUFFICES ASSUME NEW i \in SentNow(Q), Q[i].id = id PROVE m + 1 <= Cardinality(E)
    OBVIOUS
  <2>1. i \in E /\ i \notin O
    BY DEF SentNow, Entries, OldUpTo
  <2> HIDE DEF O, E
  <2>2. IsFiniteSet(O \cup {i}) /\ Cardinality(O \cup {i}) = m + 1
    BY <1>7, <2>1, FS_AddElement
  <2>3. O \cup {i} \in SUBSET E
    BY <1>6, <2>1
  <2> QED BY <1>7, <2>2, <2>3, FS_Subset
<1> HIDE DEF A, B, R, O, E, m, n
<1>9. /\ n = m \/ (n = m + 1 /\ \E i \in SentNow(Q) : Q[i].id = id)
      /\ n \in Nat /\ m \in Nat /\ n <= Cardinality(E)
  BY <1>3, <1>4, <1>5, <1>7, <1>8
<1> QED BY <1>2, <1>6, <1>7, <1>9 DEF n, m, O, E, R

-----------------------------------------------------------------------------
\* After k splices as many entries of an id are gone as were spliced, the first.
AfterSplices(q, h, Q, R, k) ==
    /\ LeftOf(q, h, Q)
    /\ \A id \in MessageId :
          /\ Cardinality(Gone(q, h, Q, id)) = Count(R, k, id)
          /\ \A i, j \in Entries(Q, id) : i < j /\ j \in Gone(q, h, Q, id) => i \in Gone(q, h, Q, id)

\* The indices of entries are finitely many.
LEMMA EntriesFinite ==
    ASSUME NEW Q \in Seq(Entry), NEW id
    PROVE  /\ Entries(Q, id) \subseteq 1..Len(Q) /\ IsFiniteSet(Entries(Q, id))
           /\ Cardinality(Entries(Q, id)) \in Nat
<1>1. Entries(Q, id) \subseteq 1..Len(Q) /\ IsFiniteSet(1..Len(Q))
  <2>1. Entries(Q, id) \subseteq 1..Len(Q) /\ Len(Q) \in Nat
    BY DEF Entries
  <2> QED BY <2>1, FS_Interval
<1> QED BY <1>1, FS_Subset, FS_CardinalityType

\* One splice more.
LEMMA OneMoreSplice ==
    ASSUME NEW Q \in Seq(Entry), NEW R \in Seq(MessageId),
           NEW q \in Seq(Entry), NEW h, NEW k \in Nat, k + 1 <= Len(R),
           AfterSplices(q, h, Q, R, k),
           Count(R, k + 1, R[k + 1]) <= Cardinality(Entries(Q, R[k + 1]))
    PROVE  \E g : AfterSplices(Splice(q, R[k + 1]), g, Q, R, k + 1)
<1> DEFINE x == R[k + 1]
           p == Splice(q, x)
<1>1. x \in MessageId
  OBVIOUS
<1>2. \A id : Counts(R, id)
  BY CountNext
<1>3. \A id : Count(R, k + 1, id) = Count(R, k, id) + (IF x = id THEN 1 ELSE 0)
              /\ Count(R, k, id) \in Nat
  BY <1>2 DEF Counts
<1>4. /\ LeftOf(q, h, Q)
      /\ \A id \in MessageId : Cardinality(Gone(q, h, Q, id)) = Count(R, k, id)
      /\ \A id \in MessageId : \A i, j \in Entries(Q, id) :
            i < j /\ j \in Gone(q, h, Q, id) => i \in Gone(q, h, Q, id)
  BY DEF AfterSplices
<1> HIDE DEF x
<1>5. Gone(q, h, Q, x) # Entries(Q, x)
  <2>1. Count(R, k, x) < Cardinality(Entries(Q, x))
    <3>1. Count(R, k + 1, x) = Count(R, k, x) + 1 /\ Count(R, k, x) \in Nat
      BY <1>3
    <3>2. Count(R, k + 1, x) <= Cardinality(Entries(Q, x)) /\ Cardinality(Entries(Q, x)) \in Nat
      BY EntriesFinite DEF x
    <3> QED BY <3>1, <3>2
  <2> QED BY <1>1, <1>3, <1>4, <2>1
<1>6. PICK i \in 1..Len(q) : h[i] \in Entries(Q, x)
  BY <1>5 DEF Gone
<1>7. q[i].id = x
  BY <1>4, <1>6 DEF LeftOf, Entries
<1>8. \E g, n : OneGone(q, h, Q, x, Splice(q, x), g, n)
  BY <1>4, <1>7, SpliceGone
<1>9. PICK g, n :
         /\ p \in Seq(Entry) /\ LeftOf(p, g, Q)
         /\ n \in Entries(Q, x) \ Gone(q, h, Q, x)
         /\ \A j \in Entries(Q, x) : j < n => j \in Gone(q, h, Q, x)
         /\ Gone(p, g, Q, x) = Gone(q, h, Q, x) \cup {n}
         /\ \A y : y # x => Gone(p, g, Q, y) = Gone(q, h, Q, y)
  BY <1>8 DEF OneGone
<1> HIDE DEF p
<1>10. ASSUME NEW id \in MessageId
       PROVE  Cardinality(Gone(p, g, Q, id)) = Count(R, k + 1, id)
  <2>1. CASE id # x
    BY <1>3, <1>4, <1>9, <2>1
  <2>2. CASE id = x
    <3> DEFINE E == Gone(q, h, Q, x)
    <3>1. IsFiniteSet(E)
      <4>1. E \subseteq Entries(Q, x)
        BY DEF Gone
      <4> HIDE DEF E
      <4> QED BY <4>1, EntriesFinite, FS_Subset
    <3>2. n \notin E /\ Gone(p, g, Q, x) = E \cup {n} /\ Cardinality(E) = Count(R, k, x)
      BY <1>1, <1>4, <1>9
    <3> HIDE DEF E
    <3>3. Cardinality(E \cup {n}) = Cardinality(E) + 1
      BY <3>1, <3>2, FS_AddElement
    <3> QED BY <1>3, <2>2, <3>2, <3>3
  <2> QED BY <2>1, <2>2
<1>11. ASSUME NEW id \in MessageId, NEW a \in Entries(Q, id), NEW b \in Entries(Q, id),
              a < b, b \in Gone(p, g, Q, id)
       PROVE  a \in Gone(p, g, Q, id)
  <2>1. CASE id # x
    BY <1>4, <1>9, <1>11, <2>1
  <2>2. CASE id = x
    BY <1>1, <1>4, <1>9, <1>11, <2>2
  <2> QED BY <2>1, <2>2
<1>12. AfterSplices(p, g, Q, R, k + 1)
  BY <1>9, <1>10, <1>11 DEF AfterSplices
<1> QED BY <1>12 DEF p, x

\* When no id is looked up in vain, the first entries of each id are gone.
LEMMA SplicedAll ==
    ASSUME NEW Q \in Seq(Entry), NEW R \in Seq(MessageId), NEW g, Splices(g, Q, R),
           \A id \in MessageId : Count(R, Len(R), id) <= Cardinality(Entries(Q, id))
    PROVE  \E h : AfterSplices(g[Len(R)], h, Q, R, Len(R))
<1> DEFINE N == {k \in Nat : k <= Len(R) => \E h : AfterSplices(g[k], h, Q, R, k)}
<1>1. /\ Len(R) \in Nat /\ Len(Q) \in Nat
      /\ \A k \in 0..Len(R) : g[k] \in Seq(Entry)
      /\ g[0] = Q
      /\ \A k \in 1..Len(R) : g[k] = Splice(g[k - 1], R[k])
  BY DEF Splices
<1>2. 0 \in N
  <2> DEFINE h == [i \in 1..Len(Q) |-> i]
  <2>1. LeftOf(Q, h, Q)
    BY DEF LeftOf
  <2>2. \A id : Gone(Q, h, Q, id) = {}
    BY DEF Gone, Entries
  <2>3. \A id : Count(R, 0, id) = 0
    BY CountNext DEF Counts
  <2> HIDE DEF h
  <2>4. AfterSplices(Q, h, Q, R, 0)
    BY <2>1, <2>2, <2>3, FS_EmptySet DEF AfterSplices
  <2> QED BY <1>1, <2>4
<1>3. ASSUME NEW k \in Nat, k \in N PROVE k + 1 \in N
  <2> SUFFICES ASSUME k + 1 <= Len(R) PROVE \E h : AfterSplices(g[k + 1], h, Q, R, k + 1)
    OBVIOUS
  <2>1. PICK h : AfterSplices(g[k], h, Q, R, k)
    BY <1>1, <1>3
  <2>2. /\ k \in 0..Len(R) /\ k + 1 \in 1..Len(R) /\ (k + 1) - 1 = k
        /\ R[k + 1] \in MessageId
    BY <1>1
  <2>3. g[k] \in Seq(Entry) /\ g[k + 1] = Splice(g[k], R[k + 1])
    BY <1>1, <2>2
  <2>4. Count(R, k + 1, R[k + 1]) <= Cardinality(Entries(Q, R[k + 1]))
    <3> DEFINE x == R[k + 1]
    <3>1. x \in MessageId
      BY <2>2
    <3> HIDE DEF x
    <3>2. Count(R, k + 1, x) <= Count(R, Len(R), x)
      BY <1>1, CountGrows
    <3>3. Counts(R, x) /\ Cardinality(Entries(Q, x)) \in Nat
      BY CountNext, EntriesFinite
    <3>4. Count(R, k + 1, x) \in Nat /\ Count(R, Len(R), x) \in Nat
      BY <1>1, <3>3 DEF Counts
    <3>5. Count(R, Len(R), x) <= Cardinality(Entries(Q, x))
      BY <3>1
    <3>6. Count(R, k + 1, x) <= Cardinality(Entries(Q, x))
      BY <3>2, <3>3, <3>4, <3>5
    <3> QED BY <3>6 DEF x
  <2>5. \E f : AfterSplices(Splice(g[k], R[k + 1]), f, Q, R, k + 1)
    BY <2>1, <2>3, <2>4, OneMoreSplice
  <2> QED BY <2>3, <2>5
<1>4. Nat \subseteq N
  <2> HIDE DEF N
  <2> QED BY <1>2, <1>3, SetInduction
<1> QED BY <1>1, <1>4

-----------------------------------------------------------------------------
\* Old entries come before young ones.
OldFirst(Q) == \A i, j \in DOMAIN Q : i < j /\ Q[j].old => Q[i].old

(***************************************************************************)
(* Executing a queue whose old entries come first leaves no old one, and   *)
(* takes as many of each id as ids are spliced (tryExecuteMessageQueue).   *)
(***************************************************************************)
LEMMA ExecutedExact ==
    ASSUME NEW Q \in Seq(Entry), OldFirst(Q)
    PROVE  /\ Executed(Q) \in Seq(Entry)
           /\ \A i \in DOMAIN Executed(Q) : ~Executed(Q)[i].old
           /\ \A id \in MessageId :
                 Cardinality(Entries(Executed(Q), id))
                    = Cardinality(Entries(Q, id)) - Count(Removals(Q), Len(Removals(Q)), id)
<1> DEFINE R == Removals(Q)
           n == Len(R)
<1>1. R \in Seq(MessageId) /\ n \in Nat
  <2>1. R \in Seq(MessageId)
    BY RemovalsCounted
  <2> QED BY <2>1
<1>2. \A id \in MessageId : Count(R, n, id) <= Cardinality(Entries(Q, id)) /\ Count(R, n, id) \in Nat
                            /\ Cardinality(OldUpTo(Q, Len(Q), id)) <= Count(R, n, id)
                            /\ Cardinality(OldUpTo(Q, Len(Q), id)) \in Nat
                            /\ OldUpTo(Q, Len(Q), id) \subseteq Entries(Q, id)
  <2> SUFFICES ASSUME NEW id \in MessageId
               PROVE  /\ Count(R, n, id) <= Cardinality(Entries(Q, id)) /\ Count(R, n, id) \in Nat
                      /\ Cardinality(OldUpTo(Q, Len(Q), id)) <= Count(R, n, id)
                      /\ Cardinality(OldUpTo(Q, Len(Q), id)) \in Nat
                      /\ OldUpTo(Q, Len(Q), id) \subseteq Entries(Q, id)
    OBVIOUS
  <2>1. LET c == Count(R, n, id)
            m == Cardinality(OldUpTo(Q, Len(Q), id))
        IN  /\ R \in Seq(MessageId)
            /\ c = m \/ (c = m + 1 /\ \E i \in SentNow(Q) : Q[i].id = id)
            /\ c \in Nat /\ m \in Nat /\ c <= Cardinality(Entries(Q, id))
            /\ IsFiniteSet(Entries(Q, id)) /\ OldUpTo(Q, Len(Q), id) \subseteq Entries(Q, id)
    BY RemovalsCounted
  <2> HIDE DEF R, n
  <2> QED BY <2>1
<1>3. Executed(Q) = FoldLeft(Splice, Q, R)
  BY DEF Executed, Removals
<1> HIDE DEF R
<1>4. PICK g : Splices(g, Q, R) /\ g[Len(R)] = FoldLeft(Splice, Q, R)
  BY <1>1, SplicesFold
<1> DEFINE q == Executed(Q)
<1>5. q = g[n] /\ q \in Seq(Entry)
  <2>1. g[n] \in Seq(Entry)
    BY <1>1, <1>4 DEF Splices
  <2> QED BY <1>3, <1>4, <2>1
<1>6. PICK h : AfterSplices(q, h, Q, R, n)
  <2>1. \A id \in MessageId : Count(R, Len(R), id) <= Cardinality(Entries(Q, id))
    BY <1>2
  <2>2. \E h : AfterSplices(g[Len(R)], h, Q, R, Len(R))
    BY <1>1, <1>4, <2>1, SplicedAll
  <2> HIDE DEF q
  <2> QED BY <1>5, <2>2
<1> HIDE DEF q, n
<1>7. /\ h \in [1..Len(q) -> 1..Len(Q)]
      /\ \A i, j \in 1..Len(q) : i < j => h[i] < h[j]
      /\ \A i \in 1..Len(q) : q[i] = Q[h[i]]
      /\ \A id \in MessageId : Cardinality(Gone(q, h, Q, id)) = Count(R, n, id)
      /\ \A id \in MessageId : \A i, j \in Entries(Q, id) :
            i < j /\ j \in Gone(q, h, Q, id) => i \in Gone(q, h, Q, id)
  BY <1>6 DEF AfterSplices, LeftOf
<1>8. /\ Len(q) \in Nat /\ DOMAIN q = 1..Len(q)
      /\ Len(Q) \in Nat /\ DOMAIN Q = 1..Len(Q)
      /\ \A i \in 1..Len(Q) : Q[i] \in Entry
  BY <1>5
<1>9. ASSUME NEW id \in MessageId
      PROVE  /\ IsFiniteSet(Entries(Q, id)) /\ Gone(q, h, Q, id) \subseteq Entries(Q, id)
             /\ IsFiniteSet(Gone(q, h, Q, id))
  <2>1. Gone(q, h, Q, id) \subseteq Entries(Q, id)
    BY DEF Gone
  <2> QED BY <2>1, EntriesFinite, FS_Subset
<1>10. ASSUME NEW i \in DOMAIN q, q[i].old PROVE FALSE
  <2> DEFINE m == h[i]
             id == Q[m].id
             O == OldUpTo(Q, Len(Q), id)
             G == Gone(q, h, Q, id)
  <2>1. m \in 1..Len(Q) /\ Q[m].old /\ id \in MessageId
    BY <1>7, <1>8, <1>10 DEF Entry
  <2>2. m \in O /\ m \in Entries(Q, id) /\ m \notin G
    BY <1>8, <1>10, <2>1 DEF OldUpTo, Entries, Gone
  <2>3. G \subseteq O \ {m}
    <3> SUFFICES ASSUME NEW j \in G PROVE j \in O \ {m}
      OBVIOUS
    <3>1. j \in Entries(Q, id)
      BY DEF Gone
    <3>2. j \in 1..Len(Q) /\ Q[j].id = id
      BY <1>8, <3>1 DEF Entries
    <3>3. j # m
      BY <2>2
    <3>4. ~(m < j)
      BY <1>7, <2>1, <2>2, <3>1
    <3>5. Q[j].old
      <4>1. j < m
        BY <2>1, <3>2, <3>3, <3>4
      <4> QED BY <1>8, <2>1, <3>2, <4>1 DEF OldFirst
    <3> QED BY <3>2, <3>3, <3>5 DEF OldUpTo
  <2> HIDE DEF m, id
  <2>4. Cardinality(O) <= Cardinality(G) /\ Cardinality(O) \in Nat /\ O \subseteq Entries(Q, id)
    BY <1>2, <1>7, <2>1
  <2> HIDE DEF O, G
  <2>5. IsFiniteSet(O)
    BY <1>9, <2>1, <2>4, FS_Subset
  <2>6. Cardinality(O \ {m}) = Cardinality(O) - 1 /\ IsFiniteSet(O \ {m})
    BY <2>2, <2>5, FS_RemoveElement
  <2>7. Cardinality(G) <= Cardinality(O \ {m}) /\ IsFiniteSet(G)
    BY <2>3, <2>6, FS_Subset
  <2>8. Cardinality(G) \in Nat
    BY <2>7, FS_CardinalityType
  <2> QED BY <2>4, <2>6, <2>7, <2>8
<1>11. ASSUME NEW id \in MessageId
       PROVE  Cardinality(Entries(q, id)) = Cardinality(Entries(Q, id)) - Count(R, n, id)
  <2> DEFINE E == Entries(Q, id)
             G == Gone(q, h, Q, id)
             F == Entries(q, id)
             f == [i \in F |-> h[i]]
  <2>1. f \in Bijection(F, E \ G)
    <3>1. \A i \in F : i \in 1..Len(q) /\ q[i].id = id
      BY <1>8 DEF Entries
    <3>2. f \in [F -> E \ G]
      <4> SUFFICES ASSUME NEW i \in F PROVE h[i] \in E /\ h[i] \notin G
        OBVIOUS
      <4>1. h[i] \in 1..Len(Q) /\ Q[h[i]].id = id
        BY <1>7, <3>1
      <4> QED BY <1>8, <3>1, <4>1 DEF Entries, Gone
    <3>3. \A i, j \in F : f[i] = f[j] => i = j
      <4> SUFFICES ASSUME NEW i \in F, NEW j \in F, h[i] = h[j], i # j PROVE FALSE
        OBVIOUS
      <4>1. i \in 1..Len(q) /\ j \in 1..Len(q) /\ (i < j \/ j < i)
        BY <1>8, <3>1
      <4>2. h[i] \in Nat /\ h[j] \in Nat
        BY <1>7, <4>1
      <4> QED BY <1>7, <4>1, <4>2
    <3>4. \A e \in E \ G : \E i \in F : f[i] = e
      <4> SUFFICES ASSUME NEW e \in E \ G PROVE \E i \in F : h[i] = e
        OBVIOUS
      <4>1. PICK i \in 1..Len(q) : h[i] = e
        BY DEF Gone
      <4>2. q[i].id = id
        BY <1>7, <4>1 DEF Entries
      <4> QED BY <1>8, <4>1, <4>2 DEF Entries
    <3> HIDE DEF f, F, E, G
    <3> QED BY <3>2, <3>3, <3>4 DEF Bijection, Injection, Surjection, IsInjective
  <2>2. IsFiniteSet(E) /\ G \subseteq E /\ IsFiniteSet(F) /\ IsFiniteSet(G)
    BY <1>5, <1>9, EntriesFinite
  <2>3. Cardinality(G) = Count(R, n, id)
    BY <1>7
  <2> HIDE DEF E, F, G, f
  <2>4. Cardinality(E \ G) = Cardinality(F)
    BY <2>1, <2>2, FS_Bijection DEF ExistsBijection
  <2>5. Cardinality(E \ G) = Cardinality(E) - Cardinality(E \cap G)
    BY <2>2, FS_Difference
  <2>6. E \cap G = G
    BY <2>2
  <2> QED BY <2>3, <2>4, <2>5, <2>6 DEF E, F
<1> QED BY <1>5, <1>10, <1>11 DEF q, n, R

-----------------------------------------------------------------------------
\* The queue is one of entries, the old ones first.
QueueInv == messageQueue \in Seq(Entry) /\ OldFirst(messageQueue)

\* An entry that is pushed is young, and the last.
Pushed(id, to, chosen) ==
    Append(messageQueue, [id |-> id, to |-> to, chosen |-> chosen, old |-> FALSE])

\* The queue with one entry more.
LEMMA PushedQueue ==
    ASSUME QueueInv, NEW id \in MessageId, NEW to \in SUBSET Client, NEW chosen \in BOOLEAN
    PROVE  /\ Pushed(id, to, chosen) \in Seq(Entry) /\ OldFirst(Pushed(id, to, chosen))
           /\ Len(messageQueue) \in Nat
           /\ Len(Pushed(id, to, chosen)) = Len(messageQueue) + 1
           /\ \A i \in 1..Len(messageQueue) : Pushed(id, to, chosen)[i] = messageQueue[i]
           /\ Pushed(id, to, chosen)[Len(messageQueue) + 1].id = id
           /\ ~Pushed(id, to, chosen)[Len(messageQueue) + 1].old
<1> DEFINE e == [id |-> id, to |-> to, chosen |-> chosen, old |-> FALSE]
           Q == Append(messageQueue, e)
<1>1. e \in Entry /\ e.id = id /\ ~e.old
  BY DEF Entry
<1>2. messageQueue \in Seq(Entry) /\ Len(messageQueue) \in Nat
      /\ \A i, j \in 1..Len(messageQueue) :
            i < j /\ messageQueue[j].old => messageQueue[i].old
  BY DEF QueueInv, OldFirst
<1> HIDE DEF e
<1>3. /\ Q \in Seq(Entry) /\ Len(Q) = Len(messageQueue) + 1 /\ DOMAIN Q = 1..Len(Q)
      /\ \A i \in 1..Len(messageQueue) : Q[i] = messageQueue[i]
      /\ Q[Len(messageQueue) + 1] = e
  BY <1>1, <1>2
<1> HIDE DEF Q
<1>4. OldFirst(Q)
  BY <1>1, <1>2, <1>3 DEF OldFirst
<1>5. Pushed(id, to, chosen) = Q
  BY DEF Pushed, Q, e
<1> QED BY <1>1, <1>2, <1>3, <1>4, <1>5

\* A queue without old entries has its old ones first.
LEMMA YoungQueue ==
    ASSUME NEW Q \in Seq(Entry), OldFirst(Q)
    PROVE  Executed(Q) \in Seq(Entry) /\ OldFirst(Executed(Q))
<1>1. Executed(Q) \in Seq(Entry) /\ \A i \in DOMAIN Executed(Q) : ~Executed(Q)[i].old
  BY ExecutedExact
<1> QED BY <1>1 DEF OldFirst

\* What the steps of the queue make of it, and that others leave it alone.
QueueStep ==
    \/ UNCHANGED queueVars
    \/ HybridAge /\ pushes' = pushes
    \/ HybridPoll /\ pushes' = pushes
    \/ \E id \in MessageId, to \in SUBSET Client, chosen \in BOOLEAN :
          messageQueue' = Executed(Pushed(id, to, chosen))

\* Every step is one of these.
LEMMA QueueSteps == ASSUME [HybridNext]_HybridVars PROVE QueueStep
<1>1. CASE UNCHANGED HybridVars
  BY <1>1 DEF HybridVars, QueueStep, queueVars
<1>2. ASSUME NEW id \in MessageId, NEW to \in SUBSET Client, NEW chosen \in BOOLEAN,
             Push(id, to, chosen)
      PROVE  QueueStep
  BY <1>2 DEF Push, Pushed, QueueStep
<1>3. ASSUME NEW id \in MessageId, NEW to \in SUBSET Client,
             \/ HybridSendToAll(id, to)
             \/ HybridSendToClientId(id, to)
             \/ HybridSendToAllServers(id, to)
      PROVE  QueueStep
  <2>1. \E chosen \in BOOLEAN : Push(id, to, chosen)
    BY <1>3 DEF HybridSendToAll, HybridSendToClientId, HybridSendToAllServers
  <2> QED BY <1>2, <2>1
<1>4. CASE HybridPoll \/ HybridAge
  BY <1>4 DEF HybridPoll, HybridAge, QueueStep
<1>5. ASSUME NEW name, FindServer(name) PROVE QueueStep
  BY <1>5 DEF FindServer, QueueStep
<1>6. ASSUME NEW t, HybridAnnounceAll(t) \/ TrackerLost(t) PROVE QueueStep
  BY <1>6 DEF HybridAnnounceAll, TrackerLost, QueueStep
<1>7. ASSUME NEW t, NEW name, TrackerAnswers(t, name) PROVE QueueStep
  BY <1>7 DEF TrackerAnswers, QueueStep
<1>8. ASSUME NEW t, NEW o, ReceiveOffer(t, o) PROVE QueueStep
  BY <1>8 DEF ReceiveOffer, QueueStep
<1>9. ASSUME NEW s, HybridRetry(s) PROVE QueueStep
  BY <1>9 DEF HybridRetry, QueueStep
<1>10. ASSUME NEW k, HybridOpen(k) \/ HybridError(k) \/ HybridClose(k) PROVE QueueStep
  BY <1>10 DEF HybridOpen, HybridError, HybridClose, QueueStep
<1>11. ASSUME NEW v, ClientGreets(v) \/ ClientLeaves(v) PROVE QueueStep
  BY <1>11 DEF ClientGreets, ClientLeaves, QueueStep
<1> QED BY <1>1, <1>3, <1>4, <1>5, <1>6, <1>7, <1>8, <1>9, <1>10, <1>11 DEF HybridNext

\* A minute passes: one entry grows old, and it is the first that is young.
LEMMA AgedQueue ==
    ASSUME QueueInv, HybridAge
    PROVE  /\ QueueInv'
           /\ \A id : Entries(messageQueue', id) = Entries(messageQueue, id)
<1>1. PICK i \in DOMAIN messageQueue :
         /\ \A j \in 1..(i - 1) : messageQueue[j].old
         /\ messageQueue' = [messageQueue EXCEPT ![i].old = TRUE]
  BY DEF HybridAge
<1>2. messageQueue \in Seq(Entry) /\ i \in 1..Len(messageQueue) /\ Len(messageQueue) \in Nat
      /\ DOMAIN messageQueue = 1..Len(messageQueue)
      /\ \A k, j \in 1..Len(messageQueue) :
            k < j /\ messageQueue[j].old => messageQueue[k].old
  BY DEF QueueInv, OldFirst
<1> DEFINE e == [messageQueue[i] EXCEPT !.old = TRUE]
<1>3. messageQueue[i] \in Entry
  BY <1>2
<1>4. e \in Entry /\ e.id = messageQueue[i].id /\ e.old = TRUE
  BY <1>3 DEF Entry
<1>5. messageQueue' = [messageQueue EXCEPT ![i] = e]
  BY <1>1
<1> HIDE DEF e
<1>6. /\ messageQueue' \in Seq(Entry)
      /\ DOMAIN messageQueue' = 1..Len(messageQueue)
      /\ \A j \in 1..Len(messageQueue) :
            messageQueue'[j] = IF j = i THEN e ELSE messageQueue[j]
  <2>1. messageQueue' \in Seq(Entry)
    BY <1>2, <1>4, <1>5, ExceptSeq
  <2> QED BY <1>2, <1>5, <2>1
<1>7. OldFirst(messageQueue')
  <2> SUFFICES ASSUME NEW k \in 1..Len(messageQueue), NEW j \in 1..Len(messageQueue),
                      k < j, messageQueue'[j].old
               PROVE  messageQueue'[k].old
    BY <1>6 DEF OldFirst
  <2>1. CASE j = i
    <3>1. k \in 1..(i - 1) /\ k # i
      BY <1>2, <2>1
    <3> QED BY <1>1, <1>6, <3>1
  <2>2. CASE j # i
    <3>1. messageQueue[j].old
      BY <1>6, <2>2
    <3>2. messageQueue[k].old
      BY <1>2, <3>1
    <3> QED BY <1>4, <1>6, <3>2
  <2> QED BY <2>1, <2>2
<1>8. \A id : Entries(messageQueue', id) = Entries(messageQueue, id)
  BY <1>2, <1>4, <1>6 DEF Entries
<1> QED BY <1>6, <1>7, <1>8 DEF QueueInv

\* Every step keeps the queue in order.
LEMMA QueueInvStep == ASSUME QueueInv, [HybridNext]_HybridVars PROVE QueueInv'
<1>1. QueueStep
  BY QueueSteps
<1>2. CASE UNCHANGED queueVars
  BY <1>2 DEF queueVars, QueueInv
<1>3. CASE HybridAge
  BY <1>3, AgedQueue
<1>4. CASE HybridPoll
  <2>1. messageQueue' = Executed(messageQueue)
    BY <1>4 DEF HybridPoll
  <2> QED BY <2>1, YoungQueue DEF QueueInv
<1>5. ASSUME NEW id \in MessageId, NEW to \in SUBSET Client, NEW chosen \in BOOLEAN,
             messageQueue' = Executed(Pushed(id, to, chosen))
      PROVE  QueueInv'
  BY <1>5, PushedQueue, YoungQueue DEF QueueInv
<1> QED BY <1>1, <1>2, <1>3, <1>4, <1>5 DEF QueueStep

-----------------------------------------------------------------------------
\* All entries with the id wait: they are young and go to nobody.
Waits(id) ==
    \A i \in Entries(messageQueue, id) : ~messageQueue[i].old /\ Targets(messageQueue[i]) = {}

\* Executing the queue leaves the entries that wait.
LEMMA WaitingStay ==
    ASSUME NEW Q \in Seq(Entry), OldFirst(Q), NEW id \in MessageId,
           \A i \in Entries(Q, id) : ~Q[i].old
    PROVE  /\ Cardinality(Entries(Executed(Q), id)) \in Nat
           /\ \/ Cardinality(Entries(Executed(Q), id)) = Cardinality(Entries(Q, id))
              \/ /\ Cardinality(Entries(Executed(Q), id)) = Cardinality(Entries(Q, id)) - 1
                 /\ \E i \in Entries(Q, id) : Targets(Q[i]) # {}
<1> DEFINE c == Count(Removals(Q), Len(Removals(Q)), id)
           m == Cardinality(OldUpTo(Q, Len(Q), id))
<1>1. /\ c = m \/ (c = m + 1 /\ \E i \in SentNow(Q) : Q[i].id = id)
      /\ c \in Nat
  BY RemovalsCounted
<1>2. m = 0
  <2>1. OldUpTo(Q, Len(Q), id) = {}
    BY DEF OldUpTo, Entries
  <2> QED BY <2>1, FS_EmptySet
<1>3. (\E i \in SentNow(Q) : Q[i].id = id) => \E i \in Entries(Q, id) : Targets(Q[i]) # {}
  BY DEF SentNow, Entries
<1>4. Cardinality(Entries(Executed(Q), id)) = Cardinality(Entries(Q, id)) - c
  BY ExecutedExact
<1>5. Executed(Q) \in Seq(Entry)
  BY ExecutedExact
<1>6. Cardinality(Entries(Executed(Q), id)) \in Nat /\ Cardinality(Entries(Q, id)) \in Nat
  BY <1>5, EntriesFinite
<1> DEFINE new == Cardinality(Entries(Executed(Q), id))
           all == Cardinality(Entries(Q, id))
           go == \E i \in Entries(Q, id) : Targets(Q[i]) # {}
<1>7. /\ m = 0 /\ c \in Nat /\ (c = m \/ (c = m + 1 /\ go))
      /\ new = all - c /\ new \in Nat /\ all \in Nat
  BY <1>1, <1>2, <1>3, <1>4, <1>6
<1> HIDE DEF c, m, new, all, go
<1>8. new \in Nat /\ (new = all \/ (new = all - 1 /\ go))
  BY <1>7
<1> QED BY <1>8 DEF new, all, go

\* What waits is not removed by any step.
LEMMA NothingLost ==
    ASSUME QueueInv, QueueStep, NEW id \in MessageId, Waits(id)
    PROVE  Cardinality(Entries(messageQueue', id)) >= Cardinality(Entries(messageQueue, id))
<1> DEFINE old == Cardinality(Entries(messageQueue, id))
           new == Cardinality(Entries(messageQueue', id))
<1>0. messageQueue \in Seq(Entry) /\ OldFirst(messageQueue) /\ old \in Nat
      /\ IsFiniteSet(Entries(messageQueue, id))
  BY EntriesFinite DEF QueueInv
<1>1. CASE UNCHANGED queueVars
  <2>1. new = old
    BY <1>1 DEF queueVars
  <2> HIDE DEF new, old
  <2>2. new >= old
    BY <1>0, <2>1
  <2> QED BY <2>2 DEF new, old
<1>2. CASE HybridAge
  <2>1. new = old
    BY <1>2, AgedQueue
  <2> HIDE DEF new, old
  <2>2. new >= old
    BY <1>0, <2>1
  <2> QED BY <2>2 DEF new, old
<1>3. CASE HybridPoll
  <2>1. messageQueue' = Executed(messageQueue)
    BY <1>3 DEF HybridPoll
  <2>2. \A i \in Entries(messageQueue, id) : ~messageQueue[i].old
    BY DEF Waits
  <2>3. ~ \E i \in Entries(messageQueue, id) : Targets(messageQueue[i]) # {}
    BY DEF Waits
  <2>4. Cardinality(Entries(Executed(messageQueue), id)) = old
    BY <1>0, <2>2, <2>3, WaitingStay
  <2>5. new = old
    BY <2>1, <2>4
  <2> HIDE DEF new, old
  <2>6. new >= old
    BY <1>0, <2>5
  <2> QED BY <2>6 DEF new, old
<1>4. ASSUME NEW m \in MessageId, NEW to \in SUBSET Client, NEW chosen \in BOOLEAN,
             messageQueue' = Executed(Pushed(m, to, chosen))
      PROVE  new >= old
  <2> DEFINE Q == Pushed(m, to, chosen)
             n == Len(messageQueue)
             E == Entries(messageQueue, id)
             F == Entries(Q, id)
  <2>1. /\ Q \in Seq(Entry) /\ OldFirst(Q) /\ n \in Nat /\ Len(Q) = n + 1
        /\ \A i \in 1..n : Q[i] = messageQueue[i]
        /\ Q[n + 1].id = m /\ ~Q[n + 1].old
    BY PushedQueue
  <2>2. DOMAIN messageQueue = 1..n /\ messageQueue' = Executed(Q)
    BY <1>0, <1>4
  <2> HIDE DEF Q, n
  <2>3. DOMAIN Q = 1..(n + 1) /\ 1..(n + 1) = 1..n \cup {n + 1} /\ n + 1 \notin 1..n
    BY <2>1
  <2>4. F = IF m = id THEN E \cup {n + 1} ELSE E
    BY <2>1, <2>2, <2>3 DEF Entries
  <2>5. n + 1 \notin E /\ E \subseteq 1..n
    BY <2>2, <2>3 DEF Entries
  <2>6. \A i \in E : ~Q[i].old /\ Targets(Q[i]) = {}
    BY <2>1, <2>5 DEF Waits
  <2>7. \A i \in F : ~Q[i].old
    BY <2>1, <2>4, <2>6
  <2>8. /\ new \in Nat
        /\ \/ new = Cardinality(F)
           \/ /\ new = Cardinality(F) - 1
              /\ \E i \in F : Targets(Q[i]) # {}
    BY <2>1, <2>2, <2>7, WaitingStay
  <2>9. Cardinality(F) = old + (IF m = id THEN 1 ELSE 0)
    <3> HIDE DEF E, F
    <3>1. Cardinality(E \cup {n + 1}) = Cardinality(E) + 1
      BY <1>0, <2>5, FS_AddElement DEF E
    <3> QED BY <1>0, <2>4, <3>1 DEF E
  <2>10. m # id => ~ \E i \in F : Targets(Q[i]) # {}
    BY <2>4, <2>6
  <2> HIDE DEF E, F, new, old
  <2> QED BY <1>0, <2>8, <2>9, <2>10
<1> QED BY <1>1, <1>2, <1>3, <1>4 DEF QueueStep

\* No entry is old when the queue was executed.
LEMMA NothingOld ==
    ASSUME QueueInv, QueueStep, HybridPoll \/ pushes' # pushes
    PROVE  \A i \in DOMAIN messageQueue' : ~messageQueue'[i].old
<1>1. CASE HybridPoll
  <2>1. messageQueue' = Executed(messageQueue)
    BY <1>1 DEF HybridPoll
  <2> QED BY <2>1, ExecutedExact DEF QueueInv
<1>2. CASE pushes' # pushes
  <2>1. PICK id \in MessageId, to \in SUBSET Client, chosen \in BOOLEAN :
           messageQueue' = Executed(Pushed(id, to, chosen))
    BY <1>2 DEF QueueStep, queueVars
  <2>2. Pushed(id, to, chosen) \in Seq(Entry) /\ OldFirst(Pushed(id, to, chosen))
    BY PushedQueue
  <2> QED BY <2>1, <2>2, ExecutedExact
<1> QED BY <1>1, <1>2

\* The queue is empty.
LEMMA QueueInit == HybridInit => QueueInv
BY DEF HybridInit, QueueInv, OldFirst

(***************************************************************************)
(* A message that waits for somebody to be connected stays in the queue    *)
(* whatever else is sent or grows old, and no entry survives its minute,   *)
(* for any messages, clients, servers and length of the queue.             *)
(***************************************************************************)
THEOREM QueueStaysExact == HybridSpec => QueueExact
<1>1. QueueInv /\ [HybridNext]_HybridVars => QueueInv'
  BY QueueInvStep
<1>2. QueueInv /\ [HybridNext]_HybridVars =>
        [/\ \A id \in MessageId :
             (\A i \in Entries(messageQueue, id) :
                 ~messageQueue[i].old /\ Targets(messageQueue[i]) = {})
               => Cardinality(Entries(messageQueue', id)) >= Cardinality(Entries(messageQueue, id))
         /\ HybridPoll \/ pushes' # pushes =>
             \A i \in DOMAIN messageQueue' : ~messageQueue'[i].old]_HybridVars
  BY QueueSteps, NothingLost, NothingOld DEF Waits
<1> QED BY QueueInit, <1>1, <1>2, PTL DEF HybridSpec, QueueExact

-----------------------------------------------------------------------------
\* The rest of the state: routes, names, offers and trackers.
RoutesOK ==
    /\ pushes \in 0..MaxPushes
    /\ route \in [Recipient -> Dialled \cup Visitor \cup {Unset}]
    /\ connectedServers \subseteq ServerName
    /\ offersHandled \subseteq ServerOffer
    /\ serversFinding \subseteq ServerName
    /\ trackerSocket \in [Tracker -> {"null", "open", "lost"}]
    /\ search \in [Tracker \X ServerName -> {"idle", "waiting", "asked", "failed"}]

\* What a message adds to it.
LEMMA PushRoutes ==
    ASSUME RoutesOK, NEW id, NEW to, NEW chosen, Push(id, to, chosen)
    PROVE  RoutesOK'
<1>1. pushes + 1 \in 0..MaxPushes
  BY HybridAssumption DEF RoutesOK, Push
<1> QED BY <1>1 DEF RoutesOK, Push, knownVars, trackerVars

\* connectTo points a name of a server at a socket to it.
LEMMA ConnectRoutes ==
    ASSUME RoutesOK, NEW s \in ServerPeer, ConnectTo(s)
    PROVE  route' \in [Recipient -> Dialled \cup Visitor \cup {Unset}]
<1>1. PICK k \in Dialled : route' = [route EXCEPT ![NameOf[s]] = k]
  BY DEF ConnectTo, Undialled
<1> QED BY <1>1 DEF RoutesOK

\* Every step keeps it.
LEMMA RoutesStep == ASSUME RoutesOK, [HybridNext]_HybridVars PROVE RoutesOK'
<1>1. CASE UNCHANGED HybridVars
  BY <1>1 DEF HybridVars, RoutesOK
<1>2. ASSUME NEW id, NEW to, NEW chosen, Push(id, to, chosen) PROVE RoutesOK'
  BY <1>2, PushRoutes
<1>3. CASE HybridPoll \/ HybridAge
  BY <1>3 DEF HybridPoll, HybridAge, RoutesOK, knownVars, trackerVars
<1>4. \A t \in Tracker : AskTracker(t) \in {"waiting", "asked", "failed"}
  BY DEF AskTracker, RoutesOK
<1>5. ASSUME NEW name \in ServerName, FindServer(name) PROVE RoutesOK'
  <2>1. search' \in [Tracker \X ServerName -> {"idle", "waiting", "asked", "failed"}]
    BY <1>4, <1>5 DEF FindServer, RoutesOK
  <2> QED BY <1>5, <2>1 DEF FindServer, RoutesOK, queueVars, knownVars
<1>6. ASSUME NEW t \in Tracker, HybridAnnounceAll(t) PROVE RoutesOK'
  BY <1>4, <1>6 DEF HybridAnnounceAll, RoutesOK, queueVars, knownVars
<1>7. ASSUME NEW t \in Tracker, TrackerLost(t) PROVE RoutesOK'
  BY <1>7 DEF TrackerLost, RoutesOK, queueVars, knownVars
<1>8. ASSUME NEW t \in Tracker, NEW name, TrackerAnswers(t, name) PROVE RoutesOK'
  BY <1>8 DEF TrackerAnswers, RoutesOK, queueVars, knownVars
<1>9. ASSUME NEW t, NEW o \in ServerOffer, ReceiveOffer(t, o) PROVE RoutesOK'
  <2>1. OfferedBy[o] \in ServerPeer
    BY HybridAssumption
  <2>2. route' \in [Recipient -> Dialled \cup Visitor \cup {Unset}]
    BY <1>9, <2>1, ConnectRoutes DEF ReceiveOffer, RoutesOK
  <2> QED BY <1>9, <2>2 DEF ReceiveOffer, RoutesOK, queueVars, trackerVars
<1>10. ASSUME NEW s \in ServerPeer, HybridRetry(s) PROVE RoutesOK'
  <2>1. route' \in [Recipient -> Dialled \cup Visitor \cup {Unset}]
    BY <1>10, ConnectRoutes DEF HybridRetry
  <2> QED BY <1>10, <2>1 DEF HybridRetry, RoutesOK, queueVars, trackerVars
<1>11. ASSUME NEW k \in Dialled, HybridOpen(k) PROVE RoutesOK'
  <2>1. NameOf[k[1]] \in ServerName
    BY Sockets DEF ServerName
  <2> QED BY <1>11, <2>1 DEF HybridOpen, RoutesOK, queueVars, trackerVars
<1>12. ASSUME NEW k \in Dialled, HybridError(k) \/ HybridClose(k) PROVE RoutesOK'
  BY <1>12 DEF HybridError, HybridClose, RoutesOK, queueVars, trackerVars
<1>13. ASSUME NEW v \in Visitor, ClientGreets(v) \/ ClientLeaves(v) PROVE RoutesOK'
  BY <1>13 DEF ClientGreets, ClientLeaves, RoutesOK, queueVars, knownVars, trackerVars
<1> QED
  BY <1>1, <1>2, <1>3, <1>5, <1>6, <1>7, <1>8, <1>9, <1>10, <1>11, <1>12, <1>13
  DEF HybridNext, HybridSendToAll, HybridSendToClientId, HybridSendToAllServers

(***************************************************************************)
(* The state of a hybrid peer is well formed: what is executed of a queue  *)
(* is a queue, tries are within their bound, and names lead to sockets.    *)
(***************************************************************************)
THEOREM HybridTyped == HybridSpec => []HybridTypeOK
<1>1. HybridInit => RoutesOK
  BY HybridAssumption DEF HybridInit, RoutesOK
<1>2. RoutesOK /\ [HybridNext]_HybridVars => RoutesOK'
  BY RoutesStep
<1>3. TriedInv /\ [HybridNext]_HybridVars => TriedInv'
  BY TriedStep
<1>4. QueueInv /\ [HybridNext]_HybridVars => QueueInv'
  BY QueueInvStep
<1>5. RoutesOK /\ TriedInv /\ QueueInv => HybridTypeOK
  BY DEF RoutesOK, TriedInv, LinksOK, QueueInv, HybridTypeOK
<1> QED BY TriedInit, QueueInit, <1>1, <1>2, <1>3, <1>4, <1>5, PTL DEF HybridSpec

(***************************************************************************)
(* The adapters keep their state apart: a behaviour of any of them is one  *)
(* of each, in which the others take no step.                              *)
(***************************************************************************)
LEMMA EachAdapter == AdaptersSpec => HybridSpec /\ SignalSpec /\ Spec
<1>1. AdaptersInit => HybridInit /\ SignalInit /\ Init
  BY DEF AdaptersInit
<1>2. [AdaptersNext]_adapterVars =>
        [HybridNext]_HybridVars /\ [SignalNext]_SignalVars /\ [Next]_vars
  BY DEF AdaptersNext, adapterVars
<1> QED BY <1>1, <1>2, PTL DEF AdaptersSpec, HybridSpec, SignalSpec, Spec

(***************************************************************************)
(* The state of every adapter is well formed, however they are used.       *)
(***************************************************************************)
THEOREM AdaptersTyped == AdaptersSpec => []AdaptersTypeOK
<1>1. HybridTypeOK /\ SignalTypeOK /\ TypeOK => AdaptersTypeOK
  BY DEF AdaptersTypeOK
<1> QED BY EachAdapter, HybridTyped, SignalTyped, PeersTyped, <1>1, PTL
=============================================================================
