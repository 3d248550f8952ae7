---------------------------- MODULE HybridNetwork ----------------------------
(***************************************************************************)
(* The hybrid adapter (packages/hybrid-network) of one peer: how it finds  *)
(* servers by name over trackers, dials them and dials again, accepts      *)
(* clients if it is a server itself, and the queue that its messages wait  *)
(* in until somebody they may go to is connected.                          *)
(*                                                                         *)
(* A server that was found is known by its name, a client by its address:  *)
(* both are keys of clientToSend and isClientConnected, which hold         *)
(* functions of one socket.  <<p, i>> is the i-th socket to or from p.     *)
(***************************************************************************)
EXTENDS Options, FiniteSets, SequencesExt

CONSTANTS
    ServerPeer,  \* the servers that announce themselves, by public key
    NameOf,      \* NameOf[s]: the name server s announces
    ServerOffer, \* bound: the offers of servers, by offer_id
    OfferedBy,   \* OfferedBy[o]: the server that makes offer o
    Tracker,     \* trackerUrls
    OwnName,     \* options.serverName, Unset for a peer that is no server
    Visitor,     \* bound: the sockets from clients; a pair <<client, number>>
    MessageId,   \* bound: the ids of messages
    MaxPushes,   \* bound: the messages sent
    Unset        \* null, undefined

ASSUME HybridAssumption ==
    /\ OfferedBy \in [ServerOffer -> ServerPeer]
    /\ Visitor \cap (ServerPeer \X Nat) = {}  \* a socket has one other end
    /\ MaxPushes \in Nat

VARIABLES
    messageQueue,      \* _messageQueue, with the age of its entries
    pushes,            \* the messages sent so far
    route,             \* the socket behind clientToSend and isClientConnected
    linkState,         \* readyState of every socket
    awaited,           \* _awaitingConnections: the servers ever dialled
    retried,           \* retried[s]: the tries of that entry
    deferred,          \* the servers whose retry timer runs
    connectedServers,  \* the names ever connected to
    offersHandled,     \* offers that were looked at
    serversFinding,    \* the names looked for
    trackerSocket,     \* sockets[url] of each tracker
    search             \* what became of asking a tracker for a name

HybridVars == <<messageQueue, pushes, route, linkState, awaited, retried, deferred,
                connectedServers, offersHandled, serversFinding, trackerSocket, search>>

ServerName == {NameOf[s] : s \in ServerPeer}
Client == {v[1] : v \in Visitor}

\* Whom a message can be sent to.
Recipient == ServerName \cup Client

\* The sockets a server may need: one for each offer and each retry.
Dialled == ServerPeer \X (1..(Cardinality(ServerOffer) + MaxRetries))

\* chosen: the entry has a list of its own, of peers to send it to.
Entry == [id : MessageId, to : SUBSET Client, chosen : BOOLEAN, old : BOOLEAN]

HybridTypeOK ==
    /\ messageQueue \in Seq(Entry)
    /\ pushes \in 0..MaxPushes
    /\ route \in [Recipient -> Dialled \cup Visitor \cup {Unset}]
    /\ linkState \in [Dialled \cup Visitor -> {"none", "connecting", "open", "failing", "closed"}]
    /\ awaited \subseteq ServerPeer
    /\ retried \in [ServerPeer -> 0..MaxRetries]
    /\ deferred \subseteq awaited
    /\ connectedServers \subseteq ServerName
    /\ offersHandled \subseteq ServerOffer
    /\ serversFinding \subseteq ServerName
    /\ trackerSocket \in [Tracker -> {"null", "open", "lost"}]
    /\ search \in [Tracker \X ServerName -> {"idle", "waiting", "asked", "failed"}]

HybridInit ==
    /\ messageQueue = <<>>
    /\ pushes = 0
    /\ route = [r \in Recipient |-> Unset]
    /\ linkState = [k \in Dialled \cup Visitor |-> "none"]
    /\ awaited = {}
    /\ retried = [s \in ServerPeer |-> 0]
    /\ deferred = {}
    /\ connectedServers = {}
    /\ offersHandled = {}
    /\ serversFinding = {}
    /\ trackerSocket = [t \in Tracker |-> "null"]
    /\ search = [a \in Tracker \X ServerName |-> "idle"]

queueVars == <<messageQueue, pushes>>
knownVars == <<awaited, retried, deferred, connectedServers, offersHandled>>
trackerVars == <<serversFinding, trackerSocket, search>>

-----------------------------------------------------------------------------
\* isClientConnected[r]()
IsClientConnected(r) == route[r] # Unset /\ linkState[route[r]] = "open"

(***************************************************************************)
(* Whom an entry goes to.  "Send only to select clients": but the loop is  *)
(* over the list of the message, not of the entry, and leaves out who is   *)
(* in it, so an entry with a list of its own goes to nobody.               *)
(***************************************************************************)
Targets(q) ==
    LET candidates == IF q.chosen THEN q.to ELSE Recipient
    IN  {r \in candidates : r \notin q.to /\ IsClientConnected(r)}

\* Mutant of Splice: the last entry with the id is removed.
SpliceLast(Q, id) == Reverse(RemoveFirstMatch(Reverse(Q), LAMBDA q : q.id = id))

\* splice(findIndex(id), 1): the last entry goes when no entry has the id.
Splice(Q, id) ==
    IF \E i \in DOMAIN Q : Q[i].id = id
    THEN RemoveFirstMatch(Q, LAMBDA q : q.id = id)
    ELSE Front(Q)

\* Mutant of SentIds: an id for each recipient.
SentIdsTwice(Q) ==
    FlattenSeq([i \in DOMAIN Q |-> IF Q[i].old THEN <<>>
                  ELSE [r \in 1..Cardinality(Targets(Q[i])) |-> Q[i].id]])

\* sentMessageIDs: the ids of entries sent now, each once.
SentIds(Q) == SetToSeq({Q[i].id : i \in {i \in DOMAIN Q : ~Q[i].old /\ Targets(Q[i]) # {}}})

\* messagesToDelete: the ids of entries older than a minute, one for each.
ExpiredIds(Q) ==
    FoldLeft(LAMBDA ids, q : IF q.old THEN Append(ids, q.id) ELSE ids, <<>>, Q)

\* tryExecuteMessageQueue.
Executed(Q) == FoldLeft(Splice, Q, SentIds(Q) \o ExpiredIds(Q))

\* pushToMessageQueue, then tryExecuteMessageQueue.
Push(id, to, chosen) ==
    /\ pushes < MaxPushes
    /\ pushes' = pushes + 1
    /\ messageQueue' =
         Executed(Append(messageQueue, [id |-> id, to |-> to, chosen |-> chosen, old |-> FALSE]))
    /\ UNCHANGED <<route, linkState, knownVars, trackerVars>>

\* sendToAll.
HybridSendToAll(id, to) == Push(id, to, FALSE)

\* sendToClientId.
HybridSendToClientId(id, to) == Push(id, to, TRUE)

\* sendToAll for servers only: the addresses in serverPeers but its own.
HybridSendToAllServers(id, to) ==
    \E serverPeers \in SUBSET ServerPeer : Push(id, to, serverPeers # {})

\* The interval of 500 ms.
HybridPoll ==
    /\ messageQueue # <<>>
    /\ messageQueue' = Executed(messageQueue)
    /\ UNCHANGED <<pushes, route, linkState, knownVars, trackerVars>>

\* A minute passes for the oldest entry that is not too old yet.
HybridAge ==
    \E i \in DOMAIN messageQueue :
        /\ ~messageQueue[i].old
        /\ \A j \in 1..(i - 1) : messageQueue[j].old
        /\ messageQueue' = [messageQueue EXCEPT ![i].old = TRUE]
        /\ UNCHANGED <<pushes, route, linkState, knownVars, trackerVars>>

-----------------------------------------------------------------------------
(***************************************************************************)
(* makeSocket and announce: a tracker without a socket is connected to,    *)
(* one with an open socket is asked at once; a socket that was lost stays  *)
(* in sockets[url], and is neither used nor replaced.                      *)
(***************************************************************************)
AskTracker(t) ==
    CASE trackerSocket[t] = "null" -> "waiting"
      [] trackerSocket[t] = "open" -> "asked"
      [] trackerSocket[t] = "lost" -> "failed"

\* findServer: every tracker, once for a name.
FindServer(name) ==
    /\ name \notin serversFinding
    /\ serversFinding' = serversFinding \cup {name}
    /\ search' = [a \in DOMAIN search |-> IF a[2] = name THEN AskTracker(a[1]) ELSE search[a]]
    /\ UNCHANGED <<queueVars, route, linkState, knownVars, trackerSocket>>

\* announceAll, when the turn of tracker t comes: again every 30 seconds.
HybridAnnounceAll(t) ==
    /\ OwnName \in ServerName
    /\ search[<<t, OwnName>>] # "waiting"
    /\ search' = [search EXCEPT ![<<t, OwnName>>] = AskTracker(t)]
    /\ UNCHANGED <<queueVars, route, linkState, knownVars, serversFinding, trackerSocket>>

\* onopen, or onerror, of a socket to a tracker; makeSocket resolves.
TrackerAnswers(t, name) ==
    /\ search[<<t, name>>] = "waiting"
    /\ \/ /\ search' = [search EXCEPT ![<<t, name>>] = "asked"]
          /\ trackerSocket' = [trackerSocket EXCEPT ![t] = "open"]
       \/ /\ search' = [search EXCEPT ![<<t, name>>] = "failed"]
          /\ UNCHANGED trackerSocket
    /\ UNCHANGED <<queueVars, route, linkState, knownVars, serversFinding>>

\* The sockets to a tracker are lost; nobody listens for their close event.
TrackerLost(t) ==
    /\ trackerSocket[t] = "open"
    /\ trackerSocket' = [trackerSocket EXCEPT ![t] = "lost"]
    /\ search' = [a \in DOMAIN search |->
                    IF a[1] = t /\ search[a] = "asked" THEN "failed" ELSE search[a]]
    /\ UNCHANGED <<queueVars, route, linkState, knownVars, serversFinding>>

-----------------------------------------------------------------------------
Undialled(s) == {k \in Dialled : k[1] = s /\ linkState[k] = "none"}

\* connectTo: a new socket, which messages to the name go over from now on.
ConnectTo(s) ==
    \E k \in Undialled(s) :
        /\ \A l \in Undialled(s) : k[2] <= l[2]
        /\ linkState' = [linkState EXCEPT ![k] = "connecting"]
        /\ route' = [route EXCEPT ![NameOf[s]] = k]
        /\ awaited' = awaited \cup {s}

(***************************************************************************)
(* onSocketMessage with a new offer: dial the server, unless its name was  *)
(* connected to before.                                                    *)
(***************************************************************************)
ReceiveOffer(t, o) ==
    LET s == OfferedBy[o]
    IN  /\ search[<<t, NameOf[s]>>] = "asked"
        /\ o \notin offersHandled
        /\ offersHandled' = offersHandled \cup {o}
        /\ IF NameOf[s] \in connectedServers
           THEN UNCHANGED <<route, linkState, awaited>>
           ELSE ConnectTo(s)
        /\ UNCHANGED <<queueVars, retried, deferred, connectedServers, trackerVars>>

\* Mutant of RemoveFromAwaiting: the entry is spliced, not sliced.
RemoveFromAwaitingSpliced(s) == awaited' = awaited \ {s}

\* removeFromAwaiting: slice returns a part of the list and removes nothing.
RemoveFromAwaiting(s) == awaited' = awaited

(***************************************************************************)
(* reconnect: the timer is set anew while there are tries left.  As no     *)
(* entry ever leaves the list, a connection that was open is retried too.  *)
(***************************************************************************)
HybridReconnect(s) ==
    IF s \notin awaited THEN UNCHANGED <<awaited, deferred>>
    ELSE IF retried[s] < MaxRetries
         THEN deferred' = deferred \cup {s} /\ UNCHANGED awaited
         ELSE deferred' = deferred \ {s} /\ RemoveFromAwaiting(s)

\* The timer of reconnect; wait is longer than a close takes to follow its error.
HybridRetry(s) ==
    /\ s \in deferred
    /\ \A k \in Dialled : k[1] = s => linkState[k] # "failing"
    /\ deferred' = deferred \ {s}
    /\ retried' = [retried EXCEPT ![s] = @ + 1]
    /\ ConnectTo(s)
    /\ UNCHANGED <<queueVars, connectedServers, offersHandled, trackerVars>>

\* wss.onopen of a socket to a server.
HybridOpen(k) ==
    /\ linkState[k] = "connecting"
    /\ linkState' = [linkState EXCEPT ![k] = "open"]
    /\ connectedServers' = connectedServers \cup {NameOf[k[1]]}
    /\ RemoveFromAwaiting(k[1])
    /\ UNCHANGED <<queueVars, route, retried, deferred, offersHandled, trackerVars>>

\* wss.onerror; ETIMEDOUT is left to onclose.
HybridError(k) ==
    /\ linkState[k] \in {"connecting", "open"}
    /\ linkState' = [linkState EXCEPT ![k] = "failing"]
    /\ HybridReconnect(k[1]) \/ UNCHANGED <<awaited, deferred>>
    /\ UNCHANGED <<queueVars, route, retried, connectedServers, offersHandled, trackerVars>>

\* wss.onclose.
HybridClose(k) ==
    /\ linkState[k] \in {"open", "failing"}
    /\ linkState' = [linkState EXCEPT ![k] = "closed"]
    /\ HybridReconnect(k[1])
    /\ UNCHANGED <<queueVars, route, retried, connectedServers, offersHandled, trackerVars>>

-----------------------------------------------------------------------------
\* A client connects to this server and its first message says who it is.
ClientGreets(v) ==
    /\ OwnName # Unset
    /\ linkState[v] = "none"
    /\ linkState' = [linkState EXCEPT ![v] = "open"]
    /\ route' = [route EXCEPT ![v[1]] = v]
    /\ UNCHANGED <<queueVars, knownVars, trackerVars>>

\* The error and close handlers of a client's socket: onClientDisconnect.
ClientLeaves(v) ==
    /\ \/ linkState[v] = "open" /\ linkState' = [linkState EXCEPT ![v] = "failing"]
       \/ /\ linkState[v] \in {"open", "failing"}
          /\ linkState' = [linkState EXCEPT ![v] = "closed"]
    /\ route' = [route EXCEPT ![v[1]] = Unset]
    /\ UNCHANGED <<queueVars, knownVars, trackerVars>>

-----------------------------------------------------------------------------
HybridNext ==
    \/ \E id \in MessageId, to \in SUBSET Client :
        \/ HybridSendToAll(id, to)
        \/ HybridSendToClientId(id, to)
        \/ HybridSendToAllServers(id, to)
    \/ HybridPoll \/ HybridAge
    \/ \E name \in ServerName : FindServer(name)
    \/ \E t \in Tracker :
        \/ HybridAnnounceAll(t) \/ TrackerLost(t)
        \/ \E name \in ServerName : TrackerAnswers(t, name)
        \/ \E o \in ServerOffer : ReceiveOffer(t, o)
    \/ \E s \in ServerPeer : HybridRetry(s)
    \/ \E k \in Dialled : HybridOpen(k) \/ HybridError(k) \/ HybridClose(k)
    \/ \E v \in Visitor : ClientGreets(v) \/ ClientLeaves(v)

HybridSpec == HybridInit /\ [][HybridNext]_HybridVars

-----------------------------------------------------------------------------
LiveSocket(s) ==
    \E k \in Dialled : k[1] = s /\ linkState[k] \in {"connecting", "open", "failing"}

(***************************************************************************)
(* A server that was found is not forgotten: it has a socket that is alive *)
(* or whose close is to come, or a timer, or all its tries are used up,    *)
(* through second offers, failures and connections lost after they opened  *)
(* (connectTo, reconnect, removeFromAwaiting).                             *)
(***************************************************************************)
FoundServerTried ==
    \A s \in ServerPeer :
        (\E k \in Dialled : k[1] = s /\ linkState[k] # "none")
            => LiveSocket(s) \/ s \in deferred \/ retried[s] = MaxRetries

Entries(Q, id) == {i \in DOMAIN Q : Q[i].id = id}

(***************************************************************************)
(* Executing the queue takes nothing from a message that waits, one whose  *)
(* entries are all young and have nobody to go to, although entries are    *)
(* looked up by id and an id looked up in vain would take the last entry;  *)
(* and no entry older than a minute is left (tryExecuteMessageQueue).      *)
(* Nothing is said of a message with two entries of which one was sent:    *)
(* the one that waits may go in its place.                                 *)
(***************************************************************************)
QueueExact ==
    [][/\ \A id \in MessageId :
             (\A i \in Entries(messageQueue, id) :
                 ~messageQueue[i].old /\ Targets(messageQueue[i]) = {})
               => Cardinality(Entries(messageQueue', id)) >= Cardinality(Entries(messageQueue, id))
       /\ HybridPoll \/ pushes' # pushes =>
             \A i \in DOMAIN messageQueue' : ~messageQueue'[i].old
      ]_HybridVars
=============================================================================
