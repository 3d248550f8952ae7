---------------------------- MODULE PeerExchange ----------------------------
(***************************************************************************)
(* How peers learn of the servers of their topic: serverPeers, which a     *)
(* server starts with itself, adds servers to that send it a ping, and     *)
(* sends with every pong.                                                  *)
(*                                                                         *)
(* Entries are verified before they are added.  verifyPeer calls           *)
(* verifyMessage without key and timestamp, whose result, "InvalidData",   *)
(* is a string that handlers take for true: only the topic tells entries   *)
(* apart, and verifying is here only the pause that it makes.              *)
(*                                                                         *)
(* The websocket adapter dials in its constructor and pings when a socket  *)
(* opens, while the account of the peer may still be restored and "init"  *)
(* is still to come.  Such an early ping names the account the peer has at *)
(* the time, its own or a temporary one, which no later start has again.   *)
(* (Clients are not listed, and their accounts are not told apart.)        *)
(***************************************************************************)
EXTENDS Naturals, SequencesExt

CONSTANTS
    Member,      \* the peers
    Hub,         \* those started with options.server = true
    Addressed,   \* those with a host and a port
    Outsider,    \* those with another topic
    Contact,     \* the pairs <<n, m>> where n dials m
    Restarting,  \* bound: those that restart
    MaxRestarts, \* bound: the restarts of each of them
    HasTemporary \* bound: the starts 0, 1, ... with pings of a temporary account

ASSUME PeerExchangeAssumption ==
    /\ Hub \cup Addressed \cup Outsider \cup Restarting \subseteq Member
    /\ Contact \subseteq Member \X Member
    /\ MaxRestarts \in Nat /\ HasTemporary \subseteq Nat

VARIABLES
    serverPeers, \* serverPeers[n]
    initialised, \* servers that have added their own entry, and all clients
    early,       \* history: those that sent a ping before, since they started
    greetings,   \* the pings and pongs on their way
    verifying,   \* entries that wait for verifyPeer
    greeted,     \* the pairs <<n, m>> where n sent m a ping over a connection
    restarts     \* restarts[n]: how often n started anew

PeerVars == <<serverPeers, initialised, early, greetings, verifying, greeted, restarts>>

\* An address is a peer, and 0 for its own account or the number of the start
\* that it had a temporary account in.
Address == Member \X (0..MaxRestarts + 1)
Own(n) == <<n, 0>>
Temporary(n) == <<n, restarts[n] + 1>>

\* What getMeAsPeer may name n as.
NamesOf(n) == IF n \in initialised \/ restarts[n] \notin HasTemporary THEN {Own(n)}
              ELSE {Own(n), Temporary(n)}

\* The list of a ping has its sender only.
Greeting == [type : {"ping", "pong"}, src : Member, dst : Member, servers : SUBSET Address]

PeersTypeOK ==
    /\ serverPeers \in [Member -> Seq(Address)]
    /\ initialised \subseteq Member /\ Member \ Hub \subseteq initialised
    /\ early \subseteq Hub
    /\ greetings \subseteq Greeting
    /\ verifying \subseteq [type : {"ping", "pong"}, at : Member, from : Member, peer : Address]
    /\ greeted \subseteq Contact
    /\ restarts \in [Member -> 0..MaxRestarts]
    \* Only servers are named, and those of the topic listed.
    /\ \A x \in greetings : x.type = "pong" => \A p \in x.servers : p[1] \in Hub
    /\ \A v \in verifying : v.type = "pong" => v.peer[1] \in Hub
    /\ \A n \in Member : \A p \in Range(serverPeers[n]) :
          p[1] \in Hub /\ ((p[1] \in Outsider) = (n \in Outsider))

PeersInit ==
    /\ serverPeers = [n \in Member |-> <<>>]
    /\ initialised = Member \ Hub /\ early = {} /\ greetings = {} /\ verifying = {} /\ greeted = {}
    /\ restarts = [n \in Member |-> 0]

-----------------------------------------------------------------------------
Listed(n, p) == p \in Range(serverPeers[n])

\* The listener of "init": a server adds itself, unconditionally.
PushMe(n) ==
    /\ n \notin initialised
    /\ initialised' = initialised \cup {n}
    /\ serverPeers' = [serverPeers EXCEPT ![n] = Append(@, Own(n))]
    /\ UNCHANGED <<early, greetings, verifying, greeted, restarts>>

\* craftPingMessage, over a new connection, with the account there is.  (None
\* is sent over a connection that opens before the first keys are generated.)
SendPing(n, m) ==
    /\ <<n, m>> \in Contact \ greeted
    /\ greeted' = greeted \cup {<<n, m>>}
    /\ early' = early \cup ({n} \ initialised)
    /\ \E p \in NamesOf(n) :
          greetings' = greetings \cup
            {[type |-> "ping", src |-> n, dst |-> m, servers |-> {p}]}
    /\ UNCHANGED <<serverPeers, initialised, verifying, restarts>>

(***************************************************************************)
(* handlePing and handlePong up to verifyPeer.  A pong checks the list     *)
(* before, and leaves out peers without host or port.                      *)
(***************************************************************************)
Greeted(x) ==
    /\ x \in greetings
    /\ greetings' = greetings \ {x}
    /\ LET peers == IF x.type = "ping" THEN x.servers
                    ELSE {p \in x.servers : ~Listed(x.dst, p) /\ p[1] \in Addressed}
       IN  verifying' = verifying \cup
             {[type |-> x.type, at |-> x.dst, from |-> x.src, peer |-> p] : p \in peers}
    /\ UNCHANGED <<serverPeers, initialised, early, greeted, restarts>>

SameTopic(v) == (v.peer[1] \in Outsider) = (v.at \in Outsider)

\* Mutant of Added: the list is not checked again after verifyPeer.
AddedUnchecked(v) ==
    IF SameTopic(v) /\ (v.type = "ping" => v.peer[1] \in Hub /\ ~Listed(v.at, v.peer))
    THEN Append(serverPeers[v.at], v.peer)
    ELSE serverPeers[v.at]

\* Mutant of Added: whoever sends a ping is listed.
AddedAnybody(v) ==
    IF SameTopic(v) /\ ~Listed(v.at, v.peer) THEN Append(serverPeers[v.at], v.peer)
    ELSE serverPeers[v.at]

\* serverPeers after verifyPeer; a ping of a client adds nothing.
Added(v) ==
    IF SameTopic(v) /\ ~Listed(v.at, v.peer) /\ (v.type = "ping" => v.peer[1] \in Hub)
    THEN Append(serverPeers[v.at], v.peer)
    ELSE serverPeers[v.at]

\* The continuation of verifyPeer: a ping is answered with the list, over the
\* connection there is then.
PeerVerified(v) ==
    /\ v \in verifying
    /\ verifying' = verifying \ {v}
    /\ serverPeers' = [serverPeers EXCEPT ![v.at] = Added(v)]
    /\ greetings' = IF v.type = "ping" /\ SameTopic(v) /\ <<v.from, v.at>> \in greeted
                    THEN greetings \cup {[type |-> "pong", src |-> v.at, dst |-> v.from,
                                          servers |-> Range(serverPeers'[v.at])]}
                    ELSE greetings
    /\ UNCHANGED <<initialised, early, greeted, restarts>>

\* A peer starts anew; others keep its entry, and connect to it again.
RestartMember(n) ==
    /\ n \in Restarting /\ restarts[n] < MaxRestarts
    /\ restarts' = [restarts EXCEPT ![n] = @ + 1]
    /\ serverPeers' = [serverPeers EXCEPT ![n] = <<>>]
    /\ initialised' = initialised \ ({n} \cap Hub) /\ early' = early \ {n}
    /\ greetings' = {x \in greetings : n \notin {x.src, x.dst}}
    /\ verifying' = {v \in verifying : v.at # n}
    /\ greeted' = {g \in greeted : n \notin {g[1], g[2]}}

PeersNext ==
    \/ \E n \in Member : PushMe(n) \/ RestartMember(n)
    \/ \E n, m \in Member : SendPing(n, m)
    \/ \E x \in greetings : Greeted(x)
    \/ \E v \in verifying : PeerVerified(v)

PeersSpec == PeersInit /\ [][PeersNext]_PeerVars

-----------------------------------------------------------------------------
(***************************************************************************)
(* No address is listed twice, although it may come with several pings and *)
(* pongs whose entries are verified at once, before and after a restart    *)
(* (handlePing, handlePong: "Double-check for duplicates"), except one: a  *)
(* server that sent a ping before it added itself, which it does without   *)
(* looking, may have learnt of itself from the answer, and has its own     *)
(* address twice, never more.                                              *)
(***************************************************************************)
NoPeerTwice ==
    \A n \in Member :
       /\ n \notin early => IsInjective(serverPeers[n])
       /\ \A i, j, k \in DOMAIN serverPeers[n] :
             i < j /\ j < k => ~(serverPeers[n][i] = serverPeers[n][k]
                                  /\ serverPeers[n][j] = serverPeers[n][k])
       /\ \A i, j \in DOMAIN serverPeers[n] :
             i # j /\ serverPeers[n][i] = serverPeers[n][j] => serverPeers[n][i] = Own(n)
=============================================================================
