------------------------------ MODULE Network ------------------------------
(***************************************************************************)
(* How putData and putCrdt messages travel between ToolDb peers: the state *)
(* that ToolDbNetworkAdapter and clientOnMessage keep, and the pieces of   *)
(* a step that change it.  The modules that extend this one build their    *)
(* actions from these pieces.                                              *)
(*                                                                         *)
(* A peer floods: it sends a message to every connected peer, a receiver   *)
(* drops what it has processed and relays the rest to its servers.  Three  *)
(* devices keep a message from travelling for ever: its list `to', the ids *)
(* a peer has processed, and the hashes it has sent to each peer.          *)
(***************************************************************************)
EXTENDS Records

CONSTANTS
    Server,     \* the peers started with options.server = true
    Link,       \* the pairs of peers that are connected, in both directions
    Fragile,    \* the pairs of Link whose connection may be lost
    Mortal,     \* the peers that may crash and restart
    Id          \* bound: the message ids, one for each call of the user

ASSUME ServerAssumption == Server \subseteq Node
ASSUME LinkAssumption ==
    /\ Link \subseteq Node \X Node
    /\ \A n, m \in Node : <<n, m>> \in Link => n # m /\ <<m, n>> \in Link
ASSUME FaultAssumption == Fragile \subseteq Link /\ Mortal \subseteq Node

VARIABLES
    net,           \* the messages on their way
    processedIds,  \* processedIds[n]: ids of the messages n has processed
    outHashes,     \* outHashes[n][m]: processedOutHashes[m] of peer n
    up,            \* the pairs of Link that are connected now
    \* History variables: no action reads them.
    received,      \* received[n]: ids n has ever started a handler for
    forwarded,     \* forwarded[n]: ids n has sent or relayed
    worn           \* the pairs of Link that have ever been down

networkVars == <<net, processedIds, outHashes, up, received, forwarded, worn>>

\* A put or crdtPut message on the connection from src to dst.
Message == [src : Node, dst : Node, id : Id, to : SUBSET Node, data : Rec]

NetworkTypeOK ==
    /\ net \subseteq Message
    /\ processedIds \in [Node -> SUBSET Id]
    /\ outHashes \in [Node -> [Node -> SUBSET (Value \X Node \X Int)]]
    /\ up \subseteq Link
    /\ received \in [Node -> SUBSET Id]
    /\ forwarded \in [Node -> SUBSET Id]
    /\ worn \subseteq Link

NetworkInit ==
    /\ net = {}
    /\ processedIds = [n \in Node |-> {}]
    /\ outHashes = [n \in Node |-> [m \in Node |-> {}]]
    /\ up = Link
    /\ received = [n \in Node |-> {}]
    /\ forwarded = [n \in Node |-> {}]
    /\ worn = {}

-----------------------------------------------------------------------------
(***************************************************************************)
(* sendToAll.  A message goes to the connected peers that are not in its   *)
(* list `to', to servers only when it is a relay, and never twice with one *)
(* hash to one peer.  The sender adds itself to the list.                  *)
(***************************************************************************)
RecipientsInverted(n, to, h, crossServerOnly) ==  \* mutant: relays avoid servers
    {m \in Node : /\ <<n, m>> \in up
                  /\ m \notin to \cup {n}
                  /\ crossServerOnly => m \notin Server
                  /\ h \notin outHashes[n][m]}

Recipients(n, to, h, crossServerOnly) ==
    {m \in Node : /\ <<n, m>> \in up
                  /\ m \notin to \cup {n}
                  /\ crossServerOnly => m \in Server
                  /\ h \notin outHashes[n][m]}

\* Mutant: the hash is remembered for every peer, sent to or not.
SendToAllMarking(n, id, to, data, crossServerOnly) ==
    LET R == Recipients(n, to, Hash(data), crossServerOnly)
    IN  /\ net' = net \cup {[src |-> n, dst |-> m, id |-> id,
                             to |-> to \cup {n}, data |-> data] : m \in R}
        /\ outHashes' = [outHashes EXCEPT ![n] =
                            [m \in Node |-> @[m] \cup {Hash(data)}]]
        /\ forwarded' = [forwarded EXCEPT ![n] = @ \cup {id}]
        /\ UNCHANGED <<processedIds, up, received, worn>>

\* Mutant: the id of the message is remembered instead of the hash.
SendToAllById(n, id, to, data, crossServerOnly) ==
    LET R == Recipients(n, to, Hash(data), crossServerOnly)
    IN  /\ net' = net \cup {[src |-> n, dst |-> m, id |-> id,
                             to |-> to \cup {n}, data |-> data] : m \in R}
        /\ outHashes' = [outHashes EXCEPT ![n] =
                            [m \in Node |-> IF m \in R THEN @[m] \cup {id} ELSE @[m]]]
        /\ forwarded' = [forwarded EXCEPT ![n] = @ \cup {id}]
        /\ UNCHANGED <<processedIds, up, received, worn>>

SendToAll(n, id, to, data, crossServerOnly) ==
    LET R == Recipients(n, to, Hash(data), crossServerOnly)
    IN  /\ net' = net \cup {[src |-> n, dst |-> m, id |-> id,
                             to |-> to \cup {n}, data |-> data] : m \in R}
        /\ outHashes' = [outHashes EXCEPT ![n] =
                            [m \in Node |-> IF m \in R
                                            THEN @[m] \cup {Hash(data)}
                                            ELSE @[m]]]
        /\ forwarded' = [forwarded EXCEPT ![n] = @ \cup {id}]
        /\ UNCHANGED <<processedIds, up, received, worn>>

(***************************************************************************)
(* sendToClientId with a put: to one peer, unless its hash was sent there. *)
(* The hash is remembered even when the connection is gone.                *)
(***************************************************************************)
SendToClientId(n, m, id, data) ==
    /\ net' = net \cup
         {x \in {[src |-> n, dst |-> m, id |-> id, to |-> {n}, data |-> data]} :
             <<n, m>> \in up /\ Hash(data) \notin outHashes[n][m]}
    /\ outHashes' = [outHashes EXCEPT ![n][m] = @ \cup {Hash(data)}]
    /\ UNCHANGED <<processedIds, up, received, forwarded, worn>>

-----------------------------------------------------------------------------
\* clientOnMessage drops a message whose id it has processed.
Processed(x) == x.id \in processedIds[x.dst]

Drop(x) ==
    /\ net' = net \ {x}
    /\ UNCHANGED <<processedIds, outHashes, up, received, forwarded, worn>>

\* clientOnMessage records the id of a new message before its handler starts.
Accept(x) ==
    /\ net' = net \ {x}
    /\ processedIds' = [processedIds EXCEPT ![x.dst] = @ \cup {x.id}]
    /\ received' = [received EXCEPT ![x.dst] = @ \cup {x.id}]
    /\ UNCHANGED <<outHashes, up, forwarded, worn>>

\* onClientDisconnect on both sides of a lost connection, with what it carried.
Disconnect(n, m) ==
    LET l == {<<n, m>>, <<m, n>>}
    IN  /\ l \subseteq up
        /\ up' = up \ l
        /\ net' = {x \in net : <<x.src, x.dst>> \notin l}
        /\ worn' = worn \cup l
        /\ UNCHANGED <<processedIds, outHashes, received, forwarded>>

\* The ping and pong of a new connection: both sides forget the hashes they sent.
Connect(n, m) ==
    /\ <<n, m>> \in Link \ up
    /\ up' = up \cup {<<n, m>>, <<m, n>>}
    /\ outHashes' = [outHashes EXCEPT ![n][m] = {}, ![m][n] = {}]
    /\ UNCHANGED <<net, processedIds, received, forwarded, worn>>

\* A peer stops: its connections and what it kept in memory are gone.
Crash(n) ==
    LET l == {e \in Link : n \in {e[1], e[2]}}
    IN  /\ up' = up \ l
        /\ worn' = worn \cup l
        /\ net' = {x \in net : n \notin {x.src, x.dst}}
        /\ processedIds' = [processedIds EXCEPT ![n] = {}]
        /\ outHashes' = [outHashes EXCEPT ![n] = [m \in Node |-> {}]]
        /\ UNCHANGED <<received, forwarded>>
=============================================================================
