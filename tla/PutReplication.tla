--------------------------- MODULE PutReplication ---------------------------
(***************************************************************************)
(* Replication of putData across a network of ToolDb peers.                *)
(*                                                                         *)
(* toolDbPut signs a record, sends it to every connected peer and stores   *)
(* it.  A peer that receives the message drops it when it has processed    *)
(* its id, otherwise starts handlePut: verify the record, relay it to the  *)
(* connected servers, read the store, compare, write.  Each of those       *)
(* stages ends in a promise, so the handlers a peer has started interleave *)
(* with each other and with its own puts; a step below is the code that    *)
(* runs between two of them.                                               *)
(*                                                                         *)
(* The store executes the operations of one peer in the order they are     *)
(* issued: a read takes the value at the moment it is asked for and only   *)
(* its continuation is late.                                               *)
(***************************************************************************)
EXTENDS Network

CONSTANTS
    User,       \* the peers on which the application calls putData
    Custom,     \* <<n, k>>: n has a custom verificator for a prefix of k
    Excluded,   \* the values of the optional parameter `to' of putData
    Skew,       \* Skew[n]: how far the clock of n is ahead
    Tolerance,  \* the clock shift verifyMessage accepts (30 seconds)
    MaxClock    \* bound: the last instant

ASSUME UserAssumption == User \subseteq Node
ASSUME ExcludedAssumption == Excluded \subseteq SUBSET Node
ASSUME ClockAssumption ==
    /\ Skew \in [Node -> Int]
    /\ Tolerance \in Int
    /\ MaxClock \in Nat

VARIABLES
    clock,         \* the time
    store,         \* store[n][k]: the record n holds for k, or NoData
    signing,       \* calls of toolDbPut that wait for proofOfWork and signData
    verifying,     \* handlers of handlePut that wait for the verification
    comparing,     \* handlers of handlePut that wait for the stored record
    issued         \* history: every call of putData, never forgotten

vars == <<clock, store, signing, verifying, comparing, issued, networkVars>>

PutCall == [id : Id, data : Rec, to : SUBSET Node]
Verifying == [node : Node, id : Id, to : SUBSET Node, data : Rec, ok : BOOLEAN]
Comparing == [node : Node, id : Id, data : Rec, old : Rec \cup {NoData}]

TypeOK ==
    /\ clock \in 0..MaxClock
    /\ store \in [Node -> [Key -> Rec \cup {NoData}]]
    /\ signing \subseteq PutCall
    /\ verifying \subseteq Verifying
    /\ comparing \subseteq Comparing
    /\ issued \subseteq PutCall
    /\ NetworkTypeOK

Init ==
    /\ clock = 0
    /\ store = [n \in Node |-> [k \in Key |-> NoData]]
    /\ signing = {}
    /\ verifying = {}
    /\ comparing = {}
    /\ issued = {}
    /\ NetworkInit

-----------------------------------------------------------------------------
\* The clock advances.
Tick ==
    /\ clock < MaxClock
    /\ clock' = clock + 1
    /\ UNCHANGED <<store, signing, verifying, comparing, issued, networkVars>>

(***************************************************************************)
(* toolDbPut up to its first promise: the timestamp is taken now, the      *)
(* message leaves when the hash is signed.                                 *)
(***************************************************************************)
Put(n, k, v, to) ==
    /\ \E id \in Id :
        /\ id \notin {p.id : p \in issued}
        /\ LET call == [id |-> id, to |-> to,
                        data |-> [k |-> k, a |-> n, t |-> clock + Skew[n], v |-> v]]
           IN  /\ signing' = signing \cup {call}
               /\ issued' = issued \cup {call}
    /\ UNCHANGED <<clock, store, verifying, comparing, networkVars>>

(***************************************************************************)
(* The rest of toolDbPut: send to every peer, then store without looking   *)
(* at what the store holds.                                                *)
(***************************************************************************)
PutSigned(p) ==
    LET n == p.data.a
    IN  /\ signing' = signing \ {p}
        /\ SendToAll(n, p.id, p.to, p.data, FALSE)
        /\ store' = [store EXCEPT ![n][p.data.k] = p.data]
        /\ UNCHANGED <<clock, verifying, comparing, issued>>

\* verifyMessage: the record is from too far in the future for peer n.
InFuture(n, r) == r.t > clock + Skew[n] + Tolerance

(***************************************************************************)
(* onClientMessage and clientOnMessage for a put whose id was already      *)
(* processed: dropped.                                                     *)
(***************************************************************************)
ReceiveDuplicate(x) ==
    /\ Processed(x)
    /\ Drop(x)
    /\ UNCHANGED <<clock, store, signing, verifying, comparing, issued>>

(***************************************************************************)
(* onClientMessage and clientOnMessage for a new put: its id is recorded   *)
(* and handlePut starts.  verifyMessage checks the timestamp and reads the *)
(* store for a frozen key at once; its answer comes with the signature's.  *)
(***************************************************************************)
Receive(x) ==
    /\ ~Processed(x)
    /\ Accept(x)
    /\ verifying' = verifying \cup
         {[node |-> x.dst, id |-> x.id, to |-> x.to \cup {x.src}, data |-> x.data,
           ok |-> /\ ~InFuture(x.dst, x.data)
                  /\ ~CantOverwrite(store[x.dst][x.data.k], x.data)]}
    /\ UNCHANGED <<clock, store, signing, comparing, issued>>

(***************************************************************************)
(* toolDbVerificationWrapper: where a custom verificator matches the key   *)
(* its answer replaces the one of verifyMessage.                           *)
(***************************************************************************)
Verdicts(h) == IF <<h.node, h.data.k>> \in Custom THEN BOOLEAN ELSE {h.ok}

\* handlePut with any result but Verified: nothing more happens.
Unverified(h) ==
    /\ FALSE \in Verdicts(h)
    /\ verifying' = verifying \ {h}
    /\ UNCHANGED <<clock, store, signing, comparing, issued, networkVars>>

\* Mutant of Verified: the record is not relayed.
VerifiedSilently(h) ==
    /\ TRUE \in Verdicts(h)
    /\ verifying' = verifying \ {h}
    /\ comparing' = comparing \cup
         {[node |-> h.node, id |-> h.id, data |-> h.data,
           old |-> store[h.node][h.data.k]]}
    /\ UNCHANGED <<clock, store, signing, issued, networkVars>>

\* handlePut, verified: relay to the servers and read the store.
Verified(h) ==
    /\ TRUE \in Verdicts(h)
    /\ verifying' = verifying \ {h}
    /\ SendToAll(h.node, h.id, h.to, h.data, TRUE)
    /\ comparing' = comparing \cup
         {[node |-> h.node, id |-> h.id, data |-> h.data,
           old |-> store[h.node][h.data.k]]}
    /\ UNCHANGED <<clock, store, signing, issued>>

(***************************************************************************)
(* handlePut, with the stored record it asked for: decide on that record   *)
(* and put the incoming one, whatever the store holds by now.              *)
(***************************************************************************)
Compare(h) ==
    /\ comparing' = comparing \ {h}
    /\ store' = IF Replaces(h.old, h.data)
                THEN [store EXCEPT ![h.node][h.data.k] = h.data]
                ELSE store
    /\ UNCHANGED <<clock, signing, verifying, issued, networkVars>>

-----------------------------------------------------------------------------
LinkDown(n, m) ==
    /\ Disconnect(n, m)
    /\ UNCHANGED <<clock, store, signing, verifying, comparing, issued>>

LinkUp(n, m) ==
    /\ Connect(n, m)
    /\ UNCHANGED <<clock, store, signing, verifying, comparing, issued>>

(***************************************************************************)
(* A peer stops and starts again: it keeps its store and loses everything  *)
(* that was in memory, its connections included.                           *)
(***************************************************************************)
Restart(n) ==
    /\ Crash(n)
    /\ signing' = {p \in signing : p.data.a # n}
    /\ verifying' = {h \in verifying : h.node # n}
    /\ comparing' = {h \in comparing : h.node # n}
    /\ UNCHANGED <<clock, store, issued>>

-----------------------------------------------------------------------------
\* What the peers' event loops and the sockets do by themselves.
System ==
    \/ \E p \in signing : PutSigned(p)
    \/ \E x \in net : Receive(x) \/ ReceiveDuplicate(x)
    \/ \E h \in verifying : Verified(h) \/ Unverified(h)
    \/ \E h \in comparing : Compare(h)

\* What the application and the surroundings do.
Environment ==
    \/ Tick
    \/ \E n \in User, k \in Key, v \in Value, to \in Excluded : Put(n, k, v, to)
    \/ \E e \in Fragile : LinkDown(e[1], e[2])
    \/ \E e \in Link : LinkUp(e[1], e[2])
    \/ \E n \in Mortal : Restart(n)

Next == System \/ Environment

Spec == Init /\ [][Next]_vars

(***************************************************************************)
(* Promises settle and connected sockets deliver: some step of the system  *)
(* is taken while one can be.                                              *)
(***************************************************************************)
FairSpec == Spec /\ WF_vars(System)

(***************************************************************************)
(* The behaviours in which no two handlers overlap in one peer: a message  *)
(* is taken from a socket only when the peer has no handler under way.     *)
(***************************************************************************)
Idle(n) == \A h \in verifying \cup comparing : h.node # n

\* Every handler that starts in peer n records the id of its message.
Serially == \A n \in Node : processedIds'[n] \subseteq processedIds[n] \/ Idle(n)

SerialNext == Next /\ Serially

SerialSpec == Init /\ [][SerialNext]_vars

-----------------------------------------------------------------------------
Quiescent == signing = {} /\ net = {} /\ verifying = {} /\ comparing = {}

\* No other call of putData has the hash of p.
Unique(p) == \A q \in issued : Hash(q.data) = Hash(p.data) => q = p

\* Peer m holds, or has on its way from n, what call p put.
Covered(p, n, m) ==
    \/ m = p.data.a
    \/ p.id \in received[m]
    \/ \E x \in net : x.src = n /\ x.dst = m /\ x.id = p.id

(***************************************************************************)
(* Flooding loses nothing: once a peer has sent or relayed a put, every    *)
(* server at the other end of a connection that never broke has received   *)
(* it, is its author, was excluded by the caller, or has it on the way.    *)
(* The list `to', processedIds and processedOutHashes each suppress        *)
(* messages; none of them suppresses the only copy (sendToAll, handlePut). *)
(***************************************************************************)
LinkCoverage ==
    \A p \in issued : Unique(p) =>
        \A n \in Node : p.id \in forwarded[n] =>
            \A m \in Server :
                <<n, m>> \in Link \ worn /\ m \notin p.to => Covered(p, n, m)

(***************************************************************************)
(* Why LinkCoverage holds: an inductive invariant.  A suppressed copy is   *)
(* always one the target does not need, because whoever is in the list     *)
(* `to' of a message has had it (Trail) and whoever has the hash in        *)
(* processedOutHashes was sent it (HashesCovered).                         *)
(***************************************************************************)
UniqueIds == \A p, q \in issued : p.id = q.id => p = q

\* Every message and every handler carries the record of one call of putData.
CallOf(p, x) == p.id = x.id /\ p.data = x.data

Origins ==
    /\ signing \subseteq issued
    /\ \A x \in net \cup verifying \cup comparing : \E p \in issued : CallOf(p, x)
    /\ \A n \in Node : \A i \in forwarded[n] : \E p \in issued : p.id = i
    /\ \A n, m \in Node : \A h \in outHashes[n][m] :
          \E p \in issued : Hash(p.data) = h

\* Whoever is in the list of a message was excluded, wrote it or received it.
Visited(p, y) == y \in p.to \/ y = p.data.a \/ p.id \in received[y]

Trail ==
    \A p \in issued : \A x \in net \cup verifying :
        p.id = x.id => \A y \in x.to : Visited(p, y)

Receipts ==
    /\ \A n \in Node : processedIds[n] \subseteq received[n]
    /\ \A x \in net : x.src \in x.to
    /\ \A h \in verifying : h.id \in received[h.node]

HashesCovered ==
    \A p \in issued : Unique(p) =>
        \A n, m \in Node :
            Hash(p.data) \in outHashes[n][m] /\ <<n, m>> \in Link \ worn
                => Covered(p, n, m)

UnwornIsUp == Link \ worn \subseteq up

CoverageInv ==
    /\ UniqueIds
    /\ Origins
    /\ Trail
    /\ Receipts
    /\ HashesCovered
    /\ UnwornIsUp
    /\ LinkCoverage

\* The records put for key k.
PutsOf(k) == {r \in {p.data : p \in issued} : r.k = k}

\* Of two records of a key: r is not older, or for a frozen key not newer.
Prevails(r, s) == IF r.k \in Frozen THEN r.t <= s.t ELSE s.t <= r.t

\* The record a key should end with: the newest, the oldest for a frozen key.
Winner(k) == CHOOSE r \in PutsOf(k) : \A s \in PutsOf(k) : Prevails(r, s)

\* Every two puts of one key have different timestamps, of one hash are one,
\* and nobody writes a frozen key twice.
WellSpaced ==
    \A p, q \in issued : p # q =>
        /\ Hash(p.data) # Hash(q.data)
        /\ p.data.k = q.data.k => p.data.t # q.data.t
        /\ p.data.k = q.data.k /\ p.data.k \in Frozen => p.data.a # q.data.a

(***************************************************************************)
(* The networks in which servers can agree.  Servers do not put, no caller *)
(* excludes one and none has a custom verificator; their clocks accept the *)
(* users'; and servers connect each user to all of them: a set of peers    *)
(* that has a user, and the servers its members are connected to, has all. *)
(***************************************************************************)
OpenNetwork ==
    /\ User \cap Server = {}
    /\ \A to \in Excluded : to \cap Server = {}
    /\ \A s \in Server, k \in Key : <<s, k>> \notin Custom
    /\ \A n \in User, s \in Server : Skew[n] <= Skew[s] + Tolerance
    /\ \A n \in User, S \in SUBSET Node :
          /\ n \in S
          /\ \A e \in Link : e[1] \in S /\ e[2] \in Server => e[2] \in S
          => Server \subseteq S

(***************************************************************************)
(* Convergence: when everything has settled and no connection broke, every *)
(* server holds the newest record of an ordinary key and the oldest of a   *)
(* frozen one, in whatever order the puts travelled (handlePut's           *)
(* comparison of timestamps, verifyMessage's check of frozen keys).        *)
(***************************************************************************)
ServersConverge ==
    OpenNetwork /\ Quiescent /\ worn = {} /\ WellSpaced =>
        \A k \in Key, s \in Server :
            PutsOf(k) # {} => store[s][k] = Winner(k)

\* Server s put the record of call id itself, or has received it.
Heard(s, id) ==
    \E p, q \in issued : /\ p.id = id
                         /\ q.data = p.data
                         /\ s = p.data.a \/ q.id \in received[s]

(***************************************************************************)
(* Delivery: the record of every call of putData is eventually received by *)
(* every server, unless a connection broke (toolDbPut, then the relays of  *)
(* handlePut from server to server).                                       *)
(***************************************************************************)
EveryServerHears ==
    \A s \in Server, id \in Id :
        id \in {p.id : p \in issued} ~> Heard(s, id) \/ worn # {}

(***************************************************************************)
(* "Local data is newer" is kept: a peer never exchanges the record of an  *)
(* ordinary key for an older one (handlePut's comparison).                 *)
(***************************************************************************)
NewerWins ==
    [][\A n \in Server, k \in Key \ Frozen :
          store[n][k] # NoData => store'[n][k].t >= store[n][k].t]_vars

(***************************************************************************)
(* "First writer owns the key forever": the author of a frozen key gives   *)
(* way in a server only to an author who put it earlier.                   *)
(***************************************************************************)
FirstWriterOwns ==
    [][\A n \in Server, k \in Frozen :
          LET old == store[n][k]
              new == store'[n][k]
          IN  old # NoData /\ new.a # old.a =>
                  \A r \in PutsOf(k) : r.a = old.a => new.t <= r.t]_vars
=============================================================================
