------------------------------ MODULE Requests ------------------------------
(***************************************************************************)
(* Gets, on top of the replication of puts.                                *)
(*                                                                         *)
(* toolDbGet asks the local store and every connected peer at once, and    *)
(* starts a timer.  A peer that holds the key answers the peer it has the  *)
(* question from with a put that has the id of the get; one that does not  *)
(* relays the question.  The asker's promise settles with the first of:    *)
(* the local record, a put with the id of the get, or what the local store *)
(* holds when the timer runs out.  An answer is a put like any other: its  *)
(* hash may suppress it, handlePut stores it and relays it to servers.     *)
(***************************************************************************)
EXTENDS PutReplication

CONSTANTS
    Asker,      \* the peers on which the application calls getData
    Kept        \* the records stores may hold when the peers start

ASSUME AskerAssumption == Asker \subseteq Node
ASSUME KeptAssumption == Kept \subseteq Rec

\* Nobody puts null, which is what a get answers that finds nothing.
ASSUME ValueAssumption == NoData \notin Value

VARIABLES
    asking,      \* the get messages on their way
    askedIds,    \* askedIds[n]: processedIds.get of peer n
    looking,     \* handlers of handleGet that wait for the stored record
    reading,     \* reads of the local store by toolDbGet
    listeners,   \* ids with an entry in the _idListeners of their asker
    timers,      \* ids whose timer runs
    \* History variables, except that a promise settles once.
    asked,       \* every call of toolDbGet, with what its peers held
    settled,     \* the promises that settled, with what they settled with
    hurried      \* ids whose timer ran out while something was under way

getVars == <<asking, askedIds, looking, reading, listeners, timers,
             asked, settled, hurried>>

allVars == <<vars, getVars>>

Question == [src : Node, dst : Node, id : Id, key : Key, to : SUBSET Node]
Look == [node : Node, from : Node, id : Id, key : Key, to : SUBSET Node,
         data : Rec \cup {NoData}]
Read == [id : Id, data : Rec \cup {NoData}, last : BOOLEAN]
Call == [id : Id, node : Node, key : Key, held : SUBSET (Node \X Rec)]

\* What the promise of a get settles with: a value, or NoData for null.
Outcome == [id : Id, answer : Value \cup {NoData}]

AskedIds == {c.id : c \in asked}

RequestsTypeOK ==
    /\ TypeOK
    /\ asking \subseteq Question
    /\ askedIds \in [Node -> SUBSET Id]
    /\ looking \subseteq Look
    /\ reading \subseteq Read
    /\ listeners \cup timers \cup hurried \subseteq AskedIds
    /\ asked \subseteq Call
    /\ settled \subseteq Outcome

\* The peers start with the stores they had when they last stopped.
RequestsInit ==
    /\ clock = 0
    /\ store \in [Node -> [Key -> Kept \cup {NoData}]]
    /\ \A n \in Node, k \in Key : store[n][k] # NoData => store[n][k].k = k
    /\ signing = {} /\ verifying = {} /\ comparing = {} /\ issued = {}
    /\ NetworkInit
    /\ asking = {}
    /\ askedIds = [n \in Node |-> {}]
    /\ looking = {} /\ reading = {}
    /\ listeners = {} /\ timers = {}
    /\ asked = {} /\ settled = {} /\ hurried = {}

-----------------------------------------------------------------------------
\* Mutants: a relay that goes to servers only, a relay that forgets the list.
QuestionsToServers(n, id, k, to) ==
    {[src |-> n, dst |-> m, id |-> id, key |-> k, to |-> to \cup {n}] :
        m \in {m \in Server : <<n, m>> \in up /\ m \notin to \cup {n}}}

QuestionsToAnyone(n, id, k, to) ==
    {[src |-> n, dst |-> m, id |-> id, key |-> k, to |-> {n}] :
        m \in {m \in Node : <<n, m>> \in up}}

\* sendToAll with a get: to the connected peers that are not in its list.
Questions(n, id, k, to) ==
    {[src |-> n, dst |-> m, id |-> id, key |-> k, to |-> to \cup {n}] :
        m \in {m \in Node : <<n, m>> \in up /\ m \notin to \cup {n}}}

(***************************************************************************)
(* toolDbGet: set the timer and the listener, read the store, ask.         *)
(***************************************************************************)
Get(n, k) ==
    /\ \E id \in Id :
        /\ id \notin AskedIds \cup {p.id : p \in issued}
        /\ asked' = asked \cup
             {[id |-> id, node |-> n, key |-> k,
               held |-> {<<m, store[m][k]>> : m \in {m \in Node : store[m][k] # NoData}}]}
        /\ timers' = timers \cup {id}
        /\ listeners' = listeners \cup {id}
        /\ reading' = reading \cup {[id |-> id, data |-> store[n][k], last |-> FALSE]}
        /\ asking' = asking \cup Questions(n, id, k, {})
    /\ UNCHANGED <<vars, askedIds, looking, settled, hurried>>

\* resolve: a promise that has settled stays as it is.
Settle(id, answer) ==
    settled' = IF id \in {o.id : o \in settled} THEN settled
               ELSE settled \cup {[id |-> id, answer |-> answer]}

(***************************************************************************)
(* The continuation of the first read of the local store: with a record,   *)
(* the timer and the listener go; without one, nothing happens.            *)
(***************************************************************************)
FirstRead(q) ==
    /\ ~q.last
    /\ reading' = reading \ {q}
    /\ IF q.data = NoData
       THEN UNCHANGED <<timers, listeners, settled>>
       ELSE /\ timers' = timers \ {q.id}
            /\ listeners' = listeners \ {q.id}
            /\ Settle(q.id, q.data.v)
    /\ UNCHANGED <<vars, asking, askedIds, looking, asked, hurried>>

\* Mutant: the promise settles with the record, as that of toolDbCrdtGet does.
LastReadRecord(q) ==
    /\ q.last
    /\ reading' = reading \ {q}
    /\ Settle(q.id, q.data)
    /\ UNCHANGED <<vars, asking, askedIds, looking, listeners, timers,
                   asked, hurried>>

\* The continuation of the read that the timer started.
LastRead(q) ==
    /\ q.last
    /\ reading' = reading \ {q}
    /\ Settle(q.id, IF q.data = NoData THEN NoData ELSE q.data.v)
    /\ UNCHANGED <<vars, asking, askedIds, looking, listeners, timers,
                   asked, hurried>>

NothingUnderWay == Quiescent /\ asking = {} /\ looking = {} /\ reading = {}

\* The timer runs out: read the local store once more.
Timeout(c) ==
    /\ c.id \in timers
    /\ timers' = timers \ {c.id}
    /\ reading' = reading \cup {[id |-> c.id, data |-> store[c.node][c.key], last |-> TRUE]}
    /\ hurried' = IF NothingUnderWay THEN hurried ELSE hurried \cup {c.id}
    /\ UNCHANGED <<vars, asking, askedIds, looking, listeners, asked, settled>>

\* clientOnMessage wakes the listener of an id, once, before the handler.
Woken(n, id) == id \in listeners /\ \E c \in asked : c.id = id /\ c.node = n

(***************************************************************************)
(* A new get: a get with an id the peer listens to stops its timer and     *)
(* settles nothing; handleGet asks the store.                              *)
(***************************************************************************)
ReceiveGet(y) ==
    /\ y.id \notin askedIds[y.dst]
    /\ asking' = asking \ {y}
    /\ askedIds' = [askedIds EXCEPT ![y.dst] = @ \cup {y.id}]
    /\ IF Woken(y.dst, y.id)
       THEN listeners' = listeners \ {y.id} /\ timers' = timers \ {y.id}
       ELSE UNCHANGED <<listeners, timers>>
    /\ looking' = looking \cup
         {[node |-> y.dst, from |-> y.src, id |-> y.id, key |-> y.key,
           to |-> y.to \cup {y.src}, data |-> store[y.dst][y.key]]}
    /\ UNCHANGED <<vars, reading, asked, settled, hurried>>

ReceiveGetAgain(y) ==
    /\ y.id \in askedIds[y.dst]
    /\ asking' = asking \ {y}
    /\ UNCHANGED <<vars, askedIds, looking, reading, listeners, timers,
                   asked, settled, hurried>>

\* handleGet, with a record: answer the peer the question came from.
Answer(h) ==
    /\ h.data # NoData
    /\ looking' = looking \ {h}
    /\ SendToClientId(h.node, h.from, h.id, h.data)
    /\ UNCHANGED <<clock, store, signing, verifying, comparing, issued>>
    /\ UNCHANGED <<asking, askedIds, reading, listeners, timers,
                   asked, settled, hurried>>

\* handleGet, with nothing stored: relay the question to everybody.
RelayGet(h) ==
    /\ h.data = NoData
    /\ looking' = looking \ {h}
    /\ asking' = asking \cup Questions(h.node, h.id, h.key, h.to)
    /\ UNCHANGED <<vars, askedIds, reading, listeners, timers,
                   asked, settled, hurried>>

\* A put arrives: the listener of its id settles with it, unverified.
ReceivePut(x) ==
    /\ Receive(x)
    /\ IF Woken(x.dst, x.id)
       THEN /\ listeners' = listeners \ {x.id}
            /\ timers' = timers \ {x.id}
            /\ Settle(x.id, x.data.v)
       ELSE UNCHANGED <<listeners, timers, settled>>
    /\ UNCHANGED <<asking, askedIds, looking, reading, asked, hurried>>

-----------------------------------------------------------------------------
\* A call of putData draws an id that no get has.
FreshPut(n, k, v, to) ==
    /\ Put(n, k, v, to)
    /\ \A p \in issued' : p.id \notin AskedIds
    /\ UNCHANGED getVars

GetLinkDown(n, m) ==
    /\ LinkDown(n, m)
    /\ asking' = {y \in asking : <<y.src, y.dst>> \notin {<<n, m>>, <<m, n>>}}
    /\ UNCHANGED <<askedIds, looking, reading, listeners, timers,
                   asked, settled, hurried>>

\* A peer stops and starts again, without its listeners, timers and reads.
GetRestart(n) ==
    LET own == {c.id : c \in {c \in asked : c.node = n}}
    IN  /\ Restart(n)
        /\ asking' = {y \in asking : n \notin {y.src, y.dst}}
        /\ askedIds' = [askedIds EXCEPT ![n] = {}]
        /\ looking' = {h \in looking : h.node # n}
        /\ reading' = {q \in reading : q.id \notin own}
        /\ listeners' = listeners \ own
        /\ timers' = timers \ own
        /\ UNCHANGED <<asked, settled, hurried>>

\* The steps of PutReplication that touch nothing a get keeps.
PutStep ==
    /\ \/ Tick
       \/ \E p \in signing : PutSigned(p)
       \/ \E x \in net : ReceiveDuplicate(x)
       \/ \E h \in verifying : Verified(h) \/ Unverified(h)
       \/ \E h \in comparing : Compare(h)
       \/ \E e \in Link : LinkUp(e[1], e[2])
    /\ UNCHANGED getVars

GetStep ==
    \/ \E q \in reading : FirstRead(q) \/ LastRead(q)
    \/ \E c \in asked : Timeout(c)
    \/ \E y \in asking : ReceiveGet(y) \/ ReceiveGetAgain(y)
    \/ \E h \in looking : Answer(h) \/ RelayGet(h)
    \/ \E x \in net : ReceivePut(x)

\* Bound: a connection breaks, and a peer stops, only where none ever broke.
Intact(n) == \A e \in worn : n \notin {e[1], e[2]}

RequestsNext ==
    \/ PutStep
    \/ GetStep
    \/ \E n \in User, k \in Key, v \in Value, to \in Excluded : FreshPut(n, k, v, to)
    \/ \E n \in Asker, k \in Key : Get(n, k)
    \/ \E e \in Fragile \ worn : GetLinkDown(e[1], e[2])
    \/ \E n \in Mortal : Intact(n) /\ GetRestart(n)

RequestsSpec == RequestsInit /\ [][RequestsNext]_allVars

\* Timers run out, reads return, messages arrive, handlers go on.
FairRequestsSpec == RequestsSpec /\ WF_allVars(GetStep)

-----------------------------------------------------------------------------
Known == Kept \cup {p.data : p \in issued}

\* No peer refuses a record, and no two records have one hash.
NobodyRefuses ==
    /\ Custom = {}
    /\ \A r \in Known :
        /\ \A n \in Node : ~(r.t > Skew[n] + Tolerance)
        /\ \A s \in Known : Hash(r) = Hash(s) => r = s

\* A get that answered null, at leisure.
AnsweredNull(c) ==
    [id |-> c.id, answer |-> NoData] \in settled /\ c.id \notin hurried

(***************************************************************************)
(* Peer m is reached from n over servers: it is in every set of peers that *)
(* has n and what is connected to its servers.                             *)
(***************************************************************************)
ReachedOverServers(n, m) ==
    \A S \in SUBSET Node :
        /\ n \in S
        /\ \A e \in Link : e[1] \in S \cap Server => e[2] \in S
        => m \in S

(***************************************************************************)
(* The networks in which answers find their way back.  A peer answers the  *)
(* first that asked it and nobody else, and answers are relayed to servers *)
(* only: clients connect to servers, each to one, for a question that      *)
(* comes through a client first is answered to that client.  Nor does      *)
(* anybody exclude a server from a put.                                    *)
(***************************************************************************)
AnswersComeBack ==
    /\ \A e \in Link : Server \cap {e[1], e[2]} # {}
    /\ \A d, e \in Link : d[1] = e[1] /\ d[1] \notin Server => d = e
    /\ \A to \in Excluded : to \cap Server = {}

(***************************************************************************)
(* Every get settles: the promise of getData settles, whatever the peers   *)
(* answer and relay (toolDbGet: only the listener stops the timer, and it  *)
(* must not be woken by the get itself coming back).                       *)
(***************************************************************************)
EveryGetSettles ==
    \A n \in Asker \ Mortal, id \in Id :
        (\E c \in asked : c.node = n /\ c.id = id) ~> \E o \in settled : o.id = id

(***************************************************************************)
(* A server's get finds what is there: it answers null only if no peer     *)
(* held the key that it reaches over servers, provided that no connection  *)
(* broke and no timer is too short.  An answer that the hash of an earlier *)
(* put suppresses is in the local store by then.                           *)
(***************************************************************************)
ServersFind ==
    AnswersComeBack /\ NobodyRefuses /\ worn = {} =>
        \A c \in asked : c.node \in Server /\ AnsweredNull(c) =>
            \A h \in c.held : ~ReachedOverServers(c.node, h[1])
=============================================================================
