--------------------------- MODULE RequestsProofs ---------------------------
(***************************************************************************)
(* Proofs about Requests, for every network of peers and every number of   *)
(* gets and puts: its variables keep their types, and where answers find   *)
(* their way back a server's get answers null only if nobody it reaches    *)
(* over servers held the key (ServersFind).                                *)
(*                                                                         *)
(* FindInv is the inductive invariant.  OriginsInv says where ids, records *)
(* and questions come from, and holds always.  The rest holds while no     *)
(* connection has broken: Spreads, that a record a peer has sent is with   *)
(* every server it is connected to or on its way; QuestionsInv, that a     *)
(* peer the question met asked on or answered a peer that lacked the key;  *)
(* NullsInv, that a null read at leisure means that nothing is there.      *)
(***************************************************************************)
EXTENDS Requests, PutReplicationProofs

(***************************************************************************)
(* Where a record of key k is in peer n: in its store, with one of its     *)
(* handlers too, or on its way to it.                                      *)
(***************************************************************************)
Holds(n, k) == store[n][k] # NoData

Got(n, k) ==
    \/ Holds(n, k)
    \/ \E h \in verifying \cup comparing : h.node = n /\ h.data.k = k

Gets(n, k) == Got(n, k) \/ \E x \in net : x.dst = n /\ x.data.k = k

\* The id of a get or a put of key k.
IdOf(i, k) ==
    \/ \E c \in asked : c.id = i /\ c.key = k
    \/ \E p \in issued : p.id = i /\ p.data.k = k

\* Peer n has sent a record of key k to whom it is connected to.
Spread(n, k) == \E i \in forwarded[n] : IdOf(i, k)

\* No id is drawn twice.
OwnIds ==
    /\ \A c, d \in asked : c.id = d.id => c = d
    /\ \A p, q \in issued : p.id = q.id => p = q
    /\ \A c \in asked, p \in issued : c.id # p.id
    /\ \A n \in Node, i \in Id :
          i \in processedIds[n] \cup forwarded[n] \cup askedIds[n] => \E k \in Key : IdOf(i, k)

\* Records in messages, handlers and stores have the key they are there for.
KnownRecords ==
    /\ signing \subseteq issued
    /\ \A x \in net \cup verifying \cup comparing : IdOf(x.id, x.data.k) /\ x.data \in Known
    /\ \A n \in Node, k \in Key : Holds(n, k) => store[n][k].k = k /\ store[n][k] \in Known
    /\ \A h \in comparing : h.id \in forwarded[h.node]
    /\ \A h \in comparing : h.old # NoData => Holds(h.node, h.data.k)
    /\ \A h \in looking : h.data # NoData =>
          h.data.k = h.key /\ h.data \in Known /\ Holds(h.node, h.key)

\* Questions are of calls, and travel to peers that had none of them yet.
KnownQuestions ==
    /\ \A q \in asking \cup looking :
          \E c \in asked : c.id = q.id /\ c.key = q.key /\ c.node \in q.to
    /\ \A y \in asking : y.src \in y.to /\ y.dst \notin y.to /\ <<y.src, y.dst>> \in Link
    /\ \A h \in looking : h.from \in h.to /\ h.node \notin h.to /\ <<h.from, h.node>> \in Link

\* Peers without a connection hear nothing.
Connection(n) == \E m \in Node : <<m, n>> \in Link

OverLinks ==
    /\ Link \ worn \subseteq up
    /\ \A x \in net : <<x.src, x.dst>> \in Link /\ x.src \in x.to
    /\ \A h \in verifying \cup comparing : Connection(h.node)
    /\ \A n \in Node : askedIds[n] # {} => Connection(n)

OriginsInv == OwnIds /\ KnownRecords /\ KnownQuestions /\ OverLinks

(***************************************************************************)
(* A record that a peer sent gets to the servers it is connected to: each  *)
(* device that suppresses messages has met the key there.                  *)
(***************************************************************************)
Spreads ==
    /\ \A n \in Node, k \in Key, m \in Server : Spread(n, k) /\ <<n, m>> \in Link => Gets(m, k)
    /\ \A x \in net \cup verifying : \A y \in x.to \cap Server : Gets(y, x.data.k)
    /\ \A n \in Node, k \in Key : \A i \in processedIds[n] : IdOf(i, k) => Got(n, k)
    /\ \A n, m \in Node : <<n, m>> \in Link => \A g \in outHashes[n][m] :
          \E r \in Known : Hash(r) = g /\ Gets(m, r.k)
    /\ \A h \in verifying : ~h.ok => Holds(h.node, h.data.k)
    /\ \A p \in issued : p.to \cap Server = {}

\* Whom the question of call c has come to, and whom it is on its way to.
Met(c, n) == n = c.node \/ c.id \in askedIds[n]
Asked(c, n) == Met(c, n) \/ \E y \in asking : y.id = c.id /\ y.dst = n

\* Peer n held nothing when the question came, or is the asker.
Lacked(c, n) == n = c.node \/ (Holds(n, c.key) => Spread(n, c.key))

\* It asked on, or answered who asked it.
Passed(c, n) == Lacked(c, n) /\ \A m \in Node : <<n, m>> \in Link => Asked(c, m)

Answered(c, n) ==
    /\ Holds(n, c.key)
    /\ \E f \in Node : Met(c, f) /\ Lacked(c, f) /\ Gets(f, c.key)

\* The question goes on from servers that hold nothing, and from nobody else.
Trodden(c) ==
    \A S \in SUBSET Node :
        /\ c.node \in S
        /\ \A n \in S \cap Server, m \in Node :
              Met(c, n) /\ Lacked(c, n) /\ <<n, m>> \in Link => m \in S
        => \A m \in Node : Asked(c, m) => m \in S

\* Where the question of call c is, and whom it has passed.
Questioned(c) ==
    /\ \A n \in Node : Met(c, n) =>
          \/ \E h \in looking : h.node = n /\ h.id = c.id
          \/ Passed(c, n)
          \/ Answered(c, n)
    /\ \A y \in asking : y.id = c.id =>
          Met(c, y.src) /\ Lacked(c, y.src) /\ \A m \in y.to : Asked(c, m)
    /\ \A h \in looking : h.id = c.id =>
          /\ Met(c, h.from) /\ Lacked(c, h.from) /\ \A m \in h.to : Asked(c, m)
          /\ h.data = NoData => Lacked(c, h.node)
          /\ Met(c, h.node)
    /\ Trodden(c)
    /\ \A h \in c.held : h[1] \in Node /\ Holds(h[1], c.key)

QuestionsInv == \A c \in asked : c.node \in Server => Questioned(c)

\* What a null that was read at leisure means.
Exhausted(c) == \A h \in c.held : ~ReachedOverServers(c.node, h[1])

NullsInv ==
    /\ \A q \in reading \cup settled : q.id \in AskedIds
    /\ \A c \in asked : c.node \in Server /\ c.id \notin hurried =>
          /\ \A q \in reading : q.id = c.id /\ q.last /\ q.data = NoData => Exhausted(c)
          /\ [id |-> c.id, answer |-> NoData] \in settled => Exhausted(c)

Undisturbed == AnswersComeBack /\ NobodyRefuses /\ worn = {}

FindInv ==
    /\ RequestsTypeOK
    /\ OriginsInv
    /\ Undisturbed => Spreads /\ QuestionsInv /\ NullsInv
-----------------------------------------------------------------------------
\* What handlers, messages and calls are made of.
LEMMA Parts ==
    ASSUME RequestsTypeOK
    PROVE  /\ \A x \in net : /\ x.src \in Node /\ x.dst \in Node /\ x.id \in Id
                             /\ x.to \in SUBSET Node /\ x.data \in Rec /\ x.data.k \in Key
           /\ \A h \in verifying : /\ h.node \in Node /\ h.id \in Id /\ h.to \in SUBSET Node
                                   /\ h.data \in Rec /\ h.data.k \in Key
           /\ \A h \in comparing : /\ h.node \in Node /\ h.id \in Id
                                   /\ h.data \in Rec /\ h.data.k \in Key
           /\ \A p \in issued : /\ p.id \in Id /\ p.to \in SUBSET Node /\ p.data \in Rec
                                /\ p.data.k \in Key /\ p.data.a \in Node
           /\ \A c \in asked : c.id \in Id /\ c.node \in Node /\ c.key \in Key
           /\ \A y \in asking : /\ y.src \in Node /\ y.dst \in Node /\ y.id \in Id
                                /\ y.key \in Key /\ y.to \in SUBSET Node
           /\ \A h \in looking : /\ h.node \in Node /\ h.from \in Node /\ h.id \in Id
                                 /\ h.key \in Key /\ h.to \in SUBSET Node
                                 /\ h.data \in Rec \cup {NoData}
           /\ \A q \in reading : q.id \in Id /\ q.data \in Rec \cup {NoData} /\ q.last \in BOOLEAN
<1>1. /\ net \subseteq Message /\ verifying \subseteq Verifying /\ comparing \subseteq Comparing
      /\ issued \subseteq PutCall
  BY DEF RequestsTypeOK, TypeOK, NetworkTypeOK
<1>2. /\ asked \subseteq Call /\ asking \subseteq Question
      /\ looking \subseteq Look /\ reading \subseteq Read
  BY DEF RequestsTypeOK
<1>3. \A r \in Rec : r.k \in Key /\ r.a \in Node
  BY DEF Rec
<1>4. \A x \in net : /\ x.src \in Node /\ x.dst \in Node /\ x.id \in Id
                     /\ x.to \in SUBSET Node /\ x.data \in Rec /\ x.data.k \in Key
  BY <1>1, <1>3 DEF Message
<1>5. \A h \in verifying : /\ h.node \in Node /\ h.id \in Id /\ h.to \in SUBSET Node
                           /\ h.data \in Rec /\ h.data.k \in Key
  BY <1>1, <1>3 DEF Verifying
<1>6. \A h \in comparing : /\ h.node \in Node /\ h.id \in Id /\ h.data \in Rec /\ h.data.k \in Key
  BY <1>1, <1>3 DEF Comparing
<1>7. \A p \in issued : /\ p.id \in Id /\ p.to \in SUBSET Node /\ p.data \in Rec
                        /\ p.data.k \in Key /\ p.data.a \in Node
  BY <1>1, <1>3 DEF PutCall
<1>8. \A c \in asked : c.id \in Id /\ c.node \in Node /\ c.key \in Key
  BY <1>2 DEF Call
<1>9. \A y \in asking : /\ y.src \in Node /\ y.dst \in Node /\ y.id \in Id
                        /\ y.key \in Key /\ y.to \in SUBSET Node
  BY <1>2 DEF Question
<1>10. \A h \in looking : /\ h.node \in Node /\ h.from \in Node /\ h.id \in Id
                          /\ h.key \in Key /\ h.to \in SUBSET Node
                          /\ h.data \in Rec \cup {NoData}
  BY <1>2 DEF Look
<1>11. \A q \in reading : q.id \in Id /\ q.data \in Rec \cup {NoData} /\ q.last \in BOOLEAN
  BY <1>2 DEF Read
<1> QED BY <1>4, <1>5, <1>6, <1>7, <1>8, <1>9, <1>10, <1>11

\* sendToClientId keeps the types of what it changes.
LEMMA SendToClientIdType ==
    ASSUME TypeOK, NEW n \in Node, NEW m \in Node, NEW id \in Id, NEW data \in Rec,
           SendToClientId(n, m, id, data)
    PROVE  NetworkTypeOK'
<1>1. net' \subseteq Message
  BY DEF SendToClientId, TypeOK, NetworkTypeOK, Message
<1>2. outHashes' \in [Node -> [Node -> SUBSET (Value \X Node \X Int)]]
  BY HashType DEF SendToClientId, TypeOK, NetworkTypeOK
<1> QED BY <1>1, <1>2 DEF SendToClientId, TypeOK, NetworkTypeOK

\* What the variables of PutReplication become, in all steps but an answer.
LEMMA PutsTyped ==
    ASSUME TypeOK, [RequestsNext]_allVars
    PROVE  \/ TypeOK'
           \/ \E h \in looking : Answer(h)
<1> SUFFICES ASSUME ~ \E h \in looking : Answer(h)
             PROVE  [Next]_vars
  BY TypeStep
<1>1. CASE PutStep
  BY <1>1 DEF PutStep, Next, System, Environment
<1>2. CASE GetStep
  <2>1. ASSUME NEW x \in net, ReceivePut(x) PROVE Next
    BY <2>1 DEF ReceivePut, Next, System
  <2>2. ASSUME NEW q \in reading, FirstRead(q) \/ LastRead(q) PROVE UNCHANGED vars
    BY <2>2 DEF FirstRead, LastRead
  <2>3. ASSUME NEW c \in asked, Timeout(c) PROVE UNCHANGED vars
    BY <2>3 DEF Timeout
  <2>4. ASSUME NEW y \in asking, ReceiveGet(y) \/ ReceiveGetAgain(y) PROVE UNCHANGED vars
    BY <2>4 DEF ReceiveGet, ReceiveGetAgain
  <2>5. ASSUME NEW h \in looking, RelayGet(h) PROVE UNCHANGED vars
    BY <2>5 DEF RelayGet
  <2> QED BY <1>2, <2>1, <2>2, <2>3, <2>4, <2>5 DEF GetStep
<1>3. ASSUME NEW n \in User, NEW k \in Key, NEW v \in Value, NEW to \in Excluded,
             FreshPut(n, k, v, to)
      PROVE  Next
  BY <1>3 DEF FreshPut, Next, Environment
<1>4. ASSUME NEW n \in Asker, NEW k \in Key, Get(n, k) PROVE UNCHANGED vars
  BY <1>4 DEF Get
<1>5. ASSUME NEW e \in Fragile \ worn, GetLinkDown(e[1], e[2]) PROVE Next
  BY <1>5 DEF GetLinkDown, Next, Environment
<1>6. ASSUME NEW n \in Mortal, GetRestart(n) PROVE Next
  BY <1>6 DEF GetRestart, Next, Environment
<1>7. CASE UNCHANGED allVars
  BY <1>7 DEF allVars
<1> QED BY <1>1, <1>2, <1>3, <1>4, <1>5, <1>6, <1>7 DEF RequestsNext

\* sendToAll with a get makes questions.
LEMMA QuestionType ==
    ASSUME NEW n \in Node, NEW id \in Id, NEW k \in Key, NEW to \in SUBSET Node
    PROVE  Questions(n, id, k, to) \subseteq Question
<1> SUFFICES ASSUME NEW m \in Node
             PROVE  [src |-> n, dst |-> m, id |-> id, key |-> k, to |-> to \cup {n}] \in Question
  BY DEF Questions
<1>1. to \cup {n} \in SUBSET Node
  OBVIOUS
<1> QED BY <1>1 DEF Question

\* Every step keeps the types.
LEMMA RequestsTypeStep ==
    ASSUME RequestsTypeOK, [RequestsNext]_allVars
    PROVE  RequestsTypeOK'
<1> USE Parts
<1>1. TypeOK
  BY DEF RequestsTypeOK
<1>2. ASSUME NEW h \in looking, Answer(h) PROVE RequestsTypeOK'
  <2>1. h.data \in Rec /\ h.node \in Node /\ h.from \in Node /\ h.id \in Id
    BY <1>2 DEF Answer
  <2>2. SendToClientId(h.node, h.from, h.id, h.data)
    BY <1>2 DEF Answer
  <2>3. NetworkTypeOK'
    BY <1>1, <2>1, <2>2, SendToClientIdType
  <2>4. TypeOK'
    BY <1>1, <1>2, <2>3 DEF Answer, TypeOK
  <2> QED BY <1>2, <2>4 DEF Answer, RequestsTypeOK, AskedIds
<1> SUFFICES ASSUME TypeOK' PROVE RequestsTypeOK'
  BY <1>1, <1>2, PutsTyped
<1>3. CASE PutStep
  BY <1>3 DEF PutStep, getVars, RequestsTypeOK, AskedIds
<1>4. ASSUME NEW q \in reading, FirstRead(q) \/ LastRead(q) PROVE RequestsTypeOK'
  <2>1. q.data # NoData => q.data.v \in Value
    BY DEF Rec
  <2>2. settled' \subseteq Outcome
    BY <1>4, <2>1 DEF FirstRead, LastRead, Settle, Outcome, RequestsTypeOK
  <2> QED BY <1>4, <2>2 DEF FirstRead, LastRead, RequestsTypeOK, AskedIds
<1>5. ASSUME NEW c \in asked, Timeout(c) PROVE RequestsTypeOK'
  <2>1. store[c.node][c.key] \in Rec \cup {NoData}
    BY <1>1 DEF TypeOK
  <2>2. [id |-> c.id, data |-> store[c.node][c.key], last |-> TRUE] \in Read
    BY <2>1 DEF Read
  <2>3. reading' \subseteq Read
    BY <1>5, <2>2 DEF Timeout, RequestsTypeOK
  <2> QED BY <1>5, <2>3 DEF Timeout, RequestsTypeOK, AskedIds
<1>6. ASSUME NEW y \in asking, ReceiveGet(y) \/ ReceiveGetAgain(y) PROVE RequestsTypeOK'
  <2>1. store[y.dst][y.key] \in Rec \cup {NoData}
    BY <1>1 DEF TypeOK
  <2>2. looking' \subseteq Look
    BY <1>6, <2>1 DEF ReceiveGet, ReceiveGetAgain, Look, RequestsTypeOK
  <2>3. askedIds' \in [Node -> SUBSET Id]
    BY <1>6 DEF ReceiveGet, ReceiveGetAgain, RequestsTypeOK
  <2> QED BY <1>6, <2>2, <2>3 DEF ReceiveGet, ReceiveGetAgain, RequestsTypeOK, AskedIds
<1>7. ASSUME NEW h \in looking, RelayGet(h) PROVE RequestsTypeOK'
  BY <1>7, QuestionType DEF RelayGet, RequestsTypeOK, AskedIds
<1>8. ASSUME NEW x \in net, ReceivePut(x) PROVE RequestsTypeOK'
  <2>1. x.data.v \in Value
    BY DEF Rec
  <2>2. settled' \subseteq Outcome
    BY <1>8, <2>1 DEF ReceivePut, Settle, Outcome, RequestsTypeOK
  <2> QED BY <1>8, <2>2 DEF ReceivePut, RequestsTypeOK, AskedIds
<1>9. ASSUME NEW n \in User, NEW k \in Key, NEW v \in Value, NEW to \in Excluded,
             FreshPut(n, k, v, to)
      PROVE  RequestsTypeOK'
  BY <1>9 DEF FreshPut, getVars, RequestsTypeOK, AskedIds
<1>10. ASSUME NEW n \in Asker, NEW k \in Key, Get(n, k) PROVE RequestsTypeOK'
  <2>1. PICK id \in Id :
           /\ asked' = asked \cup
                {[id |-> id, node |-> n, key |-> k,
                  held |-> {<<m, store[m][k]>> : m \in {m \in Node : store[m][k] # NoData}}]}
           /\ timers' = timers \cup {id} /\ listeners' = listeners \cup {id}
           /\ reading' = reading \cup {[id |-> id, data |-> store[n][k], last |-> FALSE]}
           /\ asking' = asking \cup Questions(n, id, k, {})
    BY <1>10 DEF Get
  <2>2. n \in Node /\ \A m \in Node : store[m][k] \in Rec \cup {NoData}
    BY <1>1, AskerAssumption DEF TypeOK
  <2>3. {<<m, store[m][k]>> : m \in {m \in Node : store[m][k] # NoData}} \subseteq Node \X Rec
    BY <2>2
  <2>4. asked' \subseteq Call
    BY <2>1, <2>2, <2>3 DEF Call, RequestsTypeOK
  <2>5. reading' \subseteq Read
    <3>1. [id |-> id, data |-> store[n][k], last |-> FALSE] \in Read
      BY <2>2 DEF Read
    <3> QED BY <2>1, <3>1 DEF RequestsTypeOK
  <2>6. asking' \subseteq Question
    BY <2>1, <2>2, QuestionType DEF RequestsTypeOK
  <2>7. AskedIds' = AskedIds \cup {id}
    <3>1. PICK call : call.id = id /\ asked' = asked \cup {call}
      BY <2>1
    <3> QED BY <3>1 DEF AskedIds
  <2>8. (listeners \cup timers \cup hurried)' \subseteq AskedIds'
    BY <1>10, <2>1, <2>7 DEF Get, RequestsTypeOK
  <2> QED BY <1>10, <2>4, <2>5, <2>6, <2>8 DEF Get, RequestsTypeOK
<1>11. ASSUME NEW e \in Fragile \ worn, GetLinkDown(e[1], e[2]) PROVE RequestsTypeOK'
  BY <1>11 DEF GetLinkDown, RequestsTypeOK, AskedIds
<1>12. ASSUME NEW n \in Mortal, GetRestart(n) PROVE RequestsTypeOK'
  BY <1>12 DEF GetRestart, RequestsTypeOK, AskedIds
<1>13. CASE UNCHANGED allVars
  BY <1>13 DEF allVars, getVars, RequestsTypeOK, AskedIds
<1> QED
  BY <1>2, <1>3, <1>4, <1>5, <1>6, <1>7, <1>8, <1>9, <1>10, <1>11, <1>12, <1>13
     DEF RequestsNext, GetStep

\* The peers start with well-formed stores.
LEMMA RequestsTypeInit == RequestsInit => RequestsTypeOK
<1> SUFFICES ASSUME RequestsInit PROVE RequestsTypeOK
  OBVIOUS
<1>1. store \in [Node -> [Key -> Rec \cup {NoData}]]
  BY KeptAssumption DEF RequestsInit
<1>2. NetworkTypeOK
  BY DEF RequestsInit, NetworkInit, NetworkTypeOK
<1>3. TypeOK
  BY <1>1, <1>2, ClockAssumption DEF RequestsInit, TypeOK
<1> QED BY <1>3 DEF RequestsInit, RequestsTypeOK, AskedIds

(***************************************************************************)
(* The variables of gets have the types that Requests gives them.          *)
(***************************************************************************)
THEOREM RequestsTyped == RequestsSpec => []RequestsTypeOK
BY RequestsTypeInit, RequestsTypeStep, PTL DEF RequestsSpec
-----------------------------------------------------------------------------
\* An id belongs to one key.
LEMMA IdOfOne ==
    ASSUME OwnIds, NEW i, NEW k, NEW l, IdOf(i, k), IdOf(i, l)
    PROVE  k = l
BY DEF OwnIds, IdOf

\* Ids stay drawn.
LEMMA IdOfKept ==
    ASSUME asked \subseteq asked', issued \subseteq issued', NEW i, NEW k, IdOf(i, k)
    PROVE  IdOf(i, k)'
BY DEF IdOf

\* Nothing was done with an id that no call has.
LEMMA FreshId ==
    ASSUME OwnIds, NEW i, i \notin AskedIds, \A p \in issued : p.id # i,
           NEW n \in Node, i \in Id
    PROVE  i \notin processedIds[n] \cup forwarded[n] \cup askedIds[n]
BY DEF OwnIds, IdOf, AskedIds

\* Ids are processed, forwarded and asked for by peers only when a call has them.
LEMMA OwnIdsKept ==
    ASSUME OwnIds, asked' = asked, issued' = issued,
           \A n \in Node, i \in Id :
              i \in (processedIds[n] \cup forwarded[n] \cup askedIds[n])' =>
                 \/ i \in processedIds[n] \cup forwarded[n] \cup askedIds[n]
                 \/ \E k \in Key : IdOf(i, k)
    PROVE  OwnIds'
<1>1. \A i, k : IdOf(i, k)' <=> IdOf(i, k)
  BY DEF IdOf
<1>2. \A n \in Node, i \in Id :
         i \in (processedIds[n] \cup forwarded[n] \cup askedIds[n])' => \E k \in Key : IdOf(i, k)'
  BY <1>1 DEF OwnIds
<1>3. /\ \A c, d \in asked' : c.id = d.id => c = d
      /\ \A p, q \in issued' : p.id = q.id => p = q
      /\ \A c \in asked', p \in issued' : c.id # p.id
  BY DEF OwnIds
<1> QED BY <1>2, <1>3 DEF OwnIds

\* What a step adds to stores, messages and handlers is known.
LEMMA KnownRecordsKept ==
    ASSUME KnownRecords, asked \subseteq asked', issued \subseteq issued',
           signing' \subseteq issued',
           \A x \in (net \cup verifying \cup comparing)' :
              \/ x \in net \cup verifying \cup comparing
              \/ IdOf(x.id, x.data.k)' /\ x.data \in Known',
           \A n \in Node, k \in Key :
              /\ Holds(n, k) => Holds(n, k)'
              /\ \/ store'[n][k] = store[n][k]
                 \/ store'[n][k].k = k /\ store'[n][k] \in Known',
           \A n \in Node : forwarded[n] \subseteq forwarded'[n],
           \A h \in comparing' :
              \/ h \in comparing /\ h.node \in Node /\ h.data.k \in Key
              \/ h.id \in forwarded'[h.node] /\ (h.old # NoData => Holds(h.node, h.data.k)'),
           \A h \in looking' :
              \/ h \in looking /\ h.node \in Node /\ h.key \in Key
              \/ h.data # NoData =>
                    h.data.k = h.key /\ h.data \in Known' /\ Holds(h.node, h.key)'
    PROVE  KnownRecords'
<1>1. Known \subseteq Known'
  BY DEF Known
<1>2. \A x \in (net \cup verifying \cup comparing)' : IdOf(x.id, x.data.k)' /\ x.data \in Known'
  <2> SUFFICES ASSUME NEW x \in (net \cup verifying \cup comparing)',
                      x \in net \cup verifying \cup comparing
               PROVE  IdOf(x.id, x.data.k)' /\ x.data \in Known'
    OBVIOUS
  <2>1. IdOf(x.id, x.data.k) /\ x.data \in Known
    BY DEF KnownRecords
  <2> QED BY <2>1, <1>1, IdOfKept
<1>3. \A n \in Node, k \in Key :
         Holds(n, k)' => store'[n][k].k = k /\ store'[n][k] \in Known'
  BY <1>1 DEF KnownRecords, Holds
<1>4. \A h \in comparing' : /\ h.id \in forwarded'[h.node]
                            /\ h.old # NoData => Holds(h.node, h.data.k)'
  BY DEF KnownRecords
<1>5. \A h \in looking' : h.data # NoData =>
                             h.data.k = h.key /\ h.data \in Known' /\ Holds(h.node, h.key)'
  BY <1>1 DEF KnownRecords
<1> QED BY <1>2, <1>3, <1>4, <1>5 DEF KnownRecords

\* The questions a step adds are of calls, and go to peers that had none.
LEMMA KnownQuestionsKept ==
    ASSUME KnownQuestions, asked \subseteq asked',
           \A y \in asking' :
              \/ y \in asking
              \/ /\ \E c \in asked' : c.id = y.id /\ c.key = y.key /\ c.node \in y.to
                 /\ y.src \in y.to /\ y.dst \notin y.to /\ <<y.src, y.dst>> \in Link,
           \A h \in looking' :
              \/ h \in looking
              \/ /\ \E c \in asked' : c.id = h.id /\ c.key = h.key /\ c.node \in h.to
                 /\ h.from \in h.to /\ h.node \notin h.to /\ <<h.from, h.node>> \in Link
    PROVE  KnownQuestions'
<1>1. \A q \in (asking \cup looking)' :
         \E c \in asked' : c.id = q.id /\ c.key = q.key /\ c.node \in q.to
  <2> SUFFICES ASSUME NEW q, q \in asking \cup looking
               PROVE  \E c \in asked' : c.id = q.id /\ c.key = q.key /\ c.node \in q.to
    OBVIOUS
  <2> QED BY DEF KnownQuestions
<1>2. \A y \in asking' : y.src \in y.to /\ y.dst \notin y.to /\ <<y.src, y.dst>> \in Link
  BY DEF KnownQuestions
<1>3. \A h \in looking' : h.from \in h.to /\ h.node \notin h.to /\ <<h.from, h.node>> \in Link
  BY DEF KnownQuestions
<1> QED BY <1>1, <1>2, <1>3 DEF KnownQuestions

\* What a step sends and starts is where there are connections.
LEMMA OverLinksKept ==
    ASSUME OverLinks, Link \ worn' \subseteq up',
           \A x \in net' : x \in net \/ (<<x.src, x.dst>> \in Link /\ x.src \in x.to),
           \A h \in (verifying \cup comparing)' :
              h \in verifying \cup comparing \/ Connection(h.node),
           \A n \in Node : askedIds'[n] \subseteq askedIds[n] \/ Connection(n)
    PROVE  OverLinks'
<1>1. \A n : Connection(n)' <=> Connection(n)
  BY DEF Connection
<1> QED BY <1>1 DEF OverLinks

\* sendToAll of a known record keeps what is known of messages.
LEMMA OriginsSend ==
    ASSUME RequestsTypeOK, OriginsInv, NEW n \in Node, NEW id, NEW to, NEW data, NEW c \in BOOLEAN,
           SendToAll(n, id, to, data, c), IdOf(id, data.k), data \in Known, id \in Id,
           UNCHANGED <<asked, issued>>
    PROVE  /\ \A x \in net' : \/ x \in net
                              \/ /\ IdOf(x.id, x.data.k)' /\ x.data \in Known'
                                 /\ <<x.src, x.dst>> \in Link /\ x.src \in x.to
           /\ \A m \in Node : forwarded[m] \subseteq forwarded'[m]
           /\ id \in forwarded'[n]
           /\ \A m \in Node, i \in Id : i \in forwarded'[m] => i \in forwarded[m] \/ i = id
           /\ UNCHANGED <<processedIds, up, received, worn>>
<1>1. forwarded \in [Node -> SUBSET Id] /\ up \subseteq Link
  BY DEF RequestsTypeOK, TypeOK, NetworkTypeOK
<1>2. /\ forwarded' = [forwarded EXCEPT ![n] = @ \cup {id}]
      /\ UNCHANGED <<processedIds, up, received, worn>>
  BY DEF SendToAll
<1>3. IdOf(id, data.k)' /\ data \in Known'
  BY IdOfKept DEF Known
<1>4. ASSUME NEW x \in net', x \notin net
      PROVE  /\ IdOf(x.id, x.data.k)' /\ x.data \in Known'
             /\ <<x.src, x.dst>> \in Link /\ x.src \in x.to
  <2>1. PICK m \in Recipients(n, to, Hash(data), c) :
           x = [src |-> n, dst |-> m, id |-> id, to |-> to \cup {n}, data |-> data]
    BY <1>4 DEF SendToAll
  <2>2. x.src = n /\ x.dst = m /\ x.id = id /\ x.to = to \cup {n} /\ x.data = data
    BY <2>1
  <2>3. <<n, m>> \in up
    BY DEF Recipients
  <2> QED BY <2>2, <2>3, <1>1, <1>3
<1> QED BY <1>1, <1>2, <1>4

\* A step that changes no store, no message of a put and none of its handlers.
LEMMA OriginsOfGets ==
    ASSUME RequestsTypeOK, OriginsInv, UNCHANGED <<vars, asked>>,
           \A n \in Node : \/ askedIds'[n] = askedIds[n]
                           \/ /\ Connection(n)
                              /\ \E i \in Id, k \in Key :
                                    IdOf(i, k) /\ askedIds'[n] = askedIds[n] \cup {i},
           \A y \in asking' :
              \/ y \in asking
              \/ /\ \E c \in asked : c.id = y.id /\ c.key = y.key /\ c.node \in y.to
                 /\ y.src \in y.to /\ y.dst \notin y.to /\ <<y.src, y.dst>> \in Link,
           \A h \in looking' :
              \/ h \in looking
              \/ /\ \E c \in asked : c.id = h.id /\ c.key = h.key /\ c.node \in h.to
                 /\ h.from \in h.to /\ h.node \notin h.to /\ <<h.from, h.node>> \in Link
                 /\ h.data = store[h.node][h.key] /\ h.node \in Node /\ h.key \in Key
    PROVE  OriginsInv'
<1> USE Parts
<1>1. OwnIds /\ KnownRecords /\ KnownQuestions /\ OverLinks
  BY DEF OriginsInv
<1>2. /\ UNCHANGED <<clock, store, signing, verifying, comparing, issued>>
      /\ UNCHANGED <<net, processedIds, outHashes, up, received, forwarded, worn>>
      /\ asked' = asked
  BY DEF vars, networkVars
<1>3. OwnIds'
  BY <1>1, <1>2, OwnIdsKept
<1>4. KnownRecords'
  <2>1. \A n \in Node, k \in Key : (Holds(n, k)' <=> Holds(n, k)) /\ store'[n][k] = store[n][k]
    BY <1>2 DEF Holds
  <2>2. ASSUME NEW h \in looking', h \notin looking, h.data # NoData
        PROVE  h.data.k = h.key /\ h.data \in Known' /\ Holds(h.node, h.key)'
    <3>1. h.data = store[h.node][h.key] /\ h.node \in Node /\ h.key \in Key
      BY <2>2
    <3>2. Holds(h.node, h.key)
      BY <2>2, <3>1 DEF Holds
    <3>3. Known' = Known
      BY <1>2 DEF Known
    <3> QED BY <3>1, <3>2, <3>3, <2>1, <1>1 DEF KnownRecords
  <2>3. signing' \subseteq issued'
    BY <1>1, <1>2 DEF KnownRecords
  <2>4. /\ asked \subseteq asked' /\ issued \subseteq issued'
        /\ \A n \in Node : forwarded[n] \subseteq forwarded'[n]
        /\ (net \cup verifying \cup comparing)' = net \cup verifying \cup comparing
        /\ comparing' = comparing
    BY <1>2
  <2>5. \A h \in comparing' : h \in comparing /\ h.node \in Node /\ h.data.k \in Key
    BY <2>4
  <2>6. \A h \in looking' :
              \/ h \in looking /\ h.node \in Node /\ h.key \in Key
              \/ h.data # NoData =>
                    h.data.k = h.key /\ h.data \in Known' /\ Holds(h.node, h.key)'
    BY <2>2
  <2> QED BY <1>1, <2>1, <2>3, <2>4, <2>5, <2>6, KnownRecordsKept
<1>5. KnownQuestions'
  BY <1>1, <1>2, KnownQuestionsKept
<1>6. OverLinks'
  <2>1. Link \ worn' \subseteq up'
    BY <1>1, <1>2 DEF OverLinks
  <2> QED BY <1>1, <1>2, <2>1, OverLinksKept
<1> QED BY <1>3, <1>4, <1>5, <1>6 DEF OriginsInv

\* A peer takes a question, once.
LEMMA OriginsReceiveGet ==
    ASSUME RequestsTypeOK, OriginsInv, NEW y \in asking, ReceiveGet(y)
    PROVE  OriginsInv'
<1>1. y.src \in Node /\ y.dst \in Node /\ y.id \in Id /\ y.key \in Key /\ y.to \in SUBSET Node
  BY Parts
<1> DEFINE h == [node |-> y.dst, from |-> y.src, id |-> y.id, key |-> y.key,
                 to |-> y.to \cup {y.src}, data |-> store[y.dst][y.key]]
<1>2. /\ looking' = looking \cup {h}
      /\ h.node = y.dst /\ h.from = y.src /\ h.id = y.id /\ h.key = y.key
      /\ h.to = y.to \cup {y.src} /\ h.data = store[y.dst][y.key]
  BY DEF ReceiveGet
<1> HIDE DEF h
<1>3. /\ \E c \in asked : c.id = y.id /\ c.key = y.key /\ c.node \in y.to
      /\ y.src \in y.to /\ y.dst \notin y.to /\ <<y.src, y.dst>> \in Link
  BY DEF OriginsInv, KnownQuestions
<1>4. Connection(y.dst) /\ IdOf(y.id, y.key)
  BY <1>1, <1>3 DEF Connection, IdOf
<1>5. \A n \in Node : \/ askedIds'[n] = askedIds[n]
                      \/ /\ Connection(n)
                         /\ \E i \in Id, k \in Key :
                               IdOf(i, k) /\ askedIds'[n] = askedIds[n] \cup {i}
  <2> SUFFICES ASSUME NEW n \in Node, askedIds'[n] # askedIds[n]
               PROVE  n = y.dst /\ askedIds'[n] = askedIds[n] \cup {y.id}
    BY <1>1, <1>4
  <2> QED BY <1>1 DEF ReceiveGet, RequestsTypeOK
<1>6. UNCHANGED <<vars, asked>> /\ asking' \subseteq asking
  BY DEF ReceiveGet
<1>7. /\ \E c \in asked : c.id = h.id /\ c.key = h.key /\ c.node \in h.to
      /\ h.from \in h.to /\ h.node \notin h.to /\ <<h.from, h.node>> \in Link
      /\ h.data = store[h.node][h.key] /\ h.node \in Node /\ h.key \in Key
  BY <1>1, <1>2, <1>3
<1>8. \A g \in looking' :
              \/ g \in looking
              \/ /\ \E c \in asked : c.id = g.id /\ c.key = g.key /\ c.node \in g.to
                 /\ g.from \in g.to /\ g.node \notin g.to /\ <<g.from, g.node>> \in Link
                 /\ g.data = store[g.node][g.key] /\ g.node \in Node /\ g.key \in Key
  BY <1>2, <1>7
<1> QED BY <1>5, <1>6, <1>8, OriginsOfGets

\* A peer asks on.
LEMMA OriginsRelayGet ==
    ASSUME RequestsTypeOK, OriginsInv, NEW h \in looking, RelayGet(h)
    PROVE  OriginsInv'
<1>1. h.node \in Node /\ h.id \in Id /\ h.key \in Key /\ h.to \in SUBSET Node
  BY Parts
<1>2. \E c \in asked : c.id = h.id /\ c.key = h.key /\ c.node \in h.to
  BY DEF OriginsInv, KnownQuestions
<1>3. up \subseteq Link
  BY DEF RequestsTypeOK, TypeOK, NetworkTypeOK
<1>4. ASSUME NEW y \in asking', y \notin asking
      PROVE  /\ \E c \in asked : c.id = y.id /\ c.key = y.key /\ c.node \in y.to
             /\ y.src \in y.to /\ y.dst \notin y.to /\ <<y.src, y.dst>> \in Link
  <2>1. PICK m \in Node : /\ <<h.node, m>> \in up /\ m \notin h.to \cup {h.node}
                          /\ y = [src |-> h.node, dst |-> m, id |-> h.id, key |-> h.key,
                                  to |-> h.to \cup {h.node}]
    BY <1>4 DEF RelayGet, Questions
  <2>2. /\ y.src = h.node /\ y.dst = m /\ y.id = h.id /\ y.key = h.key
        /\ y.to = h.to \cup {h.node}
    BY <2>1
  <2> QED BY <1>2, <1>3, <2>1, <2>2
<1>5. UNCHANGED <<vars, asked, askedIds>> /\ looking' \subseteq looking
  BY DEF RelayGet
<1> QED BY <1>4, <1>5, OriginsOfGets

\* Reads and timers leave stores, messages and handlers alone.
LEMMA OriginsAsker ==
    ASSUME RequestsTypeOK, OriginsInv, UNCHANGED <<vars, asked, askedIds>>,
           asking' \subseteq asking, looking' \subseteq looking
    PROVE  OriginsInv'
BY OriginsOfGets

\* A step about puts only: what it adds is known and over connections.
LEMMA OriginsOfPuts ==
    ASSUME RequestsTypeOK, OriginsInv, UNCHANGED <<asked, issued, askedIds>>,
           asking' \subseteq asking, looking' \subseteq looking,
           signing' \subseteq signing, Link \ worn' \subseteq up',
           \A x \in net' : x \in net \/ /\ IdOf(x.id, x.data.k) /\ x.data \in Known
                                        /\ <<x.src, x.dst>> \in Link /\ x.src \in x.to,
           \A h \in verifying' :
              h \in verifying \/ (IdOf(h.id, h.data.k) /\ h.data \in Known /\ Connection(h.node)),
           \A h \in comparing' :
              h \in comparing \/ /\ IdOf(h.id, h.data.k) /\ h.data \in Known /\ Connection(h.node)
                                 /\ h.id \in forwarded'[h.node]
                                 /\ h.old # NoData => Holds(h.node, h.data.k)'
                                 /\ h.node \in Node,
           \A n \in Node : forwarded[n] \subseteq forwarded'[n],
           \A n \in Node, i \in Id :
              i \in (processedIds[n] \cup forwarded[n])' =>
                 i \in processedIds[n] \cup forwarded[n] \/ \E k \in Key : IdOf(i, k),
           \A n \in Node, k \in Key :
              /\ Holds(n, k) => Holds(n, k)'
              /\ \/ store'[n][k] = store[n][k]
                 \/ store'[n][k].k = k /\ store'[n][k] \in Known
    PROVE  OriginsInv'
<1> USE Parts
<1>1. OwnIds /\ KnownRecords /\ KnownQuestions /\ OverLinks
  BY DEF OriginsInv
<1>2. /\ \A i, k : IdOf(i, k)' <=> IdOf(i, k)
      /\ Known' = Known
      /\ asked' = asked /\ issued' = issued /\ askedIds' = askedIds
  BY DEF IdOf, Known
<1>3. OwnIds'
  BY <1>1, <1>2, OwnIdsKept
<1>4. KnownRecords'
  <2>1. \A x \in (net \cup verifying \cup comparing)' :
              \/ x \in net \cup verifying \cup comparing
              \/ IdOf(x.id, x.data.k)' /\ x.data \in Known'
    BY <1>2
  <2>2. \A n \in Node, k \in Key :
              /\ Holds(n, k) => Holds(n, k)'
              /\ \/ store'[n][k] = store[n][k]
                 \/ store'[n][k].k = k /\ store'[n][k] \in Known'
    BY <1>2
  <2>3. \A h \in comparing' :
              \/ h \in comparing /\ h.node \in Node /\ h.data.k \in Key
              \/ h.id \in forwarded'[h.node] /\ (h.old # NoData => Holds(h.node, h.data.k)')
    OBVIOUS
  <2>4. signing' \subseteq issued' /\ asked \subseteq asked' /\ issued \subseteq issued'
    BY <1>1, <1>2 DEF KnownRecords
  <2> QED BY <1>1, <2>1, <2>2, <2>3, <2>4, KnownRecordsKept
<1>5. KnownQuestions'
  BY <1>1, <1>2, KnownQuestionsKept
<1>6. OverLinks'
  BY <1>1, <1>2, OverLinksKept
<1> QED BY <1>3, <1>4, <1>5, <1>6 DEF OriginsInv

\* A call that is signed has an id and a record of its own.
LEMMA OriginsPutSigned ==
    ASSUME RequestsTypeOK, OriginsInv, NEW p \in signing, PutSigned(p), UNCHANGED getVars
    PROVE  OriginsInv'
<1>1. p \in issued
  BY DEF OriginsInv, KnownRecords
<1>2. p.id \in Id /\ p.data \in Rec /\ p.data.k \in Key /\ p.data.a \in Node /\ p.to \in SUBSET Node
  BY <1>1, Parts
<1>3. IdOf(p.id, p.data.k) /\ p.data \in Known
  BY <1>1 DEF IdOf, Known
<1>4. /\ SendToAll(p.data.a, p.id, p.to, p.data, FALSE)
      /\ store' = [store EXCEPT ![p.data.a][p.data.k] = p.data]
      /\ UNCHANGED <<verifying, comparing, issued>> /\ signing' \subseteq signing
      /\ UNCHANGED <<asked, askedIds, asking, looking>>
  BY DEF PutSigned, getVars
<1>5. /\ \A x \in net' : \/ x \in net
                         \/ /\ IdOf(x.id, x.data.k)' /\ x.data \in Known'
                            /\ <<x.src, x.dst>> \in Link /\ x.src \in x.to
      /\ \A m \in Node : forwarded[m] \subseteq forwarded'[m]
      /\ \A m \in Node, i \in Id : i \in forwarded'[m] => i \in forwarded[m] \/ i = p.id
      /\ UNCHANGED <<processedIds, up, received, worn>>
  BY <1>2, <1>3, <1>4, OriginsSend
<1>6. (\A i, k : IdOf(i, k)' <=> IdOf(i, k)) /\ Known' = Known
  BY <1>4 DEF IdOf, Known
<1>7. \A n \in Node, k \in Key : /\ Holds(n, k) => Holds(n, k)'
                                 /\ \/ store'[n][k] = store[n][k]
                                    \/ store'[n][k].k = k /\ store'[n][k] \in Known
  <2>1. store \in [Node -> [Key -> Rec \cup {NoData}]]
    BY DEF RequestsTypeOK, TypeOK
  <2>2. p.data # NoData
    BY <1>2, NoDataAssumption
  <2> SUFFICES ASSUME NEW n \in Node, NEW k \in Key
               PROVE  store'[n][k] = store[n][k] \/ (store'[n][k] = p.data /\ k = p.data.k)
    BY <1>3, <2>2 DEF Holds
  <2> QED BY <1>2, <1>4, <2>1
<1>8. Link \ worn' \subseteq up'
  BY <1>5 DEF OriginsInv, OverLinks
<1>9. \A n \in Node, i \in Id :
              i \in (processedIds[n] \cup forwarded[n])' =>
                 i \in processedIds[n] \cup forwarded[n] \/ \E k \in Key : IdOf(i, k)
  BY <1>2, <1>3, <1>5
<1> QED BY <1>4, <1>5, <1>6, <1>7, <1>8, <1>9, OriginsOfPuts

\* A message is dropped, or a handler gives up.
LEMMA OriginsDropped ==
    ASSUME RequestsTypeOK, OriginsInv, UNCHANGED getVars,
           UNCHANGED <<store, issued, signing, comparing, processedIds, forwarded, up, worn>>,
           net' \subseteq net, verifying' \subseteq verifying
    PROVE  OriginsInv'
<1>1. /\ UNCHANGED <<asked, issued, askedIds>>
      /\ asking' \subseteq asking /\ looking' \subseteq looking
  BY DEF getVars
<1>2. Link \ worn' \subseteq up'
  BY DEF OriginsInv, OverLinks
<1>3. \A n \in Node, k \in Key : (Holds(n, k) => Holds(n, k)') /\ store'[n][k] = store[n][k]
  BY DEF Holds
<1> QED BY <1>1, <1>2, <1>3, OriginsOfPuts

\* A verified record is relayed with the id it came with.
LEMMA OriginsVerified ==
    ASSUME RequestsTypeOK, OriginsInv, NEW h \in verifying, Verified(h), UNCHANGED getVars
    PROVE  OriginsInv'
<1>1. /\ h.node \in Node /\ h.id \in Id /\ h.to \in SUBSET Node
      /\ h.data \in Rec /\ h.data.k \in Key
  BY Parts
<1>2. IdOf(h.id, h.data.k) /\ h.data \in Known /\ Connection(h.node)
  BY DEF OriginsInv, KnownRecords, OverLinks
<1>a. PICK g : g = [node |-> h.node, id |-> h.id, data |-> h.data, old |-> store[h.node][h.data.k]]
  OBVIOUS
<1>0. /\ comparing' = comparing \cup {g}
      /\ g.node = h.node /\ g.id = h.id /\ g.data = h.data
      /\ g.old = store[h.node][h.data.k]
  BY <1>a DEF Verified
<1>3. /\ SendToAll(h.node, h.id, h.to, h.data, TRUE)
      /\ verifying' \subseteq verifying
      /\ UNCHANGED <<store, signing, issued, asked, askedIds, asking, looking>>
  BY DEF Verified, getVars
<1>4. /\ \A x \in net' : \/ x \in net
                         \/ /\ IdOf(x.id, x.data.k)' /\ x.data \in Known'
                            /\ <<x.src, x.dst>> \in Link /\ x.src \in x.to
      /\ \A m \in Node : forwarded[m] \subseteq forwarded'[m]
      /\ h.id \in forwarded'[h.node]
      /\ \A m \in Node, i \in Id : i \in forwarded'[m] => i \in forwarded[m] \/ i = h.id
      /\ UNCHANGED <<processedIds, up, received, worn>>
  BY <1>1, <1>2, <1>3, OriginsSend
<1>5. (\A i, k : IdOf(i, k)' <=> IdOf(i, k)) /\ Known' = Known
  BY <1>3 DEF IdOf, Known
<1>6. \A n \in Node, k \in Key : (Holds(n, k)' <=> Holds(n, k)) /\ store'[n][k] = store[n][k]
  BY <1>3 DEF Holds
<1>7. Link \ worn' \subseteq up'
  BY <1>4 DEF OriginsInv, OverLinks
<1>8. /\ IdOf(g.id, g.data.k) /\ g.data \in Known /\ Connection(g.node)
      /\ g.id \in forwarded'[g.node] /\ g.node \in Node
      /\ g.old # NoData => Holds(g.node, g.data.k)'
  <2>1. g.old # NoData => Holds(h.node, h.data.k)'
    BY <1>0, <1>1, <1>3, <1>6 DEF Holds
  <2>2. g.id = h.id /\ g.data = h.data /\ g.node = h.node /\ h.id \in forwarded'[h.node]
    BY <1>0, <1>4
  <2>3. IdOf(g.id, g.data.k) /\ g.data \in Known /\ Connection(g.node) /\ g.node \in Node
    BY <1>1, <1>2, <2>2
  <2>4. g.id \in forwarded'[g.node] /\ (g.old # NoData => Holds(g.node, g.data.k)')
    BY <2>1, <2>2
  <2> QED BY <2>3, <2>4
<1>9. \A n \in Node, i \in Id :
              i \in (processedIds[n] \cup forwarded[n])' =>
                 i \in processedIds[n] \cup forwarded[n] \/ \E k \in Key : IdOf(i, k)
  <2> SUFFICES ASSUME NEW n \in Node, NEW i \in Id, i \in forwarded'[n], i \notin forwarded[n]
               PROVE  \E k \in Key : IdOf(i, k)
    BY <1>4
  <2>1. i = h.id
    BY <1>4
  <2> QED BY <1>1, <1>2, <2>1
<1>10. \A f \in comparing' :
              f \in comparing \/ /\ IdOf(f.id, f.data.k) /\ f.data \in Known /\ Connection(f.node)
                                 /\ f.id \in forwarded'[f.node]
                                 /\ f.old # NoData => Holds(f.node, f.data.k)'
                                 /\ f.node \in Node
  BY <1>0, <1>8
<1>11. \A x \in net' : x \in net \/ /\ IdOf(x.id, x.data.k) /\ x.data \in Known
                                     /\ <<x.src, x.dst>> \in Link /\ x.src \in x.to
  BY <1>4, <1>5
<1>12. /\ UNCHANGED <<asked, issued, askedIds, asking, looking, signing, store>>
       /\ verifying' \subseteq verifying
  BY <1>3
<1>13. \A n \in Node : forwarded[n] \subseteq forwarded'[n]
  BY <1>4
<1> QED BY <1>6, <1>7, <1>9, <1>10, <1>11, <1>12, <1>13, OriginsOfPuts

\* A comparison leaves a record of the same key.
LEMMA OriginsCompare ==
    ASSUME RequestsTypeOK, OriginsInv, NEW h \in comparing, Compare(h), UNCHANGED getVars
    PROVE  OriginsInv'
<1>1. h.node \in Node /\ h.data \in Rec /\ h.data.k \in Key
  BY Parts
<1>2. h.data \in Known
  BY DEF OriginsInv, KnownRecords
<1>3. /\ UNCHANGED <<asked, issued, askedIds, asking, looking, signing, verifying>>
      /\ UNCHANGED <<net, processedIds, forwarded, up, worn>>
      /\ comparing' \subseteq comparing
      /\ store' = store \/ store' = [store EXCEPT ![h.node][h.data.k] = h.data]
  BY DEF Compare, getVars, networkVars
<1>4. \A n \in Node, k \in Key : /\ Holds(n, k) => Holds(n, k)'
                                 /\ \/ store'[n][k] = store[n][k]
                                    \/ store'[n][k].k = k /\ store'[n][k] \in Known
  <2>1. store \in [Node -> [Key -> Rec \cup {NoData}]]
    BY DEF RequestsTypeOK, TypeOK
  <2>2. h.data # NoData
    BY <1>1, NoDataAssumption
  <2> SUFFICES ASSUME NEW n \in Node, NEW k \in Key
               PROVE  store'[n][k] = store[n][k] \/ (store'[n][k] = h.data /\ k = h.data.k)
    BY <1>2, <2>2 DEF Holds
  <2> QED BY <1>1, <1>3, <2>1
<1>5. Link \ worn' \subseteq up'
  BY <1>3 DEF OriginsInv, OverLinks
<1> QED BY <1>3, <1>4, <1>5, OriginsOfPuts

\* A peer takes a put from a connection, with the id of a call.
LEMMA OriginsReceivePut ==
    ASSUME RequestsTypeOK, OriginsInv, NEW x \in net, ReceivePut(x)
    PROVE  OriginsInv'
<1>1. x.src \in Node /\ x.dst \in Node /\ x.id \in Id /\ x.data.k \in Key
  BY Parts
<1>2. IdOf(x.id, x.data.k) /\ x.data \in Known /\ <<x.src, x.dst>> \in Link
  BY DEF OriginsInv, KnownRecords, OverLinks
<1>3. Connection(x.dst)
  BY <1>1, <1>2 DEF Connection
<1> DEFINE h == [node |-> x.dst, id |-> x.id, to |-> x.to \cup {x.src}, data |-> x.data,
                 ok |-> /\ ~InFuture(x.dst, x.data)
                        /\ ~CantOverwrite(store[x.dst][x.data.k], x.data)]
<1>4. /\ verifying' = verifying \cup {h}
      /\ h.node = x.dst /\ h.id = x.id /\ h.data = x.data
      /\ net' \subseteq net
      /\ processedIds' = [processedIds EXCEPT ![x.dst] = @ \cup {x.id}]
      /\ UNCHANGED <<asked, issued, askedIds, asking, looking, signing, comparing, store>>
      /\ UNCHANGED <<forwarded, up, worn>>
  BY DEF ReceivePut, Receive, Accept
<1> HIDE DEF h
<1>5. \A n \in Node, k \in Key : (Holds(n, k) => Holds(n, k)') /\ store'[n][k] = store[n][k]
  BY <1>4 DEF Holds
<1>6. Link \ worn' \subseteq up'
  BY <1>4 DEF OriginsInv, OverLinks
<1>7. \A n \in Node, i \in Id :
              i \in (processedIds[n] \cup forwarded[n])' =>
                 i \in processedIds[n] \cup forwarded[n] \/ \E k \in Key : IdOf(i, k)
  BY <1>1, <1>2, <1>4 DEF RequestsTypeOK, TypeOK, NetworkTypeOK
<1>8. IdOf(h.id, h.data.k) /\ h.data \in Known /\ Connection(h.node)
  BY <1>2, <1>3, <1>4
<1> QED BY <1>4, <1>5, <1>6, <1>7, <1>8, OriginsOfPuts

\* An answer has the id of its question and the record of its key.
LEMMA OriginsAnswer ==
    ASSUME RequestsTypeOK, OriginsInv, NEW h \in looking, Answer(h)
    PROVE  OriginsInv'
<1>1. h.node \in Node /\ h.from \in Node /\ h.id \in Id /\ h.key \in Key
  BY Parts
<1>2. PICK c \in asked : c.id = h.id /\ c.key = h.key
  BY DEF OriginsInv, KnownQuestions
<1>3. h.data.k = h.key /\ h.data \in Known
  BY DEF Answer, OriginsInv, KnownRecords
<1>4. IdOf(h.id, h.data.k)
  BY <1>2, <1>3 DEF IdOf
<1>5. up \subseteq Link
  BY DEF RequestsTypeOK, TypeOK, NetworkTypeOK
<1>6. /\ SendToClientId(h.node, h.from, h.id, h.data)
      /\ looking' \subseteq looking
      /\ UNCHANGED <<asked, issued, askedIds, asking, signing, verifying, comparing, store>>
      /\ UNCHANGED <<processedIds, forwarded, up, worn>>
  BY DEF Answer, SendToClientId
<1>7. ASSUME NEW x \in net', x \notin net
      PROVE  /\ IdOf(x.id, x.data.k) /\ x.data \in Known
             /\ <<x.src, x.dst>> \in Link /\ x.src \in x.to
  <2>1. /\ x = [src |-> h.node, dst |-> h.from, id |-> h.id, to |-> {h.node}, data |-> h.data]
        /\ <<h.node, h.from>> \in up
    BY <1>6, <1>7 DEF SendToClientId
  <2>2. x.src = h.node /\ x.dst = h.from /\ x.id = h.id /\ x.to = {h.node} /\ x.data = h.data
    BY <2>1
  <2> QED BY <1>3, <1>4, <1>5, <2>1, <2>2
<1>8. \A n \in Node, k \in Key : (Holds(n, k) => Holds(n, k)') /\ store'[n][k] = store[n][k]
  BY <1>6 DEF Holds
<1>9. Link \ worn' \subseteq up'
  BY <1>6 DEF OriginsInv, OverLinks
<1> QED BY <1>6, <1>7, <1>8, <1>9, OriginsOfPuts

\* A new call of putData has an id of its own, and leaves nothing yet.
LEMMA OriginsFreshPut ==
    ASSUME RequestsTypeOK, OriginsInv, NEW n \in User, NEW k \in Key, NEW v \in Value,
           NEW to \in Excluded, FreshPut(n, k, v, to)
    PROVE  OriginsInv'
<1> USE Parts
<1>1. OwnIds /\ KnownRecords /\ KnownQuestions /\ OverLinks
  BY DEF OriginsInv
<1>2. PICK id \in Id :
        /\ id \notin {p.id : p \in issued}
        /\ LET call == [id |-> id, to |-> to,
                        data |-> [k |-> k, a |-> n, t |-> clock + Skew[n], v |-> v]]
           IN  signing' = signing \cup {call} /\ issued' = issued \cup {call}
  BY DEF FreshPut, Put
<1>3. PICK call : call = [id |-> id, to |-> to,
                          data |-> [k |-> k, a |-> n, t |-> clock + Skew[n], v |-> v]]
  OBVIOUS
<1>4. /\ signing' = signing \cup {call} /\ issued' = issued \cup {call}
      /\ call.id = id /\ call \in issued'
      /\ \A p \in issued : p.id # id
  BY <1>2, <1>3
<1>5. /\ UNCHANGED <<net, processedIds, forwarded, up, worn, store, verifying, comparing>>
      /\ UNCHANGED <<asked, askedIds, asking, looking>>
      /\ id \notin AskedIds
  BY <1>4 DEF FreshPut, Put, networkVars, getVars
<1>6. OwnIds'
  <2>1. \A p, q \in issued' : p.id = q.id => p = q
    BY <1>1, <1>4 DEF OwnIds
  <2>2. \A c \in asked', p \in issued' : c.id # p.id
    BY <1>1, <1>4, <1>5 DEF OwnIds, AskedIds
  <2>3. \A i, l : IdOf(i, l) => IdOf(i, l)'
    BY <1>4, <1>5 DEF IdOf
  <2>4. \A m \in Node, i \in Id :
           i \in (processedIds[m] \cup forwarded[m] \cup askedIds[m])' => \E l \in Key : IdOf(i, l)'
    BY <1>1, <1>5, <2>3 DEF OwnIds
  <2>5. \A c, d \in asked' : c.id = d.id => c = d
    BY <1>1, <1>5 DEF OwnIds
  <2> QED BY <2>1, <2>2, <2>4, <2>5 DEF OwnIds
<1>7. KnownRecords'
  <2>1. signing' \subseteq issued' /\ issued \subseteq issued' /\ asked \subseteq asked'
    BY <1>1, <1>4, <1>5 DEF KnownRecords
  <2>2. \A m \in Node, l \in Key : (Holds(m, l) => Holds(m, l)') /\ store'[m][l] = store[m][l]
    BY <1>5 DEF Holds
  <2> QED BY <1>1, <1>5, <2>1, <2>2, KnownRecordsKept
<1>8. KnownQuestions'
  BY <1>1, <1>5, KnownQuestionsKept
<1>9. OverLinks'
  <2>1. Link \ worn' \subseteq up'
    BY <1>1, <1>5 DEF OverLinks
  <2> QED BY <1>1, <1>5, <2>1, OverLinksKept
<1> QED BY <1>6, <1>7, <1>8, <1>9 DEF OriginsInv

\* A new get has an id of its own, and asks whom the asker is connected to.
LEMMA OriginsGet ==
    ASSUME RequestsTypeOK, OriginsInv, NEW n \in Asker, NEW k \in Key, Get(n, k)
    PROVE  OriginsInv'
<1> USE Parts
<1>1. OwnIds /\ KnownRecords /\ KnownQuestions /\ OverLinks
  BY DEF OriginsInv
<1>2. PICK id \in Id :
        /\ id \notin AskedIds \cup {p.id : p \in issued}
        /\ asked' = asked \cup
             {[id |-> id, node |-> n, key |-> k,
               held |-> {<<m, store[m][k]>> : m \in {m \in Node : store[m][k] # NoData}}]}
        /\ asking' = asking \cup Questions(n, id, k, {})
  BY DEF Get
<1>3. PICK call : /\ asked' = asked \cup {call}
                  /\ call.id = id /\ call.node = n /\ call.key = k
  <2>1. PICK call : call = [id |-> id, node |-> n, key |-> k,
               held |-> {<<m, store[m][k]>> : m \in {m \in Node : store[m][k] # NoData}}]
    OBVIOUS
  <2>2. asked' = asked \cup {call} /\ call.id = id /\ call.node = n /\ call.key = k
    BY <1>2, <2>1
  <2> QED BY <2>2
<1>4. /\ UNCHANGED <<issued, signing, verifying, comparing, store>>
      /\ UNCHANGED <<net, processedIds, forwarded, up, worn>>
      /\ UNCHANGED <<askedIds, looking>>
      /\ n \in Node
  BY AskerAssumption DEF Get, vars, networkVars
<1>5. OwnIds'
  <2>1. \A c, d \in asked' : c.id = d.id => c = d
    BY <1>1, <1>2, <1>3 DEF OwnIds, AskedIds
  <2>2. \A c \in asked', p \in issued' : c.id # p.id
    BY <1>1, <1>2, <1>3, <1>4 DEF OwnIds
  <2>3. \A i, l : IdOf(i, l) => IdOf(i, l)'
    BY <1>3, <1>4 DEF IdOf
  <2>4. \A m \in Node, i \in Id :
           i \in (processedIds[m] \cup forwarded[m] \cup askedIds[m])' => \E l \in Key : IdOf(i, l)'
    BY <1>1, <1>4, <2>3 DEF OwnIds
  <2>5. \A p, q \in issued' : p.id = q.id => p = q
    BY <1>1, <1>4 DEF OwnIds
  <2> QED BY <2>1, <2>2, <2>4, <2>5 DEF OwnIds
<1>6. KnownRecords'
  <2>1. signing' \subseteq issued' /\ issued \subseteq issued' /\ asked \subseteq asked'
    BY <1>1, <1>3, <1>4 DEF KnownRecords
  <2>2. \A m \in Node, l \in Key : (Holds(m, l) => Holds(m, l)') /\ store'[m][l] = store[m][l]
    BY <1>4 DEF Holds
  <2> QED BY <1>1, <1>4, <2>1, <2>2, KnownRecordsKept
<1>7. KnownQuestions'
  <2>1. up \subseteq Link
    BY DEF RequestsTypeOK, TypeOK, NetworkTypeOK
  <2>2. ASSUME NEW y \in asking', y \notin asking
        PROVE  /\ \E c \in asked' : c.id = y.id /\ c.key = y.key /\ c.node \in y.to
               /\ y.src \in y.to /\ y.dst \notin y.to /\ <<y.src, y.dst>> \in Link
    <3>1. PICK m \in Node : /\ <<n, m>> \in up /\ m \notin {n}
                            /\ y = [src |-> n, dst |-> m, id |-> id, key |-> k, to |-> {n}]
      BY <1>2, <2>2 DEF Questions
    <3>2. y.src = n /\ y.dst = m /\ y.id = id /\ y.key = k /\ y.to = {n}
      BY <3>1
    <3>3. call \in asked' /\ call.id = y.id /\ call.key = y.key /\ call.node \in y.to
      BY <1>3, <3>2
    <3> QED BY <2>1, <3>1, <3>2, <3>3
  <2>3. asked \subseteq asked' /\ looking' = looking
    BY <1>3, <1>4
  <2> QED BY <1>1, <2>2, <2>3, KnownQuestionsKept
<1>8. OverLinks'
  <2>1. Link \ worn' \subseteq up'
    BY <1>1, <1>4 DEF OverLinks
  <2> QED BY <1>1, <1>4, <2>1, OverLinksKept
<1> QED BY <1>5, <1>6, <1>7, <1>8 DEF OriginsInv

\* A peer that stops loses messages and handlers.
LEMMA OriginsRestart ==
    ASSUME RequestsTypeOK, OriginsInv, NEW n \in Mortal, GetRestart(n)
    PROVE  OriginsInv'
<1> USE Parts
<1>1. OwnIds /\ KnownRecords /\ KnownQuestions /\ OverLinks
  BY DEF OriginsInv
<1>2. /\ UNCHANGED <<issued, asked, store, forwarded>>
      /\ net' \subseteq net /\ verifying' \subseteq verifying /\ comparing' \subseteq comparing
      /\ signing' \subseteq signing /\ asking' \subseteq asking /\ looking' \subseteq looking
      /\ \A m \in Node : /\ processedIds'[m] \subseteq processedIds[m]
                         /\ askedIds'[m] \subseteq askedIds[m]
  BY FaultAssumption DEF GetRestart, Restart, Crash, RequestsTypeOK, TypeOK, NetworkTypeOK
<1>3. OwnIds'
  BY <1>1, <1>2, OwnIdsKept
<1>4. KnownRecords'
  <2>1. signing' \subseteq issued'
    BY <1>1, <1>2 DEF KnownRecords
  <2>2. \A m \in Node, l \in Key : (Holds(m, l) => Holds(m, l)') /\ store'[m][l] = store[m][l]
    BY <1>2 DEF Holds
  <2> QED BY <1>1, <1>2, <2>1, <2>2, KnownRecordsKept
<1>5. KnownQuestions'
  BY <1>1, <1>2, KnownQuestionsKept
<1>6. OverLinks'
  <2>1. Link \ worn' \subseteq up'
    BY <1>1 DEF OverLinks, GetRestart, Restart, Crash
  <2> QED BY <1>1, <1>2, <2>1, OverLinksKept
<1> QED BY <1>3, <1>4, <1>5, <1>6 DEF OriginsInv

\* A connection breaks, with what it carried, or is set up again.
LEMMA OriginsLinks ==
    ASSUME RequestsTypeOK, OriginsInv,
           UNCHANGED <<asked, issued, askedIds, looking>>,
           UNCHANGED <<signing, verifying, comparing, store, processedIds, forwarded>>,
           asking' \subseteq asking, net' \subseteq net, Link \ worn' \subseteq up'
    PROVE  OriginsInv'
<1>1. \A m \in Node, l \in Key : (Holds(m, l) => Holds(m, l)') /\ store'[m][l] = store[m][l]
  BY DEF Holds
<1> QED BY <1>1, OriginsOfPuts

\* Every step keeps OriginsInv.
LEMMA OriginsStep ==
    ASSUME RequestsTypeOK, OriginsInv, [RequestsNext]_allVars
    PROVE  OriginsInv'
<1> USE DEF networkVars
<1>1. CASE PutStep
  <2>1. UNCHANGED getVars
    BY <1>1 DEF PutStep
  <2>2. CASE Tick
    BY <2>1, <2>2, OriginsDropped DEF Tick
  <2>3. ASSUME NEW p \in signing, PutSigned(p) PROVE OriginsInv'
    BY <2>1, <2>3, OriginsPutSigned
  <2>4. ASSUME NEW x \in net, ReceiveDuplicate(x) PROVE OriginsInv'
    BY <2>1, <2>4, OriginsDropped DEF ReceiveDuplicate, Drop
  <2>5. ASSUME NEW h \in verifying, Verified(h) PROVE OriginsInv'
    BY <2>1, <2>5, OriginsVerified
  <2>6. ASSUME NEW h \in verifying, Unverified(h) PROVE OriginsInv'
    BY <2>1, <2>6, OriginsDropped DEF Unverified
  <2>7. ASSUME NEW h \in comparing, Compare(h) PROVE OriginsInv'
    BY <2>1, <2>7, OriginsCompare
  <2>8. ASSUME NEW e \in Link, LinkUp(e[1], e[2]) PROVE OriginsInv'
    <3>1. Link \ worn' \subseteq up'
      BY <2>8 DEF LinkUp, Connect, OriginsInv, OverLinks
    <3> QED BY <2>1, <2>8, <3>1, OriginsLinks DEF LinkUp, Connect, getVars
  <2> QED BY <1>1, <2>2, <2>3, <2>4, <2>5, <2>6, <2>7, <2>8 DEF PutStep
<1>2. ASSUME NEW q \in reading, FirstRead(q) \/ LastRead(q) PROVE OriginsInv'
  BY <1>2, OriginsAsker DEF FirstRead, LastRead
<1>3. ASSUME NEW c \in asked, Timeout(c) PROVE OriginsInv'
  BY <1>3, OriginsAsker DEF Timeout
<1>4. ASSUME NEW y \in asking, ReceiveGet(y) PROVE OriginsInv'
  BY <1>4, OriginsReceiveGet
<1>5. ASSUME NEW y \in asking, ReceiveGetAgain(y) PROVE OriginsInv'
  BY <1>5, OriginsAsker DEF ReceiveGetAgain
<1>6. ASSUME NEW h \in looking, Answer(h) PROVE OriginsInv'
  BY <1>6, OriginsAnswer
<1>7. ASSUME NEW h \in looking, RelayGet(h) PROVE OriginsInv'
  BY <1>7, OriginsRelayGet
<1>8. ASSUME NEW x \in net, ReceivePut(x) PROVE OriginsInv'
  BY <1>8, OriginsReceivePut
<1>9. ASSUME NEW n \in User, NEW k \in Key, NEW v \in Value, NEW to \in Excluded,
             FreshPut(n, k, v, to)
      PROVE  OriginsInv'
  BY <1>9, OriginsFreshPut
<1>10. ASSUME NEW n \in Asker, NEW k \in Key, Get(n, k) PROVE OriginsInv'
  BY <1>10, OriginsGet
<1>11. ASSUME NEW e \in Fragile \ worn, GetLinkDown(e[1], e[2]) PROVE OriginsInv'
  <2>1. Link \ worn' \subseteq up'
    BY <1>11 DEF GetLinkDown, LinkDown, Disconnect, OriginsInv, OverLinks
  <2> QED BY <1>11, <2>1, OriginsLinks DEF GetLinkDown, LinkDown, Disconnect
<1>12. ASSUME NEW n \in Mortal, GetRestart(n) PROVE OriginsInv'
  BY <1>12, OriginsRestart
<1>13. CASE UNCHANGED allVars
  BY <1>13, OriginsAsker DEF allVars, getVars
<1> QED
  BY <1>1, <1>2, <1>3, <1>4, <1>5, <1>6, <1>7, <1>8, <1>9, <1>10, <1>11, <1>12, <1>13
     DEF RequestsNext, GetStep

\* Nothing has been asked or sent when the peers start.
LEMMA OriginsInit == RequestsInit => OriginsInv
<1> SUFFICES ASSUME RequestsInit PROVE OriginsInv
  OBVIOUS
<1> USE DEF RequestsInit, NetworkInit
<1>1. OwnIds
  BY DEF OwnIds
<1>2. KnownRecords
  <2>1. \A n \in Node, k \in Key : store[n][k] \in Kept \cup {NoData}
    OBVIOUS
  <2>2. \A n \in Node, k \in Key : Holds(n, k) => store[n][k].k = k /\ store[n][k] \in Known
    BY <2>1 DEF Holds, Known
  <2> QED BY <2>2 DEF KnownRecords
<1>3. KnownQuestions
  BY DEF KnownQuestions
<1>4. OverLinks
  BY DEF OverLinks
<1> QED BY <1>1, <1>2, <1>3, <1>4 DEF OriginsInv
-----------------------------------------------------------------------------
\* Connections that broke stay broken for the history, and calls are kept.
LEMMA HistoryKept ==
    ASSUME RequestsTypeOK, [RequestsNext]_allVars
    PROVE  worn \subseteq worn' /\ issued \subseteq issued'
<1> USE DEF networkVars, vars
<1>1. CASE PutStep
  BY <1>1 DEF PutStep, Tick, PutSigned, SendToAll, ReceiveDuplicate, Drop, Verified,
              Unverified, Compare, LinkUp, Connect
<1>2. CASE GetStep
  BY <1>2 DEF GetStep, FirstRead, LastRead, Timeout, ReceiveGet, ReceiveGetAgain, Answer,
              SendToClientId, RelayGet, ReceivePut, Receive, Accept
<1>3. ASSUME NEW n \in User, NEW k \in Key, NEW v \in Value, NEW to \in Excluded,
             FreshPut(n, k, v, to)
      PROVE  worn \subseteq worn' /\ issued \subseteq issued'
  BY <1>3 DEF FreshPut, Put
<1>4. ASSUME NEW n \in Asker, NEW k \in Key, Get(n, k)
      PROVE  worn \subseteq worn' /\ issued \subseteq issued'
  BY <1>4 DEF Get
<1>5. ASSUME NEW e \in Fragile \ worn, GetLinkDown(e[1], e[2])
      PROVE  worn \subseteq worn' /\ issued \subseteq issued'
  BY <1>5 DEF GetLinkDown, LinkDown, Disconnect
<1>6. ASSUME NEW n \in Mortal, GetRestart(n)
      PROVE  worn \subseteq worn' /\ issued \subseteq issued'
  BY <1>6 DEF GetRestart, Restart, Crash
<1>7. CASE UNCHANGED allVars
  BY <1>7 DEF allVars
<1> QED BY <1>1, <1>2, <1>3, <1>4, <1>5, <1>6, <1>7 DEF RequestsNext

\* What is undisturbed now always was.
LEMMA UndisturbedBefore ==
    ASSUME RequestsTypeOK, [RequestsNext]_allVars, Undisturbed'
    PROVE  Undisturbed /\ worn' = {}
<1>1. worn = {} /\ worn' = {} /\ issued \subseteq issued'
  BY HistoryKept DEF Undisturbed
<1>2. Known \subseteq Known'
  BY <1>1 DEF Known
<1>3. NobodyRefuses
  BY <1>2 DEF Undisturbed, NobodyRefuses
<1>4. AnswersComeBack
  BY DEF Undisturbed, AnswersComeBack
<1> QED BY <1>1, <1>3, <1>4 DEF Undisturbed

\* What a step may never undo: records come nearer, and what a peer newly
\* holds it has sent.
Progress ==
    /\ \A n \in Node, k \in Key :
          /\ Holds(n, k) => Holds(n, k)'
          /\ Got(n, k) => Got(n, k)'
          /\ Gets(n, k) => Gets(n, k)'
          /\ Spread(n, k) => Spread(n, k)'
          /\ Holds(n, k)' => Holds(n, k) \/ Spread(n, k)'
    /\ Known \subseteq Known'

\* A step that touches no record, message or handler of a put.
LEMMA ProgressSame ==
    ASSUME UNCHANGED <<store, net, verifying, comparing, issued, asked, forwarded>>
    PROVE  /\ Progress
           /\ \A n, k : /\ Holds(n, k)' <=> Holds(n, k)
                        /\ Got(n, k)' <=> Got(n, k)
                        /\ Gets(n, k)' <=> Gets(n, k)
                        /\ Spread(n, k)' <=> Spread(n, k)
           /\ \A i, k : IdOf(i, k)' <=> IdOf(i, k)
           /\ Known' = Known
<1>1. \A i, k : IdOf(i, k)' <=> IdOf(i, k)
  BY DEF IdOf
<1>2. \A n, k : Holds(n, k)' <=> Holds(n, k)
  BY DEF Holds
<1>3. \A n, k : Got(n, k)' <=> Got(n, k)
  BY <1>2 DEF Got
<1>4. \A n, k : Gets(n, k)' <=> Gets(n, k)
  BY <1>3 DEF Gets
<1>5. \A n, k : Spread(n, k)' <=> Spread(n, k)
  BY <1>1 DEF Spread
<1>6. Known' = Known
  BY DEF Known
<1> QED BY <1>1, <1>2, <1>3, <1>4, <1>5, <1>6 DEF Progress

\* What a step must show of what it adds, to keep Spreads.
LEMMA SpreadsKept ==
    ASSUME RequestsTypeOK, Spreads, Progress,
           \A n \in Node, k \in Key, m \in Server :
              Spread(n, k)' /\ <<n, m>> \in Link => Spread(n, k) \/ Gets(m, k)',
           \A x \in (net \cup verifying)' :
              \/ x \in net \cup verifying /\ x.data.k \in Key
              \/ \A y \in x.to \cap Server : Gets(y, x.data.k)',
           \A n \in Node, k \in Key : \A i \in processedIds'[n] :
              IdOf(i, k)' => (i \in processedIds[n] /\ IdOf(i, k)) \/ Got(n, k)',
           \A n, m \in Node : <<n, m>> \in Link => \A g \in outHashes'[n][m] :
              g \in outHashes[n][m] \/ \E r \in Known' : Hash(r) = g /\ Gets(m, r.k)',
           \A h \in verifying' :
              \/ h \in verifying /\ h.node \in Node /\ h.data.k \in Key
              \/ ~h.ok => Holds(h.node, h.data.k)',
           \A p \in issued' : p \in issued \/ p.to \cap Server = {}
    PROVE  Spreads'
<1>1. \A n \in Node, k \in Key, m \in Server : Spread(n, k)' /\ <<n, m>> \in Link => Gets(m, k)'
  BY ServerAssumption DEF Spreads, Progress
<1>2. \A x \in (net \cup verifying)' : \A y \in x.to \cap Server : Gets(y, x.data.k)'
  <2> SUFFICES ASSUME NEW x \in net \cup verifying, x.data.k \in Key, NEW y \in x.to \cap Server
               PROVE  Gets(y, x.data.k)'
    OBVIOUS
  <2>1. Gets(y, x.data.k) /\ y \in Node
    BY ServerAssumption DEF Spreads
  <2> QED BY <2>1 DEF Progress
<1>3. \A n \in Node, k \in Key : \A i \in processedIds'[n] : IdOf(i, k)' => Got(n, k)'
  BY DEF Spreads, Progress
<1>4. ASSUME NEW n \in Node, NEW m \in Node, <<n, m>> \in Link, NEW g \in outHashes'[n][m]
      PROVE  \E r \in Known' : Hash(r) = g /\ Gets(m, r.k)'
  <2>1. CASE g \in outHashes[n][m]
    <3>1. PICK r \in Known : Hash(r) = g /\ Gets(m, r.k)
      BY <1>4, <2>1 DEF Spreads
    <3>2. r.k \in Key /\ r \in Known'
      BY Parts, KeptAssumption DEF Known, Progress, Rec
    <3>3. Gets(m, r.k)'
      BY <3>1, <3>2 DEF Progress
    <3> QED BY <3>1, <3>2, <3>3
  <2> QED BY <1>4, <2>1
<1>5. \A h \in verifying' : ~h.ok => Holds(h.node, h.data.k)'
  BY DEF Spreads, Progress
<1>6. \A p \in issued' : p.to \cap Server = {}
  BY DEF Spreads
<1> QED BY <1>1, <1>2, <1>3, <1>4, <1>5, <1>6 DEF Spreads

\* sendToAll leaves messages on their way and marks the key of its record as sent.
LEMMA SendGrows ==
    ASSUME RequestsTypeOK, OriginsInv, NEW n \in Node, NEW id \in Id, NEW to, NEW data,
           NEW c \in BOOLEAN, SendToAll(n, id, to, data, c), IdOf(id, data.k),
           UNCHANGED <<asked, issued>>
    PROVE  /\ net \subseteq net'
           /\ Spread(n, data.k)'
           /\ \A m \in Node, k \in Key :
                 /\ Spread(m, k) => Spread(m, k)'
                 /\ Spread(m, k)' => Spread(m, k) \/ (m = n /\ k = data.k)
<1>1. forwarded \in [Node -> SUBSET Id]
  BY DEF RequestsTypeOK, TypeOK, NetworkTypeOK
<1>2. forwarded' = [forwarded EXCEPT ![n] = @ \cup {id}] /\ net \subseteq net'
  BY DEF SendToAll
<1>3. \A i, k : IdOf(i, k)' <=> IdOf(i, k)
  BY DEF IdOf
<1>4. id \in forwarded'[n] /\ IdOf(id, data.k)'
  BY <1>1, <1>2, <1>3
<1>5. \A m \in Node : \A i : i \in forwarded[m] => i \in forwarded'[m]
  BY <1>1, <1>2
<1>6. \A m \in Node : \A i : i \in forwarded'[m] => i \in forwarded[m] \/ (m = n /\ i = id)
  BY <1>1, <1>2
<1>7. \A k : IdOf(id, k) => k = data.k
  BY IdOfOne DEF OriginsInv
<1>8. Spread(n, data.k)'
  BY <1>4 DEF Spread
<1>9. ASSUME NEW m \in Node, NEW k \in Key, Spread(m, k) PROVE Spread(m, k)'
  BY <1>3, <1>5, <1>9 DEF Spread
<1>10. ASSUME NEW m \in Node, NEW k \in Key, Spread(m, k)'
       PROVE  Spread(m, k) \/ (m = n /\ k = data.k)
  <2>1. PICK i \in forwarded'[m] : IdOf(i, k)'
    BY <1>10 DEF Spread
  <2>2. IdOf(i, k)
    BY <2>1, <1>3
  <2> QED BY <2>1, <2>2, <1>6, <1>7 DEF Spread
<1> QED BY <1>2, <1>8, <1>9, <1>10

(***************************************************************************)
(* No server is left out by sendToAll that does not get the record anyway: *)
(* those in the list `to' do, and those that were sent the hash do.        *)
(***************************************************************************)
LEMMA SpreadsSend ==
    ASSUME RequestsTypeOK, OriginsInv, Undisturbed, Spreads, Progress,
           NEW n \in Node, NEW id \in Id, NEW to, NEW data \in Known, NEW c \in BOOLEAN,
           SendToAll(n, id, to, data, c), data.k \in Key,
           Gets(n, data.k)', \A y \in to \cap Server : Gets(y, data.k)'
    PROVE  /\ \A m \in Server : <<n, m>> \in Link => Gets(m, data.k)'
           /\ \A x \in net' : x \in net \/ \A y \in x.to \cap Server : Gets(y, x.data.k)'
           /\ \A a, b \in Node : <<a, b>> \in Link => \A g \in outHashes'[a][b] :
                 g \in outHashes[a][b] \/ \E r \in Known' : Hash(r) = g /\ Gets(b, r.k)'
           /\ processedIds' = processedIds
<1> DEFINE R == Recipients(n, to, Hash(data), c)
<1>1. net' = net \cup {[src |-> n, dst |-> m, id |-> id,
                        to |-> to \cup {n}, data |-> data] : m \in R}
  BY DEF SendToAll
<1>2. \A a, b \in Node :
         outHashes'[a][b] = IF a = n /\ b \in R
                            THEN outHashes[a][b] \cup {Hash(data)}
                            ELSE outHashes[a][b]
  BY DEF SendToAll, RequestsTypeOK, TypeOK, NetworkTypeOK
<1>3. ASSUME NEW m \in R PROVE Gets(m, data.k)'
  <2>1. PICK x : x = [src |-> n, dst |-> m, id |-> id, to |-> to \cup {n}, data |-> data]
    OBVIOUS
  <2>2. x \in net' /\ x.dst = m /\ x.data.k = data.k
    BY <1>1, <2>1
  <2> QED BY <2>2 DEF Gets
<1>4. ASSUME NEW x \in net', x \notin net PROVE \A y \in x.to \cap Server : Gets(y, x.data.k)'
  <2>1. PICK m \in R :
           x = [src |-> n, dst |-> m, id |-> id, to |-> to \cup {n}, data |-> data]
    BY <1>1, <1>4
  <2>2. x.to = to \cup {n} /\ x.data = data
    BY <2>1
  <2> QED BY <2>2
<1>5. data \in Known'
  BY DEF Progress
<1>6. ASSUME NEW a \in Node, NEW b \in Node, NEW g \in outHashes'[a][b], g \notin outHashes[a][b]
      PROVE  \E r \in Known' : Hash(r) = g /\ Gets(b, r.k)'
  <2>1. b \in R /\ g = Hash(data)
    BY <1>2, <1>6
  <2>2. Gets(b, data.k)'
    BY <1>3, <2>1
  <2> QED BY <1>5, <2>1, <2>2
<1>7. ASSUME NEW m \in Server, <<n, m>> \in Link PROVE Gets(m, data.k)'
  <2>0. m \in Node
    BY ServerAssumption
  <2>1. CASE m \in R
    BY <1>3, <2>1
  <2>2. CASE m \in to
    BY <2>2
  <2>3. CASE Hash(data) \in outHashes[n][m]
    <3>1. PICK r \in Known : Hash(r) = Hash(data) /\ Gets(m, r.k)
      BY <1>7, <2>0, <2>3 DEF Spreads
    <3>2. r = data
      BY <3>1 DEF Undisturbed, NobodyRefuses
    <3> QED BY <2>0, <3>1, <3>2 DEF Progress
  <2>4. <<n, m>> \in up
    BY <1>7 DEF OriginsInv, OverLinks, Undisturbed
  <2>5. m # n
    BY <1>7, LinkAssumption
  <2> QED BY <2>0, <2>1, <2>2, <2>3, <2>4, <2>5 DEF Recipients
<1>8. processedIds' = processedIds
  BY DEF SendToAll
<1> QED BY <1>4, <1>6, <1>7, <1>8

\* Messages and handlers that end leave their record with the peer.
LEMMA GotKept ==
    ASSUME \A n \in Node, k \in Key : Holds(n, k) => Holds(n, k)',
           \A h \in verifying \cup comparing :
              h \in (verifying \cup comparing)' \/ Got(h.node, h.data.k)',
           \A x \in net : x \in net' \/ Got(x.dst, x.data.k)'
    PROVE  \A n \in Node, k \in Key : (Got(n, k) => Got(n, k)') /\ (Gets(n, k) => Gets(n, k)')
<1>1. ASSUME NEW n \in Node, NEW k \in Key, Got(n, k) PROVE Got(n, k)'
  <2>1. CASE Holds(n, k)
    BY <2>1 DEF Got
  <2>2. ASSUME NEW h \in verifying \cup comparing, h.node = n, h.data.k = k PROVE Got(n, k)'
    BY <2>2 DEF Got
  <2> QED BY <1>1, <2>1, <2>2 DEF Got
<1>2. ASSUME NEW n \in Node, NEW k \in Key, Gets(n, k) PROVE Gets(n, k)'
  BY <1>1, <1>2 DEF Gets
<1> QED BY <1>1, <1>2

\* A call that is signed sends to whom the author is connected to.
LEMMA SpreadsPutSigned ==
    ASSUME RequestsTypeOK, OriginsInv, Undisturbed, Spreads,
           NEW p \in signing, PutSigned(p), UNCHANGED getVars
    PROVE  Progress /\ Spreads'
<1>1. p \in issued
  BY DEF OriginsInv, KnownRecords
<1>2. p.id \in Id /\ p.data \in Rec /\ p.data.k \in Key /\ p.data.a \in Node
  BY <1>1, Parts
<1>3. IdOf(p.id, p.data.k) /\ p.data \in Known
  BY <1>1 DEF IdOf, Known
<1>4. /\ SendToAll(p.data.a, p.id, p.to, p.data, FALSE)
      /\ store' = [store EXCEPT ![p.data.a][p.data.k] = p.data]
      /\ UNCHANGED <<verifying, comparing, issued, asked>>
  BY DEF PutSigned, getVars
<1>5. /\ net \subseteq net'
      /\ Spread(p.data.a, p.data.k)'
      /\ \A m \in Node, k \in Key :
            /\ Spread(m, k) => Spread(m, k)'
            /\ Spread(m, k)' => Spread(m, k) \/ (m = p.data.a /\ k = p.data.k)
  BY <1>2, <1>3, <1>4, SendGrows
<1>6. \A n \in Node, k \in Key :
         store'[n][k] = store[n][k] \/ (store'[n][k] = p.data /\ n = p.data.a /\ k = p.data.k)
  BY <1>2, <1>4 DEF RequestsTypeOK, TypeOK
<1>7. p.data # NoData /\ store'[p.data.a][p.data.k] = p.data
  BY <1>2, <1>4, NoDataAssumption DEF RequestsTypeOK, TypeOK
<1>8. \A n \in Node, k \in Key : /\ Holds(n, k) => Holds(n, k)'
                                 /\ Holds(n, k)' => Holds(n, k) \/ Spread(n, k)'
  BY <1>5, <1>6, <1>7 DEF Holds
<1>9. \A n \in Node, k \in Key : (Got(n, k) => Got(n, k)') /\ (Gets(n, k) => Gets(n, k)')
  BY <1>4, <1>5, <1>8, GotKept
<1>10. (\A i, k : IdOf(i, k)' <=> IdOf(i, k)) /\ Known' = Known
  BY <1>4 DEF IdOf, Known
<1>11. Progress
  BY <1>5, <1>8, <1>9, <1>10 DEF Progress
<1>12. Gets(p.data.a, p.data.k)'
  BY <1>7 DEF Gets, Got, Holds
<1>13. \A y \in p.to \cap Server : Gets(y, p.data.k)'
  BY <1>1 DEF Spreads
<1>14. /\ \A m \in Server : <<p.data.a, m>> \in Link => Gets(m, p.data.k)'
       /\ \A x \in net' : x \in net \/ \A y \in x.to \cap Server : Gets(y, x.data.k)'
       /\ \A a, b \in Node : <<a, b>> \in Link => \A g \in outHashes'[a][b] :
             g \in outHashes[a][b] \/ \E r \in Known' : Hash(r) = g /\ Gets(b, r.k)'
       /\ processedIds' = processedIds
  BY <1>2, <1>3, <1>4, <1>11, <1>12, <1>13, SpreadsSend
<1>15. \A n \in Node, k \in Key, m \in Server :
              Spread(n, k)' /\ <<n, m>> \in Link => Spread(n, k) \/ Gets(m, k)'
  BY <1>5, <1>14
<1>16. \A x \in (net \cup verifying)' :
              \/ x \in net \cup verifying /\ x.data.k \in Key
              \/ \A y \in x.to \cap Server : Gets(y, x.data.k)'
  BY <1>4, <1>14, Parts
<1>17. \A n \in Node, k \in Key : \A i \in processedIds'[n] :
              IdOf(i, k)' => (i \in processedIds[n] /\ IdOf(i, k)) \/ Got(n, k)'
  BY <1>10, <1>14
<1>18. \A h \in verifying' :
              \/ h \in verifying /\ h.node \in Node /\ h.data.k \in Key
              \/ ~h.ok => Holds(h.node, h.data.k)'
  BY <1>4, Parts
<1>19. \A q \in issued' : q \in issued \/ q.to \cap Server = {}
  BY <1>4
<1>20. Spreads'
  BY <1>11, <1>14, <1>15, <1>16, <1>17, <1>18, <1>19, SpreadsKept
<1> QED BY <1>11, <1>20

\* A handler that is verified relays to the servers.
LEMMA SpreadsVerified ==
    ASSUME RequestsTypeOK, OriginsInv, Undisturbed, Spreads,
           NEW h \in verifying, Verified(h), UNCHANGED getVars
    PROVE  Progress /\ Spreads'
<1>1. h.node \in Node /\ h.id \in Id /\ h.data \in Rec /\ h.data.k \in Key
  BY Parts
<1>2. IdOf(h.id, h.data.k) /\ h.data \in Known
  BY DEF OriginsInv, KnownRecords
<1>3. PICK g : g = [node |-> h.node, id |-> h.id, data |-> h.data, old |-> store[h.node][h.data.k]]
  OBVIOUS
<1>4. /\ SendToAll(h.node, h.id, h.to, h.data, TRUE)
      /\ verifying' = verifying \ {h} /\ comparing' = comparing \cup {g}
      /\ g.node = h.node /\ g.data = h.data
      /\ UNCHANGED <<store, issued, asked>>
  BY <1>3 DEF Verified, getVars
<1>5. /\ net \subseteq net'
      /\ Spread(h.node, h.data.k)'
      /\ \A m \in Node, k \in Key :
            /\ Spread(m, k) => Spread(m, k)'
            /\ Spread(m, k)' => Spread(m, k) \/ (m = h.node /\ k = h.data.k)
  BY ZenonT(30), <1>1, <1>2, <1>4, SendGrows
<1>6. \A n, k : Holds(n, k)' <=> Holds(n, k)
  BY <1>4 DEF Holds
<1>7. Got(h.node, h.data.k)'
  <2>1. g \in comparing' /\ g.node = h.node /\ g.data.k = h.data.k
    BY <1>4
  <2> QED BY <2>1 DEF Got
<1>8. \A n \in Node, k \in Key : (Got(n, k) => Got(n, k)') /\ (Gets(n, k) => Gets(n, k)')
  <2>1. \A f \in verifying \cup comparing :
              f \in (verifying \cup comparing)' \/ Got(f.node, f.data.k)'
    BY <1>4, <1>7
  <2> QED BY <1>5, <1>6, <2>1, GotKept
<1>9. (\A i, k : IdOf(i, k)' <=> IdOf(i, k)) /\ Known' = Known
  BY <1>4 DEF IdOf, Known
<1>10. Progress
  BY <1>5, <1>6, <1>8, <1>9 DEF Progress
<1>11. Gets(h.node, h.data.k)'
  BY <1>7 DEF Gets
<1>12. \A y \in h.to \cap Server : Gets(y, h.data.k)'
  <2> SUFFICES ASSUME NEW y \in h.to \cap Server PROVE Gets(y, h.data.k)'
    OBVIOUS
  <2>1. Gets(y, h.data.k) /\ y \in Node
    BY ServerAssumption DEF Spreads
  <2> QED BY <1>1, <1>8, <2>1
<1>13. /\ \A m \in Server : <<h.node, m>> \in Link => Gets(m, h.data.k)'
       /\ \A x \in net' : x \in net \/ \A y \in x.to \cap Server : Gets(y, x.data.k)'
       /\ \A a, b \in Node : <<a, b>> \in Link => \A d \in outHashes'[a][b] :
             d \in outHashes[a][b] \/ \E r \in Known' : Hash(r) = d /\ Gets(b, r.k)'
       /\ processedIds' = processedIds
  BY <1>1, <1>2, <1>4, <1>10, <1>11, <1>12, SpreadsSend
<1>14. \A n \in Node, k \in Key, m \in Server :
              Spread(n, k)' /\ <<n, m>> \in Link => Spread(n, k) \/ Gets(m, k)'
  BY <1>5, <1>13
<1>15. \A x \in (net \cup verifying)' :
              \/ x \in net \cup verifying /\ x.data.k \in Key
              \/ \A y \in x.to \cap Server : Gets(y, x.data.k)'
  BY <1>4, <1>13, Parts
<1>16. \A n \in Node, k \in Key : \A i \in processedIds'[n] :
              IdOf(i, k)' => (i \in processedIds[n] /\ IdOf(i, k)) \/ Got(n, k)'
  BY <1>9, <1>13
<1>17. \A f \in verifying' :
              \/ f \in verifying /\ f.node \in Node /\ f.data.k \in Key
              \/ ~f.ok => Holds(f.node, f.data.k)'
  BY <1>4, Parts
<1>18. \A q \in issued' : q \in issued \/ q.to \cap Server = {}
  BY <1>4
<1>19. Spreads'
  BY <1>10, <1>13, <1>14, <1>15, <1>16, <1>17, <1>18, SpreadsKept
<1> QED BY <1>10, <1>19

\* What drops a message, ends a handler or stores a record sends nothing.
LEMMA SpreadsSilent ==
    ASSUME RequestsTypeOK, OriginsInv, Spreads,
           UNCHANGED <<issued, asked, forwarded>>,
           net' \subseteq net, verifying' \subseteq verifying,
           \A n \in Node : processedIds'[n] \subseteq processedIds[n],
           \A a, b \in Node : outHashes'[a][b] \subseteq outHashes[a][b],
           \A n \in Node, k \in Key : /\ Holds(n, k) => Holds(n, k)'
                                      /\ Holds(n, k)' => Holds(n, k) \/ Spread(n, k),
           \A h \in verifying \cup comparing :
              h \in (verifying \cup comparing)' \/ Got(h.node, h.data.k)',
           \A x \in net : x \in net' \/ Got(x.dst, x.data.k)'
    PROVE  Progress /\ Spreads'
<1>1. (\A i, k : IdOf(i, k)' <=> IdOf(i, k)) /\ Known' = Known
  BY DEF IdOf, Known
<1>2. \A n, k : Spread(n, k)' <=> Spread(n, k)
  BY <1>1 DEF Spread
<1>3. \A n \in Node, k \in Key : (Got(n, k) => Got(n, k)') /\ (Gets(n, k) => Gets(n, k)')
  BY GotKept
<1>4. Progress
  BY <1>1, <1>2, <1>3 DEF Progress
<1>5. \A n \in Node, k \in Key, m \in Server :
              Spread(n, k)' /\ <<n, m>> \in Link => Spread(n, k) \/ Gets(m, k)'
  BY <1>2
<1>6. \A x \in (net \cup verifying)' :
              \/ x \in net \cup verifying /\ x.data.k \in Key
              \/ \A y \in x.to \cap Server : Gets(y, x.data.k)'
  BY Parts
<1>7. \A n \in Node, k \in Key : \A i \in processedIds'[n] :
              IdOf(i, k)' => (i \in processedIds[n] /\ IdOf(i, k)) \/ Got(n, k)'
  BY <1>1
<1>8. \A h \in verifying' :
              \/ h \in verifying /\ h.node \in Node /\ h.data.k \in Key
              \/ ~h.ok => Holds(h.node, h.data.k)'
  BY Parts
<1>9. \A n, m \in Node : <<n, m>> \in Link => \A g \in outHashes'[n][m] :
              g \in outHashes[n][m] \/ \E r \in Known' : Hash(r) = g /\ Gets(m, r.k)'
  OBVIOUS
<1>10. \A q \in issued' : q \in issued \/ q.to \cap Server = {}
  OBVIOUS
<1> QED BY <1>4, <1>5, <1>6, <1>7, <1>8, <1>9, <1>10, SpreadsKept

\* A message that is dropped as processed has left its record before.
LEMMA SpreadsDuplicate ==
    ASSUME RequestsTypeOK, OriginsInv, Spreads,
           NEW x \in net, ReceiveDuplicate(x), UNCHANGED getVars
    PROVE  Progress /\ Spreads'
<1>1. x.dst \in Node /\ x.data.k \in Key
  BY Parts
<1>2. x.id \in processedIds[x.dst] /\ IdOf(x.id, x.data.k)
  BY DEF ReceiveDuplicate, Processed, OriginsInv, KnownRecords
<1>3. Got(x.dst, x.data.k)
  BY <1>1, <1>2 DEF Spreads
<1>4. /\ net' = net \ {x}
      /\ UNCHANGED <<issued, asked, forwarded, processedIds, outHashes, store>>
      /\ UNCHANGED <<verifying, comparing>>
  BY DEF ReceiveDuplicate, Drop, getVars
<1>5. \A n, k : Holds(n, k)' <=> Holds(n, k)
  BY <1>4 DEF Holds
<1>6. Got(x.dst, x.data.k)'
  BY <1>3, <1>4, <1>5 DEF Got
<1>7. \A y \in net : y \in net' \/ Got(y.dst, y.data.k)'
  BY <1>4, <1>6
<1> QED BY <1>4, <1>5, <1>7, SpreadsSilent

\* Without custom verificators, what a peer refuses it holds a record for.
LEMMA SpreadsUnverified ==
    ASSUME RequestsTypeOK, OriginsInv, Undisturbed, Spreads,
           NEW h \in verifying, Unverified(h), UNCHANGED getVars
    PROVE  Progress /\ Spreads'
<1>1. /\ verifying' = verifying \ {h}
      /\ UNCHANGED <<issued, asked, forwarded, processedIds, outHashes, store, net, comparing>>
  BY DEF Unverified, networkVars, getVars
<1>2. ~h.ok
  BY DEF Unverified, Verdicts, Undisturbed, NobodyRefuses
<1>3. Holds(h.node, h.data.k)
  BY <1>2 DEF Spreads
<1>4. \A n, k : Holds(n, k)' <=> Holds(n, k)
  BY <1>1 DEF Holds
<1>5. Got(h.node, h.data.k)'
  BY <1>3, <1>4 DEF Got
<1>6. \A f \in verifying \cup comparing :
         f \in (verifying \cup comparing)' \/ Got(f.node, f.data.k)'
  BY <1>1, <1>5
<1> QED BY <1>1, <1>4, <1>6, SpreadsSilent

\* A comparison leaves a record in the store, the one it brought or another.
LEMMA SpreadsCompare ==
    ASSUME RequestsTypeOK, OriginsInv, Spreads,
           NEW h \in comparing, Compare(h), UNCHANGED getVars
    PROVE  Progress /\ Spreads'
<1>1. h.node \in Node /\ h.id \in Id /\ h.data \in Rec /\ h.data.k \in Key
  BY Parts
<1>2. IdOf(h.id, h.data.k) /\ h.id \in forwarded[h.node]
  BY DEF OriginsInv, KnownRecords
<1>3. Spread(h.node, h.data.k)
  BY <1>2 DEF Spread
<1>4. /\ comparing' = comparing \ {h}
      /\ store' = IF Replaces(h.old, h.data)
                  THEN [store EXCEPT ![h.node][h.data.k] = h.data]
                  ELSE store
      /\ UNCHANGED <<issued, asked, forwarded, processedIds, outHashes, net, verifying>>
  BY DEF Compare, networkVars, getVars
<1>5. store \in [Node -> [Key -> Rec \cup {NoData}]] /\ h.data # NoData
  BY <1>1, NoDataAssumption DEF RequestsTypeOK, TypeOK
<1>6. Holds(h.node, h.data.k)'
  <2>1. CASE Replaces(h.old, h.data)
    BY <1>1, <1>4, <1>5, <2>1 DEF Holds
  <2>2. CASE ~Replaces(h.old, h.data)
    <3>1. h.old # NoData
      BY <2>2 DEF Replaces
    <3>2. Holds(h.node, h.data.k)
      BY <3>1 DEF OriginsInv, KnownRecords
    <3> QED BY <1>4, <2>2, <3>2 DEF Holds
  <2> QED BY <2>1, <2>2
<1>7. \A n \in Node, k \in Key :
         store'[n][k] = store[n][k] \/ (n = h.node /\ k = h.data.k)
  BY <1>1, <1>4, <1>5
<1>8. \A n \in Node, k \in Key : /\ Holds(n, k) => Holds(n, k)'
                                 /\ Holds(n, k)' => Holds(n, k) \/ Spread(n, k)
  BY <1>3, <1>6, <1>7 DEF Holds
<1>9. Got(h.node, h.data.k)'
  BY <1>6 DEF Got
<1>10. \A f \in verifying \cup comparing :
         f \in (verifying \cup comparing)' \/ Got(f.node, f.data.k)'
  BY <1>4, <1>9
<1> QED BY <1>4, <1>8, <1>10, SpreadsSilent

\* A new put starts a handler, which refuses it only for a record of its key.
LEMMA SpreadsReceivePut ==
    ASSUME RequestsTypeOK, OriginsInv, Undisturbed, Spreads, NEW x \in net, ReceivePut(x)
    PROVE  Progress /\ Spreads'
<1>1. /\ x.src \in Node /\ x.dst \in Node /\ x.id \in Id /\ x.to \in SUBSET Node
      /\ x.data \in Rec /\ x.data.k \in Key
  BY Parts
<1>2. IdOf(x.id, x.data.k) /\ x.data \in Known /\ x.src \in x.to
  BY DEF OriginsInv, KnownRecords, OverLinks
<1>3. PICK h : h = [node |-> x.dst, id |-> x.id, to |-> x.to \cup {x.src}, data |-> x.data,
                    ok |-> /\ ~InFuture(x.dst, x.data)
                           /\ ~CantOverwrite(store[x.dst][x.data.k], x.data)]
  OBVIOUS
<1>4. /\ verifying' = verifying \cup {h}
      /\ h.node = x.dst /\ h.data = x.data /\ h.to = x.to
      /\ h.ok = (~InFuture(x.dst, x.data) /\ ~CantOverwrite(store[x.dst][x.data.k], x.data))
      /\ net' = net \ {x}
      /\ processedIds' = [processedIds EXCEPT ![x.dst] = @ \cup {x.id}]
      /\ UNCHANGED <<issued, asked, forwarded, outHashes, store, comparing>>
  BY <1>2, <1>3 DEF ReceivePut, Receive, Accept
<1>5. (\A i, k : IdOf(i, k)' <=> IdOf(i, k)) /\ Known' = Known
  BY <1>4 DEF IdOf, Known
<1>6. \A n, k : (Spread(n, k)' <=> Spread(n, k)) /\ (Holds(n, k)' <=> Holds(n, k))
  BY <1>4, <1>5 DEF Spread, Holds
<1>7. Got(x.dst, x.data.k)'
  <2>1. h \in verifying' /\ h.node = x.dst /\ h.data.k = x.data.k
    BY <1>4
  <2> QED BY <2>1 DEF Got
<1>8. \A n \in Node, k \in Key : (Got(n, k) => Got(n, k)') /\ (Gets(n, k) => Gets(n, k)')
  <2>1. \A y \in net : y \in net' \/ Got(y.dst, y.data.k)'
    BY <1>4, <1>7
  <2>2. verifying \cup comparing \subseteq (verifying \cup comparing)'
    BY <1>4
  <2> QED BY <1>6, <2>1, <2>2, GotKept
<1>9. Progress
  BY <1>5, <1>6, <1>8 DEF Progress
<1>10. ~h.ok => Holds(h.node, h.data.k)'
  <2>1. ~InFuture(x.dst, x.data)
    <3>1. ~(x.data.t > Skew[x.dst] + Tolerance)
      BY <1>1, <1>2 DEF Undisturbed, NobodyRefuses
    <3>2. clock \in Nat /\ x.data.t \in Int /\ Skew[x.dst] \in Int /\ Tolerance \in Int
      BY <1>1, ClockAssumption DEF RequestsTypeOK, TypeOK, Rec
    <3> QED BY <3>1, <3>2 DEF InFuture
  <2>2. CantOverwrite(store[x.dst][x.data.k], x.data) => Holds(x.dst, x.data.k)
    BY DEF CantOverwrite, Holds
  <2> QED BY <1>4, <1>6, <2>1, <2>2
<1>11. \A y \in h.to \cap Server : Gets(y, h.data.k)'
  <2> SUFFICES ASSUME NEW y \in x.to \cap Server PROVE Gets(y, x.data.k)'
    BY <1>4
  <2>1. Gets(y, x.data.k) /\ y \in Node
    BY ServerAssumption DEF Spreads
  <2> QED BY <1>1, <1>8, <2>1
<1>12. \A z \in (net \cup verifying)' :
              \/ z \in net \cup verifying /\ z.data.k \in Key
              \/ \A y \in z.to \cap Server : Gets(y, z.data.k)'
  BY <1>4, <1>11, Parts
<1>13. \A n \in Node, k \in Key : \A i \in processedIds'[n] :
              IdOf(i, k)' => (i \in processedIds[n] /\ IdOf(i, k)) \/ Got(n, k)'
  <2> SUFFICES ASSUME NEW n \in Node, NEW k \in Key, NEW i \in processedIds'[n],
                      IdOf(i, k), i \notin processedIds[n]
               PROVE  Got(n, k)'
    BY <1>5
  <2>1. n = x.dst /\ i = x.id
    BY <1>1, <1>4 DEF RequestsTypeOK, TypeOK, NetworkTypeOK
  <2>2. k = x.data.k
    BY <1>2, <2>1, IdOfOne DEF OriginsInv
  <2> QED BY <1>7, <2>1, <2>2
<1>14. \A f \in verifying' :
              \/ f \in verifying /\ f.node \in Node /\ f.data.k \in Key
              \/ ~f.ok => Holds(f.node, f.data.k)'
  BY <1>4, <1>10, Parts
<1>15. \A n \in Node, k \in Key, m \in Server :
              Spread(n, k)' /\ <<n, m>> \in Link => Spread(n, k) \/ Gets(m, k)'
  BY <1>6
<1>16. \A n, m \in Node : <<n, m>> \in Link => \A g \in outHashes'[n][m] :
              g \in outHashes[n][m] \/ \E r \in Known' : Hash(r) = g /\ Gets(m, r.k)'
  BY <1>4
<1>17. \A q \in issued' : q \in issued \/ q.to \cap Server = {}
  BY <1>4
<1> QED BY <1>9, <1>12, <1>13, <1>14, <1>15, <1>16, <1>17, SpreadsKept

(***************************************************************************)
(* An answer reaches the peer it is for, now or before: it is suppressed   *)
(* only by the hash of a record that peer gets.                            *)
(***************************************************************************)
LEMMA SpreadsAnswer ==
    ASSUME RequestsTypeOK, OriginsInv, Undisturbed, Spreads, NEW h \in looking, Answer(h)
    PROVE  Progress /\ Spreads' /\ Gets(h.from, h.key)'
<1>1. h.node \in Node /\ h.from \in Node /\ h.id \in Id /\ h.key \in Key
  BY Parts
<1>2. h.data.k = h.key /\ h.data \in Known /\ Holds(h.node, h.key)
  BY DEF Answer, OriginsInv, KnownRecords
<1>3. <<h.node, h.from>> \in Link
  BY <1>1, LinkAssumption DEF OriginsInv, KnownQuestions
<1>4. <<h.node, h.from>> \in up
  BY <1>3 DEF OriginsInv, OverLinks, Undisturbed
<1>5. PICK x : x = [src |-> h.node, dst |-> h.from, id |-> h.id, to |-> {h.node}, data |-> h.data]
  OBVIOUS
<1>6. x.dst = h.from /\ x.to = {h.node} /\ x.data = h.data
  BY <1>5
<1>7. /\ net' = net \cup {z \in {x} : Hash(h.data) \notin outHashes[h.node][h.from]}
      /\ outHashes' = [outHashes EXCEPT ![h.node][h.from] = @ \cup {Hash(h.data)}]
      /\ UNCHANGED <<issued, asked, forwarded, processedIds, store, verifying, comparing>>
  BY <1>4, <1>5 DEF Answer, SendToClientId
<1>8. (\A i, k : IdOf(i, k)' <=> IdOf(i, k)) /\ Known' = Known
  BY <1>7 DEF IdOf, Known
<1>9. \A n, k : (Spread(n, k)' <=> Spread(n, k)) /\ (Holds(n, k)' <=> Holds(n, k))
  BY <1>7, <1>8 DEF Spread, Holds
<1>10. net \subseteq net' /\ verifying \cup comparing \subseteq (verifying \cup comparing)'
  BY <1>7
<1>11. \A n \in Node, k \in Key : (Got(n, k) => Got(n, k)') /\ (Gets(n, k) => Gets(n, k)')
  BY <1>9, <1>10, GotKept
<1>12. Progress
  BY <1>8, <1>9, <1>11 DEF Progress
<1>13. Gets(h.from, h.key)'
  <2>1. CASE Hash(h.data) \in outHashes[h.node][h.from]
    <3>1. PICK r \in Known : Hash(r) = Hash(h.data) /\ Gets(h.from, r.k)
      BY <1>1, <1>3, <2>1 DEF Spreads
    <3>2. r = h.data
      BY <1>2, <3>1 DEF Undisturbed, NobodyRefuses
    <3> QED BY <1>1, <1>2, <1>11, <3>1, <3>2
  <2>2. CASE Hash(h.data) \notin outHashes[h.node][h.from]
    <3>1. x \in net' /\ x.dst = h.from /\ x.data.k = h.key
      BY <1>2, <1>6, <1>7, <2>2
    <3> QED BY <3>1 DEF Gets
  <2> QED BY <2>1, <2>2
<1>14. Gets(h.node, h.key)'
  BY <1>1, <1>2, <1>11 DEF Got, Gets
<1>15. \A z \in (net \cup verifying)' :
              \/ z \in net \cup verifying /\ z.data.k \in Key
              \/ \A y \in z.to \cap Server : Gets(y, z.data.k)'
  <2>1. \A z \in (net \cup verifying)' : z \in net \cup verifying \/ z = x
    BY <1>7
  <2>2. \A y \in x.to \cap Server : Gets(y, x.data.k)'
    BY <1>2, <1>6, <1>14
  <2> QED BY <2>1, <2>2, Parts
<1>16. \A n, m \in Node : <<n, m>> \in Link => \A g \in outHashes'[n][m] :
              g \in outHashes[n][m] \/ \E r \in Known' : Hash(r) = g /\ Gets(m, r.k)'
  <2> SUFFICES ASSUME NEW n \in Node, NEW m \in Node, NEW g \in outHashes'[n][m],
                      g \notin outHashes[n][m]
               PROVE  \E r \in Known' : Hash(r) = g /\ Gets(m, r.k)'
    OBVIOUS
  <2>1. n = h.node /\ m = h.from /\ g = Hash(h.data)
    BY <1>1, <1>7 DEF RequestsTypeOK, TypeOK, NetworkTypeOK
  <2> QED BY <1>2, <1>8, <1>13, <2>1
<1>17. \A n \in Node, k \in Key : \A i \in processedIds'[n] :
              IdOf(i, k)' => (i \in processedIds[n] /\ IdOf(i, k)) \/ Got(n, k)'
  BY <1>7, <1>8
<1>18. \A f \in verifying' :
              \/ f \in verifying /\ f.node \in Node /\ f.data.k \in Key
              \/ ~f.ok => Holds(f.node, f.data.k)'
  BY <1>7, Parts
<1>19. \A n \in Node, k \in Key, m \in Server :
              Spread(n, k)' /\ <<n, m>> \in Link => Spread(n, k) \/ Gets(m, k)'
  BY <1>9
<1>20. \A q \in issued' : q \in issued \/ q.to \cap Server = {}
  BY <1>7
<1>21. Spreads'
  BY <1>12, <1>15, <1>16, <1>17, <1>18, <1>19, <1>20, SpreadsKept
<1> QED BY <1>12, <1>13, <1>21

\* A call draws an id that nothing was done with, and sends no put yet.
LEMMA SpreadsCalled ==
    ASSUME RequestsTypeOK, OriginsInv, Spreads,
           UNCHANGED <<store, net, verifying, comparing, forwarded, processedIds, outHashes>>,
           asked \subseteq asked', issued \subseteq issued',
           NEW id \in Id, id \notin AskedIds, \A p \in issued : p.id # id,
           \A c \in asked' : c \in asked \/ c.id = id,
           \A p \in issued' : p \in issued \/ (p.id = id /\ p.to \cap Server = {})
    PROVE  /\ Progress /\ Spreads'
           /\ \A n \in Node, k \in Key : /\ Gets(n, k)' <=> Gets(n, k)
                                         /\ Spread(n, k)' <=> Spread(n, k)
                                         /\ Holds(n, k)' <=> Holds(n, k)
<1>1. \A i, k : IdOf(i, k) => IdOf(i, k)'
  BY DEF IdOf
<1>2. \A i, k : i # id => (IdOf(i, k)' => IdOf(i, k))
  BY DEF IdOf
<1>3. ASSUME NEW n \in Node PROVE id \notin processedIds[n] \cup forwarded[n]
  BY <1>3, FreshId DEF OriginsInv
<1>4. Known \subseteq Known'
  BY DEF Known
<1>5. \A n, k : Holds(n, k)' <=> Holds(n, k)
  BY DEF Holds
<1>6. \A n, k : Got(n, k)' <=> Got(n, k)
  BY <1>5 DEF Got
<1>7. \A n, k : Gets(n, k)' <=> Gets(n, k)
  BY <1>6 DEF Gets
<1>8. \A n \in Node, k \in Key : Spread(n, k)' <=> Spread(n, k)
  BY <1>1, <1>2, <1>3 DEF Spread
<1>9. Progress
  BY <1>4, <1>5, <1>6, <1>7, <1>8 DEF Progress
<1>10. \A n \in Node, k \in Key : \A i \in processedIds'[n] :
              IdOf(i, k)' => (i \in processedIds[n] /\ IdOf(i, k)) \/ Got(n, k)'
  BY <1>2, <1>3
<1>11. \A x \in (net \cup verifying)' :
              \/ x \in net \cup verifying /\ x.data.k \in Key
              \/ \A y \in x.to \cap Server : Gets(y, x.data.k)'
  BY Parts
<1>12. \A h \in verifying' :
              \/ h \in verifying /\ h.node \in Node /\ h.data.k \in Key
              \/ ~h.ok => Holds(h.node, h.data.k)'
  BY Parts
<1>13. \A n \in Node, k \in Key, m \in Server :
              Spread(n, k)' /\ <<n, m>> \in Link => Spread(n, k) \/ Gets(m, k)'
  BY <1>8
<1>14. \A n, m \in Node : <<n, m>> \in Link => \A g \in outHashes'[n][m] :
              g \in outHashes[n][m] \/ \E r \in Known' : Hash(r) = g /\ Gets(m, r.k)'
  OBVIOUS
<1>15. Spreads'
  BY <1>9, <1>10, <1>11, <1>12, <1>13, <1>14, SpreadsKept
<1> QED BY <1>5, <1>7, <1>8, <1>9, <1>15

\* A new call of putData keeps Spreads: nobody excludes a server.
LEMMA SpreadsFreshPut ==
    ASSUME RequestsTypeOK, OriginsInv, Undisturbed, Spreads, NEW n \in User, NEW k \in Key,
           NEW v \in Value, NEW to \in Excluded, FreshPut(n, k, v, to)
    PROVE  Progress /\ Spreads'
<1>1. PICK id \in Id :
        /\ id \notin {p.id : p \in issued}
        /\ LET call == [id |-> id, to |-> to,
                        data |-> [k |-> k, a |-> n, t |-> clock + Skew[n], v |-> v]]
           IN  signing' = signing \cup {call} /\ issued' = issued \cup {call}
  BY DEF FreshPut, Put
<1>2. PICK call : call = [id |-> id, to |-> to,
                          data |-> [k |-> k, a |-> n, t |-> clock + Skew[n], v |-> v]]
  OBVIOUS
<1>3. /\ issued' = issued \cup {call} /\ call.id = id /\ call.to = to /\ call \in issued'
      /\ \A p \in issued : p.id # id
  BY <1>1, <1>2
<1>4. /\ UNCHANGED <<store, net, verifying, comparing, forwarded, processedIds, outHashes, asked>>
      /\ id \notin AskedIds
  BY <1>3 DEF FreshPut, Put, networkVars, getVars
<1>5. to \cap Server = {}
  BY DEF Undisturbed, AnswersComeBack
<1> QED BY <1>3, <1>4, <1>5, SpreadsCalled

\* Where no connection ever broke, a peer that stops has none.
LEMMA Alone ==
    ASSUME RequestsTypeOK, OriginsInv, NEW n \in Mortal, GetRestart(n), worn' = {}
    PROVE  /\ n \in Node
           /\ UNCHANGED <<store, net, verifying, comparing, issued, asked, forwarded>>
           /\ UNCHANGED <<askedIds, asking, looking>>
<1>1. n \in Node
  BY FaultAssumption
<1>2. ~ \E e \in Link : n \in {e[1], e[2]}
  BY DEF GetRestart, Restart, Crash
<1>3. \A m : <<m, n>> \notin Link /\ <<n, m>> \notin Link
  <2> SUFFICES ASSUME NEW m PROVE <<m, n>> \notin Link /\ <<n, m>> \notin Link
    OBVIOUS
  <2> QED BY <1>2
<1>4. ~Connection(n)
  BY <1>3 DEF Connection
<1>5. /\ \A x \in net : n \notin {x.src, x.dst}
      /\ \A h \in verifying \cup comparing : h.node # n
      /\ askedIds[n] = {}
  BY <1>1, <1>3, <1>4 DEF OriginsInv, OverLinks
<1>6. /\ \A y \in asking : n \notin {y.src, y.dst}
      /\ \A h \in looking : h.node # n
  BY <1>3 DEF OriginsInv, KnownQuestions
<1>7. askedIds' = askedIds
  BY <1>1, <1>5 DEF GetRestart, RequestsTypeOK
<1>8. net' = net /\ verifying' = verifying /\ comparing' = comparing
  BY <1>5 DEF GetRestart, Restart, Crash
<1>9. asking' = asking /\ looking' = looking
  BY <1>6 DEF GetRestart
<1>10. UNCHANGED <<store, issued, asked, forwarded>>
  BY DEF GetRestart, Restart, Crash
<1> QED BY <1>1, <1>7, <1>8, <1>9, <1>10

\* A peer without connections loses nothing that matters to others.
LEMMA SpreadsRestart ==
    ASSUME RequestsTypeOK, OriginsInv, Spreads, NEW n \in Mortal, GetRestart(n), worn' = {}
    PROVE  Progress /\ Spreads'
<1>1. /\ n \in Node
      /\ UNCHANGED <<store, net, verifying, comparing, issued, asked, forwarded>>
  BY Alone
<1>2. /\ \A m \in Node : processedIds'[m] \subseteq processedIds[m]
      /\ \A a, b \in Node : outHashes'[a][b] \subseteq outHashes[a][b]
  BY <1>1 DEF GetRestart, Restart, Crash, RequestsTypeOK, TypeOK, NetworkTypeOK
<1>3. \A m, k : Holds(m, k)' <=> Holds(m, k)
  BY <1>1 DEF Holds
<1> QED BY <1>1, <1>2, <1>3, SpreadsSilent

\* A step that touches no put keeps Spreads.
LEMMA SpreadsSame ==
    ASSUME RequestsTypeOK, OriginsInv, Spreads,
           UNCHANGED <<store, net, verifying, comparing, issued, asked, forwarded,
                       processedIds, outHashes>>
    PROVE  Progress /\ Spreads'
<1>1. \A m, k : Holds(m, k)' <=> Holds(m, k)
  BY DEF Holds
<1> QED BY <1>1, SpreadsSilent
-----------------------------------------------------------------------------
\* What was met, lacking and answered stays so.
LEMMA TrailKept ==
    ASSUME RequestsTypeOK, NEW c \in asked, Progress,
           \A n \in Node : askedIds[n] \subseteq askedIds'[n]
    PROVE  \A n \in Node : /\ Met(c, n) => Met(c, n)'
                           /\ Lacked(c, n) => Lacked(c, n)'
                           /\ Answered(c, n) => Answered(c, n)'
<1>1. c.key \in Key
  BY Parts
<1>2. \A n \in Node : Met(c, n) => Met(c, n)'
  BY DEF Met
<1>3. \A n \in Node : Lacked(c, n) => Lacked(c, n)'
  BY <1>1 DEF Lacked, Progress
<1>4. \A n \in Node : Answered(c, n) => Answered(c, n)'
  BY <1>1, <1>2, <1>3 DEF Answered, Progress
<1> QED BY <1>2, <1>3, <1>4

(***************************************************************************)
(* A question that goes on from a server that lacks the key stays where    *)
(* such servers take it.                                                   *)
(***************************************************************************)
LEMMA TroddenKept ==
    ASSUME NEW c, Trodden(c),
           \A n \in Node : (Met(c, n) => Met(c, n)') /\ (Lacked(c, n) => Lacked(c, n)'),
           \A m \in Node : Asked(c, m)' =>
              \/ Asked(c, m)
              \/ \E n \in Server \cap Node :
                    Asked(c, n) /\ Met(c, n)' /\ Lacked(c, n)' /\ <<n, m>> \in Link
    PROVE  Trodden(c)'
<1> SUFFICES ASSUME NEW S \in SUBSET Node, c.node \in S,
                    \A n \in S \cap Server, m \in Node :
                       Met(c, n)' /\ Lacked(c, n)' /\ <<n, m>> \in Link => m \in S,
                    NEW m \in Node, Asked(c, m)'
             PROVE  m \in S
  BY DEF Trodden
<1>1. \A n \in S \cap Server, l \in Node :
         Met(c, n) /\ Lacked(c, n) /\ <<n, l>> \in Link => l \in S
  OBVIOUS
<1>2. \A l \in Node : Asked(c, l) => l \in S
  BY <1>1 DEF Trodden
<1> QED BY <1>2

\* What a step must show of the questions it moves, to keep Questioned(c).
LEMMA QuestionedKept ==
    ASSUME RequestsTypeOK, Progress, NEW c \in asked, Questioned(c),
           \A n \in Node : askedIds[n] \subseteq askedIds'[n],
           \A n \in Node : Asked(c, n) => Asked(c, n)',
           \A n \in Node : Met(c, n)' => Met(c, n) \/ \E h \in looking' : h.node = n /\ h.id = c.id,
           \A h \in looking : h.id = c.id =>
              h \in looking' \/ Passed(c, h.node)' \/ Answered(c, h.node)',
           \A y \in asking' : y.id = c.id =>
              \/ y \in asking
              \/ Met(c, y.src)' /\ Lacked(c, y.src)' /\ \A m \in y.to : Asked(c, m)',
           \A h \in looking' : h.id = c.id =>
              \/ h \in looking
              \/ /\ Met(c, h.from)' /\ Lacked(c, h.from)' /\ \A m \in h.to : Asked(c, m)'
                 /\ h.data = NoData => Lacked(c, h.node)'
                 /\ Met(c, h.node)',
           \A m \in Node : Asked(c, m)' =>
              \/ Asked(c, m)
              \/ \E n \in Server \cap Node :
                    Asked(c, n) /\ Met(c, n)' /\ Lacked(c, n)' /\ <<n, m>> \in Link
    PROVE  Questioned(c)'
<1>1. \A n \in Node : /\ Met(c, n) => Met(c, n)'
                      /\ Lacked(c, n) => Lacked(c, n)'
                      /\ Answered(c, n) => Answered(c, n)'
  BY TrailKept
<1>2. \A n \in Node : Passed(c, n) => Passed(c, n)'
  BY <1>1 DEF Passed
<1>3. ASSUME NEW n \in Node, Met(c, n)'
      PROVE  \/ \E h \in looking' : h.node = n /\ h.id = c.id
             \/ Passed(c, n)'
             \/ Answered(c, n)'
  <2>1. CASE Met(c, n)
    <3>1. CASE \E h \in looking : h.node = n /\ h.id = c.id
      BY <3>1
    <3>2. CASE Passed(c, n) \/ Answered(c, n)
      BY <1>1, <1>2, <3>2
    <3> QED BY <2>1, <3>1, <3>2 DEF Questioned
  <2> QED BY <1>3, <2>1
<1>4. ASSUME NEW y \in asking', y.id = c.id
      PROVE  Met(c, y.src)' /\ Lacked(c, y.src)' /\ \A m \in y.to : Asked(c, m)'
  <2>1. CASE y \in asking
    <3>1. /\ y.src \in Node /\ y.to \in SUBSET Node
          /\ Met(c, y.src) /\ Lacked(c, y.src) /\ \A m \in y.to : Asked(c, m)
      BY <1>4, <2>1, Parts DEF Questioned
    <3> QED BY <1>1, <3>1
  <2> QED BY <1>4, <2>1
<1>5. ASSUME NEW h \in looking', h.id = c.id
      PROVE  /\ Met(c, h.from)' /\ Lacked(c, h.from)' /\ \A m \in h.to : Asked(c, m)'
             /\ h.data = NoData => Lacked(c, h.node)'
             /\ Met(c, h.node)'
  <2>1. CASE h \in looking
    <3>1. /\ h.from \in Node /\ h.node \in Node /\ h.to \in SUBSET Node
          /\ Met(c, h.from) /\ Lacked(c, h.from) /\ \A m \in h.to : Asked(c, m)
          /\ h.data = NoData => Lacked(c, h.node)
          /\ Met(c, h.node)
      BY <1>5, <2>1, Parts DEF Questioned
    <3> QED BY <1>1, <3>1
  <2> QED BY <1>5, <2>1
<1>6. Trodden(c)'
  BY <1>1, TroddenKept DEF Questioned
<1>7. \A h \in c.held : h[1] \in Node /\ Holds(h[1], c.key)'
  <2>1. c.key \in Key
    BY Parts
  <2> QED BY <2>1 DEF Questioned, Progress
<1> QED BY <1>3, <1>4, <1>5, <1>6, <1>7 DEF Questioned

\* A step that moves no question keeps where it is.
LEMMA QuestionedSame ==
    ASSUME RequestsTypeOK, Progress, NEW c \in asked, Questioned(c),
           UNCHANGED <<asking, askedIds, looking>>
    PROVE  Questioned(c)'
<1>1. \A n : (Met(c, n)' <=> Met(c, n)) /\ (Asked(c, n)' <=> Asked(c, n))
  BY DEF Met, Asked
<1> QED BY <1>1, QuestionedKept

\* The call a question or a handler of one is of.
LEMMA CallOfQuestion ==
    ASSUME OriginsInv, NEW c \in asked, NEW q \in asking \cup looking, q.id = c.id
    PROVE  q.key = c.key /\ c.node \in q.to
<1>1. PICK d \in asked : d.id = q.id /\ d.key = q.key /\ d.node \in q.to
  BY DEF OriginsInv, KnownQuestions
<1>2. d = c
  BY <1>1 DEF OriginsInv, OwnIds
<1> QED BY <1>1, <1>2

\* A peer that takes a question reads its store for it.
LEMMA QuestionedReceiveGet ==
    ASSUME RequestsTypeOK, OriginsInv, Progress, NEW c \in asked, Questioned(c),
           NEW y \in asking, ReceiveGet(y)
    PROVE  Questioned(c)'
<1>1. y.src \in Node /\ y.dst \in Node /\ y.id \in Id /\ y.key \in Key /\ y.to \in SUBSET Node
  BY Parts
<1>2. PICK h : h = [node |-> y.dst, from |-> y.src, id |-> y.id, key |-> y.key,
                    to |-> y.to \cup {y.src}, data |-> store[y.dst][y.key]]
  OBVIOUS
<1>3. /\ looking' = looking \cup {h} /\ asking' = asking \ {y}
      /\ h.node = y.dst /\ h.from = y.src /\ h.id = y.id /\ h.key = y.key
      /\ h.to = y.to \cup {y.src} /\ h.data = store[y.dst][y.key]
      /\ store' = store
  BY <1>2 DEF ReceiveGet, vars
<1>4. \A n \in Node : \A i : i \in askedIds'[n] <=> i \in askedIds[n] \/ (n = y.dst /\ i = y.id)
  BY <1>1 DEF ReceiveGet, RequestsTypeOK
<1>5. \A n \in Node : /\ Met(c, n) => Met(c, n)'
                      /\ Lacked(c, n) => Lacked(c, n)'
  <2>1. \A n \in Node : askedIds[n] \subseteq askedIds'[n]
    BY <1>4
  <2> QED BY <2>1, TrailKept
<1>6. \A n \in Node : Met(c, n)' => Met(c, n) \/ (n = y.dst /\ y.id = c.id)
  BY <1>4 DEF Met
<1>7. y.id = c.id => Met(c, y.dst)'
  BY <1>1, <1>4 DEF Met
<1>8. \A n \in Node : Asked(c, n) => Asked(c, n)'
  BY <1>3, <1>5, <1>7 DEF Asked
<1>9. \A n \in Node : Asked(c, n)' => Asked(c, n)
  BY <1>3, <1>6 DEF Asked
<1>10. \A n \in Node : Met(c, n)' => Met(c, n) \/ \E g \in looking' : g.node = n /\ g.id = c.id
  BY <1>3, <1>6
<1>11. ASSUME h.id = c.id
       PROVE  /\ Met(c, h.from)' /\ Lacked(c, h.from)' /\ \A m \in h.to : Asked(c, m)'
              /\ h.data = NoData => Lacked(c, h.node)'
              /\ Met(c, h.node)'
  <2>1. /\ Met(c, y.src) /\ Lacked(c, y.src) /\ \A m \in y.to : Asked(c, m)
        /\ y.src \in y.to /\ y.key = c.key
    <3>1. y.id = c.id
      BY <1>3, <1>11
    <3>2. y.key = c.key
      BY <3>1, CallOfQuestion
    <3>3. y.src \in y.to
      BY DEF OriginsInv, KnownQuestions
    <3> QED BY <3>1, <3>2, <3>3 DEF Questioned
  <2>2. h.data = NoData => Lacked(c, y.dst)
    BY <1>3, <2>1 DEF Lacked, Holds
  <2> QED BY <1>1, <1>3, <1>5, <1>7, <1>8, <1>11, <2>1, <2>2
<1>12. \A g \in looking' : g.id = c.id =>
              \/ g \in looking
              \/ /\ Met(c, g.from)' /\ Lacked(c, g.from)' /\ \A m \in g.to : Asked(c, m)'
                 /\ g.data = NoData => Lacked(c, g.node)'
                 /\ Met(c, g.node)'
  BY <1>3, <1>11
<1>13. \A n \in Node : askedIds[n] \subseteq askedIds'[n]
  BY <1>4
<1>14. looking \subseteq looking' /\ asking' \subseteq asking
  BY <1>3
<1> QED BY <1>8, <1>9, <1>10, <1>12, <1>13, <1>14, QuestionedKept

\* A question that comes again is dropped.
LEMMA QuestionedReceiveGetAgain ==
    ASSUME RequestsTypeOK, OriginsInv, Progress, NEW c \in asked, Questioned(c),
           NEW y \in asking, ReceiveGetAgain(y)
    PROVE  Questioned(c)'
<1>1. y.id \in askedIds[y.dst] /\ asking' = asking \ {y} /\ UNCHANGED <<askedIds, looking>>
  BY DEF ReceiveGetAgain
<1>2. \A n : Met(c, n)' <=> Met(c, n)
  BY <1>1 DEF Met
<1>3. \A n : Asked(c, n)' <=> Asked(c, n)
  BY <1>1, <1>2 DEF Asked, Met
<1> QED BY <1>1, <1>2, <1>3, QuestionedKept

(***************************************************************************)
(* A peer that asks on leaves nobody out it is connected to; a client that *)
(* asks on has nobody but the peer that asked it.                          *)
(***************************************************************************)
LEMMA QuestionedRelayGet ==
    ASSUME RequestsTypeOK, OriginsInv, Undisturbed, Progress, NEW c \in asked, Questioned(c),
           NEW h \in looking, RelayGet(h)
    PROVE  Questioned(c)'
<1>1. h.node \in Node /\ h.from \in Node /\ h.id \in Id /\ h.key \in Key /\ h.to \in SUBSET Node
  BY Parts
<1>2. /\ looking' = looking \ {h} /\ askedIds' = askedIds
      /\ asking' = asking \cup Questions(h.node, h.id, h.key, h.to)
      /\ h.data = NoData
  BY DEF RelayGet
<1>3. \A n : Met(c, n)' <=> Met(c, n)
  BY <1>2 DEF Met
<1>4. \A n \in Node : Asked(c, n) => Asked(c, n)'
  BY <1>2, <1>3 DEF Asked
<1>5. \A n \in Node : Lacked(c, n) => Lacked(c, n)'
  BY <1>2, TrailKept
<1>6. ASSUME NEW y \in asking', y \notin asking
      PROVE  /\ y.src = h.node /\ y.dst \in Node /\ y.id = h.id /\ y.to = h.to \cup {h.node}
             /\ <<h.node, y.dst>> \in Link /\ y.dst \notin h.to
  <2>1. PICK m \in Node : /\ <<h.node, m>> \in up /\ m \notin h.to \cup {h.node}
                          /\ y = [src |-> h.node, dst |-> m, id |-> h.id, key |-> h.key,
                                  to |-> h.to \cup {h.node}]
    BY <1>2, <1>6 DEF Questions
  <2>2. y.src = h.node /\ y.dst = m /\ y.id = h.id /\ y.to = h.to \cup {h.node}
    BY <2>1
  <2> QED BY <2>1, <2>2 DEF RequestsTypeOK, TypeOK, NetworkTypeOK
<1>7. CASE h.id # c.id
  <2>1. \A y \in asking' : y.id = c.id => y \in asking
    BY <1>6, <1>7
  <2>2. \A n \in Node : Asked(c, n)' => Asked(c, n)
    BY <1>3, <2>1 DEF Asked
  <2>3. \A g \in looking : g.id = c.id => g \in looking'
    BY <1>2, <1>7
  <2> QED BY <1>2, <1>3, <1>4, <2>1, <2>2, <2>3, QuestionedKept
<1>8. CASE h.id = c.id
  <2>1. /\ Met(c, h.from) /\ Lacked(c, h.node) /\ Met(c, h.node)
        /\ \A m \in h.to : Asked(c, m)
    BY <1>2, <1>8 DEF Questioned
  <2>2. ASSUME NEW m \in Node, <<h.node, m>> \in Link PROVE Asked(c, m)'
    <3>1. CASE m \in h.to
      BY <1>4, <2>1, <3>1
    <3>2. CASE m \notin h.to
      <4>1. m # h.node /\ <<h.node, m>> \in up
        BY <2>2, LinkAssumption DEF OriginsInv, OverLinks, Undisturbed
      <4>2. PICK y : y = [src |-> h.node, dst |-> m, id |-> h.id, key |-> h.key,
                          to |-> h.to \cup {h.node}]
        OBVIOUS
      <4>3. y \in asking' /\ y.id = c.id /\ y.dst = m
        BY <1>2, <1>8, <3>2, <4>1, <4>2 DEF Questions
      <4> QED BY <4>3 DEF Asked
    <3> QED BY <3>1, <3>2
  <2>3. Passed(c, h.node)'
    BY <1>1, <1>5, <2>1, <2>2 DEF Passed
  <2>4. ASSUME NEW y \in asking', y \notin asking
        PROVE  Met(c, y.src)' /\ Lacked(c, y.src)' /\ \A m \in y.to : Asked(c, m)'
    <3>1. y.src = h.node /\ y.to = h.to \cup {h.node}
      BY <1>6, <2>4
    <3>2. Asked(c, h.node)'
      BY <1>3, <2>1 DEF Asked
    <3>3. \A m \in h.to : Asked(c, m)'
      BY <1>1, <1>4, <2>1
    <3> QED BY <1>1, <1>3, <1>5, <2>1, <3>1, <3>2, <3>3
  <2>5. ASSUME NEW m \in Node, Asked(c, m)', ~Asked(c, m)
        PROVE  \E n \in Server \cap Node :
                  Asked(c, n) /\ Met(c, n)' /\ Lacked(c, n)' /\ <<n, m>> \in Link
    <3>1. PICK y \in asking' : y.id = c.id /\ y.dst = m
      BY <1>3, <2>5 DEF Asked
    <3>2. y \notin asking
      BY <2>5, <3>1 DEF Asked
    <3>3. <<h.node, m>> \in Link /\ m \notin h.to
      BY <1>6, <3>1, <3>2
    <3>4. h.node \in Server
      <4>1. h.from \in h.to /\ <<h.node, h.from>> \in Link
        BY <1>1, LinkAssumption DEF OriginsInv, KnownQuestions
      <4>2. <<h.node, h.from>>[1] = h.node /\ <<h.node, m>>[1] = h.node
        OBVIOUS
      <4>3. h.node \notin Server => <<h.node, h.from>> = <<h.node, m>>
        BY <3>3, <4>1, <4>2 DEF Undisturbed, AnswersComeBack
      <4>4. <<h.node, h.from>> = <<h.node, m>> => h.from = m
        OBVIOUS
      <4> QED BY <3>3, <4>1, <4>3, <4>4
    <3>5. Asked(c, h.node)
      BY <2>1 DEF Asked
    <3> QED BY <1>1, <1>3, <1>5, <2>1, <3>3, <3>4, <3>5
  <2>6. \A g \in looking : g.id = c.id =>
              g \in looking' \/ Passed(c, g.node)' \/ Answered(c, g.node)'
    BY <1>2, <2>3
  <2> QED BY <1>2, <1>3, <1>4, <2>4, <2>5, <2>6, QuestionedKept
<1> QED BY <1>7, <1>8

\* A peer that answers leaves a record with a peer that lacked it.
LEMMA QuestionedAnswer ==
    ASSUME RequestsTypeOK, OriginsInv, Progress, NEW c \in asked, Questioned(c),
           NEW h \in looking, Answer(h), Gets(h.from, h.key)'
    PROVE  Questioned(c)'
<1>1. h.node \in Node /\ h.from \in Node /\ h.key \in Key
  BY Parts
<1>2. /\ looking' = looking \ {h} /\ h.data # NoData
      /\ UNCHANGED <<asking, askedIds>>
  BY DEF Answer
<1>3. \A n : (Met(c, n)' <=> Met(c, n)) /\ (Asked(c, n)' <=> Asked(c, n))
  BY <1>2 DEF Met, Asked
<1>4. ASSUME h.id = c.id PROVE Answered(c, h.node)'
  <2>1. h.key = c.key
    BY <1>4, CallOfQuestion
  <2>2. Met(c, h.from) /\ Lacked(c, h.from)
    BY <1>4 DEF Questioned
  <2>3. Met(c, h.from)' /\ Lacked(c, h.from)'
    BY <1>1, <1>2, <2>2, TrailKept
  <2>4. Holds(h.node, c.key)'
    BY <1>1, <1>2, <2>1 DEF OriginsInv, KnownRecords, Progress
  <2> QED BY <1>1, <2>1, <2>3, <2>4 DEF Answered
<1>5. \A g \in looking : g.id = c.id =>
              g \in looking' \/ Passed(c, g.node)' \/ Answered(c, g.node)'
  BY <1>2, <1>4
<1> QED BY <1>2, <1>3, <1>5, QuestionedKept

\* A new get asks everybody its peer is connected to.
LEMMA QuestionedGet ==
    ASSUME RequestsTypeOK, OriginsInv, Undisturbed, QuestionsInv, Progress,
           NEW n \in Asker, NEW k \in Key, Get(n, k),
           \A m \in Node, l \in Key : Holds(m, l)' <=> Holds(m, l)
    PROVE  QuestionsInv'
<1>1. PICK id \in Id :
        /\ id \notin AskedIds \cup {p.id : p \in issued}
        /\ asked' = asked \cup
             {[id |-> id, node |-> n, key |-> k,
               held |-> {<<m, store[m][k]>> : m \in {m \in Node : store[m][k] # NoData}}]}
        /\ asking' = asking \cup Questions(n, id, k, {})
  BY DEF Get
<1>2. PICK call : call = [id |-> id, node |-> n, key |-> k,
               held |-> {<<m, store[m][k]>> : m \in {m \in Node : store[m][k] # NoData}}]
  OBVIOUS
<1>3. /\ asked' = asked \cup {call} /\ call.id = id /\ call.node = n /\ call.key = k
      /\ call.held = {<<m, store[m][k]>> : m \in {m \in Node : store[m][k] # NoData}}
  BY <1>1, <1>2
<1>4. n \in Node /\ askedIds' = askedIds /\ looking' = looking
  BY AskerAssumption DEF Get
<1>5. ASSUME NEW y \in asking', y \notin asking
      PROVE  /\ y.src = n /\ y.dst \in Node /\ y.id = id /\ y.to = {n}
             /\ <<n, y.dst>> \in Link
  <2>1. PICK m \in Node : /\ <<n, m>> \in up
                          /\ y = [src |-> n, dst |-> m, id |-> id, key |-> k, to |-> {n}]
    BY <1>1, <1>5 DEF Questions
  <2>2. y.src = n /\ y.dst = m /\ y.id = id /\ y.to = {n}
    BY <2>1
  <2> QED BY <2>1, <2>2 DEF RequestsTypeOK, TypeOK, NetworkTypeOK
<1>6. \A q \in asking \cup looking : q.id # id
  BY <1>1 DEF OriginsInv, KnownQuestions, AskedIds
<1>7. ASSUME NEW c \in asked, c.node \in Server PROVE Questioned(c)'
  <2>1. c.id # id /\ Questioned(c)
    BY <1>1, <1>7 DEF AskedIds, QuestionsInv
  <2>2. \A y \in asking' : y.id = c.id => y \in asking
    BY <1>5, <2>1
  <2>3. \A m : Met(c, m)' <=> Met(c, m)
    BY <1>4 DEF Met
  <2>4. \A m \in Node : Asked(c, m)' <=> Asked(c, m)
    BY <1>1, <2>2, <2>3 DEF Asked
  <2> QED BY <1>4, <2>1, <2>2, <2>3, <2>4, QuestionedKept
<1>8. ASSUME n \in Server PROVE Questioned(call)'
  <2>1. \A m \in Node : Met(call, m)' <=> m = n
    BY <1>1, <1>3, <1>4, FreshId DEF Met, OriginsInv
  <2>2. Lacked(call, n)'
    BY <1>3 DEF Lacked
  <2>3. ASSUME NEW m \in Node, <<n, m>> \in Link PROVE Asked(call, m)'
    <3>1. m # n /\ <<n, m>> \in up
      BY <2>3, LinkAssumption DEF OriginsInv, OverLinks, Undisturbed
    <3>2. PICK y : y = [src |-> n, dst |-> m, id |-> id, key |-> k, to |-> {n}]
      OBVIOUS
    <3>3. y \in Questions(n, id, k, {})
      BY <3>1, <3>2 DEF Questions
    <3>4. y \in asking' /\ y.id = call.id /\ y.dst = m
      BY <1>1, <1>3, <3>2, <3>3
    <3> QED BY <3>4 DEF Asked
  <2>4. Passed(call, n)'
    BY <2>2, <2>3 DEF Passed
  <2>5. Asked(call, n)'
    BY <1>4, <2>1 DEF Asked
  <2>6. \A y \in asking' : y.id = call.id =>
           y.src = n /\ y.to = {n} /\ y.dst \in Node /\ <<n, y.dst>> \in Link
    BY <1>3, <1>5, <1>6
  <2>7. \A y \in asking' : y.id = call.id =>
           Met(call, y.src)' /\ Lacked(call, y.src)' /\ \A m \in y.to : Asked(call, m)'
    BY <1>4, <2>1, <2>2, <2>5, <2>6
  <2>8. \A h \in looking' : h.id # call.id
    BY <1>3, <1>4, <1>6
  <2>9. Trodden(call)'
    <3> SUFFICES ASSUME NEW S \in SUBSET Node, call.node \in S,
                        \A a \in S \cap Server, m \in Node :
                           Met(call, a)' /\ Lacked(call, a)' /\ <<a, m>> \in Link => m \in S,
                        NEW m \in Node, Asked(call, m)'
                 PROVE  m \in S
      BY DEF Trodden
    <3>1. CASE Met(call, m)'
      BY <1>3, <2>1, <3>1
    <3>2. CASE \E y \in asking' : y.id = call.id /\ y.dst = m
      BY <1>3, <1>4, <1>8, <2>1, <2>2, <2>6, <3>2
    <3> QED BY <3>1, <3>2 DEF Asked
  <2>10. \A h \in call.held : h[1] \in Node /\ Holds(h[1], call.key)'
    <3> SUFFICES ASSUME NEW h \in call.held PROVE h[1] \in Node /\ Holds(h[1], k)
      BY <1>3
    <3>1. PICK m \in Node : store[m][k] # NoData /\ h = <<m, store[m][k]>>
      BY <1>3
    <3>2. h[1] = m
      BY <3>1
    <3> QED BY <3>1, <3>2 DEF Holds
  <2> QED BY <1>4, <2>1, <2>4, <2>7, <2>8, <2>9, <2>10 DEF Questioned
<1> QED BY <1>3, <1>7, <1>8 DEF QuestionsInv

(***************************************************************************)
(* When nothing is under way and the asker holds nothing, no peer that the *)
(* question has met holds the key, and it has met all that are reached     *)
(* over servers.                                                           *)
(***************************************************************************)
LEMMA NothingLeft ==
    ASSUME RequestsTypeOK, Spreads, NothingUnderWay,
           NEW c \in asked, c.node \in Server, Questioned(c), ~Holds(c.node, c.key)
    PROVE  Exhausted(c)
<1> DEFINE s == c.node
           k == c.key
           U == {n \in Node : Met(c, n) /\ (Holds(n, k) => ~Spread(n, k))}
           M == {n \in Node : Met(c, n)}
<1>1. s \in Node /\ k \in Key /\ Server \subseteq Node
  BY Parts, ServerAssumption
<1>2. \A n \in Node : Asked(c, n) <=> Met(c, n)
  BY DEF Asked, NothingUnderWay
<1>3. \A n, l : Gets(n, l) <=> Holds(n, l)
  BY DEF Gets, Got, NothingUnderWay, Quiescent
<1>4. \A n \in Node : Met(c, n) => Passed(c, n) \/ Answered(c, n)
  BY DEF Questioned, NothingUnderWay
<1>5. \A n \in Node : Holds(n, k) /\ Lacked(c, n) => Spread(n, k)
  BY DEF Lacked
<1>6. M \subseteq U
  <2>1. s \in U
    BY <1>1 DEF Met
  <2>2. ASSUME NEW n \in U \cap Server, NEW m \in Node,
               Met(c, n), Lacked(c, n), <<n, m>> \in Link
        PROVE  m \in U
    <3>1. ~Holds(n, k)
      BY <1>5, <2>2
    <3>2. Passed(c, n)
      BY <1>4, <2>2, <3>1 DEF Answered
    <3>3. Met(c, m)
      BY <1>2, <2>2, <3>2 DEF Passed
    <3>4. <<m, n>> \in Link
      BY <2>2, LinkAssumption
    <3>5. ~Spread(m, k)
      BY <1>1, <1>3, <2>2, <3>1, <3>4 DEF Spreads
    <3> QED BY <3>3, <3>5
  <2>3. Trodden(c)
    BY DEF Questioned
  <2>4. U \in SUBSET Node
    OBVIOUS
  <2> HIDE DEF U
  <2>5. \A m \in Node : Asked(c, m) => m \in U
    BY <2>1, <2>2, <2>3, <2>4 DEF Trodden
  <2> QED BY <1>2, <2>5
<1>7. ASSUME NEW n \in M PROVE ~Holds(n, k)
  <2> SUFFICES ASSUME Holds(n, k) PROVE FALSE
    OBVIOUS
  <2>1. ~Spread(n, k)
    BY <1>6
  <2>2. ~Passed(c, n)
    BY <1>5, <2>1 DEF Passed
  <2>3. PICK f \in Node : Met(c, f) /\ Lacked(c, f) /\ Gets(f, k)
    BY <1>4, <2>2 DEF Answered
  <2>4. Holds(f, k) /\ Spread(f, k)
    BY <1>3, <1>5, <2>3
  <2> QED BY <1>6, <2>3, <2>4
<1>8. \A e \in Link : e[1] \in M \cap Server => e[2] \in M
  <2> SUFFICES ASSUME NEW n \in Node, NEW m \in Node, <<n, m>> \in Link, n \in M
               PROVE  m \in M
    BY LinkAssumption
  <2>1. Passed(c, n)
    BY <1>4, <1>7 DEF Answered
  <2> QED BY <1>2, <2>1 DEF Passed
<1>9. s \in M /\ M \in SUBSET Node
  BY <1>1 DEF Met
<1>10. \A h \in c.held : h[1] \in Node /\ Holds(h[1], k)
  BY DEF Questioned
<1> HIDE DEF M
<1>11. ASSUME NEW h \in c.held, ReachedOverServers(s, h[1]) PROVE FALSE
  <2>1. h[1] \in M
    BY <1>8, <1>9, <1>11 DEF ReachedOverServers
  <2> QED BY <1>7, <1>10, <2>1
<1> QED BY <1>11 DEF Exhausted
-----------------------------------------------------------------------------
\* A step that settles no promise with null, and reads nothing anew.
LEMMA NullsKept ==
    ASSUME NullsInv, asked' = asked, hurried' = hurried, reading' \subseteq reading,
           \A o \in settled' : o \in settled \/ (o.id \in AskedIds /\ o.answer # NoData)
    PROVE  NullsInv'
<1>1. AskedIds' = AskedIds
  BY DEF AskedIds
<1>2. \A q \in (reading \cup settled)' : q.id \in AskedIds'
  BY <1>1 DEF NullsInv
<1>3. ASSUME NEW c \in asked, c.node \in Server, c.id \notin hurried,
             [id |-> c.id, answer |-> NoData] \in settled'
      PROVE  Exhausted(c)
  <2>1. [id |-> c.id, answer |-> NoData].answer = NoData
    OBVIOUS
  <2>2. [id |-> c.id, answer |-> NoData] \in settled
    BY <1>3, <2>1
  <2> QED BY <1>3, <2>2 DEF NullsInv
<1>4. \A c : Exhausted(c)' <=> Exhausted(c)
  BY DEF Exhausted, ReachedOverServers
<1>5. ASSUME NEW c \in asked, c.node \in Server, c.id \notin hurried,
             NEW q \in reading', q.id = c.id, q.last, q.data = NoData
      PROVE  Exhausted(c)
  BY <1>5 DEF NullsInv
<1> QED BY <1>2, <1>3, <1>4, <1>5 DEF NullsInv

\* A promise that settles with a record does not settle with null.
LEMMA NullsSettle ==
    ASSUME NullsInv, NEW id, NEW a \in Value, id \in AskedIds,
           asked' = asked, hurried' = hurried, reading' \subseteq reading,
           Settle(id, a)
    PROVE  NullsInv'
<1>1. PICK o : o = [id |-> id, answer |-> a]
  OBVIOUS
<1>2. o.id = id /\ o.answer # NoData
  BY <1>1, ValueAssumption
<1>3. \A p \in settled' : p \in settled \/ p = o
  BY <1>1 DEF Settle
<1> QED BY <1>2, <1>3, NullsKept

\* The promise settles with null only after a last read that found nothing.
LEMMA NullsRead ==
    ASSUME RequestsTypeOK, OriginsInv, NullsInv, NEW q \in reading, FirstRead(q) \/ LastRead(q)
    PROVE  NullsInv'
<1>1. /\ asked' = asked /\ hurried' = hurried /\ reading' = reading \ {q}
      /\ q.id \in AskedIds
  BY DEF FirstRead, LastRead, NullsInv
<1>2. q.data # NoData => q.data.v \in Value
  BY Parts DEF Rec
<1>3. CASE FirstRead(q) /\ q.data = NoData
  BY <1>1, <1>3, NullsKept DEF FirstRead
<1>4. CASE FirstRead(q) /\ q.data # NoData
  BY <1>1, <1>2, <1>4, NullsSettle DEF FirstRead
<1>5. CASE LastRead(q) /\ q.data # NoData
  BY <1>1, <1>2, <1>5, NullsSettle DEF LastRead
<1>6. CASE LastRead(q) /\ q.data = NoData
  <2>1. q.last /\ Settle(q.id, NoData)
    BY <1>6 DEF LastRead
  <2>2. PICK o : o = [id |-> q.id, answer |-> NoData]
    OBVIOUS
  <2>3. o.id = q.id
    BY <2>2
  <2>4. \A p \in settled' : p \in settled \/ p = o
    BY <2>1, <2>2 DEF Settle
  <2>5. AskedIds' = AskedIds
    BY <1>1 DEF AskedIds
  <2>6. \A p \in (reading \cup settled)' : p.id \in AskedIds'
    BY <1>1, <2>3, <2>4, <2>5 DEF NullsInv
  <2>7. ASSUME NEW c \in asked, c.node \in Server, c.id \notin hurried,
               [id |-> c.id, answer |-> NoData] \in settled'
        PROVE  Exhausted(c)
    <3>1. CASE [id |-> c.id, answer |-> NoData] \in settled
      BY <2>7, <3>1 DEF NullsInv
    <3>2. CASE [id |-> c.id, answer |-> NoData] = o
      <4>1. [id |-> c.id, answer |-> NoData].id = c.id
        OBVIOUS
      <4>2. c.id = q.id
        BY <2>3, <3>2, <4>1
      <4> QED BY <1>6, <2>1, <2>7, <4>2 DEF NullsInv
    <3> QED BY <2>4, <2>7, <3>1, <3>2
  <2>8. ASSUME NEW c \in asked, c.node \in Server, c.id \notin hurried,
               NEW p \in reading', p.id = c.id, p.last, p.data = NoData
        PROVE  Exhausted(c)
    BY <1>1, <2>8 DEF NullsInv
  <2>9. \A c : Exhausted(c)' <=> Exhausted(c)
    BY DEF Exhausted, ReachedOverServers
  <2> QED BY <1>1, <2>6, <2>7, <2>8, <2>9 DEF NullsInv
<1> QED BY <1>3, <1>4, <1>5, <1>6

\* A timer that runs out at leisure finds nothing only where nothing is.
LEMMA NullsTimeout ==
    ASSUME RequestsTypeOK, OriginsInv, Spreads, QuestionsInv, NullsInv,
           NEW c \in asked, Timeout(c)
    PROVE  NullsInv'
<1>1. PICK r : r = [id |-> c.id, data |-> store[c.node][c.key], last |-> TRUE]
  OBVIOUS
<1>2. /\ reading' = reading \cup {r}
      /\ r.id = c.id /\ r.data = store[c.node][c.key]
      /\ hurried' = IF NothingUnderWay THEN hurried ELSE hurried \cup {c.id}
      /\ asked' = asked /\ settled' = settled
  BY <1>1 DEF Timeout
<1>3. AskedIds' = AskedIds /\ c.id \in AskedIds
  BY <1>2 DEF AskedIds
<1>4. \A p \in (reading \cup settled)' : p.id \in AskedIds'
  BY <1>2, <1>3 DEF NullsInv
<1>5. ASSUME NEW d \in asked, d.node \in Server, d.id \notin hurried',
             NEW p \in reading', p.id = d.id, p.last, p.data = NoData
      PROVE  Exhausted(d)
  <2>1. d.id \notin hurried
    BY <1>2, <1>5
  <2>2. CASE p \in reading
    BY <1>5, <2>1, <2>2 DEF NullsInv
  <2>3. CASE p = r
    <3>1. d = c
      BY <1>2, <1>5, <2>3 DEF OriginsInv, OwnIds
    <3>2. NothingUnderWay
      BY <1>2, <1>5, <3>1
    <3>3. ~Holds(c.node, c.key)
      BY <1>2, <1>5, <2>3 DEF Holds
    <3>4. Questioned(c)
      BY <1>5, <3>1 DEF QuestionsInv
    <3> QED BY <1>5, <3>1, <3>2, <3>3, <3>4, NothingLeft
  <2> QED BY <1>2, <1>5, <2>2, <2>3
<1>6. ASSUME NEW d \in asked, d.node \in Server, d.id \notin hurried',
             [id |-> d.id, answer |-> NoData] \in settled
      PROVE  Exhausted(d)
  <2>1. d.id \notin hurried
    BY <1>2, <1>6
  <2> QED BY <1>6, <2>1 DEF NullsInv
<1>7. \A d : Exhausted(d)' <=> Exhausted(d)
  BY DEF Exhausted, ReachedOverServers
<1> QED BY <1>2, <1>4, <1>5, <1>6, <1>7 DEF NullsInv

\* No promise has settled for a new get.
LEMMA NullsGet ==
    ASSUME RequestsTypeOK, NullsInv, NEW n \in Asker, NEW k \in Key, Get(n, k)
    PROVE  NullsInv'
<1>1. PICK id \in Id :
        /\ id \notin AskedIds \cup {p.id : p \in issued}
        /\ asked' = asked \cup
             {[id |-> id, node |-> n, key |-> k,
               held |-> {<<m, store[m][k]>> : m \in {m \in Node : store[m][k] # NoData}}]}
        /\ reading' = reading \cup {[id |-> id, data |-> store[n][k], last |-> FALSE]}
  BY DEF Get
<1>a. PICK call : call = [id |-> id, node |-> n, key |-> k,
               held |-> {<<m, store[m][k]>> : m \in {m \in Node : store[m][k] # NoData}}]
  OBVIOUS
<1>2. asked' = asked \cup {call} /\ call.id = id
  BY <1>1, <1>a
<1>3. PICK r : r = [id |-> id, data |-> store[n][k], last |-> FALSE]
  OBVIOUS
<1>4. reading' = reading \cup {r} /\ r.id = id /\ r.last = FALSE
  BY <1>1, <1>3
<1>5. settled' = settled /\ hurried' = hurried
  BY DEF Get
<1>6. AskedIds' = AskedIds \cup {id}
  BY <1>2 DEF AskedIds
<1>7. \A p \in (reading \cup settled)' : p.id \in AskedIds'
  BY <1>4, <1>5, <1>6 DEF NullsInv
<1>8. ASSUME NEW c \in asked', c.node \in Server, c.id \notin hurried,
             NEW p \in reading', p.id = c.id, p.last, p.data = NoData
      PROVE  Exhausted(c)
  <2>1. p \in reading
    BY <1>4, <1>8
  <2>2. c.id # id
    BY <1>1, <1>8, <2>1 DEF NullsInv
  <2> QED BY <1>2, <1>8, <2>1, <2>2 DEF NullsInv
<1>9. ASSUME NEW c \in asked', c.node \in Server, c.id \notin hurried,
             [id |-> c.id, answer |-> NoData] \in settled
      PROVE  Exhausted(c)
  <2>1. [id |-> c.id, answer |-> NoData].id = c.id
    OBVIOUS
  <2>2. c.id # id
    BY <1>1, <1>9, <2>1 DEF NullsInv
  <2> QED BY <1>2, <1>9, <2>2 DEF NullsInv
<1>10. \A c : Exhausted(c)' <=> Exhausted(c)
  BY DEF Exhausted, ReachedOverServers
<1> QED BY <1>5, <1>7, <1>8, <1>9, <1>10 DEF NullsInv

\* A put that wakes a listener settles its promise with a value.
LEMMA NullsReceivePut ==
    ASSUME RequestsTypeOK, NullsInv, NEW x \in net, ReceivePut(x)
    PROVE  NullsInv'
<1>1. x.data.v \in Value
  BY Parts DEF Rec
<1>2. asked' = asked /\ hurried' = hurried /\ reading' = reading
  BY DEF ReceivePut
<1>3. CASE Woken(x.dst, x.id)
  <2>1. x.id \in AskedIds /\ Settle(x.id, x.data.v)
    BY <1>3 DEF Woken, ReceivePut, RequestsTypeOK
  <2> QED BY <1>1, <1>2, <2>1, NullsSettle
<1>4. CASE ~Woken(x.dst, x.id)
  <2>1. settled' = settled
    BY <1>4 DEF ReceivePut
  <2> QED BY <1>2, <2>1, NullsKept
<1> QED BY <1>3, <1>4
-----------------------------------------------------------------------------
\* A step that has Progress and moves no question keeps QuestionsInv.
LEMMA QuestionsKept ==
    ASSUME RequestsTypeOK, Progress, QuestionsInv, asked' = asked,
           UNCHANGED <<asking, askedIds, looking>>
    PROVE  QuestionsInv'
BY QuestionedSame DEF QuestionsInv

\* In an undisturbed network, every step keeps Spreads, QuestionsInv and NullsInv.
LEMMA FindStep ==
    ASSUME RequestsTypeOK, OriginsInv, Undisturbed, worn' = {},
           Spreads, QuestionsInv, NullsInv, [RequestsNext]_allVars
    PROVE  Spreads' /\ QuestionsInv' /\ NullsInv'
<1> DEFINE Goal == Spreads' /\ QuestionsInv' /\ NullsInv'
<1>0. ASSUME Progress, Spreads', UNCHANGED getVars PROVE Goal
  <2>1. QuestionsInv'
    BY <1>0, QuestionsKept DEF getVars
  <2>2. NullsInv'
    BY <1>0, NullsKept DEF getVars
  <2> QED BY <1>0, <2>1, <2>2
<1>1. CASE PutStep
  <2>1. UNCHANGED getVars
    BY <1>1 DEF PutStep
  <2>2. CASE Tick
    <3>1. Progress /\ Spreads'
      BY <2>1, <2>2, SpreadsSame DEF Tick, networkVars, getVars
    <3> QED BY <1>0, <2>1, <3>1
  <2>3. ASSUME NEW p \in signing, PutSigned(p) PROVE Goal
    BY <1>0, <2>1, <2>3, SpreadsPutSigned
  <2>4. ASSUME NEW x \in net, ReceiveDuplicate(x) PROVE Goal
    BY <1>0, <2>1, <2>4, SpreadsDuplicate
  <2>5. ASSUME NEW h \in verifying, Verified(h) PROVE Goal
    BY <1>0, <2>1, <2>5, SpreadsVerified
  <2>6. ASSUME NEW h \in verifying, Unverified(h) PROVE Goal
    BY <1>0, <2>1, <2>6, SpreadsUnverified
  <2>7. ASSUME NEW h \in comparing, Compare(h) PROVE Goal
    BY <1>0, <2>1, <2>7, SpreadsCompare
  <2>8. ASSUME NEW e \in Link, LinkUp(e[1], e[2]) PROVE FALSE
    BY <2>8, LinkAssumption DEF LinkUp, Connect, OriginsInv, OverLinks, Undisturbed
  <2> QED BY <1>1, <2>2, <2>3, <2>4, <2>5, <2>6, <2>7, <2>8 DEF PutStep
<1>2. ASSUME NEW q \in reading, FirstRead(q) \/ LastRead(q) PROVE Goal
  <2>1. UNCHANGED vars /\ UNCHANGED <<asked, asking, askedIds, looking>>
    BY <1>2 DEF FirstRead, LastRead
  <2>2. Progress /\ Spreads'
    BY <2>1, SpreadsSame DEF vars, networkVars
  <2> QED BY <1>2, <2>1, <2>2, QuestionsKept, NullsRead
<1>3. ASSUME NEW c \in asked, Timeout(c) PROVE Goal
  <2>1. UNCHANGED vars /\ UNCHANGED <<asked, asking, askedIds, looking>>
    BY <1>3 DEF Timeout
  <2>2. Progress /\ Spreads'
    BY <2>1, SpreadsSame DEF vars, networkVars
  <2> QED BY <1>3, <2>1, <2>2, QuestionsKept, NullsTimeout
<1>4. ASSUME NEW y \in asking, ReceiveGet(y) \/ ReceiveGetAgain(y) PROVE Goal
  <2>1. UNCHANGED vars /\ UNCHANGED <<asked, reading, settled, hurried>>
    BY <1>4 DEF ReceiveGet, ReceiveGetAgain
  <2>2. Progress /\ Spreads'
    BY <2>1, SpreadsSame DEF vars, networkVars
  <2>3. QuestionsInv'
    BY <1>4, <2>1, <2>2, QuestionedReceiveGet, QuestionedReceiveGetAgain DEF QuestionsInv
  <2>4. NullsInv'
    BY <2>1, NullsKept
  <2> QED BY <2>2, <2>3, <2>4
<1>5. ASSUME NEW h \in looking, Answer(h) PROVE Goal
  <2>1. UNCHANGED <<asked, reading, settled, hurried>>
    BY <1>5 DEF Answer
  <2>2. Progress /\ Spreads' /\ Gets(h.from, h.key)'
    BY <1>5, SpreadsAnswer
  <2>3. QuestionsInv'
    BY <1>5, <2>1, <2>2, QuestionedAnswer DEF QuestionsInv
  <2>4. NullsInv'
    BY <2>1, NullsKept
  <2> QED BY <2>2, <2>3, <2>4
<1>6. ASSUME NEW h \in looking, RelayGet(h) PROVE Goal
  <2>1. UNCHANGED vars /\ UNCHANGED <<asked, reading, settled, hurried>>
    BY <1>6 DEF RelayGet
  <2>2. Progress /\ Spreads'
    BY <2>1, SpreadsSame DEF vars, networkVars
  <2>3. QuestionsInv'
    BY <1>6, <2>1, <2>2, QuestionedRelayGet DEF QuestionsInv
  <2>4. NullsInv'
    BY <2>1, NullsKept
  <2> QED BY <2>2, <2>3, <2>4
<1>7. ASSUME NEW x \in net, ReceivePut(x) PROVE Goal
  <2>1. UNCHANGED <<asked, asking, askedIds, looking>>
    BY <1>7 DEF ReceivePut
  <2>2. Progress /\ Spreads'
    BY <1>7, SpreadsReceivePut
  <2> QED BY <1>7, <2>1, <2>2, QuestionsKept, NullsReceivePut
<1>8. ASSUME NEW n \in User, NEW k \in Key, NEW v \in Value, NEW to \in Excluded,
             FreshPut(n, k, v, to)
      PROVE  Goal
  <2>1. UNCHANGED getVars
    BY <1>8 DEF FreshPut
  <2>2. Progress /\ Spreads'
    BY <1>8, SpreadsFreshPut
  <2> QED BY <1>0, <2>1, <2>2
<1>9. ASSUME NEW n \in Asker, NEW k \in Key, Get(n, k) PROVE Goal
  <2>1. PICK id \in Id :
          /\ id \notin AskedIds \cup {p.id : p \in issued}
          /\ asked' = asked \cup
               {[id |-> id, node |-> n, key |-> k,
                 held |-> {<<m, store[m][k]>> : m \in {m \in Node : store[m][k] # NoData}}]}
    BY <1>9 DEF Get
  <2>a. PICK call : call = [id |-> id, node |-> n, key |-> k,
                 held |-> {<<m, store[m][k]>> : m \in {m \in Node : store[m][k] # NoData}}]
    OBVIOUS
  <2>2. asked' = asked \cup {call} /\ call.id = id
    BY <2>1, <2>a
  <2>3. UNCHANGED <<store, net, verifying, comparing, forwarded, processedIds, outHashes, issued>>
    BY <1>9 DEF Get, vars, networkVars
  <2>4. id \notin AskedIds /\ \A p \in issued : p.id # id
    BY <2>1
  <2>5. /\ Progress /\ Spreads'
        /\ \A m \in Node, l \in Key : Holds(m, l)' <=> Holds(m, l)
    BY <2>2, <2>3, <2>4, SpreadsCalled
  <2> QED BY <1>9, <2>5, QuestionedGet, NullsGet
<1>10. ASSUME NEW e \in Fragile \ worn, GetLinkDown(e[1], e[2]) PROVE FALSE
  BY <1>10 DEF GetLinkDown, LinkDown, Disconnect
<1>11. ASSUME NEW n \in Mortal, GetRestart(n) PROVE Goal
  <2>1. Progress /\ Spreads'
    BY <1>11, SpreadsRestart
  <2>2. UNCHANGED <<asked, asking, askedIds, looking>>
    BY <1>11, Alone
  <2>3. reading' \subseteq reading /\ settled' = settled /\ hurried' = hurried
    BY <1>11 DEF GetRestart
  <2> QED BY <2>1, <2>2, <2>3, QuestionsKept, NullsKept
<1>12. CASE UNCHANGED allVars
  <2>1. UNCHANGED vars /\ UNCHANGED getVars
    BY <1>12 DEF allVars
  <2>2. Progress /\ Spreads'
    BY <2>1, SpreadsSame DEF vars, networkVars, getVars
  <2> QED BY <1>0, <2>1, <2>2
<1> QED
  BY <1>1, <1>2, <1>3, <1>4, <1>5, <1>6, <1>7, <1>8, <1>9, <1>10, <1>11, <1>12
     DEF RequestsNext, GetStep

\* When the peers start, nothing is sent, asked or settled.
LEMMA FindInit == RequestsInit => FindInv
<1> SUFFICES ASSUME RequestsInit PROVE FindInv
  OBVIOUS
<1>1. RequestsTypeOK /\ OriginsInv
  BY RequestsTypeInit, OriginsInit
<1>2. /\ net = {} /\ verifying = {} /\ issued = {} /\ asked = {} /\ reading = {} /\ settled = {}
      /\ \A n \in Node : processedIds[n] = {} /\ forwarded[n] = {}
      /\ \A n, m \in Node : outHashes[n][m] = {}
  BY DEF RequestsInit, NetworkInit
<1>3. Spreads
  BY <1>2 DEF Spreads, Spread
<1>4. QuestionsInv /\ NullsInv
  BY <1>2 DEF QuestionsInv, NullsInv
<1> QED BY <1>1, <1>3, <1>4 DEF FindInv

\* FindInv is inductive.
LEMMA FindKept == FindInv /\ [RequestsNext]_allVars => FindInv'
<1> SUFFICES ASSUME FindInv, [RequestsNext]_allVars PROVE FindInv'
  OBVIOUS
<1>1. RequestsTypeOK /\ OriginsInv
  BY DEF FindInv
<1>2. RequestsTypeOK' /\ OriginsInv'
  BY <1>1, RequestsTypeStep, OriginsStep
<1>3. ASSUME Undisturbed' PROVE Spreads' /\ QuestionsInv' /\ NullsInv'
  <2>1. Undisturbed /\ worn' = {}
    BY <1>1, <1>3, UndisturbedBefore
  <2> QED BY <1>1, <2>1, FindStep DEF FindInv
<1> QED BY <1>2, <1>3 DEF FindInv

(***************************************************************************)
(* A server's get finds what it reaches over servers, whatever it asks,    *)
(* whoever answers and in whatever order (handleGet, sendToAll).           *)
(***************************************************************************)
THEOREM ServersFindWhatIsThere == RequestsSpec => []ServersFind
<1>1. FindInv => ServersFind
  BY DEF FindInv, Undisturbed, NullsInv, ServersFind, AnsweredNull, Exhausted
<1> QED BY <1>1, FindInit, FindKept, PTL DEF RequestsSpec
=============================================================================
