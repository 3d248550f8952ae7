------------------------------- MODULE Calls -------------------------------
(***************************************************************************)
(* The questions a peer asks of others with queryKeys, doFunction and      *)
(* getCrdt, and how peers answer them.                                     *)
(*                                                                         *)
(* A question goes to every connected peer.  A server relays a query to    *)
(* other servers, a peer relays the question for a document it does not    *)
(* hold to everybody, and nobody relays a call of a function.  An answer   *)
(* goes to the peer the question came from, with its id, and wakes the     *)
(* listener of that id if that peer has one.  Answers to questions for a   *)
(* document are crdtPut messages, which are stored and relayed to servers. *)
(*                                                                         *)
(* There is one prefix of keys, one function and one document.             *)
(***************************************************************************)
EXTENDS FiniteSets

CONSTANTS
    Peer,       \* the peers
    CallServer, \* the peers started with options.server = true
    Wire,       \* the pairs of peers that are connected, in both directions
    KeysOf,     \* KeysOf[n]: the keys with the prefix in the store of n
    FunctionOf, \* FunctionOf[n]: the code of what the function of n does, or
                \* "NOT_FOUND" if n has none
    CallId,     \* bound: the ids of the calls
    Call,       \* bound: the calls made, pairs of a type and a peer
    Holder,     \* the peers that hold the document at first
    Browser,    \* the peers whose store resolves a missing key to undefined,
                \* as that of IndexedDB does; others reject it
    Unmergeable \* the peers whose crdt cannot merge it: mergeChanges throws

ASSUME CallsAssumption ==
    /\ CallServer \cup Holder \cup Browser \cup Unmergeable \subseteq Peer
    /\ \A w \in Wire : w \in Peer \X Peer /\ <<w[2], w[1]>> \in Wire
    /\ Call \subseteq {"query", "function", "crdtGet"} \X Peer
    /\ \A n \in Peer : FunctionOf[n] \in {"OK", "ERR", "NOT_FOUND"}

VARIABLES
    mail,       \* the messages on their way; any may be lost
    seen,       \* seen[n]: processedIds of n, pairs of a type and an id
    handlers,   \* the handlers that wait for the store, a function or verify
    held,       \* the peers that hold the document
    told,       \* told[n]: the peers whose processedOutHashes have the document
    begun,      \* begun[i]: the call with id i, <<>> before it is made
    stage,      \* stage[i]: the reads of the store that i waits for
    listening,  \* the ids in _idListeners
    timing,     \* the ids whose timer runs
    gotKeys,    \* the queries with gotLocalKeys
    found,      \* found[i]: foundKeys
    outcome,    \* outcome[i]: the set the promise settled with, or Unsettled
    answers     \* history: answers[i]: whose queryAck came before it settled

CallVars == <<mail, seen, handlers, held, told, begun, stage, listening, timing,
              gotKeys, found, outcome, answers>>

\* A promise settles with a set: of keys, {code}, {"document"} or, for null, {}.
Unsettled == {"unsettled"}

KeyName == UNION {KeysOf[n] : n \in Peer}
CallType == {"query", "queryAck", "function", "functionReturn", "crdtGet", "crdtPut"}
ReturnCode == {"OK", "ERR", "NOT_FOUND"}

\* body: the keys of a queryAck, the code of a functionReturn, or nothing.
Letter == [type : CallType, src : Peer, dst : Peer, id : CallId,
           to : SUBSET Peer, body : SUBSET (KeyName \cup ReturnCode)]

CallsTypeOK ==
    /\ mail \cup handlers \subseteq Letter
    /\ seen \in [Peer -> SUBSET (CallType \X CallId)]
    /\ held \subseteq Peer
    /\ told \in [Peer -> SUBSET Peer]
    /\ begun \in [CallId -> Call \cup {<<>>}]
    /\ stage \in [CallId -> SUBSET {"first", "last"}]
    /\ listening \cup timing \cup gotKeys \subseteq {i \in CallId : begun[i] # <<>>}
    /\ found \in [CallId -> SUBSET KeyName]
    /\ answers \in [CallId -> SUBSET Peer]
    /\ outcome \in [CallId -> (SUBSET (KeyName \cup ReturnCode \cup {"document"})) \cup {Unsettled}]

CallsInit ==
    /\ mail = {} /\ handlers = {}
    /\ seen = [n \in Peer |-> {}]
    /\ held = Holder
    /\ told = [n \in Peer |-> {}]
    /\ begun = [i \in CallId |-> <<>>]
    /\ stage = [i \in CallId |-> {}]
    /\ listening = {} /\ timing = {} /\ gotKeys = {}
    /\ found = [i \in CallId |-> {}]
    /\ outcome = [i \in CallId |-> Unsettled]
    /\ answers = [i \in CallId |-> {}]

peerVars == <<seen, held, told>>
askVars == <<begun, stage, listening, timing, gotKeys, found, outcome, answers>>

-----------------------------------------------------------------------------
\* Mutant of Questions: the list of the message is not looked at.
QuestionsToAnyone(type, n, i, to, among) ==
    {[type |-> type, src |-> n, dst |-> m, id |-> i, to |-> to \cup {n}, body |-> {}] :
        m \in {m \in among : <<n, m>> \in Wire}}

\* sendToAll: to the connected peers that are not in the list of the message;
\* crossServerOnly is sending among the servers.
Questions(type, n, i, to, among) ==
    {[type |-> type, src |-> n, dst |-> m, id |-> i, to |-> to \cup {n}, body |-> {}] :
        m \in {m \in among : <<n, m>> \in Wire /\ m \notin to \cup {n}}}

\* sendToClientId.
Answer(type, x, body) ==
    [type |-> type, src |-> x.dst, dst |-> x.src, id |-> x.id, to |-> {x.dst}, body |-> body]

\* toolDbQueryKeys, toolDbFunction and toolDbCrdtGet, up to the end of the call.
Begin(i, c) ==
    /\ begun[i] = <<>>
    /\ begun' = [begun EXCEPT ![i] = c]
    /\ listening' = listening \cup {i}
    /\ timing' = IF c[1] = "query" THEN timing ELSE timing \cup {i}
    /\ stage' = IF c[1] = "function" THEN stage ELSE [stage EXCEPT ![i] = {"first"}]
    /\ mail' = mail \cup Questions(c[1], c[2], i, {}, Peer)
    /\ UNCHANGED <<peerVars, handlers, gotKeys, found, outcome, answers>>

Asks(i, type) == begun[i] # <<>> /\ begun[i][1] = type

\* resolve: a promise that has settled stays as it is.
Resolve(i, value) ==
    outcome' = IF outcome[i] = Unsettled THEN [outcome EXCEPT ![i] = value] ELSE outcome

\* Mutant of LocalKeys: the keys that were heard of meanwhile are overwritten.
LocalKeysOnly(i) ==
    /\ Asks(i, "query")
    /\ "first" \in stage[i]
    /\ stage' = [stage EXCEPT ![i] = {}]
    /\ gotKeys' = gotKeys \cup {i}
    /\ timing' = timing \cup {i}
    /\ found' = [found EXCEPT ![i] = KeysOf[begun[i][2]]]
    /\ UNCHANGED <<mail, handlers, peerVars, begun, listening, outcome, answers>>

\* The store answers a query with the keys it has; the timer starts.
LocalKeys(i) ==
    /\ Asks(i, "query")
    /\ "first" \in stage[i]
    /\ stage' = [stage EXCEPT ![i] = {}]
    /\ gotKeys' = gotKeys \cup {i}
    /\ timing' = timing \cup {i}
    /\ found' = [found EXCEPT ![i] = @ \cup KeysOf[begun[i][2]]]
    /\ UNCHANGED <<mail, handlers, peerVars, begun, listening, outcome, answers>>

(***************************************************************************)
(* The first read of toolDbCrdtGet: a peer that holds the document needs   *)
(* no timer and no listener any more, even if it cannot merge it, and then *)
(* nothing settles the promise.                                            *)
(***************************************************************************)
FirstDocument(i) ==
    /\ Asks(i, "crdtGet")
    /\ "first" \in stage[i]
    /\ stage' = [stage EXCEPT ![i] = @ \ {"first"}]
    /\ LET n == begun[i][2]
       IN  IF n \notin held THEN UNCHANGED <<timing, listening, outcome>>
           ELSE /\ timing' = timing \ {i}
                /\ listening' = listening \ {i}
                /\ IF n \in Unmergeable THEN UNCHANGED outcome
                   ELSE Resolve(i, {"document"})
    /\ UNCHANGED <<mail, handlers, peerVars, begun, gotKeys, found, answers>>

\* The read that the timer of toolDbCrdtGet started.
LastDocument(i) ==
    /\ "last" \in stage[i]
    /\ stage' = [stage EXCEPT ![i] = @ \ {"last"}]
    /\ LET n == begun[i][2]
       IN  Resolve(i, IF n \in held /\ n \notin Unmergeable THEN {"document"} ELSE {})
    /\ UNCHANGED <<mail, handlers, peerVars, begun, listening, timing, gotKeys, found, answers>>

\* A timer runs out.
TimesOut(i) ==
    /\ i \in timing
    /\ timing' = timing \ {i}
    /\ \/ Asks(i, "query") /\ Resolve(i, found[i]) /\ UNCHANGED stage
       \/ Asks(i, "function") /\ Resolve(i, {"ERR"}) /\ UNCHANGED stage
       \/ /\ Asks(i, "crdtGet")
          /\ stage' = [stage EXCEPT ![i] = @ \cup {"last"}]
          /\ UNCHANGED outcome
    /\ UNCHANGED <<mail, handlers, peerVars, begun, listening, gotKeys, found, answers>>

-----------------------------------------------------------------------------
\* Those whose call with the id i listens.
Listens(n, i) == i \in listening /\ begun[i][2] = n

\* mergeChanges throws in the listener: neither it is removed, nor x handled.
Throws(x) ==
    /\ Listens(x.dst, x.id)
    /\ Asks(x.id, "crdtGet") /\ x.type = "crdtPut"
    /\ x.dst \in Unmergeable

(***************************************************************************)
(* The listeners of idListeners.  A question that came back would stop the *)
(* timer of its own call.                                                  *)
(***************************************************************************)
Wake(x) ==
    LET i == x.id
    IN  IF ~Listens(x.dst, i) THEN UNCHANGED <<listening, timing, found, outcome, answers>>
        ELSE /\ listening' = IF Throws(x) THEN listening ELSE listening \ {i}
             /\ IF ~Asks(i, "query") THEN timing' = timing \ {i} /\ UNCHANGED <<found, answers>>
                ELSE IF x.type # "queryAck" THEN UNCHANGED <<timing, found, answers>>
                ELSE /\ timing' = IF i \in gotKeys THEN timing \cup {i} ELSE timing \ {i}
                     /\ found' = [found EXCEPT ![i] = @ \cup x.body]
                     /\ answers' = IF outcome[i] # Unsettled THEN answers
                                   ELSE [answers EXCEPT ![i] = @ \cup {x.src}]
             /\ \/ x.type = "functionReturn" /\ Resolve(i, x.body)
                \/ x.type = "crdtPut" /\ ~Throws(x) /\ Resolve(i, {"document"})
                \/ /\ x.type \notin {"functionReturn", "crdtPut"} \/ Throws(x)
                   /\ UNCHANGED outcome

\* clientOnMessage, and the handler up to its first await.
ClientOnMessage(x) ==
    /\ x \in mail
    /\ <<x.type, x.id>> \notin seen[x.dst]
    /\ seen' = [seen EXCEPT ![x.dst] = @ \cup {<<x.type, x.id>>}]
    /\ Wake(x)
    /\ handlers' = IF Throws(x) \/ x.type \in {"queryAck", "functionReturn"} THEN handlers
                   ELSE handlers \cup {x}
    /\ mail' = (mail \ {x}) \cup
          IF x.type = "query" /\ x.dst \in CallServer
          THEN Questions("query", x.dst, x.id, x.to \cup {x.src}, CallServer)
          ELSE {}
    /\ UNCHANGED <<held, told, begun, stage, gotKeys>>

\* A message is lost, or dropped by clientOnMessage as one processed before.
LoseMail(x) ==
    /\ x \in mail
    /\ mail' = mail \ {x}
    /\ UNCHANGED <<handlers, peerVars, askVars>>

Handle(x, letters) ==
    /\ x \in handlers
    /\ handlers' = handlers \ {x}
    /\ mail' = mail \cup letters
    /\ UNCHANGED <<seen, askVars>>

\* handleQuery.
AnswerQuery(x) ==
    /\ x.type = "query"
    /\ Handle(x, {Answer("queryAck", x, KeysOf[x.dst])})
    /\ UNCHANGED <<held, told>>

\* handleFunction: OK when the promise resolves, ERR when it is rejected or
\* the function throws, NOT_FOUND without the function.
CallFunction(x) ==
    /\ x.type = "function"
    /\ Handle(x, {Answer("functionReturn", x, {FunctionOf[x.dst]})})
    /\ UNCHANGED <<held, told>>

\* handleCrdtGet: answer with the document, or relay the question when the
\* store rejects; undefined is no JSON, and nothing is done.
AnswerCrdtGet(x) ==
    /\ x.type = "crdtGet"
    /\ UNCHANGED held
    /\ IF x.dst \in held
       THEN /\ Handle(x, IF x.src \in told[x.dst] THEN {} ELSE {Answer("crdtPut", x, {})})
            /\ told' = [told EXCEPT ![x.dst] = @ \cup {x.src}]
       ELSE /\ Handle(x, IF x.dst \in Browser THEN {}
                         ELSE Questions("crdtGet", x.dst, x.id, x.to \cup {x.src}, Peer))
            /\ UNCHANGED told

\* handleCrdtPut, once verified: store the document and relay it to servers.
StoreCrdt(x) ==
    /\ x.type = "crdtPut"
    /\ held' = held \cup {x.dst}
    /\ LET letters == {y \in Questions("crdtPut", x.dst, x.id, x.to \cup {x.src}, CallServer) :
                          y.dst \notin told[x.dst]}
       IN  /\ Handle(x, letters)
           /\ told' = [told EXCEPT ![x.dst] = @ \cup {y.dst : y \in letters}]

\* The timers and the local stores of those who asked.
Progress ==
    \E i \in CallId : LocalKeys(i) \/ FirstDocument(i) \/ LastDocument(i) \/ TimesOut(i)

CallsNext ==
    \/ \E i \in CallId, c \in Call : Begin(i, c)
    \/ Progress
    \/ \E x \in mail : ClientOnMessage(x) \/ LoseMail(x)
    \/ \E x \in handlers :
        AnswerQuery(x) \/ CallFunction(x) \/ AnswerCrdtGet(x) \/ StoreCrdt(x)

CallsSpec == CallsInit /\ [][CallsNext]_CallVars

\* Timers run out and local stores answer; nothing else is promised.
FairCallsSpec == CallsSpec /\ WF_CallVars(Progress)

-----------------------------------------------------------------------------
(***************************************************************************)
(* Every call settles, even if no message arrives, unless it gets a        *)
(* document that cannot be merged.  The timer of a call must not be        *)
(* stopped by anything but an answer: no question comes back to the one    *)
(* who asked it (toolDbQueryKeys, toolDbFunction, toolDbCrdtGet).          *)
(***************************************************************************)
CallsSettle ==
    \A i \in CallId :
        begun[i] # <<>> ~>
            \/ outcome[i] # Unsettled
            \/ \E n \in Unmergeable : begun[i] = <<"crdtGet", n>>

(***************************************************************************)
(* A query settles with the keys of its own store and those of an answer   *)
(* that came in time, in whatever order the two come, and with no others   *)
(* (toolDbQueryKeys).                                                      *)
(***************************************************************************)
QueriesKeepAll ==
    \A i \in CallId :
        Asks(i, "query") /\ outcome[i] # Unsettled =>
            outcome[i] = UNION {KeysOf[n] : n \in answers[i] \cup {begun[i][2]}}
=============================================================================
