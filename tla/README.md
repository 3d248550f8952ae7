# A verification model of ToolDb

TLA+ modules that model the core of ToolDb (`packages/` of this repository),
TLC runs that check them on small instances, and TLAPS proofs of the results
that matter most. Source paths below are relative to `packages/tool-db/lib`
unless they name another package.

## The system

ToolDb is a peer-to-peer key-value store. Every peer runs one event loop; its
handlers are chains of promises, so two handlers of one peer interleave wherever
one waits. A peer keeps a store (LevelDB, IndexedDB or Redis), talks to others
through a network adapter (websocket, hybrid, WebRTC), and signs records with the
account of its user.

| part | source | state | operations | what is hard |
|---|---|---|---|---|
| put replication | `toolDbPut`, `messageHandlers/handlePut`, `utils/verifyMessage`, `toolDbVerificationWrapper` | the store | put, verify, relay, read, compare, write | overlapping handlers of one key; the order puts arrive in; frozen keys (`==name`) |
| flooding | `adapters-base/networkAdapter`, `toolDbClientOnMessage` | `processedIds`, `processedOutHashes`, connected clients, the list `to` in each message | send to all, receive, relay, connect, disconnect | three devices that each suppress copies; lost connections; restarts |
| CRDT documents | `crdt/mapCrdt`, `counterCrdt`, `listCrdt` | the changes, a cached value and its size, indices | SET, DEL, ADD, SUB, INS, PUSH, merge, read | order and repetition of merges; stale caches; re-used indices |
| CRDT replication | `toolDbCrdtPut`, `messageHandlers/handleCrdtPut` | the store | put a document, merge it into the stored one | merge and write are not one step; a timestamp decides whether a merge is kept |
| reads and requests | `toolDbGet`, `toolDbCrdtGet`, `toolDbQueryKeys`, `toolDbFunction` and their handlers | listeners by message id, timers | ask, answer, relay, time out | the answer against the timeout; an answer sent only once for each hash |
| subscriptions | `toolDbSubscribe`, `handleSubscribe`, key listeners in `tooldb` | `subscriptions`, `_keyListeners` and their timers | subscribe, push an update | every push has the id of the subscription, which the receiver has processed; a debounce keeps the last message; the store is read before, triggered after |
| accounts, sign-up | `toolDbSignUp`, `toolDbCheckSignupConflicts`, `toolDbSignIn`, `tooldb` 313-392, `packages/ecdsa-user`, `packages/web3-user` | the account, sign-ups under way | sign up, check conflicts, sign in, start | two sign-ups of one name; keys that nobody waited for; a put across a sign-in |
| peer discovery | `handlePing`, `handlePong`, `utils/verifyPeer` | `serverPeers` | greet, exchange servers | check, wait, then add |
| websocket adapter | `packages/websocket-network` | connections awaited, sockets | connect, retry, give up | the close of an old socket after the new one opened; no retry after an open connection drops |
| hybrid adapter | `packages/hybrid-network` | message queue, trackers, servers found, sockets | find a server, dial it, retry, queue, flush, expire | entries removed by message id; entries of the list of servers never removed |
| WebRTC adapter | `packages/webrtc-network` | peers, offers, sockets to trackers and relays | announce, offer, answer, connect, close, prune, reconnect, pause | late events of a peer that was replaced; four ways to try a socket again |
| stores | `packages/leveldb-store`, `indexeddb-store`, `redis-store` | the open database, promises of opening and closing | get, put, query, close | operations against close and reopen |

The parts meet in few places. The public calls (put, get, sign-up) hand messages
to `network.sendToAll`; a socket hands each message to `onClientMessage`, which
calls `clientOnMessage`, which drops ids it has processed, wakes the listener of
the id, and starts a handler; handlers read and write the store, relay with
`sendToAll(message, true)` to servers only, and trigger key listeners.
`PROJECT.json` lists, under `hazards`, what can go wrong in them, each at its line.

## Modules

`Records` is pure: the records of the store, what their hash covers, when
`verifyMessage` refuses one and when `handlePut` replaces one. Addresses are
naturals, because the code compares them as strings.

`Network` (extends `Records`) has the state of flooding and the pieces of a step
that change it: `SendToAll` (`networkAdapter.ts` 168-194), `Accept` and `Drop`
(`toolDbClientOnMessage.ts` 8-37), `Disconnect`, `Connect` and `Crash`. The
network is a set of messages in flight: a step may take any of them, so messages
of one connection may overtake each other, which the sockets do not do but which
handlers that wait for promises do to the messages anyway.

`PutReplication` (extends `Network`) is the life of a put, cut at its promises:

| action | code |
|---|---|
| `Put` | `toolDbPut` to its first promise: the timestamp is taken |
| `PutSigned` | the rest: send to all, store without comparing |
| `Receive`, `ReceiveDuplicate` | `onClientMessage`, `clientOnMessage`, and `verifyMessage` to its promise: the frozen key is read |
| `Verified`, `Unverified` | the continuation of `handlePut`: relay, ask the store |
| `Compare` | the continuation of `store.get`: decide on the record that was read, write |
| `LinkDown`, `LinkUp`, `Restart` | a connection breaks or is made, a process stops and starts |

The store executes the operations of a peer in the order they are issued, as
LevelDB and IndexedDB do: a read takes the value when it is asked for, and only
its continuation is late. A store write is never lost. `received`, `forwarded`,
`worn` and `issued` are history variables; no action reads them, except that
`SerialSpec` keeps the behaviours in which a peer takes a message only when no
handler is under way.

`MapChanges` is pure: the changes of a map document, `changesSort` as the relation
`Before`, `mergeChanges` as `Merged`, `calculate` as `ValueOf`. `MapCrdt` has
replicas that call SET and DEL, send `getChanges()`, merge any array ever sent,
and are constructed anew (`Reopen`). A replica that is not in `Forgetful` comes
back with all changes of its own; a forgetful one may come back without.
`CounterCrdt` and `ListCrdt` are built in the same way, and `MCListCounter` puts
the two together, where the document is one or the other. In `ListCrdt` the changes
are a sequence, because the sort is in place and a DEL that comes before its INS
makes `calculate` throw and leave the old list beside the new changes. The sort is
written as what a stable sort does (`Place`, `Sorted`).

`Requests` (extends `PutReplication`) adds gets. A question is a message of its
own, with `processedIds` of its own; an answer is a put with the id of the get, so
it goes through `Receive` and its handlers like any other put.

| action | code |
|---|---|
| `Get` | `toolDbGet`: ask the store, every connected peer, start the timer |
| `FirstRead`, `LastRead` | the continuations of its two reads of the store |
| `Timeout` | the timer, which reads the store again |
| `ReceivePut` | `toolDbClientOnMessage`: the listener of the id settles the promise, once, then the put is handled |
| `ReceiveGet`, `ReceiveGetAgain` | `handleGet` to its promise; a question seen before |
| `Answer`, `RelayGet` | its continuations: `sendToClientId` with the record, or ask all others |

`CrdtReplication` (extends `PutReplication`) has documents, sets of changes, in
place of values. A network has documents of one class (`kind`), for the classes are
merged differently:

| action | code |
|---|---|
| `Edit` | the calls of `MapCrdt`, `ListCrdt` and `CounterCrdt` that add a change |
| `CrdtGet` | `toolDbCrdtGet`: merge the document one's own peer holds or, if it has none, a server's |
| `CrdtPut`, `CrdtPutSigned` | `toolDbCrdtPut` up to the signature and after it: the changes sent are those of the second step |
| `CrdtCompare` | `handleCrdtPut` after `store.get`: merge with the record that was read, keep the result or not (`Kept`) |

Receiving and verifying are those of puts. What merging does depends on the class
the stored record names. `CounterCrdt.type` is `CRDT_LIST` (`counterCrdt.ts:23`), so
`handleCrdtPut` merges counters as lists, and `ListCrdt.mergeChanges` tells changes
apart by index, type and value (`SameChange`): the index of a list holds its author,
that of a counter does not, and of equal ADDs that two users made under one number
one is kept (`MergesOf`). A list whose DEL sorts before its INS throws (`Computes`),
and the handler catches that and stores nothing.

`Calls` is the other questions, with `processedIds`, listeners by id and timers of
its own, over connections that stay but lose any message:

| action | code |
|---|---|
| `Begin` | `toolDbQueryKeys`, `toolDbFunction`, `toolDbCrdtGet`: ask every connected peer, start the timer or read the store |
| `LocalKeys`, `FirstDocument`, `LastDocument` | the continuations of the reads of the store |
| `TimesOut` | the timer of each kind of call |
| `ClientOnMessage` (with `Wake`) | `clientOnMessage`: the listener of the id, used once, then the handler unless the id was processed |
| `AnswerQuery`, `CallFunction`, `AnswerCrdtGet`, `StoreCrdt` | `handleQuery`, `handleFunction`, `handleCrdtGet`, `handleCrdtPut`: answer, relay, store |
| `LoseMail` | a message is lost |

`Subscriptions` is one key at one server and its clients. At both sides, storing a
record triggers key listeners, each after a pause in which a later trigger takes its
place. `Subscribe` and `OwnRead` are `toolDbSubscribe` and its promise,
`HandleSubscribe`, `SendOldData` and `SendNewData` are `handleSubscribe`, its read and
its listener; `ServerHandlePut`, `ServerPut` and `ClientReceive` bring new records;
`ClientPut` is `toolDbPut` at the subscriber, which stores without triggering its own
listener, and whose echo from the server is dropped by the id of the subscription;
`Listen` and `Show` are the application's listener; `Part` and `Rejoin` break a
connection and make a new one.

`PeerExchange` is `serverPeers`: `PushMe` (the listener of "init": a server adds
itself), `SendPing` (when a socket opens, which may be before "init": the websocket
adapter dials in its constructor), `Greeted` and `PeerVerified` (`handlePing` and
`handlePong` before and after `verifyPeer`), `RestartMember`. An address is the peer's
own, which it has again after a restart, or the temporary one of a start, which an
early ping may name while the account is being restored.

`SignUp` is clients of one server that sign up with one name: `CheckLocal`,
`MakeAccount`, `StoreSignUp` (`toolDbSignUp`, cut at its promises),
`CheckSignupConflicts`, `CheckTimesOut`, `Lookup` (an application's get of the name),
and the handlers `ServerStores`, `ServerAnswers`, `ClientAnswers`, `ClientHears`. A
record of the name is only replaced by an older one, as in `Records`.

`Accounts` is the two accounts of a peer. `keys` and `address` of each are assigned
apart, as `setUser` does:

| action | code |
|---|---|
| `OpenPeer`, `SavePeer` | `_initializeAccounts` (`tooldb.ts` 313-392) |
| `KeysGenerated` | `anonUser` after its promise; it is called by the constructor, when there is no account yet, and by `anonSignIn` |
| `SignIn`, `AnonSignIn` | `toolDbSignIn`, `toolDbKeysSignIn`, `toolDbAnonSignIn` |
| `DecryptAccount`, `SignInRejected` | `decryptAccount`, which waits for keys |
| `SetKeys`, `SetAddress` | `setUser` before and after its second promise |
| `HashPost`, `SignPost`, `SendPost` | the three parts of `toolDbPut` that read the account |
| `RestartAccounts` | the process stops and starts: `savedPeer` is left |

`HybridNetwork` is one peer of the hybrid adapter. A socket to a server is a pair of
the server and a number, and a message goes by the function registered last for a
name (`route`), whatever became of its socket:

| action | code |
|---|---|
| `FindServer`, `HybridAnnounceAll`, `TrackerAnswers`, `TrackerLost` | `findServer`, `announceAll`, `makeSocket` and the events of its socket |
| `ReceiveOffer` | `onSocketMessage`: `connectTo` for a server of a name not connected to before |
| `HybridOpen`, `HybridError`, `HybridClose`, `HybridRetry` | the events of `connectTo`, `reconnect` and its timer |
| `ClientGreets`, `ClientLeaves` | the server side: first message and close of a client |
| `HybridSendToAll`, `HybridSendToClientId`, `HybridSendToAllServers` | `pushToMessageQueue` with `tryExecuteMessageQueue` at once |
| `HybridPoll`, `HybridAge` | the interval that executes the queue; a minute passes |

`Options` holds the one option that two adapters read.

`WebrtcPeers` is the WebRTC adapter, apart from replication: nothing of it depends
on what connections carry. `<<n, o>>` is the simple-peer object of peer n for offer
o, with a phase; `remotes` are the peers its event handlers name.

| action | code |
|---|---|
| `AnnounceAll` | `announceAll` with `cleanPool` and `makeOffers` |
| `SendNostrOffer` | `onNostrMessage` for an announcement |
| `AnswerOffer`, `RefuseOffer` | `onSocketMessage` and `handleNostrOffer`, an offer below the cap and at it |
| `TakeAnswer`, `AnswerTooLate` | `onSocketMessage` and `handleNostrAnswer`, an answer to a live object and to a destroyed one |
| `Connect`, `Close` | the events: `onConnect` with `onPeerConnect`, `onDisconnect` |
| `Greet` | the first ping, which makes the peer one that messages are sent to |
| `IceTimeout`, `NostrTimeout`, `PeersCheck` | the timers |
| `Break`, `Lose` | a connection fails, and its other end notices |

`WebsocketConnection` is the websocket adapter, with both ends of each socket:

| action | code |
|---|---|
| `Accept`, `Open` | the server's connection event, `wss.onopen` |
| `Error`, `Close` | `wss.onerror` and `onclose` of the dialer with `reconnect`; `close` of the server's end |
| `Retry` | the timer of `reconnect`, `connectTo` |
| `Ping`, `Receive`, `Verified` | `craftPingMessage`, `onClientMessage` for ping and pong, `handlePing` after `verifyPeer` |
| `Break` | the connection is gone, and each end will notice |

A destroyed object of `WebrtcPeers` is `closing` until its close event fires; everything else may
happen before it.

`Signalling` is how one peer of that adapter keeps sockets to trackers and relays. The
sockets of a url are counted. `SignalAnnounceAll` is `announceAll` with `makeSocket`
for trackers and `announceToAllNostrRelays`, which waits for each relay in turn;
`SignalOpen`, `SignalFail` and `SignalClose` are the events of a socket; `Redial` is
the timer of `scheduleReconnect`; `HandleOffline`, `HandleOnline` and `OnLeave` are
the listeners of those names.

The modules whose names start with MC give constants their values for TLC, and put
components that share no state in one run: a variable (`service`, `adapter`, `isMap`,
`kind`, `serial`) says which of them a behaviour is about, and the others stay as they
begin. Every behaviour of a component alone is one of the run, and the properties of
the others hold of it without effort. `MCPutServers` composes in this way the network
in which handlers of a peer never overlap with the one in which they do.

The modules whose names end with Proofs hold the proofs:

| module | about |
|---|---|
| `PutReplicationProofs` | `Network` and `PutReplication`: flooding, and what servers end with |
| `RequestsProofs` | `Requests`: gets, over the proofs about puts |
| `CrdtReplicationProofs` | `CrdtReplication`: flooding again, for messages that are merged on their way |
| `DocumentsProofs` | `MapCrdt`, `CounterCrdt` and `ListCrdt` |
| `ServicesProofs` | `Accounts`, `SignUp`, `Calls`, `PeerExchange`, `Subscriptions` |
| `WebsocketProofs` | `WebsocketConnection` |
| `AdaptersProofs` | `HybridNetwork`, `WebrtcPeers`, `Signalling` |

and `FoldTheorems` holds facts about folds over finite sets, which the proofs about
sums, the message queue and lists cite. Operators
marked "mutant" are forms of a definition with a plausible mistake. Nothing uses
them; they show which mistake each property would find.

## Runs

Runs that pass:

| run | instance | what it shows |
|---|---|---|
| `PutServers` | 2 clients and 3 servers in a cycle, 2 puts at 2 instants: an ordinary and a frozen key if handlers of one peer do not overlap, one key and one instant if they do | `ServersConverge`: in whatever order and by whatever route puts arrive, every server ends with the newest record of an ordinary key and the oldest of a frozen one. `OverlappingAllHear`: every put reaches every server |
| `PutCoverage` | 2 clients, 2 servers in a line, the connection between the servers breaks and comes back, one server restarts, handlers overlap, one client's clock is fast, a custom verificator | `LinkCoverage`: no suppressed copy was the only one. `CoverageInv` is the inductive invariant of its proof |
| `Documents` | a map: 2 users, 2 fields, 2 values, 3 calls of SET and DEL; or a list: 2 users, 4 calls, where only the user whose address sorts last deletes what is not its own; or a counter: 3 users, 3 calls | of maps `Convergence`, `NeverStale`, `NeverResurrected`, `MergeKeepsAll`; of lists `ListsConverge`, `ElementsOnce`, `AuthorsOrder`: the list is the same everywhere and loses and doubles nothing; of counters `EveryCallCounts`: whoever heard of all calls shows their sum, where counters merge them (which `handleCrdtPut` does not do). `DocumentTypeOK` includes `MapInv`, the invariant of the proofs about maps |
| `GetAnswer` | client - server - server; the last server gets a key while the client puts it and its store, or another's, may already hold it; the connection between the servers breaks or the middle one restarts | `EveryGetSettles`: the promise settles. `ServersFind`: while no connection has broken it settles with null only if no peer reachable over servers held the key when it asked |
| `CrdtMerge` | 2 clients on 2 servers in a line, a list or a counter each, to which both add the same and which each may read from the other and delete from, the connection between the servers breaks or one restarts, handlers of one peer do not overlap | `DocumentsGrow`: no stored document loses a change. `UnhurriedPutsMerge`: puts that wait for each other leave every change in every server, if no list throws at the user who puts it; of a counter, one of the changes that its merge takes for the same |
| `Adapters` | the hybrid adapter: one server that two offers name, a tracker, a visiting client, 2 messages, 1 retry; or the sockets to a tracker and 2 relays: 2 announcements, 2 times offline; or three WebRTC browsers, two with Nostr, one that announces, connections that fail at two, 2 offers, a cap of 1 peer | `FoundServerTried`: a server that was found has a socket, a timer, or no tries left. `QueueExact`: executing the queue removes what was sent or expired, and nothing else. `TrackersRetried`: a tracker always has a socket or one to come, and retries do not multiply. `NoDeadPeers`: no entry outlives the close event of its object. `ListsAgree`: the list that drops signals and the list that counts towards the cap name the same peers |
| `Services` | 3 peers in a line that query, call a function or read a document, 2 calls, messages may be lost; or a client with 2 subscriptions and 2 records that it or others put, whose connection may break; or 2 servers, a client and a peer of another topic, where the server with an address dials the other one and may restart once; or 2 clients that sign up with one name, 1 lookup; or the accounts of a peer with 1 sign-in, 1 put and a restart | `CallsSettle`, `QueriesKeepAll`: calls settle, a query with its own keys and those of the answer heard. `SubscribersServed`: a subscriber ends with at least what the server held when it subscribed first. `ListenersCurrent`: the application's listener was last called with what the peer holds, unless the peer put that itself or a put overtook the read of `toolDbSubscribe`. `NoPeerTwice`: no address is listed twice, except a server's own at itself, twice at most, if it pinged before it added itself. `OneOwner`: who was first owns the name, and the other is told. `PeerComesBack`: a restarted peer is the one that was saved. `PutsAreTheUsers`: a put is hashed, signed and sent as one user |
| `WebsocketDial` | 2 servers that dial each other, 2 retries, connections that fail to open or break | `OneAttempt`, `EveryDialEnds`: one attempt at a time until one opens or all are used up. `Heard`: whoever is sent to knows the sender, or a ping or pong is on its way. `NoClosedClients`: the server's end of a closed socket is not sent to |

Runs that find the code doing something else than the repository says (each is a
finding in `PROJECT.json`, with the lines quoted):

| run | what TLC finds |
|---|---|
| `PutNewerWins` | two overlapping `handlePut` of one key: the older record is written over the newer one |
| `PutFirstWriter` | the owner of a frozen key updates it; somebody who wrote between its two puts now holds the older record, and takes the key |
| `CrdtLost` | of two documents put at once, the one that arrives after the one with the newer timestamp is merged and thrown away |
| `SubscribeAll` | every update to a subscriber has the id of the subscription: the first is taken, later ones are dropped as processed |

By trial runs that were not kept, because nothing in the repository promises the
opposite or the run only varied a constant:

  - one value put under two keys in one millisecond has one hash (`toolDbPut.ts:36`
    leaves the key out), and the second put is sent to nobody;
  - with `Forgetful = {1}` in `Documents`, a user who starts a fresh `MapCrdt` re-uses
    indices, and replicas with the same changes differ for ever (`mapCrdt.ts:85`);
  - with `Deleter = {1}` in `Documents`, a DEL of an element of a user whose address
    sorts later throws in every replica that merges it (`listCrdt.ts:84`); and an INS
    next to an element of such a user does not go where it was asked (`listCrdt.ts:65`);
  - a question that a server relays may overtake the asker's own: the neighbour then
    answers the server and drops the asker's, which settles with null (`handleGet.ts:25`).
    So it is when a client is connected to two servers of a ring and relays the question
    of one to the other, and when the connection a question came over breaks before the
    answer takes it back: the proof of `ServersFind` failed on both, TLC confirmed them,
    and `AnswersComeBack` and `worn = {}` exclude them;
  - the cap of WebRTC peers is checked when an offer is answered and counted when it
    connects, so it is passed (908); a second answer to an offer, after `cleanPool`
    forgot which were handled (702), breaks a live connection; the late close event
    of a replaced object takes the new one off the lists (135-143), though it is
    connected; two peers that offer at once may destroy each other's object (618-623);
  - two servers that dial each other have two sockets: the close of the older one
    deletes the functions of the newer (`websocket-network/lib/index.ts:59`), and the
    peer, though connected, is not sent to again; and giving up one peer clears
    `isConnected` whoever else is connected (199-203);
  - two users whose sign-ups cross: the one that stores its record over an older one it
    got meanwhile (`toolDbSignUp.ts:78`) keeps it, for the server has already sent the
    older one and does not repeat it (`crossed` in `OneOwner`);
  - `anonUser` of the constructor is not awaited (`ecdsa-user/lib/index.ts:48`): if its
    keys come after others that were asked for later, the peer saved on disk is
    not the one that signs (`late` in `PeerComesBack`). RACE_CONDITION_FIX.md, section 2,
    says that the call was removed from the constructor; it is there;
  - a put of the peer that is stored while `toolDbSubscribe` reads the store is shown and
    then replaced by what was read before, for the debounce keeps the last trigger
    (`overtaken` in `ListenersCurrent`); a put of the subscriber itself is stored and
    shown to none of its listeners (`toolDbPut.ts:70`), and the server's echo of it has the
    id of the subscription and is dropped (`ownPut`);
  - a server that restarts pings before it has added itself, learns its own entry from
    the pong, and then adds itself without looking (`networkAdapter.ts:27`), so that it
    has and passes on its own address, which it lists twice from then on (`early` in
    `NoPeerTwice`);
  - two users each add 1 to a counter of their own and put it: the servers merge counters
    as lists and keep one of the two ADDs (`counterCrdt.ts:23`, `listCrdt.ts:104`), also when
    the puts wait for each other, so that `Held(s, k) = ChangesOf(k)` fails of counters
    (`HoldsOneOfEach` is what holds);
  - a client that subscribes again to a key is not sent what it was sent before and
    dropped for its id (`handleSubscribe.ts:28`), so it may end older than what the server
    held at the later subscription: with `due` set anew by each, `SubscribersServed` fails;
  - a relay whose socket fails silences all relays after it in the list for that
    announcement, as `announceToAllNostrRelays` waits for a promise that never
    settles (`webrtc-network/lib/index.ts:285`): `TrackersRetried` promises
    a first attempt to trackers only.

By reading only, without a run: equal timestamps for a frozen key are refused by
`verifyMessage` before the tie-break of `handlePut` is reached; the argument `to`
of the public calls names peers that are left out, where `toolDbSignUp.ts:17` says
they are sent to; `mergeChanges` of a list compares values with `===` and adds
objects again with each merge; `verifyPeer` resolves to a string, never to a false
value, so `handlePong` takes every entry it verifies; a query drops the answers of
peers after the first; an entry of the hybrid queue with a list of its own is sent to
nobody (505-507, see `Targets`); `connectedServers` is never cleared, so a server
that changed its address is not dialled for a new offer.

### Bounds

Ids, operations and instants are bounded (`Id`, `MaxOps`, `MaxChanges`,
`MaxClock`), and so are nodes, keys and values. Two puts are enough for one to
overtake the other, three servers in a cycle for a message to come back by another
way, two instants for every order of timestamps. `PutFirstWriter` needs three puts.
For documents, three calls are enough for an author to overwrite what another
overwrote meanwhile. The connection that breaks and the server that restarts are
the ones in the middle of the line, where a loss would cut the flood. In `GetAnswer`
one fault happens at most (`Intact`), a put and a get are under way together, and
stores may hold a record of before. In `CrdtMerge` a user has one `putCrdt` between two
instants, adds one change and deletes one, which is enough for equal changes of two
users and for a DEL that sorts before its INS; the answer to a `getCrdt` comes at once,
documents of one class only are put under a key, and nothing else is (the code makes an
empty document of a stored record of no known class, `handleCrdtPut.ts` 79-88).

In `Adapters`, of WebRTC the pool has one offer instead of ten, a cap of 1 instead
of 4 is reached with three peers, and two offers are enough for one connection to
replace another; of the hybrid adapter two offers for one server make two sockets, one
retry (`MaxRetries`) lets tries be used up after a connection was open, and two
messages (`MaxPushes`) of one or two ids are enough for an entry to be looked up in
place of another; of signalling, `MaxAnnounces` and `MaxOffline` of 2 let sockets of two
announcements, and what is pending of two pauses, meet.

In `Services`, three peers in a line are enough for a question and an answer to be
relayed, and two call ids (`CallId`) for two calls to meet in one peer. Two records (`MaxTime`) and two
subscriptions make a second push and a second id; two servers bring the same entry by
a ping and by a pong at once, and one restart (`MaxRestarts`) of the one that dials the
other (`Restarting`) an early ping, whose pong may name its old and its own entry. That
its pings name a temporary account is looked at in that start only (`HasTemporary`). Two newcomers are
enough for a conflict, and one lookup (`MaxLookups`) for the server to have sent the
record before the check asks for it. Seven generated accounts (`MaxGenerated`) are those
of a start and a restart, or of a start and anonymous sign-ins; one sign-in and one put
(`MaxSignIns`, `MaxPosts`) are enough for them to cross.

In `WebsocketDial` 2 retries let the second follow either way of failing, and two
servers are enough for two sockets between peers. What these bounds leave out the
proofs cover, where there is one: they hold for any number of nodes, ids, replicas,
operations, peers, sockets and offers.

Symmetry is used where nothing tells values apart: ids in `PutCoverage`, whose
properties are invariants, and fields and values of maps in `Documents`.

No run checks deadlock: when all puts are done, all documents merged and all calls
settled nothing is left to happen.

### Fairness

Four runs assume any. `PutServers`: `WF_serversVars(~serial /\ System ...)`, weak
fairness of the disjunction of all steps of event loops and sockets where handlers
overlap, that is, while something is in flight
some step is taken. Timers, clocks, users and faults are not fair. The event loop
runs every continuation it has queued and a connected TCP socket delivers, so the
code justifies more than is assumed. Each step of `System` consumes a message or a
stage of a handler, so no single step has to be assumed fair.
`GetAnswer`: `WF_allVars(GetStep)`, for the steps of gets: reads return, questions
and answers arrive, timers run out. A process that stops does not settle, so
`EveryGetSettles` is about askers that do not.
`Services`: `WF_servicesVars(CallsProgress)`, for the timers and the local reads of those
who asked, and for nothing that comes over the network: `CallsSettle` holds though
every message may be lost. Calls of a peer whose `mergeChanges` throws are
excepted (`Unmergeable`): their promise never settles (`toolDbCrdtGet.ts` 52-62).
`WebsocketDial`: `WF_vars(Attempt)`: sockets that connect open or fail at last (TCP
gives up), their close event fires, timers run out.

## Proofs

Every theorem holds for all values of the constants that the named assumptions
allow, and every invariant of the passing runs is one. What follows says along which
argument, module by module.

**`PutReplicationProofs`.** `LinkCoverage` is not inductive: that a peer was skipped
because it is in the list `to` says nothing about whether it has the message.
`CoverageInv` adds what makes it so: whoever is in the list of a message in flight was
excluded by the caller, wrote the record or has received it (`Trail`), and whoever has
a hash in its `processedOutHashes` was sent it over a connection that still carries it
or has received it (`HashesCovered`). There is one lemma for what `SendToAll` preserves,
one for steps that send nothing, and one for each action that sends.

`ServersConverge` is about `SerialSpec`, where a peer takes a message only when no
handler of it is under way. Four invariants lead to it. `SerialInv`: a peer has one
handler at most (`OneHandler`), and what it read from the store is still there
(`FreshReads`). `RecordsInv`: calls have users (`CallsOK`), what is stored
was put (`StoredPut`), and among the calls for a key there is a best one (`BestExists`),
because `Prevails` is a total order of their records with the address as the tie-break.
`ArrivalInv`: a call is being signed or was sent (`Sent`); a record is refused only if
its key is frozen and another author's is no younger (`Judged`, `Outdone`); what a server has
received it relays unless it refuses it (`Relayed`); and what it relays it compares, or
stores something that prevails (`Handled`). With
`CoverageInv` every call reaches every server of a network in which nobody refuses and no
connection breaks; so when nothing is under way the best record is everywhere. The theorem
`NewerWinsSerially` is the complement of the finding `PutNewerWins`: handlers that do not
overlap never replace a record by an older one, if users are not servers themselves.

**`RequestsProofs`.** `ServersFind` compares a get with what is held when it asks, so its
invariant (`FindInv`) follows the question. `OriginsInv`: ids are drawn once, a message for
a key has a record of that key, and messages are on connections only. `Spreads`: where a
peer has sent a record of a key, its neighbours that are servers have one or it is on its
way to them.
`QuestionsInv`: the question has come to, or is on its way to, all neighbours of each server
it has passed (`Passed`), or an answer for it is on its way back (`Answered`). `NullsInv`:
when an asker reads null in its own time nobody it reaches over servers held the
key (`Exhausted`), for the question has been everywhere on the way (`Trodden`). The last three hold while nobody refuses and nothing breaks, and in networks
where answers find their way back (`AnswersComeBack`).

**`CrdtReplicationProofs`.** `CrdtFlooding` is `CoverageInv` with what messages that change
on their way need: nothing is known of a call before it is signed (`Unsent`), and a peer
relays before it compares (`RelayedFirst`). `DocumentsGrow` rests on `Alone`: the document a
handler merges with is still the stored one. For `UnhurriedPutsMerge`, `OneByOne` says that
all messages under way are of one call, so the timestamps of others are older, `MergeReads`
and `RelayedOnce` that no peer handles it twice, and `MergedAll` that a server's document
has of every change of the calls it has merged the one that is the same to its merge,
while no list that was put throws.

**`DocumentsProofs`.** `NeverStale` and `NeverResurrected` hold of any replicas of a map
(`ReplicaInv` is the invariant), `Convergence` and `MergeKeepsAll` under `OneAuthorEach`: each
author has one replica and none forgets. Indices grow past what a replica has seen, so no two
changes of one document are taken for one (`Distinct`) and every key has a change that
applies last (`Ordered`); a change of an author is always also with that author's replica
(`Homes`), so two changes of two documents that `mergeChanges` takes for one are in one
document, and are one. A trial run with a forgetful user shows that the assumption is
needed.

`EveryCallCounts` compares a sum over a set with one over the sequence of calls. `CountInv`
says that changes are only those of calls, that no two calls are taken for one (`EachOnce`),
because the index of a call is the number of changes of its author, all of which its replica
has (`NumberedOK`), and that the value of a replica is the sum of its changes although
`calculate` sums again only when their number differs (`Summed`). What is not about
counters is in `FoldTheorems`: a table made by taking elements from a finite set exists, is
unique and has values of its type (`FoldExists`, `FoldUnique`, `FoldValues`); if the order
of two elements does not matter, that of all does not (`FoldCommutes`); and taking the
greatest index first comes to the same as any order (`FoldInOrder`). Each is an
induction over finite sets. The library's induction theorems take an operator, which the
provers cannot instantiate; here the induction hypothesis is a set of subsets
(`SetInduction`), and comes from a minimal counterexample (`WFMin`). A fold over a sequence
is one that takes the greatest index last (`GreatestInOrder`), and what it goes through
can be followed step by step (`Steps`).

The theorems about lists are proved under `DeletersLast`: nobody who deletes has an address
that sorts before another's. A trial run shows what happens otherwise: the DEL is applied
before the INS and throws. `ListInv` says that the changes of a replica are in the order of
their ids (`InOrder`), that each author's replica has all changes of that author
(`AtAuthors`), whose numbers are those below the next one (`Numbering`), that whoever is
named by a DEL, or by an INS of the same author as the previous element, comes earlier
(`Closed`), and that the list is computed from all changes (`Shown`). The number of an
author's changes is then a fresh id (`NextIdNew`); ids tell apart whatever is merged
(`OneEachId`), so merging takes the union (`MergeAll`) and sorting it keeps every change
(`SortedInOrder`); and applying the changes one by one never throws (`ListComputed`) and
keeps that the list `Holds` each element once, after what it is attached to (`Attaches`;
`InsertStep`, `DeleteStep`). `ListsConverge` follows because a set of changes has one order
(`OneOrder`), and the list is a function of it.

**`ServicesProofs`.** Accounts: `Initialising` describes each stage of `_initializeAccounts`:
until the keys that nobody waits for have come there are no keys, so `decryptAccount`
and `encryptAccount`, which wait for some, come after them. It holds while keys are generated
in the order they were asked for (`~late`); the run shows that it does not otherwise.
`UserInv` adds who waits for the user's keys, that one sign-in is under way at most while
none are mixed (`OneSignIn`), and what a put has at each of its stages (`PostOfUser`). Signing
up: a record is signed before it is stored and stored before it is anywhere
(`RecordsPublished`), a question is of whoever signed up (`QuestionsAsked`), a record that was
sent is on its way or an older one is held (`SentArrives`), and whoever lost was told
(`LosersTold`). Calls: what a call has found until it settles is the keys of the answers it
heard, and its own ones once its store answered (`CallOK`), and a message is of the kind of
the call whose id it has (`MessageOK`), so that no relay or late answer wakes a call of
another kind. Server peers: `NoPeerTwice` is mostly the second check after `verifyPeer`; what
is not local is what a server finds when it adds itself without looking: until then it is
listed at itself once at most (`ListInv`), and only if an early ping of this start was
answered, for what names a peer to itself comes over a connection it has greeted over
(`AnswerInv`). Subscriptions: what was due to a client when it subscribed first it holds,
or the first message with the id of a subscription, which alone counts, brings it
(`ServedOK`), and of a client whose reads no put overtook, and which did not put what it
holds itself, the pending listener has the newest record (`CurrentOK`).

**`WebsocketProofs`.** `DialsOK`: a dial has one unclosed socket at most, its timer waits for
the end of it, and what opened is not tried again. `ForgottenInv`: whose end each entry of
`clientToSend` is. `HeardInv`: a peer that is sent to over a socket is linked to it at both
ends (`Linked`, `BothOpened`), and a pong is on its way only to who is known to its sender
(`PongsKnown`).

**`AdaptersProofs`.** Hybrid: `TriedInv` adds to `FoundServerTried` that timers run only with
tries left (`LinksOK`), and that everybody ever dialled is in the list that `reconnect` looks at
(`DialledAwaited`): it rests on `removeFromAwaiting` removing nothing. `QueueExact` needs of the
queue that old entries come first (`QueueInv`). Executing it is a fold of `splice`
(`SplicesFold`); what is left after k splices is described by a map into the queue as it was
(`LeftOf`), which leaves out as many entries of each id as were spliced, the first ones
(`AfterSplices`). An id is spliced once for each old entry with it and once more if a young one
was sent (`RemovalsCounted`), never more often than there are entries, so that no `findIndex`
fails and takes the last entry instead; and as old entries come first, the ones that go are
the old ones (`ExecutedExact`). WebRTC: answering an
offer makes an object, and must not overwrite one that is listed. `PeersInv` adds to
`NoDeadPeers` what excludes it: an offer nobody made has no objects and is in no message
(`Unmade`), and an offer on its way goes once to a peer that has no object for it
(`Unanswered`). `ListsAgree` holds because each of the two steps that write `connectedPeers` and
`peerMap` writes both, and ids of offers are never ids of peers. Signalling: `TrackersRetried`
counts attempts; for a relay those of announcements that still wait at an earlier relay
have to be counted with it (`Counted`), and for a tracker a url without a socket has an
attempt to come (`TrackerCounted`).

The assumptions are the types of the constants and what the code's environment gives: that
connections go both ways, that a socket has two ends and is no other's, that null is not a
value, that relay urls are distinct and not those of trackers (`SignalAssumption`), that the
newcomers of one name are finitely many (`SignUpAssumption`), that undefined is neither an id
nor a list (`NilAssumption`). `AnswersComeBack`, `OneAuthorEach`, `DeletersLast` and `~late`
are no assumptions but conditions inside the properties or theorems, each with a
run, or a trial run, that shows what happens otherwise.

Only model-checked: liveness (`OverlappingAllHear`, `EveryGetSettles`, `CallsSettle`,
`EveryDialEnds`), which with `ENABLED` is out of the prover's reach. Every invariant and every
action property that a passing run checks is a theorem.

## Not modelled, and the plan

Left out for good:

  - hashing, proof of work, signatures, encryption and encodings, textRandom, the logger
    (pure functions of bytes and strings, without state);
  - the web3 account, whose keys are there at once, so that nothing interleaves;
  - the stores: each operation on one is a step of the modules that use it. Their
    opening and closing is left to libraries (LevelDB, IndexedDB, Redis) whose handling
    of overlapping opens and closes is not in the repository;
  - the example application, trackers and STUN servers;
  - events for the application other than those of sign-up and key listeners, and
    proof that an address may write a namespaced key (no honest peer fails it).

Left out so far, in the components that are partly modelled: of the WebRTC adapter
`isConnected`, its server mode, its public `close` (1109), the `cleanPool` of `onLeave`, an
answerer's object that fails before the maker of the offer took its answer, and a
WebSocket constructor that throws, with the `scheduleReconnect` after it; a restart of a
websocket server, what replication loses between ping and pong (`Heard` names the window),
and the composition of `Subscriptions` with handlers that overlap.

Next, in this order:

1. The window between ping and pong (`Heard` names it), composed with `Network`.
2. `Subscriptions` composed with handlers that overlap.
