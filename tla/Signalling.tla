----------------------------- MODULE Signalling -----------------------------
(***************************************************************************)
(* How a peer of the WebRTC adapter (packages/webrtc-network) keeps its    *)
(* sockets to trackers and Nostr relays: it announces itself to all of     *)
(* them time and again, dials the ones it has no socket to, dials again    *)
(* when a socket closes, and puts reconnections off while it is offline.   *)
(*                                                                         *)
(* WebrtcPeers is about what comes over these sockets.  Sockets of one url *)
(* are told apart only by their state, so they are counted; the delays of  *)
(* the exponential backoff are not modelled, for a timer may fire at any   *)
(* moment.                                                                 *)
(***************************************************************************)
EXTENDS Integers, Sequences

CONSTANTS
    TrackerUrl,   \* trackerUrls
    RelayUrls,    \* nostrRelayUrls, a sequence
    MaxAnnounces, \* bound: the calls of announceAll
    MaxOffline    \* bound: how often the network goes offline

ASSUME SignalAssumption ==
    /\ MaxAnnounces \in Nat
    /\ MaxOffline \in Nat
    \* A list of urls, each named once; sockets and nostrRelays are two tables.
    /\ RelayUrls \in Seq({RelayUrls[i] : i \in DOMAIN RelayUrls})
    /\ \A i, j \in DOMAIN RelayUrls : RelayUrls[i] = RelayUrls[j] => i = j
    /\ \A i \in DOMAIN RelayUrls : RelayUrls[i] \notin TrackerUrl

VARIABLES
    dialling,   \* dialling[u]: the sockets to u that are neither open nor failed
    live,       \* live[u]: the open sockets to u
    current,    \* the urls whose sockets[u] or nostrRelays[u] is an open socket
    redial,     \* redial[u]: the timers of scheduleReconnect
    queued,     \* pendingReconnections: the number of each kind, for each url
    promised,   \* promised[u]: the sockets to u that an announcement waits for
    paused,     \* reconnectionPaused
    announced,  \* the calls of announceAll so far
    offline,    \* how often the network went offline
    left        \* onLeave ran to its end

SignalVars == <<dialling, live, current, redial, queued, promised, paused,
                announced, offline, left>>

Relay == {RelayUrls[i] : i \in DOMAIN RelayUrls}
Url == TrackerUrl \cup Relay

\* What pendingReconnections holds: connect of makeSocket, reconnectSocket, or
\* the callback of a timer of scheduleReconnect.
Pending == {"connect", "reconnect", "callback"}

SignalTypeOK ==
    /\ dialling \in [Url -> Nat]
    /\ live \in [Url -> Nat]
    /\ current \subseteq {u \in Url : live[u] > 0}
    /\ redial \in [Url -> Nat]
    /\ queued \in [Url -> [Pending -> Nat]]
    /\ promised \in [Url -> Nat]
    /\ \A u \in Url : promised[u] <= dialling[u]
    /\ announced \in 0..MaxAnnounces
    /\ offline \in 0..MaxOffline
    /\ {paused, left} \subseteq BOOLEAN

SignalInit ==
    /\ dialling = [u \in Url |-> 0]
    /\ live = [u \in Url |-> 0]
    /\ current = {}
    /\ redial = [u \in Url |-> 0]
    /\ queued = [u \in Url |-> [p \in Pending |-> 0]]
    /\ promised = [u \in Url |-> 0]
    /\ paused = FALSE
    /\ announced = 0
    /\ offline = 0
    /\ left = FALSE

-----------------------------------------------------------------------------
(***************************************************************************)
(* The rest of announceToAllNostrRelays from the i-th relay on: relays     *)
(* that are connected are announced to, and the loop waits at the first    *)
(* one that is not, with a new socket.                                     *)
(***************************************************************************)
WaitsAt(i, open) ==
    {RelayUrls[j] : j \in {j \in i..Len(RelayUrls) :
                             /\ RelayUrls[j] \notin open
                             /\ \A l \in i..(j - 1) : RelayUrls[l] \in open}}

\* makeSocket for a tracker without socket, unless it waits for the network.
DialsFor(u) == IF u \in TrackerUrl \ current THEN 1 ELSE 0

\* announceAll: every tracker at once, the relays one after the other.
SignalAnnounceAll ==
    /\ ~left
    /\ announced < MaxAnnounces
    /\ announced' = announced + 1
    /\ LET wait == WaitsAt(1, current)
       IN  /\ dialling' = [u \in Url |-> dialling[u] + (IF u \in wait THEN 1 ELSE 0)
                                           + (IF paused THEN 0 ELSE DialsFor(u))]
           /\ promised' = [u \in Url |-> promised[u] + (IF u \in wait THEN 1 ELSE 0)]
           /\ queued' = [u \in Url |-> [queued[u] EXCEPT !["connect"] =
                            @ + (IF paused THEN DialsFor(u) ELSE 0)]]
    /\ UNCHANGED <<live, current, redial, paused, offline, left>>

(***************************************************************************)
(* onopen.  It may be the socket that an announcement waits for, which     *)
(* then goes on to the next relay.                                         *)
(***************************************************************************)
SignalOpen(u) ==
    /\ dialling[u] > 0
    /\ live' = [live EXCEPT ![u] = @ + 1]
    /\ current' = current \cup {u}
    /\ \/ /\ promised[u] < dialling[u]
          /\ dialling' = [dialling EXCEPT ![u] = @ - 1]
          /\ UNCHANGED promised
       \/ /\ promised[u] > 0
          /\ \E i \in DOMAIN RelayUrls :
                LET wait == WaitsAt(i + 1, current')
                    change(v) == (IF v \in wait THEN 1 ELSE 0) - (IF v = u THEN 1 ELSE 0)
                IN  /\ RelayUrls[i] = u
                    /\ dialling' = [v \in Url |-> dialling[v] + change(v)]
                    /\ promised' = [v \in Url |-> promised[v] + change(v)]
    /\ UNCHANGED <<redial, queued, paused, announced, offline, left>>

\* Mutants of OnSocketClose: a close while offline is not queued; onerror,
\* which comes before, has scheduled a reconnection too.
OnSocketCloseDrops(u) ==
    /\ redial' = IF paused THEN redial ELSE [redial EXCEPT ![u] = @ + 1]
    /\ UNCHANGED queued

OnSocketCloseTwice(u) ==
    IF paused /\ u \in TrackerUrl
    THEN queued' = [queued EXCEPT ![u]["reconnect"] = @ + 1] /\ UNCHANGED redial
    ELSE redial' = [redial EXCEPT ![u] = @ + 2] /\ UNCHANGED queued

(***************************************************************************)
(* onclose, of a socket that never opened too: reconnect after a while.    *)
(* While the network is offline trackers are put off and relays dropped.   *)
(***************************************************************************)
OnSocketClose(u) ==
    IF ~paused
    THEN redial' = [redial EXCEPT ![u] = @ + 1] /\ UNCHANGED queued
    ELSE /\ queued' = IF u \in Relay THEN queued
                      ELSE [queued EXCEPT ![u]["reconnect"] = @ + 1]
         /\ UNCHANGED redial

\* A socket does not open: an announcement that waits for it waits for ever.
SignalFail(u) ==
    /\ dialling[u] > 0
    /\ dialling' = [dialling EXCEPT ![u] = @ - 1]
    /\ \/ promised[u] < dialling[u] /\ UNCHANGED promised
       \/ promised[u] > 0 /\ promised' = [promised EXCEPT ![u] = @ - 1]
    /\ current' = current \ {u}
    /\ OnSocketClose(u)
    /\ UNCHANGED <<live, paused, announced, offline, left>>

\* Mutant of SignalClose: the closed socket stays in sockets[url].
SignalCloseKeeps(u) ==
    /\ live[u] > 0
    /\ live' = [live EXCEPT ![u] = @ - 1]
    /\ OnSocketClose(u)
    /\ UNCHANGED <<dialling, current, promised, paused, announced, offline, left>>

\* An open socket closes; a newer one of the same url is lost sight of.
SignalClose(u) ==
    /\ live[u] > 0
    /\ live' = [live EXCEPT ![u] = @ - 1]
    /\ current' = current \ {u}
    /\ OnSocketClose(u)
    /\ UNCHANGED <<dialling, promised, paused, announced, offline, left>>

\* What callbacks of scheduleReconnect do: dial, unless there is a socket.
CallbackDials(u, n) == IF u \in current THEN 0 ELSE n

\* A timer of scheduleReconnect fires.
Redial(u) ==
    /\ redial[u] > 0
    /\ redial' = [redial EXCEPT ![u] = @ - 1]
    /\ IF paused
       THEN queued' = [queued EXCEPT ![u]["callback"] = @ + 1] /\ UNCHANGED dialling
       ELSE dialling' = [dialling EXCEPT ![u] = @ + CallbackDials(u, 1)] /\ UNCHANGED queued
    /\ UNCHANGED <<live, current, promised, paused, announced, offline, left>>

\* handleOffline.
HandleOffline ==
    /\ ~left
    /\ ~paused /\ offline < MaxOffline
    /\ paused' = TRUE
    /\ offline' = offline + 1
    /\ UNCHANGED <<dialling, live, current, redial, queued, promised, announced, left>>

\* Mutant of HandleOnline: what is pending is forgotten.
HandleOnlineForgets ==
    /\ ~left /\ paused
    /\ announced < MaxAnnounces
    /\ announced' = announced + 1
    /\ paused' = FALSE
    /\ queued' = [u \in Url |-> [p \in Pending |-> 0]]
    /\ UNCHANGED <<dialling, live, current, redial, promised, offline, left>>

(***************************************************************************)
(* handleOnline: everything that is pending is done, then announceAll.     *)
(***************************************************************************)
HandleOnline ==
    /\ ~left /\ paused
    /\ announced < MaxAnnounces
    /\ announced' = announced + 1
    /\ paused' = FALSE
    /\ LET wait == WaitsAt(1, current)
           resumed(u) == queued[u]["connect"] + CallbackDials(u, queued[u]["callback"])
       IN  /\ dialling' = [u \in Url |-> dialling[u] + resumed(u) + DialsFor(u)
                                           + (IF u \in wait THEN 1 ELSE 0)]
           /\ promised' = [u \in Url |-> promised[u] + (IF u \in wait THEN 1 ELSE 0)]
    /\ redial' = [u \in Url |-> redial[u] + queued[u]["reconnect"]]
    /\ queued' = [u \in Url |-> [p \in Pending |-> 0]]
    /\ UNCHANGED <<live, current, offline, left>>

(***************************************************************************)
(* onLeave.  Before the first announcement there are no listeners of       *)
(* trackers to delete, and it throws when the ones of the network are      *)
(* gone.  Timers of reconnections go on, and relays that close are dialled *)
(* again.                                                                  *)
(***************************************************************************)
OnLeave ==
    /\ ~left
    /\ announced > 0
    /\ left' = TRUE
    /\ current' = current \ Relay
    /\ UNCHANGED <<dialling, live, redial, queued, promised, paused, announced, offline>>

SignalNext ==
    \/ SignalAnnounceAll
    \/ \E u \in Url : SignalOpen(u) \/ SignalFail(u) \/ SignalClose(u) \/ Redial(u)
    \/ HandleOffline \/ HandleOnline
    \/ OnLeave

SignalSpec == SignalInit /\ [][SignalNext]_SignalVars

-----------------------------------------------------------------------------
\* The sockets to u and what will make another.
Attempts(u) ==
    dialling[u] + live[u] + redial[u] + queued[u]["connect"]
        + queued[u]["reconnect"] + queued[u]["callback"]

(***************************************************************************)
(* "Exponential backoff reconnection instead of removing tracker": once    *)
(* announced to, a tracker always has a socket, a timer or a pending       *)
(* reconnection, whatever fails, closes or goes offline meanwhile.  Nor    *)
(* does retrying multiply: error and close of one socket, a pause and what *)
(* is done at its end make no attempt of one another's, and a tracker or   *)
(* relay has at most one for each announcement (makeSocket,                *)
(* reconnectSocket, scheduleReconnect, handleOnline).                      *)
(***************************************************************************)
TrackersRetried ==
    /\ announced > 0 => \A u \in TrackerUrl : Attempts(u) >= 1
    /\ \A u \in Url : Attempts(u) <= announced
=============================================================================
