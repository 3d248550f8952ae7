------------------------ MODULE WebsocketConnection ------------------------
(***************************************************************************)
(* The websocket adapter (packages/websocket-network): how peers dial the  *)
(* peers they are configured with, try again, greet each other with ping   *)
(* and pong, and choose the socket they send to a peer over.               *)
(*                                                                         *)
(* A socket has an end at the peer that dials, connectTo, and one at the   *)
(* server that accepts it; <<s, n>> is the end of socket s at peer n.  Two *)
(* servers that dial each other have two sockets between them.             *)
(***************************************************************************)
EXTENDS Options, FiniteSets, Sequences

CONSTANTS
    Node,        \* the peers; also the ids they announce
    Dial,        \* Dial: <<n, m>> is in it if m is in options.peers of n
    Unreliable,  \* bound: the dials whose connections may break once open
    None         \* undefined

ASSUME DialAssumption ==
    /\ Dial \subseteq {d \in Node \X Node : d[1] # d[2]}
    /\ Unreliable \subseteq Dial

\* The sockets a dial may need: the first and one for each retry.
Socket == {<<d[1], d[2], i>> : d \in Dial, i \in 0..MaxRetries}

ASSUME NoneAssumption == None \notin Node /\ None \notin Socket

VARIABLES
    awaiting,      \* _awaitingConnections: dials neither open nor given up
    tries,         \* tries[d]: how often d was retried
    timers,        \* timers[d]: the retry timers of d that run
    phase,         \* phase[e]: the state of an end
    broken,        \* sockets whose connection is gone, noticed or not
    wire,          \* wire[e]: the messages on their way to an end, in order
    clientId,      \* clientId[e]: whom the handlers of an end take it for
    crafting,      \* sockets whose ping waits for craftPingMessage
    verifying,     \* ends whose ping waits for verifyPeer
    clientToSend,  \* clientToSend[n][m]: the socket n sends to m over, or None
    isConnected    \* isConnected[n]

vars == <<awaiting, tries, timers, phase, broken, wire, clientId, crafting,
          verifying, clientToSend, isConnected>>

End == UNION {{<<s, s[1]>>, <<s, s[2]>>} : s \in Socket}
DialOf(s) == <<s[1], s[2]>>
Dialer(s) == <<s, s[1]>>
Acceptor(s) == <<s, s[2]>>

\* Mutant of Other: messages are taken to come from the peer that dialled.
OtherDialled(e) == e[1][1]

\* The peer at the other end, whose id its pings and pongs carry.
Other(e) == CHOOSE n \in {e[1][1], e[1][2]} : n # e[2]

TypeOK ==
    /\ awaiting \subseteq Dial
    /\ tries \in [Dial -> 0..MaxRetries]
    /\ timers \in [Dial -> Nat]
    /\ phase \in [End -> {"none", "connecting", "open", "failing", "closed"}]
    /\ broken \subseteq Socket
    /\ \A e \in End : wire[e] \in Seq({"ping", "pong"})
    /\ \A e \in End : clientId[e] \in {None} \cup (Node \ {e[2]})
    /\ crafting \subseteq Socket
    /\ verifying \subseteq End
    /\ clientToSend \in [Node -> [Node -> Socket \cup {None}]]
    /\ isConnected \in [Node -> BOOLEAN]

\* The constructor dials every configured peer.
Init ==
    /\ awaiting = Dial
    /\ tries = [d \in Dial |-> 0]
    /\ timers = [d \in Dial |-> 0]
    /\ phase = [e \in End |-> IF e = Dialer(e[1]) /\ e[1][3] = 0 THEN "connecting" ELSE "none"]
    /\ broken = {}
    /\ wire = [e \in End |-> <<>>]
    /\ clientId = [e \in End |-> None]
    /\ crafting = {}
    /\ verifying = {}
    /\ clientToSend = [n \in Node |-> [m \in Node |-> None]]
    /\ isConnected = [n \in Node |-> FALSE]

dialVars == <<awaiting, tries, timers>>
greetVars == <<wire, clientId, crafting, verifying, clientToSend>>

-----------------------------------------------------------------------------
\* Mutant of Reconnect: the timer that runs is not cleared.
ReconnectTwice(d) ==
    IF d \in awaiting /\ tries[d] < MaxRetries
    THEN timers' = [timers EXCEPT ![d] = @ + 1] /\ UNCHANGED <<awaiting, isConnected>>
    ELSE UNCHANGED <<awaiting, timers, isConnected>>

(***************************************************************************)
(* reconnect: another try after a while, unless there were too many.  It   *)
(* finds nothing to do for a dial that has opened before.  Nothing is ever *)
(* put into _connections, so giving up one peer always counts as having no *)
(* peer left.                                                              *)
(***************************************************************************)
Reconnect(d) ==
    \/ /\ d \in awaiting /\ tries[d] < MaxRetries
       /\ timers' = [timers EXCEPT ![d] = 1]
       /\ UNCHANGED <<awaiting, isConnected>>
    \/ /\ d \in awaiting /\ tries[d] >= MaxRetries
       /\ timers' = [timers EXCEPT ![d] = 0]
       /\ awaiting' = awaiting \ {d}
       /\ isConnected' = [isConnected EXCEPT ![d[1]] = FALSE]
    \/ d \notin awaiting /\ UNCHANGED <<awaiting, timers, isConnected>>

Unused(d) == {s \in Socket : DialOf(s) = d /\ phase[Dialer(s)] = "none"}

(***************************************************************************)
(* The retry timer: connectTo, with the id of the connection it replaces.  *)
(* wait is longer than the close of a socket takes to follow its error.    *)
(***************************************************************************)
Retry(d) ==
    /\ timers[d] > 0
    /\ \A s \in Socket : DialOf(s) = d => phase[Dialer(s)] # "failing"
    /\ timers' = [timers EXCEPT ![d] = @ - 1]
    /\ tries' = [tries EXCEPT ![d] = @ + 1]
    /\ \E s \in Unused(d) :
        /\ \A t \in Unused(d) : s[3] <= t[3]
        /\ phase' = [phase EXCEPT ![Dialer(s)] = "connecting"]
    /\ UNCHANGED <<awaiting, broken, greetVars, isConnected>>

\* The server's connection event.
Accept(s) ==
    /\ phase[Dialer(s)] = "connecting" /\ phase[Acceptor(s)] = "none"
    /\ phase' = [phase EXCEPT ![Acceptor(s)] = "open"]
    /\ UNCHANGED <<dialVars, broken, greetVars, isConnected>>

\* wss.onopen.
Open(s) ==
    /\ phase[Dialer(s)] = "connecting" /\ phase[Acceptor(s)] # "none"
    /\ phase' = [phase EXCEPT ![Dialer(s)] = "open"]
    /\ awaiting' = awaiting \ {DialOf(s)}
    /\ crafting' = crafting \cup {s}
    /\ UNCHANGED <<tries, timers, broken, wire, clientId, verifying,
                   clientToSend, isConnected>>

\* wss.onerror of a socket that does not open; ETIMEDOUT is left to onclose.
Error(s) ==
    /\ phase[Dialer(s)] = "connecting"
    /\ phase' = [phase EXCEPT ![Dialer(s)] = "failing"]
    /\ broken' = broken \cup {s}
    /\ \/ Reconnect(DialOf(s))
       \/ UNCHANGED <<awaiting, timers, isConnected>>
    /\ UNCHANGED <<tries, greetVars>>

Break(s) ==
    /\ DialOf(s) \in Unreliable
    /\ s \notin broken
    /\ phase[Dialer(s)] = "open"
    /\ broken' = broken \cup {s}
    /\ UNCHANGED <<dialVars, phase, greetVars, isConnected>>

-----------------------------------------------------------------------------
\* craftPingMessage, then wss.send.
Ping(s) ==
    /\ s \in crafting
    /\ crafting' = crafting \ {s}
    /\ wire' = [wire EXCEPT ![Acceptor(s)] =
         IF phase[Dialer(s)] = "open" THEN Append(@, "ping") ELSE @]
    /\ UNCHANGED <<dialVars, phase, broken, clientId, verifying, clientToSend, isConnected>>

(***************************************************************************)
(* onClientMessage, a ping or pong: from now on this end is the sender's,  *)
(* and messages to the sender go over this socket.  A ping is verified.    *)
(***************************************************************************)
Receive(e) ==
    /\ phase[e] = "open" /\ wire[e] # <<>>
    /\ wire' = [wire EXCEPT ![e] = Tail(@)]
    /\ clientId' = [clientId EXCEPT ![e] = Other(e)]
    /\ clientToSend' = [clientToSend EXCEPT ![e[2]][Other(e)] = e[1]]
    /\ verifying' = verifying \cup {x \in {e} : Head(wire[e]) = "ping"}
    /\ isConnected' = [isConnected EXCEPT ![e[2]] = TRUE]
    /\ UNCHANGED <<dialVars, phase, broken, crafting>>

\* Mutant of Pong: only a peer that no other socket has brought is answered.
PongIfNew(n, m) ==
    LET s == clientToSend[n][m]
        known == \E e \in End : e[1] # s /\ e[2] = n /\ clientId[e] = m
    IN  wire' = IF s # None /\ phase[<<s, n>>] = "open" /\ ~known
                THEN [wire EXCEPT ![<<s, m>>] = Append(@, "pong")] ELSE wire

\* sendToClientId: over the socket m is now known by, if it is open.
Pong(n, m) ==
    LET s == clientToSend[n][m]
    IN  wire' = IF s # None /\ phase[<<s, n>>] = "open"
                THEN [wire EXCEPT ![<<s, m>>] = Append(@, "pong")] ELSE wire

\* handlePing, once the peer is verified.
Verified(e) ==
    /\ e \in verifying
    /\ verifying' = verifying \ {e}
    /\ Pong(e[2], Other(e))
    /\ UNCHANGED <<dialVars, phase, broken, clientId, crafting, clientToSend, isConnected>>

\* Mutant of Forget: the close handlers of the server do nothing.
ForgetNothing(n, m) == UNCHANGED clientToSend

\* onClientDisconnect, whatever socket m is known by now.
Forget(n, m) ==
    IF m = None THEN UNCHANGED clientToSend
    ELSE clientToSend' = [clientToSend EXCEPT ![n][m] = None]

\* Mutant of OnClose: the dialer reconnects after errors only.
OnCloseForgets(e) ==
    /\ IF e = Dialer(e[1]) THEN UNCHANGED clientToSend ELSE Forget(e[2], clientId[e])
    /\ UNCHANGED <<awaiting, timers, isConnected>>

\* The close handlers, of which only the server's forgets the peer.
OnClose(e) ==
    IF e = Dialer(e[1])
    THEN Reconnect(DialOf(e[1])) /\ UNCHANGED clientToSend
    ELSE Forget(e[2], clientId[e]) /\ UNCHANGED <<awaiting, timers, isConnected>>

\* The close event.  What was on its way to this end is lost.
Close(e) ==
    /\ \/ phase[e] = "failing"
       \/ phase[e] = "open" /\ e[1] \in broken
    /\ phase' = [phase EXCEPT ![e] = "closed"]
    /\ wire' = [wire EXCEPT ![e] = <<>>]
    /\ OnClose(e)
    /\ UNCHANGED <<tries, broken, clientId, crafting, verifying>>

-----------------------------------------------------------------------------
\* The steps that end an attempt or start the next one.
Attempt ==
    \/ \E s \in Socket : Accept(s) \/ Open(s) \/ Error(s)
    \/ \E e \in End : Close(e)
    \/ \E d \in Dial : Retry(d)

Next ==
    \/ Attempt
    \/ \E s \in Socket : Ping(s) \/ Break(s)
    \/ \E e \in End : Receive(e) \/ Verified(e)

Spec == Init /\ [][Next]_vars

\* Timers run out, and a socket that connects opens or fails at last.
FairSpec == Spec /\ WF_vars(Attempt)

-----------------------------------------------------------------------------
(***************************************************************************)
(* One attempt at a time: a dial has one socket or one running timer, never*)
(* two, although an error and the close that follows it both reconnect.    *)
(***************************************************************************)
OneAttempt ==
    \A d \in Dial :
        Cardinality({s \in Socket : DialOf(s) = d /\ phase[Dialer(s)] \in {"connecting", "open"}})
            + timers[d] <= 1

(***************************************************************************)
(* Every dial comes to an end: its socket opens, or it is given up after   *)
(* all the retries it has (reconnect is called by one event at least of a  *)
(* socket that does not open).                                             *)
(***************************************************************************)
EveryDialEnds ==
    \A d \in Dial :
        <>(\/ \E s \in Socket : DialOf(s) = d /\ phase[Dialer(s)] = "open"
           \/ d \notin awaiting /\ tries[d] = MaxRetries)

(***************************************************************************)
(* Who is sent to will listen: when a peer sends over a socket that is     *)
(* open at both ends, the other end knows the sender, or the ping or pong  *)
(* that tells it is on its way, though pongs go over whatever socket the   *)
(* peer was last heard on, and onClientMessage drops what an end that was  *)
(* told nothing receives.                                                  *)
(***************************************************************************)
Heard ==
    \A n, m \in Node :
        LET s == clientToSend[n][m]
        IN  s # None /\ s \notin broken =>
              \/ phase[<<s, n>>] # "open" \/ phase[<<s, m>>] # "open"
              \/ clientId[<<s, m>>] = n \/ wire[<<s, m>>] # <<>>
              \/ <<s, n>> \in verifying

(***************************************************************************)
(* The server's end of a socket is never sent to after its close event,    *)
(* whichever sockets the peer had before and after (on "close" of the      *)
(* server's sockets).                                                      *)
(***************************************************************************)
NoClosedClients ==
    \A n, m \in Node :
        LET s == clientToSend[n][m]
        IN  s # None /\ s[2] = n => phase[<<s, n>>] # "closed"
=============================================================================
