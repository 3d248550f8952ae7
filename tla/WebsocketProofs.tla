--------------------------- MODULE WebsocketProofs ---------------------------
(***************************************************************************)
(* Proofs about the websocket adapter, for any peers, dials and numbers of *)
(* retries: its variables keep their types, a dial has one attempt at a    *)
(* time, no server sends over a socket that it saw close, and whoever is   *)
(* sent to knows the sender.                                               *)
(***************************************************************************)
EXTENDS WebsocketConnection, FiniteSetTheorems, TLAPS

Phase == {"none", "connecting", "open", "failing", "closed"}

\* A socket is of one dial and has two ends.
LEMMA SocketFacts ==
    ASSUME NEW s \in Socket
    PROVE  /\ s[1] \in Node /\ s[2] \in Node /\ s[1] # s[2]
           /\ DialOf(s) \in Dial /\ DialOf(s) = <<s[1], s[2]>>
           /\ Dialer(s) \in End /\ Acceptor(s) \in End
           /\ Dialer(s) = <<s, s[1]>> /\ Acceptor(s) = <<s, s[2]>>
<1>1. PICK d \in Dial, i \in 0..MaxRetries : s = <<d[1], d[2], i>>
  BY DEF Socket
<1>2. d \in Node \X Node /\ d[1] # d[2]
  BY DialAssumption
<1>3. s[1] = d[1] /\ s[2] = d[2] /\ <<s[1], s[2]>> = d
  BY <1>1, <1>2
<1> QED BY <1>2, <1>3 DEF DialOf, Dialer, Acceptor, End

\* An end is its dialer's or its acceptor's.
LEMMA EndFacts ==
    ASSUME NEW e \in End
    PROVE  /\ e[1] \in Socket /\ e[2] \in Node /\ e = <<e[1], e[2]>>
           /\ e = Dialer(e[1]) \/ e = Acceptor(e[1])
           /\ Other(e) \in Node
<1>1. PICK s \in Socket : e \in {<<s, s[1]>>, <<s, s[2]>>}
  BY DEF End
<1>2. e[1] = s /\ e[2] \in {s[1], s[2]} /\ e = <<e[1], e[2]>>
  BY <1>1
<1>3. \E n \in {s[1], s[2]} : n # e[2]
  BY <1>2, SocketFacts
<1>4. Other(e) \in {s[1], s[2]}
  BY <1>2, <1>3 DEF Other
<1> QED BY <1>1, <1>2, <1>4, SocketFacts DEF Dialer, Acceptor

\* The two ends of a socket differ, and sockets share no ends.
LEMMA EndsDiffer ==
    ASSUME NEW s \in Socket, NEW t \in Socket
    PROVE  Dialer(s) # Acceptor(t) /\ (Dialer(s) = Dialer(t) => s = t)
BY SocketFacts

-----------------------------------------------------------------------------
\* The ends of attempts.
Underway == {"connecting", "open", "failing"}

DialsOK ==
    /\ phase \in [End -> Phase]
    /\ timers \in [Dial -> {0, 1}]
    /\ awaiting \subseteq Dial
    \* A dial has one socket at most that is not closed.
    /\ \A s, t \in Socket :
          DialOf(s) = DialOf(t) /\ phase[Dialer(s)] \in Underway /\ phase[Dialer(t)] \in Underway
              => s = t
    \* Its timer waits for the end of the last one.
    /\ \A s \in Socket : timers[DialOf(s)] = 1 => phase[Dialer(s)] \notin {"connecting", "open"}
    \* What opened is not tried again.
    /\ \A s \in Socket : phase[Dialer(s)] = "open" => DialOf(s) \notin awaiting

\* Nothing is dialled yet.
LEMMA DialsInit == Init => DialsOK
<1> SUFFICES ASSUME Init PROVE DialsOK
  OBVIOUS
<1>1. phase \in [End -> Phase] /\ timers \in [Dial -> {0, 1}] /\ awaiting \subseteq Dial
  BY DEF Init, Phase
<1>2. \A s \in Socket : /\ phase[Dialer(s)] \in Underway => s[3] = 0
                        /\ phase[Dialer(s)] # "open" /\ timers[DialOf(s)] = 0
  BY SocketFacts DEF Init, Underway
<1>3. \A s, t \in Socket : DialOf(s) = DialOf(t) /\ s[3] = t[3] => s = t
  BY DEF DialOf, Socket
<1> QED BY <1>1, <1>2, <1>3 DEF DialsOK

\* reconnect sets one timer, of its own dial, if that never opened.
LEMMA Reconnected ==
    ASSUME DialsOK, NEW d \in Dial, Reconnect(d)
    PROVE  /\ timers' \in [Dial -> {0, 1}]
           /\ \A c \in Dial \ {d} : timers'[c] = timers[c]
           /\ d \notin awaiting => timers'[d] = timers[d]
           /\ awaiting' \subseteq awaiting
BY DEF DialsOK, Reconnect

\* Every step keeps the invariant.
LEMMA DialsStep == ASSUME DialsOK, [Next]_vars PROVE DialsOK'
<1>1. CASE UNCHANGED vars
  BY <1>1 DEF DialsOK, vars
<1>2. ASSUME NEW s \in Socket, Accept(s) PROVE DialsOK'
  <2>1. /\ phase' = [phase EXCEPT ![Acceptor(s)] = "open"]
        /\ UNCHANGED <<awaiting, timers>>
    BY <1>2 DEF Accept, dialVars
  <2>2. phase' \in [End -> Phase] /\ \A t \in Socket : phase'[Dialer(t)] = phase[Dialer(t)]
    BY <2>1, SocketFacts, EndsDiffer DEF DialsOK, Phase
  <2> QED BY <2>1, <2>2 DEF DialsOK
<1>3. ASSUME NEW s \in Socket, Open(s) PROVE DialsOK'
  <2>1. /\ phase[Dialer(s)] = "connecting" /\ phase' = [phase EXCEPT ![Dialer(s)] = "open"]
        /\ awaiting' = awaiting \ {DialOf(s)} /\ timers' = timers
    BY <1>3 DEF Open
  <2>2. /\ phase' \in [End -> Phase] /\ phase'[Dialer(s)] = "open"
        /\ \A t \in Socket \ {s} : phase'[Dialer(t)] = phase[Dialer(t)]
    BY <2>1, SocketFacts, EndsDiffer DEF DialsOK, Phase
  <2>3. timers[DialOf(s)] # 1
    BY <2>1 DEF DialsOK
  <2> QED BY <2>1, <2>2, <2>3 DEF DialsOK, Underway
<1>4. ASSUME NEW s \in Socket, Error(s) PROVE DialsOK'
  <2>1. /\ phase[Dialer(s)] = "connecting" /\ phase' = [phase EXCEPT ![Dialer(s)] = "failing"]
        /\ Reconnect(DialOf(s)) \/ UNCHANGED <<awaiting, timers>>
    BY <1>4 DEF Error
  <2>2. /\ phase' \in [End -> Phase] /\ phase'[Dialer(s)] = "failing"
        /\ \A t \in Socket \ {s} : phase'[Dialer(t)] = phase[Dialer(t)]
    BY <2>1, SocketFacts, EndsDiffer DEF DialsOK, Phase
  <2>3. /\ timers' \in [Dial -> {0, 1}] /\ awaiting' \subseteq awaiting
        /\ \A c \in Dial \ {DialOf(s)} : timers'[c] = timers[c]
    BY <2>1, SocketFacts, Reconnected DEF DialsOK
  <2>4. \A t \in Socket : DialOf(t) = DialOf(s) => phase'[Dialer(t)] \notin {"connecting", "open"}
    BY <2>1, <2>2 DEF DialsOK, Underway
  <2>5. \A t \in Socket :
           timers'[DialOf(t)] = 1 => phase'[Dialer(t)] \notin {"connecting", "open"}
    BY <2>2, <2>3, <2>4, SocketFacts DEF DialsOK
  <2> QED BY <2>1, <2>2, <2>3, <2>5 DEF DialsOK, Underway
<1>5. ASSUME NEW e \in End, Close(e) PROVE DialsOK'
  <2> DEFINE s == e[1]
  <2>1. /\ phase[e] \in {"failing", "open"} /\ phase' = [phase EXCEPT ![e] = "closed"]
        /\ OnClose(e) /\ s \in Socket
    BY <1>5, EndFacts DEF Close
  <2>2. CASE e # Dialer(s)
    <3>1. e = Acceptor(s) /\ UNCHANGED <<awaiting, timers>>
      BY <2>1, <2>2, EndFacts DEF OnClose
    <3>2. phase' \in [End -> Phase] /\ \A t \in Socket : phase'[Dialer(t)] = phase[Dialer(t)]
      BY <2>1, <3>1, SocketFacts, EndsDiffer DEF DialsOK, Phase
    <3> QED BY <3>1, <3>2 DEF DialsOK
  <2>3. CASE e = Dialer(s)
    <3>1. Reconnect(DialOf(s))
      BY <2>1, <2>3 DEF OnClose
    <3>2. /\ phase' \in [End -> Phase] /\ phase'[Dialer(s)] = "closed"
          /\ \A t \in Socket \ {s} : phase'[Dialer(t)] = phase[Dialer(t)]
      BY <2>1, <2>3, SocketFacts, EndsDiffer DEF DialsOK, Phase
    <3>3. /\ timers' \in [Dial -> {0, 1}] /\ awaiting' \subseteq awaiting
          /\ \A c \in Dial \ {DialOf(s)} : timers'[c] = timers[c]
      BY <2>1, <3>1, SocketFacts, Reconnected
    <3>4. \A t \in Socket : DialOf(t) = DialOf(s) => phase'[Dialer(t)] \notin Underway
      BY <2>1, <2>3, <3>2 DEF DialsOK, Underway
    <3>5. \A t \in Socket :
             timers'[DialOf(t)] = 1 => phase'[Dialer(t)] \notin {"connecting", "open"}
      BY <2>1, <3>2, <3>3, <3>4, SocketFacts DEF DialsOK, Underway
    <3> HIDE DEF s
    <3> QED BY <3>2, <3>3, <3>5 DEF DialsOK, Underway
  <2> QED BY <2>2, <2>3
<1>6. ASSUME NEW d \in Dial, Retry(d) PROVE DialsOK'
  <2>1. PICK s \in Unused(d) : phase' = [phase EXCEPT ![Dialer(s)] = "connecting"]
    BY <1>6 DEF Retry
  <2>2. s \in Socket /\ DialOf(s) = d /\ phase[Dialer(s)] = "none"
    BY <2>1 DEF Unused
  <2>3. /\ timers[d] = 1 /\ timers' = [timers EXCEPT ![d] = timers[d] - 1]
        /\ awaiting' = awaiting
        /\ \A t \in Socket : DialOf(t) = d => phase[Dialer(t)] # "failing"
    BY <1>6 DEF Retry, DialsOK
  <2>4. /\ phase' \in [End -> Phase] /\ phase'[Dialer(s)] = "connecting"
        /\ \A t \in Socket \ {s} : phase'[Dialer(t)] = phase[Dialer(t)]
    BY <2>1, <2>2, SocketFacts, EndsDiffer DEF DialsOK, Phase
  <2>5. /\ timers' \in [Dial -> {0, 1}] /\ timers'[d] = 0
        /\ \A c \in Dial \ {d} : timers'[c] = timers[c]
    BY <2>3 DEF DialsOK
  <2>6. \A t \in Socket : DialOf(t) = d => phase[Dialer(t)] \notin Underway
    BY <2>3 DEF DialsOK, Underway
  <2>7. \A t \in Socket :
           timers'[DialOf(t)] = 1 => phase'[Dialer(t)] \notin {"connecting", "open"}
    BY <2>2, <2>4, <2>5, SocketFacts DEF DialsOK
  <2>8. \A t, u \in Socket :
           DialOf(t) = DialOf(u) /\ phase'[Dialer(t)] \in Underway /\ phase'[Dialer(u)] \in Underway
               => t = u
    BY <2>2, <2>4, <2>6 DEF DialsOK
  <2> QED BY <2>3, <2>4, <2>5, <2>7, <2>8 DEF DialsOK
<1>7. CASE (\E s \in Socket : Ping(s) \/ Break(s)) \/ (\E e \in End : Receive(e) \/ Verified(e))
  <2>1. UNCHANGED <<phase, timers, awaiting>>
    BY <1>7 DEF Ping, Break, Receive, Verified, dialVars
  <2> QED BY <2>1 DEF DialsOK
<1> QED BY <1>1, <1>2, <1>3, <1>4, <1>5, <1>6, <1>7 DEF Next, Attempt

\* The invariant is stronger than the property.
LEMMA DialsOne == DialsOK => OneAttempt
<1> SUFFICES ASSUME DialsOK, NEW d \in Dial
             PROVE  Cardinality({s \in Socket : DialOf(s) = d
                                     /\ phase[Dialer(s)] \in {"connecting", "open"}})
                        + timers[d] <= 1
  BY DEF OneAttempt
<1> DEFINE L == {s \in Socket : DialOf(s) = d /\ phase[Dialer(s)] \in {"connecting", "open"}}
<1>1. timers[d] \in {0, 1}
  BY DEF DialsOK
<1>2. CASE L = {}
  BY <1>1, <1>2, FS_EmptySet
<1>3. CASE L # {}
  <2>1. PICK s : s \in L
    BY <1>3
  <2>2. L = {s} /\ timers[d] = 0
    BY <1>1, <2>1 DEF DialsOK, Underway
  <2>3. Cardinality(L) = 1
    BY <2>2, FS_Singleton
  <2> QED BY <2>2, <2>3
<1> QED BY <1>2, <1>3

(***************************************************************************)
(* A dial has one attempt at a time, whichever of error and close events   *)
(* call reconnect.                                                         *)
(***************************************************************************)
THEOREM AttemptsDoNotOverlap == Spec => []OneAttempt
<1>1. DialsOK /\ [Next]_vars => DialsOK'
  BY DialsStep
<1> QED BY DialsInit, <1>1, DialsOne, PTL DEF Spec

-----------------------------------------------------------------------------
(***************************************************************************)
(* A socket that a peer is known by has heard that peer: so its own close  *)
(* event finds it, and forgets the peer.                                   *)
(***************************************************************************)
ClientsOK ==
    /\ phase \in [End -> Phase]
    /\ clientId \in [End -> Node \cup {None}]
    /\ clientToSend \in [Node -> [Node -> Socket \cup {None}]]
    /\ \A e \in End : clientId[e] \in {None, Other(e)}
    /\ \A n, m \in Node :
          clientToSend[n][m] # None => /\ <<clientToSend[n][m], n>> \in End
                                       /\ clientId[<<clientToSend[n][m], n>>] = m

ForgottenInv == ClientsOK /\ NoClosedClients

\* No socket is open yet.
LEMMA ForgottenInit == Init => ForgottenInv
<1> SUFFICES ASSUME Init PROVE ForgottenInv
  OBVIOUS
<1>1. ClientsOK
  BY DEF Init, ClientsOK, Phase
<1>2. NoClosedClients
  BY DEF Init, NoClosedClients
<1> QED BY <1>1, <1>2 DEF ForgottenInv

\* An end that becomes another than closed takes nobody's socket away.
LEMMA NotClosing ==
    ASSUME ForgottenInv, NEW e \in End, NEW v \in Phase \ {"closed"},
           phase' = [phase EXCEPT ![e] = v], UNCHANGED <<clientId, clientToSend>>
    PROVE  ForgottenInv'
<1>1. phase' \in [End -> Phase] /\ \A x \in End : phase'[x] = "closed" => phase[x] = "closed"
  BY DEF ForgottenInv, ClientsOK
<1>2. ClientsOK'
  BY <1>1 DEF ForgottenInv, ClientsOK
<1>3. NoClosedClients'
  BY <1>1 DEF ForgottenInv, ClientsOK, NoClosedClients
<1> QED BY <1>2, <1>3 DEF ForgottenInv

\* Every step keeps the invariant.
LEMMA ForgottenStep == ASSUME ForgottenInv, [Next]_vars PROVE ForgottenInv'
<1>1. CASE UNCHANGED <<phase, clientId, clientToSend>>
  BY <1>1 DEF ForgottenInv, ClientsOK, NoClosedClients
<1>2. ASSUME NEW s \in Socket, Accept(s) \/ Open(s) \/ Error(s) PROVE ForgottenInv'
  <2>1. /\ UNCHANGED <<clientId, clientToSend>>
        /\ \/ phase' = [phase EXCEPT ![Acceptor(s)] = "open"]
           \/ phase' = [phase EXCEPT ![Dialer(s)] = "open"]
           \/ phase' = [phase EXCEPT ![Dialer(s)] = "failing"]
    BY <1>2 DEF Accept, Open, Error, greetVars
  <2>2. {"open", "failing"} \subseteq Phase \ {"closed"}
    BY DEF Phase
  <2> QED BY <2>1, <2>2, NotClosing, SocketFacts
<1>3. ASSUME NEW d \in Dial, Retry(d) PROVE ForgottenInv'
  <2>1. PICK s \in Unused(d) : phase' = [phase EXCEPT ![Dialer(s)] = "connecting"]
    BY <1>3 DEF Retry
  <2>2. UNCHANGED <<clientId, clientToSend>> /\ s \in Socket
    BY <1>3 DEF Retry, greetVars, Unused
  <2>3. "connecting" \in Phase \ {"closed"}
    BY DEF Phase
  <2> QED BY <2>1, <2>2, <2>3, NotClosing, SocketFacts
<1>4. ASSUME NEW e \in End, Close(e) PROVE ForgottenInv'
  <2>1. /\ phase' = [phase EXCEPT ![e] = "closed"] /\ clientId' = clientId /\ OnClose(e)
        /\ e[1] \in Socket /\ e[2] \in Node /\ e = <<e[1], e[2]>>
        /\ e = Dialer(e[1]) \/ e = Acceptor(e[1])
    BY <1>4, EndFacts DEF Close
  <2>2. phase' \in [End -> Phase] /\ \A x \in End \ {e} : phase'[x] = phase[x]
    BY <2>1 DEF ForgottenInv, ClientsOK, Phase
  <2>3. CASE e = Dialer(e[1])
    <3>1. clientToSend' = clientToSend
      BY <2>1, <2>3 DEF OnClose
    <3>2. ClientsOK'
      BY <2>1, <2>2, <3>1 DEF ForgottenInv, ClientsOK
    <3>3. ASSUME NEW n \in Node, NEW m \in Node, clientToSend[n][m] # None,
                 clientToSend[n][m][2] = n
          PROVE  phase'[<<clientToSend[n][m], n>>] # "closed"
      <4> DEFINE s == clientToSend[n][m]
      <4>1. s \in Socket /\ <<s, n>> \in End /\ <<s, n>> = Acceptor(s)
        BY <3>3 DEF ForgottenInv, ClientsOK, Acceptor
      <4>2. <<s, n>> # e
        BY <2>1, <2>3, <4>1, EndsDiffer
      <4>3. phase[<<s, n>>] # "closed"
        BY <3>3 DEF ForgottenInv, NoClosedClients
      <4> QED BY <2>2, <4>1, <4>2, <4>3
    <3>4. NoClosedClients'
      BY <3>1, <3>3 DEF NoClosedClients
    <3> QED BY <3>2, <3>4 DEF ForgottenInv
  <2>4. CASE e # Dialer(e[1])
    <3>1. Forget(e[2], clientId[e])
      BY <2>4, <2>1 DEF OnClose
    <3>2. /\ clientToSend' \in [Node -> [Node -> Socket \cup {None}]]
          /\ \A n, m \in Node : clientToSend'[n][m] =
                IF n = e[2] /\ m = clientId[e] THEN None ELSE clientToSend[n][m]
      BY <2>1, <3>1, NoneAssumption DEF Forget, ForgottenInv, ClientsOK
    <3>3. ClientsOK'
      BY <2>1, <2>2, <3>2 DEF ForgottenInv, ClientsOK
    <3>4. ASSUME NEW n \in Node, NEW m \in Node, clientToSend'[n][m] # None,
                 clientToSend'[n][m][2] = n
          PROVE  phase'[<<clientToSend'[n][m], n>>] # "closed"
      <4> DEFINE s == clientToSend[n][m]
      <4>1. clientToSend'[n][m] = s /\ s # None /\ ~(n = e[2] /\ m = clientId[e])
        BY <3>2, <3>4
      <4>2. <<s, n>> \in End /\ clientId[<<s, n>>] = m
        BY <4>1 DEF ForgottenInv, ClientsOK
      <4>3. <<s, n>> # e
        BY <4>1, <4>2
      <4>4. phase[<<s, n>>] # "closed"
        BY <3>4, <4>1 DEF ForgottenInv, NoClosedClients
      <4> QED BY <2>2, <4>1, <4>2, <4>3, <4>4
    <3>5. NoClosedClients'
      BY <3>4 DEF NoClosedClients
    <3> QED BY <3>3, <3>5 DEF ForgottenInv
  <2> QED BY <2>3, <2>4
<1>5. ASSUME NEW e \in End, Receive(e) PROVE ForgottenInv'
  <2>1. /\ phase[e] = "open" /\ phase' = phase
        /\ clientId' = [clientId EXCEPT ![e] = Other(e)]
        /\ clientToSend' = [clientToSend EXCEPT ![e[2]][Other(e)] = e[1]]
        /\ e[1] \in Socket /\ e[2] \in Node /\ e = <<e[1], e[2]>> /\ Other(e) \in Node
    BY <1>5, EndFacts DEF Receive
  <2>2. /\ clientId' \in [End -> Node \cup {None}] /\ clientId'[e] = Other(e)
        /\ \A x \in End \ {e} : clientId'[x] = clientId[x]
    BY <2>1 DEF ForgottenInv, ClientsOK
  <2>3. /\ clientToSend' \in [Node -> [Node -> Socket \cup {None}]]
        /\ \A n, m \in Node : clientToSend'[n][m] =
              IF n = e[2] /\ m = Other(e) THEN e[1] ELSE clientToSend[n][m]
    BY <2>1 DEF ForgottenInv, ClientsOK
  <2>4. ASSUME NEW n \in Node, NEW m \in Node, clientToSend'[n][m] # None
        PROVE  /\ <<clientToSend'[n][m], n>> \in End
               /\ clientId'[<<clientToSend'[n][m], n>>] = m
    <3>1. CASE n = e[2] /\ m = Other(e)
      BY <2>1, <2>2, <2>3, <3>1
    <3>2. CASE ~(n = e[2] /\ m = Other(e))
      <4>1. /\ clientToSend'[n][m] = clientToSend[n][m]
            /\ <<clientToSend[n][m], n>> \in End
            /\ clientId[<<clientToSend[n][m], n>>] = m
        BY <2>3, <2>4, <3>2 DEF ForgottenInv, ClientsOK
      <4>2. m \in {None, Other(<<clientToSend[n][m], n>>)} /\ m # None
        BY <4>1, NoneAssumption DEF ForgottenInv, ClientsOK
      <4> QED BY <2>2, <4>1, <4>2
    <3> QED BY <3>1, <3>2
  <2>5. ClientsOK'
    BY <2>1, <2>2, <2>3, <2>4 DEF ForgottenInv, ClientsOK
  <2>6. NoClosedClients'
    BY <2>1, <2>3 DEF ForgottenInv, NoClosedClients
  <2> QED BY <2>5, <2>6 DEF ForgottenInv
<1>6. CASE (\E s \in Socket : Ping(s) \/ Break(s)) \/ (\E e \in End : Verified(e))
  <2>1. UNCHANGED <<phase, clientId, clientToSend>>
    BY <1>6 DEF Ping, Break, Verified, greetVars
  <2> QED BY <1>1, <2>1
<1> QED BY <1>1, <1>2, <1>3, <1>4, <1>5, <1>6 DEF Next, Attempt, vars, greetVars

(***************************************************************************)
(* A server never sends over a socket whose close event it has handled.    *)
(***************************************************************************)
THEOREM ClosedForgotten == Spec => []NoClosedClients
<1>1. ForgottenInv /\ [Next]_vars => ForgottenInv'
  BY ForgottenStep
<1>2. ForgottenInv => NoClosedClients
  BY DEF ForgottenInv
<1> QED BY ForgottenInit, <1>1, <1>2, PTL DEF Spec

-----------------------------------------------------------------------------
(***************************************************************************)
(* The types of what the other invariants leave out.  A timer that runs is *)
(* for a try that is left.                                                 *)
(***************************************************************************)
RestOK ==
    /\ wire \in [End -> Seq({"ping", "pong"})]
    /\ crafting \subseteq Socket /\ broken \subseteq Socket /\ verifying \subseteq End
    /\ isConnected \in [Node -> BOOLEAN]
    /\ tries \in [Dial -> 0..MaxRetries]
    /\ \A d \in Dial : timers[d] = 1 => tries[d] < MaxRetries

\* The other end of an end is at another peer, who has this one at its other end.
LEMMA OtherEnd ==
    ASSUME NEW e \in End
    PROVE  /\ Other(e) # e[2] /\ <<e[1], Other(e)>> \in End
           /\ Other(<<e[1], Other(e)>>) = e[2]
           /\ {e, <<e[1], Other(e)>>} = {Dialer(e[1]), Acceptor(e[1])}
<1>1. PICK s \in Socket : e \in {<<s, s[1]>>, <<s, s[2]>>}
  BY DEF End
<1>2. e[1] = s /\ e[2] \in {s[1], s[2]} /\ s[1] # s[2]
  BY <1>1, SocketFacts
<1>3. Other(e) = IF e[2] = s[1] THEN s[2] ELSE s[1]
  <2>1. Other(e) = CHOOSE n \in {s[1], s[2]} : n # e[2]
    BY <1>2 DEF Other
  <2>2. Other(e) \in {s[1], s[2]} /\ Other(e) # e[2]
    BY <1>2, <2>1
  <2> QED BY <1>2, <2>2
<1> DEFINE o == <<e[1], Other(e)>>
<1>4. o \in {<<s, s[1]>>, <<s, s[2]>>} /\ o[1] = s /\ o[2] = Other(e)
  BY <1>2, <1>3
<1>5. o \in End
  BY <1>4 DEF End
<1>6. Other(o) = e[2]
  <2>1. Other(o) = CHOOSE n \in {s[1], s[2]} : n # o[2]
    BY <1>4 DEF Other
  <2>2. Other(o) \in {s[1], s[2]} /\ Other(o) # o[2]
    BY <1>2, <2>1
  <2> QED BY <1>2, <1>3, <1>4, <2>2
<1>7. {e, o} = {Dialer(s), Acceptor(s)}
  BY <1>1, <1>2, <1>3, <1>4 DEF Dialer, Acceptor
<1> QED BY <1>2, <1>3, <1>5, <1>6, <1>7

\* reconnect sets a timer only while tries are left.
LEMMA TriesLeft ==
    ASSUME DialsOK, RestOK, NEW d \in Dial, Reconnect(d)
    PROVE  /\ \A c \in Dial : timers'[c] = 1 => tries[c] < MaxRetries
           /\ isConnected' \in [Node -> BOOLEAN]
<1>1. tries[d] \in Nat /\ MaxRetries \in Nat
  BY RetriesAssumption DEF RestOK
<1>2. \A c \in Dial : timers'[c] = 1 => tries[c] < MaxRetries
  BY <1>1 DEF DialsOK, RestOK, Reconnect
<1>3. isConnected' \in [Node -> BOOLEAN]
  BY DEF RestOK, Reconnect
<1> QED BY <1>2, <1>3

\* A pong of n to m that the code drops, and one that it sends.
Dropped(n, m) ==
    /\ UNCHANGED wire
    /\ \/ clientToSend[n][m] = None
       \/ phase[<<clientToSend[n][m], n>>] # "open"

Replied(n, m) ==
    \E e \in End : /\ clientToSend[n][m] = e[1] /\ clientId[<<e[1], Other(e)>>] = e[2]
                   /\ phase[<<e[1], Other(e)>>] = "open"
                   /\ e = <<e[1], m>> /\ n = Other(e)
                   /\ wire' = [wire EXCEPT ![e] = Append(@, "pong")]

\* A pong goes to the other end of a socket that is known.
LEMMA Ponged ==
    ASSUME ClientsOK, RestOK, NEW n \in Node, NEW m \in Node, Pong(n, m)
    PROVE  Dropped(n, m) \/ Replied(n, m)
<1> DEFINE s == clientToSend[n][m]
           e == <<s, m>>
<1>1. SUFFICES ASSUME s # None, phase[<<s, n>>] = "open",
                      wire' = [wire EXCEPT ![e] = Append(@, "pong")]
               PROVE  \E x \in End : /\ clientToSend[n][m] = x[1]
                                     /\ clientId[<<x[1], Other(x)>>] = x[2]
                                     /\ phase[<<x[1], Other(x)>>] = "open"
                                     /\ x = <<x[1], m>> /\ n = Other(x)
                                     /\ wire' = [wire EXCEPT ![x] = Append(@, "pong")]
  BY DEF Pong, Dropped, Replied
<1>2. <<s, n>> \in End /\ clientId[<<s, n>>] = m
  BY <1>1 DEF ClientsOK
<1>3. m = Other(<<s, n>>)
  <2>1. m # None
    BY NoneAssumption
  <2> QED BY <1>2, <2>1 DEF ClientsOK
<1>4. e \in End /\ Other(e) = n /\ e[1] = s /\ e[2] = m
  BY <1>2, <1>3, OtherEnd
<1> QED BY <1>1, <1>2, <1>4

\* The types at the start.
LEMMA RestInit == Init => RestOK
<1> SUFFICES ASSUME Init PROVE RestOK
  OBVIOUS
<1>1. <<>> \in Seq({"ping", "pong"}) /\ 0 \in 0..MaxRetries
  BY RetriesAssumption
<1> QED BY <1>1 DEF Init, RestOK

\* Every step keeps the types.
LEMMA RestStep ==
    ASSUME DialsOK, ClientsOK, RestOK, [Next]_vars PROVE RestOK'
<1>1. CASE UNCHANGED vars
  BY <1>1 DEF RestOK, vars
<1>2. ASSUME NEW s \in Socket, Accept(s) \/ Open(s) \/ Break(s) PROVE RestOK'
  <2>1. /\ UNCHANGED <<tries, timers, wire, verifying, isConnected>>
        /\ crafting' \subseteq crafting \cup {s} /\ broken' \subseteq broken \cup {s}
    BY <1>2 DEF Accept, Open, Break, dialVars, greetVars
  <2> QED BY <2>1 DEF RestOK
<1>3. ASSUME NEW s \in Socket, Error(s) PROVE RestOK'
  <2>1. /\ UNCHANGED <<tries, wire, verifying, crafting>> /\ broken' = broken \cup {s}
        /\ Reconnect(DialOf(s)) \/ UNCHANGED <<timers, isConnected>>
    BY <1>3 DEF Error, greetVars
  <2>2. /\ \A c \in Dial : timers'[c] = 1 => tries[c] < MaxRetries
        /\ isConnected' \in [Node -> BOOLEAN]
    BY <2>1, SocketFacts, TriesLeft DEF RestOK
  <2> QED BY <2>1, <2>2 DEF RestOK
<1>4. ASSUME NEW e \in End, Close(e) PROVE RestOK'
  <2>1. /\ UNCHANGED <<tries, broken, crafting, verifying>>
        /\ wire' = [wire EXCEPT ![e] = <<>>]
        /\ Reconnect(DialOf(e[1])) \/ UNCHANGED <<timers, isConnected>>
    BY <1>4 DEF Close, OnClose
  <2>2. /\ \A c \in Dial : timers'[c] = 1 => tries[c] < MaxRetries
        /\ isConnected' \in [Node -> BOOLEAN]
    BY <2>1, EndFacts, SocketFacts, TriesLeft DEF RestOK
  <2>3. wire' \in [End -> Seq({"ping", "pong"})]
    BY <2>1 DEF RestOK
  <2> QED BY <2>1, <2>2, <2>3 DEF RestOK
<1>5. ASSUME NEW d \in Dial, Retry(d) PROVE RestOK'
  <2>1. /\ UNCHANGED <<broken, wire, crafting, verifying, isConnected>>
        /\ timers[d] > 0 /\ timers' = [timers EXCEPT ![d] = @ - 1]
        /\ tries' = [tries EXCEPT ![d] = @ + 1]
    BY <1>5 DEF Retry, greetVars
  <2>2. timers[d] = 1
    BY <2>1 DEF DialsOK
  <2>3. tries[d] + 1 \in 0..MaxRetries
    BY <2>2, RetriesAssumption DEF RestOK
  <2>4. /\ tries' \in [Dial -> 0..MaxRetries]
        /\ \A c \in Dial : timers'[c] = 1 => c # d /\ timers[c] = 1 /\ tries'[c] = tries[c]
    BY <2>1, <2>2, <2>3 DEF RestOK, DialsOK
  <2> QED BY <2>1, <2>4 DEF RestOK
<1>6. ASSUME NEW s \in Socket, Ping(s) PROVE RestOK'
  <2>1. /\ UNCHANGED <<tries, timers, broken, verifying, isConnected>>
        /\ crafting' \subseteq crafting
        /\ wire' = [wire EXCEPT ![Acceptor(s)] =
              IF phase[Dialer(s)] = "open" THEN Append(@, "ping") ELSE @]
    BY <1>6 DEF Ping, dialVars
  <2>2. \A q \in Seq({"ping", "pong"}) : Append(q, "ping") \in Seq({"ping", "pong"})
    OBVIOUS
  <2>3. wire' \in [End -> Seq({"ping", "pong"})]
    BY <2>1, <2>2 DEF RestOK
  <2> QED BY <2>1, <2>3 DEF RestOK
<1>7. ASSUME NEW e \in End, Receive(e) PROVE RestOK'
  <2>1. /\ UNCHANGED <<tries, timers, broken, crafting>>
        /\ wire[e] # <<>> /\ wire' = [wire EXCEPT ![e] = Tail(@)]
        /\ verifying' \subseteq verifying \cup {e}
        /\ isConnected' = [isConnected EXCEPT ![e[2]] = TRUE]
    BY <1>7 DEF Receive, dialVars
  <2>2. wire' \in [End -> Seq({"ping", "pong"})]
    BY <2>1 DEF RestOK
  <2>3. isConnected' \in [Node -> BOOLEAN]
    BY <2>1 DEF RestOK
  <2> QED BY <2>1, <2>2, <2>3 DEF RestOK
<1>8. ASSUME NEW e \in End, Verified(e) PROVE RestOK'
  <2>1. /\ UNCHANGED <<tries, timers, broken, crafting, isConnected>>
        /\ verifying' \subseteq verifying /\ Pong(e[2], Other(e))
    BY <1>8 DEF Verified, dialVars
  <2>2. \/ UNCHANGED wire
        \/ \E x \in End : wire' = [wire EXCEPT ![x] = Append(@, "pong")]
    BY <2>1, EndFacts, Ponged DEF Dropped, Replied
  <2>3. \A q \in Seq({"ping", "pong"}) : Append(q, "pong") \in Seq({"ping", "pong"})
    OBVIOUS
  <2>4. wire' \in [End -> Seq({"ping", "pong"})]
    BY <2>2, <2>3 DEF RestOK
  <2> QED BY <2>1, <2>4 DEF RestOK
<1> QED BY <1>1, <1>2, <1>3, <1>4, <1>5, <1>6, <1>7, <1>8 DEF Next, Attempt

(***************************************************************************)
(* Type correctness of the websocket adapter: no dial is retried more      *)
(* often than maxRetries allows, and no end takes the other for itself.    *)
(***************************************************************************)
THEOREM WebsocketTyped == Spec => []TypeOK
<1>1. DialsOK /\ [Next]_vars => DialsOK'
  BY DialsStep
<1>2. ForgottenInv /\ [Next]_vars => ForgottenInv'
  BY ForgottenStep
<1>3. DialsOK /\ ForgottenInv /\ RestOK /\ [Next]_vars => RestOK'
  BY RestStep DEF ForgottenInv
<1>4. DialsOK /\ ForgottenInv /\ RestOK => TypeOK
  <2> SUFFICES ASSUME DialsOK, ClientsOK, RestOK PROVE TypeOK
    BY DEF ForgottenInv
  <2>1. timers \in [Dial -> Nat] /\ awaiting \subseteq Dial
    BY DEF DialsOK
  <2>2. \A e \in End : clientId[e] \in {None} \cup (Node \ {e[2]})
    BY EndFacts, OtherEnd DEF ClientsOK
  <2> QED BY <2>1, <2>2 DEF TypeOK, ClientsOK, RestOK, Phase
<1> QED BY DialsInit, ForgottenInit, RestInit, <1>1, <1>2, <1>3, <1>4, PTL DEF Spec

-----------------------------------------------------------------------------
(***************************************************************************)
(* Why who is sent to will listen.  Ends that carry messages or know each  *)
(* other have both opened (BothOpened), and only an end that knows the     *)
(* other sends it a pong (PongsKnown).                                     *)
(***************************************************************************)
Opened == {"open", "closed"}

Linked ==
    \A s \in Socket :
        /\ phase[Acceptor(s)] \in {"none", "open", "closed"}
        /\ phase[Dialer(s)] = "open" => phase[Acceptor(s)] \in Opened

BothOpened ==
    \A e \in End : wire[e] # <<>> \/ clientId[e] # None =>
        phase[Dialer(e[1])] \in Opened /\ phase[Acceptor(e[1])] \in Opened

PongsKnown ==
    \A e \in End : \A i \in 1..Len(wire[e]) :
        wire[e][i] = "pong" => clientId[<<e[1], Other(e)>>] = e[2]

HeardInv == Linked /\ BothOpened /\ PongsKnown /\ Heard

\* Nobody has been heard.
LEMMA HeardInit == Init => HeardInv
<1> SUFFICES ASSUME Init PROVE HeardInv
  OBVIOUS
<1>1. Linked
  BY SocketFacts DEF Init, Linked
<1>2. BothOpened /\ PongsKnown
  BY DEF Init, BothOpened, PongsKnown
<1>3. Heard
  BY DEF Init, Heard
<1> QED BY <1>1, <1>2, <1>3 DEF HeardInv

\* The socket a peer sends over, and its two ends.
LEMMA SentOver ==
    ASSUME ClientsOK, BothOpened, NEW n \in Node, NEW m \in Node, clientToSend[n][m] # None
    PROVE  LET s == clientToSend[n][m]
           IN  /\ s \in Socket /\ <<s, n>> \in End /\ <<s, m>> \in End
               /\ Other(<<s, n>>) = m /\ Other(<<s, m>>) = n
               /\ clientId[<<s, n>>] = m
               /\ phase[Dialer(s)] \in Opened /\ phase[Acceptor(s)] \in Opened
               /\ {<<s, n>>, <<s, m>>} = {Dialer(s), Acceptor(s)}
<1> DEFINE s == clientToSend[n][m]
           e == <<s, n>>
<1>1. e \in End /\ clientId[e] = m /\ m # None /\ e[1] = s /\ e[2] = n
  BY NoneAssumption DEF ClientsOK
<1>2. Other(e) = m
  BY <1>1 DEF ClientsOK
<1>3. /\ <<s, m>> \in End /\ Other(<<s, m>>) = n
      /\ {<<s, n>>, <<s, m>>} = {Dialer(s), Acceptor(s)}
  BY <1>1, <1>2, OtherEnd
<1>4. phase[Dialer(s)] \in Opened /\ phase[Acceptor(s)] \in Opened
  BY <1>1 DEF BothOpened
<1>5. s \in Socket
  BY <1>1, EndFacts
<1> QED BY <1>1, <1>2, <1>3, <1>4, <1>5

(***************************************************************************)
(* A step that changes the phase of an end which had not opened, and       *)
(* neither messages nor what peers know.                                   *)
(***************************************************************************)
LEMMA NotOpened ==
    ASSUME ClientsOK, HeardInv, NEW e \in End, NEW v \in Phase, phase[e] \notin Opened,
           phase' = [phase EXCEPT ![e] = v], Linked', broken \subseteq broken',
           UNCHANGED <<wire, clientId, verifying, clientToSend>>
    PROVE  HeardInv'
<1>1. \A x \in End : phase[x] \in Opened => phase'[x] = phase[x]
  BY DEF ClientsOK
<1>2. BothOpened'
  BY <1>1, EndFacts, SocketFacts DEF HeardInv, BothOpened
<1>3. PongsKnown'
  BY DEF HeardInv, PongsKnown
<1>4. Heard'
  <2> SUFFICES ASSUME NEW n \in Node, NEW m \in Node, clientToSend[n][m] # None,
                      clientToSend[n][m] \notin broken
               PROVE  LET s == clientToSend[n][m]
                      IN  \/ phase'[<<s, n>>] # "open" \/ phase'[<<s, m>>] # "open"
                          \/ clientId[<<s, m>>] = n \/ wire[<<s, m>>] # <<>>
                          \/ <<s, n>> \in verifying
    BY DEF Heard
  <2> DEFINE s == clientToSend[n][m]
  <2>1. /\ <<s, n>> \in End /\ <<s, m>> \in End
        /\ phase[<<s, n>>] \in Opened /\ phase[<<s, m>>] \in Opened
    BY SentOver DEF HeardInv
  <2>2. phase'[<<s, n>>] = phase[<<s, n>>] /\ phase'[<<s, m>>] = phase[<<s, m>>]
    BY <1>1, <2>1
  <2> QED BY <2>2 DEF HeardInv, Heard
<1> QED BY <1>2, <1>3, <1>4 DEF HeardInv

\* A message is sent over a socket whose ends have opened.
LEMMA HeardSent ==
    ASSUME ClientsOK, RestOK, HeardInv, NEW e \in End, NEW t \in {"ping", "pong"},
           phase[Dialer(e[1])] \in Opened, phase[Acceptor(e[1])] \in Opened,
           t = "pong" => clientId[<<e[1], Other(e)>>] = e[2],
           wire' = [wire EXCEPT ![e] = Append(@, t)],
           UNCHANGED <<phase, broken, clientId, clientToSend>>,
           \A x \in verifying \ verifying' :
               clientToSend[x[2]][Other(x)] = x[1] => phase[x] # "open" \/ e = <<x[1], Other(x)>>
    PROVE  HeardInv'
<1>1. /\ \A x \in End \ {e} : wire'[x] = wire[x]
      /\ wire'[e] = Append(wire[e], t) /\ wire[e] \in Seq({"ping", "pong"})
  BY DEF RestOK
<1>2. wire'[e] # <<>> /\ \A i \in 1..Len(wire'[e]) :
         wire'[e][i] = "pong" => t = "pong" \/ \E j \in 1..Len(wire[e]) : wire[e][j] = "pong"
  BY <1>1
<1>3. Linked'
  BY DEF HeardInv, Linked
<1>4. BothOpened'
  BY <1>1 DEF HeardInv, BothOpened
<1>5. PongsKnown'
  <2> SUFFICES ASSUME NEW x \in End, NEW i \in 1..Len(wire'[x]), wire'[x][i] = "pong"
               PROVE  clientId[<<x[1], Other(x)>>] = x[2]
    BY DEF PongsKnown
  <2>1. CASE x = e
    BY <1>2, <2>1 DEF HeardInv, PongsKnown
  <2>2. CASE x # e
    BY <1>1, <2>2 DEF HeardInv, PongsKnown
  <2> QED BY <2>1, <2>2
<1>6. Heard'
  <2> SUFFICES ASSUME NEW n \in Node, NEW m \in Node, clientToSend[n][m] # None,
                      clientToSend[n][m] \notin broken
               PROVE  LET s == clientToSend[n][m]
                      IN  \/ phase[<<s, n>>] # "open" \/ phase[<<s, m>>] # "open"
                          \/ clientId[<<s, m>>] = n \/ wire'[<<s, m>>] # <<>>
                          \/ <<s, n>> \in verifying'
    BY DEF Heard
  <2> DEFINE s == clientToSend[n][m]
  <2>1. <<s, n>> \in End /\ <<s, m>> \in End /\ Other(<<s, n>>) = m
    BY SentOver DEF HeardInv
  <2>2. wire[<<s, m>>] # <<>> => wire'[<<s, m>>] # <<>>
    BY <1>1, <1>2, <2>1
  <2>3. CASE <<s, n>> \in verifying \ verifying'
    <3>1. phase[<<s, n>>] # "open" \/ e = <<s, m>>
      BY <2>1, <2>3
    <3> QED BY <1>2, <3>1
  <2>4. CASE <<s, n>> \notin verifying \ verifying'
    BY <2>2, <2>4 DEF HeardInv, Heard
  <2> QED BY <2>3, <2>4
<1> QED BY <1>3, <1>4, <1>5, <1>6 DEF HeardInv

\* What is left of a queue without its first message.
LEMMA TailItems ==
    ASSUME NEW S, NEW q \in Seq(S), q # <<>>
    PROVE  \A i \in 1..Len(Tail(q)) : i + 1 \in 1..Len(q) /\ Tail(q)[i] = q[i + 1]
OBVIOUS

\* Whoever hears a peer knows it, and has a ping to answer or heard its answer.
LEMMA HeardReceived ==
    ASSUME ClientsOK, RestOK, HeardInv, NEW e \in End, Receive(e), ClientsOK'
    PROVE  HeardInv'
<1>1. /\ phase[e] = "open" /\ wire[e] # <<>> /\ wire' = [wire EXCEPT ![e] = Tail(@)]
      /\ clientId' = [clientId EXCEPT ![e] = Other(e)]
      /\ clientToSend' = [clientToSend EXCEPT ![e[2]][Other(e)] = e[1]]
      /\ verifying' = verifying \cup {x \in {e} : Head(wire[e]) = "ping"}
      /\ UNCHANGED <<phase, broken>>
      /\ e[1] \in Socket /\ e[2] \in Node /\ e = <<e[1], e[2]>> /\ Other(e) \in Node
  BY EndFacts DEF Receive
<1>2. /\ wire'[e] = Tail(wire[e]) /\ wire[e] \in Seq({"ping", "pong"})
      /\ \A x \in End \ {e} : wire'[x] = wire[x]
      /\ clientId'[e] = Other(e) /\ \A x \in End \ {e} : clientId'[x] = clientId[x]
      /\ \A n, m \in Node : clientToSend'[n][m] =
            IF n = e[2] /\ m = Other(e) THEN e[1] ELSE clientToSend[n][m]
  BY <1>1 DEF RestOK, ClientsOK
<1>3. \A i \in 1..Len(wire'[e]) : i + 1 \in 1..Len(wire[e]) /\ wire'[e][i] = wire[e][i + 1]
  <2> DEFINE q == wire[e]
  <2>1. q \in Seq({"ping", "pong"}) /\ q # <<>> /\ wire'[e] = Tail(q)
    BY <1>1, <1>2
  <2> HIDE DEF q
  <2>2. \A i \in 1..Len(Tail(q)) : i + 1 \in 1..Len(q) /\ Tail(q)[i] = q[i + 1]
    BY <2>1, TailItems
  <2> QED BY <2>1, <2>2 DEF q
<1>4. \A x \in End : clientId[x] # None => clientId'[x] = clientId[x]
  BY <1>2 DEF ClientsOK
<1>5. Linked'
  BY <1>1 DEF HeardInv, Linked
<1>6. BothOpened'
  BY <1>1, <1>2 DEF HeardInv, BothOpened
<1>7. PongsKnown'
  <2> SUFFICES ASSUME NEW x \in End, NEW i \in 1..Len(wire'[x]), wire'[x][i] = "pong"
               PROVE  clientId'[<<x[1], Other(x)>>] = x[2]
    BY DEF PongsKnown
  <2>1. clientId[<<x[1], Other(x)>>] = x[2]
    <3>1. CASE x = e
      BY <1>3, <3>1 DEF HeardInv, PongsKnown
    <3>2. CASE x # e
      BY <1>2, <3>2 DEF HeardInv, PongsKnown
    <3> QED BY <3>1, <3>2
  <2>2. x[2] # None
    BY EndFacts, NoneAssumption
  <2> QED BY <1>4, <2>1, <2>2, OtherEnd
<1>8. Heard'
  <2> SUFFICES ASSUME NEW n \in Node, NEW m \in Node, clientToSend'[n][m] # None,
                      clientToSend'[n][m] \notin broken
               PROVE  LET s == clientToSend'[n][m]
                      IN  \/ phase[<<s, n>>] # "open" \/ phase[<<s, m>>] # "open"
                          \/ clientId'[<<s, m>>] = n \/ wire'[<<s, m>>] # <<>>
                          \/ <<s, n>> \in verifying'
    BY <1>1 DEF Heard
  <2> DEFINE s == clientToSend'[n][m]
  <2>1. CASE n = e[2] /\ m = Other(e)
    <3>1. s = e[1] /\ e = <<s, n>>
      BY <1>1, <1>2, <2>1
    <3>2. CASE Head(wire[e]) = "ping"
      BY <1>1, <3>1, <3>2
    <3>3. CASE Head(wire[e]) # "ping"
      <4>1. wire[e][1] = "pong" /\ 1 \in 1..Len(wire[e])
        BY <1>1, <1>2, <3>3
      <4>2. clientId[<<e[1], Other(e)>>] = e[2] /\ e[2] # None
        BY <1>1, <4>1, NoneAssumption DEF HeardInv, PongsKnown
      <4>3. clientId'[<<s, m>>] = n
        BY <1>4, <2>1, <3>1, <4>2, OtherEnd
      <4> QED BY <4>3
    <3> QED BY <3>2, <3>3
  <2>2. CASE ~(n = e[2] /\ m = Other(e))
    <3>1. s = clientToSend[n][m]
      BY <1>2, <2>2
    <3>2. <<s, n>> \in End /\ <<s, m>> \in End /\ Other(<<s, m>>) = n /\ n # None
      BY <3>1, SentOver, NoneAssumption DEF HeardInv
    <3>3. CASE <<s, m>> = e
      <4>1. clientId'[<<s, m>>] = n
        BY <1>2, <3>2, <3>3
      <4> QED BY <4>1
    <3>4. CASE <<s, m>> # e
      <4>1. wire'[<<s, m>>] = wire[<<s, m>>] /\ clientId'[<<s, m>>] = clientId[<<s, m>>]
        BY <1>2, <3>2, <3>4
      <4>2. \/ phase[<<s, n>>] # "open" \/ phase[<<s, m>>] # "open"
            \/ clientId[<<s, m>>] = n \/ wire[<<s, m>>] # <<>>
            \/ <<s, n>> \in verifying
        BY <3>1 DEF HeardInv, Heard
      <4>3. phase' = phase /\ verifying \subseteq verifying'
        BY <1>1
      <4> QED BY <4>1, <4>2, <4>3
    <3> QED BY <3>3, <3>4
  <2> QED BY <2>1, <2>2
<1> QED BY <1>5, <1>6, <1>7, <1>8 DEF HeardInv

\* What is on its way to an end that closes is lost.
LEMMA HeardClosed ==
    ASSUME ClientsOK, RestOK, HeardInv, NEW e \in End, Close(e)
    PROVE  HeardInv'
<1>1. /\ phase[e] \in {"failing", "open"} /\ phase' = [phase EXCEPT ![e] = "closed"]
      /\ wire' = [wire EXCEPT ![e] = <<>>] /\ OnClose(e)
      /\ UNCHANGED <<broken, clientId, verifying>>
      /\ e[1] \in Socket /\ e[2] \in Node /\ e = <<e[1], e[2]>>
      /\ e = Dialer(e[1]) \/ e = Acceptor(e[1])
  BY EndFacts DEF Close
<1>2. /\ phase'[e] = "closed" /\ \A x \in End \ {e} : phase'[x] = phase[x]
      /\ wire'[e] = <<>> /\ \A x \in End \ {e} : wire'[x] = wire[x]
  BY <1>1 DEF ClientsOK, RestOK
<1>3. \A n, m \in Node : clientToSend'[n][m] # None => clientToSend'[n][m] = clientToSend[n][m]
  BY <1>1, NoneAssumption, SMTT(30) DEF OnClose, Forget, ClientsOK
<1>4. \A x \in End : phase'[x] = phase[x] \/ phase'[x] = "closed"
  BY <1>2
<1>5. Linked'
  BY <1>4, SocketFacts DEF HeardInv, Linked, Opened
<1>6. BothOpened'
  BY <1>1, <1>2, <1>4, EndFacts, SocketFacts DEF HeardInv, BothOpened, Opened
<1>7. PongsKnown'
  <2> SUFFICES ASSUME NEW x \in End, NEW i \in 1..Len(wire'[x]), wire'[x][i] = "pong"
               PROVE  clientId[<<x[1], Other(x)>>] = x[2]
    BY <1>1 DEF PongsKnown
  <2>1. x # e
    BY <1>2
  <2> QED BY <1>2, <2>1 DEF HeardInv, PongsKnown
<1>8. Heard'
  <2> SUFFICES ASSUME NEW n \in Node, NEW m \in Node, clientToSend'[n][m] # None,
                      clientToSend'[n][m] \notin broken
               PROVE  LET s == clientToSend'[n][m]
                      IN  \/ phase'[<<s, n>>] # "open" \/ phase'[<<s, m>>] # "open"
                          \/ clientId[<<s, m>>] = n \/ wire'[<<s, m>>] # <<>>
                          \/ <<s, n>> \in verifying
    BY <1>1 DEF Heard
  <2> DEFINE s == clientToSend[n][m]
  <2>1. clientToSend'[n][m] = s /\ s # None
    BY <1>3
  <2>2. <<s, n>> \in End /\ <<s, m>> \in End
    BY <2>1, SentOver DEF HeardInv
  <2>3. CASE e \in {<<s, n>>, <<s, m>>}
    BY <1>2, <2>1, <2>3
  <2>4. CASE e \notin {<<s, n>>, <<s, m>>}
    <3>1. /\ phase'[<<s, n>>] = phase[<<s, n>>] /\ phase'[<<s, m>>] = phase[<<s, m>>]
          /\ wire'[<<s, m>>] = wire[<<s, m>>]
      BY <1>2, <2>2, <2>4
    <3> QED BY <2>1, <3>1 DEF HeardInv, Heard
  <2> QED BY <2>3, <2>4
<1> QED BY <1>5, <1>6, <1>7, <1>8 DEF HeardInv

\* Every step keeps HeardInv.
LEMMA HeardStep ==
    ASSUME DialsOK, ClientsOK, RestOK, HeardInv, [Next]_vars, ClientsOK'
    PROVE  HeardInv'
<1>0. {"open", "connecting", "failing"} \subseteq Phase
  BY DEF Phase
<1>1. CASE UNCHANGED vars
  BY <1>1 DEF vars, HeardInv, Linked, BothOpened, PongsKnown, Heard
<1>2. ASSUME NEW s \in Socket, Accept(s) PROVE HeardInv'
  <2>1. /\ phase[Acceptor(s)] \notin Opened /\ phase' = [phase EXCEPT ![Acceptor(s)] = "open"]
        /\ UNCHANGED <<broken, wire, clientId, verifying, clientToSend>>
    BY <1>2 DEF Accept, greetVars, Opened
  <2>2. Linked'
    BY <2>1, SocketFacts, EndsDiffer DEF HeardInv, Linked, ClientsOK, Opened
  <2> QED BY <1>0, <2>1, <2>2, SocketFacts, NotOpened
<1>3. ASSUME NEW s \in Socket, Open(s) PROVE HeardInv'
  <2>1. /\ phase[Dialer(s)] \notin Opened /\ phase[Acceptor(s)] # "none"
        /\ phase' = [phase EXCEPT ![Dialer(s)] = "open"]
        /\ UNCHANGED <<broken, wire, clientId, verifying, clientToSend>>
    BY <1>3 DEF Open, Opened
  <2>2. Linked'
    BY <2>1, SocketFacts, EndsDiffer DEF HeardInv, Linked, ClientsOK, Opened
  <2> QED BY <1>0, <2>1, <2>2, SocketFacts, NotOpened
<1>4. ASSUME NEW s \in Socket, Error(s) PROVE HeardInv'
  <2>1. /\ phase[Dialer(s)] \notin Opened /\ phase' = [phase EXCEPT ![Dialer(s)] = "failing"]
        /\ UNCHANGED <<wire, clientId, verifying, clientToSend>>
        /\ broken \subseteq broken'
    BY <1>4 DEF Error, greetVars, Opened
  <2>2. Linked'
    BY <2>1, SocketFacts, EndsDiffer DEF HeardInv, Linked, ClientsOK, Opened
  <2> QED BY <1>0, <2>1, <2>2, SocketFacts, NotOpened
<1>5. ASSUME NEW d \in Dial, Retry(d) PROVE HeardInv'
  <2>1. PICK s \in Unused(d) : phase' = [phase EXCEPT ![Dialer(s)] = "connecting"]
    BY <1>5 DEF Retry
  <2>2. /\ UNCHANGED <<broken, wire, clientId, verifying, clientToSend>>
        /\ s \in Socket /\ phase[Dialer(s)] \notin Opened
    BY <1>5, <2>1 DEF Retry, greetVars, Unused, Opened
  <2>3. Linked'
    BY <2>1, <2>2, SocketFacts, EndsDiffer DEF HeardInv, Linked, ClientsOK, Opened
  <2> QED BY <1>0, <2>1, <2>2, <2>3, SocketFacts, NotOpened
<1>6. ASSUME NEW e \in End, Close(e) PROVE HeardInv'
  BY <1>6, HeardClosed
<1>7. ASSUME NEW e \in End, Receive(e) PROVE HeardInv'
  BY <1>7, HeardReceived
<1>8. ASSUME NEW s \in Socket, Break(s) PROVE HeardInv'
  <2>1. UNCHANGED <<phase, wire, clientId, verifying, clientToSend>> /\ broken \subseteq broken'
    BY <1>8 DEF Break, greetVars
  <2> QED BY <2>1 DEF HeardInv, Linked, BothOpened, PongsKnown, Heard
<1>9. ASSUME NEW s \in Socket, Ping(s) PROVE HeardInv'
  <2> DEFINE e == Acceptor(s)
  <2>1. /\ UNCHANGED <<phase, broken, clientId, verifying, clientToSend>>
        /\ wire' = [wire EXCEPT ![e] = IF phase[Dialer(s)] = "open" THEN Append(@, "ping") ELSE @]
    BY <1>9 DEF Ping
  <2>2. CASE phase[Dialer(s)] # "open"
    <3>1. UNCHANGED wire
      BY <2>1, <2>2 DEF RestOK
    <3> QED BY <2>1, <3>1 DEF HeardInv, Linked, BothOpened, PongsKnown, Heard
  <2>3. CASE phase[Dialer(s)] = "open"
    <3>1. wire' = [wire EXCEPT ![e] = Append(@, "ping")]
      BY <2>1, <2>3
    <3>2. e \in End /\ e[1] = s /\ phase[Dialer(s)] \in Opened /\ phase[Acceptor(s)] \in Opened
      BY <2>3, SocketFacts DEF HeardInv, Linked, Opened
    <3> HIDE DEF e
    <3> QED BY <2>1, <3>1, <3>2, HeardSent
  <2> QED BY <2>2, <2>3
<1>10. ASSUME NEW x \in End, Verified(x) PROVE HeardInv'
  <2>0. PICK n \in Node, m \in Node : n = x[2] /\ m = Other(x)
    BY EndFacts
  <2>1. /\ verifying' = verifying \ {x} /\ Pong(n, m) /\ n \in Node /\ m \in Node
        /\ x = <<x[1], n>>
        /\ UNCHANGED <<phase, broken, clientId, clientToSend>>
    BY <1>10, <2>0, EndFacts DEF Verified
  <2>2. CASE Replied(n, m)
    <3>1. PICK e \in End : /\ clientToSend[n][m] = e[1]
                           /\ clientId[<<e[1], Other(e)>>] = e[2]
                           /\ e = <<e[1], m>> /\ n = Other(e)
                           /\ wire' = [wire EXCEPT ![e] = Append(@, "pong")]
      BY <2>2 DEF Replied
    <3>2. e[1] \in Socket /\ e[1] # None
      BY EndFacts, NoneAssumption
    <3>3. phase[Dialer(e[1])] \in Opened /\ phase[Acceptor(e[1])] \in Opened
      BY <2>1, <3>1, <3>2, SentOver DEF HeardInv
    <3>4. \A y \in verifying \ verifying' :
             clientToSend[y[2]][Other(y)] = y[1] => e = <<y[1], Other(y)>>
      BY <2>0, <2>1, <3>1
    <3> QED BY <2>1, <3>1, <3>3, <3>4, HeardSent
  <2>3. CASE Dropped(n, m)
    <3>1. /\ UNCHANGED <<phase, broken, clientId, clientToSend, wire>>
      BY <2>1, <2>3 DEF Dropped
    <3>2. Linked' /\ BothOpened' /\ PongsKnown'
      BY <3>1 DEF HeardInv, Linked, BothOpened, PongsKnown
    <3>3. Heard'
      <4> SUFFICES ASSUME NEW a \in Node, NEW b \in Node, clientToSend[a][b] # None,
                          clientToSend[a][b] \notin broken
                   PROVE  LET s == clientToSend[a][b]
                          IN  \/ phase[<<s, a>>] # "open" \/ phase[<<s, b>>] # "open"
                              \/ clientId[<<s, b>>] = a \/ wire[<<s, b>>] # <<>>
                              \/ <<s, a>> \in verifying'
        BY <3>1 DEF Heard
      <4> DEFINE s == clientToSend[a][b]
      <4>1. CASE <<s, a>> = x
        <5>1. a = n /\ b = m
          BY <4>1, <2>0, SentOver DEF HeardInv
        <5> QED BY <2>3, <5>1 DEF Dropped
      <4>2. CASE <<s, a>> # x
        BY <2>1, <4>2 DEF HeardInv, Heard
      <4> QED BY <4>1, <4>2
    <3> QED BY <3>2, <3>3 DEF HeardInv
  <2>4. Dropped(n, m) \/ Replied(n, m)
    BY <2>1, Ponged
  <2> QED BY <2>2, <2>3, <2>4
<1> QED BY <1>1, <1>2, <1>3, <1>4, <1>5, <1>6, <1>7, <1>8, <1>9, <1>10 DEF Next, Attempt

(***************************************************************************)
(* Who is sent to will listen, whatever sockets two peers have between     *)
(* them and however they break: the other end knows the sender, or will    *)
(* learn of it from a message on its way.                                  *)
(***************************************************************************)
THEOREM SendersAreHeard == Spec => []Heard
<1>1. DialsOK /\ [Next]_vars => DialsOK'
  BY DialsStep
<1>2. ForgottenInv /\ [Next]_vars => ForgottenInv'
  BY ForgottenStep
<1>3. DialsOK /\ ForgottenInv /\ RestOK /\ [Next]_vars => RestOK'
  BY RestStep DEF ForgottenInv
<1>4. DialsOK /\ ForgottenInv /\ RestOK /\ HeardInv /\ [Next]_vars /\ ForgottenInv' => HeardInv'
  BY HeardStep DEF ForgottenInv
<1>5. HeardInv => Heard
  BY DEF HeardInv
<1> QED BY DialsInit, ForgottenInit, RestInit, HeardInit, <1>1, <1>2, <1>3, <1>4, <1>5, PTL
        DEF Spec
=============================================================================
