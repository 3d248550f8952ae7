------------------------ MODULE PutReplicationProofs ------------------------
(***************************************************************************)
(* Proofs about PutReplication, for every network of peers: its variables  *)
(* keep their types, flooding loses nothing (LinkCoverage), and while      *)
(* handlers run one by one stored records only get newer and every server  *)
(* ends with the record that wins.                                         *)
(***************************************************************************)
EXTENDS PutReplication, TLAPS

\* The hash of a record is one of those processedOutHashes may hold.
LEMMA HashType == ASSUME NEW r \in Rec PROVE Hash(r) \in Value \X Node \X Int
BY DEF Hash, Rec

(***************************************************************************)
(* sendToAll keeps the types of what it changes.                           *)
(***************************************************************************)
LEMMA SendToAllType ==
    ASSUME TypeOK, NEW n \in Node, NEW id \in Id, NEW to \in SUBSET Node,
           NEW data \in Rec, NEW c \in BOOLEAN, SendToAll(n, id, to, data, c)
    PROVE  NetworkTypeOK'
<1> DEFINE R == Recipients(n, to, Hash(data), c)
<1>1. R \subseteq Node
  BY DEF Recipients
<1>2. net' \subseteq Message
  BY <1>1 DEF SendToAll, TypeOK, NetworkTypeOK, Message
<1>3. outHashes' \in [Node -> [Node -> SUBSET (Value \X Node \X Int)]]
  <2>1. [m \in Node |-> IF m \in R THEN outHashes[n][m] \cup {Hash(data)}
                                   ELSE outHashes[n][m]]
            \in [Node -> SUBSET (Value \X Node \X Int)]
    BY HashType DEF TypeOK, NetworkTypeOK
  <2>2. outHashes' = [outHashes EXCEPT ![n] =
            [m \in Node |-> IF m \in R THEN outHashes[n][m] \cup {Hash(data)}
                                       ELSE outHashes[n][m]]]
    BY DEF SendToAll, TypeOK, NetworkTypeOK
  <2> QED BY <2>1, <2>2 DEF TypeOK, NetworkTypeOK
<1>4. forwarded' \in [Node -> SUBSET Id]
  BY DEF SendToAll, TypeOK, NetworkTypeOK
<1> QED BY <1>2, <1>3, <1>4 DEF SendToAll, TypeOK, NetworkTypeOK

\* Every step of every peer keeps TypeOK.
LEMMA TypeStep == ASSUME TypeOK, [Next]_vars PROVE TypeOK'
<1> USE DEF networkVars, NetworkTypeOK, NetworkInit, Processed, Drop, Accept,
            Disconnect, Connect, Crash
<1>1. CASE Tick
  BY <1>1, ClockAssumption DEF Tick, TypeOK
<1>2. ASSUME NEW n \in User, NEW k \in Key, NEW v \in Value,
             NEW to \in Excluded, Put(n, k, v, to)
      PROVE  TypeOK'
  <2>1. PICK id \in Id :
           LET call == [id |-> id, to |-> to,
                        data |-> [k |-> k, a |-> n, t |-> clock + Skew[n], v |-> v]]
           IN  signing' = signing \cup {call} /\ issued' = issued \cup {call}
    BY <1>2 DEF Put
  <2>2. clock + Skew[n] \in Int /\ n \in Node /\ to \in SUBSET Node
    BY ClockAssumption, UserAssumption, ExcludedAssumption DEF TypeOK
  <2>3. [id |-> id, to |-> to,
         data |-> [k |-> k, a |-> n, t |-> clock + Skew[n], v |-> v]] \in PutCall
    BY <2>2 DEF PutCall, Rec
  <2> QED BY <1>2, <2>1, <2>3 DEF Put, TypeOK
<1>3. ASSUME NEW p \in signing, PutSigned(p)
      PROVE  TypeOK'
  <2>1. p \in PutCall /\ p.data.a \in Node /\ p.data.k \in Key /\ p.id \in Id
        /\ p.to \in SUBSET Node /\ p.data \in Rec
    BY DEF TypeOK, PutCall, Rec
  <2>2. SendToAll(p.data.a, p.id, p.to, p.data, FALSE)
    BY <1>3 DEF PutSigned
  <2>3. NetworkTypeOK'
    BY <2>1, <2>2, SendToAllType
  <2>4. store' \in [Node -> [Key -> Rec \cup {NoData}]]
    BY <1>3, <2>1 DEF PutSigned, TypeOK
  <2> QED BY <1>3, <2>3, <2>4 DEF PutSigned, TypeOK
<1>4. ASSUME NEW x \in net, Receive(x)
      PROVE  TypeOK'
  <2>1. x \in Message
    BY DEF TypeOK
  <2>2. [node |-> x.dst, id |-> x.id, to |-> x.to \cup {x.src}, data |-> x.data,
         ok |-> /\ ~InFuture(x.dst, x.data)
                /\ ~CantOverwrite(store[x.dst][x.data.k], x.data)] \in Verifying
    BY <2>1 DEF Message, Verifying
  <2> QED BY <1>4, <2>1, <2>2 DEF Receive, TypeOK, Message, NetworkTypeOK
<1>5. ASSUME NEW x \in net, ReceiveDuplicate(x)
      PROVE  TypeOK'
  BY <1>5 DEF ReceiveDuplicate, TypeOK
<1>6. ASSUME NEW h \in verifying, Verified(h)
      PROVE  TypeOK'
  <2>1. h \in Verifying /\ h.node \in Node /\ h.id \in Id /\ h.to \in SUBSET Node
        /\ h.data \in Rec /\ h.data.k \in Key
    BY DEF TypeOK, Verifying, Rec
  <2>2. SendToAll(h.node, h.id, h.to, h.data, TRUE)
    BY <1>6 DEF Verified
  <2>3. NetworkTypeOK'
    BY <2>1, <2>2, SendToAllType
  <2>4. [node |-> h.node, id |-> h.id, data |-> h.data,
         old |-> store[h.node][h.data.k]] \in Comparing
    BY <2>1 DEF TypeOK, Comparing
  <2> QED BY <1>6, <2>3, <2>4 DEF Verified, TypeOK
<1>7. ASSUME NEW h \in verifying, Unverified(h)
      PROVE  TypeOK'
  BY <1>7 DEF Unverified, TypeOK
<1>8. ASSUME NEW h \in comparing, Compare(h)
      PROVE  TypeOK'
  <2>1. h.node \in Node /\ h.data \in Rec /\ h.data.k \in Key
    BY DEF TypeOK, Comparing, Rec
  <2>2. store' \in [Node -> [Key -> Rec \cup {NoData}]]
    BY <1>8, <2>1 DEF Compare, TypeOK
  <2> QED BY <1>8, <2>2 DEF Compare, TypeOK
<1>9. ASSUME NEW e \in Fragile, LinkDown(e[1], e[2])
      PROVE  TypeOK'
  BY <1>9 DEF LinkDown, TypeOK
<1>10. ASSUME NEW e \in Link, LinkUp(e[1], e[2])
       PROVE  TypeOK'
  <2>1. e[1] \in Node /\ e[2] \in Node /\ <<e[2], e[1]>> \in Link
        /\ <<e[1], e[2]>> \in Link
    BY LinkAssumption
  <2>2. outHashes' \in [Node -> [Node -> SUBSET (Value \X Node \X Int)]]
    BY <1>10, <2>1 DEF LinkUp, TypeOK
  <2> QED BY <1>10, <2>1, <2>2 DEF LinkUp, TypeOK
<1>11. ASSUME NEW n \in Mortal, Restart(n)
       PROVE  TypeOK'
  BY <1>11 DEF Restart, TypeOK
<1>12. CASE UNCHANGED vars
  BY <1>12 DEF vars, TypeOK
<1> QED
  BY <1>1, <1>2, <1>3, <1>4, <1>5, <1>6, <1>7, <1>8, <1>9, <1>10, <1>11, <1>12
     DEF Next, System, Environment

(***************************************************************************)
(* Type correctness: every step of every peer keeps TypeOK.                *)
(***************************************************************************)
THEOREM TypeCorrect == Spec => []TypeOK
<1> USE DEF networkVars, NetworkTypeOK, NetworkInit, Processed, Drop, Accept,
            Disconnect, Connect, Crash
<1>1. Init => TypeOK
  BY ClockAssumption DEF Init, TypeOK
<1> QED BY <1>1, TypeStep, PTL DEF Spec
-----------------------------------------------------------------------------
(***************************************************************************)
(* A step in which peer n sends the record of call p, with a list whose    *)
(* members have all had it, keeps every part of CoverageInv that is about  *)
(* messages on their way.                                                  *)
(***************************************************************************)
LEMMA SendToAllCovers ==
    ASSUME TypeOK, CoverageInv, NEW n \in Node, NEW p \in issued,
           NEW to \in SUBSET Node, NEW c \in BOOLEAN,
           SendToAll(n, p.id, to, p.data, c),
           \A y \in to \cup {n} : Visited(p, y),
           UNCHANGED <<issued, received, worn, up>>
    PROVE  /\ \A x \in net' : \E q \in issued : CallOf(q, x)
           /\ \A a \in Node : \A i \in forwarded'[a] : \E q \in issued : q.id = i
           /\ \A a, b \in Node : \A h \in outHashes'[a][b] :
                 \E q \in issued : Hash(q.data) = h
           /\ \A q \in issued : \A x \in net' :
                 q.id = x.id => \A y \in x.to : Visited(q, y)
           /\ \A x \in net' : x.src \in x.to
           /\ HashesCovered'
           /\ LinkCoverage'
<1> DEFINE R == Recipients(n, to, Hash(p.data), c)
           Copy(m) == [src |-> n, dst |-> m, id |-> p.id, to |-> to \cup {n},
                       data |-> p.data]
<1>1. /\ net' = net \cup {Copy(m) : m \in R}
      /\ forwarded' = [forwarded EXCEPT ![n] = @ \cup {p.id}]
      /\ R \subseteq Node
  BY DEF SendToAll, Recipients
<1>2. \A a, b \in Node :
         outHashes'[a][b] = IF a = n /\ b \in R
                            THEN outHashes[a][b] \cup {Hash(p.data)}
                            ELSE outHashes[a][b]
  BY DEF SendToAll, TypeOK, NetworkTypeOK
<1>3. /\ UniqueIds /\ Origins /\ Trail /\ Receipts
      /\ HashesCovered /\ UnwornIsUp /\ LinkCoverage
  BY DEF CoverageInv
<1>4. /\ issued' = issued /\ received' = received /\ worn' = worn /\ up' = up
      /\ \A q \in issued : Unique(q)' <=> Unique(q)
  BY DEF Unique
<1>5. \A x \in net' : \E q \in issued : CallOf(q, x)
  BY <1>1, <1>3 DEF Origins, CallOf
<1>6. \A a \in Node : \A i \in forwarded'[a] : \E q \in issued : q.id = i
  BY <1>1, <1>3 DEF Origins, TypeOK, NetworkTypeOK
<1>7. \A a, b \in Node : \A h \in outHashes'[a][b] :
         \E q \in issued : Hash(q.data) = h
  <2> SUFFICES ASSUME NEW a \in Node, NEW b \in Node, NEW h \in outHashes'[a][b]
               PROVE  \E q \in issued : Hash(q.data) = h
    OBVIOUS
  <2>1. h \in outHashes[a][b] \/ h = Hash(p.data)
    BY <1>2
  <2> QED BY <2>1, <1>3 DEF Origins
<1>8. \A q \in issued : \A x \in net' :
         q.id = x.id => \A y \in x.to : Visited(q, y)
  <2> SUFFICES ASSUME NEW q \in issued, NEW x \in net', q.id = x.id
               PROVE  \A y \in x.to : Visited(q, y)
    OBVIOUS
  <2>1. CASE x \in net
    BY <2>1, <1>3 DEF Trail
  <2>2. CASE x \notin net
    <3>1. PICK m \in R : x = Copy(m)
      BY <2>2, <1>1
    <3>2. x.id = p.id /\ x.to = to \cup {n}
      BY <3>1
    <3>3. q = p
      BY <3>2, <1>3 DEF UniqueIds
    <3> QED BY <3>2, <3>3
  <2> QED BY <2>1, <2>2
<1>9. \A x \in net' : x.src \in x.to
  BY <1>1, <1>3 DEF Receipts
<1>10. \A q \in issued, a, b \in Node : Covered(q, a, b) => Covered(q, a, b)'
  BY <1>1, <1>4 DEF Covered
<1>11. \A m \in R : Covered(p, n, m)'
  <2> SUFFICES ASSUME NEW m \in R PROVE Covered(p, n, m)'
    OBVIOUS
  <2>1. Copy(m) \in net' /\ Copy(m).src = n /\ Copy(m).dst = m /\ Copy(m).id = p.id
    BY <1>1
  <2> QED BY <2>1 DEF Covered
<1>12. HashesCovered'
  <2> SUFFICES ASSUME NEW q \in issued, Unique(q), NEW a \in Node, NEW b \in Node,
                      Hash(q.data) \in outHashes'[a][b], <<a, b>> \in Link \ worn
               PROVE  Covered(q, a, b)'
    BY <1>4 DEF HashesCovered
  <2>1. CASE Hash(q.data) \in outHashes[a][b]
    BY <2>1, <1>3, <1>10 DEF HashesCovered
  <2>2. CASE Hash(q.data) \notin outHashes[a][b]
    <3>1. a = n /\ b \in R /\ Hash(q.data) = Hash(p.data)
      BY <2>2, <1>2
    <3>2. q = p
      BY <3>1 DEF Unique
    <3> QED BY <3>1, <3>2, <1>11
  <2> QED BY <2>1, <2>2
<1>13. LinkCoverage'
  <2> SUFFICES ASSUME NEW q \in issued, Unique(q), NEW a \in Node,
                      q.id \in forwarded'[a], NEW m \in Server,
                      <<a, m>> \in Link \ worn, m \notin q.to
               PROVE  Covered(q, a, m)'
    BY <1>4 DEF LinkCoverage
  <2>0. m \in Node
    BY ServerAssumption
  <2>1. CASE q.id \in forwarded[a]
    BY <2>0, <2>1, <1>3, <1>10 DEF LinkCoverage
  <2>2. CASE q.id \notin forwarded[a]
    <3>1. a = n /\ q.id = p.id
      BY <2>2, <1>1 DEF TypeOK, NetworkTypeOK
    <3>2. q = p
      BY <3>1, <1>3 DEF UniqueIds
    <3>3. CASE m \in R
      BY <3>1, <3>2, <3>3, <1>11
    <3>4. CASE m \notin R
      <4>1. <<n, m>> \in up
        BY <3>1, <1>3 DEF UnwornIsUp
      <4>2. m \in to \cup {n} \/ Hash(p.data) \in outHashes[n][m]
        BY <2>0, <3>4, <4>1 DEF Recipients
      <4>3. CASE m \in to \cup {n}
        BY <2>0, <3>1, <3>2, <4>3, <1>10 DEF Visited, Covered
      <4>4. CASE Hash(p.data) \in outHashes[n][m]
        BY <2>0, <3>1, <3>2, <4>4, <1>3, <1>10 DEF HashesCovered
      <4> QED BY <4>2, <4>3, <4>4
    <3> QED BY <3>3, <3>4
  <2> QED BY <2>1, <2>2
<1> QED BY <1>5, <1>6, <1>7, <1>8, <1>9, <1>12, <1>13

(***************************************************************************)
(* Covered and Visited survive a step that loses no message of a           *)
(* connection that stayed up and forgets nothing that was received.        *)
(***************************************************************************)
LEMMA CoveredStable ==
    ASSUME NEW p, NEW a \in Node, NEW b \in Node, Covered(p, a, b),
           \A m \in Node : received[m] \subseteq received'[m],
           \A x \in net : x.src = a /\ x.dst = b =>
               x \in net' \/ x.id \in received'[b]
    PROVE  Covered(p, a, b)'
BY DEF Covered

\* Whoever has had a message has had it for ever.
LEMMA VisitedStable ==
    ASSUME NEW p, NEW y, Visited(p, y), received[y] \subseteq received'[y]
    PROVE  Visited(p, y)'
BY DEF Visited

(***************************************************************************)
(* A step in which nothing is sent, called or received and the messages    *)
(* of the connections that are not worn stay keeps CoverageInv.            *)
(***************************************************************************)
LEMMA QuietStep ==
    ASSUME TypeOK, CoverageInv, UNCHANGED <<issued, received, forwarded>>,
           signing' \subseteq signing, net' \subseteq net,
           verifying' \subseteq verifying, comparing' \subseteq comparing,
           worn \subseteq worn', Link \ worn' \subseteq up',
           \A n \in Node : processedIds'[n] \subseteq processedIds[n],
           \A a, b \in Node : outHashes'[a][b] \subseteq outHashes[a][b],
           \A x \in net : <<x.src, x.dst>> \in Link \ worn' =>
               x \in net' \/ x.id \in received[x.dst]
    PROVE  CoverageInv'
<1>1. /\ UniqueIds /\ Origins /\ Trail /\ Receipts
      /\ HashesCovered /\ UnwornIsUp /\ LinkCoverage
  BY DEF CoverageInv
<1>2. \A p \in issued : Unique(p)' <=> Unique(p)
  BY DEF Unique
<1>3. UniqueIds'
  BY <1>1 DEF UniqueIds
<1>4. Origins'
  BY <1>1 DEF Origins, CallOf
<1>5. Trail'
  BY <1>1 DEF Trail, Visited
<1>6. Receipts'
  BY <1>1 DEF Receipts
<1>7. ASSUME NEW p, NEW a \in Node, NEW b \in Node, Covered(p, a, b),
             <<a, b>> \in Link \ worn'
      PROVE  Covered(p, a, b)'
  BY <1>7, CoveredStable
<1>8. HashesCovered'
  BY <1>1, <1>2, <1>7 DEF HashesCovered
<1>9. LinkCoverage'
  BY <1>1, <1>2, <1>7, ServerAssumption DEF LinkCoverage
<1>10. UnwornIsUp'
  BY DEF UnwornIsUp
<1> QED BY <1>3, <1>4, <1>5, <1>6, <1>8, <1>9, <1>10 DEF CoverageInv

\* A new call has an id nobody has seen, and only its own hash.
LEMMA PutCovers ==
    ASSUME TypeOK, CoverageInv, NEW n \in User, NEW k \in Key, NEW v \in Value,
           NEW to \in Excluded, Put(n, k, v, to)
    PROVE  CoverageInv'
<1>1. /\ UniqueIds /\ Origins /\ Trail /\ Receipts
      /\ HashesCovered /\ UnwornIsUp /\ LinkCoverage
  BY DEF CoverageInv
<1>2. PICK id \in Id :
        /\ id \notin {p.id : p \in issued}
        /\ LET call == [id |-> id, to |-> to,
                        data |-> [k |-> k, a |-> n, t |-> clock + Skew[n], v |-> v]]
           IN  signing' = signing \cup {call} /\ issued' = issued \cup {call}
  BY DEF Put
<1> DEFINE call == [id |-> id, to |-> to,
                    data |-> [k |-> k, a |-> n, t |-> clock + Skew[n], v |-> v]]
<1>3. /\ signing' = signing \cup {call} /\ issued' = issued \cup {call}
      /\ call.id = id
      /\ \A p \in issued : p.id # id
  BY <1>2
<1> HIDE DEF call
<1>4. UNCHANGED <<net, processedIds, outHashes, verifying, comparing, up, received,
                  forwarded, worn>>
  BY DEF Put, networkVars
<1>5. UniqueIds'
  BY <1>1, <1>3 DEF UniqueIds
<1>6. Origins'
  BY <1>1, <1>3, <1>4 DEF Origins, CallOf
<1>7. \A x \in net \cup verifying : x.id # id
  BY <1>1, <1>3 DEF Origins, CallOf
<1>8. Trail'
  BY <1>1, <1>3, <1>4, <1>7 DEF Trail, Visited
<1>9. Receipts'
  BY <1>1, <1>4 DEF Receipts
<1>10. \A p \in issued : Unique(p)' => Unique(p)
  BY <1>3 DEF Unique
<1>11. \A p, a, b : Covered(p, a, b)' <=> Covered(p, a, b)
  BY <1>4 DEF Covered
<1>12. HashesCovered'
  <2> SUFFICES ASSUME NEW p \in issued', Unique(p)', NEW a \in Node, NEW b \in Node,
                      Hash(p.data) \in outHashes[a][b], <<a, b>> \in Link \ worn
               PROVE  Covered(p, a, b)
    BY <1>4, <1>11 DEF HashesCovered
  <2>1. PICK q \in issued : Hash(q.data) = Hash(p.data)
    BY <1>1 DEF Origins
  <2>2. q = p
    BY <2>1, <1>3 DEF Unique
  <2> QED BY <2>2, <1>1, <1>10 DEF HashesCovered
<1>13. LinkCoverage'
  <2> SUFFICES ASSUME NEW p \in issued', Unique(p)', NEW a \in Node,
                      p.id \in forwarded[a], NEW m \in Server,
                      <<a, m>> \in Link \ worn, m \notin p.to
               PROVE  Covered(p, a, m)
    BY <1>4, <1>11 DEF LinkCoverage
  <2>1. p \in issued
    BY <1>1, <1>3 DEF Origins
  <2> QED BY <2>1, <1>1, <1>10 DEF LinkCoverage
<1>14. UnwornIsUp'
  BY <1>1, <1>4 DEF UnwornIsUp
<1> QED BY <1>5, <1>6, <1>8, <1>9, <1>12, <1>13, <1>14 DEF CoverageInv

\* A peer that takes a message from a socket has received it: nothing is lost.
LEMMA ReceiveCovers ==
    ASSUME TypeOK, CoverageInv, NEW x \in net, Receive(x)
    PROVE  CoverageInv'
<1>1. /\ UniqueIds /\ Origins /\ Trail /\ Receipts
      /\ HashesCovered /\ UnwornIsUp /\ LinkCoverage
  BY DEF CoverageInv
<1>2. /\ UNCHANGED <<signing, outHashes, comparing, up, issued, forwarded, worn>>
      /\ net' = net \ {x}
  BY DEF Receive, Accept, Processed
<1> DEFINE h == [node |-> x.dst, id |-> x.id, to |-> x.to \cup {x.src},
                 data |-> x.data,
                 ok |-> /\ ~InFuture(x.dst, x.data)
                        /\ ~CantOverwrite(store[x.dst][x.data.k], x.data)]
<1>3. /\ verifying' = verifying \cup {h}
      /\ h.node = x.dst /\ h.id = x.id /\ h.data = x.data
      /\ h.to = x.to \cup {x.src}
  BY DEF Receive, Accept, Processed
<1> HIDE DEF h
<1>4. /\ x.dst \in Node
      /\ \A n \in Node : received[n] \subseteq received'[n]
      /\ \A n \in Node : processedIds'[n] \subseteq received'[n]
      /\ x.id \in received'[x.dst]
  BY <1>1 DEF Receive, TypeOK, Message, Receipts, NetworkTypeOK, Accept, Processed
<1>5. UniqueIds' /\ UnwornIsUp' /\ \A p \in issued : Unique(p)' <=> Unique(p)
  BY <1>1, <1>2 DEF UniqueIds, UnwornIsUp, Unique
<1>6. Origins'
  BY <1>1, <1>2, <1>3 DEF Origins, CallOf
<1>7. Trail'
  <2> SUFFICES ASSUME NEW p \in issued, NEW z \in net' \cup verifying', p.id = z.id,
                      NEW y \in z.to
               PROVE  Visited(p, y)'
    BY <1>2 DEF Trail
  <2>1. Visited(p, y)
    BY <1>1, <1>2, <1>3 DEF Trail, Receipts
  <2>2. y \in Node => Visited(p, y)'
    BY <2>1, <1>2, <1>4, VisitedStable
  <2>3. y \in Node
    BY <1>2, <1>3 DEF TypeOK, Message, Verifying, NetworkTypeOK
  <2> QED BY <2>2, <2>3
<1>8. Receipts'
  BY <1>1, <1>2, <1>3, <1>4 DEF Receipts, TypeOK, Verifying, NetworkTypeOK
<1>9. \A p, a, b : b \in Node /\ a \in Node /\ Covered(p, a, b) => Covered(p, a, b)'
  BY <1>2, <1>4, CoveredStable
<1>10. HashesCovered'
  BY <1>1, <1>2, <1>5, <1>9 DEF HashesCovered
<1>11. LinkCoverage'
  BY <1>1, <1>2, <1>5, <1>9, ServerAssumption DEF LinkCoverage
<1> QED BY <1>5, <1>6, <1>7, <1>8, <1>10, <1>11 DEF CoverageInv

\* The author of a record sends it with the list the caller gave.
LEMMA PutSignedCovers ==
    ASSUME TypeOK, CoverageInv, NEW p \in signing, PutSigned(p)
    PROVE  CoverageInv'
<1>1. /\ UniqueIds /\ Origins /\ Trail /\ Receipts
      /\ HashesCovered /\ UnwornIsUp /\ LinkCoverage
  BY DEF CoverageInv
<1>2. /\ p \in issued /\ p.data.a \in Node /\ p.to \in SUBSET Node
      /\ \A y \in p.to \cup {p.data.a} : Visited(p, y)
  BY <1>1 DEF Origins, TypeOK, PutCall, Rec, Visited, NetworkTypeOK
<1>3. /\ SendToAll(p.data.a, p.id, p.to, p.data, FALSE)
      /\ signing' = signing \ {p}
      /\ UNCHANGED <<processedIds, verifying, comparing, up, issued, received, worn>>
  BY DEF PutSigned, SendToAll
<1>4. /\ \A x \in net' : \E q \in issued : CallOf(q, x)
      /\ \A a \in Node : \A i \in forwarded'[a] : \E q \in issued : q.id = i
      /\ \A a, b \in Node : \A h \in outHashes'[a][b] :
            \E q \in issued : Hash(q.data) = h
      /\ \A q \in issued : \A x \in net' :
            q.id = x.id => \A y \in x.to : Visited(q, y)
      /\ \A x \in net' : x.src \in x.to
      /\ HashesCovered'
      /\ LinkCoverage'
  BY <1>2, <1>3, SendToAllCovers
<1>5. Origins'
  BY <1>1, <1>3, <1>4 DEF Origins, CallOf
<1>6. Trail' /\ Receipts'
  BY <1>1, <1>3, <1>4 DEF Trail, Receipts, Visited
<1>7. UniqueIds' /\ UnwornIsUp'
  BY <1>1, <1>3 DEF UniqueIds, UnwornIsUp
<1> QED BY <1>4, <1>5, <1>6, <1>7 DEF CoverageInv

\* A relay sends the record with a list whose members have all had it.
LEMMA VerifiedCovers ==
    ASSUME TypeOK, CoverageInv, NEW h \in verifying, Verified(h)
    PROVE  CoverageInv'
<1>1. /\ UniqueIds /\ Origins /\ Trail /\ Receipts
      /\ HashesCovered /\ UnwornIsUp /\ LinkCoverage
  BY DEF CoverageInv
<1>2. PICK p \in issued : p.id = h.id /\ p.data = h.data
  BY <1>1 DEF Origins, CallOf
<1>3. /\ h.node \in Node /\ h.to \in SUBSET Node
      /\ \A y \in h.to \cup {h.node} : Visited(p, y)
  BY <1>1, <1>2 DEF TypeOK, Verifying, Trail, Receipts, Visited, NetworkTypeOK
<1> DEFINE c == [node |-> h.node, id |-> h.id, data |-> h.data,
                 old |-> store[h.node][h.data.k]]
<1>4. /\ SendToAll(h.node, p.id, h.to, p.data, TRUE)
      /\ verifying' = verifying \ {h}
      /\ comparing' = comparing \cup {c}
      /\ CallOf(p, c)
      /\ UNCHANGED <<signing, processedIds, up, issued, received, worn>>
  BY <1>2 DEF Verified, CallOf, SendToAll
<1> HIDE DEF c
<1>5. /\ \A x \in net' : \E q \in issued : CallOf(q, x)
      /\ \A a \in Node : \A i \in forwarded'[a] : \E q \in issued : q.id = i
      /\ \A a, b \in Node : \A i \in outHashes'[a][b] :
            \E q \in issued : Hash(q.data) = i
      /\ \A q \in issued : \A x \in net' :
            q.id = x.id => \A y \in x.to : Visited(q, y)
      /\ \A x \in net' : x.src \in x.to
      /\ HashesCovered'
      /\ LinkCoverage'
  BY <1>3, <1>4, SendToAllCovers
<1>6. Origins'
  BY <1>1, <1>4, <1>5 DEF Origins, CallOf
<1>7. Trail' /\ Receipts'
  BY <1>1, <1>4, <1>5 DEF Trail, Receipts, Visited
<1>8. UniqueIds' /\ UnwornIsUp'
  BY <1>1, <1>4 DEF UniqueIds, UnwornIsUp
<1> QED BY <1>5, <1>6, <1>7, <1>8 DEF CoverageInv

\* The three ways in which a record moves keep CoverageInv, and so do quiet steps.
LEMMA CoverageStep == ASSUME TypeOK, CoverageInv, [Next]_vars PROVE CoverageInv'
<1> USE DEF networkVars, NetworkTypeOK, NetworkInit, Processed, Drop, Accept,
            Disconnect, Connect, Crash
<1>0. Link \ worn \subseteq up /\ \A n \in Node : processedIds[n] \subseteq received[n]
  BY DEF CoverageInv, UnwornIsUp, Receipts
<1>1. CASE Tick
  BY <1>0, <1>1, QuietStep DEF Tick
<1>2. ASSUME NEW n \in User, NEW k \in Key, NEW v \in Value,
             NEW to \in Excluded, Put(n, k, v, to)
      PROVE  CoverageInv'
  BY <1>2, PutCovers
<1>3. ASSUME NEW p \in signing, PutSigned(p)
      PROVE  CoverageInv'
  BY <1>3, PutSignedCovers
<1>4. ASSUME NEW x \in net, Receive(x)
      PROVE  CoverageInv'
  BY <1>4, ReceiveCovers
<1>5. ASSUME NEW x \in net, ReceiveDuplicate(x)
      PROVE  CoverageInv'
  <2>1. x.id \in received[x.dst]
    BY <1>0, <1>5 DEF ReceiveDuplicate, TypeOK, Message
  <2> QED BY <1>0, <1>5, <2>1, QuietStep DEF ReceiveDuplicate
<1>6. ASSUME NEW h \in verifying, Verified(h)
      PROVE  CoverageInv'
  BY <1>6, VerifiedCovers
<1>7. ASSUME NEW h \in verifying, Unverified(h)
      PROVE  CoverageInv'
  BY <1>0, <1>7, QuietStep DEF Unverified
<1>8. ASSUME NEW h \in comparing, Compare(h)
      PROVE  CoverageInv'
  BY <1>0, <1>8, QuietStep DEF Compare
<1>9. ASSUME NEW e \in Fragile, LinkDown(e[1], e[2])
      PROVE  CoverageInv'
  BY <1>0, <1>9, QuietStep DEF LinkDown
<1>10. ASSUME NEW e \in Link, LinkUp(e[1], e[2])
       PROVE  CoverageInv'
  <2>1. \A a, b \in Node : outHashes'[a][b] \subseteq outHashes[a][b]
    BY <1>10, LinkAssumption DEF LinkUp, TypeOK
  <2> QED BY <1>0, <1>10, <2>1, QuietStep DEF LinkUp
<1>11. ASSUME NEW n \in Mortal, Restart(n)
       PROVE  CoverageInv'
  <2> DEFINE l == {e \in Link : n \in {e[1], e[2]}}
  <2>1. /\ \A a, b \in Node : outHashes'[a][b] \subseteq outHashes[a][b]
        /\ \A a \in Node : processedIds'[a] \subseteq processedIds[a]
    BY <1>11, FaultAssumption DEF Restart, TypeOK
  <2>2. up' = up \ l /\ worn' = worn \cup l
    BY <1>11 DEF Restart
  <2>3. \A x \in net : <<x.src, x.dst>> \in Link \ worn' => x \in net'
    BY <1>11, <2>2 DEF Restart
  <2>4. /\ UNCHANGED <<issued, received, forwarded>>
        /\ signing' \subseteq signing /\ net' \subseteq net
        /\ verifying' \subseteq verifying /\ comparing' \subseteq comparing
    BY <1>11 DEF Restart
  <2> QED BY <1>0, <2>1, <2>2, <2>3, <2>4, QuietStep
<1>12. CASE UNCHANGED vars
  BY <1>0, <1>12, QuietStep DEF vars
<1> QED
  BY <1>1, <1>2, <1>3, <1>4, <1>5, <1>6, <1>7, <1>8, <1>9, <1>10, <1>11, <1>12
     DEF Next, System, Environment

(***************************************************************************)
(* CoverageInv is an invariant: the three ways in which a record moves     *)
(* (Put, PutSigned and Verified, Receive) keep it, and every other step is *)
(* a QuietStep.                                                            *)
(***************************************************************************)
THEOREM CoverageInvariant == Spec => []CoverageInv
<1> USE DEF networkVars, NetworkTypeOK, NetworkInit, Processed, Drop, Accept,
            Disconnect, Connect, Crash
<1>1. Init => CoverageInv
  BY LinkAssumption DEF Init, CoverageInv, UniqueIds, Origins, Trail, Receipts,
                        HashesCovered, UnwornIsUp, LinkCoverage
<1> QED BY <1>1, CoverageStep, TypeCorrect, PTL DEF Spec

(***************************************************************************)
(* Flooding loses nothing, in every network: once a peer has sent or       *)
(* relayed a put, every server at the other end of a connection that never *)
(* broke has it, wrote it, was excluded, or has it on the way.             *)
(***************************************************************************)
THEOREM Coverage == Spec => []LinkCoverage
<1>1. CoverageInv => LinkCoverage
  BY DEF CoverageInv
<1> QED BY <1>1, CoverageInvariant, PTL
-----------------------------------------------------------------------------
(***************************************************************************)
(* Every record in a store is that of a call of putData, and of the calls  *)
(* for one key there is one that prevails over all.                        *)
(***************************************************************************)
CallsOK ==
    \A p \in issued : /\ p.data.a \in User /\ p.to \in Excluded
                      /\ p.data.t <= clock + Skew[p.data.a]

StoredPut ==
    \A n \in Node, k \in Key : store[n][k] # NoData => store[n][k] \in PutsOf(k)

BestExists ==
    \A k \in Key : PutsOf(k) # {} =>
        \E r \in PutsOf(k) : \A s \in PutsOf(k) : Prevails(r, s)

RecordsInv == CallsOK /\ StoredPut /\ BestExists

\* The records of the calls, one by one.
LEMMA PutsFacts ==
    ASSUME TypeOK, NEW k
    PROVE  \A r : r \in PutsOf(k) <=> \E p \in issued : p.data = r /\ r \in Rec /\ r.k = k
BY DEF PutsOf, TypeOK, PutCall

\* A call of putData is recorded with the time of its peer.
LEMMA PutRecorded ==
    ASSUME TypeOK, NEW n \in User, NEW k \in Key, NEW v \in Value,
           NEW to \in Excluded, Put(n, k, v, to)
    PROVE  \E call \in PutCall :
              /\ issued' = issued \cup {call} /\ signing' = signing \cup {call}
              /\ call.data \in Rec /\ call.data.k = k /\ call.data.a = n
              /\ call.data.t = clock + Skew[n] /\ call.to = to
              /\ \A p \in issued : p.id # call.id
              /\ UNCHANGED <<clock, store, verifying, comparing, networkVars>>
<1>1. PICK id \in Id :
        /\ id \notin {p.id : p \in issued}
        /\ LET call == [id |-> id, to |-> to,
                        data |-> [k |-> k, a |-> n, t |-> clock + Skew[n], v |-> v]]
           IN  signing' = signing \cup {call} /\ issued' = issued \cup {call}
  BY DEF Put
<1> DEFINE data == [k |-> k, a |-> n, t |-> clock + Skew[n], v |-> v]
           call == [id |-> id, to |-> to, data |-> data]
<1>2. clock + Skew[n] \in Int /\ n \in Node /\ to \in SUBSET Node
  BY ClockAssumption, UserAssumption, ExcludedAssumption DEF TypeOK
<1>3. data \in Rec /\ data.k = k /\ data.a = n /\ data.t = clock + Skew[n]
  BY <1>2 DEF Rec
<1>4. call \in PutCall /\ call.data = data /\ call.to = to /\ call.id = id
  BY <1>2, <1>3 DEF PutCall
<1>5. issued' = issued \cup {call} /\ signing' = signing \cup {call}
  BY <1>1
<1>6. UNCHANGED <<clock, store, verifying, comparing, networkVars>>
  BY DEF Put
<1> HIDE DEF data, call
<1> QED BY <1>1, <1>3, <1>4, <1>5, <1>6

\* A new call is the best of its key, or another prevails as before.
LEMMA BestOfMore ==
    ASSUME TypeOK, BestExists, NEW call \in PutCall, issued' = issued \cup {call}
    PROVE  BestExists'
<1> SUFFICES ASSUME NEW k \in Key, PutsOf(k)' # {}
             PROVE  \E r \in PutsOf(k)' : \A s \in PutsOf(k)' : Prevails(r, s)
  BY DEF BestExists, Prevails
<1>1. call.data \in Rec /\ \A r \in PutsOf(k) : r \in Rec /\ r.k = k
  BY DEF PutCall, PutsOf, TypeOK
<1>2. CASE call.data.k # k
  <2>1. PutsOf(k)' = PutsOf(k)
    BY <1>2 DEF PutsOf
  <2> QED BY <2>1 DEF BestExists
<1>3. CASE call.data.k = k
  <2>1. PutsOf(k)' = PutsOf(k) \cup {call.data}
    BY <1>3 DEF PutsOf
  <2>2. Prevails(call.data, call.data)
    BY <1>1 DEF Prevails, Rec
  <2>3. CASE PutsOf(k) = {}
    BY <2>1, <2>2, <2>3
  <2>4. CASE PutsOf(k) # {}
    <3>1. PICK r \in PutsOf(k) : \A s \in PutsOf(k) : Prevails(r, s)
      BY <2>4 DEF BestExists
    <3>2. Prevails(r, call.data) \/ Prevails(call.data, r)
      BY <1>1, <1>3 DEF Prevails, Rec
    <3>3. ASSUME Prevails(call.data, r), NEW s \in PutsOf(k) PROVE Prevails(call.data, s)
      BY <1>1, <1>3, <3>1, <3>3 DEF Prevails, Rec
    <3> QED BY <2>1, <2>2, <3>1, <3>2, <3>3
  <2> QED BY <2>3, <2>4
<1> QED BY <1>2, <1>3

\* A step that calls nothing and stores at most one record of a call.
LEMMA RecordsKept ==
    ASSUME TypeOK, RecordsInv, UNCHANGED issued, clock' >= clock, clock' \in Int,
           \/ UNCHANGED store
           \/ \E n \in Node, p \in issued : store' = [store EXCEPT ![n][p.data.k] = p.data]
    PROVE  RecordsInv'
<1>1. CallsOK'
  BY ClockAssumption, UserAssumption DEF RecordsInv, CallsOK, TypeOK, PutCall, Rec
<1>2. \A k : PutsOf(k)' = PutsOf(k)
  BY DEF PutsOf
<1>3. StoredPut'
  <2>1. CASE UNCHANGED store
    BY <1>2, <2>1 DEF RecordsInv, StoredPut
  <2>2. ASSUME NEW n \in Node, NEW p \in issued, store' = [store EXCEPT ![n][p.data.k] = p.data]
        PROVE  StoredPut'
    <3>1. p.data.k \in Key /\ p.data \in PutsOf(p.data.k)
      BY DEF TypeOK, PutCall, Rec, PutsOf
    <3>2. \A m \in Node, k \in Key : store'[m][k] = store[m][k]
                \/ (k = p.data.k /\ store'[m][k] = p.data)
      BY <2>2, <3>1 DEF TypeOK
    <3> QED BY <1>2, <3>1, <3>2 DEF RecordsInv, StoredPut
  <2> QED BY <2>1, <2>2
<1>4. BestExists'
  BY <1>2 DEF RecordsInv, BestExists
<1> QED BY <1>1, <1>3, <1>4 DEF RecordsInv

\* Every step keeps RecordsInv.
LEMMA RecordsStep ==
    ASSUME TypeOK, CoverageInv, RecordsInv, [Next]_vars PROVE RecordsInv'
<1>0. clock \in Int /\ clock >= clock
  BY DEF TypeOK
<1>1. ASSUME NEW n \in User, NEW k \in Key, NEW v \in Value, NEW to \in Excluded,
             Put(n, k, v, to)
      PROVE  RecordsInv'
  <2>1. PICK call \in PutCall :
              /\ issued' = issued \cup {call}
              /\ call.data \in Rec /\ call.data.k = k /\ call.data.a = n
              /\ call.data.t = clock + Skew[n] /\ call.to = to
              /\ UNCHANGED <<clock, store>>
    BY <1>1, PutRecorded
  <2>2. CallsOK'
    BY <1>0, <2>1, ClockAssumption, UserAssumption DEF RecordsInv, CallsOK
  <2>3. StoredPut'
    BY <2>1 DEF RecordsInv, StoredPut, PutsOf
  <2> QED BY <2>1, <2>2, <2>3, BestOfMore DEF RecordsInv
<1>2. ASSUME NEW p \in signing, PutSigned(p) PROVE RecordsInv'
  <2>1. p \in issued /\ p.data.a \in Node
    BY DEF CoverageInv, Origins, TypeOK, PutCall, Rec
  <2>2. store' = [store EXCEPT ![p.data.a][p.data.k] = p.data] /\ UNCHANGED <<issued, clock>>
    BY <1>2 DEF PutSigned
  <2> QED BY <1>0, <2>1, <2>2, RecordsKept
<1>3. ASSUME NEW h \in comparing, Compare(h) PROVE RecordsInv'
  <2>1. PICK p \in issued : p.data = h.data
    BY DEF CoverageInv, Origins, CallOf
  <2>2. h.node \in Node /\ UNCHANGED <<issued, clock>>
        /\ \/ UNCHANGED store
           \/ store' = [store EXCEPT ![h.node][p.data.k] = p.data]
    BY <1>3, <2>1 DEF Compare, TypeOK, Comparing
  <2> QED BY <1>0, <2>1, <2>2, RecordsKept
<1>4. CASE Tick
  <2>1. clock' >= clock /\ clock' \in Int /\ UNCHANGED <<issued, store>>
    BY <1>0, <1>4 DEF Tick
  <2> QED BY <2>1, RecordsKept
<1>5. CASE \/ \E x \in net : Receive(x) \/ ReceiveDuplicate(x)
           \/ \E h \in verifying : Verified(h) \/ Unverified(h)
           \/ \E e \in Fragile : LinkDown(e[1], e[2])
           \/ \E e \in Link : LinkUp(e[1], e[2])
           \/ \E n \in Mortal : Restart(n)
           \/ UNCHANGED vars
  <2>1. UNCHANGED <<clock, issued, store>>
    BY <1>5 DEF Receive, ReceiveDuplicate, Verified, Unverified, LinkDown, LinkUp,
                Restart, vars
  <2> QED BY <1>0, <2>1, RecordsKept
<1> QED BY <1>1, <1>2, <1>3, <1>4, <1>5 DEF Next, System, Environment
-----------------------------------------------------------------------------
(***************************************************************************)
(* When handlers do not overlap: a peer has one handler at most, and the   *)
(* record a handler read is still there, unless the peer puts records.     *)
(***************************************************************************)
AtMostOne(S) == \A x, y \in S : x = y
Verifiers(n) == {h \in verifying : h.node = n}
Comparers(n) == {h \in comparing : h.node = n}

OneHandler ==
    \A n \in Node : /\ AtMostOne(Verifiers(n)) /\ AtMostOne(Comparers(n))
                    /\ Verifiers(n) = {} \/ Comparers(n) = {}

FreshReads ==
    \A h \in comparing : h.node \notin User => h.old = store[h.node][h.data.k]

SerialInv == OneHandler /\ FreshReads

\* A step that starts no handler and writes no store of a peer with a reader.
LEMMA HandlersKept ==
    ASSUME SerialInv, verifying' \subseteq verifying, comparing' \subseteq comparing,
           \A h \in comparing' : h.node \notin User =>
               store'[h.node][h.data.k] = store[h.node][h.data.k]
    PROVE  SerialInv'
<1>1. \A n : Verifiers(n)' \subseteq Verifiers(n) /\ Comparers(n)' \subseteq Comparers(n)
  BY DEF Verifiers, Comparers
<1>2. OneHandler'
  BY <1>1 DEF SerialInv, OneHandler, AtMostOne
<1>3. FreshReads'
  BY DEF SerialInv, FreshReads
<1> QED BY <1>2, <1>3 DEF SerialInv

\* Nothing is under way when the constructor is done.
LEMMA SerialInit == Init => SerialInv
BY DEF Init, SerialInv, OneHandler, AtMostOne, Verifiers, Comparers, FreshReads

\* A message is taken by a peer without handlers.
LEMMA SerialReceive ==
    ASSUME TypeOK, SerialInv, NEW x \in net, Receive(x), Serially
    PROVE  SerialInv' /\ Idle(x.dst)
<1> DEFINE h == [node |-> x.dst, id |-> x.id, to |-> x.to \cup {x.src}, data |-> x.data,
                 ok |-> /\ ~InFuture(x.dst, x.data)
                        /\ ~CantOverwrite(store[x.dst][x.data.k], x.data)]
<1>1. /\ verifying' = verifying \cup {h} /\ h.node = x.dst
      /\ UNCHANGED <<comparing, store>>
  BY DEF Receive
<1> HIDE DEF h
<1>2. x.dst \in Node /\ x.id \in processedIds'[x.dst] /\ x.id \notin processedIds[x.dst]
  BY DEF Receive, Accept, Processed, TypeOK, NetworkTypeOK, Message
<1>3. Idle(x.dst)
  BY <1>2 DEF Serially
<1>4. Verifiers(x.dst)' = {h} /\ Comparers(x.dst)' = {}
  BY <1>1, <1>3 DEF Idle, Verifiers, Comparers
<1>5. \A n \in Node \ {x.dst} :
         Verifiers(n)' = Verifiers(n) /\ Comparers(n)' = Comparers(n)
  BY <1>1 DEF Verifiers, Comparers
<1>6. OneHandler'
  BY <1>4, <1>5 DEF SerialInv, OneHandler, AtMostOne
<1>7. FreshReads'
  BY <1>1 DEF SerialInv, FreshReads
<1> QED BY <1>3, <1>6, <1>7 DEF SerialInv

\* The handler that relays is the one that reads.
LEMMA SerialVerified ==
    ASSUME TypeOK, SerialInv, NEW h \in verifying, Verified(h)
    PROVE  SerialInv'
<1> DEFINE c == [node |-> h.node, id |-> h.id, data |-> h.data,
                 old |-> store[h.node][h.data.k]]
<1>1. /\ verifying' = verifying \ {h} /\ comparing' = comparing \cup {c} /\ store' = store
      /\ c.node = h.node /\ c.data = h.data /\ c.old = store[h.node][h.data.k]
      /\ h.node \in Node
  BY DEF Verified, TypeOK, Verifying
<1> HIDE DEF c
<1>2. Verifiers(h.node) = {h} /\ Comparers(h.node) = {}
  BY <1>1 DEF SerialInv, OneHandler, AtMostOne, Verifiers
<1>3. Verifiers(h.node)' = {} /\ Comparers(h.node)' = {c}
  BY <1>1, <1>2 DEF Verifiers, Comparers
<1>4. \A n \in Node \ {h.node} :
         Verifiers(n)' = Verifiers(n) /\ Comparers(n)' = Comparers(n)
  BY <1>1 DEF Verifiers, Comparers
<1>5. OneHandler'
  BY <1>3, <1>4 DEF SerialInv, OneHandler, AtMostOne
<1>6. FreshReads'
  BY <1>1 DEF SerialInv, FreshReads
<1> QED BY <1>5, <1>6 DEF SerialInv

\* The handler that writes is the only one of its peer.
LEMMA SerialCompare ==
    ASSUME TypeOK, SerialInv, NEW h \in comparing, Compare(h)
    PROVE  SerialInv'
<1>1. h.node \in Node /\ h.data.k \in Key /\ comparing' = comparing \ {h}
      /\ verifying' = verifying
  BY DEF TypeOK, Comparing, Rec, Compare
<1>2. \A n \in Node \ {h.node} : \A k \in Key : store'[n][k] = store[n][k]
  BY <1>1 DEF Compare, TypeOK
<1>3. \A c \in comparing' : c.node # h.node /\ c.node \in Node /\ c.data.k \in Key
  BY <1>1 DEF SerialInv, OneHandler, AtMostOne, Comparers, TypeOK, Comparing, Rec
<1> QED BY <1>1, <1>2, <1>3, HandlersKept

\* Every step in which handlers do not begin to overlap keeps SerialInv.
LEMMA SerialStep ==
    ASSUME TypeOK, CoverageInv, RecordsInv, SerialInv, [SerialNext]_vars PROVE SerialInv'
<1>1. ASSUME NEW p \in signing, PutSigned(p) PROVE SerialInv'
  <2>1. p.data.a \in User /\ p.data.a \in Node /\ p.data.k \in Key
    BY DEF CoverageInv, Origins, RecordsInv, CallsOK, TypeOK, PutCall, Rec
  <2>2. \A n \in Node \ {p.data.a}, k \in Key : store'[n][k] = store[n][k]
    BY <1>1, <2>1 DEF PutSigned, TypeOK
  <2>3. \A h \in comparing : h.node \in Node /\ h.data.k \in Key
    BY DEF TypeOK, Comparing, Rec
  <2>4. UNCHANGED <<verifying, comparing>>
    BY <1>1 DEF PutSigned
  <2> QED BY <2>1, <2>2, <2>3, <2>4, HandlersKept
<1>2. CASE \E x \in net : Receive(x) /\ Serially
  BY <1>2, SerialReceive
<1>3. CASE \E h \in verifying : Verified(h)
  BY <1>3, SerialVerified
<1>4. CASE \E h \in comparing : Compare(h)
  BY <1>4, SerialCompare
<1>5. CASE \/ Tick
           \/ \E x \in net : ReceiveDuplicate(x)
           \/ \E h \in verifying : Unverified(h)
           \/ \E n \in User, k \in Key, v \in Value, to \in Excluded : Put(n, k, v, to)
           \/ \E e \in Fragile : LinkDown(e[1], e[2])
           \/ \E e \in Link : LinkUp(e[1], e[2])
           \/ \E n \in Mortal : Restart(n)
           \/ UNCHANGED vars
  <2>1. store' = store /\ verifying' \subseteq verifying /\ comparing' \subseteq comparing
    BY <1>5 DEF Tick, ReceiveDuplicate, Unverified, Put, LinkDown, LinkUp, Restart, vars
  <2> QED BY <2>1, HandlersKept
<1> QED BY <1>1, <1>2, <1>3, <1>4, <1>5 DEF SerialNext, Next, System, Environment
-----------------------------------------------------------------------------
(***************************************************************************)
(* While no connection broke, a put goes from its author to every server:  *)
(* signed (Sent), accepted (Judged), relayed (Relayed) and stored, if no   *)
(* better record is there (Handled).  A server refuses it only when another *)
(* author put the frozen key before.                                       *)
(***************************************************************************)
Outdone(p) ==
    /\ p.data.k \in Frozen
    /\ \E q \in issued : /\ q.data.k = p.data.k /\ q.data.a # p.data.a
                         /\ q.data.t <= p.data.t

ReceivedOrigin == \A n \in Node : \A i \in received[n] : \E p \in issued : p.id = i

Sent == \A p \in issued : p \in signing \/ p.id \in forwarded[p.data.a]

Judged ==
    \A h \in verifying : h.node \in Server =>
        h.ok \/ \E p \in issued : p.id = h.id /\ Outdone(p)

Relayed ==
    \A p \in issued, s \in Server : p.id \in received[s] =>
        \/ p.id \in forwarded[s] \/ Outdone(p)
        \/ \E h \in verifying : h.node = s /\ h.id = p.id

Handled ==
    \A p \in issued, s \in Server : p.id \in forwarded[s] =>
        \/ \E h \in comparing : h.node = s /\ h.id = p.id
        \/ /\ store[s][p.data.k] # NoData
           /\ Prevails(store[s][p.data.k], p.data)

Arriving ==
    OpenNetwork /\ worn = {} => /\ (Server # {} => Sent)
                                /\ Judged /\ Relayed
                                /\ (WellSpaced => Handled)

ArrivalInv == ReceivedOrigin /\ Arriving

\* Nothing has been put.
LEMMA ArrivalInit == Init => ArrivalInv
BY ServerAssumption DEF Init, NetworkInit, ArrivalInv, ReceivedOrigin, Arriving, Sent,
    Judged, Relayed, Handled

\* In an open network, users and servers have connections.
LEMMA Connected ==
    ASSUME OpenNetwork, NEW n \in User, NEW s \in Server
    PROVE  (\E e \in Link : e[1] = n) /\ (\E e \in Link : e[2] = s)
<1>1. n \in Node /\ s \in Node /\ n # s
  BY UserAssumption, ServerAssumption DEF OpenNetwork
<1>2. ASSUME \A e \in Link : e[1] # n PROVE FALSE
  <2>1. {n} \in SUBSET Node /\ \A e \in Link : e[1] \in {n} /\ e[2] \in Server => e[2] \in {n}
    BY <1>1, <1>2
  <2>2. Server \subseteq {n}
    BY <2>1 DEF OpenNetwork
  <2> QED BY <1>1, <2>2
<1>3. ASSUME \A e \in Link : e[2] # s PROVE FALSE
  <2> DEFINE S == Node \ {s}
  <2>1. S \in SUBSET Node /\ n \in S
    BY <1>1
  <2>2. \A e \in Link : e[1] \in S /\ e[2] \in Server => e[2] \in S
    BY <1>3, ServerAssumption
  <2> HIDE DEF S
  <2>3. Server \subseteq S
    BY <2>1, <2>2 DEF OpenNetwork
  <2> QED BY <2>3 DEF S
<1> QED BY <1>2, <1>3

\* A step that concerns the servers in nothing.
LEMMA ServersUntouched ==
    ASSUME ArrivalInv, UNCHANGED <<issued, received>>, worn \subseteq worn',
           \A s \in Server : store'[s] = store[s] /\ forwarded'[s] = forwarded[s],
           verifying' \subseteq verifying,
           \A h \in verifying \cup comparing : h.node \in Server =>
               (h \in verifying => h \in verifying') /\ (h \in comparing => h \in comparing'),
           Server # {} => \A p \in issued : p \in signing \/ p.id \in forwarded[p.data.a] =>
               p \in signing' \/ p.id \in forwarded'[p.data.a]
    PROVE  ArrivalInv'
<1>1. ReceivedOrigin' /\ \A p : Outdone(p)' <=> Outdone(p)
  BY DEF ArrivalInv, ReceivedOrigin, Outdone
<1> SUFFICES ASSUME OpenNetwork, worn' = {}
             PROVE  /\ (Server # {} => Sent') /\ Judged' /\ Relayed'
                    /\ (WellSpaced' => Handled')
  BY <1>1 DEF ArrivalInv, Arriving
<1>2. /\ (Server # {} => Sent) /\ Judged /\ Relayed /\ (WellSpaced => Handled)
  BY DEF ArrivalInv, Arriving
<1>3. Server # {} => Sent'
  BY <1>2 DEF Sent
<1>4. Judged'
  BY <1>1, <1>2 DEF Judged
<1>5. Relayed'
  BY <1>1, <1>2 DEF Relayed
<1>6. WellSpaced' => Handled'
  BY <1>2 DEF WellSpaced, Handled
<1> QED BY <1>3, <1>4, <1>5, <1>6

\* A call has an id that nobody received or sent.
LEMMA ArrivalPut ==
    ASSUME TypeOK, CoverageInv, ArrivalInv, NEW n \in User, NEW k \in Key, NEW v \in Value,
           NEW to \in Excluded, Put(n, k, v, to)
    PROVE  ArrivalInv'
<1>1. PICK call \in PutCall :
          /\ issued' = issued \cup {call} /\ signing' = signing \cup {call}
          /\ \A p \in issued : p.id # call.id
          /\ UNCHANGED <<store, verifying, comparing, received, forwarded, worn>>
  BY PutRecorded DEF networkVars
<1>2. ReceivedOrigin'
  BY <1>1 DEF ArrivalInv, ReceivedOrigin
<1>3. \A s \in Server : call.id \notin received[s] /\ call.id \notin forwarded[s]
  BY <1>1, ServerAssumption DEF ArrivalInv, ReceivedOrigin, CoverageInv, Origins
<1>4. \A p : Outdone(p) => Outdone(p)'
  BY <1>1 DEF Outdone
<1> SUFFICES ASSUME OpenNetwork, worn = {}
             PROVE  /\ (Server # {} => Sent') /\ Judged' /\ Relayed'
                    /\ (WellSpaced' => Handled')
  BY <1>1, <1>2 DEF ArrivalInv, Arriving
<1>5. /\ (Server # {} => Sent) /\ Judged /\ Relayed /\ (WellSpaced => Handled)
  BY DEF ArrivalInv, Arriving
<1>6. (Server # {} => Sent') /\ Judged' /\ Relayed'
  BY <1>1, <1>3, <1>4, <1>5 DEF Sent, Judged, Relayed
<1>7. WellSpaced' => WellSpaced
  BY <1>1 DEF WellSpaced
<1>8. WellSpaced' => Handled'
  BY <1>1, <1>3, <1>5, <1>7 DEF Handled
<1> QED BY <1>6, <1>8

\* A server accepts what nobody put before.
LEMMA ArrivalReceive ==
    ASSUME TypeOK, CoverageInv, RecordsInv, ArrivalInv, NEW x \in net, Receive(x)
    PROVE  ArrivalInv'
<1> DEFINE ok == /\ ~InFuture(x.dst, x.data)
                 /\ ~CantOverwrite(store[x.dst][x.data.k], x.data)
           h == [node |-> x.dst, id |-> x.id, to |-> x.to \cup {x.src}, data |-> x.data,
                 ok |-> ok]
<1>1. /\ verifying' = verifying \cup {h} /\ h.node = x.dst /\ h.id = x.id /\ h.ok = ok
      /\ UNCHANGED <<clock, store, signing, comparing, issued, forwarded, worn>>
      /\ received' = [received EXCEPT ![x.dst] = @ \cup {x.id}]
  BY DEF Receive, Accept
<1>2. x.dst \in Node /\ \A n \in Node : received'[n] =
         IF n = x.dst THEN received[n] \cup {x.id} ELSE received[n]
  BY <1>1 DEF TypeOK, Message, NetworkTypeOK
<1>3. PICK p \in issued : p.id = x.id /\ p.data = x.data
  BY DEF CoverageInv, Origins, CallOf
<1>4. ReceivedOrigin'
  BY <1>1, <1>2, <1>3 DEF ArrivalInv, ReceivedOrigin
<1>5. \A q : Outdone(q)' <=> Outdone(q)
  BY <1>1 DEF Outdone
<1>6. ASSUME OpenNetwork, x.dst \in Server PROVE ok \/ Outdone(p)
  <2>1. ~InFuture(x.dst, x.data)
    <3>1. /\ p.data.a \in User /\ p.data.t <= clock + Skew[p.data.a]
          /\ Skew[p.data.a] <= Skew[x.dst] + Tolerance
      BY <1>6 DEF RecordsInv, CallsOK, OpenNetwork
    <3>2. /\ p.data.t \in Int /\ clock \in Int /\ Skew[p.data.a] \in Int
          /\ Skew[x.dst] \in Int /\ Tolerance \in Int
      BY <1>2, <3>1, ClockAssumption, UserAssumption DEF TypeOK, PutCall, Rec
    <3> QED BY <1>3, <3>1, <3>2 DEF InFuture
  <2>2. CantOverwrite(store[x.dst][x.data.k], x.data) => Outdone(p)
    <3>1. SUFFICES ASSUME CantOverwrite(store[x.dst][x.data.k], x.data) PROVE Outdone(p)
      OBVIOUS
    <3>2. x.data.k \in Key
      BY DEF TypeOK, NetworkTypeOK, Message, Rec
    <3>3. store[x.dst][x.data.k] \in PutsOf(x.data.k)
      BY <1>2, <3>1, <3>2 DEF CantOverwrite, RecordsInv, StoredPut
    <3>4. PICK q \in issued : q.data = store[x.dst][x.data.k] /\ q.data.k = x.data.k
      BY <3>3 DEF PutsOf
    <3> QED BY <1>3, <3>1, <3>4 DEF CantOverwrite, Conflict, Outdone
  <2> QED BY <2>1, <2>2
<1> HIDE DEF h, ok
<1> SUFFICES ASSUME OpenNetwork, worn = {}
             PROVE  /\ (Server # {} => Sent') /\ Judged' /\ Relayed'
                    /\ (WellSpaced' => Handled')
  BY <1>1, <1>4 DEF ArrivalInv, Arriving
<1>7. /\ (Server # {} => Sent) /\ Judged /\ Relayed /\ (WellSpaced => Handled)
  BY DEF ArrivalInv, Arriving
<1>8. Server # {} => Sent'
  BY <1>1, <1>7 DEF Sent
<1>9. Judged'
  BY <1>1, <1>3, <1>5, <1>6, <1>7 DEF Judged
<1>10. Relayed'
  BY <1>1, <1>2, <1>5, <1>7, ServerAssumption DEF Relayed
<1>11. WellSpaced' => Handled'
  BY <1>1, <1>7 DEF WellSpaced, Handled
<1> QED BY <1>8, <1>9, <1>10, <1>11

\* A server that relays a record goes on to compare it.
LEMMA ArrivalVerified ==
    ASSUME TypeOK, CoverageInv, ArrivalInv, NEW h \in verifying, Verified(h)
    PROVE  ArrivalInv'
<1> DEFINE c == [node |-> h.node, id |-> h.id, data |-> h.data,
                 old |-> store[h.node][h.data.k]]
<1>1. /\ verifying' = verifying \ {h} /\ comparing' = comparing \cup {c}
      /\ c.node = h.node /\ c.id = h.id
      /\ UNCHANGED <<store, signing, issued, received, worn>>
      /\ forwarded' = [forwarded EXCEPT ![h.node] = @ \cup {h.id}]
  BY DEF Verified, SendToAll
<1> HIDE DEF c
<1>2. \A n \in Node : forwarded'[n] =
         IF n = h.node THEN forwarded[n] \cup {h.id} ELSE forwarded[n]
  BY <1>1 DEF TypeOK, NetworkTypeOK
<1>3. ReceivedOrigin' /\ \A q : Outdone(q)' <=> Outdone(q)
  BY <1>1 DEF ArrivalInv, ReceivedOrigin, Outdone
<1> SUFFICES ASSUME OpenNetwork, worn = {}
             PROVE  /\ (Server # {} => Sent') /\ Judged' /\ Relayed'
                    /\ (WellSpaced' => Handled')
  BY <1>1, <1>3 DEF ArrivalInv, Arriving
<1>4. /\ (Server # {} => Sent) /\ Judged /\ Relayed /\ (WellSpaced => Handled)
  BY DEF ArrivalInv, Arriving
<1>5. Server # {} => Sent'
  BY <1>1, <1>2, <1>4 DEF Sent, TypeOK, PutCall, Rec
<1>6. Judged'
  BY <1>1, <1>3, <1>4 DEF Judged
<1>7. Relayed'
  BY <1>1, <1>2, <1>3, <1>4, ServerAssumption DEF Relayed
<1>8. WellSpaced' => Handled'
  BY <1>1, <1>2, <1>4, ServerAssumption DEF WellSpaced, Handled
<1> QED BY <1>5, <1>6, <1>7, <1>8

\* A server refuses only what it was outdone in.
LEMMA ArrivalUnverified ==
    ASSUME TypeOK, CoverageInv, ArrivalInv, NEW h \in verifying, Unverified(h)
    PROVE  ArrivalInv'
<1>1. /\ verifying' = verifying \ {h} /\ FALSE \in Verdicts(h)
      /\ UNCHANGED <<store, signing, comparing, issued, received, forwarded, worn>>
  BY DEF Unverified, networkVars
<1>2. h.data.k \in Key
  BY DEF TypeOK, Verifying, Rec
<1>3. ReceivedOrigin' /\ \A q : Outdone(q)' <=> Outdone(q)
  BY <1>1 DEF ArrivalInv, ReceivedOrigin, Outdone
<1> SUFFICES ASSUME OpenNetwork, worn = {}
             PROVE  /\ (Server # {} => Sent') /\ Judged' /\ Relayed'
                    /\ (WellSpaced' => Handled')
  BY <1>1, <1>3 DEF ArrivalInv, Arriving
<1>4. /\ (Server # {} => Sent) /\ Judged /\ Relayed /\ (WellSpaced => Handled)
  BY DEF ArrivalInv, Arriving
<1>5. h.node \in Server => ~h.ok
  BY <1>1, <1>2, ZenonT(30) DEF Verdicts, OpenNetwork
<1>6. h.node \in Server => \A p \in issued : p.id = h.id => Outdone(p)
  BY <1>4, <1>5 DEF Judged, CoverageInv, UniqueIds
<1>7. (Server # {} => Sent') /\ Judged'
  BY <1>1, <1>3, <1>4 DEF Sent, Judged
<1>8. Relayed'
  BY <1>1, <1>3, <1>4, <1>6 DEF Relayed
<1>9. WellSpaced' => Handled'
  BY <1>1, <1>4 DEF WellSpaced, Handled
<1> QED BY <1>7, <1>8, <1>9
\* handlePut leaves a record that prevails over both, if no two puts are alike.
LEMMA ReplacesPrevails ==
    ASSUME TypeOK, WellSpaced, NEW k \in Key, NEW old \in PutsOf(k), NEW r \in PutsOf(k)
    PROVE  /\ Replaces(old, r) => Prevails(r, old)
           /\ ~Replaces(old, r) => Prevails(old, r)
           /\ Prevails(r, r)
<1>1. PICK p \in issued : p.data = old /\ old \in Rec /\ old.k = k
  BY PutsFacts
<1>2. PICK q \in issued : q.data = r /\ r \in Rec /\ r.k = k
  BY PutsFacts
<1>3. NoData # old
  BY <1>1, NoDataAssumption
<1>4. k \in Frozen /\ old.a = r.a => old = r
  BY <1>1, <1>2 DEF WellSpaced
<1>5. old.t \in Int /\ r.t \in Int /\ old.a \in Node /\ r.a \in Node
  BY <1>1, <1>2 DEF Rec
<1> QED BY <1>1, <1>2, <1>3, <1>4, <1>5 DEF Replaces, Conflict, Prevails

\* The writer of a server replaces what is there only by what prevails.
LEMMA ArrivalCompare ==
    ASSUME TypeOK, CoverageInv, RecordsInv, SerialInv, ArrivalInv,
           NEW h \in comparing, Compare(h)
    PROVE  ArrivalInv'
<1>1. /\ comparing' = comparing \ {h}
      /\ UNCHANGED <<signing, verifying, issued, received, forwarded, worn>>
  BY DEF Compare, networkVars
<1>2. h.node \in Node /\ h.data.k \in Key /\ h.data \in Rec
  BY DEF TypeOK, Comparing, Rec
<1>3. ReceivedOrigin' /\ \A q : Outdone(q)' <=> Outdone(q)
  BY <1>1 DEF ArrivalInv, ReceivedOrigin, Outdone
<1> SUFFICES ASSUME OpenNetwork, worn = {}
             PROVE  /\ (Server # {} => Sent') /\ Judged' /\ Relayed'
                    /\ (WellSpaced' => Handled')
  BY <1>1, <1>3 DEF ArrivalInv, Arriving
<1>4. /\ (Server # {} => Sent) /\ Judged /\ Relayed /\ (WellSpaced => Handled)
  BY DEF ArrivalInv, Arriving
<1>5. (Server # {} => Sent') /\ Judged' /\ Relayed'
  BY <1>1, <1>3, <1>4 DEF Sent, Judged, Relayed
<1>6. ASSUME WellSpaced, NEW p \in issued, NEW s \in Server, p.id \in forwarded[s],
             ~\E g \in comparing' : g.node = s /\ g.id = p.id
      PROVE  store'[s][p.data.k] # NoData /\ Prevails(store'[s][p.data.k], p.data)
  <2> DEFINE k == p.data.k
             old == store[s][k]
  <2>0. s \in Node /\ k \in Key /\ p.data \in PutsOf(k) /\ p.data \in Rec
    BY ServerAssumption DEF TypeOK, PutCall, Rec, PutsOf
  <2>1. CASE ~(h.node = s /\ h.data.k = k)
    <3>1. store'[s][k] = old
      BY <1>2, <2>0, <2>1 DEF Compare, TypeOK
    <3>2. ~\E g \in comparing : g.node = s /\ g.id = p.id
      <4>1. SUFFICES ASSUME h.node = s, h.id = p.id PROVE FALSE
        BY <1>1, <1>6
      <4>2. PICK q \in issued : q.id = h.id /\ q.data = h.data
        BY DEF CoverageInv, Origins, CallOf
      <4> QED BY <2>1, <4>1, <4>2 DEF CoverageInv, UniqueIds
    <3> QED BY <1>4, <1>6, <3>1, <3>2 DEF Handled
  <2>2. CASE h.node = s /\ h.data.k = k
    <3>1. h.old = old
      BY <2>2, ServerAssumption DEF SerialInv, FreshReads, OpenNetwork
    <3>2. store'[s][k] = IF Replaces(old, h.data) THEN h.data ELSE old
      BY <1>2, <2>0, <2>2, <3>1 DEF Compare, TypeOK
    <3>3. PICK q \in issued : q.id = h.id /\ q.data = h.data /\ h.data \in PutsOf(k)
      BY <2>2 DEF CoverageInv, Origins, CallOf, PutsOf
    <3>4. old # NoData => old \in PutsOf(k)
      BY <2>0 DEF RecordsInv, StoredPut
    <3>5. h.data # NoData
      BY <1>2, NoDataAssumption
    <3>6. CASE h.id = p.id
      <4>1. h.data = p.data
        BY <3>3, <3>6 DEF CoverageInv, UniqueIds
      <4>2. CASE old = NoData
        BY <1>6, <2>0, <3>2, <3>3, <3>5, <4>1, <4>2, ReplacesPrevails DEF Replaces
      <4>3. CASE old # NoData
        BY <1>6, <2>0, <3>2, <3>3, <3>4, <3>5, <4>1, <4>3, ReplacesPrevails
      <4> QED BY <4>2, <4>3
    <3>7. CASE h.id # p.id
      <4>1. ~\E g \in comparing : g.node = s /\ g.id = p.id
        BY <1>1, <1>6, <3>7
      <4>2. old # NoData /\ Prevails(old, p.data)
        BY <1>4, <1>6, <4>1 DEF Handled
      <4>3. CASE ~Replaces(old, h.data)
        BY <3>2, <4>2, <4>3
      <4>4. CASE Replaces(old, h.data)
        <5>1. Prevails(h.data, old)
          BY <1>6, <2>0, <3>3, <3>4, <4>2, <4>4, ReplacesPrevails
        <5>2. /\ old \in Rec /\ old.k = k /\ h.data \in Rec /\ h.data.k = k
          BY <2>2, <3>4, <4>2, <1>2, PutsFacts
        <5>3. Prevails(h.data, p.data)
          BY <2>0, <4>2, <5>1, <5>2 DEF Prevails, Rec
        <5> QED BY <3>2, <3>5, <4>4, <5>3
      <4> QED BY <4>3, <4>4
    <3> QED BY <3>6, <3>7
  <2> QED BY <2>1, <2>2
<1>7. WellSpaced' => Handled'
  BY <1>1, <1>6 DEF WellSpaced, Handled
<1> QED BY <1>5, <1>7

\* The author, who is no server, has sent what it signed.
LEMMA ArrivalPutSigned ==
    ASSUME TypeOK, CoverageInv, RecordsInv, ArrivalInv, NEW p \in signing, PutSigned(p)
    PROVE  ArrivalInv'
<1>1. /\ p \in issued /\ p.data.a \in User /\ p.data.a \in Node
  BY DEF CoverageInv, Origins, RecordsInv, CallsOK, TypeOK, PutCall, Rec
<1>2. /\ signing' = signing \ {p}
      /\ UNCHANGED <<verifying, comparing, issued, received, worn>>
      /\ forwarded' = [forwarded EXCEPT ![p.data.a] = @ \cup {p.id}]
      /\ store' = [store EXCEPT ![p.data.a][p.data.k] = p.data]
  BY DEF PutSigned, SendToAll
<1>3. \A n \in Node : forwarded'[n] =
         IF n = p.data.a THEN forwarded[n] \cup {p.id} ELSE forwarded[n]
  BY <1>2 DEF TypeOK, NetworkTypeOK
<1>4. CASE ~OpenNetwork
  BY <1>2, <1>4 DEF ArrivalInv, ReceivedOrigin, Arriving
<1>5. CASE OpenNetwork
  <2>1. \A s \in Server : s \in Node /\ s # p.data.a
    BY <1>1, <1>5, ServerAssumption DEF OpenNetwork
  <2>2. \A s \in Server : store'[s] = store[s] /\ forwarded'[s] = forwarded[s]
    BY <1>2, <1>3, <2>1 DEF TypeOK
  <2>3. \A q \in issued : q \in signing \/ q.id \in forwarded[q.data.a] =>
            q \in signing' \/ q.id \in forwarded'[q.data.a]
    <3>1. p.id \in forwarded'[p.data.a]
      BY <1>1, <1>3
    <3>2. \A q \in issued : q.data.a \in Node /\ forwarded[q.data.a] \subseteq forwarded'[q.data.a]
      BY <1>3 DEF TypeOK, PutCall, Rec
    <3> QED BY <1>2, <3>1, <3>2
  <2> QED BY <1>2, <2>2, <2>3, ServersUntouched
<1> QED BY <1>4, <1>5

\* A server or user that restarts has broken its connections.
LEMMA ArrivalRestart ==
    ASSUME TypeOK, RecordsInv, ArrivalInv, NEW n \in Mortal, Restart(n)
    PROVE  ArrivalInv'
<1> DEFINE l == {e \in Link : n \in {e[1], e[2]}}
<1>1. /\ worn' = worn \cup l /\ n \in Node
      /\ UNCHANGED <<issued, received, forwarded, store>>
      /\ signing' = {p \in signing : p.data.a # n}
      /\ verifying' = {h \in verifying : h.node # n}
      /\ comparing' = {h \in comparing : h.node # n}
  BY FaultAssumption DEF Restart, Crash
<1>2. CASE ~OpenNetwork \/ worn' # {}
  BY <1>1, <1>2 DEF ArrivalInv, ReceivedOrigin, Arriving
<1>3. CASE OpenNetwork /\ worn' = {} /\ issued = {}
  <2>1. (Server # {} => Sent') /\ Relayed' /\ Handled'
    BY <1>1, <1>3 DEF Sent, Relayed, Handled
  <2>2. Judged'
    BY <1>1, <1>3 DEF ArrivalInv, Arriving, Judged
  <2> QED BY <1>1, <2>1, <2>2 DEF ArrivalInv, ReceivedOrigin, Arriving
<1>4. CASE OpenNetwork /\ worn' = {} /\ issued # {}
  <2>1. l = {}
    BY <1>1, <1>4
  <2>2. \A e \in Link : e[1] # n /\ e[2] # n
    BY <2>1
  <2>3. \A p \in issued : p.data.a \in User
    BY DEF RecordsInv, CallsOK
  <2>4. n \notin Server /\ (Server # {} => n \notin User)
    BY <1>4, <2>2, <2>3, Connected
  <2>5. Server # {} => \A p \in issued : p.data.a # n
    BY <2>3, <2>4
  <2> HIDE DEF l
  <2> QED BY <1>1, <2>4, <2>5, ServersUntouched
<1> QED BY <1>2, <1>3, <1>4

\* Every step keeps ArrivalInv.
LEMMA ArrivalStep ==
    ASSUME TypeOK, CoverageInv, RecordsInv, SerialInv, ArrivalInv, [SerialNext]_vars
    PROVE  ArrivalInv'
<1>1. CASE \E e \in Fragile : LinkDown(e[1], e[2])
  <2>1. worn' # {} /\ UNCHANGED <<issued, received>>
    BY <1>1 DEF LinkDown, Disconnect
  <2> QED BY <2>1 DEF ArrivalInv, ReceivedOrigin, Arriving
<1>2. CASE \/ Tick
           \/ \E x \in net : ReceiveDuplicate(x)
           \/ \E e \in Link : LinkUp(e[1], e[2])
           \/ UNCHANGED vars
  <2>1. UNCHANGED <<store, signing, verifying, comparing, issued, received, forwarded, worn>>
    BY <1>2 DEF Tick, ReceiveDuplicate, Drop, LinkUp, Connect, vars, networkVars
  <2> QED BY <2>1, ServersUntouched
<1>3. CASE \E n \in User, k \in Key, v \in Value, to \in Excluded : Put(n, k, v, to)
  BY <1>3, ArrivalPut
<1>4. CASE \E p \in signing : PutSigned(p)
  BY <1>4, ArrivalPutSigned
<1>5. CASE \E x \in net : Receive(x)
  BY <1>5, ArrivalReceive
<1>6. CASE \E h \in verifying : Verified(h) \/ Unverified(h)
  BY <1>6, ArrivalVerified, ArrivalUnverified
<1>7. CASE \E h \in comparing : Compare(h)
  BY <1>7, ArrivalCompare
<1>8. CASE \E n \in Mortal : Restart(n)
  BY <1>8, ArrivalRestart
<1> QED BY <1>1, <1>2, <1>3, <1>4, <1>5, <1>6, <1>7, <1>8
        DEF SerialNext, Next, System, Environment

\* Of two puts that prevail over each other there is one.
LEMMA PrevailsUnique ==
    ASSUME TypeOK, WellSpaced, NEW k \in Key, NEW r \in PutsOf(k), NEW s \in PutsOf(k),
           Prevails(r, s), Prevails(s, r)
    PROVE  r = s
<1>1. PICK p \in issued : p.data = r /\ r \in Rec /\ r.k = k
  BY PutsFacts
<1>2. PICK q \in issued : q.data = s /\ s \in Rec /\ s.k = k
  BY PutsFacts
<1>3. r.t = s.t
  BY <1>1, <1>2 DEF Prevails, Rec
<1> QED BY <1>1, <1>2, <1>3 DEF WellSpaced

\* When all has settled, what prevails has been handled by every server.
LEMMA AllHandled ==
    ASSUME TypeOK, CoverageInv, RecordsInv, ArrivalInv, OpenNetwork, Quiescent,
           worn = {}, WellSpaced, NEW p \in issued, ~Outdone(p), NEW s \in Server
    PROVE  p.id \in forwarded[s]
<1> DEFINE S == {n \in Node : p.id \in forwarded[n]}
<1>1. Sent /\ Relayed /\ LinkCoverage
  BY DEF ArrivalInv, Arriving, CoverageInv
<1>2. p.data.a \in User /\ p.to \in Excluded /\ p.data.a \in Node
  BY UserAssumption DEF RecordsInv, CallsOK
<1>3. p.data.a \in S /\ S \in SUBSET Node
  BY <1>1, <1>2 DEF Sent, Quiescent
<1>4. Unique(p)
  BY DEF Unique, WellSpaced
<1>5. ASSUME NEW e \in Link, e[1] \in S, e[2] \in Server PROVE e[2] \in S
  <2>1. e = <<e[1], e[2]>> /\ e[1] \in Node /\ e[2] \in Node
    BY LinkAssumption
  <2>2. e[2] \notin p.to /\ e[2] # p.data.a
    BY <1>2, <1>5 DEF OpenNetwork
  <2>3. Covered(p, e[1], e[2])
    BY <1>1, <1>4, <1>5, <2>1, <2>2 DEF LinkCoverage
  <2>4. p.id \in received[e[2]]
    BY <2>2, <2>3 DEF Covered, Quiescent
  <2>5. p.id \in forwarded[e[2]]
    BY <1>1, <1>5, <2>4 DEF Relayed, Quiescent
  <2> QED BY <2>1, <2>5
<1> HIDE DEF S
<1>6. Server \subseteq S
  BY <1>2, <1>3, <1>5 DEF OpenNetwork
<1> QED BY <1>6 DEF S

\* So every server ends with the winner.
LEMMA Converged ==
    ASSUME TypeOK, CoverageInv, RecordsInv, ArrivalInv PROVE ServersConverge
<1> SUFFICES ASSUME OpenNetwork, Quiescent, worn = {}, WellSpaced,
                    NEW k \in Key, NEW s \in Server, PutsOf(k) # {}
             PROVE  store[s][k] = Winner(k)
  BY DEF ServersConverge
<1>1. PICK r \in PutsOf(k) : \A q \in PutsOf(k) : Prevails(r, q)
  BY DEF RecordsInv, BestExists
<1>2. Winner(k) \in PutsOf(k) /\ \A q \in PutsOf(k) : Prevails(Winner(k), q)
  BY <1>1 DEF Winner
<1> DEFINE w == Winner(k)
<1> HIDE DEF w
<1>3. PICK p \in issued : p.data = w /\ w \in Rec /\ w.k = k
  BY <1>2, PutsFacts DEF w
<1>4. ~Outdone(p)
  <2>1. SUFFICES ASSUME NEW q \in issued, k \in Frozen, q.data.k = k, q.data.a # w.a,
                        q.data.t <= w.t
                 PROVE  FALSE
    BY <1>3 DEF Outdone
  <2>2. q.data \in PutsOf(k) /\ q.data \in Rec
    BY <2>1 DEF PutsOf, TypeOK, PutCall
  <2>3. Prevails(w, q.data) /\ Prevails(q.data, w)
    BY <1>2, <1>3, <2>1, <2>2 DEF w, Prevails
  <2>4. q.data = w
    BY <1>2, <2>2, <2>3, PrevailsUnique DEF w
  <2> QED BY <2>1, <2>4
<1>5. p.id \in forwarded[s]
  BY <1>4, AllHandled
<1>6. store[s][k] # NoData /\ Prevails(store[s][k], w)
  BY <1>3, <1>5 DEF ArrivalInv, Arriving, Handled, Quiescent
<1>7. store[s][k] \in PutsOf(k)
  BY <1>6, ServerAssumption DEF RecordsInv, StoredPut
<1> QED BY <1>2, <1>6, <1>7, PrevailsUnique DEF w

(***************************************************************************)
(* Convergence of putData, for every open network, any numbers of puts and *)
(* any order in which they travel: when all has settled, every server has  *)
(* the winner of every key, if handlers do not overlap.                    *)
(***************************************************************************)
THEOREM Convergence == SerialSpec => []ServersConverge
<1>1. [SerialNext]_vars => [Next]_vars
  BY DEF SerialNext
<1>2. SerialSpec => []TypeOK /\ []CoverageInv
  BY <1>1, TypeCorrect, CoverageInvariant, PTL DEF SerialSpec, Spec
<1>3. Init => RecordsInv /\ SerialInv /\ ArrivalInv
  <2>1. Init => RecordsInv
    BY DEF Init, RecordsInv, CallsOK, StoredPut, BestExists, PutsOf
  <2> QED BY <2>1, SerialInit, ArrivalInit
<1>4. /\ TypeOK /\ CoverageInv /\ RecordsInv /\ SerialInv /\ ArrivalInv
      /\ [SerialNext]_vars
      => RecordsInv' /\ SerialInv' /\ ArrivalInv'
  BY <1>1, RecordsStep, SerialStep, ArrivalStep
<1>5. TypeOK /\ CoverageInv /\ RecordsInv /\ SerialInv /\ ArrivalInv => ServersConverge
  BY Converged
<1> QED BY <1>2, <1>3, <1>4, <1>5, PTL DEF SerialSpec

\* While handlers do not overlap, a server's record only gives way to a newer.
LEMMA NewerStep ==
    ASSUME TypeOK, CoverageInv, RecordsInv, SerialInv, [SerialNext]_vars,
           User \cap Server = {}, NEW n \in Server, NEW k \in Key \ Frozen, store[n][k] # NoData
    PROVE  store'[n][k].t >= store[n][k].t
<1>0. n \in Node /\ store[n][k].t \in Int
  BY ServerAssumption DEF TypeOK, Rec
<1>1. ASSUME NEW p \in signing, PutSigned(p) PROVE store'[n][k].t >= store[n][k].t
  <2>1. p.data.a \in User /\ p.data.a # n
    BY DEF CoverageInv, Origins, RecordsInv, CallsOK
  <2>2. store'[n][k] = store[n][k]
    BY <1>0, <1>1, <2>1 DEF PutSigned, TypeOK
  <2> QED BY <1>0, <2>2
<1>2. ASSUME NEW h \in comparing, Compare(h) PROVE store'[n][k].t >= store[n][k].t
  <2>0. h.node \in Node /\ h.data \in Rec
    BY DEF TypeOK, Comparing
  <2>1. CASE h.node = n /\ h.data.k = k /\ Replaces(h.old, h.data)
    <3>1. h.old = store[n][k]
      BY <2>1 DEF SerialInv, FreshReads
    <3>2. store'[n][k] = h.data
      BY <1>0, <1>2, <2>1 DEF Compare, TypeOK
    <3>3. h.data.t > store[n][k].t
      BY <2>1, <3>1 DEF Replaces, Conflict
    <3> QED BY <1>0, <2>0, <3>2, <3>3 DEF Rec
  <2>2. CASE ~(h.node = n /\ h.data.k = k /\ Replaces(h.old, h.data))
    <3>1. store'[n][k] = store[n][k]
      BY <1>0, <1>2, <2>0, <2>2 DEF Compare, TypeOK
    <3> QED BY <1>0, <3>1
  <2> QED BY <2>1, <2>2
<1>3. CASE UNCHANGED store
  BY <1>0, <1>3
<1> QED BY <1>1, <1>2, <1>3 DEF SerialNext, Next, System, Environment, Tick, Put, Receive,
        ReceiveDuplicate, Verified, Unverified, LinkDown, LinkUp, Restart, vars

(***************************************************************************)
(* handlePut's "Local data is newer" is kept by every server, if handlers  *)
(* do not overlap (run PutNewerWins shows that it is not if they do).      *)
(***************************************************************************)
THEOREM NewerWinsSerially ==
    ASSUME User \cap Server = {}
    PROVE  SerialSpec => NewerWins
<1>1. [SerialNext]_vars => [Next]_vars
  BY DEF SerialNext
<1>2. SerialSpec => []TypeOK /\ []CoverageInv
  BY <1>1, TypeCorrect, CoverageInvariant, PTL DEF SerialSpec, Spec
<1>3. Init => RecordsInv /\ SerialInv
  <2>1. Init => RecordsInv
    BY DEF Init, RecordsInv, CallsOK, StoredPut, BestExists, PutsOf
  <2> QED BY <2>1, SerialInit
<1>4. /\ TypeOK /\ CoverageInv /\ RecordsInv /\ SerialInv /\ [SerialNext]_vars
      => RecordsInv' /\ SerialInv'
  BY <1>1, RecordsStep, SerialStep
<1>5. /\ TypeOK /\ CoverageInv /\ RecordsInv /\ SerialInv /\ [SerialNext]_vars
      => [\A n \in Server, k \in Key \ Frozen :
             store[n][k] # NoData => store'[n][k].t >= store[n][k].t]_vars
  BY NewerStep
<1> QED BY <1>2, <1>3, <1>4, <1>5, PTL DEF SerialSpec, NewerWins
=============================================================================
