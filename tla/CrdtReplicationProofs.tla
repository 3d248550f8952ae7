----------------------- MODULE CrdtReplicationProofs -----------------------
(***************************************************************************)
(* Proofs about CrdtReplication, for every network of peers: its variables *)
(* keep their types, flooding loses no document (the invariant of          *)
(* PutReplicationProofs, and what is different of a call before it is      *)
(* signed), a stored document only grows, and documents put one by one are *)
(* merged by every server.                                                 *)
(***************************************************************************)
EXTENDS CrdtReplication, PutReplicationProofs

\* Calls have authors, and no two of them one author and one time.
CrdtCallsOK ==
    /\ CallsOK
    /\ \A p, q \in issued : p.data.a = q.data.a /\ p.data.t = q.data.t => p = q

\* Nothing is known of a call before it is signed.
Unsent ==
    \A p \in signing :
        /\ \A x \in net \cup verifying \cup comparing : x.id # p.id
        /\ \A n \in Node : p.id \notin forwarded[n] \cup received[n]
        /\ \A n, m \in Node : Hash(p.data) \notin outHashes[n][m]

\* A peer that compares a document has relayed it.
RelayedFirst == \A h \in comparing : h.id \in forwarded[h.node]

CrdtFlooding ==
    CoverageInv /\ CrdtCallsOK /\ Unsent /\ ReceivedOrigin /\ Sent /\ RelayedFirst

\* The steps of documents that are steps of records too.
LEMMA SharedSteps ==
    ASSUME CrdtTypeOK
    PROVE  /\ SharedStep => Next
           /\ \A n \in User, k \in Key, to \in Excluded : CrdtPut(n, k, to) => Next
<1>1. SharedStep => Next
  BY DEF SharedStep, Next, System, Environment
<1>2. ASSUME NEW n \in User, NEW k \in Key, NEW to \in Excluded, CrdtPut(n, k, to)
      PROVE  Next
  <2>1. Put(n, k, doc[n], to) /\ doc[n] \in Value
    BY <1>2, DocumentAssumption DEF CrdtPut, CrdtTypeOK
  <2> QED BY <2>1 DEF Next, Environment
<1> QED BY <1>1, <1>2

\* The call of toolDbCrdtPut, with the changes it sends.
Signed(p) == [p EXCEPT !.data = Current(p)]

\* What the signed call is, and what sending it changes.
LEMMA SignedCall ==
    ASSUME CrdtTypeOK, CoverageInv, CallsOK, NEW p \in signing, CrdtPutSigned(p)
    PROVE  /\ p \in issued /\ p \in PutCall /\ p.data.a \in User /\ p.data.a \in Node
           /\ Signed(p) \in PutCall /\ Signed(p).data = Current(p)
           /\ Signed(p).id = p.id /\ Signed(p).to = p.to /\ Current(p) \in Rec
           /\ Current(p).k = p.data.k /\ Current(p).a = p.data.a
           /\ Current(p).t = p.data.t /\ Current(p).v = doc[p.data.a]
           /\ signing' = signing \ {p}
           /\ issued' = (issued \ {p}) \cup {Signed(p)}
           /\ SendToAll(p.data.a, p.id, p.to, Current(p), FALSE)
           /\ UNCHANGED <<clock, store, verifying, comparing, kind, doc, unhurried,
                          processedIds, up, received, worn>>
<1>1. p \in issued /\ p \in PutCall /\ p.data.a \in User /\ p.data.a \in Node
  BY UserAssumption DEF CoverageInv, Origins, CallsOK, CrdtTypeOK, TypeOK
<1>2. p.data \in Rec /\ doc[p.data.a] \in Value
  BY <1>1, DocumentAssumption DEF PutCall, CrdtTypeOK
<1>3. /\ Current(p) \in Rec /\ Current(p).k = p.data.k /\ Current(p).a = p.data.a
      /\ Current(p).t = p.data.t /\ Current(p).v = doc[p.data.a]
  BY <1>2 DEF Current, Rec
<1>4. /\ Signed(p) \in PutCall /\ Signed(p).data = Current(p)
      /\ Signed(p).id = p.id /\ Signed(p).to = p.to
  BY <1>1, <1>3 DEF Signed, PutCall
<1>5. /\ signing' = signing \ {p}
      /\ issued' = (issued \ {p}) \cup {Signed(p)}
      /\ SendToAll(p.data.a, p.id, p.to, Current(p), FALSE)
      /\ UNCHANGED <<clock, store, verifying, comparing, kind, doc, unhurried>>
  BY DEF CrdtPutSigned, Signed
<1>6. UNCHANGED <<processedIds, up, received, worn>>
  BY <1>5 DEF SendToAll
<1> QED BY <1>1, <1>3, <1>4, <1>5, <1>6

\* A merge has every change, or one that is the same; of maps and lists it has all.
LEMMA MergeKeeps ==
    ASSUME NEW S \in SUBSET Change, NEW T \in SUBSET Change, NEW m \in MergesOf(S, T)
    PROVE  /\ m \in SUBSET Change /\ m \subseteq S \cup T
           /\ \A c \in S \cup T : \E d \in m : SameChange(c, d)
           /\ kind # "COUNTER" => m = S \cup T
<1>1. /\ m \subseteq S \cup T
      /\ \A c \in S \cup T : \E d \in m : SameChange(c, d)
  BY DEF MergesOf
<1>2. ASSUME kind # "COUNTER", NEW c \in S \cup T PROVE c \in m
  <2>1. PICK d \in m : SameChange(c, d)
    BY <1>1
  <2>2. c \in Change /\ d \in Change /\ c.a = d.a /\ c.i = d.i
    BY <1>1, <1>2, <2>1 DEF SameChange
  <2> QED BY <2>1, <2>2, DocumentAssumption
<1> QED BY <1>1, <1>2

\* The same of one change, of whatever sets.
LEMMA MergeHas ==
    ASSUME NEW S, NEW T, NEW m \in MergesOf(S, T), NEW c \in S \cup T
    PROVE  \E d \in m : SameChange(c, d)
BY DEF MergesOf

\* What a handler leaves is a document: the old one, or the new one merged.
LEMMA KeptType ==
    ASSUME NEW r \in Rec, NEW old \in Rec \cup {NoData}, Value = SUBSET Change,
           NEW x \in Kept(old, r)
    PROVE  /\ x \in Rec
           /\ old = NoData => x = r
           /\ old # NoData /\ x # old =>
                 old.t < r.t /\ x.t = r.t /\ x.v \in MergesOf(old.v, r.v)
           /\ /\ old # NoData /\ old.t < r.t /\ Computes(old.v)
              /\ \A m \in MergesOf(old.v, r.v) : Computes(m)
              => x.t = r.t /\ x.v \in MergesOf(old.v, r.v)
<1>1. CASE old # NoData /\ old.t < r.t /\ Computes(old.v)
  <2>1. old \in Rec /\ old.v \in SUBSET Change /\ r.v \in SUBSET Change
    BY <1>1 DEF Rec
  <2>2. PICK m \in MergesOf(old.v, r.v) :
            x = IF Computes(m) THEN [r EXCEPT !.v = m] ELSE old
    BY <1>1 DEF Kept
  <2>3. m \in Value
    BY <2>1, MergeKeeps
  <2>4. [r EXCEPT !.v = m] \in Rec /\ [r EXCEPT !.v = m].v = m /\ [r EXCEPT !.v = m].t = r.t
    BY <2>3 DEF Rec
  <2> QED BY <1>1, <2>1, <2>2, <2>4
<1>2. CASE ~(old # NoData /\ old.t < r.t /\ Computes(old.v))
  BY <1>2 DEF Kept
<1> QED BY <1>1, <1>2

\* handleCrdtPut writes one key of one peer.
LEMMA ComparedStore ==
    ASSUME CrdtTypeOK, NEW h \in comparing, CrdtCompare(h)
    PROVE  /\ h.node \in Node /\ h.data \in Rec /\ h.data.k \in Key
           /\ h.old \in Rec \cup {NoData}
           /\ \A n \in Node, k \in Key :
                 ~(n = h.node /\ k = h.data.k) => store'[n][k] = store[n][k]
           /\ h.old = store[h.node][h.data.k] =>
                 store'[h.node][h.data.k] \in Kept(h.old, h.data)
           /\ store' \in [Node -> [Key -> Rec \cup {NoData}]]
<1>1. /\ h.node \in Node /\ h.data \in Rec /\ h.data.k \in Key
      /\ h.old \in Rec \cup {NoData}
  BY DEF CrdtTypeOK, TypeOK, Comparing, Rec
<1>2. PICK r \in Kept(h.old, h.data) :
          store' = IF r = h.old THEN store ELSE [store EXCEPT ![h.node][h.data.k] = r]
  BY DEF CrdtCompare
<1>3. r \in Rec
  BY <1>1, KeptType, DocumentAssumption
<1>4. store \in [Node -> [Key -> Rec \cup {NoData}]]
  BY DEF CrdtTypeOK, TypeOK
<1> QED BY <1>1, <1>2, <1>3, <1>4

\* Every step keeps the types, if calls have authors.
LEMMA CrdtTypeStep ==
    ASSUME CrdtTypeOK, CoverageInv, CallsOK, [CrdtNext]_crdtVars
    PROVE  CrdtTypeOK'
<1>1. CASE SharedStep
  <2>1. TypeOK'
    BY <1>1, SharedSteps, TypeStep DEF CrdtTypeOK
  <2> QED BY <1>1, <2>1 DEF SharedStep, CrdtTypeOK
<1>2. ASSUME NEW n \in User, Edit(n) PROVE CrdtTypeOK'
  <2>1. UNCHANGED vars
    BY <1>2 DEF Edit
  <2>2. TypeOK'
    BY <2>1, TypeStep DEF CrdtTypeOK
  <2> QED BY <1>2, <2>2 DEF Edit, CrdtTypeOK
<1>7. ASSUME NEW n \in User, NEW k \in Key, CrdtGet(n, k) PROVE CrdtTypeOK'
  <2>1. PICK m \in Node : /\ store[m][k] # NoData
                          /\ doc' = [doc EXCEPT ![n] = @ \cup store[m][k].v]
    BY <1>7, ServerAssumption, UserAssumption DEF CrdtGet
  <2>2. store[m][k].v \subseteq Change
    BY <2>1, DocumentAssumption DEF CrdtTypeOK, TypeOK, Rec
  <2>3. UNCHANGED vars
    BY <1>7 DEF CrdtGet
  <2>4. TypeOK'
    BY <2>3, TypeStep DEF CrdtTypeOK
  <2> QED BY <1>7, <2>1, <2>2, <2>4 DEF CrdtGet, CrdtTypeOK
<1>3. ASSUME NEW n \in User, NEW k \in Key, NEW to \in Excluded, CrdtPut(n, k, to)
      PROVE  CrdtTypeOK'
  <2>1. TypeOK'
    BY <1>3, SharedSteps, TypeStep DEF CrdtTypeOK
  <2> QED BY <1>3, <2>1 DEF CrdtPut, CrdtTypeOK
<1>4. ASSUME NEW p \in signing, CrdtPutSigned(p) PROVE CrdtTypeOK'
  <2>1. /\ p \in PutCall /\ p.data.a \in Node /\ Signed(p) \in PutCall /\ Current(p) \in Rec
        /\ signing' = signing \ {p}
        /\ issued' = (issued \ {p}) \cup {Signed(p)}
        /\ SendToAll(p.data.a, p.id, p.to, Current(p), FALSE)
        /\ UNCHANGED <<clock, store, verifying, comparing, kind, doc, unhurried>>
    BY <1>4, SignedCall
  <2>2. NetworkTypeOK'
    BY <2>1, SendToAllType DEF PutCall, CrdtTypeOK
  <2> QED BY <2>1, <2>2 DEF CrdtTypeOK, TypeOK
<1>5. ASSUME NEW h \in comparing, CrdtCompare(h) PROVE CrdtTypeOK'
  <2>1. store' \in [Node -> [Key -> Rec \cup {NoData}]]
    BY <1>5, ComparedStore
  <2>2. /\ comparing' \subseteq comparing
        /\ UNCHANGED <<clock, signing, verifying, issued, networkVars, kind, doc, unhurried>>
    BY <1>5 DEF CrdtCompare
  <2>3. NetworkTypeOK'
    BY <2>2 DEF networkVars, NetworkTypeOK, CrdtTypeOK, TypeOK
  <2> QED BY <2>1, <2>2, <2>3 DEF CrdtTypeOK, TypeOK
<1>6. CASE UNCHANGED crdtVars
  <2>1. TypeOK'
    BY <1>6, TypeStep DEF crdtVars, CrdtTypeOK
  <2> QED BY <1>6, <2>1 DEF crdtVars, CrdtTypeOK
<1> QED BY <1>1, <1>2, <1>3, <1>4, <1>5, <1>6, <1>7 DEF CrdtNext
-----------------------------------------------------------------------------
\* A step that calls, starts, sends and relays nothing new.
LEMMA UnsentQuiet ==
    ASSUME CrdtFlooding, UNCHANGED <<issued, received, forwarded, signing>>,
           net' \subseteq net, verifying' \subseteq verifying,
           comparing' \subseteq comparing, clock' >= clock, clock \in Int, clock' \in Int,
           \A p \in issued : p.data.t \in Int,
           \A a, b \in Node : outHashes'[a][b] \subseteq outHashes[a][b],
           CoverageInv'
    PROVE  CrdtFlooding'
<1>1. Unsent' /\ ReceivedOrigin' /\ Sent' /\ RelayedFirst'
  BY DEF CrdtFlooding, Unsent, ReceivedOrigin, Sent, RelayedFirst
<1>2. CrdtCallsOK'
  BY ClockAssumption, UserAssumption DEF CrdtFlooding, CrdtCallsOK, CallsOK
<1> QED BY <1>1, <1>2 DEF CrdtFlooding

\* Two calls have two hashes, and an id of its own each.
LEMMA CallsDiffer ==
    ASSUME CrdtFlooding, NEW p \in issued, NEW q \in issued, p # q
    PROVE  p.id # q.id /\ Hash(p.data) # Hash(q.data)
BY DEF CrdtFlooding, CoverageInv, UniqueIds, CrdtCallsOK, Hash

\* A new call has a time of its own, and an id and a hash nobody has seen.
LEMMA CrdtPutFloods ==
    ASSUME CrdtTypeOK, CrdtFlooding, NEW n \in User, NEW k \in Key, NEW to \in Excluded,
           CrdtPut(n, k, to), CoverageInv'
    PROVE  CrdtFlooding'
<1>1. /\ Put(n, k, doc[n], to) /\ doc[n] \in Value
      /\ \A p \in issued : p.data.a = n => p.data.t # clock + Skew[n]
  BY DocumentAssumption DEF CrdtPut, CrdtTypeOK
<1>2. PICK call \in PutCall :
          /\ issued' = issued \cup {call} /\ signing' = signing \cup {call}
          /\ call.data \in Rec /\ call.data.a = n
          /\ call.data.t = clock + Skew[n] /\ call.to = to
          /\ \A p \in issued : p.id # call.id
          /\ UNCHANGED <<clock, store, verifying, comparing, net, outHashes,
                         received, forwarded>>
  BY <1>1, PutRecorded DEF CrdtTypeOK, networkVars
<1>3. /\ Origins /\ CrdtCallsOK /\ Unsent /\ ReceivedOrigin /\ Sent /\ RelayedFirst
      /\ clock \in Int
  BY DEF CrdtFlooding, CoverageInv, CrdtTypeOK, TypeOK
<1>4. CrdtCallsOK'
  <2>1. CallsOK'
    BY <1>2, <1>3, ClockAssumption, UserAssumption DEF CrdtCallsOK, CallsOK
  <2>2. \A p, q \in issued' : p.data.a = q.data.a /\ p.data.t = q.data.t => p = q
    BY <1>1, <1>2, <1>3 DEF CrdtCallsOK
  <2> QED BY <2>1, <2>2 DEF CrdtCallsOK
<1>5. \A x \in net \cup verifying \cup comparing : x.id # call.id
  BY <1>2, <1>3 DEF Origins, CallOf
<1>6. \A m \in Node : call.id \notin forwarded[m] \cup received[m]
  BY <1>2, <1>3 DEF Origins, ReceivedOrigin
<1>7. \A l, m \in Node : Hash(call.data) \notin outHashes[l][m]
  <2> SUFFICES ASSUME NEW q \in issued, Hash(q.data) = Hash(call.data) PROVE FALSE
    BY <1>3 DEF Origins
  <2> QED BY <1>1, <1>2 DEF Hash
<1>8. Unsent'
  <2> SUFFICES ASSUME NEW p \in signing'
               PROVE  /\ \A x \in net \cup verifying \cup comparing : x.id # p.id
                      /\ \A m \in Node : p.id \notin forwarded[m] \cup received[m]
                      /\ \A l, m \in Node : Hash(p.data) \notin outHashes[l][m]
    BY <1>2 DEF Unsent
  <2>1. CASE p = call
    BY <1>5, <1>6, <1>7, <2>1
  <2>2. CASE p \in signing
    BY <1>3, <2>2 DEF Unsent
  <2> QED BY <1>2, <2>1, <2>2
<1>9. ReceivedOrigin' /\ Sent' /\ RelayedFirst'
  BY <1>2, <1>3 DEF ReceivedOrigin, Sent, RelayedFirst
<1> QED BY <1>4, <1>8, <1>9 DEF CrdtFlooding

\* A message that arrives is of a call that was signed.
LEMMA CrdtReceiveFloods ==
    ASSUME CrdtTypeOK, CrdtFlooding, NEW x \in net, Receive(x), CoverageInv'
    PROVE  CrdtFlooding'
<1> DEFINE h == [node |-> x.dst, id |-> x.id, to |-> x.to \cup {x.src}, data |-> x.data,
                 ok |-> /\ ~InFuture(x.dst, x.data)
                        /\ ~CantOverwrite(store[x.dst][x.data.k], x.data)]
<1>1. /\ verifying' = verifying \cup {h} /\ h.id = x.id /\ net' \subseteq net
      /\ UNCHANGED <<clock, store, signing, comparing, issued, forwarded, outHashes>>
      /\ received' = [received EXCEPT ![x.dst] = @ \cup {x.id}]
  BY DEF Receive, Accept
<1> HIDE DEF h
<1>2. x.dst \in Node /\ \A n \in Node : received'[n] =
         IF n = x.dst THEN received[n] \cup {x.id} ELSE received[n]
  BY <1>1 DEF CrdtTypeOK, TypeOK, Message, NetworkTypeOK
<1>3. PICK p \in issued : p.id = x.id
  BY DEF CrdtFlooding, CoverageInv, Origins, CallOf
<1>4. ReceivedOrigin'
  BY <1>1, <1>2, <1>3 DEF CrdtFlooding, ReceivedOrigin
<1>5. \A q \in signing : q.id # x.id
  BY DEF CrdtFlooding, Unsent
<1>6. Unsent'
  BY <1>1, <1>2, <1>5 DEF CrdtFlooding, Unsent
<1>7. Sent' /\ RelayedFirst' /\ CrdtCallsOK'
  BY <1>1 DEF CrdtFlooding, Sent, RelayedFirst, CrdtCallsOK, CallsOK
<1> QED BY <1>4, <1>6, <1>7 DEF CrdtFlooding

\* A relay is of a call that was signed.
LEMMA CrdtVerifiedFloods ==
    ASSUME CrdtTypeOK, CrdtFlooding, NEW h \in verifying, Verified(h), CoverageInv'
    PROVE  CrdtFlooding'
<1> DEFINE c == [node |-> h.node, id |-> h.id, data |-> h.data,
                 old |-> store[h.node][h.data.k]]
           R == Recipients(h.node, h.to, Hash(h.data), TRUE)
           Copy(m) == [src |-> h.node, dst |-> m, id |-> h.id, to |-> h.to \cup {h.node},
                       data |-> h.data]
<1>1. /\ verifying' = verifying \ {h} /\ comparing' = comparing \cup {c}
      /\ c.node = h.node /\ c.id = h.id
      /\ UNCHANGED <<clock, store, signing, issued, received>>
      /\ forwarded' = [forwarded EXCEPT ![h.node] = @ \cup {h.id}]
      /\ net' = net \cup {Copy(m) : m \in R}
  BY DEF Verified, SendToAll
<1>2. \A a, b \in Node : outHashes'[a][b] \subseteq outHashes[a][b] \cup {Hash(h.data)}
  BY DEF Verified, SendToAll, CrdtTypeOK, TypeOK, NetworkTypeOK
<1>0. \A m : Copy(m).id = h.id
  OBVIOUS
<1> HIDE DEF c, R, Copy
<1>3. \A x \in net' : x \in net \/ x.id = h.id
  BY <1>1, <1>0
<1>4. h.node \in Node /\ \A n \in Node : forwarded'[n] =
         IF n = h.node THEN forwarded[n] \cup {h.id} ELSE forwarded[n]
  BY <1>1 DEF CrdtTypeOK, TypeOK, NetworkTypeOK, Verifying
<1>5. PICK p \in issued : p.id = h.id /\ p.data = h.data
  BY DEF CrdtFlooding, CoverageInv, Origins, CallOf
<1>6. \A q \in signing : q \in issued /\ q.id # h.id
  BY DEF CrdtFlooding, Unsent, CoverageInv, Origins
<1>7. \A q \in signing : Hash(q.data) # Hash(h.data)
  BY <1>5, <1>6, CallsDiffer
<1>8. Unsent'
  <2> SUFFICES ASSUME NEW q \in signing
               PROVE  /\ \A x \in net' \cup verifying' \cup comparing' : x.id # q.id
                      /\ \A n \in Node : q.id \notin forwarded'[n] \cup received[n]
                      /\ \A n, m \in Node : Hash(q.data) \notin outHashes'[n][m]
    BY <1>1 DEF Unsent
  <2>1. /\ \A x \in net \cup verifying \cup comparing : x.id # q.id
        /\ \A n \in Node : q.id \notin forwarded[n] \cup received[n]
        /\ \A n, m \in Node : Hash(q.data) \notin outHashes[n][m]
    BY DEF CrdtFlooding, Unsent
  <2>2. \A x \in net' \cup verifying' \cup comparing' : x.id # q.id
    BY <1>1, <1>3, <1>6, <2>1
  <2>3. \A n \in Node : q.id \notin forwarded'[n] \cup received[n]
    BY <1>4, <1>6, <2>1
  <2>4. \A n, m \in Node : Hash(q.data) \notin outHashes'[n][m]
    BY <1>2, <1>7, <2>1
  <2> QED BY <2>2, <2>3, <2>4
<1>9. ReceivedOrigin' /\ CrdtCallsOK'
  BY <1>1 DEF CrdtFlooding, ReceivedOrigin, CrdtCallsOK, CallsOK
<1>10. Sent' /\ RelayedFirst'
  <2>1. \A q \in issued : q.data.a \in Node
    BY DEF CrdtTypeOK, TypeOK, PutCall, Rec
  <2>2. \A g \in comparing : g.node \in Node
    BY DEF CrdtTypeOK, TypeOK, Comparing
  <2> QED BY <1>1, <1>4, <2>1, <2>2 DEF CrdtFlooding, Sent, RelayedFirst
<1> QED BY <1>8, <1>9, <1>10 DEF CrdtFlooding

(***************************************************************************)
(* The author sends the changes its document has by now: the record of the *)
(* call changes before anybody has heard of it.                            *)
(***************************************************************************)
LEMMA CrdtPutSignedFloods ==
    ASSUME CrdtTypeOK, CrdtFlooding, NEW p \in signing, CrdtPutSigned(p)
    PROVE  CrdtFlooding'
<1>0. PICK n, s : n = p.data.a /\ s = Signed(p)
  OBVIOUS
<1> DEFINE R == Recipients(n, p.to, Hash(Current(p)), FALSE)
           Copy(m) == [src |-> n, dst |-> m, id |-> p.id, to |-> p.to \cup {n},
                       data |-> Current(p)]
<1>1. /\ UniqueIds /\ Origins /\ Trail /\ Receipts
      /\ HashesCovered /\ UnwornIsUp /\ LinkCoverage
      /\ CrdtCallsOK /\ Unsent /\ ReceivedOrigin /\ Sent /\ RelayedFirst
  BY DEF CrdtFlooding, CoverageInv
<1>2. /\ p \in issued /\ n \in User /\ n \in Node
      /\ s.data = Current(p) /\ s.id = p.id /\ s.to = p.to /\ Current(p).a = n
      /\ Current(p).t = p.data.t
      /\ signing' = signing \ {p} /\ issued' = (issued \ {p}) \cup {s}
      /\ SendToAll(n, p.id, p.to, Current(p), FALSE)
      /\ UNCHANGED <<clock, store, verifying, comparing, processedIds, up, received, worn>>
  BY <1>0, SignedCall DEF CrdtFlooding, CrdtCallsOK
<1>3. /\ \A x \in net \cup verifying \cup comparing : x.id # p.id
      /\ \A m \in Node : p.id \notin forwarded[m] \cup received[m]
      /\ \A l, m \in Node : Hash(p.data) \notin outHashes[l][m]
  BY <1>1 DEF Unsent
<1>4. /\ net' = net \cup {Copy(m) : m \in R}
      /\ forwarded' = [forwarded EXCEPT ![n] = @ \cup {p.id}]
      /\ R \subseteq Node
  BY <1>2 DEF SendToAll, Recipients
<1>5. \A a, b \in Node : \A h \in outHashes'[a][b] :
         h \in outHashes[a][b] \/ (h = Hash(Current(p)) /\ a = n /\ b \in R)
  BY <1>2 DEF SendToAll, CrdtTypeOK, TypeOK, NetworkTypeOK
<1>6. \A a \in Node : forwarded'[a] =
         IF a = n THEN forwarded[a] \cup {p.id} ELSE forwarded[a]
  BY <1>4 DEF CrdtTypeOK, TypeOK, NetworkTypeOK
<1>7. \A m : Copy(m).id = p.id /\ Copy(m).to = p.to \cup {n} /\ Copy(m).src = n
             /\ Copy(m).dst = m /\ CallOf(s, Copy(m))
  BY <1>2 DEF CallOf
<1>8. \A m \in Node : <<n, m>> \in up /\ m \notin p.to \cup {n}
                      /\ Hash(Current(p)) \notin outHashes[n][m] => m \in R
  BY DEF Recipients
<1> HIDE DEF R, Copy
<1>9. \A q \in issued \ {p} : q \in issued' /\ q.id # p.id /\ q # s
                              /\ Hash(q.data) # Hash(Current(p))
  <2> SUFFICES ASSUME NEW q \in issued \ {p}
               PROVE  q.id # p.id /\ Hash(q.data) # Hash(Current(p))
    BY <1>2
  <2>1. q.id # p.id
    BY <1>1, <1>2 DEF UniqueIds
  <2>2. ~(q.data.a = p.data.a /\ q.data.t = p.data.t)
    BY <1>1, <1>2 DEF CrdtCallsOK
  <2> QED BY <1>0, <1>2, <2>1, <2>2 DEF Hash
<1>10. \A l, m \in Node : Hash(Current(p)) \notin outHashes[l][m]
  <2> SUFFICES ASSUME NEW l \in Node, NEW m \in Node,
                      Hash(Current(p)) \in outHashes[l][m]
               PROVE  FALSE
    OBVIOUS
  <2>1. PICK q \in issued : Hash(q.data) = Hash(Current(p))
    BY <1>1 DEF Origins
  <2> QED BY <1>3, <1>9, <2>1
<1>11. \A x \in net \cup verifying \cup comparing : \E q \in issued \ {p} : CallOf(q, x)
  BY <1>1, <1>3 DEF Origins, CallOf
<1>12. \A x \in net' : x \in net \/ \E m \in R : x = Copy(m)
  BY <1>4
<1>13. UniqueIds'
  BY <1>1, <1>2, <1>9 DEF UniqueIds
<1>14. Origins'
  <2>1. signing' \subseteq issued'
    BY <1>1, <1>2 DEF Origins
  <2>2. \A x \in net' \cup verifying' \cup comparing' : \E q \in issued' : CallOf(q, x)
    BY <1>2, <1>7, <1>9, <1>11, <1>12
  <2>3. \A a \in Node : \A i \in forwarded'[a] : \E q \in issued' : q.id = i
    BY <1>1, <1>2, <1>6, ZenonT(30) DEF Origins
  <2>4. \A a, b \in Node : \A h \in outHashes'[a][b] : \E q \in issued' : Hash(q.data) = h
    <3> SUFFICES ASSUME NEW a \in Node, NEW b \in Node, NEW h \in outHashes'[a][b]
                 PROVE  \E q \in issued' : Hash(q.data) = h
      OBVIOUS
    <3>1. CASE h \in outHashes[a][b]
      <4>1. PICK q \in issued : Hash(q.data) = h
        BY <1>1, <3>1 DEF Origins
      <4>2. q # p
        BY <1>3, <3>1, <4>1
      <4> QED BY <1>9, <4>1, <4>2
    <3>2. CASE h \notin outHashes[a][b]
      <4>1. h = Hash(s.data) /\ s \in issued'
        BY <1>2, <1>5, <3>2
      <4> QED BY <4>1
    <3> QED BY <3>1, <3>2
  <2> QED BY <2>1, <2>2, <2>3, <2>4 DEF Origins, CallOf
<1>15. Trail'
  <2> SUFFICES ASSUME NEW q \in issued', NEW x \in net' \cup verifying, q.id = x.id,
                      NEW y \in x.to
               PROVE  Visited(q, y)'
    BY <1>2 DEF Trail
  <2>1. CASE x \in net \cup verifying
    <3>1. q # s
      BY <1>2, <1>3, <2>1
    <3>2. Visited(q, y)
      BY <1>1, <1>2, <2>1, <3>1 DEF Trail
    <3> QED BY <1>2, <3>2 DEF Visited
  <2>2. CASE x \notin net \cup verifying
    <3>1. x.id = p.id /\ x.to = p.to \cup {n}
      BY <1>7, <1>12, <2>2
    <3>2. q = s
      BY <1>2, <1>9, <3>1
    <3> QED BY <1>2, <3>1, <3>2 DEF Visited
  <2> QED BY <2>1, <2>2
<1>16. Receipts'
  BY <1>1, <1>2, <1>7, <1>12 DEF Receipts
<1>17. \A q, a, b : Covered(q, a, b) => Covered(q, a, b)'
  BY <1>2, <1>4 DEF Covered
<1>18. \A m \in R : Covered(s, n, m)'
  <2> SUFFICES ASSUME NEW m \in R PROVE Covered(s, n, m)'
    OBVIOUS
  <2>1. Copy(m) \in net'
    BY <1>4
  <2> QED BY <1>2, <1>7, <2>1 DEF Covered
<1>19. \A q \in issued \ {p} : Unique(q)
  BY CallsDiffer DEF Unique
<1>20. HashesCovered'
  <2> SUFFICES ASSUME NEW q \in issued', NEW a \in Node, NEW b \in Node,
                      Hash(q.data) \in outHashes'[a][b], <<a, b>> \in Link \ worn
               PROVE  Covered(q, a, b)'
    BY <1>2 DEF HashesCovered
  <2>1. CASE q = s
    <3>1. a = n /\ b \in R
      BY <1>2, <1>5, <1>10, <2>1
    <3> QED BY <1>18, <2>1, <3>1
  <2>2. CASE q # s
    <3>1. q \in issued \ {p} /\ Hash(q.data) \in outHashes[a][b]
      BY <1>2, <1>5, <1>9, <2>2
    <3> QED BY <1>1, <1>17, <1>19, <3>1 DEF HashesCovered
  <2> QED BY <2>1, <2>2
<1>21. LinkCoverage'
  <2> SUFFICES ASSUME NEW q \in issued', NEW a \in Node, q.id \in forwarded'[a],
                      NEW m \in Server, <<a, m>> \in Link \ worn, m \notin q.to
               PROVE  Covered(q, a, m)'
    BY <1>2 DEF LinkCoverage
  <2>0. m \in Node
    BY ServerAssumption
  <2>1. CASE q = s
    <3>1. a = n
      BY <1>2, <1>3, <1>6, <2>1
    <3>2. CASE m = n
      BY <1>2, <2>1, <3>2 DEF Covered
    <3>3. CASE m # n
      <4>1. m \in R
        BY <1>1, <1>2, <1>8, <1>10, <2>0, <2>1, <3>1, <3>3 DEF UnwornIsUp
      <4> QED BY <1>18, <2>1, <3>1, <4>1
    <3> QED BY <3>2, <3>3
  <2>2. CASE q # s
    <3>1. q \in issued \ {p} /\ q.id \in forwarded[a]
      BY <1>2, <1>6, <1>9, <2>2
    <3> QED BY <1>1, <1>17, <1>19, <3>1 DEF LinkCoverage
  <2> QED BY <2>1, <2>2
<1>22. UnwornIsUp'
  BY <1>1, <1>2 DEF UnwornIsUp
<1>23. CrdtCallsOK'
  <2>1. CallsOK'
    BY <1>0, <1>1, <1>2 DEF CrdtCallsOK, CallsOK
  <2>2. \A q, r \in issued' : q.data.a = r.data.a /\ q.data.t = r.data.t => q = r
    BY <1>0, <1>1, <1>2 DEF CrdtCallsOK
  <2> QED BY <2>1, <2>2 DEF CrdtCallsOK
<1>24. Unsent'
  <2> SUFFICES ASSUME NEW q \in signing \ {p}
               PROVE  /\ \A x \in net' \cup verifying \cup comparing : x.id # q.id
                      /\ \A m \in Node : q.id \notin forwarded'[m] \cup received[m]
                      /\ \A l, m \in Node : Hash(q.data) \notin outHashes'[l][m]
    BY <1>2 DEF Unsent
  <2>1. q.id # p.id /\ Hash(q.data) # Hash(Current(p))
    BY <1>1, <1>9 DEF Origins
  <2>2. /\ \A x \in net \cup verifying \cup comparing : x.id # q.id
        /\ \A m \in Node : q.id \notin forwarded[m] \cup received[m]
        /\ \A l, m \in Node : Hash(q.data) \notin outHashes[l][m]
    BY <1>1 DEF Unsent
  <2>3. \A x \in net' \cup verifying \cup comparing : x.id # q.id
    BY <1>7, <1>12, <2>1, <2>2
  <2>4. \A m \in Node : q.id \notin forwarded'[m] \cup received[m]
    BY <1>6, <2>1, <2>2
  <2>5. \A l, m \in Node : Hash(q.data) \notin outHashes'[l][m]
    BY <1>5, <2>1, <2>2
  <2> QED BY <2>3, <2>4, <2>5
<1>25. ReceivedOrigin'
  BY <1>1, <1>2, <1>3, <1>9 DEF ReceivedOrigin
<1>26. Sent'
  <2>1. \A q \in issued : q.data.a \in Node
    BY DEF CrdtTypeOK, TypeOK, PutCall, Rec
  <2> QED BY <1>0, <1>1, <1>2, <1>6, <2>1, ZenonT(30) DEF Sent
<1>27. RelayedFirst'
  <2>1. \A g \in comparing : g.node \in Node
    BY DEF CrdtTypeOK, TypeOK, Comparing
  <2> QED BY <1>1, <1>2, <1>6, <2>1 DEF RelayedFirst
<1> QED BY <1>13, <1>14, <1>15, <1>16, <1>20, <1>21, <1>22, <1>23, <1>24, <1>25, <1>26, <1>27
        DEF CrdtFlooding, CoverageInv

\* Every step keeps CrdtFlooding.
LEMMA CrdtFloodingStep ==
    ASSUME CrdtTypeOK, CrdtFlooding, [CrdtNext]_crdtVars
    PROVE  CrdtFlooding'
<1>0. /\ TypeOK /\ CoverageInv /\ clock \in Int /\ clock >= clock
      /\ \A p \in issued : p.data.t \in Int /\ p.data.a \in User
      /\ Link \ worn \subseteq up
  BY DEF CrdtTypeOK, TypeOK, PutCall, Rec, CrdtFlooding, CrdtCallsOK, CallsOK,
         CoverageInv, UnwornIsUp
<1>1. CASE SharedStep
  <2>1. CoverageInv'
    BY <1>0, <1>1, SharedSteps, CoverageStep
  <2>2. CASE Tick
    <3>1. clock' >= clock /\ clock' \in Int
      BY <1>0, <2>2 DEF Tick
    <3>2. UNCHANGED <<signing, verifying, comparing, issued, networkVars>>
      BY <2>2 DEF Tick
    <3> QED BY <1>0, <2>1, <3>1, <3>2, UnsentQuiet DEF networkVars
  <2>3. ASSUME NEW x \in net, Receive(x) PROVE CrdtFlooding'
    BY <2>1, <2>3, CrdtReceiveFloods
  <2>4. ASSUME NEW h \in verifying, Verified(h) PROVE CrdtFlooding'
    BY <2>1, <2>4, CrdtVerifiedFloods
  <2>5. CASE \/ \E x \in net : ReceiveDuplicate(x)
             \/ \E h \in verifying : Unverified(h)
             \/ \E e \in Fragile : LinkDown(e[1], e[2])
    <3>1. /\ UNCHANGED <<clock, issued, received, forwarded, signing, outHashes>>
          /\ net' \subseteq net /\ verifying' \subseteq verifying
          /\ comparing' \subseteq comparing
      BY <2>5 DEF ReceiveDuplicate, Drop, Unverified, LinkDown, Disconnect, networkVars
    <3> QED BY <1>0, <2>1, <3>1, UnsentQuiet
  <2>6. ASSUME NEW e \in Link, LinkUp(e[1], e[2]) PROVE CrdtFlooding'
    <3>1. \A a, b \in Node : outHashes'[a][b] \subseteq outHashes[a][b]
      BY <1>0, <2>6, LinkAssumption DEF LinkUp, Connect, TypeOK, NetworkTypeOK
    <3>2. UNCHANGED <<clock, issued, received, forwarded, signing, net, verifying, comparing>>
      BY <2>6 DEF LinkUp, Connect
    <3> QED BY <1>0, <2>1, <3>1, <3>2, UnsentQuiet
  <2>7. ASSUME NEW n \in Mortal \ User, Restart(n) PROVE CrdtFlooding'
    <3>1. \A a, b \in Node : outHashes'[a][b] \subseteq outHashes[a][b]
      BY <1>0, <2>7, FaultAssumption DEF Restart, Crash, TypeOK, NetworkTypeOK
    <3>2. signing \subseteq issued
      BY <1>0 DEF CoverageInv, Origins
    <3>3. /\ UNCHANGED <<clock, issued, received, forwarded, signing>>
          /\ net' \subseteq net /\ verifying' \subseteq verifying
          /\ comparing' \subseteq comparing
      BY <1>0, <2>7, <3>2 DEF Restart, Crash
    <3> QED BY <1>0, <2>1, <3>1, <3>3, UnsentQuiet
  <2> QED BY <1>1, <2>2, <2>3, <2>4, <2>5, <2>6, <2>7 DEF SharedStep
<1>2. ASSUME NEW n \in User, NEW k \in Key, NEW to \in Excluded, CrdtPut(n, k, to)
      PROVE  CrdtFlooding'
  <2>1. CoverageInv'
    BY <1>0, <1>2, SharedSteps, CoverageStep
  <2> QED BY <1>2, <2>1, CrdtPutFloods
<1>3. ASSUME NEW p \in signing, CrdtPutSigned(p) PROVE CrdtFlooding'
  BY <1>3, CrdtPutSignedFloods
<1>4. CASE \/ \E n \in User : Edit(n)
           \/ \E n \in User, k \in Key : CrdtGet(n, k)
           \/ \E h \in comparing : CrdtCompare(h)
           \/ UNCHANGED crdtVars
  <2>1. /\ UNCHANGED <<clock, issued, received, forwarded, signing, net, processedIds,
                       outHashes, up, worn, verifying>>
        /\ comparing' \subseteq comparing
    BY <1>4 DEF Edit, CrdtGet, CrdtCompare, crdtVars, vars, networkVars
  <2>2. CoverageInv'
    BY <1>0, <2>1, QuietStep
  <2> QED BY <1>0, <2>1, <2>2, UnsentQuiet
<1> QED BY <1>1, <1>2, <1>3, <1>4 DEF CrdtNext

\* Nothing has been put.
LEMMA CrdtStart == CrdtInit => CrdtTypeOK /\ CrdtFlooding
<1> SUFFICES ASSUME CrdtInit PROVE CrdtTypeOK /\ CrdtFlooding
  OBVIOUS
<1>1. TypeOK
  BY ClockAssumption DEF CrdtInit, Init, NetworkInit, TypeOK, NetworkTypeOK
<1>2. CrdtTypeOK
  BY <1>1 DEF CrdtInit, CrdtTypeOK
<1>3. CoverageInv
  BY LinkAssumption DEF CrdtInit, Init, NetworkInit, CoverageInv, UniqueIds, Origins, Trail,
                        Receipts, HashesCovered, UnwornIsUp, LinkCoverage
<1>4. CrdtCallsOK /\ Unsent /\ ReceivedOrigin /\ Sent /\ RelayedFirst
  BY DEF CrdtInit, Init, NetworkInit, CrdtCallsOK, CallsOK, Unsent, ReceivedOrigin, Sent,
         RelayedFirst
<1> QED BY <1>2, <1>3, <1>4 DEF CrdtFlooding

(***************************************************************************)
(* The invariant of flooding holds of documents too, though the record of  *)
(* a call changes while it is signed.                                      *)
(***************************************************************************)
LEMMA CrdtFloods == CrdtSerialSpec => [](CrdtTypeOK /\ CrdtFlooding)
<1>1. CrdtTypeOK /\ CrdtFlooding /\ [CrdtSerialNext]_crdtVars => CrdtTypeOK' /\ CrdtFlooding'
  BY CrdtTypeStep, CrdtFloodingStep DEF CrdtSerialNext, CrdtFlooding, CrdtCallsOK
<1> QED BY <1>1, CrdtStart, PTL DEF CrdtSerialSpec

(***************************************************************************)
(* Type correctness of CrdtReplication: what is merged, sent and stored    *)
(* under the key of a document is always a set of changes.                 *)
(***************************************************************************)
THEOREM CrdtTyped == CrdtSerialSpec => []CrdtTypeOK
BY CrdtFloods, PTL

(***************************************************************************)
(* Flooding loses no document either: once a user has sent the changes of  *)
(* its document, or a peer has relayed them, every server at the other end *)
(* of a connection that never broke has them or has them on the way.       *)
(***************************************************************************)
THEOREM DocumentsCovered == CrdtSerialSpec => []LinkCoverage
<1>1. CrdtFlooding => LinkCoverage
  BY DEF CrdtFlooding, CoverageInv
<1> QED BY <1>1, CrdtFloods, PTL
-----------------------------------------------------------------------------
\* A handler that is alone in its peer merges with what the store holds: users
\* do not store what they put.
MergeReads == \A h \in comparing : h.old = store[h.node][h.data.k]

Alone == OneHandler /\ MergeReads

\* A step that starts no handler and writes nothing.
LEMMA AloneQuiet ==
    ASSUME Alone, UNCHANGED store, verifying' \subseteq verifying, comparing' \subseteq comparing
    PROVE  Alone'
<1>1. \A n : Verifiers(n)' \subseteq Verifiers(n) /\ Comparers(n)' \subseteq Comparers(n)
  BY DEF Verifiers, Comparers
<1>2. OneHandler'
  BY <1>1 DEF Alone, OneHandler, AtMostOne
<1>3. MergeReads'
  BY DEF Alone, MergeReads
<1> QED BY <1>2, <1>3 DEF Alone

\* The handler that merges is the only one of its peer.
LEMMA AloneCompare ==
    ASSUME CrdtTypeOK, Alone, NEW h \in comparing, CrdtCompare(h)
    PROVE  Alone' /\ \A c \in comparing' : c.node # h.node
<1>1. /\ comparing' = comparing \ {h} /\ verifying' = verifying /\ h.node \in Node
      /\ \A n \in Node, k \in Key : n # h.node => store'[n][k] = store[n][k]
  BY ComparedStore DEF CrdtCompare
<1>2. \A c \in comparing' : c.node # h.node /\ c.node \in Node /\ c.data.k \in Key
  BY <1>1 DEF Alone, OneHandler, AtMostOne, Comparers, CrdtTypeOK, TypeOK, Comparing, Rec
<1>3. MergeReads'
  BY <1>1, <1>2 DEF Alone, MergeReads
<1>4. \A n : Verifiers(n)' \subseteq Verifiers(n) /\ Comparers(n)' \subseteq Comparers(n)
  BY <1>1 DEF Verifiers, Comparers
<1>5. OneHandler'
  BY <1>4 DEF Alone, OneHandler, AtMostOne
<1> QED BY <1>2, <1>3, <1>5 DEF Alone

\* Every step in which handlers do not begin to overlap.
LEMMA AloneStep ==
    ASSUME CrdtTypeOK, Alone, [CrdtSerialNext]_crdtVars PROVE Alone'
<1>0. SerialInv /\ TypeOK
  BY DEF Alone, MergeReads, SerialInv, FreshReads, CrdtTypeOK
<1>1. ASSUME NEW x \in net, Receive(x), Serially PROVE Alone'
  <2>1. SerialInv'
    BY <1>0, <1>1, SerialReceive
  <2>2. MergeReads'
    BY <1>1 DEF Receive, Alone, MergeReads
  <2> QED BY <2>1, <2>2 DEF SerialInv, Alone
<1>2. ASSUME NEW h \in verifying, Verified(h) PROVE Alone'
  <2>1. SerialInv'
    BY <1>0, <1>2, SerialVerified
  <2>2. MergeReads'
    BY <1>2 DEF Verified, Alone, MergeReads
  <2> QED BY <2>1, <2>2 DEF SerialInv, Alone
<1>3. ASSUME NEW h \in comparing, CrdtCompare(h) PROVE Alone'
  BY <1>3, AloneCompare
<1>4. CASE \/ Tick
           \/ \E x \in net : ReceiveDuplicate(x)
           \/ \E h \in verifying : Unverified(h)
           \/ \E e \in Fragile : LinkDown(e[1], e[2])
           \/ \E e \in Link : LinkUp(e[1], e[2])
           \/ \E n \in Mortal \ User : Restart(n)
           \/ \E n \in User : Edit(n)
           \/ \E n \in User, k \in Key : CrdtGet(n, k)
           \/ \E n \in User, k \in Key, to \in Excluded : CrdtPut(n, k, to)
           \/ \E p \in signing : CrdtPutSigned(p)
           \/ UNCHANGED crdtVars
  <2>1. store' = store /\ verifying' \subseteq verifying /\ comparing' \subseteq comparing
    BY <1>4 DEF Tick, ReceiveDuplicate, Unverified, LinkDown, LinkUp, Restart, Edit,
                CrdtGet, CrdtPut, Put, CrdtPutSigned, crdtVars, vars
  <2> QED BY <2>1, AloneQuiet
<1> QED BY <1>1, <1>2, <1>3, <1>4 DEF CrdtSerialNext, CrdtNext, SharedStep

\* A change of a stored document is there after a step, or of a counter one like it.
GrowsTo(V, W) ==
    \A c \in V : \E d \in W : SameChange(c, d) /\ (kind # "COUNTER" => c = d)

LEMMA GrowsMerge ==
    ASSUME NEW S \in SUBSET Change, NEW T \in SUBSET Change, NEW m \in MergesOf(S, T)
    PROVE  GrowsTo(S, m)
<1> SUFFICES ASSUME NEW c \in S
             PROVE  \E d \in m : SameChange(c, d) /\ (kind # "COUNTER" => c = d)
  BY DEF GrowsTo
<1>0. /\ \A x \in S \cup T : \E d \in m : SameChange(x, d)
      /\ kind # "COUNTER" => m = S \cup T
  <2>1. \A x \in S \cup T : \E d \in m : SameChange(x, d)
    BY MergeHas
  <2>2. kind # "COUNTER" => m = S \cup T
    BY MergeKeeps
  <2> QED BY <2>1, <2>2
<1>1. CASE kind = "COUNTER"
  <2>1. PICK d \in m : SameChange(c, d)
    BY <1>0
  <2> QED BY <1>1, <2>1
<1>2. CASE kind # "COUNTER"
  <2>1. c \in m
    BY <1>0, <1>2
  <2> QED BY <2>1 DEF SameChange
<1> QED BY <1>1, <1>2

\* Only a merge writes the store, and it keeps what it merges with.
LEMMA GrowStep ==
    ASSUME CrdtTypeOK, Alone, [CrdtNext]_crdtVars, NEW n \in Node, NEW k \in Key,
           store[n][k] # NoData
    PROVE  GrowsTo(store[n][k].v, store'[n][k].v)
<1>0. \A V : GrowsTo(V, V)
  BY DEF GrowsTo, SameChange
<1>1. ASSUME NEW h \in comparing, CrdtCompare(h)
      PROVE  GrowsTo(store[n][k].v, store'[n][k].v)
  <2>1. CASE n = h.node /\ k = h.data.k
    <3>1. h.old = store[n][k]
      BY <2>1 DEF Alone, MergeReads
    <3>2. store'[n][k] \in Kept(h.old, h.data) /\ h.data \in Rec /\ h.old \in Rec \cup {NoData}
      BY <1>1, <2>1, <3>1, ComparedStore
    <3>3. h.old.v \in SUBSET Change /\ h.data.v \in SUBSET Change
      BY <3>1, <3>2, DocumentAssumption DEF Rec
    <3>4. CASE store'[n][k] = h.old
      BY <1>0, <3>1, <3>4
    <3>5. CASE store'[n][k] # h.old
      <4>1. store'[n][k].v \in MergesOf(h.old.v, h.data.v)
        BY <3>1, <3>2, <3>5, KeptType, DocumentAssumption
      <4> QED BY <3>1, <3>3, <4>1, GrowsMerge
    <3> QED BY <3>4, <3>5
  <2>2. CASE ~(n = h.node /\ k = h.data.k)
    BY <1>0, <1>1, <2>2, ComparedStore
  <2> QED BY <2>1, <2>2
<1>2. CASE UNCHANGED store
  BY <1>0, <1>2
<1> QED BY <1>1, <1>2 DEF CrdtNext, SharedStep, Tick, Receive, ReceiveDuplicate, Verified,
        Unverified, LinkDown, LinkUp, Restart, Edit, CrdtGet, CrdtPut, Put, CrdtPutSigned,
        crdtVars, vars

(***************************************************************************)
(* Stored documents only grow, if handlers do not overlap: handleCrdtPut   *)
(* never takes a change of a map or a list away, in any peer and in        *)
(* whatever order documents arrive; of a counter it may keep another       *)
(* user's change in its place, which its merge takes for the same.         *)
(***************************************************************************)
THEOREM DocumentsOnlyGrow == CrdtSerialSpec => DocumentsGrow
<1>1. CrdtInit => Alone
  BY SerialInit DEF CrdtInit, Init, Alone, MergeReads, SerialInv
<1>2. [CrdtSerialNext]_crdtVars => [CrdtNext]_crdtVars
  BY DEF CrdtSerialNext
<1>3. CrdtTypeOK /\ Alone /\ [CrdtSerialNext]_crdtVars
      => Alone' /\ [\A n \in Node, k \in Key :
            store[n][k] # NoData =>
                \A c \in store[n][k].v : \E d \in store'[n][k].v :
                    SameChange(c, d) /\ (kind # "COUNTER" => c = d)]_crdtVars
  BY <1>2, AloneStep, GrowStep DEF GrowsTo
<1> QED BY <1>1, <1>3, CrdtFloods, PTL DEF CrdtSerialSpec, DocumentsGrow
-----------------------------------------------------------------------------
(***************************************************************************)
(* Puts one by one: if each was called when nothing was under way, by      *)
(* users with equal clocks, what is under way is of the last call.         *)
(***************************************************************************)
EqualClocks == \A n, m \in User : Skew[n] = Skew[m]

LastUnderWay ==
    \A x \in signing \cup net \cup verifying \cup comparing : \A q \in issued :
        q.data.t <= x.data.t

OneByOne == unhurried /\ EqualClocks => LastUnderWay

(***************************************************************************)
(* While no connection of an open network broke, every server accepts each *)
(* call (JudgedWell), relays it (RelayedWell) once (RelayedOnce), and the  *)
(* document it holds has the changes of the calls it has merged, and the   *)
(* time of one of them (MergedAll).                                        *)
(***************************************************************************)
JudgedWell == \A h \in verifying : h.node \in Server /\ h.data.k \notin Frozen => h.ok

RelayedWell ==
    \A p \in issued, s \in Server : p.data.k \notin Frozen /\ p.id \in received[s] =>
        p.id \in forwarded[s] \/ \E h \in verifying : h.node = s /\ h.id = p.id

RelayedOnce ==
    /\ \A s \in Server : forwarded[s] \subseteq received[s] /\ received[s] \subseteq processedIds[s]
    /\ \A h \in verifying : h.node \in Server => h.id \notin forwarded[h.node]

\* The calls for key k that server s has merged.
Merged(s, k) ==
    {p \in issued : /\ p.data.k = k /\ p.id \in forwarded[s]
                    /\ \A h \in comparing : ~(h.node = s /\ h.id = p.id)}

\* The changes V are all of U, or of a counter one of each that are the same.
Represents(V, U) ==
    /\ V \subseteq U
    /\ \A c \in U : \E d \in V : SameChange(c, d)
    /\ kind # "COUNTER" => V = U

\* What server s holds for key k is the union of the calls in S.
HoldsUnion(s, k, S) ==
    /\ store[s][k] = NoData => S = {}
    /\ store[s][k] # NoData => /\ Represents(store[s][k].v, UNION {p.data.v : p \in S})
                               /\ \E q \in S : store[s][k].t = q.data.t

\* Calls have times of their own, and none that was sent throws at its user.
WellPut == DistinctTimes /\ \A p \in issued \ signing : Computes(p.data.v)

MergedAll == \A s \in Server, k \in Key \ Frozen : HoldsUnion(s, k, Merged(s, k))

Merging ==
    OpenNetwork /\ worn = {} =>
        /\ JudgedWell /\ RelayedWell /\ RelayedOnce
        /\ (unhurried /\ EqualClocks /\ WellPut => MergedAll)

\* What is the same, and what throws, depends on the kind of documents only.
LEMMA KindKept ==
    ASSUME UNCHANGED kind
    PROVE  /\ \A S : Computes(S)' <=> Computes(S)
           /\ \A V, U : Represents(V, U)' <=> Represents(V, U)
BY DEF Computes, Represents, SameChange

\* A step that keeps the calls, and after which no more of them are unsigned.
LEMMA WellPutKept ==
    ASSUME UNCHANGED <<kind, issued>>, signing' \subseteq signing, WellPut'
    PROVE  WellPut
<1>1. DistinctTimes
  BY DEF WellPut, DistinctTimes
<1>2. ASSUME NEW p \in issued \ signing PROVE Computes(p.data.v)
  <2>1. Computes(p.data.v)'
    BY DEF WellPut
  <2> QED BY <2>1, KindKept
<1> QED BY <1>1, <1>2 DEF WellPut

\* Nothing has been put.
LEMMA MergeInit == CrdtInit => OneByOne /\ Merging
<1> SUFFICES ASSUME CrdtInit PROVE OneByOne /\ Merging
  OBVIOUS
<1>1. OneByOne /\ JudgedWell /\ RelayedWell /\ RelayedOnce
  BY ServerAssumption DEF CrdtInit, Init, NetworkInit, OneByOne, LastUnderWay, JudgedWell,
                          RelayedWell, RelayedOnce
<1>2. \A s \in Server, k \in Key : Merged(s, k) = {} /\ store[s][k] = NoData
  BY ServerAssumption DEF CrdtInit, Init, Merged
<1>3. MergedAll
  BY <1>2 DEF MergedAll, HoldsUnion
<1> QED BY <1>1, <1>3 DEF Merging

\* What sendToAll sends is the record it was given.
LEMMA Copies ==
    ASSUME NEW n, NEW id, NEW to, NEW data, NEW c, SendToAll(n, id, to, data, c)
    PROVE  \A x \in net' : x \in net \/ x.data = data
<1> DEFINE R == Recipients(n, to, Hash(data), c)
           Copy(m) == [src |-> n, dst |-> m, id |-> id, to |-> to \cup {n}, data |-> data]
<1>1. net' = net \cup {Copy(m) : m \in R}
  BY DEF SendToAll
<1>2. \A m : Copy(m).data = data
  OBVIOUS
<1> HIDE DEF R, Copy
<1> QED BY <1>1, <1>2

\* A step in which nothing new is called or on its way.
LEMMA OneByOneQuiet ==
    ASSUME OneByOne, UNCHANGED <<issued, unhurried>>,
           signing' \subseteq signing, comparing' \subseteq comparing,
           net' \subseteq net, verifying' \subseteq verifying
    PROVE  OneByOne'
BY DEF OneByOne, LastUnderWay

\* A new call is the last one, if nothing else is under way.
LEMMA OneByOnePut ==
    ASSUME CrdtTypeOK, CrdtFlooding, OneByOne, NEW n \in User, NEW k \in Key,
           NEW to \in Excluded, CrdtPut(n, k, to)
    PROVE  OneByOne'
<1> SUFFICES ASSUME unhurried', EqualClocks PROVE LastUnderWay'
  BY DEF OneByOne, EqualClocks
<1>1. Put(n, k, doc[n], to) /\ doc[n] \in Value /\ Quiescent
  BY DocumentAssumption DEF CrdtPut, CrdtTypeOK
<1>2. PICK call \in PutCall :
          /\ issued' = issued \cup {call} /\ signing' = signing \cup {call}
          /\ call.data.t = clock + Skew[n]
          /\ UNCHANGED <<verifying, comparing, net>>
  BY <1>1, PutRecorded DEF CrdtTypeOK, networkVars
<1>3. \A q \in issued : q.data.t <= clock + Skew[n]
  BY DEF CrdtFlooding, CrdtCallsOK, CallsOK, EqualClocks
<1>4. call.data.t \in Int
  BY <1>2, ClockAssumption, UserAssumption DEF CrdtTypeOK, TypeOK
<1> QED BY <1>1, <1>2, <1>3, <1>4 DEF Quiescent, LastUnderWay

\* What is sent, received and relayed is of the call that was under way.
LEMMA OneByOneStep ==
    ASSUME CrdtTypeOK, CrdtFlooding, OneByOne, [CrdtNext]_crdtVars
    PROVE  OneByOne'
<1>1. ASSUME NEW n \in User, NEW k \in Key, NEW to \in Excluded, CrdtPut(n, k, to)
      PROVE  OneByOne'
  BY <1>1, OneByOnePut
<1>2. ASSUME NEW p \in signing, CrdtPutSigned(p) PROVE OneByOne'
  <2>1. PICK s : /\ s = Signed(p) /\ s.data.t = p.data.t /\ s.data = Current(p)
                 /\ signing' = signing \ {p} /\ issued' = (issued \ {p}) \cup {s}
                 /\ SendToAll(p.data.a, p.id, p.to, Current(p), FALSE)
                 /\ UNCHANGED <<verifying, comparing, unhurried>>
                 /\ p \in issued
    BY <1>2, SignedCall DEF CrdtFlooding, CrdtCallsOK
  <2>2. \A x \in net' : x \in net \/ x.data = s.data
    BY <2>1, Copies
  <2>3. OneByOne' <=> (unhurried /\ EqualClocks => LastUnderWay')
    BY <2>1 DEF OneByOne, EqualClocks
  <2>4. LastUnderWay => LastUnderWay'
    <3> SUFFICES ASSUME LastUnderWay,
                        NEW x \in signing' \cup net' \cup verifying \cup comparing,
                        NEW q \in issued'
                 PROVE  q.data.t <= x.data.t
      BY <2>1 DEF LastUnderWay
    <3>1. PICK y \in signing \cup net \cup verifying \cup comparing : y.data.t = x.data.t
      BY <2>1, <2>2
    <3>2. PICK r \in issued : r.data.t = q.data.t
      BY <2>1
    <3> QED BY <3>1, <3>2 DEF LastUnderWay
  <2> QED BY <2>3, <2>4 DEF OneByOne
<1>3. ASSUME NEW x \in net, Receive(x), UNCHANGED unhurried PROVE OneByOne'
  <2> DEFINE h == [node |-> x.dst, id |-> x.id, to |-> x.to \cup {x.src}, data |-> x.data,
                   ok |-> /\ ~InFuture(x.dst, x.data)
                          /\ ~CantOverwrite(store[x.dst][x.data.k], x.data)]
  <2>1. /\ verifying' = verifying \cup {h} /\ h.data = x.data /\ net' \subseteq net
        /\ UNCHANGED <<signing, comparing, issued>>
    BY <1>3 DEF Receive, Accept
  <2> HIDE DEF h
  <2>2. LastUnderWay => LastUnderWay'
    BY <2>1 DEF LastUnderWay
  <2> QED BY <1>3, <2>2 DEF OneByOne, EqualClocks
<1>4. ASSUME NEW h \in verifying, Verified(h), UNCHANGED unhurried PROVE OneByOne'
  <2> DEFINE c == [node |-> h.node, id |-> h.id, data |-> h.data,
                   old |-> store[h.node][h.data.k]]
  <2>1. /\ verifying' \subseteq verifying /\ comparing' = comparing \cup {c}
        /\ c.data = h.data /\ UNCHANGED <<signing, issued>>
        /\ SendToAll(h.node, h.id, h.to, h.data, TRUE)
    BY <1>4 DEF Verified
  <2> HIDE DEF c
  <2>2. \A x \in net' : x \in net \/ x.data = h.data
    BY <2>1, Copies
  <2>3. LastUnderWay => LastUnderWay'
    BY <2>1, <2>2 DEF LastUnderWay
  <2> QED BY <1>4, <2>3 DEF OneByOne, EqualClocks
<1>5. CASE SharedStep
  <2>1. UNCHANGED unhurried
    BY <1>5 DEF SharedStep
  <2>2. CASE \/ Tick
             \/ \E x \in net : ReceiveDuplicate(x)
             \/ \E h \in verifying : Unverified(h)
             \/ \E e \in Fragile : LinkDown(e[1], e[2])
             \/ \E e \in Link : LinkUp(e[1], e[2])
             \/ \E n \in Mortal \ User : Restart(n)
    <3>1. /\ UNCHANGED issued /\ signing' \subseteq signing /\ comparing' \subseteq comparing
          /\ net' \subseteq net /\ verifying' \subseteq verifying
      BY <2>2 DEF Tick, ReceiveDuplicate, Drop, Unverified, LinkDown, Disconnect, LinkUp,
                  Connect, Restart, Crash, networkVars
    <3> QED BY <2>1, <3>1, OneByOneQuiet
  <2> QED BY <1>3, <1>4, <1>5, <2>1, <2>2 DEF SharedStep
<1>6. CASE \/ \E n \in User : Edit(n)
           \/ \E n \in User, k \in Key : CrdtGet(n, k)
           \/ \E h \in comparing : CrdtCompare(h)
           \/ UNCHANGED crdtVars
  <2>1. /\ UNCHANGED <<issued, unhurried, signing, net, verifying>>
        /\ comparing' \subseteq comparing
    BY <1>6 DEF Edit, CrdtGet, CrdtCompare, crdtVars, vars, networkVars
  <2> QED BY <2>1, OneByOneQuiet
<1> QED BY <1>1, <1>2, <1>5, <1>6 DEF CrdtNext

\* A step that concerns the servers in nothing.
LEMMA MergingQuiet ==
    ASSUME Merging, UNCHANGED <<kind, issued, received, unhurried>>, worn \subseteq worn',
           signing' \subseteq signing,
           \A s \in Server : /\ store'[s] = store[s] /\ forwarded'[s] = forwarded[s]
                             /\ processedIds[s] \subseteq processedIds'[s],
           verifying' \subseteq verifying, comparing' \subseteq comparing,
           \A h \in verifying \cup comparing : h.node \in Server =>
               (h \in verifying => h \in verifying') /\ (h \in comparing => h \in comparing')
    PROVE  Merging'
<1> SUFFICES ASSUME OpenNetwork, worn' = {}
             PROVE  /\ JudgedWell' /\ RelayedWell' /\ RelayedOnce'
                    /\ (unhurried' /\ EqualClocks /\ WellPut' => MergedAll')
  BY DEF Merging, EqualClocks
<1>1. /\ JudgedWell /\ RelayedWell /\ RelayedOnce
      /\ (unhurried /\ EqualClocks /\ WellPut => MergedAll)
  BY DEF Merging
<1>2. JudgedWell' /\ RelayedWell' /\ RelayedOnce'
  BY <1>1 DEF JudgedWell, RelayedWell, RelayedOnce
<1>3. \A s \in Server : \A k : Merged(s, k)' = Merged(s, k)
  BY DEF Merged
<1>4. MergedAll => MergedAll'
  <2> SUFFICES ASSUME MergedAll, NEW s \in Server, NEW k \in Key \ Frozen
               PROVE  HoldsUnion(s, k, Merged(s, k))'
    BY DEF MergedAll
  <2>1. store'[s][k] = store[s][k] /\ Merged(s, k)' = Merged(s, k)
    BY <1>3
  <2> QED BY <2>1, KindKept DEF MergedAll, HoldsUnion
<1>5. WellPut' => WellPut
  BY WellPutKept
<1> QED BY <1>1, <1>2, <1>4, <1>5

\* A new call has been merged by nobody.
LEMMA MergingPut ==
    ASSUME CrdtTypeOK, CrdtFlooding, Merging, NEW n \in User, NEW k \in Key,
           NEW to \in Excluded, CrdtPut(n, k, to)
    PROVE  Merging'
<1>1. Put(n, k, doc[n], to) /\ doc[n] \in Value /\ (unhurried' => unhurried) /\ UNCHANGED kind
  BY DocumentAssumption DEF CrdtPut, CrdtTypeOK
<1>2. PICK call \in PutCall :
          /\ issued' = issued \cup {call} /\ signing' = signing \cup {call}
          /\ \A p \in issued : p.id # call.id
          /\ UNCHANGED <<store, verifying, comparing, received, forwarded, processedIds, worn>>
  BY <1>1, PutRecorded DEF CrdtTypeOK, networkVars
<1>3. \A s \in Server : call.id \notin received[s] /\ call.id \notin forwarded[s]
  BY <1>2, ServerAssumption DEF CrdtFlooding, ReceivedOrigin, CoverageInv, Origins
<1> SUFFICES ASSUME OpenNetwork, worn = {}
             PROVE  /\ JudgedWell' /\ RelayedWell' /\ RelayedOnce'
                    /\ (unhurried' /\ EqualClocks /\ WellPut' => MergedAll')
  BY <1>2 DEF Merging, EqualClocks
<1>4. /\ JudgedWell /\ RelayedWell /\ RelayedOnce
      /\ (unhurried /\ EqualClocks /\ WellPut => MergedAll)
  BY DEF Merging
<1>5. JudgedWell' /\ RelayedWell' /\ RelayedOnce'
  BY <1>2, <1>3, <1>4 DEF JudgedWell, RelayedWell, RelayedOnce
<1>6. \A s \in Server : \A j : Merged(s, j)' = Merged(s, j)
  BY <1>2, <1>3 DEF Merged
<1>7. MergedAll => MergedAll'
  BY <1>1, <1>2, <1>6, KindKept DEF MergedAll, HoldsUnion
<1>8. WellPut' => WellPut
  <2> SUFFICES ASSUME WellPut' PROVE WellPut
    OBVIOUS
  <2>1. DistinctTimes
    BY <1>2 DEF WellPut, DistinctTimes
  <2>2. ASSUME NEW q \in issued \ signing PROVE Computes(q.data.v)
    <3>1. q \in issued' \ signing'
      BY <1>2
    <3>2. Computes(q.data.v)'
      BY <3>1 DEF WellPut
    <3> QED BY <1>1, <3>2, KindKept
  <2> QED BY <2>1, <2>2 DEF WellPut
<1> QED BY <1>1, <1>4, <1>5, <1>7, <1>8

\* The author of a call is no server, and no server has merged it yet.
LEMMA MergingPutSigned ==
    ASSUME CrdtTypeOK, CrdtFlooding, Merging, NEW p \in signing, CrdtPutSigned(p)
    PROVE  Merging'
<1>1. PICK c : /\ c.data = Current(p) /\ c.id = p.id
               /\ c.data.k = p.data.k /\ c.data.t = p.data.t
               /\ issued' = (issued \ {p}) \cup {c} /\ signing' = signing \ {p}
               /\ p \in issued /\ p.data.a \in User
               /\ SendToAll(p.data.a, p.id, p.to, Current(p), FALSE)
               /\ UNCHANGED <<store, verifying, comparing, kind, unhurried, processedIds,
                              received, worn>>
  BY SignedCall DEF CrdtFlooding, CrdtCallsOK
<1> SUFFICES ASSUME OpenNetwork, worn = {}
             PROVE  /\ JudgedWell' /\ RelayedWell' /\ RelayedOnce'
                    /\ (unhurried' /\ EqualClocks /\ WellPut' => MergedAll')
  BY <1>1 DEF Merging, EqualClocks
<1>2. /\ JudgedWell /\ RelayedWell /\ RelayedOnce
      /\ (unhurried /\ EqualClocks /\ WellPut => MergedAll)
  BY DEF Merging
<1>3. \A s \in Server : s \in Node /\ s # p.data.a
  BY <1>1, ServerAssumption DEF OpenNetwork
<1>4. \A s \in Server : forwarded'[s] = forwarded[s]
  BY <1>1, <1>3 DEF SendToAll, CrdtTypeOK, TypeOK, NetworkTypeOK
<1>5. \A s \in Server : p.id \notin forwarded[s] /\ p.id \notin received[s]
  BY <1>3 DEF CrdtFlooding, Unsent
<1>6. JudgedWell' /\ RelayedOnce'
  BY <1>1, <1>2, <1>4 DEF JudgedWell, RelayedOnce
<1>7. RelayedWell'
  BY <1>1, <1>2, <1>4, <1>5 DEF RelayedWell
<1>8. \A s \in Server : \A k : Merged(s, k)' = Merged(s, k)
  BY <1>1, <1>4, <1>5 DEF Merged
<1>9. MergedAll => MergedAll'
  BY <1>1, <1>8, KindKept DEF MergedAll, HoldsUnion
<1>11. ASSUME WellPut', NEW q \in issued \ signing PROVE Computes(q.data.v)
  <2>1. q \in issued' \ signing'
    BY <1>1, <1>11
  <2>2. Computes(q.data.v)'
    BY <1>11, <2>1 DEF WellPut
  <2> QED BY <1>1, <2>2, KindKept
<1>10. DistinctTimes' => DistinctTimes
  <2> SUFFICES ASSUME DistinctTimes', NEW q \in issued, NEW r \in issued,
                      q.data.k = r.data.k, q.data.t = r.data.t, q # r
               PROVE  FALSE
    BY DEF DistinctTimes
  <2>1. q.id # r.id
    BY DEF CrdtFlooding, CoverageInv, UniqueIds
  <2>2. CASE q # p /\ r # p
    BY <1>1, <2>2 DEF DistinctTimes
  <2>3. CASE q = p /\ r # p
    <3>1. c \in issued' /\ r \in issued'
      BY <1>1, <2>3
    <3>2. c = r
      BY <1>1, <2>3, <3>1 DEF DistinctTimes
    <3> QED BY <1>1, <2>1, <2>3, <3>2
  <2>4. CASE r = p /\ q # p
    <3>1. c \in issued' /\ q \in issued'
      BY <1>1, <2>4
    <3>2. c = q
      BY <1>1, <2>4, <3>1 DEF DistinctTimes
    <3> QED BY <1>1, <2>1, <2>4, <3>2
  <2> QED BY <2>2, <2>3, <2>4
<1>12. WellPut' => WellPut
  BY <1>10, <1>11 DEF WellPut
<1> QED BY <1>1, <1>2, <1>6, <1>7, <1>9, <1>12

\* A server accepts what it has not relayed yet.
LEMMA MergingReceive ==
    ASSUME CrdtTypeOK, CrdtFlooding, Merging, NEW x \in net, Receive(x),
           UNCHANGED <<kind, unhurried>>
    PROVE  Merging'
<1> DEFINE ok == /\ ~InFuture(x.dst, x.data)
                 /\ ~CantOverwrite(store[x.dst][x.data.k], x.data)
           h == [node |-> x.dst, id |-> x.id, to |-> x.to \cup {x.src}, data |-> x.data,
                 ok |-> ok]
<1>1. /\ verifying' = verifying \cup {h} /\ h.node = x.dst /\ h.id = x.id /\ h.ok = ok
      /\ h.data = x.data /\ x.id \notin processedIds[x.dst]
      /\ UNCHANGED <<store, signing, comparing, issued, forwarded, worn>>
      /\ received' = [received EXCEPT ![x.dst] = @ \cup {x.id}]
      /\ processedIds' = [processedIds EXCEPT ![x.dst] = @ \cup {x.id}]
  BY DEF Receive, Accept, Processed
<1>2. /\ x.dst \in Node
      /\ \A n \in Node : received'[n] =
            IF n = x.dst THEN received[n] \cup {x.id} ELSE received[n]
      /\ \A n \in Node : processedIds'[n] =
            IF n = x.dst THEN processedIds[n] \cup {x.id} ELSE processedIds[n]
  BY <1>1 DEF CrdtTypeOK, TypeOK, Message, NetworkTypeOK
<1>3. PICK p \in issued : p.id = x.id /\ p.data = x.data
  BY DEF CrdtFlooding, CoverageInv, Origins, CallOf
<1>4. ASSUME OpenNetwork, x.dst \in Server, x.data.k \notin Frozen PROVE ok
  <2>1. ~InFuture(x.dst, x.data)
    <3>1. /\ p.data.a \in User /\ p.data.t <= clock + Skew[p.data.a]
          /\ Skew[p.data.a] <= Skew[x.dst] + Tolerance
      BY <1>4 DEF CrdtFlooding, CrdtCallsOK, CallsOK, OpenNetwork
    <3>2. /\ p.data.t \in Int /\ clock \in Int /\ Skew[p.data.a] \in Int
          /\ Skew[x.dst] \in Int /\ Tolerance \in Int
      BY <1>2, <3>1, ClockAssumption, UserAssumption DEF CrdtTypeOK, TypeOK, PutCall, Rec
    <3> QED BY <1>3, <3>1, <3>2 DEF InFuture
  <2>2. ~CantOverwrite(store[x.dst][x.data.k], x.data)
    BY <1>4 DEF CantOverwrite, Conflict
  <2> QED BY <2>1, <2>2
<1> HIDE DEF h, ok
<1> SUFFICES ASSUME OpenNetwork, worn = {}
             PROVE  /\ JudgedWell' /\ RelayedWell' /\ RelayedOnce'
                    /\ (unhurried' /\ EqualClocks /\ WellPut' => MergedAll')
  BY <1>1 DEF Merging, EqualClocks
<1>5. /\ JudgedWell /\ RelayedWell /\ RelayedOnce
      /\ (unhurried /\ EqualClocks /\ WellPut => MergedAll)
  BY DEF Merging
<1>6. JudgedWell'
  BY <1>1, <1>4, <1>5 DEF JudgedWell
<1>7. RelayedWell'
  BY <1>1, <1>2, <1>5, ServerAssumption DEF RelayedWell
<1>8. RelayedOnce'
  BY <1>1, <1>2, <1>5, ServerAssumption DEF RelayedOnce
<1>9. \A s \in Server : \A k : Merged(s, k)' = Merged(s, k)
  BY <1>1 DEF Merged
<1>10. MergedAll => MergedAll'
  BY <1>1, <1>9, KindKept DEF MergedAll, HoldsUnion
<1>11. WellPut' => WellPut
  BY <1>1, WellPutKept
<1> QED BY <1>5, <1>6, <1>7, <1>8, <1>10, <1>11

\* A server relays a call once, and goes on to merge it.
LEMMA MergingVerified ==
    ASSUME CrdtTypeOK, CrdtFlooding, Alone, Merging, NEW h \in verifying, Verified(h),
           UNCHANGED <<kind, unhurried>>
    PROVE  Merging'
<1> DEFINE c == [node |-> h.node, id |-> h.id, data |-> h.data,
                 old |-> store[h.node][h.data.k]]
<1>1. /\ verifying' = verifying \ {h} /\ comparing' = comparing \cup {c}
      /\ c.node = h.node /\ c.id = h.id /\ h.node \in Node
      /\ UNCHANGED <<store, signing, issued, received, processedIds, worn>>
      /\ forwarded' = [forwarded EXCEPT ![h.node] = @ \cup {h.id}]
  BY DEF Verified, SendToAll, CrdtTypeOK, TypeOK, Verifying
<1> HIDE DEF c
<1>2. \A n \in Node : forwarded'[n] =
         IF n = h.node THEN forwarded[n] \cup {h.id} ELSE forwarded[n]
  BY <1>1 DEF CrdtTypeOK, TypeOK, NetworkTypeOK
<1>3. h.id \in received[h.node] /\ \A g \in verifying \ {h} : g.node # h.node
  BY <1>1 DEF CrdtFlooding, CoverageInv, Receipts, Alone, OneHandler, AtMostOne, Verifiers
<1> SUFFICES ASSUME OpenNetwork, worn = {}
             PROVE  /\ JudgedWell' /\ RelayedWell' /\ RelayedOnce'
                    /\ (unhurried' /\ EqualClocks /\ WellPut' => MergedAll')
  BY <1>1 DEF Merging, EqualClocks
<1>4. /\ JudgedWell /\ RelayedWell /\ RelayedOnce
      /\ (unhurried /\ EqualClocks /\ WellPut => MergedAll)
  BY DEF Merging
<1>5. JudgedWell'
  BY <1>1, <1>4 DEF JudgedWell
<1>6. RelayedWell'
  BY <1>1, <1>2, <1>4, ServerAssumption DEF RelayedWell
<1>7. RelayedOnce'
  BY <1>1, <1>2, <1>3, <1>4, ServerAssumption DEF RelayedOnce
<1>8. \A s \in Server : \A k : Merged(s, k)' = Merged(s, k)
  <2> SUFFICES ASSUME NEW s \in Server, NEW k, NEW q \in issued
               PROVE  q \in Merged(s, k)' <=> q \in Merged(s, k)
    BY <1>1 DEF Merged
  <2>1. s \in Node /\ (s = h.node => h.id \notin forwarded[s])
    BY <1>4, ServerAssumption DEF RelayedOnce
  <2> QED BY <1>1, <1>2, <2>1 DEF Merged
<1>9. MergedAll => MergedAll'
  BY <1>1, <1>8, KindKept DEF MergedAll, HoldsUnion
<1>10. WellPut' => WellPut
  BY <1>1, WellPutKept
<1> QED BY <1>4, <1>5, <1>6, <1>7, <1>9, <1>10

\* A server refuses nothing.
LEMMA MergingUnverified ==
    ASSUME CrdtTypeOK, CrdtFlooding, Merging, NEW h \in verifying, Unverified(h),
           UNCHANGED <<kind, unhurried>>
    PROVE  Merging'
<1>1. /\ verifying' = verifying \ {h} /\ FALSE \in Verdicts(h)
      /\ UNCHANGED <<store, signing, comparing, issued, received, forwarded, processedIds, worn>>
  BY DEF Unverified, networkVars
<1>2. h.data.k \in Key /\ h.data \in Rec
  BY DEF CrdtTypeOK, TypeOK, Verifying, Rec
<1> SUFFICES ASSUME OpenNetwork, worn = {}
             PROVE  /\ JudgedWell' /\ RelayedWell' /\ RelayedOnce'
                    /\ (unhurried' /\ EqualClocks /\ WellPut' => MergedAll')
  BY <1>1 DEF Merging, EqualClocks
<1>3. /\ JudgedWell /\ RelayedWell /\ RelayedOnce
      /\ (unhurried /\ EqualClocks /\ WellPut => MergedAll)
  BY DEF Merging
<1>4. h.node \in Server => ~h.ok
  BY <1>1, <1>2 DEF Verdicts, OpenNetwork
<1>5. h.node \in Server => h.data.k \in Frozen
  BY <1>3, <1>4 DEF JudgedWell
<1>6. \A q \in issued : q.id = h.id => q.data = h.data
  BY DEF CrdtFlooding, CoverageInv, Origins, CallOf, UniqueIds
<1>7. JudgedWell' /\ RelayedOnce'
  BY <1>1, <1>3 DEF JudgedWell, RelayedOnce
<1>8. RelayedWell'
  BY <1>1, <1>3, <1>5, <1>6 DEF RelayedWell
<1>9. \A s \in Server : \A k : Merged(s, k)' = Merged(s, k)
  BY <1>1 DEF Merged
<1>10. MergedAll => MergedAll'
  BY <1>1, <1>9, KindKept DEF MergedAll, HoldsUnion
<1>11. WellPut' => WellPut
  BY <1>1, WellPutKept
<1> QED BY <1>1, <1>3, <1>7, <1>8, <1>10, <1>11

(***************************************************************************)
(* handleCrdtPut adds the call to those its server has merged.  The stored *)
(* time is that of an earlier call, so the merge is kept.                  *)
(***************************************************************************)
LEMMA MergingCompare ==
    ASSUME CrdtTypeOK, CrdtFlooding, Alone, OneByOne, Merging,
           NEW h \in comparing, CrdtCompare(h)
    PROVE  Merging'
<1>1. /\ comparing' = comparing \ {h}
      /\ UNCHANGED <<signing, verifying, issued, received, forwarded, processedIds, worn,
                     kind, unhurried>>
  BY DEF CrdtCompare, networkVars
<1>2. /\ h.node \in Node /\ h.data \in Rec /\ h.data.k \in Key
      /\ h.old \in Rec \cup {NoData} /\ h.old = store[h.node][h.data.k]
      /\ \A n \in Node, k \in Key :
            ~(n = h.node /\ k = h.data.k) => store'[n][k] = store[n][k]
      /\ store'[h.node][h.data.k] \in Kept(h.old, h.data)
  BY ComparedStore DEF Alone, MergeReads
<1>3. PICK p \in issued : p.id = h.id /\ p.data = h.data
  BY DEF CrdtFlooding, CoverageInv, Origins, CallOf
<1>4. \A q \in issued : q.id = h.id => q = p
  BY <1>3 DEF CrdtFlooding, CoverageInv, UniqueIds
<1>5. h.id \in forwarded[h.node] /\ \A g \in comparing' : g.node # h.node
  BY <1>1, AloneCompare DEF CrdtFlooding, RelayedFirst
<1> SUFFICES ASSUME OpenNetwork, worn = {}
             PROVE  /\ JudgedWell' /\ RelayedWell' /\ RelayedOnce'
                    /\ (unhurried' /\ EqualClocks /\ WellPut' => MergedAll')
  BY <1>1 DEF Merging, EqualClocks
<1>6. /\ JudgedWell /\ RelayedWell /\ RelayedOnce
      /\ (unhurried /\ EqualClocks /\ WellPut => MergedAll)
  BY DEF Merging
<1>7. JudgedWell' /\ RelayedWell' /\ RelayedOnce'
  BY <1>1, <1>6 DEF JudgedWell, RelayedWell, RelayedOnce
<1>8. ASSUME NEW s \in Server, NEW k \in Key, ~(s = h.node /\ k = h.data.k)
      PROVE  Merged(s, k)' = Merged(s, k)
  <2> SUFFICES ASSUME NEW q \in issued PROVE q \in Merged(s, k)' <=> q \in Merged(s, k)
    BY <1>1 DEF Merged
  <2>1. ~(h.node = s /\ h.id = q.id /\ q.data.k = k)
    BY <1>3, <1>4, <1>8
  <2> QED BY <1>1, <2>1 DEF Merged
<1>9. ASSUME h.node \in Server
      PROVE  /\ Merged(h.node, h.data.k)' = Merged(h.node, h.data.k) \cup {p}
             /\ p \notin Merged(h.node, h.data.k)
  <2> DEFINE s == h.node
             k == h.data.k
  <2>1. p \notin Merged(s, k)
    BY <1>3 DEF Merged
  <2>2. ASSUME NEW q \in issued PROVE q \in Merged(s, k)' <=> q \in Merged(s, k) \cup {p}
    <3>1. CASE q = p
      BY <1>1, <1>3, <1>5, <3>1 DEF Merged
    <3>2. CASE q # p
      <4>1. q.id # h.id
        BY <1>4, <3>2
      <4> QED BY <1>1, <3>2, <4>1 DEF Merged
    <3> QED BY <3>1, <3>2
  <2>3. Merged(s, k)' \subseteq issued /\ Merged(s, k) \subseteq issued
    BY <1>1 DEF Merged
  <2> QED BY <2>1, <2>2, <2>3
<1>10. ASSUME unhurried, EqualClocks, WellPut, MergedAll,
              NEW s \in Server, NEW k \in Key \ Frozen
       PROVE  HoldsUnion(s, k, Merged(s, k))'
  <2>1. CASE ~(s = h.node /\ k = h.data.k)
    <3>1. store'[s][k] = store[s][k] /\ Merged(s, k)' = Merged(s, k)
      BY <1>2, <1>8, <2>1, ServerAssumption
    <3> QED BY <1>1, <1>10, <3>1, KindKept DEF MergedAll, HoldsUnion
  <2>2. CASE s = h.node /\ k = h.data.k
    <3> DEFINE M == Merged(s, k)
               old == store[s][k]
               new == store'[s][k]
    <3>1. /\ Merged(s, k)' = M \cup {p} /\ p \notin M /\ M \subseteq issued
          /\ \A q \in M : q.data.k = k /\ q \notin signing
      BY <1>9, <2>2, ServerAssumption DEF Merged, CrdtFlooding, Unsent
    <3>2. /\ h.old = old /\ new \in Kept(old, h.data) /\ new \in Rec
      BY <1>2, <2>2, KeptType, DocumentAssumption
    <3>3. HoldsUnion(s, k, M)
      BY <1>10 DEF MergedAll
    <3>4. new # NoData
      BY <3>2, NoDataAssumption
    <3>10. p \notin signing
      BY <1>3 DEF CrdtFlooding, Unsent
    <3>11. \A q \in M \cup {p} : Computes(q.data.v) /\ q.data.v \in SUBSET Change
      BY <1>10, <3>1, <3>10, DocumentAssumption
         DEF WellPut, CrdtTypeOK, TypeOK, PutCall, Rec
    <3> HIDE DEF M, old, new
    <3>5. CASE old = NoData
      <4>1. M = {}
        BY <3>3, <3>5 DEF HoldsUnion, old
      <4>2. new = p.data
        BY <1>2, <1>3, <3>2, <3>5, KeptType, DocumentAssumption
      <4>3. Merged(s, k)' = {p}
        BY <3>1, <4>1
      <4>4. Represents(new.v, UNION {r.data.v : r \in {p}})
        BY <4>2 DEF Represents, SameChange
      <4> QED BY <1>1, <3>4, <4>2, <4>3, <4>4, KindKept DEF HoldsUnion, new
    <3>6. CASE old # NoData
      <4>1. PICK q \in M : old.t = q.data.t
        BY <3>3, <3>6 DEF HoldsUnion, old
      <4>2. q \in issued /\ q # p /\ q.data.k = p.data.k
        BY <1>3, <2>2, <3>1, <4>1
      <4>3. q.data.t <= p.data.t
        BY <1>3, <1>10, <4>2 DEF OneByOne, LastUnderWay
      <4>4. q.data.t # p.data.t
        BY <1>10, <4>2 DEF WellPut, DistinctTimes
      <4>5. q.data.t \in Int /\ p.data.t \in Int
        BY <4>2 DEF CrdtTypeOK, TypeOK, PutCall, Rec
      <4>6. old.t < h.data.t
        BY <1>3, <4>1, <4>3, <4>4, <4>5
      <4> DEFINE U == UNION {r.data.v : r \in M}
      <4>7. Represents(old.v, U)
        BY <3>3, <3>6 DEF HoldsUnion, old
      <4>8. old.v \in SUBSET Change /\ p.data.v \in SUBSET Change /\ U \in SUBSET Change
        BY <3>11, <4>7 DEF Represents
      <4>9. Computes(old.v) /\ Computes(old.v \cup p.data.v)
        <5>1. kind = "LIST" => Computes(U) /\ Computes(U \cup p.data.v)
          BY <3>11 DEF Computes
        <5>2. kind = "LIST" => old.v = U
          BY <4>7 DEF Represents
        <5> QED BY <5>1, <5>2 DEF Computes
      <4>10. ASSUME NEW m \in MergesOf(old.v, p.data.v)
             PROVE  Computes(m) /\ Represents(m, U \cup p.data.v)
        <5>1. /\ m \subseteq old.v \cup p.data.v
              /\ \A c \in old.v \cup p.data.v : \E d \in m : SameChange(c, d)
              /\ kind # "COUNTER" => m = old.v \cup p.data.v
          <6>1. /\ old.v \in SUBSET Change /\ p.data.v \in SUBSET Change
                /\ m \in MergesOf(old.v, p.data.v)
            BY <4>8, <4>10
          <6>2. m \subseteq old.v \cup p.data.v
            BY <6>1, MergeKeeps
          <6>3. \A c \in old.v \cup p.data.v : \E d \in m : SameChange(c, d)
            BY <6>1, MergeHas
          <6>4. kind # "COUNTER" => m = old.v \cup p.data.v
            BY <6>1, MergeKeeps
          <6> QED BY <6>2, <6>3, <6>4
        <5>2. Computes(m)
          BY <4>9, <5>1 DEF Computes
        <5>3. /\ m \subseteq U \cup p.data.v
              /\ kind # "COUNTER" => m = U \cup p.data.v
          BY <4>7, <5>1 DEF Represents
        <5>4. ASSUME NEW c \in U PROVE \E d \in m : SameChange(c, d)
          <6>1. PICK e \in old.v : SameChange(c, e)
            BY <4>7 DEF Represents
          <6>2. PICK d \in m : SameChange(e, d)
            BY <5>1
          <6> QED BY <6>1, <6>2 DEF SameChange
        <5> QED BY <5>1, <5>2, <5>3, <5>4 DEF Represents
      <4>11. new.t = p.data.t /\ new.v \in MergesOf(old.v, p.data.v)
        <5>1. /\ p.data \in Rec /\ old \in Rec \cup {NoData} /\ new \in Kept(old, p.data)
              /\ old.t < p.data.t /\ Computes(old.v) /\ Value = SUBSET Change
          BY <1>2, <1>3, <3>2, <4>6, <4>9, DocumentAssumption
        <5>2. \A m \in MergesOf(old.v, p.data.v) : Computes(m)
          BY <4>10
        <5> QED BY ONLY <3>6, <5>1, <5>2, KeptType
      <4>12. Represents(new.v, U \cup p.data.v)
        BY <4>10, <4>11
      <4>13. U \cup p.data.v = UNION {r.data.v : r \in M \cup {p}}
        OBVIOUS
      <4> QED BY <1>1, <3>1, <3>4, <4>11, <4>12, <4>13, KindKept DEF HoldsUnion, new
    <3> QED BY <3>5, <3>6
  <2> QED BY <2>1, <2>2
<1>11. unhurried /\ EqualClocks /\ WellPut /\ MergedAll => MergedAll'
  BY <1>10 DEF MergedAll
<1>12. WellPut' => WellPut
  BY <1>1, WellPutKept
<1> QED BY <1>1, <1>6, <1>7, <1>11, <1>12

\* A server that restarts has broken its connections, if anything was put.
LEMMA MergingRestart ==
    ASSUME CrdtTypeOK, CrdtFlooding, Merging, NEW n \in Mortal \ User, Restart(n),
           UNCHANGED <<kind, unhurried>>
    PROVE  Merging'
<1> DEFINE l == {e \in Link : n \in {e[1], e[2]}}
<1>1. /\ worn' = worn \cup l /\ n \in Node
      /\ UNCHANGED <<issued, received, forwarded, store>> /\ signing' \subseteq signing
      /\ verifying' = {h \in verifying : h.node # n}
      /\ comparing' = {h \in comparing : h.node # n}
      /\ processedIds' = [processedIds EXCEPT ![n] = {}]
  BY FaultAssumption DEF Restart, Crash
<1>2. \A m \in Node \ {n} : processedIds'[m] = processedIds[m]
  BY <1>1 DEF CrdtTypeOK, TypeOK, NetworkTypeOK
<1>3. CASE n \notin Server
  <2>1. \A s \in Server : processedIds'[s] = processedIds[s]
    BY <1>2, <1>3, ServerAssumption
  <2> HIDE DEF l
  <2> QED BY <1>1, <1>3, <2>1, MergingQuiet
<1>4. CASE ~OpenNetwork \/ worn' # {}
  BY <1>4 DEF Merging
<1>5. CASE n \in Server /\ OpenNetwork /\ worn' = {} /\ issued # {}
  <2>1. PICK p \in issued : p.data.a \in User
    BY <1>5 DEF CrdtFlooding, CrdtCallsOK, CallsOK
  <2>2. \E e \in Link : e[2] = n
    BY <1>5, <2>1, Connected
  <2> QED BY <1>1, <1>5, <2>2
<1>6. CASE n \in Server /\ OpenNetwork /\ worn' = {} /\ issued = {}
  <2>1. \A s \in Server : received[s] = {} /\ forwarded[s] = {}
    BY <1>6, ServerAssumption DEF CrdtFlooding, ReceivedOrigin, CoverageInv, Origins
  <2>2. verifying = {}
    BY <1>6 DEF CrdtFlooding, CoverageInv, Origins
  <2>3. JudgedWell' /\ RelayedWell' /\ RelayedOnce'
    BY <1>1, <2>1, <2>2 DEF JudgedWell, RelayedWell, RelayedOnce
  <2>4. unhurried /\ EqualClocks /\ WellPut => MergedAll
    BY <1>1, <1>6 DEF Merging
  <2>5. \A s, k : Merged(s, k) = {} /\ Merged(s, k)' = {}
    BY <1>1, <1>6 DEF Merged
  <2>6. MergedAll => MergedAll'
    BY <1>1, <2>5, KindKept DEF MergedAll, HoldsUnion
  <2>7. WellPut' => WellPut
    BY <1>1, WellPutKept
  <2> QED BY <2>3, <2>4, <2>6, <2>7 DEF Merging, EqualClocks
<1> QED BY <1>3, <1>4, <1>5, <1>6

\* Every step in which handlers do not begin to overlap keeps Merging.
LEMMA MergingStep ==
    ASSUME CrdtTypeOK, CrdtFlooding, Alone, OneByOne, Merging, [CrdtNext]_crdtVars
    PROVE  Merging'
<1>1. ASSUME NEW e \in Fragile, LinkDown(e[1], e[2]) PROVE Merging'
  <2>1. worn' # {}
    BY <1>1 DEF LinkDown, Disconnect
  <2> QED BY <2>1 DEF Merging
<1>2. ASSUME UNCHANGED <<kind, unhurried>>,
             \/ Tick
             \/ \E x \in net : ReceiveDuplicate(x)
             \/ \E e \in Link : LinkUp(e[1], e[2])
             \/ \E n \in User : Edit(n)
             \/ \E n \in User, k \in Key : CrdtGet(n, k)
             \/ UNCHANGED crdtVars
      PROVE  Merging'
  <2>1. UNCHANGED <<store, signing, verifying, comparing, issued, received, forwarded,
                    processedIds, worn>>
    BY <1>2 DEF Tick, ReceiveDuplicate, Drop, LinkUp, Connect, Edit, CrdtGet, crdtVars, vars,
                networkVars
  <2> QED BY <1>2, <2>1, MergingQuiet
<1>3. CASE SharedStep
  <2>1. UNCHANGED <<kind, unhurried>>
    BY <1>3 DEF SharedStep
  <2> QED BY <1>1, <1>2, <1>3, <2>1, MergingReceive, MergingVerified, MergingUnverified,
             MergingRestart DEF SharedStep
<1>4. CASE \/ \E n \in User : Edit(n)
           \/ \E n \in User, k \in Key : CrdtGet(n, k)
           \/ UNCHANGED crdtVars
  BY <1>2, <1>4 DEF Edit, CrdtGet, crdtVars
<1>5. CASE \E n \in User, k \in Key, to \in Excluded : CrdtPut(n, k, to)
  BY <1>5, MergingPut
<1>6. CASE \E p \in signing : CrdtPutSigned(p)
  BY <1>6, MergingPutSigned
<1>7. CASE \E h \in comparing : CrdtCompare(h)
  BY <1>7, MergingCompare
<1> QED BY <1>3, <1>4, <1>5, <1>6, <1>7 DEF CrdtNext

\* When all has settled, every call has been relayed by every server.
LEMMA AllRelayed ==
    ASSUME CrdtTypeOK, CrdtFlooding, Merging, OpenNetwork, Quiescent, worn = {},
           NEW p \in issued, p.data.k \notin Frozen, NEW s \in Server
    PROVE  p.id \in forwarded[s]
<1> DEFINE S == {n \in Node : p.id \in forwarded[n]}
<1>1. Sent /\ RelayedWell /\ LinkCoverage
  BY DEF Merging, CrdtFlooding, CoverageInv
<1>2. p.data.a \in User /\ p.to \in Excluded /\ p.data.a \in Node
  BY UserAssumption DEF CrdtFlooding, CrdtCallsOK, CallsOK
<1>3. p.data.a \in S /\ S \in SUBSET Node
  BY <1>1, <1>2 DEF Sent, Quiescent
<1>4. Unique(p)
  BY CallsDiffer DEF Unique
<1>5. ASSUME NEW e \in Link, e[1] \in S, e[2] \in Server PROVE e[2] \in S
  <2>1. e = <<e[1], e[2]>> /\ e[1] \in Node /\ e[2] \in Node
    BY LinkAssumption
  <2>2. e[2] \notin p.to /\ e[2] # p.data.a
    BY <1>2, <1>5 DEF OpenNetwork
  <2>3. Covered(p, e[1], e[2])
    BY <1>1, <1>4, <1>5, <2>1, <2>2 DEF LinkCoverage
  <2>4. p.id \in received[e[2]]
    BY <2>2, <2>3 DEF Covered, Quiescent
  <2>5. p.id \in forwarded[e[2]]
    BY <1>1, <1>5, <2>4 DEF RelayedWell, Quiescent
  <2> QED BY <2>1, <2>5
<1> HIDE DEF S
<1>6. Server \subseteq S
  BY <1>2, <1>3, <1>5 DEF OpenNetwork
<1> QED BY <1>6 DEF S

\* So every server has merged all calls.
LEMMA AllMerged ==
    ASSUME CrdtTypeOK, CrdtFlooding, Merging
    PROVE  UnhurriedPutsMerge
<1> SUFFICES ASSUME OpenNetwork, unhurried, Quiescent, worn = {}, WellPut, EqualClocks,
                    NEW s \in Server, NEW k \in Key \ Frozen
             PROVE  /\ kind = "COUNTER" => HoldsOneOfEach(s, k)
                    /\ kind # "COUNTER" => Held(s, k) = ChangesOf(k)
  BY DEF UnhurriedPutsMerge, EqualClocks, WellPut
<1>1. HoldsUnion(s, k, Merged(s, k))
  BY DEF Merging, MergedAll
<1>2. Merged(s, k) = {p \in issued : p.data.k = k}
  BY AllRelayed DEF Merged, Quiescent
<1>3. ChangesOf(k) = UNION {p.data.v : p \in Merged(s, k)}
  BY <1>2 DEF ChangesOf
<1>4. CASE store[s][k] = NoData
  <2>1. ChangesOf(k) = {} /\ Held(s, k) = {}
    BY <1>1, <1>3, <1>4 DEF HoldsUnion, Held
  <2> QED BY <2>1 DEF HoldsOneOfEach
<1>5. CASE store[s][k] # NoData
  <2>1. store[s][k].v \subseteq Change
    BY <1>5, ServerAssumption, DocumentAssumption DEF CrdtTypeOK, TypeOK, Rec
  <2>2. Held(s, k) = store[s][k].v
    BY <1>5, <2>1 DEF Held
  <2>3. Represents(Held(s, k), ChangesOf(k))
    BY <1>1, <1>3, <1>5, <2>2 DEF HoldsUnion
  <2> QED BY <2>3 DEF Represents, HoldsOneOfEach
<1> QED BY <1>4, <1>5

(***************************************************************************)
(* Concurrent documents are merged, in every open network and for any      *)
(* numbers of users, changes and puts: if users with equal clocks put one  *)
(* by one, handlers do not overlap and no list that was put throws at its  *)
(* user, then every server ends with all changes of maps and lists.  Of    *)
(* counters it ends with one of those that ListCrdt.mergeChanges takes for *)
(* the same: equal ADDs with one number, which several users made.  (Run   *)
(* CrdtLost shows that puts which overlap may lose changes.)               *)
(***************************************************************************)
THEOREM DocumentsMerge == CrdtSerialSpec => []UnhurriedPutsMerge
<1>1. CrdtInit => Alone /\ OneByOne /\ Merging
  <2>1. CrdtInit => Alone
    BY SerialInit DEF CrdtInit, Init, Alone, MergeReads, SerialInv
  <2> QED BY <2>1, MergeInit
<1>2. [CrdtSerialNext]_crdtVars => [CrdtNext]_crdtVars
  BY DEF CrdtSerialNext
<1>3. /\ CrdtTypeOK /\ CrdtFlooding /\ Alone /\ OneByOne /\ Merging
      /\ [CrdtSerialNext]_crdtVars
      => Alone' /\ OneByOne' /\ Merging'
  BY <1>2, AloneStep, OneByOneStep, MergingStep
<1>4. CrdtTypeOK /\ CrdtFlooding /\ Merging => UnhurriedPutsMerge
  BY AllMerged
<1> QED BY <1>1, <1>3, <1>4, CrdtFloods, PTL DEF CrdtSerialSpec
=============================================================================
