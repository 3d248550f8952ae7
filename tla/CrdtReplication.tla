--------------------------- MODULE CrdtReplication ---------------------------
(***************************************************************************)
(* Replication of CRDT documents: toolDbCrdtPut, handleCrdtPut and what    *)
(* toolDbCrdtGet merges, on the flooding of PutReplication.  The value of  *)
(* a record is the set of changes of a document.                           *)
(*                                                                         *)
(* A document is put like a record with three differences.  The author     *)
(* does not store it.  The message carries the changes the document has    *)
(* when the signature is there, not those it had when putCrdt was called.  *)
(* A receiver merges the incoming changes into those it holds, and keeps   *)
(* the result only if the incoming timestamp is newer.                     *)
(*                                                                         *)
(* A change has its author a, its index i (of a map: with the key), its    *)
(* type t ("ADD" for SET, INS and ADD, "DEL" for DEL and SUB) and its      *)
(* value v (of a list's DEL: the author and index of the element).  The    *)
(* array of a document is the set of its changes; the order it has them in *)
(* is a choice where it matters.  Bounds: a network has documents of one   *)
(* kind, and only documents are put under their keys.                      *)
(***************************************************************************)
EXTENDS PutReplication, FiniteSets

CONSTANTS
    Change,  \* bound: the changes users make to their documents
    Lower,   \* Lower[n]: the users whose address sorts before that of n
    Kinds    \* the kinds of documents looked at

ASSUME DocumentAssumption ==
    /\ Value = SUBSET Change
    /\ \A c, d \in Change : c.a = d.a /\ c.i = d.i => c = d
    /\ Kinds \subseteq {"MAP", "LIST", "COUNTER"}

VARIABLES
    kind,      \* the class of all documents: MapCrdt, ListCrdt or CounterCrdt
    doc,       \* doc[n]: the changes in the document of user n
    unhurried  \* history: every put was called when nothing was under way

crdtVars == <<vars, kind, doc, unhurried>>

CrdtTypeOK ==
    /\ TypeOK
    /\ kind \in Kinds
    /\ doc \in [User -> SUBSET Change]
    /\ unhurried \in BOOLEAN

CrdtInit ==
    /\ Init
    /\ kind \in Kinds
    /\ doc = [n \in User |-> {}]
    /\ unhurried = TRUE

-----------------------------------------------------------------------------
\* d is the INS of the element that c deletes.
Deletes(c, d) == c.t = "DEL" /\ d.t = "ADD" /\ c.v = <<d.a, d.i>>

(***************************************************************************)
(* A user changes its document.  Lists and counters number the changes of  *)
(* an author; a list deletes an element it has and has not deleted.        *)
(***************************************************************************)
Edit(n) ==
    /\ \E c \in Change \ doc[n] :
        /\ c.a = n
        /\ kind # "MAP" => c.i = Cardinality({d \in doc[n] : d.a = n})
        /\ kind = "LIST" /\ c.t = "DEL" =>
             /\ \E d \in doc[n] : Deletes(c, d)
             /\ \A d \in doc[n] : d.t = "DEL" => d.v # c.v
        /\ doc' = [doc EXCEPT ![n] = @ \cup {c}]
    /\ UNCHANGED <<vars, kind, unhurried>>

(***************************************************************************)
(* toolDbCrdtGet: a user merges into its document the one that its own     *)
(* peer holds or, when that holds none, a server that answers.  The class  *)
(* of the user's document tells all changes apart, and has pushed them     *)
(* when a list's calculate throws.  Bound: the answer comes at once.       *)
(***************************************************************************)
CrdtGet(n, k) ==
    /\ \E m \in {n} \cup {s \in Server : <<n, s>> \in up /\ store[n][k] = NoData} :
        /\ store[m][k] # NoData
        /\ doc' = [doc EXCEPT ![n] = @ \cup store[m][k].v]
    /\ UNCHANGED <<vars, kind, unhurried>>

(***************************************************************************)
(* toolDbCrdtPut up to the signature: the timestamp is taken.  Bound: a    *)
(* user calls it once at an instant, so that no two calls have one hash.   *)
(***************************************************************************)
CrdtPut(n, k, to) ==
    /\ \A p \in issued : p.data.a = n => p.data.t # clock + Skew[n]
    /\ Put(n, k, doc[n], to)
    /\ unhurried' = (unhurried /\ Quiescent)
    /\ UNCHANGED <<kind, doc>>

\* getChanges returns the array the document goes on filling.  The hash is of
\* its first state, which receivers notice only when they ask for proof of work
\* (options.pow is 0 unless the application sets it).
Current(p) == [p.data EXCEPT !.v = doc[p.data.a]]

(***************************************************************************)
(* The rest of toolDbCrdtPut: send the changes the document has by now.    *)
(***************************************************************************)
CrdtPutSigned(p) ==
    /\ signing' = signing \ {p}
    /\ issued' = (issued \ {p}) \cup {[p EXCEPT !.data = Current(p)]}
    /\ SendToAll(p.data.a, p.id, p.to, Current(p), FALSE)
    /\ UNCHANGED <<clock, store, verifying, comparing, kind, doc, unhurried>>

-----------------------------------------------------------------------------
\* Mutant of SameChange: the author is compared for maps only.
SameButAuthor(c, d) ==
    c.i = d.i /\ c.t = d.t /\ (kind = "MAP" => c.a = d.a) /\ (kind # "MAP" => c.v = d.v)

(***************************************************************************)
(* What mergeChanges of handleCrdtPut compares.  The index of a list holds *)
(* its author.  CounterCrdt.type is CRDT_LIST, so that counters are merged *)
(* as lists are, and the index of a counter holds no author.               *)
(***************************************************************************)
SameChange(c, d) ==
    /\ c.i = d.i /\ c.t = d.t
    /\ kind # "COUNTER" => c.a = d.a
    /\ kind # "MAP" => c.v = d.v

(***************************************************************************)
(* What mergeChanges makes of the old changes S and then the new T: it     *)
(* keeps one of those that are the same, the first to come.                *)
(***************************************************************************)
MergesOf(S, T) ==
    {m \in SUBSET (S \cup T) :
        /\ \A c, d \in m : SameChange(c, d) => c = d
        /\ \A c \in S : \E d \in m \cap S : SameChange(c, d)
        /\ \A c \in T : \E d \in m : SameChange(c, d)}

(***************************************************************************)
(* calculate gets through.  A list applies its changes sorted by index,    *)
(* hence by author first, and throws at a DEL whose INS is yet to come.    *)
(***************************************************************************)
Computes(S) ==
    kind = "LIST" =>
        \A c \in S : c.t = "DEL" =>
            \E d \in S : Deletes(c, d) /\ (d.a \in Lower[c.a] \/ (d.a = c.a /\ d.i < c.i))

\* Mutant of Kept: the incoming document replaces the stored one.
KeptUnmerged(old, r) ==
    IF old = NoData \/ old.t < r.t THEN {r} ELSE {old}

\* Mutant of Kept: the old record is pushed, not the changes in it.
KeptNested(old, r) ==
    IF old = NoData \/ ~(old.t < r.t) THEN {IF old = NoData THEN r ELSE old}
    ELSE {[r EXCEPT !.v = @ \cup {old}]}

\* What handleCrdtPut leaves in the store that held old.  What throws is caught.
Kept(old, r) ==
    IF old = NoData THEN {r}
    ELSE IF old.t < r.t /\ Computes(old.v)
    THEN {IF Computes(m) THEN [r EXCEPT !.v = m] ELSE old : m \in MergesOf(old.v, r.v)}
    ELSE {old}

(***************************************************************************)
(* handleCrdtPut, with the stored record it asked for: merge with that     *)
(* record, and put the result, whatever the store holds by now.            *)
(***************************************************************************)
CrdtCompare(h) ==
    /\ comparing' = comparing \ {h}
    /\ \E r \in Kept(h.old, h.data) :
          store' = IF r = h.old THEN store ELSE [store EXCEPT ![h.node][h.data.k] = r]
    /\ UNCHANGED <<clock, signing, verifying, issued, networkVars, kind, doc, unhurried>>

\* The steps that documents share with records.  Bound: users do not restart.
SharedStep ==
    /\ \/ Tick
       \/ \E x \in net : Receive(x) \/ ReceiveDuplicate(x)
       \/ \E h \in verifying : Verified(h) \/ Unverified(h)
       \/ \E e \in Fragile : LinkDown(e[1], e[2])
       \/ \E e \in Link : LinkUp(e[1], e[2])
       \/ \E n \in Mortal \ User : Restart(n)
    /\ UNCHANGED <<kind, doc, unhurried>>

CrdtNext ==
    \/ SharedStep
    \/ \E n \in User : Edit(n)
    \/ \E n \in User, k \in Key : CrdtGet(n, k)
    \/ \E n \in User, k \in Key, to \in Excluded : CrdtPut(n, k, to)
    \/ \E p \in signing : CrdtPutSigned(p)
    \/ \E h \in comparing : CrdtCompare(h)

\* The behaviours in which no two handlers overlap in one peer.
CrdtSerialNext == CrdtNext /\ Serially

CrdtSerialSpec == CrdtInit /\ [][CrdtSerialNext]_crdtVars

-----------------------------------------------------------------------------
\* All changes that were put for key k.
ChangesOf(k) == UNION {p.data.v : p \in {p \in issued : p.data.k = k}}

\* No two puts of one key have one timestamp.
DistinctTimes ==
    \A p, q \in issued : p.data.k = q.data.k /\ p.data.t = q.data.t => p = q

\* The changes server s holds for key k.
Held(s, k) == {c \in Change : store[s][k] # NoData /\ c \in store[s][k].v}

\* Of every change put for key k server s holds the one its merge takes for it.
HoldsOneOfEach(s, k) ==
    /\ Held(s, k) \subseteq ChangesOf(k)
    /\ \A c \in ChangesOf(k) : \E d \in Held(s, k) : SameChange(c, d)

(***************************************************************************)
(* A stored document only grows: whatever handleCrdtPut puts in place of   *)
(* it has all its changes, or of a counter one that is the same to its     *)
(* merge, while handlers do not overlap.                                   *)
(***************************************************************************)
DocumentsGrow ==
    [][\A n \in Node, k \in Key :
          store[n][k] # NoData =>
              \A c \in store[n][k].v : \E d \in store'[n][k].v :
                  SameChange(c, d) /\ (kind # "COUNTER" => c = d)]_crdtVars

(***************************************************************************)
(* Concurrent documents are merged: users with equal clocks edit documents *)
(* of their own, get those of others, and put each when the last put has   *)
(* settled; then every server of an open network holds the changes of all  *)
(* (handleCrdtPut's merge).  Two exceptions: a list that throws at its own *)
(* user throws at the servers, and of equal ADDs with one number, which    *)
(* several users made to a counter, a server holds one.                    *)
(***************************************************************************)
UnhurriedPutsMerge ==
    /\ OpenNetwork /\ unhurried /\ Quiescent /\ worn = {} /\ DistinctTimes
    /\ \A n, m \in User : Skew[n] = Skew[m]
    /\ \A p \in issued : Computes(p.data.v)
    => \A s \in Server, k \in Key \ Frozen :
          IF kind = "COUNTER" THEN HoldsOneOfEach(s, k) ELSE Held(s, k) = ChangesOf(k)

(***************************************************************************)
(* "Merge old document with new data incoming and save it": when all has   *)
(* settled every server holds all changes, in whatever order they came.    *)
(***************************************************************************)
PutsMerge ==
    Quiescent /\ worn = {} /\ DistinctTimes =>
        \A s \in Server, k \in Key : Held(s, k) = ChangesOf(k)
=============================================================================
