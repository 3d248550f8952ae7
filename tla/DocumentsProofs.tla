--------------------------- MODULE DocumentsProofs ---------------------------
(***************************************************************************)
(* Proofs about the documents.  About MapCrdt, for any number of replicas, *)
(* keys and values: what a replica shows is never stale, what was          *)
(* overwritten never comes back, and replicas with an author of their own  *)
(* converge.  About CounterCrdt, for any number of replicas, calls and     *)
(* amounts: who has heard of every call shows the sum of them all.  About  *)
(* ListCrdt, for any number of replicas, calls and elements: a list keeps  *)
(* every element once, in its author's order, and replicas converge.       *)
(***************************************************************************)
EXTENDS MCDocuments, SequenceTheorems, FoldTheorems

\* The fields of a change.
LEMMA ChangeFields ==
    ASSUME NEW c \in Change
    PROVE  /\ c.t \in {"SET", "DEL"} /\ c.k \in Field /\ c.i \in Nat
           /\ c.a \in Author /\ c.a \in Int
           /\ c.v \in Datum \cup {NoDatum}
<1>1. c.t \in {"SET", "DEL"} /\ c.k \in Field /\ c.i \in Nat /\ c.a \in Author
  BY DEF Change
<1>2. c.v \in Datum \cup {NoDatum}
  BY DEF Change
<1>3. Author \subseteq Int
  BY AuthorAssumption
<1> QED BY <1>1, <1>2, <1>3

(***************************************************************************)
(* changesSort orders the changes of one key: two that mergeChanges tells  *)
(* apart are never equal, as the comment in the code says.                 *)
(***************************************************************************)
LEMMA BeforeTotal ==
    ASSUME NEW c \in Change, NEW d \in Change, c.k = d.k
    PROVE  /\ Before(c, d) \/ Before(d, c) \/ SameChange(c, d)
           /\ ~(Before(c, d) /\ Before(d, c))
           /\ SameChange(c, d) => ~Before(c, d)
BY ChangeFields DEF Before, SameChange

\* The order is transitive, and does not tell apart what SameChange does not.
LEMMA BeforeTransitive ==
    ASSUME NEW c \in Change, NEW d \in Change, NEW e \in Change
    PROVE  /\ Before(c, d) /\ Before(d, e) => Before(c, e)
           /\ Before(c, d) /\ SameChange(d, e) => Before(c, e)
BY ChangeFields DEF Before, SameChange

(***************************************************************************)
(* Merging two documents gives a document: no change twice, and one that   *)
(* applies last for every key.                                             *)
(***************************************************************************)
LEMMA MergedDistinct ==
    ASSUME NEW S \in SUBSET Change, NEW T \in SUBSET Change,
           DistinctIn(S), DistinctIn(T)
    PROVE  DistinctIn(Merged(S, T)) /\ Merged(S, T) \in SUBSET Change
BY DEF DistinctIn, Merged, SameChange

\* What changesSort orders in two documents it orders in their merge.
LEMMA MergedOrdered ==
    ASSUME NEW S \in SUBSET Change, NEW T \in SUBSET Change,
           OrderedIn(S), OrderedIn(T)
    PROVE  OrderedIn(Merged(S, T))
<1> DEFINE M == Merged(S, T)
<1>1. \A c \in M : c \in S \/ (c \in T /\ \A d \in S : ~SameChange(c, d))
  BY DEF Merged
<1>2. S \subseteq M /\ \A c \in T : (\A d \in S : ~SameChange(c, d)) => c \in M
  BY DEF Merged
<1> SUFFICES ASSUME NEW k \in Field, Of(M, k) # {}
             PROVE  \E c \in M : IsLast(c, M, k)
  BY DEF OrderedIn
<1> HIDE DEF M
<1>3. CASE Of(S, k) = {}
  <2>1. PICK t \in T : IsLast(t, T, k)
    BY <1>1, <1>3 DEF OrderedIn, Of
  <2>2. t \in M
    BY <1>2, <1>3, <2>1 DEF Of, IsLast, SameChange
  <2> QED BY <1>1, <1>3, <2>1, <2>2 DEF Of, IsLast
<1>4. CASE Of(S, k) # {} /\ Of(T, k) = {}
  <2>1. PICK s \in S : IsLast(s, S, k)
    BY <1>4 DEF OrderedIn
  <2> QED BY <1>1, <1>2, <1>4, <2>1 DEF Of, IsLast
<1>5. CASE Of(S, k) # {} /\ Of(T, k) # {}
  <2>1. PICK s \in S : IsLast(s, S, k)
    BY <1>5 DEF OrderedIn
  <2>2. PICK t \in T : IsLast(t, T, k)
    BY <1>5 DEF OrderedIn
  <2>3. s.k = k /\ t.k = k /\ s \in Change /\ t \in Change
    BY <2>1, <2>2 DEF IsLast, Of
  <2>4. CASE Before(s, t)
    <3>1. \A d \in S : ~SameChange(t, d)
      <4> SUFFICES ASSUME NEW d \in S, SameChange(t, d) PROVE FALSE
        OBVIOUS
      <4>1. d.k = k /\ d \in Change /\ (d = s \/ Before(d, s))
        BY <2>1, <2>3 DEF IsLast, Of, SameChange
      <4>2. Before(s, d)
        BY <2>3, <2>4, <4>1, BeforeTransitive
      <4> QED BY <2>3, <4>1, <4>2, BeforeTotal
    <3>2. t \in M
      BY <1>2, <3>1
    <3>3. ASSUME NEW d \in Of(M, k), d # t
          PROVE  Before(d, t)
      <4>1. CASE d \in S
        <5>1. d \in Change /\ (d = s \/ Before(d, s))
          BY <2>1, <3>3, <4>1 DEF IsLast, Of
        <5> QED BY <2>3, <2>4, <5>1, BeforeTransitive
      <4>2. CASE d \in T
        BY <2>2, <3>3, <4>2 DEF IsLast, Of
      <4> QED BY <1>1, <3>3, <4>1, <4>2 DEF Of
    <3> QED BY <2>3, <3>2, <3>3 DEF IsLast, Of
  <2>5. CASE Before(t, s) \/ SameChange(t, s)
    <3>1. ASSUME NEW d \in Of(M, k), d # s
          PROVE  Before(d, s)
      <4>1. CASE d \in S
        BY <2>1, <3>1, <4>1 DEF IsLast, Of
      <4>2. CASE d \in T /\ \A e \in S : ~SameChange(d, e)
        <5>1. d \in Change /\ (d = t \/ Before(d, t))
          BY <2>2, <3>1, <4>2 DEF IsLast, Of
        <5> QED BY <2>3, <2>5, <4>2, <5>1, BeforeTransitive
      <4> QED BY <1>1, <3>1, <4>1, <4>2 DEF Of
    <3> QED BY <1>2, <2>3, <3>1 DEF IsLast, Of
  <2> QED BY <2>3, <2>4, <2>5, BeforeTotal DEF SameChange
<1> QED BY <1>3, <1>4, <1>5

(***************************************************************************)
(* A change with an index above those of its key joins a document.         *)
(***************************************************************************)
LEMMA AddedChange ==
    ASSUME NEW S \in SUBSET Change, DistinctIn(S), OrderedIn(S),
           NEW c \in Change, \A d \in Of(S, c.k) : d.i < c.i
    PROVE  /\ c \notin S
           /\ DistinctIn(S \cup {c})
           /\ OrderedIn(S \cup {c})
<1>1. c.i \in Int /\ \A d \in S : d.i \in Int
  BY DEF Change
<1>2. c \notin S
  BY <1>1 DEF Of
<1>3. \A d \in S : ~SameChange(c, d) /\ ~SameChange(d, c)
  BY <1>1 DEF Of, SameChange
<1>4. DistinctIn(S \cup {c})
  BY <1>3 DEF DistinctIn
<1>5. ASSUME NEW k \in Field, Of(S \cup {c}, k) # {}
      PROVE  \E l \in S \cup {c} : IsLast(l, S \cup {c}, k)
  <2>1. CASE k = c.k
    <3>1. \A d \in Of(S \cup {c}, k) : d = c \/ Before(d, c)
      BY <2>1 DEF Of, Before
    <3> QED BY <2>1, <3>1 DEF IsLast, Of
  <2>2. CASE k # c.k
    <3>1. Of(S \cup {c}, k) = Of(S, k)
      BY <2>2 DEF Of
    <3> QED BY <1>5, <3>1 DEF OrderedIn, IsLast
  <2> QED BY <2>1, <2>2
<1> QED BY <1>2, <1>4, <1>5 DEF OrderedIn

-----------------------------------------------------------------------------
\* The change that applies last, the value and the indices of a document.
LEMMA LastOfDocument ==
    ASSUME NEW S \in SUBSET Change, OrderedIn(S), NEW k \in Field, Of(S, k) # {}
    PROVE  IsLast(LastOf(S, k), S, k) /\ LastOf(S, k) \in S
BY DEF OrderedIn, LastOf

\* The types of the values and indices that a document has.
LEMMA DocumentTypes ==
    ASSUME NEW S \in SUBSET Change, OrderedIn(S), NEW index \in [Field -> Nat]
    PROVE  /\ ValueOf(S) \in [Field -> Datum \cup {NoDatum}]
           /\ KeyIndexOf(S, index) \in [Field -> Nat]
           /\ \A c \in S : c.i <= KeyIndexOf(S, index)[c.k]
<1>1. \A k \in Field : Of(S, k) # {} =>
         /\ LastOf(S, k).v \in Datum \cup {NoDatum}
         /\ LastOf(S, k).i \in Nat
  BY LastOfDocument, ChangeFields
<1>2. ASSUME NEW c \in S
      PROVE  c.i <= KeyIndexOf(S, index)[c.k]
  <2>1. c.k \in Field /\ c.i \in Nat /\ c \in Of(S, c.k)
    BY ChangeFields DEF Of
  <2>2. KeyIndexOf(S, index)[c.k] = LastOf(S, c.k).i /\ LastOf(S, c.k).i \in Nat
    BY <1>1, <2>1 DEF KeyIndexOf
  <2>3. c = LastOf(S, c.k) \/ Before(c, LastOf(S, c.k))
    BY <2>1, LastOfDocument DEF IsLast
  <2> QED BY <2>1, <2>2, <2>3 DEF Before
<1> QED BY <1>1, <1>2 DEF ValueOf, KeyIndexOf

(***************************************************************************)
(* calculate on a document that has all the changes of the one it          *)
(* replaces: when their numbers are equal they are the same document, so   *)
(* nothing goes stale.                                                     *)
(***************************************************************************)
LEMMA CalculateKeeps ==
    ASSUME ReplicaInv, NEW r \in Replica, NEW S \in SUBSET Change,
           changes[r] \subseteq S, IsFiniteSet(S), OrderedIn(S),
           NEW index \in [Field -> Nat],
           S = changes[r] => index = keyIndex[r],
           Calculate(r, S, index)
    PROVE  /\ changes' = [changes EXCEPT ![r] = S]
           /\ value' \in [Replica -> [Field -> Datum \cup {NoDatum}]]
           /\ keyIndex' \in [Replica -> [Field -> Nat]]
           /\ lastUpdateSize' \in [Replica -> Nat]
           /\ \A s \in Replica : lastUpdateSize'[s] = Cardinality(changes'[s])
           /\ Indexed'
           /\ NeverStale'
<1>1. TypeOK /\ Indexed /\ Sized /\ NeverStale
  BY DEF ReplicaInv
<1>2. Cardinality(S) \in Nat
  BY FS_CardinalityType
<1>3. changes' = [changes EXCEPT ![r] = S]
  BY DEF Calculate
<1>4. CASE Cardinality(S) = lastUpdateSize[r]
  <2>1. S = changes[r]
    BY <1>1, <1>4, FS_Subset DEF Sized
  <2>2. UNCHANGED <<changes, value, keyIndex, lastUpdateSize>>
    BY <1>1, <1>3, <1>4, <2>1 DEF Calculate, TypeOK
  <2> QED BY <1>1, <1>3, <2>2 DEF TypeOK, Sized, Indexed, NeverStale
<1>5. CASE Cardinality(S) # lastUpdateSize[r]
  <2>1. /\ value' = [value EXCEPT ![r] = ValueOf(S)]
        /\ keyIndex' = [keyIndex EXCEPT ![r] = KeyIndexOf(S, index)]
        /\ lastUpdateSize' = [lastUpdateSize EXCEPT ![r] = Cardinality(S)]
    BY <1>5 DEF Calculate
  <2>2. Indexed'
    BY <1>1, <1>3, <2>1, DocumentTypes DEF TypeOK, Indexed
  <2> QED BY <1>1, <1>2, <1>3, <2>1, <2>2, DocumentTypes DEF TypeOK, Sized, NeverStale
<1> QED BY <1>4, <1>5

\* A call of SET or DEL: the new change applies after every other of its key.
LEMMA MakeKeeps ==
    ASSUME ReplicaInv, NEW r \in Replica, NEW c \in Change,
           c.i = NextIndex(r, c.k), Make(r, c)
    PROVE  ReplicaInv' /\ c \notin changes[r] /\ changes'[r] = changes[r] \cup {c}
<1>1. TypeOK /\ Distinct /\ Ordered /\ Indexed /\ Sized /\ Overwritten
  BY DEF ReplicaInv
<1> DEFINE S == changes[r] \cup {c}
           index == [keyIndex[r] EXCEPT ![c.k] = c.i]
<1>2. /\ Calculate(r, S, index)
      /\ made' = made \cup {[change |-> c, over |-> Of(changes[r], c.k)]}
      /\ sent' = sent
  BY DEF Make
<1>3. c.k \in Field /\ c.i \in Nat /\ c.i = keyIndex[r][c.k] + 1
  BY ChangeFields DEF NextIndex
<1>4. /\ changes[r] \in SUBSET Change /\ changes[r] \in Docs
      /\ keyIndex[r] \in [Field -> Nat]
  BY <1>1 DEF TypeOK, Docs
<1>5. \A d \in Of(changes[r], c.k) : d \in Change /\ d.i < c.i
  <2> SUFFICES ASSUME NEW d \in Of(changes[r], c.k) PROVE d \in Change /\ d.i < c.i
    OBVIOUS
  <2>1. d \in changes[r] /\ d \in Change /\ d.k = c.k
    BY <1>4 DEF Of
  <2>2. d.i <= keyIndex[r][c.k] /\ d.i \in Nat /\ keyIndex[r][c.k] \in Nat
    BY <1>1, <1>3, <1>4, <2>1, ChangeFields DEF Indexed
  <2> QED BY <1>3, <2>1, <2>2
<1>6. c \notin changes[r] /\ DistinctIn(S) /\ OrderedIn(S)
  BY <1>1, <1>4, <1>5, AddedChange DEF Distinct, Ordered
<1>7. IsFiniteSet(S)
  BY <1>1, <1>4, FS_AddElement DEF Sized
<1>8. index \in [Field -> Nat] /\ S \in SUBSET Change /\ changes[r] \subseteq S
      /\ S # changes[r]
  BY <1>3, <1>4, <1>6
<1> HIDE DEF S, index
<1>9. /\ changes' = [changes EXCEPT ![r] = S]
      /\ value' \in [Replica -> [Field -> Datum \cup {NoDatum}]]
      /\ keyIndex' \in [Replica -> [Field -> Nat]]
      /\ lastUpdateSize' \in [Replica -> Nat]
      /\ \A s \in Replica : lastUpdateSize'[s] = Cardinality(changes'[s])
      /\ Indexed'
      /\ NeverStale'
  BY <1>2, <1>6, <1>7, <1>8, CalculateKeeps
<1>10. Docs' \subseteq Docs \cup {S}
  BY <1>1, <1>2, <1>9 DEF Docs, TypeOK
<1>11. Distinct' /\ Ordered' /\ \A T \in Docs' : IsFiniteSet(T)
  BY <1>1, <1>6, <1>7, <1>10 DEF Distinct, Ordered, Sized
<1>12. Overwritten'
  <2>1. \A d \in Of(changes[r], c.k) : d.k = c.k /\ Before(d, c)
    BY <1>5 DEF Of, Before
  <2> QED BY <1>1, <1>2, <2>1 DEF Overwritten
<1>13. TypeOK'
  <2>1. [change |-> c, over |-> Of(changes[r], c.k)] \in [change : Change, over : SUBSET Change]
    BY <1>4 DEF Of
  <2> QED BY <1>1, <1>2, <1>8, <1>9, <2>1 DEF TypeOK
<1>14. changes'[r] = S
  BY <1>1, <1>9 DEF TypeOK
<1> QED BY <1>6, <1>9, <1>11, <1>12, <1>13, <1>14 DEF ReplicaInv, Sized, S

\* SET and DEL make a change of the replica's author, with the next index.
LEMMA SetAndDelMake ==
    ASSUME TypeOK, NEW r \in Replica, NEW k \in Field
    PROVE  /\ \A v \in Datum : Set(r, k, v) =>
                 \E c \in Change : c.i = NextIndex(r, c.k) /\ c.a = AuthorOf[r] /\ Make(r, c)
           /\ Del(r, k) =>
                 \E c \in Change : c.i = NextIndex(r, c.k) /\ c.a = AuthorOf[r] /\ Make(r, c)
<1>1. NextIndex(r, k) \in Nat /\ AuthorOf[r] \in Author
  BY AuthorOfAssumption DEF TypeOK, NextIndex
<1>2. ASSUME NEW v \in Datum, Set(r, k, v)
      PROVE  \E c \in Change : c.i = NextIndex(r, c.k) /\ c.a = AuthorOf[r] /\ Make(r, c)
  <2> DEFINE c == [t |-> "SET", k |-> k, a |-> AuthorOf[r], i |-> NextIndex(r, k), v |-> v]
  <2>1. c \in Change /\ c.i = NextIndex(r, c.k) /\ c.a = AuthorOf[r] /\ Make(r, c)
    BY <1>1, <1>2 DEF Change, Set
  <2> HIDE DEF c
  <2> QED BY <2>1
<1>3. ASSUME Del(r, k)
      PROVE  \E c \in Change : c.i = NextIndex(r, c.k) /\ c.a = AuthorOf[r] /\ Make(r, c)
  <2> DEFINE c == [t |-> "DEL", k |-> k, a |-> AuthorOf[r], i |-> NextIndex(r, k),
                   v |-> NoDatum]
  <2>1. c \in Change /\ c.i = NextIndex(r, c.k) /\ c.a = AuthorOf[r] /\ Make(r, c)
    BY <1>1, <1>3 DEF Change, Del
  <2> HIDE DEF c
  <2> QED BY <2>1
<1> QED BY <1>2, <1>3

\* Merging an array that was sent.
LEMMA MergeKeeps ==
    ASSUME ReplicaInv, NEW r \in Replica, NEW S \in sent, MergeChanges(r, S)
    PROVE  ReplicaInv' /\ changes'[r] = Merged(changes[r], S)
<1>1. TypeOK /\ Distinct /\ Ordered /\ Indexed /\ Sized /\ Overwritten
  BY DEF ReplicaInv
<1>2. /\ changes[r] \in SUBSET Change /\ S \in SUBSET Change
      /\ changes[r] \in Docs /\ S \in Docs /\ keyIndex[r] \in [Field -> Nat]
  BY <1>1 DEF TypeOK, Docs
<1> DEFINE M == Merged(changes[r], S)
<1>3. M \in SUBSET Change /\ DistinctIn(M) /\ OrderedIn(M)
  BY <1>1, <1>2, MergedDistinct, MergedOrdered DEF Distinct, Ordered
<1>4. changes[r] \subseteq M /\ M \subseteq changes[r] \cup S
  BY DEF Merged
<1>5. IsFiniteSet(M)
  BY <1>1, <1>2, <1>4, FS_Union, FS_Subset DEF Sized
<1>6. Calculate(r, M, keyIndex[r]) /\ UNCHANGED <<sent, made>>
  BY DEF MergeChanges
<1> HIDE DEF M
<1>7. /\ changes' = [changes EXCEPT ![r] = M]
      /\ value' \in [Replica -> [Field -> Datum \cup {NoDatum}]]
      /\ keyIndex' \in [Replica -> [Field -> Nat]]
      /\ lastUpdateSize' \in [Replica -> Nat]
      /\ \A s \in Replica : lastUpdateSize'[s] = Cardinality(changes'[s])
      /\ Indexed'
      /\ NeverStale'
  BY <1>2, <1>3, <1>4, <1>5, <1>6, CalculateKeeps
<1>8. Docs' \subseteq Docs \cup {M} /\ changes'[r] = M
  BY <1>1, <1>6, <1>7 DEF Docs, TypeOK
<1>9. Distinct' /\ Ordered' /\ Sized'
  BY <1>1, <1>3, <1>5, <1>7, <1>8 DEF Distinct, Ordered, Sized
<1>10. TypeOK' /\ Overwritten'
  BY <1>1, <1>3, <1>6, <1>7 DEF TypeOK, Overwritten
<1> QED BY <1>7, <1>8, <1>9, <1>10 DEF ReplicaInv, M

\* Constructing a replica anew from an array that was sent, or from nothing.
LEMMA ReopenKeeps ==
    ASSUME ReplicaInv, NEW r \in Replica, NEW S \in sent \cup {{}}, Reopen(r, S)
    PROVE  ReplicaInv' /\ changes'[r] = S
<1>1. TypeOK /\ Distinct /\ Ordered /\ Indexed /\ Sized /\ NeverStale /\ Overwritten
  BY DEF ReplicaInv
<1>2. S \in SUBSET Change /\ DistinctIn(S) /\ OrderedIn(S) /\ IsFiniteSet(S)
  <2>1. CASE S \in sent
    BY <1>1, <2>1 DEF TypeOK, Docs, Distinct, Ordered, Sized
  <2>2. CASE S = {}
    BY <2>2, FS_EmptySet DEF DistinctIn, OrderedIn, Of
  <2> QED BY <2>1, <2>2
<1> DEFINE index == [k \in Field |-> 0]
<1>3. index \in [Field -> Nat] /\ Cardinality(S) \in Nat
  BY <1>2, FS_CardinalityType
<1>4. /\ changes' = [changes EXCEPT ![r] = S]
      /\ value' = [value EXCEPT ![r] = ValueOf(S)]
      /\ keyIndex' = [keyIndex EXCEPT ![r] = KeyIndexOf(S, index)]
      /\ lastUpdateSize' = [lastUpdateSize EXCEPT ![r] = Cardinality(S)]
      /\ UNCHANGED <<sent, made>>
  BY DEF Reopen
<1> HIDE DEF index
<1>5. Docs' \subseteq Docs \cup {S} /\ changes'[r] = S
  BY <1>1, <1>4 DEF Docs, TypeOK
<1>6. Distinct' /\ Ordered' /\ Sized'
  BY <1>1, <1>2, <1>4, <1>5 DEF Distinct, Ordered, Sized, TypeOK
<1>7. TypeOK'
  BY <1>1, <1>2, <1>3, <1>4, DocumentTypes DEF TypeOK
<1>8. Indexed' /\ NeverStale' /\ Overwritten'
  BY <1>1, <1>2, <1>3, <1>4, DocumentTypes DEF TypeOK, Indexed, NeverStale, Overwritten
<1> QED BY <1>5, <1>6, <1>7, <1>8 DEF ReplicaInv

-----------------------------------------------------------------------------
(***************************************************************************)
(* ReplicaInv is an invariant, whatever the authors of the replicas and    *)
(* whatever they forget.                                                   *)
(***************************************************************************)
LEMMA ReplicaInvStep == ReplicaInv /\ [Next]_vars => ReplicaInv'
<1> SUFFICES ASSUME ReplicaInv, [Next]_vars PROVE ReplicaInv'
  OBVIOUS
<1>0. TypeOK
  BY DEF ReplicaInv
<1>1. ASSUME NEW r \in Replica, NEW k \in Field, NEW v \in Datum, Set(r, k, v)
      PROVE  ReplicaInv'
  BY <1>0, <1>1, SetAndDelMake, MakeKeeps
<1>2. ASSUME NEW r \in Replica, NEW k \in Field, Del(r, k)
      PROVE  ReplicaInv'
  BY <1>0, <1>2, SetAndDelMake, MakeKeeps
<1>3. ASSUME NEW r \in Replica, Send(r)
      PROVE  ReplicaInv'
  <2>1. Docs' = Docs
    BY <1>3 DEF Send, Docs
  <2> QED BY <1>3, <2>1 DEF Send, ReplicaInv, TypeOK, Distinct, Ordered, Indexed,
                            Sized, NeverStale, Overwritten
<1>4. ASSUME NEW r \in Replica, NEW S \in sent, MergeChanges(r, S)
      PROVE  ReplicaInv'
  BY <1>4, MergeKeeps
<1>5. ASSUME NEW r \in Replica, NEW S \in sent \cup {{}}, Reopen(r, S)
      PROVE  ReplicaInv'
  BY <1>5, ReopenKeeps
<1>6. CASE UNCHANGED vars
  BY <1>6 DEF vars, ReplicaInv, TypeOK, Docs, Distinct, Ordered, Indexed, Sized,
              NeverStale, Overwritten
<1> QED BY <1>1, <1>2, <1>3, <1>4, <1>5, <1>6 DEF Next

\* It holds of new documents.
LEMMA ReplicaBegins == Init => ReplicaInv
<1> SUFFICES ASSUME Init PROVE ReplicaInv
  OBVIOUS
<1>1. Docs \subseteq {{}}
  BY DEF Init, Docs
<1>2. ValueOf({}) = [k \in Field |-> NoDatum]
  BY DEF ValueOf, Of
<1>3. TypeOK /\ NeverStale /\ Indexed /\ Overwritten
  BY <1>2 DEF Init, TypeOK, NeverStale, Indexed, Overwritten
<1>4. Distinct /\ Ordered /\ Sized
  BY <1>1, FS_EmptySet DEF Init, Distinct, DistinctIn, Ordered, OrderedIn, Of, Sized
<1> QED BY <1>3, <1>4 DEF ReplicaInv

\* What holds of every document and every array sent, whoever merges what and when.
THEOREM ReplicaInvariant == Spec => []ReplicaInv
BY ReplicaBegins, ReplicaInvStep, PTL DEF Spec

(***************************************************************************)
(* The shortcut of calculate never leaves a stale value behind.            *)
(***************************************************************************)
THEOREM Fresh == Spec => []NeverStale
<1>1. ReplicaInv => NeverStale
  BY DEF ReplicaInv
<1> QED BY <1>1, ReplicaInvariant, PTL

(***************************************************************************)
(* A replica that has a change shows no value of that key which the        *)
(* author of the change had seen: what is overwritten stays overwritten,   *)
(* even when replicas forget or share an author.                           *)
(***************************************************************************)
THEOREM NoResurrection == Spec => []NeverResurrected
<1>1. ReplicaInv => NeverResurrected
  <2> SUFFICES ASSUME ReplicaInv, NEW m \in made, NEW r \in Replica,
                      m.change \in changes[r], NEW d \in m.over,
                      IsLast(d, changes[r], d.k)
               PROVE  FALSE
    BY DEF NeverResurrected
  <2>1. d.k = m.change.k /\ Before(d, m.change)
    BY DEF ReplicaInv, Overwritten
  <2>2. m.change \in Change /\ d \in Change
    BY DEF ReplicaInv, TypeOK, IsLast, Of
  <2>3. m.change = d \/ Before(m.change, d)
    BY <2>1 DEF IsLast, Of
  <2> QED BY <2>1, <2>2, <2>3, BeforeTotal DEF SameChange
<1> QED BY <1>1, ReplicaInvariant, PTL

-----------------------------------------------------------------------------
(***************************************************************************)
(* With an author for each replica and nothing forgotten, the changes of   *)
(* an author are all with its replica.                                     *)
(***************************************************************************)
LEMMA HomesStep ==
    ASSUME OneAuthorEach
    PROVE  ReplicaInv /\ Homes /\ [Next]_vars => Homes'
<1> SUFFICES ASSUME ReplicaInv, Homes, [Next]_vars PROVE Homes'
  OBVIOUS
<1>0. TypeOK
  BY DEF ReplicaInv
<1>1. ASSUME NEW r \in Replica, NEW c \in Change, c.i = NextIndex(r, c.k),
             c.a = AuthorOf[r], Make(r, c)
      PROVE  Homes'
  <2>1. changes'[r] = changes[r] \cup {c} /\ sent' = sent
        /\ \A s \in Replica \ {r} : changes'[s] = changes[s]
    BY <1>0, <1>1, MakeKeeps DEF Make, Calculate, TypeOK
  <2>2. ASSUME NEW S \in Docs', NEW d \in S
        PROVE  d = c \/ \E T \in Docs : d \in T
    BY <2>1, <2>2 DEF Docs
  <2>3. ASSUME NEW s \in Replica, AuthorOf[s] = c.a
        PROVE  c \in changes'[s]
    BY <1>1, <2>1, <2>3 DEF OneAuthorEach
  <2> QED BY <1>1, <2>1, <2>2, <2>3 DEF Homes
<1>2. ASSUME NEW r \in Replica, NEW k \in Field, NEW v \in Datum, Set(r, k, v)
      PROVE  Homes'
  BY <1>0, <1>1, <1>2, SetAndDelMake
<1>3. ASSUME NEW r \in Replica, NEW k \in Field, Del(r, k)
      PROVE  Homes'
  BY <1>0, <1>1, <1>3, SetAndDelMake
<1>4. ASSUME NEW r \in Replica, Send(r)
      PROVE  Homes'
  BY <1>4 DEF Send, Docs, Homes
<1>5. ASSUME NEW r \in Replica, NEW S \in sent, MergeChanges(r, S)
      PROVE  Homes'
  <2>1. changes'[r] = Merged(changes[r], S) /\ sent' = sent
        /\ \A s \in Replica \ {r} : changes'[s] = changes[s]
    BY <1>0, <1>5, MergeKeeps DEF MergeChanges, Calculate, TypeOK
  <2>2. ASSUME NEW T \in Docs', NEW d \in T
        PROVE  \E U \in Docs : d \in U
    BY <2>1, <2>2 DEF Docs, Merged
  <2>3. \A s \in Replica : changes[s] \subseteq changes'[s]
    BY <2>1 DEF Merged
  <2> QED BY <2>2, <2>3 DEF Homes
<1>6. ASSUME NEW r \in Replica, NEW S \in sent \cup {{}}, Reopen(r, S)
      PROVE  Homes'
  <2>1. changes'[r] = S /\ sent' = sent /\ Own(r) \subseteq S
        /\ \A s \in Replica \ {r} : changes'[s] = changes[s]
    BY <1>0, <1>6, ReopenKeeps DEF Reopen, TypeOK, OneAuthorEach
  <2>2. ASSUME NEW T \in Docs', NEW d \in T
        PROVE  \E U \in Docs : d \in U
    BY <2>1, <2>2 DEF Docs
  <2>3. ASSUME NEW s \in Replica, NEW d \in changes[s], AuthorOf[s] = d.a
        PROVE  d \in changes'[s]
    BY <2>1, <2>3 DEF Own
  <2> QED BY <2>2, <2>3 DEF Homes
<1>7. CASE UNCHANGED vars
  BY <1>7 DEF vars, Docs, Homes
<1> QED BY <1>2, <1>3, <1>4, <1>5, <1>6, <1>7 DEF Next

\* A change of an author is always with its replica: Reopen never starts without it.
THEOREM HomesInvariant == ASSUME OneAuthorEach PROVE Spec => []Homes
<1>1. Init => Homes
  BY DEF Init, Docs, Homes
<1>2. ReplicaInv /\ Homes /\ [Next]_vars => Homes'
  BY HomesStep
<1> QED BY <1>1, <1>2, ReplicaInvariant, PTL DEF Spec

\* Two changes of two documents that mergeChanges takes for one are one.
LEMMA OneChange ==
    ASSUME ReplicaInv, Homes, NEW S \in Docs, NEW T \in Docs,
           NEW c \in S, NEW d \in T, SameChange(c, d)
    PROVE  c = d
<1>1. PICK r \in Replica : AuthorOf[r] = c.a
  BY DEF Homes
<1>2. c \in changes[r] /\ d \in changes[r]
  BY <1>1 DEF Homes, SameChange
<1> QED BY <1>2 DEF ReplicaInv, Distinct, DistinctIn, Docs

(***************************************************************************)
(* Convergence: replicas that received the same changes hold the same map. *)
(***************************************************************************)
THEOREM Converge == ASSUME OneAuthorEach PROVE Spec => []Convergence
<1>1. ReplicaInv /\ Homes => Convergence
  <2> SUFFICES ASSUME ReplicaInv, Homes, NEW r \in Replica, NEW s \in Replica,
                      Synced(r, s)
               PROVE  value[r] = value[s]
    BY DEF Convergence
  <2>1. changes[r] \in Docs /\ changes[s] \in Docs
    BY DEF Docs
  <2>2. changes[s] \subseteq changes[r]
    BY <2>1, OneChange DEF Synced, Covers
  <2>3. changes[r] \subseteq changes[s]
    BY <2>1, OneChange DEF Synced, Covers
  <2>4. changes[r] = changes[s]
    BY <2>2, <2>3
  <2>5. NeverStale
    BY DEF ReplicaInv
  <2> QED BY <2>4, <2>5 DEF NeverStale
<1> QED BY <1>1, ReplicaInvariant, HomesInvariant, PTL

(***************************************************************************)
(* mergeChanges loses nothing.                                             *)
(***************************************************************************)
THEOREM MergeIsUnion == ASSUME OneAuthorEach PROVE Spec => MergeKeepsAll
<1>1. ASSUME ReplicaInv, Homes, NEW r \in Replica, NEW S \in sent, MergeChanges(r, S)
      PROVE  S \cup changes[r] \subseteq changes'[r]
  <2>1. changes'[r] = Merged(changes[r], S)
    BY <1>1, MergeKeeps
  <2>2. changes[r] \in Docs /\ S \in Docs
    BY DEF Docs
  <2>3. \A c \in S : c \in changes[r] \/ \A d \in changes[r] : ~SameChange(c, d)
    BY <1>1, <2>2, OneChange
  <2> QED BY <2>1, <2>3 DEF Merged
<1>2. ReplicaInv /\ Homes /\ [Next]_vars =>
         [\A r \in Replica : \A S \in sent :
             MergeChanges(r, S) => S \cup changes[r] \subseteq changes'[r]]_vars
  BY <1>1
<1> QED BY <1>2, ReplicaInvariant, HomesInvariant, PTL DEF Spec, MergeKeepsAll

-----------------------------------------------------------------------------

Counted == Other!Counter!Change

\* What a set of changes of a counter amounts to, and a sequence of them.
SumOf(S) ==
    (CHOOSE g : g = [s \in SUBSET S |->
        IF s = {} THEN 0
        ELSE Other!Counter!Delta(CHOOSE x \in s : TRUE) + g[s \ {CHOOSE x \in s : TRUE}]])[S]

TotalOf(q) ==
    (CHOOSE g : g = [s \in SUBSET DOMAIN q |->
        IF s = {} THEN 0
        ELSE g[s \ {Greatest(s)}] + Other!Counter!Delta(q[Greatest(s)])])[DOMAIN q]

\* They are the folds of CounterCrdt.
LEMMA SumIsFold == ASSUME NEW S PROVE Other!Counter!ValueOf(S) = SumOf(S)
BY DEF SumOf, Other!Counter!ValueOf, Other!Counter!MapThenSumSet, Other!Counter!MapThenFoldSet

\* The changes have a number.
LEMMA DeltaInt == ASSUME NEW c \in Counted PROVE Other!Counter!Delta(c) \in Int
<1>1. c.v \in Int
  BY AmountAssumption DEF Counted, Other!Counter!Change
<1> QED BY <1>1 DEF Other!Counter!Delta

\* The table that sums go through.
LEMMA SumTable ==
    ASSUME NEW S, IsFiniteSet(S), S \subseteq Counted
    PROVE  \E g, C, H :
              /\ Folds(S, Int, 0, C, H) /\ IsFold(g, S, Int, 0, C, H) /\ g[S] = SumOf(S)
              /\ C = [s \in SUBSET S |-> CHOOSE x \in s : TRUE]
              /\ H = [x \in S |-> [v \in Int |-> Other!Counter!Delta(x) + v]]
<1> DEFINE C == [s \in SUBSET S |-> CHOOSE x \in s : TRUE]
           H == [x \in S |-> [v \in Int |-> Other!Counter!Delta(x) + v]]
           Step(g) == [s \in SUBSET S |->
               IF s = {} THEN 0
               ELSE Other!Counter!Delta(CHOOSE x \in s : TRUE) + g[s \ {CHOOSE x \in s : TRUE}]]
           G == CHOOSE g : g = Step(g)
<1>1. \A x \in S : Other!Counter!Delta(x) \in Int
  BY DeltaInt
<1>2. \A s \in SUBSET S : s # {} => (CHOOSE x \in s : TRUE) \in s
  OBVIOUS
<1>3. Folds(S, Int, 0, C, H)
  <2>1. \A x \in S, v \in Int : H[x][v] \in Int
    BY <1>1
  <2>2. \A s \in SUBSET S : s # {} => C[s] \in s
    BY <1>2
  <2> HIDE DEF C, H
  <2> QED BY <2>1, <2>2 DEF Folds
<1>4. PICK h : IsFold(h, S, Int, 0, C, H)
  <2> HIDE DEF C, H
  <2> QED BY <1>3, FoldExists
<1>5. Folded(h, S, Int, 0, C, H)
  <2> HIDE DEF C, H
  <2> QED BY <1>3, <1>4, FoldValues
<1>6. ASSUME NEW s \in SUBSET S PROVE h[s] = Step(h)[s]
  <2>1. CASE s = {}
    BY <1>5, <2>1 DEF Folded
  <2>2. CASE s # {}
    <3> DEFINE x == CHOOSE x \in s : TRUE
    <3>1. x \in s /\ x \in S /\ s \ {x} \in SUBSET S /\ C[s] = x
      BY <1>2, <2>2
    <3>2. h[s \ {x}] \in Int
      BY <1>5, <3>1 DEF Folded
    <3>3. h[s] = H[x][h[s \ {x}]]
      <4> HIDE DEF x, H, C
      <4> QED BY <1>5, <2>2, <3>1 DEF Folded
    <3> QED BY <2>2, <3>1, <3>2, <3>3
  <2> QED BY <2>1, <2>2
<1>7. h = [s \in SUBSET S |-> h[s]]
  BY <1>4 DEF IsFold
<1>8. h = Step(h)
  BY <1>6, <1>7
<1>9. G = Step(G)
  <2> HIDE DEF Step
  <2> QED BY <1>8
<1>10. IsFold(G, S, Int, 0, C, H)
  <2>1. G = [s \in SUBSET S |-> G[s]] /\ G[{}] = 0
    <3> HIDE DEF G
    <3> QED BY <1>9
  <2>2. ASSUME NEW s \in SUBSET S, s # {}, G[s \ {C[s]}] \in Int
        PROVE  G[s] = H[C[s]][G[s \ {C[s]}]]
    <3> DEFINE x == CHOOSE x \in s : TRUE
    <3>1. x \in S /\ C[s] = x
      BY <1>2, <2>2
    <3> HIDE DEF G
    <3>2. G[s] = Other!Counter!Delta(x) + G[s \ {x}]
      BY <1>9, <2>2
    <3> HIDE DEF x, C
    <3> QED BY <2>2, <3>1, <3>2
  <2> HIDE DEF G, H, C
  <2> QED BY <2>1, <2>2 DEF IsFold
<1>11. G[S] = SumOf(S)
  BY DEF SumOf
<1> HIDE DEF G
<1> QED BY <1>3, <1>10, <1>11

\* Sums are numbers, and any change may be added last.
LEMMA SumAdds ==
    ASSUME NEW S, IsFiniteSet(S), S \subseteq Counted
    PROVE  /\ SumOf(S) \in Int
           /\ S = {} => SumOf(S) = 0
           /\ \A c \in S : SumOf(S) = Other!Counter!Delta(c) + SumOf(S \ {c})
<1>1. PICK g, C, H :
              /\ Folds(S, Int, 0, C, H) /\ IsFold(g, S, Int, 0, C, H) /\ g[S] = SumOf(S)
              /\ C = [s \in SUBSET S |-> CHOOSE x \in s : TRUE]
              /\ H = [x \in S |-> [v \in Int |-> Other!Counter!Delta(x) + v]]
  BY SumTable
<1>2. Folded(g, S, Int, 0, C, H)
  BY <1>1, FoldValues
<1>3. \A x \in S : Other!Counter!Delta(x) \in Int
  BY DeltaInt
<1>4. ASSUME NEW c \in S PROVE SumOf(S) = Other!Counter!Delta(c) + SumOf(S \ {c})
  <2> DEFINE T == S \ {c}
  <2>1. IsFiniteSet(T) /\ T \subseteq Counted /\ T \subseteq S
    BY FS_RemoveElement
  <2>2. PICK h, D, J :
              /\ Folds(T, Int, 0, D, J) /\ IsFold(h, T, Int, 0, D, J) /\ h[T] = SumOf(T)
              /\ D = [s \in SUBSET T |-> CHOOSE x \in s : TRUE]
              /\ J = [x \in T |-> [v \in Int |-> Other!Counter!Delta(x) + v]]
    <3> HIDE DEF T
    <3> QED BY <2>1, SumTable
  <2>3. \A s \in SUBSET T : s # {} => C[s] = D[s]
    BY <1>1, <2>2
  <2>4. \A x \in T, v \in Int : H[x][v] = J[x][v]
    BY <1>1, <2>2
  <2>5. h[T] = g[T]
    <3> HIDE DEF T
    <3>1. \A s \in SUBSET T : h[s] = g[s] /\ h[s] \in Int
      <4>1. Folds(T, Int, 0, D, J) /\ IsFold(h, T, Int, 0, D, J)
        BY <2>2
      <4>2. IsFold(g, S, Int, 0, C, H)
        BY <1>1
      <4> QED BY <4>1, <4>2, <2>1, <2>3, <2>4, FoldUnique
    <3> QED BY <3>1
  <2>6. \A x, y \in S, v \in Int : H[x][H[y][v]] = H[y][H[x][v]]
    <3> SUFFICES ASSUME NEW x \in S, NEW y \in S, NEW v \in Int
                 PROVE  H[x][H[y][v]] = H[y][H[x][v]]
      OBVIOUS
    <3> DEFINE a == Other!Counter!Delta(x)
               b == Other!Counter!Delta(y)
    <3>1. a \in Int /\ b \in Int
      BY <1>3
    <3>2. \A w \in Int : H[x][w] = a + w /\ H[y][w] = b + w
      BY <1>1
    <3> HIDE DEF a, b
    <3>3. H[y][v] = b + v /\ H[x][v] = a + v /\ b + v \in Int /\ a + v \in Int
      BY <3>1, <3>2
    <3> QED BY <3>1, <3>2, <3>3
  <2>7. AnyLast(g, S, H)
    <3>1. Folds(S, Int, 0, C, H) /\ IsFold(g, S, Int, 0, C, H)
      BY <1>1
    <3>2. Commutes(S, Int, H)
      BY <2>6 DEF Commutes
    <3> QED BY <3>1, <3>2, FoldCommutes
  <2>8. g[S] = H[c][g[T]] /\ g[T] \in Int
    BY <1>2, <2>7 DEF Folded, AnyLast
  <2>9. H[c][g[T]] = Other!Counter!Delta(c) + g[T]
    BY <1>1, <2>8
  <2> QED BY <1>1, <2>2, <2>5, <2>8, <2>9
<1>5. SumOf(S) \in Int
  BY <1>1, <1>2 DEF Folded
<1>6. S = {} => SumOf(S) = 0
  BY <1>1, <1>2 DEF Folded
<1> QED BY <1>4, <1>5, <1>6

-----------------------------------------------------------------------------
\* Sums of sequences: the table of their prefixes.
LEMMA TotalTable ==
    ASSUME NEW q \in Seq(Counted)
    PROVE  \E g, C, H :
              /\ Folds(1..Len(q), Int, 0, C, H) /\ IsFold(g, 1..Len(q), Int, 0, C, H)
              /\ g[1..Len(q)] = TotalOf(q)
              /\ C = [s \in SUBSET (1..Len(q)) |-> Greatest(s)]
              /\ H = [i \in 1..Len(q) |-> [v \in Int |-> v + Other!Counter!Delta(q[i])]]
              /\ \A s \in SUBSET (1..Len(q)) : s # {} => C[s] \in s /\ \A y \in s : C[s] >= y
<1> DEFINE n == Len(q)
           S == 1..n
           C == [s \in SUBSET S |-> Greatest(s)]
           H == [i \in S |-> [v \in Int |-> v + Other!Counter!Delta(q[i])]]
           Step(g) == [s \in SUBSET S |->
               IF s = {} THEN 0
               ELSE g[s \ {Greatest(s)}] + Other!Counter!Delta(q[Greatest(s)])]
           G == CHOOSE g : g = Step(g)
<1>0. n \in Nat /\ DOMAIN q = S /\ IsFiniteSet(S)
  BY FS_Interval
<1>1. \A i \in S : Other!Counter!Delta(q[i]) \in Int
  BY DeltaInt
<1>2. ASSUME NEW s \in SUBSET S, s # {}
      PROVE  Greatest(s) \in s /\ \A y \in s : Greatest(s) >= y
  <2>1. \E x \in s : \A y \in s : x >= y
    <3> HIDE DEF n
    <3> QED BY <1>0, <1>2, GreatestExists
  <2> QED BY <2>1 DEF Greatest
<1>3. Folds(S, Int, 0, C, H)
  <2>1. \A x \in S, v \in Int : H[x][v] \in Int
    BY <1>1
  <2>2. \A s \in SUBSET S : s # {} => C[s] \in s
    BY <1>2
  <2> HIDE DEF C, H, S
  <2> QED BY <1>0, <2>1, <2>2 DEF Folds
<1>4. PICK h : IsFold(h, S, Int, 0, C, H)
  <2> HIDE DEF C, H, S
  <2> QED BY <1>3, FoldExists
<1>5. Folded(h, S, Int, 0, C, H)
  <2> HIDE DEF C, H, S
  <2> QED BY <1>3, <1>4, FoldValues
<1>6. ASSUME NEW s \in SUBSET S PROVE h[s] = Step(h)[s]
  <2>1. CASE s = {}
    BY <1>5, <2>1 DEF Folded
  <2>2. CASE s # {}
    <3> DEFINE x == Greatest(s)
    <3>1. x \in s /\ x \in S /\ s \ {x} \in SUBSET S /\ C[s] = x
      BY <1>2, <2>2
    <3>2. h[s \ {x}] \in Int
      BY <1>5, <3>1 DEF Folded
    <3>3. h[s] = H[x][h[s \ {x}]]
      <4> HIDE DEF x, H, C, S
      <4> QED BY <1>5, <2>2, <3>1 DEF Folded
    <3> QED BY <2>2, <3>1, <3>2, <3>3
  <2> QED BY <2>1, <2>2
<1>7. h = [s \in SUBSET S |-> h[s]]
  BY <1>4 DEF IsFold
<1>8. h = Step(h)
  BY <1>6, <1>7
<1>9. G = Step(G)
  <2> HIDE DEF Step
  <2> QED BY <1>8
<1>10. IsFold(G, S, Int, 0, C, H)
  <2>1. G = [s \in SUBSET S |-> G[s]] /\ G[{}] = 0
    <3> HIDE DEF G
    <3> QED BY <1>9
  <2>2. ASSUME NEW s \in SUBSET S, s # {}, G[s \ {C[s]}] \in Int
        PROVE  G[s] = H[C[s]][G[s \ {C[s]}]]
    <3> DEFINE x == Greatest(s)
    <3>1. x \in S /\ C[s] = x
      BY <1>2, <2>2
    <3> HIDE DEF G
    <3>2. G[s] = G[s \ {x}] + Other!Counter!Delta(q[x])
      BY <1>9, <2>2
    <3> HIDE DEF x, C, S
    <3> QED BY <2>2, <3>1, <3>2
  <2> HIDE DEF G, H, C, S
  <2> QED BY <2>1, <2>2 DEF IsFold
<1>11. G[S] = TotalOf(q)
  BY <1>0 DEF TotalOf
<1>12. \A s \in SUBSET S : s # {} => C[s] \in s /\ \A y \in s : C[s] >= y
  BY <1>2
<1> HIDE DEF G
<1> QED BY <1>3, <1>10, <1>11, <1>12

\* The total of a sequence with one more change.
LEMMA TotalAdds ==
    ASSUME NEW q \in Seq(Counted), NEW c \in Counted
    PROVE  TotalOf(q) \in Int /\ TotalOf(Append(q, c)) = TotalOf(q) + Other!Counter!Delta(c)
<1> DEFINE p == Append(q, c)
           n == Len(q)
<1>0. p \in Seq(Counted) /\ Len(p) = n + 1 /\ n \in Nat /\ n + 1 \in Nat
      /\ p[n + 1] = c /\ \A i \in 1..n : p[i] = q[i]
  OBVIOUS
<1>1. PICK g, C, H :
              /\ Folds(1..n, Int, 0, C, H) /\ IsFold(g, 1..n, Int, 0, C, H)
              /\ g[1..n] = TotalOf(q)
              /\ C = [s \in SUBSET (1..n) |-> Greatest(s)]
              /\ H = [i \in 1..n |-> [v \in Int |-> v + Other!Counter!Delta(q[i])]]
              /\ \A s \in SUBSET (1..n) : s # {} => C[s] \in s /\ \A y \in s : C[s] >= y
  BY TotalTable
<1>2. PICK h, D, J :
              /\ Folds(1..(n + 1), Int, 0, D, J) /\ IsFold(h, 1..(n + 1), Int, 0, D, J)
              /\ h[1..(n + 1)] = TotalOf(p)
              /\ D = [s \in SUBSET (1..(n + 1)) |-> Greatest(s)]
              /\ J = [i \in 1..(n + 1) |-> [v \in Int |-> v + Other!Counter!Delta(p[i])]]
              /\ \A s \in SUBSET (1..(n + 1)) : s # {} => D[s] \in s /\ \A y \in s : D[s] >= y
  <2>1. \E h, D, J :
              /\ Folds(1..Len(p), Int, 0, D, J) /\ IsFold(h, 1..Len(p), Int, 0, D, J)
              /\ h[1..Len(p)] = TotalOf(p)
              /\ D = [s \in SUBSET (1..Len(p)) |-> Greatest(s)]
              /\ J = [i \in 1..Len(p) |-> [v \in Int |-> v + Other!Counter!Delta(p[i])]]
              /\ \A s \in SUBSET (1..Len(p)) : s # {} => D[s] \in s /\ \A y \in s : D[s] >= y
    <3> HIDE DEF p
    <3> QED BY <1>0, TotalTable
  <2> HIDE DEF p, n
  <2> QED BY <1>0, <2>1
<1> HIDE DEF p, n
<1>3. 1..n \subseteq 1..(n + 1) /\ SUBSET (1..n) \subseteq SUBSET (1..(n + 1))
  BY <1>0
<1>4. \A s \in SUBSET (1..n) : s # {} => D[s] = C[s]
  BY <1>1, <1>2, <1>3
<1>5. \A i \in 1..n, v \in Int : J[i][v] = H[i][v]
  BY <1>0, <1>1, <1>2, <1>3
<1>6. g[1..n] = h[1..n] /\ g[1..n] \in Int
  <2>1. Folds(1..n, Int, 0, C, H) /\ IsFold(g, 1..n, Int, 0, C, H)
    BY <1>1
  <2>2. IsFold(h, 1..(n + 1), Int, 0, D, J)
    BY <1>2
  <2>3. \A s \in SUBSET (1..n) : g[s] = h[s] /\ g[s] \in Int
    <3> DEFINE S == 1..n
               T == 1..(n + 1)
    <3>1. S \subseteq T /\ Folds(S, Int, 0, C, H) /\ IsFold(g, S, Int, 0, C, H)
          /\ IsFold(h, T, Int, 0, D, J)
      BY <2>1, <2>2, <1>3
    <3>2. \A s \in SUBSET S : s # {} => D[s] = C[s]
      BY <1>4
    <3>3. \A i \in S, v \in Int : J[i][v] = H[i][v]
      BY <1>5
    <3> HIDE DEF S, T
    <3>4. \A s \in SUBSET S : g[s] = h[s] /\ g[s] \in Int
      BY <3>1, <3>2, <3>3, FoldUnique
    <3> QED BY <3>4 DEF S
  <2> QED BY <2>3
<1>7. h[1..(n + 1)] = J[n + 1][h[1..n]]
  <2>1. Folds(1..(n + 1), Int, 0, D, J) /\ IsFold(h, 1..(n + 1), Int, 0, D, J)
    BY <1>2
  <2>2. \A s \in SUBSET (1..(n + 1)) : s # {} => D[s] \in s /\ \A y \in s : D[s] >= y
    BY <1>2
  <2>3. \A i \in 1..(n + 1) : h[1..i] = J[i][h[1..(i - 1)]]
    BY <2>1, <2>2, <1>0, FoldInOrder
  <2>4. n + 1 \in 1..(n + 1) /\ (n + 1) - 1 = n
    BY <1>0
  <2> QED BY <2>3, <2>4
<1>8. J[n + 1][h[1..n]] = h[1..n] + Other!Counter!Delta(c)
  BY <1>0, <1>2, <1>6
<1> QED BY <1>1, <1>2, <1>6, <1>7, <1>8 DEF p

\* The empty sequence amounts to nothing.
LEMMA TotalEmpty == TotalOf(<<>>) = 0
<1>1. <<>> \in Seq(Counted) /\ Len(<<>>) = 0
  OBVIOUS
<1>2. PICK g, C, H :
              /\ Folds(1..0, Int, 0, C, H) /\ IsFold(g, 1..0, Int, 0, C, H)
              /\ g[1..0] = TotalOf(<<>>)
  <2>1. \E g, C, H :
              /\ Folds(1..Len(<<>>), Int, 0, C, H) /\ IsFold(g, 1..Len(<<>>), Int, 0, C, H)
              /\ g[1..Len(<<>>)] = TotalOf(<<>>)
    BY <1>1, TotalTable, Zenon
  <2> QED BY <1>1, <2>1
<1>3. 1..0 = {}
  OBVIOUS
<1> QED BY <1>2, <1>3 DEF IsFold

-----------------------------------------------------------------------------
\* The calls that were made on the counter.
Called == {calls[n] : n \in DOMAIN calls}

OwnCounts(r, S) == {c \in S : c.a = r}

(***************************************************************************)
(* The invariant of a counter.  A replica has all changes of its own       *)
(* author, with indices below their number (NumberedOK), so that no two    *)
(* calls make changes that mergeChanges takes for one (EachOnce); it shows *)
(* the sum of the changes it has.                                          *)
(***************************************************************************)
CounterTyped ==
    /\ entries \in [Counting -> SUBSET Counted]
    /\ number \in [Counting -> Int]
    /\ updateSize \in [Counting -> Nat]
    /\ \A S \in broadcast : S \subseteq Counted
    /\ calls \in Seq(Counted)

KnownCalls ==
    /\ \A r \in Counting : entries[r] \subseteq Called /\ IsFiniteSet(entries[r])
    /\ \A S \in broadcast : S \subseteq Called /\ IsFiniteSet(S)

EachOnce ==
    \A m, n \in DOMAIN calls : Other!Counter!SameChange(calls[m], calls[n]) => m = n

NumberedOK ==
    \A r \in Counting : \A c \in OwnCounts(r, Called) :
        c \in entries[r] /\ c.i < Cardinality(OwnCounts(r, entries[r]))

Summed ==
    /\ \A r \in Counting : /\ number[r] = SumOf(entries[r])
                           /\ updateSize[r] = Cardinality(entries[r])
    /\ IsFiniteSet(Called) /\ TotalOf(calls) = SumOf(Called)

CountInv == CounterTyped /\ KnownCalls /\ EachOnce /\ NumberedOK /\ Summed

\* The replicas of the counter are their authors.
LEMMA CountedFields ==
    ASSUME NEW c \in Counted
    PROVE  c.t \in {"ADD", "SUB"} /\ c.v \in Amount /\ c.a \in Counting /\ c.i \in Nat
BY DEF Counted, Other!Counter!Change, Other!Counter!Authors

\* Two changes of calls that mergeChanges takes for one are one.
LEMMA SameIsOne ==
    ASSUME CountInv, NEW c \in Called, NEW d \in Called, c.a = d.a, c.i = d.i, c.t = d.t
    PROVE  c = d
BY DEF CountInv, EachOnce, Called, Other!Counter!SameChange

\* Nothing has been counted.
LEMMA CountBegins == ASSUME Other!Counter!Init PROVE CountInv
<1> USE DEF Other!Counter!Init
<1>1. CounterTyped
  BY DEF CounterTyped
<1>2. Called = {}
  BY DEF Called
<1>3. IsFiniteSet({}) /\ Cardinality({}) = 0
  BY FS_EmptySet
<1>4. KnownCalls /\ EachOnce /\ NumberedOK
  BY <1>2, <1>3 DEF KnownCalls, EachOnce, NumberedOK, OwnCounts
<1>5. SumOf({}) = 0
  BY <1>3, SumAdds
<1>6. Summed
  BY <1>2, <1>3, <1>5, TotalEmpty DEF Summed
<1> QED BY <1>1, <1>4, <1>6 DEF CountInv

\* A replica has all changes of its author, and nobody has others of that author.
LEMMA OwnKept ==
    ASSUME CountInv, NEW r \in Counting
    PROVE  OwnCounts(r, entries[r]) = OwnCounts(r, Called)
BY DEF CountInv, KnownCalls, NumberedOK, OwnCounts

\* The number of elements is the one CounterCrdt counts.
LEMMA SameCardinality == ASSUME NEW S PROVE Other!Counter!Cardinality(S) = Cardinality(S)
BY DEF Other!Counter!Cardinality, Cardinality

\* calculate: the sum is that of the changes, whether it is computed or not.
LEMMA Calculated ==
    ASSUME CountInv, NEW r \in Counting, NEW S, IsFiniteSet(S), entries[r] \subseteq S,
           Other!Counter!Calculate(r, S)
    PROVE  /\ entries' = [entries EXCEPT ![r] = S]
           /\ number' = [number EXCEPT ![r] = SumOf(S)]
           /\ updateSize' = [updateSize EXCEPT ![r] = Cardinality(S)]
<1>1. /\ number \in [Counting -> Int] /\ updateSize \in [Counting -> Nat]
      /\ number[r] = SumOf(entries[r]) /\ updateSize[r] = Cardinality(entries[r])
  BY DEF CountInv, CounterTyped, Summed
<1>2. entries' = [entries EXCEPT ![r] = S]
  BY DEF Other!Counter!Calculate
<1>3. CASE Cardinality(S) # updateSize[r]
  <2>1. number' = [number EXCEPT ![r] = Other!Counter!ValueOf(S)]
        /\ updateSize' = [updateSize EXCEPT ![r] = Cardinality(S)]
    BY <1>3, SameCardinality DEF Other!Counter!Calculate
  <2>2. Other!Counter!ValueOf(S) = SumOf(S)
    BY SumIsFold
  <2> QED BY <1>2, <2>1, <2>2
<1>4. CASE Cardinality(S) = updateSize[r]
  <2>1. UNCHANGED <<number, updateSize>>
    BY <1>4, SameCardinality DEF Other!Counter!Calculate
  <2>2. S = entries[r]
    BY <1>1, <1>4, FS_Subset
  <2> QED BY <1>1, <1>2, <2>1, <2>2
<1> QED BY <1>3, <1>4

\* A replica gets changes of others, or is constructed with what it had of its own.
LEMMA ReplicaChanged ==
    ASSUME CountInv, NEW r \in Counting, NEW S \in SUBSET Called, IsFiniteSet(S),
           OwnCounts(r, entries[r]) \subseteq S,
           entries' = [entries EXCEPT ![r] = S],
           number' = [number EXCEPT ![r] = SumOf(S)],
           updateSize' = [updateSize EXCEPT ![r] = Cardinality(S)],
           UNCHANGED <<broadcast, calls>>
    PROVE  CountInv'
<1>0. CounterTyped /\ KnownCalls /\ EachOnce /\ NumberedOK /\ Summed
  BY DEF CountInv
<1>1. Called' = Called /\ Called \subseteq Counted /\ S \subseteq Counted
  BY <1>0 DEF CounterTyped, Called
<1>2. SumOf(S) \in Int /\ Cardinality(S) \in Nat
  BY <1>1, SumAdds, FS_CardinalityType
<1>3. CounterTyped'
  BY <1>0, <1>1, <1>2 DEF CounterTyped
<1>4. /\ entries'[r] = S
      /\ \A q \in Counting \ {r} : entries'[q] = entries[q]
      /\ number'[r] = SumOf(S) /\ updateSize'[r] = Cardinality(S)
      /\ \A q \in Counting \ {r} : number'[q] = number[q] /\ updateSize'[q] = updateSize[q]
  BY <1>0 DEF CounterTyped
<1>5. KnownCalls'
  BY <1>0, <1>1, <1>4 DEF KnownCalls
<1>6. EachOnce'
  BY <1>0 DEF EachOnce
<1>7. NumberedOK'
  <2>1. OwnCounts(r, S) = OwnCounts(r, entries[r])
    BY <1>0, <1>1 DEF NumberedOK, OwnCounts
  <2> SUFFICES ASSUME NEW q \in Counting, NEW c \in OwnCounts(q, Called)
               PROVE  c \in entries'[q] /\ c.i < Cardinality(OwnCounts(q, entries'[q]))
    BY <1>1 DEF NumberedOK, OwnCounts
  <2>2. c \in entries[q] /\ c.i < Cardinality(OwnCounts(q, entries[q]))
    BY <1>0 DEF NumberedOK
  <2>3. CASE q = r
    BY <1>4, <2>1, <2>2, <2>3 DEF OwnCounts
  <2>4. CASE q # r
    BY <1>4, <2>2, <2>4
  <2> QED BY <2>3, <2>4
<1>8. Summed'
  BY <1>0, <1>1, <1>4 DEF Summed
<1> QED BY <1>3, <1>5, <1>6, <1>7, <1>8 DEF CountInv

\* ADD and SUB: a change that no replica has, and that all know it by.
LEMMA CountKept ==
    ASSUME CountInv, NEW r \in Counting, NEW t \in {"ADD", "SUB"}, NEW v \in Amount,
           Other!Counter!Count(r, t, v)
    PROVE  CountInv'
<1>0. CounterTyped /\ KnownCalls /\ EachOnce /\ NumberedOK /\ Summed
  BY DEF CountInv
<1> DEFINE c == [t |-> t, v |-> v, a |-> r, i |-> Cardinality(OwnCounts(r, entries[r]))]
           S == entries[r] \cup {c}
<1>1. /\ Other!Counter!Calculate(r, S)
      /\ calls' = Append(calls, c) /\ broadcast' = broadcast
  BY SameCardinality DEF Other!Counter!Count, Other!Counter!OurChanges, OwnCounts
<1>2. /\ IsFiniteSet(entries[r]) /\ IsFiniteSet(OwnCounts(r, entries[r]))
      /\ Cardinality(OwnCounts(r, entries[r])) \in Nat
  <2>1. IsFiniteSet(entries[r])
    BY <1>0 DEF KnownCalls
  <2>2. OwnCounts(r, entries[r]) \subseteq entries[r]
    BY DEF OwnCounts
  <2> QED BY <2>1, <2>2, FS_Subset, FS_CardinalityType
<1>3. c \in Counted
  BY <1>2 DEF Counted, Other!Counter!Change, Other!Counter!Authors
<1>4. \A d \in Called : d.a = r => d.i # c.i
  <2> SUFFICES ASSUME NEW d \in Called, d.a = r PROVE d.i # c.i
    OBVIOUS
  <2>1. d.i < Cardinality(OwnCounts(r, entries[r]))
    BY <1>0 DEF NumberedOK, OwnCounts
  <2>2. d.i \in Nat
    BY <1>0, CountedFields DEF CounterTyped, Called
  <2> QED BY <1>2, <2>1, <2>2
<1>5. c \notin Called /\ c.a = r
  BY <1>4
<1> HIDE DEF c
<1>6. /\ Len(calls) \in Nat /\ calls' \in Seq(Counted)
      /\ DOMAIN calls = 1..Len(calls) /\ DOMAIN calls' = 1..(Len(calls) + 1)
      /\ calls'[Len(calls) + 1] = c
      /\ \A n \in DOMAIN calls : calls'[n] = calls[n]
  BY <1>0, <1>1, <1>3 DEF CounterTyped
<1>7. Called' = Called \cup {c}
  <2>1. Called' \subseteq Called \cup {c}
    BY <1>6 DEF Called
  <2>2. Called \subseteq Called'
    BY <1>6 DEF Called
  <2>3. c \in Called'
    BY <1>6 DEF Called
  <2> QED BY <2>1, <2>2, <2>3
<1>8. Called \subseteq Counted /\ IsFiniteSet(Called) /\ entries[r] \subseteq Called
  BY <1>0 DEF CounterTyped, Called, Summed, KnownCalls
<1>9. /\ entries' = [entries EXCEPT ![r] = S]
      /\ number' = [number EXCEPT ![r] = SumOf(S)]
      /\ updateSize' = [updateSize EXCEPT ![r] = Cardinality(S)]
  <2>1. IsFiniteSet(S) /\ entries[r] \subseteq S
    BY <1>2, FS_AddElement
  <2> HIDE DEF S
  <2> QED BY <1>1, <2>1, Calculated
<1>10. IsFiniteSet(S) /\ S \subseteq Counted /\ SumOf(S) \in Int /\ Cardinality(S) \in Nat
  <2>1. IsFiniteSet(S) /\ S \subseteq Counted
    BY <1>2, <1>3, <1>8, FS_AddElement
  <2> HIDE DEF S
  <2> QED BY <2>1, SumAdds, FS_CardinalityType
<1>11. CounterTyped'
  BY <1>0, <1>1, <1>6, <1>9, <1>10 DEF CounterTyped
<1>12. /\ entries'[r] = S
       /\ \A q \in Counting \ {r} : entries'[q] = entries[q]
       /\ number'[r] = SumOf(S) /\ updateSize'[r] = Cardinality(S)
       /\ \A q \in Counting \ {r} : number'[q] = number[q] /\ updateSize'[q] = updateSize[q]
  BY <1>0, <1>9 DEF CounterTyped
<1>13. KnownCalls'
  BY <1>0, <1>1, <1>7, <1>8, <1>10, <1>12 DEF KnownCalls
<1>14. EachOnce'
  <2> SUFFICES ASSUME NEW m \in DOMAIN calls', NEW n \in DOMAIN calls',
                      Other!Counter!SameChange(calls'[m], calls'[n])
               PROVE  m = n
    BY DEF EachOnce
  <2>1. calls'[m].i = calls'[n].i /\ calls'[m].a = calls'[n].a
    BY DEF Other!Counter!SameChange
  <2>2. CASE m \in DOMAIN calls /\ n \in DOMAIN calls
    BY <1>0, <1>6, <2>2 DEF EachOnce
  <2>3. CASE m \in DOMAIN calls /\ n = Len(calls) + 1
    BY <1>4, <1>5, <1>6, <2>1, <2>3 DEF Called
  <2>4. CASE m = Len(calls) + 1 /\ n \in DOMAIN calls
    BY <1>4, <1>5, <1>6, <2>1, <2>4 DEF Called
  <2> QED BY <1>6, <2>2, <2>3, <2>4
<1>15. NumberedOK'
  <2>1. OwnCounts(r, S) = OwnCounts(r, entries[r]) \cup {c} /\ c \notin OwnCounts(r, entries[r])
    BY <1>5, <1>8 DEF OwnCounts
  <2>2. Cardinality(OwnCounts(r, S)) = Cardinality(OwnCounts(r, entries[r])) + 1
    BY <1>2, <2>1, FS_AddElement
  <2>3. c.i = Cardinality(OwnCounts(r, entries[r]))
    BY DEF c
  <2> SUFFICES ASSUME NEW q \in Counting, NEW d \in OwnCounts(q, Called')
               PROVE  d \in entries'[q] /\ d.i < Cardinality(OwnCounts(q, entries'[q]))
    BY DEF NumberedOK, OwnCounts
  <2>4. CASE q = r /\ d = c
    BY <1>2, <1>12, <2>2, <2>3, <2>4
  <2>5. CASE q = r /\ d # c
    <3>1. d \in OwnCounts(r, Called)
      BY <1>7, <2>5 DEF OwnCounts
    <3>2. d \in entries[r] /\ d.i < Cardinality(OwnCounts(r, entries[r])) /\ d.i \in Nat
      BY <1>0, <1>8, <3>1, CountedFields DEF NumberedOK, OwnCounts
    <3>3. entries'[q] = S /\ d \in S
      BY <1>12, <2>5, <3>2
    <3> HIDE DEF S
    <3> QED BY <1>2, <2>2, <2>5, <3>2, <3>3
  <2>6. CASE q # r
    <3>1. d \in OwnCounts(q, Called)
      BY <1>5, <1>7, <2>6 DEF OwnCounts
    <3> QED BY <1>0, <1>12, <2>6, <3>1 DEF NumberedOK
  <2> QED BY <2>4, <2>5, <2>6
<1>16. Summed'
  <2>1. IsFiniteSet(Called')
    BY <1>7, <1>8, FS_AddElement
  <2>2. SumOf(Called') = Other!Counter!Delta(c) + SumOf(Called)
    <3>1. Called' \subseteq Counted /\ c \in Called' /\ Called' \ {c} = Called
      BY <1>3, <1>5, <1>7, <1>8
    <3> DEFINE K == Called'
    <3>2. IsFiniteSet(K) /\ K \subseteq Counted /\ c \in K /\ K \ {c} = Called
      BY <2>1, <3>1
    <3> HIDE DEF K
    <3>3. SumOf(K) = Other!Counter!Delta(c) + SumOf(K \ {c})
      BY <3>2, SumAdds
    <3> QED BY <3>2, <3>3 DEF K
  <2>3. TotalOf(calls') = TotalOf(calls) + Other!Counter!Delta(c) /\ TotalOf(calls) \in Int
    BY <1>0, <1>1, <1>3, TotalAdds DEF CounterTyped
  <2>4. Other!Counter!Delta(c) \in Int
    BY <1>3, DeltaInt
  <2>5. TotalOf(calls') = SumOf(Called')
    BY <1>0, <2>2, <2>3, <2>4 DEF Summed
  <2> QED BY <1>0, <1>12, <2>1, <2>5 DEF Summed
<1> QED BY <1>11, <1>13, <1>14, <1>15, <1>16 DEF CountInv

\* Every step of every replica keeps the invariant.
LEMMA CountStep ==
    ASSUME CountInv, [Other!Counter!Next]_(Other!Counter!vars)
    PROVE  CountInv'
<1>0. CounterTyped /\ KnownCalls /\ EachOnce /\ NumberedOK /\ Summed
  BY DEF CountInv
<1>1. ASSUME NEW r \in Counting, Other!Counter!Send(r) PROVE CountInv'
  <2>1. broadcast' = broadcast \cup {entries[r]}
        /\ UNCHANGED <<entries, number, updateSize, calls>>
    BY <1>1 DEF Other!Counter!Send
  <2>2. CounterTyped' /\ KnownCalls'
    BY <1>0, <2>1 DEF CounterTyped, KnownCalls, Called
  <2>3. EachOnce' /\ NumberedOK' /\ Summed'
    BY <1>0, <2>1 DEF EachOnce, NumberedOK, Summed, Called
  <2> QED BY <2>2, <2>3 DEF CountInv
<1>2. ASSUME NEW r \in Counting, NEW S \in broadcast, Other!Counter!MergeChanges(r, S)
      PROVE  CountInv'
  <2> DEFINE M == Other!Counter!Merged(entries[r], S)
  <2>1. Other!Counter!Calculate(r, M) /\ UNCHANGED <<broadcast, calls>>
    BY <1>2 DEF Other!Counter!MergeChanges
  <2>2. entries[r] \subseteq M /\ M \subseteq entries[r] \cup S
    BY DEF Other!Counter!Merged
  <2>3. /\ S \subseteq Called /\ IsFiniteSet(S)
        /\ entries[r] \subseteq Called /\ IsFiniteSet(entries[r])
    BY <1>0 DEF KnownCalls
  <2>4. M \subseteq Called /\ IsFiniteSet(M)
    <3>1. IsFiniteSet(entries[r] \cup S)
      BY <2>3, FS_Union
    <3> QED BY <2>2, <2>3, <3>1, FS_Subset
  <2>5. OwnCounts(r, entries[r]) \subseteq M
    BY <2>2 DEF OwnCounts
  <2> HIDE DEF M
  <2> QED BY <2>1, <2>2, <2>4, <2>5, Calculated, ReplicaChanged
<1>3. ASSUME NEW r \in Counting, NEW S \in broadcast \cup {{}}, Other!Counter!Reopen(r, S)
      PROVE  CountInv'
  <2>1. S \subseteq Called /\ IsFiniteSet(S)
    BY <1>0, FS_EmptySet DEF KnownCalls
  <2>2. /\ entries' = [entries EXCEPT ![r] = S]
        /\ number' = [number EXCEPT ![r] = Other!Counter!ValueOf(S)]
        /\ updateSize' = [updateSize EXCEPT ![r] = Cardinality(S)]
        /\ UNCHANGED <<broadcast, calls>>
    BY <1>3, SameCardinality DEF Other!Counter!Reopen
  <2>3. OwnCounts(r, entries[r]) \subseteq S
    BY <1>3 DEF Other!Counter!Reopen, Other!Counter!OurChanges, OwnCounts
  <2>4. Other!Counter!ValueOf(S) = SumOf(S)
    BY SumIsFold
  <2> QED BY <2>1, <2>2, <2>3, <2>4, ReplicaChanged
<1>4. CASE UNCHANGED Other!Counter!vars
  <2>1. UNCHANGED <<entries, number, updateSize, broadcast, calls>>
    BY <1>4 DEF Other!Counter!vars
  <2>2. CounterTyped' /\ KnownCalls'
    BY <1>0, <2>1 DEF CounterTyped, KnownCalls, Called
  <2>3. EachOnce' /\ NumberedOK' /\ Summed'
    BY <1>0, <2>1 DEF EachOnce, NumberedOK, Summed, Called
  <2> QED BY <2>2, <2>3 DEF CountInv
<1> QED BY <1>1, <1>2, <1>3, <1>4, CountKept DEF Other!Counter!Next

\* A replica that has heard of every call shows the total of the calls.
LEMMA CountsAll == CountInv => Other!Counter!CountsEveryCall
<1> SUFFICES ASSUME CountInv, NEW r \in Counting, Other!Counter!Complete(r)
             PROVE  number[r] = TotalOf(calls)
  BY DEF Other!Counter!CountsEveryCall, Other!Counter!FoldLeft, Other!Counter!MapThenFoldSet,
         Other!Counter!Max, TotalOf, Greatest
<1>1. Called \subseteq entries[r]
  <2> SUFFICES ASSUME NEW n \in DOMAIN calls PROVE calls[n] \in entries[r]
    BY DEF Called
  <2>1. PICK c \in entries[r] : Other!Counter!SameChange(c, calls[n])
    BY DEF Other!Counter!Complete
  <2>2. c \in Called /\ calls[n] \in Called
    BY DEF CountInv, KnownCalls, Called
  <2>3. c = calls[n]
    BY <2>1, <2>2, SameIsOne DEF Other!Counter!SameChange
  <2> QED BY <2>3
<1>2. entries[r] = Called
  BY <1>1 DEF CountInv, KnownCalls
<1> QED BY <1>2 DEF CountInv, Summed

-----------------------------------------------------------------------------
\* The invariant of a counter, under every step of every document.
THEOREM CounterInvariant == AllSpec => [](kind = "counter" => CountInv)
<1> DEFINE Inv == kind = "counter" => CountInv
<1>1. AllInit => Inv
  BY CountBegins DEF AllInit, Other!DocumentInit
<1>2. Inv /\ [AllNext]_allVars => Inv'
  <2> SUFFICES ASSUME Inv, [AllNext]_allVars, kind' = "counter" PROVE CountInv'
    OBVIOUS
  <2>1. kind = "counter" /\ [Other!Counter!Next]_(Other!Counter!vars)
    BY DEF AllNext, allVars, otherVars, Other!DocumentNext, Other!Counter!vars
  <2> QED BY <2>1, CountStep
<1> QED BY <1>1, <1>2, PTL DEF AllSpec

(***************************************************************************)
(* Every call on a counter counts once, for any users and amounts, however *)
(* often and through whomever changes are merged, as long as counters      *)
(* merge them.                                                             *)
(***************************************************************************)
THEOREM CountersCount == AllSpec => []EveryCallCounts
<1>1. (kind = "counter" => CountInv) => EveryCallCounts
  BY CountsAll DEF EveryCallCounts, Other!EveryCallCounts
<1> QED BY <1>1, CounterInvariant, PTL

-----------------------------------------------------------------------------
Edit == Other!Change
Cursors == Seq(Other!Cursor)

\* What one cursor more makes of the live ones.
Showing(l) == [i \in 1..Len(l) |-> [v \in Cursors |-> IF l[i].tomb THEN v ELSE Append(v, l[i])]]

\* The live cursors are collected from one after the other.
LEMMA LiveFold ==
    ASSUME NEW l \in Cursors
    PROVE  \E g : Steps(g, Len(l), Cursors, <<>>, Showing(l)) /\ g[Len(l)] = Other!Live(l)
<1> DEFINE n == Len(l)
           S == 1..n
           H == Showing(l)
           Show(v, i) == IF l[i].tomb THEN v ELSE Append(v, l[i])
           Step(g) == [s \in SUBSET S |->
               IF s = {} THEN <<>> ELSE Show(g[s \ {Greatest(s)}], Greatest(s))]
           G == CHOOSE g : g = Step(g)
<1>0. n \in Nat /\ DOMAIN l = S
  OBVIOUS
<1>1. /\ \A i \in S, v \in Cursors : Show(v, i) \in Cursors
      /\ \A i \in S, v \in Cursors : H[i][v] = Show(v, i)
  BY DEF Cursors, Showing
<1>2. Tabled(n, Cursors, <<>>, H)
  <2>1. <<>> \in Cursors
    BY DEF Cursors
  <2> HIDE DEF H, Show
  <2> QED BY <1>0, <1>1, <2>1 DEF Tabled
<1> HIDE DEF H, Show, n
<1>3. PICK h : GreatestTaken(h, n, Cursors, <<>>, H)
  BY <1>2, GreatestTakenExists
<1>4. ASSUME NEW s \in SUBSET S PROVE h[s] = Step(h)[s]
  <2>1. CASE s = {}
    BY <1>3, <2>1 DEF GreatestTaken
  <2>2. CASE s # {}
    <3>1. Greatest(s) \in S /\ h[s \ {Greatest(s)}] \in Cursors
          /\ h[s] = H[Greatest(s)][h[s \ {Greatest(s)}]]
      BY <1>3, <2>2 DEF GreatestTaken
    <3> QED BY <1>1, <2>2, <3>1
  <2> QED BY <2>1, <2>2
<1>5. h = Step(h)
  <2>1. h = [s \in SUBSET S |-> h[s]]
    BY <1>3 DEF GreatestTaken
  <2> QED BY <1>4, <2>1
<1>6. G = Step(G)
  <2> HIDE DEF Step
  <2> QED BY <1>5
<1>7. G[S] = Other!Live(l)
  BY <1>0 DEF Show, Greatest, Other!Live, Other!FoldLeft, Other!MapThenFoldSet, Other!Max
<1> HIDE DEF G
<1>8. TakesGreatest(G, n, Cursors, <<>>, H)
  <2>1. G = [s \in SUBSET S |-> G[s]] /\ G[{}] = <<>>
    BY <1>6
  <2>2. ASSUME NEW s \in SUBSET S, s # {}, G[s \ {Greatest(s)}] \in Cursors
        PROVE  G[s] = H[Greatest(s)][G[s \ {Greatest(s)}]]
    <3>1. G[s] = Show(G[s \ {Greatest(s)}], Greatest(s))
      BY <1>6, <2>2
    <3>2. Greatest(s) \in S
      BY <1>3, <2>2 DEF GreatestTaken
    <3> QED BY <1>1, <2>2, <3>1, <3>2
  <2> QED BY <2>1, <2>2 DEF TakesGreatest
<1> QED BY <1>2, <1>7, <1>8, GreatestInOrder DEF n, H

\* The live elements of a list are elements of it, without the tombs.
LEMMA LiveOnes ==
    ASSUME NEW l \in Cursors
    PROVE  /\ Other!Live(l) \in Cursors
           /\ \A j \in DOMAIN Other!Live(l) : \E i \in DOMAIN l : Other!Live(l)[j] = l[i]
<1>1. PICK g : Steps(g, Len(l), Cursors, <<>>, Showing(l)) /\ g[Len(l)] = Other!Live(l)
  BY LiveFold
<1>2. /\ Len(l) \in Nat
      /\ \A k \in 0..Len(l) : g[k] \in Cursors
      /\ g[0] = <<>>
      /\ \A k \in 1..Len(l) : g[k] = Showing(l)[k][g[k - 1]]
  <2>1. Len(l) \in Nat
    BY DEF Cursors
  <2> QED BY <1>1, <2>1 DEF Steps
<1> DEFINE Some(v) == \A j \in 1..Len(v) : \E i \in 1..Len(l) : v[j] = l[i]
           N == {k \in Nat : k <= Len(l) => Some(g[k])}
<1>3. 0 \in N
  BY <1>2
<1>4. ASSUME NEW k \in Nat, k \in N PROVE k + 1 \in N
  <2> SUFFICES ASSUME k + 1 <= Len(l) PROVE Some(g[k + 1])
    OBVIOUS
  <2>1. k \in 0..Len(l) /\ k + 1 \in 1..Len(l) /\ (k + 1) - 1 = k /\ Some(g[k])
    BY <1>2, <1>4
  <2>2. g[k + 1] = IF l[k + 1].tomb THEN g[k] ELSE Append(g[k], l[k + 1])
    BY <1>2, <2>1 DEF Showing
  <2>3. g[k] \in Cursors /\ l[k + 1] \in Other!Cursor
    BY <1>2, <2>1 DEF Cursors
  <2>4. /\ Len(g[k]) \in Nat /\ Len(Append(g[k], l[k + 1])) = Len(g[k]) + 1
        /\ \A j \in 1..Len(g[k]) : Append(g[k], l[k + 1])[j] = g[k][j]
        /\ Append(g[k], l[k + 1])[Len(g[k]) + 1] = l[k + 1]
    BY <2>3 DEF Cursors
  <2>5. Some(Append(g[k], l[k + 1]))
    <3> SUFFICES ASSUME NEW j \in 1..(Len(g[k]) + 1)
                 PROVE  \E i \in 1..Len(l) : Append(g[k], l[k + 1])[j] = l[i]
      BY <2>4
    <3>1. CASE j = Len(g[k]) + 1
      BY <2>1, <2>4, <3>1
    <3>2. CASE j # Len(g[k]) + 1
      <4>1. j \in 1..Len(g[k])
        BY <2>4, <3>2
      <4> QED BY <2>1, <2>4, <4>1
    <3> QED BY <3>1, <3>2
  <2> QED BY <2>1, <2>2, <2>5
<1>5. Nat \subseteq N
  <2> HIDE DEF N
  <2> QED BY <1>3, <1>4, SetInduction
<1>6. Some(Other!Live(l)) /\ Other!Live(l) \in Cursors
  BY <1>1, <1>2, <1>5
<1> QED BY <1>6 DEF Cursors

-----------------------------------------------------------------------------
\* The changes in a sequence of them.
Elems(s) == {s[j] : j \in DOMAIN s}

\* No id twice, in a sequence and in a set.
OncePerId(s) == \A i, j \in DOMAIN s : s[i].i = s[j].i => i = j
OneForEach(S) == \A c, d \in S : c.i = d.i => c = d

\* What one change more makes of those that were merged.
Merging(t) ==
    [i \in 1..Len(t) |-> [v \in Seq(Edit) |->
        IF \E d \in Other!Range(v) : Other!SameChange(t[i], d) THEN v ELSE Append(v, t[i])]]

\* Changes are merged one after the other.
LEMMA MergeFold ==
    ASSUME NEW s \in Seq(Edit), NEW t \in Seq(Edit)
    PROVE  \E g : Steps(g, Len(t), Seq(Edit), s, Merging(t)) /\ g[Len(t)] = Other!Merged(s, t)
<1> DEFINE n == Len(t)
           S == 1..n
           H == Merging(t)
           V == Seq(Edit)
           Add(v, i) == IF \E d \in Other!Range(v) : Other!SameChange(t[i], d)
                        THEN v ELSE Append(v, t[i])
           Step(g) == [u \in SUBSET S |->
               IF u = {} THEN s ELSE Add(g[u \ {Greatest(u)}], Greatest(u))]
           G == CHOOSE g : g = Step(g)
<1>0. n \in Nat /\ DOMAIN t = S
  OBVIOUS
<1>1. /\ \A i \in S, v \in V : Add(v, i) \in V
      /\ \A i \in S, v \in V : H[i][v] = Add(v, i)
  BY DEF Merging
<1>2. Tabled(n, V, s, H)
  <2>1. s \in V
    OBVIOUS
  <2> HIDE DEF H, Add, V
  <2> QED BY <1>0, <1>1, <2>1 DEF Tabled
<1> HIDE DEF H, Add, n, V
<1>3. PICK h : GreatestTaken(h, n, V, s, H)
  BY <1>2, GreatestTakenExists
<1>4. ASSUME NEW u \in SUBSET S PROVE h[u] = Step(h)[u]
  <2>1. CASE u = {}
    BY <1>3, <2>1 DEF GreatestTaken
  <2>2. CASE u # {}
    <3>1. Greatest(u) \in S /\ h[u \ {Greatest(u)}] \in V
          /\ h[u] = H[Greatest(u)][h[u \ {Greatest(u)}]]
      BY <1>3, <2>2 DEF GreatestTaken
    <3> QED BY <1>1, <2>2, <3>1
  <2> QED BY <2>1, <2>2
<1>5. h = Step(h)
  <2>1. h = [u \in SUBSET S |-> h[u]]
    BY <1>3 DEF GreatestTaken
  <2> QED BY <1>4, <2>1
<1>6. G = Step(G)
  <2> HIDE DEF Step
  <2> QED BY <1>5
<1>7. G[S] = Other!Merged(s, t)
  BY <1>0 DEF Add, Greatest, Other!Merged, Other!FoldLeft, Other!MapThenFoldSet, Other!Max
<1> HIDE DEF G
<1>8. TakesGreatest(G, n, V, s, H)
  <2>1. G = [u \in SUBSET S |-> G[u]] /\ G[{}] = s
    BY <1>6
  <2>2. ASSUME NEW u \in SUBSET S, u # {}, G[u \ {Greatest(u)}] \in V
        PROVE  G[u] = H[Greatest(u)][G[u \ {Greatest(u)}]]
    <3>1. G[u] = Add(G[u \ {Greatest(u)}], Greatest(u))
      BY <1>6, <2>2
    <3>2. Greatest(u) \in S
      BY <1>3, <2>2 DEF GreatestTaken
    <3> QED BY <1>1, <2>2, <3>1, <3>2
  <2> QED BY <2>1, <2>2 DEF TakesGreatest
<1> QED BY <1>2, <1>7, <1>8, GreatestInOrder DEF n, H, V

\* s with the first k changes of t that it does not have.
MergedUpTo(u, s, t, k) ==
    /\ u \in Seq(Edit) /\ OncePerId(u)
    /\ Len(u) >= Len(s) /\ \A j \in 1..Len(s) : u[j] = s[j]
    /\ Elems(u) = Elems(s) \cup {t[j] : j \in 1..k}

\* One change more, when ids tell changes apart.
LEMMA MergeOne ==
    ASSUME NEW s \in Seq(Edit), NEW t \in Seq(Edit), OneForEach(Elems(s) \cup Elems(t)),
           NEW k \in Nat, k + 1 <= Len(t), NEW u, MergedUpTo(u, s, t, k)
    PROVE  MergedUpTo(Merging(t)[k + 1][u], s, t, k + 1)
<1> DEFINE c == t[k + 1]
           v == Append(u, c)
<1>1. k + 1 \in 1..Len(t) /\ c \in Edit /\ c \in Elems(t) /\ Len(t) \in Nat
      /\ DOMAIN t = 1..Len(t)
  BY DEF Elems
<1>2. /\ u \in Seq(Edit) /\ OncePerId(u) /\ Len(u) \in Nat /\ DOMAIN u = 1..Len(u)
      /\ Len(u) >= Len(s) /\ \A j \in 1..Len(s) : u[j] = s[j]
      /\ Elems(u) = Elems(s) \cup {t[j] : j \in 1..k}
      /\ Len(s) \in Nat
  BY DEF MergedUpTo
<1>3. Merging(t)[k + 1][u] = IF \E d \in Other!Range(u) : Other!SameChange(c, d) THEN u ELSE v
  BY <1>1, <1>2 DEF Merging
<1>4. Other!Range(u) = Elems(u)
  BY DEF Other!Range, Elems
<1>5. {t[j] : j \in 1..(k + 1)} = {t[j] : j \in 1..k} \cup {c}
  OBVIOUS
<1>6. {t[j] : j \in 1..k} \subseteq Elems(t)
  BY <1>1 DEF Elems
<1>7. (\E d \in Elems(u) : Other!SameChange(c, d)) <=> c \in Elems(u)
  <2>1. ASSUME NEW d \in Elems(u), Other!SameChange(c, d) PROVE c \in Elems(u)
    <3>1. c.i = d.i
      BY <2>1 DEF Other!SameChange
    <3>2. d \in Elems(s) \cup Elems(t) /\ c \in Elems(s) \cup Elems(t)
      BY <1>1, <1>2, <1>6
    <3>3. c = d
      BY <3>1, <3>2 DEF OneForEach
    <3> QED BY <2>1, <3>3
  <2>2. Other!SameChange(c, c)
    BY DEF Other!SameChange
  <2> QED BY <2>1, <2>2
<1> HIDE DEF c
<1>8. CASE c \in Elems(u)
  <2>1. Merging(t)[k + 1][u] = u
    BY <1>3, <1>4, <1>7, <1>8
  <2>2. Elems(u) = Elems(s) \cup {t[j] : j \in 1..(k + 1)}
    BY <1>2, <1>5, <1>8
  <2> QED BY <1>2, <2>1, <2>2 DEF MergedUpTo
<1>9. CASE c \notin Elems(u)
  <2>1. Merging(t)[k + 1][u] = v
    BY <1>3, <1>4, <1>7, <1>9
  <2>2. /\ v \in Seq(Edit) /\ Len(v) = Len(u) + 1 /\ DOMAIN v = 1..(Len(u) + 1)
        /\ \A j \in 1..Len(u) : v[j] = u[j]
        /\ v[Len(u) + 1] = c
    BY <1>1, <1>2
  <2> HIDE DEF v
  <2>3. Elems(v) = Elems(u) \cup {c}
    <3>1. 1..(Len(u) + 1) = 1..Len(u) \cup {Len(u) + 1}
      BY <1>2
    <3> QED BY <1>2, <2>2, <3>1 DEF Elems
  <2>4. Elems(v) = Elems(s) \cup {t[j] : j \in 1..(k + 1)}
    BY <1>2, <1>5, <2>3
  <2>5. \A j \in 1..Len(u) : u[j].i # c.i
    <3> SUFFICES ASSUME NEW j \in 1..Len(u), u[j].i = c.i PROVE FALSE
      OBVIOUS
    <3>1. u[j] \in Elems(u)
      BY <1>2 DEF Elems
    <3>2. u[j] \in Elems(s) \cup Elems(t)
      BY <1>2, <1>6, <3>1
    <3>3. u[j] = c
      BY <1>1, <3>2 DEF OneForEach
    <3> QED BY <1>9, <3>1, <3>3
  <2>6. OncePerId(v)
    <3> SUFFICES ASSUME NEW i \in 1..(Len(u) + 1), NEW j \in 1..(Len(u) + 1), v[i].i = v[j].i
                 PROVE  i = j
      BY <2>2 DEF OncePerId
    <3>1. i \in 1..Len(u) \/ i = Len(u) + 1
      BY <1>2
    <3>2. j \in 1..Len(u) \/ j = Len(u) + 1
      BY <1>2
    <3>3. \A a, b \in 1..Len(u) : u[a].i = u[b].i => a = b
      BY <1>2 DEF OncePerId
    <3> QED BY <2>2, <2>5, <3>1, <3>2, <3>3
  <2>7. Len(v) >= Len(s) /\ \A j \in 1..Len(s) : v[j] = s[j]
    BY <1>2, <2>2
  <2> QED BY <2>1, <2>2, <2>4, <2>6, <2>7 DEF MergedUpTo
<1> QED BY <1>8, <1>9

\* Merging takes what is new, once, and leaves the rest where it is.
LEMMA MergeAll ==
    ASSUME NEW s \in Seq(Edit), OncePerId(s), NEW t \in Seq(Edit),
           OneForEach(Elems(s) \cup Elems(t))
    PROVE  /\ Other!Merged(s, t) \in Seq(Edit) /\ OncePerId(Other!Merged(s, t))
           /\ Elems(Other!Merged(s, t)) = Elems(s) \cup Elems(t)
           /\ Len(Other!Merged(s, t)) = Len(s) => Other!Merged(s, t) = s
<1>1. PICK g : Steps(g, Len(t), Seq(Edit), s, Merging(t)) /\ g[Len(t)] = Other!Merged(s, t)
  BY MergeFold
<1>2. /\ Len(t) \in Nat /\ g[0] = s
      /\ \A k \in 1..Len(t) : g[k] = Merging(t)[k][g[k - 1]]
  BY <1>1 DEF Steps
<1> DEFINE N == {k \in Nat : k <= Len(t) => MergedUpTo(g[k], s, t, k)}
<1>3. 0 \in N
  <2>1. {t[j] : j \in 1..0} = {}
    OBVIOUS
  <2>2. MergedUpTo(s, s, t, 0)
    BY <2>1 DEF MergedUpTo
  <2> QED BY <1>2, <2>2
<1>4. ASSUME NEW k \in Nat, k \in N PROVE k + 1 \in N
  <2> SUFFICES ASSUME k + 1 <= Len(t) PROVE MergedUpTo(g[k + 1], s, t, k + 1)
    OBVIOUS
  <2>1. k + 1 \in 1..Len(t) /\ (k + 1) - 1 = k /\ MergedUpTo(g[k], s, t, k)
    BY <1>2, <1>4
  <2>2. g[k + 1] = Merging(t)[k + 1][g[k]]
    BY <1>2, <2>1
  <2> QED BY <2>1, <2>2, MergeOne
<1>5. Nat \subseteq N
  <2> HIDE DEF N
  <2> QED BY <1>3, <1>4, SetInduction
<1> DEFINE m == Other!Merged(s, t)
<1>6. MergedUpTo(m, s, t, Len(t))
  BY <1>1, <1>2, <1>5
<1> HIDE DEF m
<1>7. m \in Seq(Edit) /\ OncePerId(m) /\ \A j \in 1..Len(s) : m[j] = s[j]
  BY <1>6 DEF MergedUpTo
<1>8. Elems(m) = Elems(s) \cup Elems(t)
  <2>1. {t[j] : j \in 1..Len(t)} = Elems(t)
    BY DEF Elems
  <2> QED BY <1>6, <2>1 DEF MergedUpTo
<1>9. Len(m) = Len(s) => m = s
  BY <1>7
<1> QED BY <1>7, <1>8, <1>9 DEF m

-----------------------------------------------------------------------------
\* The order of changes is total on ids.
Compared(c, d, e) ==
    /\ ~Other!Before(c, c)
    /\ Other!Before(c, d) => ~Other!Before(d, c) /\ c.i # d.i
    /\ c.i # d.i => Other!Before(c, d) \/ Other!Before(d, c)
    /\ Other!Before(c, d) /\ Other!Before(d, e) => Other!Before(c, e)

\* Ids are pairs of numbers.
LEMMA IdType ==
    ASSUME NEW c \in Edit
    PROVE  c.i \in Other!Index /\ c.i = <<c.i[1], c.i[2]>> /\ c.i[1] \in Writer
           /\ c.i[1] \in Nat /\ c.i[2] \in Nat /\ c.i[2] <= MaxEdits
<1>1. c.i \in Other!Index
  BY DEF Edit, Other!Change
<1>2. c.i \in Writer \X (0..MaxEdits)
  BY <1>1 DEF Other!Index
<1>3. c.i = <<c.i[1], c.i[2]>> /\ c.i[1] \in Writer /\ c.i[2] \in 0..MaxEdits
  BY <1>2
<1>4. c.i[1] \in Nat /\ c.i[2] \in Nat /\ c.i[2] <= MaxEdits
  <2>1. MaxEdits \in Nat /\ c.i[1] \in Nat
    BY <1>3, WritersAssumption, EditsAssumption
  <2> QED BY <1>3, <2>1
<1> QED BY <1>1, <1>3, <1>4

\* Changes are compared by author and number.
LEMMA TotalOrder == ASSUME NEW c \in Edit, NEW d \in Edit, NEW e \in Edit PROVE Compared(c, d, e)
<1>1. /\ c.i = <<c.i[1], c.i[2]>> /\ c.i[1] \in Nat /\ c.i[2] \in Nat
      /\ d.i = <<d.i[1], d.i[2]>> /\ d.i[1] \in Nat /\ d.i[2] \in Nat
      /\ e.i[1] \in Nat /\ e.i[2] \in Nat
  BY IdType
<1>2. c.i # d.i => c.i[1] # d.i[1] \/ c.i[2] # d.i[2]
  BY <1>1
<1> QED BY <1>1, <1>2 DEF Compared, Other!Before

\* A sequence in the order of ids.
InOrder(s) == \A i, j \in DOMAIN s : i < j => Other!Before(s[i], s[j])

\* The indices of changes that come before the j-th of s.
Earlier(s, j) == {k \in DOMAIN s : Other!Before(s[k], s[j])}

\* Inner cardinalities are those of FiniteSets.
LEMMA EditCardinality == ASSUME NEW S PROVE Other!Cardinality(S) = Cardinality(S)
BY DEF Other!Cardinality, Cardinality

\* The places of changes in order are those numbers of changes before them.
LEMMA Places ==
    ASSUME NEW s \in Seq(Edit), OncePerId(s)
    PROVE  /\ \A j \in 1..Len(s) : Other!Place(s, j) \in 0..(Len(s) - 1)
           /\ \A i, j \in 1..Len(s) :
                 Other!Before(s[i], s[j]) => Other!Place(s, i) < Other!Place(s, j)
           /\ \A i, j \in 1..Len(s) : i = j \/ Other!Before(s[i], s[j]) \/ Other!Before(s[j], s[i])
           /\ \A p \in 0..(Len(s) - 1) : \E j \in 1..Len(s) : Other!Place(s, j) = p
<1> DEFINE n == Len(s)
           S == 1..n
<1>1. n \in Nat /\ DOMAIN s = S /\ \A i \in S : s[i] \in Edit
  OBVIOUS
<1>2. \A i, j \in S : i # j => s[i].i # s[j].i
  BY <1>1 DEF OncePerId
<1>3. \A i, j, k \in S : Compared(s[i], s[j], s[k])
  BY <1>1, TotalOrder
<1>4. \A i, j \in S : i = j \/ Other!Before(s[i], s[j]) \/ Other!Before(s[j], s[i])
  BY <1>2, <1>3 DEF Compared
<1> HIDE DEF n
<1>5. IsFiniteSet(S) /\ Cardinality(S) = n
  <2>1. IsFiniteSet(S) /\ Cardinality(S) = IF 1 > n THEN 0 ELSE n - 1 + 1
    BY <1>1, FS_Interval
  <2> HIDE DEF S
  <2> QED BY <1>1, <2>1
<1> HIDE DEF S
<1>6. ASSUME NEW j \in S
      PROVE  /\ Other!Place(s, j) = Cardinality(Earlier(s, j))
             /\ IsFiniteSet(Earlier(s, j)) /\ Other!Place(s, j) \in 0..(n - 1)
  <2> DEFINE E == Earlier(s, j)
  <2>1. {k \in DOMAIN s : Other!Before(s[k], s[j]) \/ (k < j /\ ~Other!Before(s[j], s[k]))} = E
    <3>1. \A k \in S : k < j /\ ~Other!Before(s[j], s[k]) => Other!Before(s[k], s[j])
      <4> SUFFICES ASSUME NEW k \in S, k < j, ~Other!Before(s[j], s[k])
                   PROVE  Other!Before(s[k], s[j])
        OBVIOUS
      <4>1. k # j
        BY <1>1 DEF S
      <4> QED BY <1>4, <4>1
    <3> QED BY <1>1, <3>1 DEF Earlier
  <2>2. Other!Place(s, j) = Cardinality(E)
    BY <2>1, EditCardinality DEF Other!Place
  <2>3. E \in SUBSET (S \ {j})
    BY <1>1, <1>3 DEF Earlier, Compared
  <2>4. IsFiniteSet(S \ {j}) /\ Cardinality(S \ {j}) = n - 1
    BY <1>5, FS_RemoveElement
  <2> HIDE DEF E
  <2>5. IsFiniteSet(E) /\ Cardinality(E) <= n - 1 /\ Cardinality(E) \in Nat
    <3>1. IsFiniteSet(E) /\ Cardinality(E) <= Cardinality(S \ {j})
      BY <2>3, <2>4, FS_Subset
    <3> QED BY <2>4, <3>1, FS_CardinalityType
  <2>6. Cardinality(E) \in 0..(n - 1)
    BY <1>1, <2>5
  <2> QED BY <2>2, <2>5, <2>6 DEF E
<1>7. ASSUME NEW i \in S, NEW j \in S, Other!Before(s[i], s[j])
      PROVE  Other!Place(s, i) < Other!Place(s, j)
  <2> DEFINE E == Earlier(s, i)
             F == Earlier(s, j)
  <2>1. E \in SUBSET F /\ i \in F /\ i \notin E
    <3>1. \A k \in S : Other!Before(s[k], s[i]) => Other!Before(s[k], s[j])
      BY <1>3, <1>7 DEF Compared
    <3>2. ~Other!Before(s[i], s[i])
      BY <1>3 DEF Compared
    <3> QED BY <1>1, <1>7, <3>1, <3>2 DEF Earlier
  <2>2. IsFiniteSet(F) /\ Other!Place(s, i) = Cardinality(E) /\ Other!Place(s, j) = Cardinality(F)
    BY <1>6
  <2> HIDE DEF E, F
  <2>3. IsFiniteSet(F \ {i}) /\ Cardinality(F \ {i}) = Cardinality(F) - 1
    BY <2>1, <2>2, FS_RemoveElement
  <2>4. E \in SUBSET (F \ {i})
    BY <2>1
  <2>5. Cardinality(E) <= Cardinality(F \ {i}) /\ IsFiniteSet(E)
    BY <2>3, <2>4, FS_Subset
  <2>6. Cardinality(E) \in Nat /\ Cardinality(F) \in Nat
    BY <2>2, <2>5, FS_CardinalityType
  <2> QED BY <2>2, <2>3, <2>5, <2>6
<1>8. \A p \in 0..(n - 1) : \E j \in S : Other!Place(s, j) = p
  <2> DEFINE T == 0..(n - 1)
             f == [j \in S |-> Other!Place(s, j)]
  <2>1. f \in [S -> T]
    BY <1>6
  <2>2. \A i, j \in S : f[i] = f[j] => i = j
    <3> SUFFICES ASSUME NEW i \in S, NEW j \in S, f[i] = f[j], i # j PROVE FALSE
      OBVIOUS
    <3>1. f[i] < f[j] \/ f[j] < f[i]
      BY <1>4, <1>7
    <3>2. f[i] \in Nat /\ f[j] \in Nat
      BY <2>1
    <3> QED BY <3>1, <3>2
  <2>3. f \in Injection(S, T)
    <3> HIDE DEF f, T
    <3> QED BY <2>1, <2>2 DEF Injection, IsInjective
  <2>4. IsFiniteSet(T) /\ Cardinality(T) = n
    <3>1. n = 0 \/ 0 <= n - 1
      BY <1>1
    <3>2. IsFiniteSet(T) /\ Cardinality(T) = IF 0 > n - 1 THEN 0 ELSE (n - 1) - 0 + 1
      BY <1>1, FS_Interval
    <3> HIDE DEF T
    <3> QED BY <1>1, <3>1, <3>2
  <2>5. f \in Surjection(S, T)
    <3> HIDE DEF f, T
    <3> QED BY <1>5, <2>3, <2>4, FS_Injection
  <2>6. \A p \in T : \E j \in S : f[j] = p
    <3> HIDE DEF f, T
    <3> QED BY <2>5 DEF Surjection
  <2> QED BY <2>6
<1> QED BY <1>4, <1>6, <1>7, <1>8 DEF S, n

\* Sorting puts the changes in the order of their ids, and leaves none out.
LEMMA SortedInOrder ==
    ASSUME NEW s \in Seq(Edit), OncePerId(s)
    PROVE  /\ Other!Sorted(s) \in Seq(Edit) /\ Len(Other!Sorted(s)) = Len(s)
           /\ InOrder(Other!Sorted(s)) /\ Elems(Other!Sorted(s)) = Elems(s)
<1> DEFINE n == Len(s)
           S == 1..n
           at == [p \in S |-> CHOOSE j \in S : Other!Place(s, j) = p - 1]
           t == Other!Sorted(s)
<1>1. n \in Nat /\ DOMAIN s = S /\ \A i \in S : s[i] \in Edit
  OBVIOUS
<1>2. /\ \A j \in S : Other!Place(s, j) \in 0..(n - 1)
      /\ \A i, j \in S : Other!Before(s[i], s[j]) => Other!Place(s, i) < Other!Place(s, j)
      /\ \A i, j \in S : i = j \/ Other!Before(s[i], s[j]) \/ Other!Before(s[j], s[i])
      /\ \A p \in 0..(n - 1) : \E j \in S : Other!Place(s, j) = p
  BY Places
<1>3. \A p \in S : at[p] \in S /\ Other!Place(s, at[p]) = p - 1
  <2> SUFFICES ASSUME NEW p \in S PROVE at[p] \in S /\ Other!Place(s, at[p]) = p - 1
    OBVIOUS
  <2>1. p - 1 \in 0..(n - 1)
    BY <1>1
  <2>2. \E j \in S : Other!Place(s, j) = p - 1
    BY <1>2, <2>1
  <2> HIDE DEF S
  <2> QED BY <2>2
<1>4. t = [p \in S |-> s[at[p]]]
  BY <1>1 DEF Other!Sorted
<1> HIDE DEF at, t
<1>5. t \in Seq(Edit) /\ Len(t) = n /\ DOMAIN t = S
  <2>1. t \in [1..n -> Edit]
    BY <1>1, <1>3, <1>4
  <2> QED BY <1>1, <2>1, IsASeq, LenProperties
<1> HIDE DEF S, n
<1>6. InOrder(t)
  <2> SUFFICES ASSUME NEW p \in S, NEW r \in S, p < r PROVE Other!Before(t[p], t[r])
    BY <1>5 DEF InOrder
  <2>1. Other!Place(s, at[p]) < Other!Place(s, at[r])
    BY <1>1, <1>3 DEF S
  <2>2. ~Other!Before(s[at[r]], s[at[p]]) /\ at[p] # at[r]
    <3>1. Other!Place(s, at[p]) \in Nat /\ Other!Place(s, at[r]) \in Nat
      BY <1>1, <1>2, <1>3
    <3>2. Other!Before(s[at[r]], s[at[p]]) => Other!Place(s, at[r]) < Other!Place(s, at[p])
      BY <1>2, <1>3
    <3> QED BY <2>1, <3>1, <3>2
  <2> QED BY <1>2, <1>3, <1>4, <2>2
<1>7. Elems(t) = Elems(s)
  <2>1. \A j \in S : \E p \in S : at[p] = j
    <3> SUFFICES ASSUME NEW j \in S PROVE \E p \in S : at[p] = j
      OBVIOUS
    <3> DEFINE p == Other!Place(s, j) + 1
    <3>1. p \in S /\ p - 1 = Other!Place(s, j)
      BY <1>1, <1>2 DEF S
    <3> HIDE DEF p
    <3>2. Other!Place(s, at[p]) = Other!Place(s, j) /\ at[p] \in S
      BY <1>3, <3>1
    <3>3. Other!Place(s, j) \in Nat
      BY <1>1, <1>2
    <3>4. ~(Other!Place(s, j) < Other!Place(s, at[p])) /\ ~(Other!Place(s, at[p]) < Other!Place(s, j))
      BY <3>2, <3>3
    <3>5. at[p] = j
      BY <1>2, <3>2, <3>4
    <3> QED BY <3>1, <3>5
  <2> QED BY <1>1, <1>3, <1>4, <1>5, <2>1 DEF Elems
<1> QED BY <1>5, <1>6, <1>7 DEF t, n

\* What is in order has each id once.
LEMMA OrderedOnce ==
    ASSUME NEW s \in Seq(Edit), InOrder(s)
    PROVE  OncePerId(s)
<1> SUFFICES ASSUME NEW i \in DOMAIN s, NEW j \in DOMAIN s, s[i].i = s[j].i, i # j PROVE FALSE
  BY DEF OncePerId
<1>1. i \in 1..Len(s) /\ j \in 1..Len(s) /\ s[i] \in Edit /\ s[j] \in Edit
  OBVIOUS
<1>2. Other!Before(s[i], s[j]) \/ Other!Before(s[j], s[i])
  <2>1. i < j \/ j < i
    BY <1>1
  <2> QED BY <2>1 DEF InOrder
<1>3. Compared(s[i], s[j], s[i]) /\ Compared(s[j], s[i], s[j])
  BY <1>1, TotalOrder
<1> QED BY <1>2, <1>3 DEF Compared

\* In a sequence in order the i-th change comes after i - 1 others.
LEMMA Ranked ==
    ASSUME NEW s \in Seq(Edit), InOrder(s)
    PROVE  /\ Cardinality(Elems(s)) = Len(s)
           /\ \A i \in 1..Len(s) :
                 Cardinality({c \in Elems(s) : Other!Before(c, s[i])}) = i - 1
<1> DEFINE n == Len(s)
<1>1. n \in Nat /\ DOMAIN s = 1..n /\ \A i \in 1..n : s[i] \in Edit
  OBVIOUS
<1>2. \A i, j, k \in 1..n : Compared(s[i], s[j], s[k])
  BY <1>1, TotalOrder
<1>3. \A i, j \in 1..n : s[i] = s[j] => i = j
  BY <1>1, OrderedOnce DEF OncePerId
<1>4. \A i, j \in 1..n : i < j => Other!Before(s[i], s[j])
  BY <1>1 DEF InOrder
<1> HIDE DEF n
<1>5. ASSUME NEW m \in 0..n, NEW B, B = {s[k] : k \in 1..m} PROVE Cardinality(B) = m
  <2> DEFINE S == 1..m
             f == [k \in S |-> s[k]]
  <2>1. m \in Nat /\ S \subseteq 1..n
    BY <1>1
  <2>2. IsFiniteSet(S) /\ Cardinality(S) = IF 1 > m THEN 0 ELSE m - 1 + 1
    BY <2>1, FS_Interval
  <2>3. f \in Bijection(S, B)
    <3>1. f \in [S -> B] /\ \A b \in B : \E k \in S : f[k] = b
      BY <1>5
    <3>2. \A i, j \in S : f[i] = f[j] => i = j
      BY <1>3, <2>1
    <3> HIDE DEF f, S
    <3> QED BY <3>1, <3>2 DEF Bijection, Injection, Surjection, IsInjective
  <2> HIDE DEF S, f
  <2>4. Cardinality(B) = Cardinality(S)
    BY <2>2, <2>3, FS_Bijection DEF ExistsBijection
  <2> QED BY <2>1, <2>2, <2>4
<1>6. Cardinality(Elems(s)) = n
  <2>1. Elems(s) = {s[k] : k \in 1..n} /\ n \in 0..n
    BY <1>1 DEF Elems
  <2> QED BY <1>5, <2>1
<1>7. ASSUME NEW i \in 1..n
      PROVE  Cardinality({c \in Elems(s) : Other!Before(c, s[i])}) = i - 1
  <2>1. i - 1 \in 0..n
    BY <1>1
  <2>2. {c \in Elems(s) : Other!Before(c, s[i])} = {s[k] : k \in 1..(i - 1)}
    <3>1. \A k \in 1..n : Other!Before(s[k], s[i]) => k \in 1..(i - 1)
      <4> SUFFICES ASSUME NEW k \in 1..n, Other!Before(s[k], s[i]) PROVE k < i
        BY <1>1
      <4>1. ~Other!Before(s[i], s[k]) /\ ~Other!Before(s[i], s[i])
        BY <1>2 DEF Compared
      <4>2. ~(i < k) /\ i # k
        BY <1>4, <4>1
      <4> QED BY <1>1, <4>2
    <3>2. \A k \in 1..(i - 1) : k \in 1..n /\ Other!Before(s[k], s[i])
      <4> SUFFICES ASSUME NEW k \in 1..(i - 1) PROVE k \in 1..n /\ Other!Before(s[k], s[i])
        OBVIOUS
      <4>1. k \in 1..n /\ k < i
        BY <1>1
      <4> QED BY <1>4, <4>1
    <3> QED BY <1>1, <3>1, <3>2 DEF Elems
  <2> QED BY <1>5, <2>1, <2>2
<1> QED BY <1>6, <1>7 DEF n

\* There is one order for a set of changes.
LEMMA OneOrder ==
    ASSUME NEW s \in Seq(Edit), InOrder(s), NEW t \in Seq(Edit), InOrder(t), Elems(s) = Elems(t)
    PROVE  s = t
<1>1. /\ Cardinality(Elems(s)) = Len(s)
      /\ \A i \in 1..Len(s) : Cardinality({c \in Elems(s) : Other!Before(c, s[i])}) = i - 1
  BY Ranked
<1>2. /\ Cardinality(Elems(t)) = Len(t)
      /\ \A i \in 1..Len(t) : Cardinality({c \in Elems(t) : Other!Before(c, t[i])}) = i - 1
  BY Ranked
<1>3. Len(s) = Len(t) /\ Len(s) \in Nat /\ DOMAIN s = 1..Len(s) /\ DOMAIN t = 1..Len(t)
  BY <1>1, <1>2
<1>4. ASSUME NEW i \in 1..Len(s) PROVE s[i] = t[i]
  <2>1. PICK j \in 1..Len(t) : s[i] = t[j]
    <3>1. s[i] \in Elems(s)
      BY <1>3 DEF Elems
    <3>2. s[i] \in Elems(t)
      BY <3>1
    <3> QED BY <1>3, <3>2 DEF Elems
  <2>2. i - 1 = j - 1
    BY <1>1, <1>2, <2>1
  <2>3. i = j
    BY <1>3, <2>2
  <2> QED BY <2>1, <2>3
<1> QED BY <1>3, <1>4

-----------------------------------------------------------------------------
\* What findIndex gives: the first cursor with the index, if any.
FoundAt(l, i, f) ==
    \/ f = 0 /\ \A j \in 1..Len(l) : l[j].index # i
    \/ f \in 1..Len(l) /\ l[f].index = i /\ \A j \in 1..Len(l) : l[j].index = i => f <= j

\* An index is found if there is a cursor with it.
LEMMA Finds == ASSUME NEW l \in Cursors, NEW i PROVE FoundAt(l, i, Other!Find(l, i))
<1> DEFINE n == Len(l)
           I == {j \in 1..n : l[j].index = i}
<1>1. n \in Nat
  BY DEF Cursors
<1>2. Other!Find(l, i) = IF I # {} THEN CHOOSE x \in I : \A y \in I : x =< y ELSE 0
  BY DEF Other!Find, Other!SelectInSeq, Other!Min
<1> HIDE DEF n
<1>3. CASE I = {}
  <2>1. \A j \in 1..n : l[j].index # i
    BY <1>3
  <2>2. Other!Find(l, i) = 0
    BY <1>2, <1>3
  <2> QED BY <2>1, <2>2 DEF FoundAt, n
<1>4. CASE I # {}
  <2> DEFINE f == CHOOSE x \in I : \A y \in I : x =< y
  <2>1. \E x \in I : \A y \in I : x <= y
    <3>1. I \in SUBSET (1..n)
      OBVIOUS
    <3> HIDE DEF I
    <3> QED BY <1>1, <1>4, <3>1, LeastExists
  <2>2. f \in I /\ \A y \in I : f =< y
    <3> HIDE DEF I
    <3> QED BY <2>1
  <2>3. Other!Find(l, i) = f
    BY <1>2, <1>4
  <2> HIDE DEF f
  <2>4. f \in 1..n /\ l[f].index = i /\ \A j \in 1..n : l[j].index = i => f <= j
    BY <2>2
  <2> QED BY <2>3, <2>4 DEF FoundAt, n
<1> QED BY <1>3, <1>4

\* Where the cursors of l are after an insertion at place p + 1.
Shifted(p, i) == IF i <= p THEN i ELSE i + 1

\* m is l with e after its first p cursors.
InsertedAt(m, l, p, e) ==
    /\ m \in Cursors /\ Len(m) = Len(l) + 1
    /\ m[p + 1] = e
    /\ \A i \in 1..Len(l) : m[Shifted(p, i)] = l[i]

\* splice inserts a cursor and shifts those after it.
LEMMA Inserted ==
    ASSUME NEW l \in Cursors, NEW p \in 0..Len(l), NEW e \in Other!Cursor
    PROVE  InsertedAt(Other!InsertAt(l, p + 1, e), l, p, e)
<1> DEFINE s == SubSeq(l, 1, p)
           t == SubSeq(l, p + 1, Len(l))
           S == Other!Cursor
           n == Len(l)
           u == s \o <<e>>
           m == u \o t
<1>0. n \in Nat /\ p \in Nat /\ p <= n /\ (p + 1) - 1 = p /\ l \in Seq(S)
  BY DEF Cursors
<1>1. Other!InsertAt(l, p + 1, e) = m
  BY <1>0 DEF Other!InsertAt
<1>2. s \in Seq(S) /\ Len(s) = p /\ \A i \in 1..p : s[i] = l[i]
  BY <1>0
<1>3. t \in Seq(S) /\ Len(t) = n - p /\ \A i \in 1..(n - p) : t[i] = l[p + i]
  BY <1>0
<1> HIDE DEF s, t, n, S
<1>4. u \in Seq(S) /\ Len(u) = p + 1 /\ u[p + 1] = e /\ \A i \in 1..p : u[i] = l[i]
  <2>1. <<e>> \in Seq(S) /\ Len(<<e>>) = 1 /\ <<e>>[1] = e
    BY DEF S
  <2>2. u \in Seq(S) /\ Len(u) = p + 1
    BY <1>0, <1>2, <2>1, ConcatProperties
  <2>3. \A i \in 1..Len(u) : u[i] = IF i <= Len(s) THEN s[i] ELSE <<e>>[i - Len(s)]
    BY <1>2, <2>1, <2>2, ConcatProperties
  <2> HIDE DEF u
  <2>4. u[p + 1] = e
    <3>1. p + 1 \in 1..Len(u) /\ ~(p + 1 <= Len(s)) /\ (p + 1) - Len(s) = 1
      BY <1>0, <1>2, <2>2
    <3> QED BY <2>1, <2>3, <3>1
  <2>5. \A i \in 1..p : u[i] = l[i]
    <3> SUFFICES ASSUME NEW i \in 1..p PROVE u[i] = l[i]
      OBVIOUS
    <3>1. i \in 1..Len(u) /\ i <= Len(s)
      BY <1>0, <1>2, <2>2
    <3> QED BY <1>2, <2>3, <3>1
  <2> QED BY <2>2, <2>4, <2>5
<1> HIDE DEF u
<1>5. m \in Seq(S) /\ Len(m) = n + 1
      /\ \A i \in 1..Len(m) : m[i] = IF i <= Len(u) THEN u[i] ELSE t[i - Len(u)]
  <2>1. /\ m \in Seq(S) /\ Len(m) = Len(u) + Len(t)
        /\ \A i \in 1..Len(m) : m[i] = IF i <= Len(u) THEN u[i] ELSE t[i - Len(u)]
    BY <1>3, <1>4, ConcatProperties
  <2> QED BY <1>0, <1>3, <1>4, <2>1
<1> HIDE DEF m
<1>6. m[p + 1] = e
  <2>1. p + 1 \in 1..Len(m) /\ p + 1 <= Len(u)
    BY <1>0, <1>4, <1>5
  <2> QED BY <1>4, <1>5, <2>1
<1>7. ASSUME NEW i \in 1..n PROVE m[Shifted(p, i)] = l[i]
  <2>1. CASE i <= p
    <3>1. Shifted(p, i) = i /\ i \in 1..Len(m) /\ i <= Len(u) /\ i \in 1..p
      BY <1>0, <1>4, <1>5, <2>1 DEF Shifted
    <3> QED BY <1>4, <1>5, <3>1
  <2>2. CASE ~(i <= p)
    <3>1. Shifted(p, i) = i + 1 /\ i + 1 \in 1..Len(m) /\ ~(i + 1 <= Len(u))
          /\ (i + 1) - Len(u) = i - p /\ i - p \in 1..(n - p) /\ p + (i - p) = i
      BY <1>0, <1>4, <1>5, <2>2 DEF Shifted
    <3>2. m[i + 1] = t[i - p]
      BY <1>5, <3>1
    <3> QED BY <1>3, <3>1, <3>2
  <2> QED BY <2>1, <2>2
<1> QED BY <1>1, <1>5, <1>6, <1>7 DEF InsertedAt, Cursors, S, m, n

\* Every place but the new one is one of before.
LEMMA ShiftedPlaces ==
    ASSUME NEW n \in Nat, NEW p \in 0..n
    PROVE  /\ \A i \in 1..n : Shifted(p, i) \in 1..(n + 1) /\ Shifted(p, i) # p + 1
           /\ \A i, j \in 1..n : i < j => Shifted(p, i) < Shifted(p, j)
           /\ \A a \in 1..(n + 1) : a = p + 1 \/ \E i \in 1..n : a = Shifted(p, i)
<1>1. ASSUME NEW a \in 1..(n + 1) PROVE a = p + 1 \/ \E i \in 1..n : a = Shifted(p, i)
  <2>1. CASE a <= p
    <3>1. a \in 1..n /\ a = Shifted(p, a)
      BY <2>1 DEF Shifted
    <3> QED BY <3>1
  <2>2. CASE a > p + 1
    <3>1. a - 1 \in 1..n /\ a = Shifted(p, a - 1)
      BY <2>2 DEF Shifted
    <3> QED BY <3>1
  <2> QED BY <2>1, <2>2
<1>2. /\ \A i \in 1..n : Shifted(p, i) \in 1..(n + 1) /\ Shifted(p, i) # p + 1
      /\ \A i, j \in 1..n : i < j => Shifted(p, i) < Shifted(p, j)
  BY DEF Shifted
<1> QED BY <1>1, <1>2

-----------------------------------------------------------------------------
\* The two kinds of changes.
LEMMA EditTypes ==
    ASSUME NEW c \in Edit
    PROVE  /\ c.t \in {"INS", "DEL"} /\ c.i \in Other!Index
           /\ c.t = "INS" => c.v \in Element /\ c.p \in Other!Index \cup {Nil}
           /\ c.t = "DEL" => c.v \in Other!Index
BY DEF Edit, Other!Change

\* A place in the list or behind it.
LEMMA PositionType ==
    ASSUME NEW l \in Cursors, NEW c
    PROVE  /\ Other!Position(l, c) \in 0..Len(l)
           /\ c.p # Nil => Other!Position(l, c) = Other!Find(l, c.p)
<1>1. /\ Other!Find(l, c.p) \in 0..Len(l) /\ Other!Find(l, c.n) \in 0..Len(l)
      /\ Len(l) \in Nat /\ (l # <<>> => Len(l) > 0)
  <2>1. Len(l) \in Nat /\ (l # <<>> => Len(l) > 0)
    BY DEF Cursors
  <2>2. FoundAt(l, c.p, Other!Find(l, c.p)) /\ FoundAt(l, c.n, Other!Find(l, c.n))
    BY Finds
  <2> QED BY <2>1, <2>2 DEF FoundAt
<1> QED BY <1>1 DEF Other!Position

\* Applying a change to a list gives a list.
LEMMA ApplyType ==
    ASSUME NEW l \in Cursors, NEW c \in Edit, ~Other!Throws(l, c)
    PROVE  Other!Apply(l, c) \in Cursors
<1>1. CASE c.t = "DEL"
  <2> DEFINE f == Other!Find(l, c.v)
             e == [l[f] EXCEPT !.tomb = TRUE]
  <2>1. f \in 1..Len(l)
    BY <1>1, Finds DEF Other!Throws, FoundAt
  <2>2. Other!Apply(l, c) = [l EXCEPT ![f] = e]
    BY <1>1 DEF Other!Apply
  <2>3. e \in Other!Cursor
    <3>1. l[f] \in Other!Cursor
      BY <2>1 DEF Cursors
    <3> HIDE DEF f
    <3> QED BY <3>1 DEF Other!Cursor
  <2> HIDE DEF e, f
  <2> QED BY <2>1, <2>2, <2>3, ExceptSeq DEF Cursors
<1>2. CASE c.t # "DEL"
  <2> DEFINE e == [index |-> c.i, value |-> c.v, tomb |-> FALSE]
             p == Other!Position(l, c)
  <2>1. e \in Other!Cursor
    BY <1>2, EditTypes DEF Other!Cursor
  <2>2. Other!Apply(l, c) = Other!InsertAt(l, p + 1, e)
    BY <1>2 DEF Other!Apply
  <2>3. p \in 0..Len(l)
    BY PositionType
  <2> HIDE DEF e, p
  <2> QED BY <2>1, <2>2, <2>3, Inserted DEF InsertedAt
<1> QED BY <1>1, <1>2

\* What one change more makes of a list, or of none.
Lists == Cursors \cup {Nil}

Listing(s) ==
    [i \in 1..Len(s) |-> [l \in Lists |->
        IF l = Nil \/ Other!Throws(l, s[i]) THEN Nil ELSE Other!Apply(l, s[i])]]

\* Changes are applied one after the other.
LEMMA ListFold ==
    ASSUME NEW s \in Seq(Edit)
    PROVE  \E g : Steps(g, Len(s), Lists, <<>>, Listing(s)) /\ g[Len(s)] = Other!ListOf(s)
<1> DEFINE n == Len(s)
           S == 1..n
           H == Listing(s)
           Add(l, i) == IF l = Nil \/ Other!Throws(l, s[i]) THEN Nil ELSE Other!Apply(l, s[i])
           Step(g) == [u \in SUBSET S |->
               IF u = {} THEN <<>> ELSE Add(g[u \ {Greatest(u)}], Greatest(u))]
           G == CHOOSE g : g = Step(g)
<1>0. n \in Nat /\ DOMAIN s = S /\ \A i \in S : s[i] \in Edit
  OBVIOUS
<1>1. /\ \A i \in S, l \in Lists : Add(l, i) \in Lists
      /\ \A i \in S, l \in Lists : H[i][l] = Add(l, i)
  <2>1. ASSUME NEW i \in S, NEW l \in Lists PROVE Add(l, i) \in Lists
    <3>1. CASE l = Nil \/ Other!Throws(l, s[i])
      BY <3>1 DEF Lists
    <3>2. CASE ~(l = Nil \/ Other!Throws(l, s[i]))
      BY <1>0, <3>2, ApplyType DEF Lists
    <3> QED BY <3>1, <3>2
  <2>2. \A i \in S, l \in Lists : H[i][l] = Add(l, i)
    BY DEF Listing
  <2> HIDE DEF Add, H, S
  <2> QED BY <2>1, <2>2
<1>2. Tabled(n, Lists, <<>>, H)
  <2>1. <<>> \in Lists
    BY DEF Lists, Cursors
  <2> HIDE DEF H, Add
  <2> QED BY <1>0, <1>1, <2>1 DEF Tabled
<1> HIDE DEF H, Add, n
<1>3. PICK h : GreatestTaken(h, n, Lists, <<>>, H)
  BY <1>2, GreatestTakenExists
<1>4. ASSUME NEW u \in SUBSET S PROVE h[u] = Step(h)[u]
  <2>1. CASE u = {}
    BY <1>3, <2>1 DEF GreatestTaken
  <2>2. CASE u # {}
    <3>1. Greatest(u) \in S /\ h[u \ {Greatest(u)}] \in Lists
          /\ h[u] = H[Greatest(u)][h[u \ {Greatest(u)}]]
      BY <1>3, <2>2 DEF GreatestTaken
    <3> QED BY <1>1, <2>2, <3>1
  <2> QED BY <2>1, <2>2
<1>5. h = Step(h)
  <2>1. h = [u \in SUBSET S |-> h[u]]
    BY <1>3 DEF GreatestTaken
  <2> QED BY <1>4, <2>1
<1>6. G = Step(G)
  <2> HIDE DEF Step
  <2> QED BY <1>5
<1>7. G[S] = Other!ListOf(s)
  BY <1>0 DEF Add, Greatest, Other!ListOf, Other!FoldLeft, Other!MapThenFoldSet, Other!Max
<1> HIDE DEF G
<1>8. TakesGreatest(G, n, Lists, <<>>, H)
  <2>1. G = [u \in SUBSET S |-> G[u]] /\ G[{}] = <<>>
    BY <1>6
  <2>2. ASSUME NEW u \in SUBSET S, u # {}, G[u \ {Greatest(u)}] \in Lists
        PROVE  G[u] = H[Greatest(u)][G[u \ {Greatest(u)}]]
    <3>1. G[u] = Add(G[u \ {Greatest(u)}], Greatest(u))
      BY <1>6, <2>2
    <3>2. Greatest(u) \in S
      BY <1>3, <2>2 DEF GreatestTaken
    <3> QED BY <1>1, <2>2, <3>1, <3>2
  <2> QED BY <2>1, <2>2 DEF TakesGreatest
<1> QED BY <1>2, <1>7, <1>8, GreatestInOrder DEF n, H

-----------------------------------------------------------------------------
\* Changes whose previous element has the same author.
Attached(c) == c.t = "INS" /\ c.p # Nil /\ c.p[1] = c.i[1]

\* Each change comes after the one that made what it deletes, or is attached to.
Founded(s) ==
    \A j \in 1..Len(s) :
        /\ s[j].t = "DEL" => \E i \in 1..(j - 1) : s[i].t = "INS" /\ s[i].i = s[j].v
        /\ Attached(s[j]) => \E i \in 1..(j - 1) : s[i].t = "INS" /\ s[i].i = s[j].p

\* l holds each of the elements of the first k changes once, and tombs for deleted ones.
Holds(l, s, k) ==
    /\ \A a, b \in 1..Len(l) : l[a].index = l[b].index => a = b
    /\ \A a \in 1..Len(l) : \E j \in 1..k : s[j].t = "INS" /\ s[j].i = l[a].index
    /\ \A j \in 1..k : s[j].t = "INS" => \E a \in 1..Len(l) : l[a].index = s[j].i
    /\ \A a \in 1..Len(l) : l[a].tomb => \E j \in 1..k : s[j].t = "DEL" /\ s[j].v = l[a].index
    /\ \A j \in 1..k : s[j].t = "DEL" => \E a \in 1..Len(l) : l[a].tomb /\ l[a].index = s[j].v

\* What is attached comes after what it is attached to.
Attaches(l, s, k) ==
    \A j \in 1..k : Attached(s[j]) =>
        \A a, b \in 1..Len(l) : l[a].index = s[j].p /\ l[b].index = s[j].i => a < b

\* Deleting an element makes it a tomb, and it is there.
LEMMA DeleteStep ==
    ASSUME NEW s \in Seq(Edit), OncePerId(s), Founded(s), NEW k \in Nat, k + 1 <= Len(s),
           NEW l \in Cursors, Holds(l, s, k), Attaches(l, s, k), s[k + 1].t = "DEL"
    PROVE  /\ ~Other!Throws(l, s[k + 1])
           /\ Holds(Other!Apply(l, s[k + 1]), s, k + 1)
           /\ Attaches(Other!Apply(l, s[k + 1]), s, k + 1)
<1> DEFINE c == s[k + 1]
           f == Other!Find(l, c.v)
           m == Other!Apply(l, c)
           n == Len(l)
<1>1. k + 1 \in 1..Len(s) /\ (k + 1) - 1 = k /\ c \in Edit /\ n \in Nat
  BY DEF Cursors
<1>2. \E i \in 1..k : s[i].t = "INS" /\ s[i].i = c.v
  <2>1. \E i \in 1..((k + 1) - 1) : s[i].t = "INS" /\ s[i].i = c.v
    BY <1>1 DEF Founded
  <2> QED BY <1>1, <2>1
<1>3. PICK a \in 1..n : l[a].index = c.v
  <2>1. \A j \in 1..k : s[j].t = "INS" => \E a \in 1..n : l[a].index = s[j].i
    BY DEF Holds
  <2> HIDE DEF c, n
  <2>2. PICK i \in 1..k : s[i].t = "INS" /\ s[i].i = c.v
    BY <1>2
  <2> QED BY <2>1, <2>2
<1>4. f = a
  <2>1. FoundAt(l, c.v, f)
    BY Finds
  <2>2. \A x, y \in 1..n : l[x].index = l[y].index => x = y
    BY DEF Holds
  <2> HIDE DEF f, n, c
  <2> QED BY <1>3, <2>1, <2>2 DEF FoundAt, n
<1>5. ~Other!Throws(l, c)
  BY <1>1, <1>3, <1>4 DEF Other!Throws
<1>6. m = [l EXCEPT ![a] = [l[a] EXCEPT !.tomb = TRUE]]
  BY <1>4 DEF Other!Apply
<1>7. l[a] \in Other!Cursor
  BY DEF Cursors
<1> DEFINE e == [l[a] EXCEPT !.tomb = TRUE]
<1>8. e \in Other!Cursor /\ e.index = l[a].index /\ e.tomb = TRUE
  BY <1>7 DEF Other!Cursor
<1>9. Len(m) = n /\ \A x \in 1..n : m[x] = IF x = a THEN e ELSE l[x]
  <2> HIDE DEF e, m
  <2> QED BY <1>6, <1>8, ExceptSeq DEF Cursors, e
<1> HIDE DEF e, m, f, n
<1>10. \A x \in 1..n : m[x].index = l[x].index /\ (m[x].tomb <=> (x = a \/ l[x].tomb))
  BY <1>8, <1>9
<1>11. /\ \A x, y \in 1..n : l[x].index = l[y].index => x = y
       /\ \A x \in 1..n : \E j \in 1..k : s[j].t = "INS" /\ s[j].i = l[x].index
       /\ \A j \in 1..k : s[j].t = "INS" => \E x \in 1..n : l[x].index = s[j].i
       /\ \A x \in 1..n : l[x].tomb => \E j \in 1..k : s[j].t = "DEL" /\ s[j].v = l[x].index
       /\ \A j \in 1..k : s[j].t = "DEL" => \E x \in 1..n : l[x].tomb /\ l[x].index = s[j].v
  BY DEF Holds, n
<1> HIDE DEF c
<1>12. /\ c.t = "DEL" /\ c = s[k + 1] /\ ~Attached(c)
       /\ \A j \in 1..(k + 1) : (j \in 1..k \/ j = k + 1)
       /\ \A j \in 1..k : j \in 1..(k + 1)
       /\ k + 1 \in 1..(k + 1)
  BY DEF c, Attached
<1>13. Holds(m, s, k + 1)
  <2>1. \A x, y \in 1..n : m[x].index = m[y].index => x = y
    BY <1>10, <1>11
  <2>2. \A x \in 1..n : \E j \in 1..(k + 1) : s[j].t = "INS" /\ s[j].i = m[x].index
    BY <1>10, <1>11, <1>12
  <2>3. \A j \in 1..(k + 1) : s[j].t = "INS" => \E x \in 1..n : m[x].index = s[j].i
    BY <1>10, <1>11, <1>12
  <2>4. \A x \in 1..n : m[x].tomb => \E j \in 1..(k + 1) : s[j].t = "DEL" /\ s[j].v = m[x].index
    BY <1>3, <1>10, <1>11, <1>12
  <2>5. \A j \in 1..(k + 1) : s[j].t = "DEL" => \E x \in 1..n : m[x].tomb /\ m[x].index = s[j].v
    BY <1>3, <1>10, <1>11, <1>12
  <2> QED BY <1>9, <2>1, <2>2, <2>3, <2>4, <2>5 DEF Holds
<1>14. Attaches(m, s, k + 1)
  BY <1>9, <1>10, <1>12 DEF Attaches, n
<1> QED BY <1>5, <1>13, <1>14 DEF m, c

\* An element that is inserted is new, and none is lost or changes its order.
LEMMA InsertStep ==
    ASSUME NEW s \in Seq(Edit), OncePerId(s), Founded(s), NEW k \in Nat, k + 1 <= Len(s),
           NEW l \in Cursors, Holds(l, s, k), Attaches(l, s, k), s[k + 1].t = "INS"
    PROVE  /\ ~Other!Throws(l, s[k + 1])
           /\ Holds(Other!Apply(l, s[k + 1]), s, k + 1)
           /\ Attaches(Other!Apply(l, s[k + 1]), s, k + 1)
<1> DEFINE c == s[k + 1]
           e == [index |-> c.i, value |-> c.v, tomb |-> FALSE]
           p == Other!Position(l, c)
           m == Other!Apply(l, c)
           n == Len(l)
<1>1. k + 1 \in 1..Len(s) /\ (k + 1) - 1 = k /\ c \in Edit /\ n \in Nat
  BY DEF Cursors
<1>2. ~Other!Throws(l, c)
  BY DEF Other!Throws
<1>3. e \in Other!Cursor /\ e.index = c.i /\ e.tomb = FALSE
  BY <1>1, EditTypes DEF Other!Cursor
<1>4. m = Other!InsertAt(l, p + 1, e)
  BY DEF Other!Apply
<1>5. /\ \A j \in 1..k : s[j].i # c.i
      /\ \A j \in 1..k : Attached(s[j]) => s[j].p # c.i
      /\ Attached(c) => \E i \in 1..k : s[i].t = "INS" /\ s[i].i = c.p
  <2>1. \A i, j \in 1..Len(s) : s[i].i = s[j].i => i = j
    BY DEF OncePerId
  <2>2. \A j \in 1..k : j \in 1..Len(s) /\ j # k + 1
    BY <1>1
  <2>3. \A j \in 1..k : s[j].i # c.i
    BY <1>1, <2>1, <2>2
  <2>4. ASSUME NEW j \in 1..k, Attached(s[j]) PROVE s[j].p # c.i
    <3>1. PICK i \in 1..(j - 1) : s[i].i = s[j].p
      BY <2>2, <2>4 DEF Founded
    <3>2. i \in 1..k
      BY <1>1
    <3> HIDE DEF c
    <3> QED BY <2>3, <3>1, <3>2
  <2>5. Attached(c) => \E i \in 1..k : s[i].t = "INS" /\ s[i].i = c.p
    <3>1. Attached(c) => \E i \in 1..((k + 1) - 1) : s[i].t = "INS" /\ s[i].i = c.p
      BY <1>1 DEF Founded
    <3> QED BY <1>1, <3>1
  <2> QED BY <2>3, <2>4, <2>5
<1>6. /\ \A x, y \in 1..n : l[x].index = l[y].index => x = y
      /\ \A x \in 1..n : \E j \in 1..k : s[j].t = "INS" /\ s[j].i = l[x].index
      /\ \A j \in 1..k : s[j].t = "INS" => \E x \in 1..n : l[x].index = s[j].i
      /\ \A x \in 1..n : l[x].tomb => \E j \in 1..k : s[j].t = "DEL" /\ s[j].v = l[x].index
      /\ \A j \in 1..k : s[j].t = "DEL" => \E x \in 1..n : l[x].tomb /\ l[x].index = s[j].v
  BY DEF Holds
<1>7. p \in 0..n /\ (c.p # Nil => p = Other!Find(l, c.p))
  <2> HIDE DEF c
  <2> QED BY PositionType
<1>8. InsertedAt(m, l, p, e)
  <2> HIDE DEF e, p
  <2> QED BY <1>3, <1>4, <1>7, Inserted
<1>9. Len(m) = n + 1 /\ m[p + 1] = e /\ \A i \in 1..n : m[Shifted(p, i)] = l[i]
  BY <1>8 DEF InsertedAt
<1>10. Attached(c) => \A x \in 1..n : l[x].index = c.p => x = p
  <2> SUFFICES ASSUME Attached(c), NEW x \in 1..n, l[x].index = c.p PROVE x = p
    OBVIOUS
  <2>1. FoundAt(l, c.p, Other!Find(l, c.p))
    BY Finds
  <2>2. p = Other!Find(l, c.p)
    BY <1>7 DEF Attached
  <2> HIDE DEF p, c
  <2> QED BY <1>6, <2>1, <2>2 DEF FoundAt
<1>11. c.t = "INS" /\ c = s[k + 1]
  OBVIOUS
<1> HIDE DEF c, e, p, m, n
<1>12. /\ \A i \in 1..n : Shifted(p, i) \in 1..(n + 1) /\ Shifted(p, i) # p + 1
       /\ \A i, j \in 1..n : i < j => Shifted(p, i) < Shifted(p, j)
       /\ \A a \in 1..(n + 1) : a = p + 1 \/ \E i \in 1..n : a = Shifted(p, i)
       /\ p + 1 \in 1..(n + 1)
  <2>1. p + 1 \in 1..(n + 1)
    BY <1>1, <1>7
  <2> QED BY <1>1, <1>7, <2>1, ShiftedPlaces
<1>13. /\ \A j \in 1..(k + 1) : (j \in 1..k \/ j = k + 1)
       /\ \A j \in 1..k : j \in 1..(k + 1)
       /\ k + 1 \in 1..(k + 1)
  OBVIOUS
<1>14. /\ m[p + 1].index = c.i /\ ~m[p + 1].tomb
       /\ \A i \in 1..n : m[Shifted(p, i)].index = l[i].index
       /\ \A i \in 1..n : (m[Shifted(p, i)].tomb <=> l[i].tomb)
       /\ \A i \in 1..n : l[i].index # c.i
  <2>1. m[p + 1].index = c.i /\ ~m[p + 1].tomb
    BY <1>3, <1>9
  <2>2. /\ \A i \in 1..n : m[Shifted(p, i)].index = l[i].index
        /\ \A i \in 1..n : (m[Shifted(p, i)].tomb <=> l[i].tomb)
    BY <1>9
  <2>3. \A i \in 1..n : l[i].index # c.i
    <3> SUFFICES ASSUME NEW i \in 1..n PROVE l[i].index # c.i
      OBVIOUS
    <3>1. PICK j \in 1..k : s[j].i = l[i].index
      BY <1>6
    <3>2. s[j].i # c.i
      BY <1>5
    <3> QED BY <3>1, <3>2
  <2> QED BY <2>1, <2>2, <2>3
<1>15. Holds(m, s, k + 1)
  <2>1. \A x, y \in 1..(n + 1) : m[x].index = m[y].index => x = y
    BY <1>6, <1>12, <1>14
  <2>2. \A x \in 1..(n + 1) : \E j \in 1..(k + 1) : s[j].t = "INS" /\ s[j].i = m[x].index
    BY <1>6, <1>11, <1>12, <1>13, <1>14
  <2>3. \A j \in 1..(k + 1) : s[j].t = "INS" => \E x \in 1..(n + 1) : m[x].index = s[j].i
    BY <1>6, <1>11, <1>12, <1>13, <1>14
  <2>4. \A x \in 1..(n + 1) :
           m[x].tomb => \E j \in 1..(k + 1) : s[j].t = "DEL" /\ s[j].v = m[x].index
    <3> SUFFICES ASSUME NEW x \in 1..(n + 1), m[x].tomb
                 PROVE  \E j \in 1..(k + 1) : s[j].t = "DEL" /\ s[j].v = m[x].index
      OBVIOUS
    <3>1. PICK i \in 1..n : x = Shifted(p, i)
      BY <1>12, <1>14
    <3>2. l[i].tomb /\ l[i].index = m[x].index
      BY <1>14, <3>1
    <3> QED BY <1>6, <1>13, <3>2
  <2>5. \A j \in 1..(k + 1) :
           s[j].t = "DEL" => \E x \in 1..(n + 1) : m[x].tomb /\ m[x].index = s[j].v
    <3> SUFFICES ASSUME NEW j \in 1..(k + 1), s[j].t = "DEL"
                 PROVE  \E x \in 1..(n + 1) : m[x].tomb /\ m[x].index = s[j].v
      OBVIOUS
    <3>1. j \in 1..k
      BY <1>11, <1>13
    <3>2. PICK i \in 1..n : l[i].tomb /\ l[i].index = s[j].v
      BY <1>6, <3>1
    <3>3. m[Shifted(p, i)].tomb /\ m[Shifted(p, i)].index = s[j].v
      BY <1>14, <3>2
    <3> QED BY <1>12, <3>3
  <2> QED BY <1>9, <2>1, <2>2, <2>3, <2>4, <2>5 DEF Holds
<1>16. Attaches(m, s, k + 1)
  <2> SUFFICES ASSUME NEW j \in 1..(k + 1), Attached(s[j]),
                      NEW a \in 1..(n + 1), NEW b \in 1..(n + 1),
                      m[a].index = s[j].p, m[b].index = s[j].i
               PROVE  a < b
    BY <1>9 DEF Attaches
  <2>1. CASE j \in 1..k
    <3>1. s[j].i # c.i /\ s[j].p # c.i
      BY <1>5, <2>1
    <3>2. PICK x \in 1..n : a = Shifted(p, x) /\ l[x].index = s[j].p
      BY <1>12, <1>14, <3>1
    <3>3. PICK y \in 1..n : b = Shifted(p, y) /\ l[y].index = s[j].i
      BY <1>12, <1>14, <3>1
    <3>4. x < y
      BY <2>1, <3>2, <3>3 DEF Attaches, n
    <3> QED BY <1>12, <3>2, <3>3, <3>4
  <2>2. CASE j = k + 1
    <3>1. Attached(c) /\ m[a].index = c.p /\ m[b].index = c.i
      BY <1>11, <2>2
    <3>2. c.p # c.i
      BY <1>5, <3>1
    <3>3. PICK x \in 1..n : a = Shifted(p, x) /\ l[x].index = c.p
      BY <1>12, <1>14, <3>1, <3>2
    <3>4. x = p
      BY <1>10, <3>1, <3>3
    <3>5. b = p + 1
      BY <1>12, <1>14, <3>1
    <3> QED BY <1>7, <3>3, <3>4, <3>5 DEF Shifted
  <2> QED BY <1>13, <2>1, <2>2
<1> QED BY <1>2, <1>15, <1>16 DEF m, c

\* l is the list of all changes of s.
Computed(l, s) == l \in Cursors /\ Holds(l, s, Len(s)) /\ Attaches(l, s, Len(s))

\* Computing the list of changes each of which comes after what it needs never throws.
LEMMA ListComputed ==
    ASSUME NEW s \in Seq(Edit), OncePerId(s), Founded(s)
    PROVE  Computed(Other!ListOf(s), s)
<1>1. PICK g : Steps(g, Len(s), Lists, <<>>, Listing(s)) /\ g[Len(s)] = Other!ListOf(s)
  BY ListFold
<1>2. /\ Len(s) \in Nat /\ g[0] = <<>>
      /\ \A k \in 1..Len(s) : g[k] = Listing(s)[k][g[k - 1]]
  BY <1>1 DEF Steps
<1> DEFINE Good(k) == g[k] \in Cursors /\ Holds(g[k], s, k) /\ Attaches(g[k], s, k)
           N == {k \in Nat : k <= Len(s) => Good(k)}
<1>3. 0 \in N
  <2>1. <<>> \in Cursors /\ Holds(<<>>, s, 0) /\ Attaches(<<>>, s, 0)
    BY DEF Cursors, Holds, Attaches
  <2> QED BY <1>2, <2>1
<1>4. ASSUME NEW k \in Nat, k \in N PROVE k + 1 \in N
  <2> SUFFICES ASSUME k + 1 <= Len(s) PROVE Good(k + 1)
    OBVIOUS
  <2>1. k + 1 \in 1..Len(s) /\ (k + 1) - 1 = k /\ Good(k)
    BY <1>2, <1>4
  <2> DEFINE l == g[k]
  <2>2. l \in Cursors /\ Holds(l, s, k) /\ Attaches(l, s, k) /\ s[k + 1] \in Edit
    BY <2>1
  <2>3. l # Nil
    BY <2>2, NilAssumption DEF Cursors
  <2>4. g[k + 1] = IF l = Nil \/ Other!Throws(l, s[k + 1]) THEN Nil ELSE Other!Apply(l, s[k + 1])
    BY <1>2, <2>1, <2>2 DEF Listing, Lists
  <2>5. s[k + 1].t = "INS" \/ s[k + 1].t = "DEL"
    BY <2>2, EditTypes
  <2> HIDE DEF l
  <2>6. /\ ~Other!Throws(l, s[k + 1])
        /\ Holds(Other!Apply(l, s[k + 1]), s, k + 1)
        /\ Attaches(Other!Apply(l, s[k + 1]), s, k + 1)
    <3>1. CASE s[k + 1].t = "INS"
      BY <2>2, <3>1, InsertStep
    <3>2. CASE s[k + 1].t = "DEL"
      BY <2>2, <3>2, DeleteStep
    <3> QED BY <2>5, <3>1, <3>2
  <2>7. Other!Apply(l, s[k + 1]) \in Cursors
    BY <2>2, <2>6, ApplyType
  <2> QED BY <2>3, <2>4, <2>6, <2>7
<1>5. Nat \subseteq N
  <2> HIDE DEF N
  <2> QED BY <1>3, <1>4, SetInduction
<1>6. Good(Len(s))
  BY <1>2, <1>5
<1> QED BY <1>1, <1>6 DEF Computed

-----------------------------------------------------------------------------
\* The changes of a writer among others.
Owned(r, K) == {c \in K : c.i[1] = r}

\* What a change deletes, or is attached to, was made by one that sorts before it.
Closed(K) ==
    \A c \in K :
        /\ c.t = "DEL" => \E d \in K : d.t = "INS" /\ d.i = c.v /\ Other!Before(d, c)
        /\ Attached(c) => \E d \in K : d.t = "INS" /\ d.i = c.p /\ Other!Before(d, c)

\* Every change is one its author has.
AtAuthors(K) == \A c \in K : c \in Elems(entries[c.i[1]])

\* The numbers of r's own changes are those before the next one, of as many calls.
Numbering(r) ==
    /\ \A c \in Owned(r, Elems(entries[r])) : c.i[2] < Cardinality(Owned(r, Elems(entries[r])))
    /\ Cardinality(Owned(r, Elems(entries[r]))) <= Len(calls)

ListTyped ==
    /\ entries \in [Writer -> Seq(Edit)]
    /\ broadcast \in SUBSET Seq(Edit)
    /\ calls \in Seq(Edit)

\* The lists are computed from all changes: nothing has thrown.
Shown ==
    /\ temp = [r \in Writer |-> Other!ListOf(entries[r])]
    /\ updateSize = [r \in Writer |-> Len(entries[r])]

Sound(s) == InOrder(s) /\ Closed(Elems(s)) /\ AtAuthors(Elems(s))

(***************************************************************************)
(* The inductive invariant of lists: a replica's changes are sorted, with  *)
(* whatever they refer to before them, its author has all that are its,    *)
(* and what is shown is computed from them.                                *)
(***************************************************************************)
ListInv ==
    /\ ListTyped
    /\ Shown
    /\ \A r \in Writer : Sound(entries[r]) /\ Numbering(r)
    /\ \A S \in broadcast : Closed(Elems(S)) /\ AtAuthors(Elems(S))

\* No user who deletes sorts before another: with one who does, a DEL may be
\* applied before the INS of its element, and throws.
DeletersLast == \A d \in Deleter, r \in Writer : r <= d

\* In order, each change comes after those it refers to.
LEMMA InOrderFounded ==
    ASSUME NEW s \in Seq(Edit), InOrder(s), Closed(Elems(s))
    PROVE  Founded(s)
<1>1. /\ Len(s) \in Nat /\ DOMAIN s = 1..Len(s) /\ \A i \in 1..Len(s) : s[i] \in Edit
  OBVIOUS
<1>2. ASSUME NEW j \in 1..Len(s), NEW d \in Elems(s), Other!Before(d, s[j])
      PROVE  \E i \in 1..(j - 1) : s[i] = d
  <2>1. PICK i \in 1..Len(s) : s[i] = d
    BY <1>1 DEF Elems
  <2>2. Compared(s[j], s[i], s[j])
    BY <1>1, TotalOrder
  <2>3. Compared(s[i], s[j], s[i])
    BY <1>1, TotalOrder
  <2>4. ~(j < i) /\ i # j
    BY <1>1, <1>2, <2>1, <2>2, <2>3 DEF Compared, InOrder
  <2>5. i \in 1..(j - 1)
    BY <1>1, <2>4
  <2> QED BY <2>1, <2>5
<1>3. ASSUME NEW j \in 1..Len(s), NEW i,
             \E d \in Elems(s) : d.t = "INS" /\ d.i = i /\ Other!Before(d, s[j])
      PROVE  \E k \in 1..(j - 1) : s[k].t = "INS" /\ s[k].i = i
  <2>1. PICK d \in Elems(s) : d.t = "INS" /\ d.i = i /\ Other!Before(d, s[j])
    BY <1>3
  <2>2. PICK k \in 1..(j - 1) : s[k] = d
    BY <1>2, <2>1
  <2> QED BY <2>1, <2>2
<1>4. \A j \in 1..Len(s) : s[j] \in Elems(s)
  BY <1>1 DEF Elems
<1> SUFFICES ASSUME NEW j \in 1..Len(s)
             PROVE  /\ s[j].t = "DEL" => \E i \in 1..(j - 1) : s[i].t = "INS" /\ s[i].i = s[j].v
                    /\ Attached(s[j]) => \E i \in 1..(j - 1) : s[i].t = "INS" /\ s[i].i = s[j].p
  BY DEF Founded
<1>5. CASE s[j].t = "DEL"
  <2>1. \E d \in Elems(s) : d.t = "INS" /\ d.i = s[j].v /\ Other!Before(d, s[j])
    BY <1>4, <1>5 DEF Closed
  <2>2. ~Attached(s[j])
    BY <1>5 DEF Attached
  <2> QED BY <1>3, <2>1, <2>2
<1>6. CASE s[j].t # "DEL"
  <2>1. Attached(s[j]) =>
           \E d \in Elems(s) : d.t = "INS" /\ d.i = s[j].p /\ Other!Before(d, s[j])
    BY <1>4 DEF Closed
  <2> QED BY <1>3, <1>6, <2>1
<1> QED BY <1>5, <1>6

\* What the invariant says of one replica.
LEMMA OneReplica ==
    ASSUME ListInv, NEW r \in Writer
    PROVE  /\ entries[r] \in Seq(Edit) /\ InOrder(entries[r]) /\ OncePerId(entries[r])
           /\ Founded(entries[r]) /\ Closed(Elems(entries[r])) /\ AtAuthors(Elems(entries[r]))
           /\ temp[r] = Other!ListOf(entries[r]) /\ Computed(temp[r], entries[r])
           /\ updateSize[r] = Len(entries[r])
<1>1. entries[r] \in Seq(Edit) /\ Sound(entries[r])
  BY DEF ListInv, ListTyped
<1>2. InOrder(entries[r]) /\ Closed(Elems(entries[r])) /\ AtAuthors(Elems(entries[r]))
  BY <1>1 DEF Sound
<1>3. OncePerId(entries[r]) /\ Founded(entries[r])
  BY <1>1, <1>2, OrderedOnce, InOrderFounded
<1>4. temp[r] = Other!ListOf(entries[r]) /\ updateSize[r] = Len(entries[r])
  BY DEF ListInv, Shown
<1>5. Computed(Other!ListOf(entries[r]), entries[r])
  BY <1>1, <1>3, ListComputed
<1> QED BY <1>1, <1>2, <1>3, <1>4, <1>5

\* Ids tell apart what authors have.
LEMMA OneEachId ==
    ASSUME ListInv, NEW K, NEW L, K \subseteq Edit, L \subseteq Edit, AtAuthors(K), AtAuthors(L)
    PROVE  OneForEach(K \cup L)
<1> SUFFICES ASSUME NEW c \in K \cup L, NEW d \in K \cup L, c.i = d.i PROVE c = d
  BY DEF OneForEach
<1> DEFINE r == c.i[1]
<1>1. r \in Writer
  BY IdType
<1>2. c \in Elems(entries[r]) /\ d \in Elems(entries[r])
  BY DEF AtAuthors
<1> HIDE DEF r
<1>3. OncePerId(entries[r])
  BY <1>1, OneReplica
<1>4. PICK i \in DOMAIN entries[r], j \in DOMAIN entries[r] : c = entries[r][i] /\ d = entries[r][j]
  BY <1>2 DEF Elems
<1> QED BY <1>3, <1>4 DEF OncePerId

\* The number of a writer's changes in a sequence of them.
LEMMA OwnedNumber ==
    ASSUME NEW s \in Seq(Edit), OncePerId(s), NEW r
    PROVE  /\ Cardinality({j \in DOMAIN s : s[j].i[1] = r}) = Cardinality(Owned(r, Elems(s)))
           /\ IsFiniteSet(Elems(s)) /\ IsFiniteSet(Owned(r, Elems(s)))
           /\ Cardinality(Owned(r, Elems(s))) \in Nat
<1> DEFINE J == {j \in DOMAIN s : s[j].i[1] = r}
           K == Owned(r, Elems(s))
           f == [j \in J |-> s[j]]
<1>1. DOMAIN s = 1..Len(s) /\ Len(s) \in Nat
  OBVIOUS
<1>2. IsFiniteSet(1..Len(s))
  BY <1>1, FS_Interval
<1>3. IsFiniteSet(J)
  <2>1. J \in SUBSET (1..Len(s))
    BY <1>1
  <2> HIDE DEF J
  <2> QED BY <1>2, <2>1, FS_Subset
<1>4. f \in Bijection(J, K)
  <2>1. f \in [J -> K] /\ \A c \in K : \E j \in J : f[j] = c
    BY DEF Owned, Elems
  <2>2. \A i, j \in J : f[i] = f[j] => i = j
    BY DEF OncePerId
  <2> HIDE DEF f, J, K
  <2> QED BY <2>1, <2>2 DEF Bijection, Injection, Surjection, IsInjective
<1> HIDE DEF f
<1>5. Cardinality(J) = Cardinality(K) /\ IsFiniteSet(K)
  <2> HIDE DEF J, K
  <2> QED BY <1>3, <1>4, FS_Bijection DEF ExistsBijection
<1>6. IsFiniteSet(Elems(s))
  <2> DEFINE g == [j \in 1..Len(s) |-> s[j]]
  <2>1. g \in Surjection(1..Len(s), Elems(s))
    BY <1>1 DEF Surjection, Elems
  <2> HIDE DEF g
  <2> QED BY <1>2, <2>1, FS_Surjection
<1>7. Cardinality(K) \in Nat
  <2> HIDE DEF K
  <2> QED BY <1>5, FS_CardinalityType
<1> QED BY <1>5, <1>6, <1>7

-----------------------------------------------------------------------------
\* A step that gives r the changes t, sorted, and shows what is computed from them.
Sorting(r, s, t) ==
    /\ t \in Seq(Edit) /\ InOrder(t) /\ Elems(t) = Elems(s)
    /\ entries' = [entries EXCEPT ![r] = t]
    /\ temp' = [temp EXCEPT ![r] = Other!ListOf(t)]
    /\ updateSize' = [updateSize EXCEPT ![r] = Len(t)]

\* calculate always computes the list, unless nothing is new.
LEMMA Recalculated ==
    ASSUME ListInv, NEW r \in Writer, NEW s \in Seq(Edit), OncePerId(s), Closed(Elems(s)),
           Len(s) = Len(entries[r]) => s = entries[r], Other!Calculate(r, s)
    PROVE  \E t : Sorting(r, s, t)
<1>1. /\ entries[r] \in Seq(Edit) /\ InOrder(entries[r])
      /\ temp[r] = Other!ListOf(entries[r]) /\ updateSize[r] = Len(entries[r])
  BY OneReplica
<1>2. DOMAIN temp = Writer /\ DOMAIN updateSize = Writer
  BY DEF ListInv, Shown
<1>3. temp = [temp EXCEPT ![r] = temp[r]] /\ updateSize = [updateSize EXCEPT ![r] = updateSize[r]]
  <2>1. temp = [w \in Writer |-> temp[w]] /\ updateSize = [w \in Writer |-> updateSize[w]]
    BY DEF ListInv, Shown
  <2> QED BY <2>1
<1>4. CASE Len(s) = updateSize[r]
  <2>1. s = entries[r] /\ entries' = [entries EXCEPT ![r] = s] /\ temp' = temp
        /\ updateSize' = updateSize
    BY <1>1, <1>4 DEF Other!Calculate
  <2>2. temp' = [temp EXCEPT ![r] = Other!ListOf(s)] /\ updateSize' = [updateSize EXCEPT ![r] = Len(s)]
    BY <1>1, <1>3, <2>1
  <2>3. Sorting(r, s, s)
    BY <1>1, <2>1, <2>2 DEF Sorting
  <2> QED BY <2>3
<1>5. CASE Len(s) # updateSize[r]
  <2> DEFINE t == Other!Sorted(s)
  <2>1. t \in Seq(Edit) /\ Len(t) = Len(s) /\ InOrder(t) /\ Elems(t) = Elems(s)
    BY SortedInOrder
  <2>2. /\ entries' = [entries EXCEPT ![r] = t]
        /\ IF Other!ListOf(t) = Nil
           THEN temp' = temp /\ updateSize' = updateSize
           ELSE /\ temp' = [temp EXCEPT ![r] = Other!ListOf(t)]
                /\ updateSize' = [updateSize EXCEPT ![r] = Len(s)]
    BY <1>5 DEF Other!Calculate
  <2> HIDE DEF t
  <2>3. Closed(Elems(t))
    BY <2>1
  <2>4. Computed(Other!ListOf(t), t)
    BY <2>1, <2>3, OrderedOnce, InOrderFounded, ListComputed
  <2>5. Other!ListOf(t) # Nil
    BY <2>4, NilAssumption DEF Computed, Cursors
  <2>6. Sorting(r, s, t)
    BY <2>1, <2>2, <2>5 DEF Sorting
  <2> QED BY <2>6
<1> QED BY <1>4, <1>5

\* A step of one replica keeps the invariant, if what it adds is sound.
LEMMA ListKept ==
    ASSUME ListInv, NEW r \in Writer, NEW s, NEW t, Sorting(r, s, t), Closed(Elems(s)),
           Elems(entries[r]) \subseteq Elems(s),
           \A c \in Elems(s) : c.i[1] = r \/ c \in Elems(entries[c.i[1]]),
           \A c \in Owned(r, Elems(s)) : c.i[2] < Cardinality(Owned(r, Elems(s))),
           Cardinality(Owned(r, Elems(s))) <= Len(calls'),
           calls' \in Seq(Edit), Len(calls) <= Len(calls'), UNCHANGED broadcast
    PROVE  ListInv'
<1>1. /\ t \in Seq(Edit) /\ InOrder(t) /\ Elems(t) = Elems(s)
      /\ entries' = [entries EXCEPT ![r] = t]
      /\ temp' = [temp EXCEPT ![r] = Other!ListOf(t)]
      /\ updateSize' = [updateSize EXCEPT ![r] = Len(t)]
  BY DEF Sorting
<1>2. /\ entries \in [Writer -> Seq(Edit)] /\ broadcast \in SUBSET Seq(Edit) /\ calls \in Seq(Edit)
      /\ temp = [w \in Writer |-> Other!ListOf(entries[w])]
      /\ updateSize = [w \in Writer |-> Len(entries[w])]
      /\ \A w \in Writer : Sound(entries[w]) /\ Numbering(w)
      /\ \A S \in broadcast : Closed(Elems(S)) /\ AtAuthors(Elems(S))
  BY DEF ListInv, ListTyped, Shown
<1>3. ListTyped'
  BY <1>1, <1>2 DEF ListTyped
<1>4. entries'[r] = t /\ \A w \in Writer : w # r => entries'[w] = entries[w]
  BY <1>1, <1>2
<1>5. Shown'
  <2>1. temp' = [w \in Writer |-> Other!ListOf(entries'[w])]
    BY <1>1, <1>2, <1>4
  <2>2. updateSize' = [w \in Writer |-> Len(entries'[w])]
    BY <1>1, <1>2, <1>4
  <2> QED BY <2>1, <2>2 DEF Shown
<1>6. \A w \in Writer : Elems(entries[w]) \subseteq Elems(entries'[w])
  BY <1>1, <1>4
<1>7. ASSUME NEW K, K \subseteq Edit, AtAuthors(K) PROVE AtAuthors(K)'
  <2> SUFFICES ASSUME NEW c \in K PROVE c \in Elems(entries'[c.i[1]])
    BY DEF AtAuthors
  <2>1. c.i[1] \in Writer
    BY <1>7, IdType
  <2>2. c \in Elems(entries[c.i[1]])
    BY <1>7 DEF AtAuthors
  <2> QED BY <1>6, <2>1, <2>2
<1>8. \A w \in Writer : Elems(entries[w]) \subseteq Edit
  <2> SUFFICES ASSUME NEW w \in Writer PROVE Elems(entries[w]) \subseteq Edit
    OBVIOUS
  <2>1. entries[w] \in Seq(Edit)
    BY <1>2
  <2> QED BY <2>1 DEF Elems
<1>9. \A S \in broadcast : Elems(S) \subseteq Edit
  <2> SUFFICES ASSUME NEW S \in broadcast PROVE Elems(S) \subseteq Edit
    OBVIOUS
  <2>1. S \in Seq(Edit)
    BY <1>2
  <2> QED BY <2>1 DEF Elems
<1>10. ASSUME NEW w \in Writer PROVE (Sound(entries[w]) /\ Numbering(w))'
  <2>1. CASE w = r
    <3>1. ASSUME NEW c \in Elems(t) PROVE c \in Elems(entries'[c.i[1]])
      <4>1. c.i[1] \in Writer
        <5>1. c \in Edit
          BY <1>1 DEF Elems
        <5> QED BY <5>1, IdType
      <4>2. CASE c.i[1] = r
        BY <1>4, <4>2
      <4>3. CASE c.i[1] # r
        BY <1>1, <1>6, <4>1, <4>3
      <4> QED BY <4>2, <4>3
    <3>2. Sound(entries[w])'
      BY <1>1, <1>4, <2>1, <3>1 DEF Sound, AtAuthors
    <3>3. Numbering(w)'
      BY <1>1, <1>4, <2>1 DEF Numbering
    <3> QED BY <3>2, <3>3
  <2>2. CASE w # r
    <3>1. entries'[w] = entries[w]
      BY <1>4, <2>2
    <3>2. AtAuthors(Elems(entries[w]))'
      <4>1. AtAuthors(Elems(entries[w]))
        BY <1>2 DEF Sound
      <4> DEFINE K == Elems(entries[w])
      <4>2. AtAuthors(K) /\ K \subseteq Edit
        BY <1>8, <4>1
      <4> HIDE DEF K
      <4>3. \A c \in K : c \in Elems(entries'[c.i[1]])
        BY <1>7, <4>2 DEF AtAuthors
      <4> QED BY <3>1, <4>3 DEF K, AtAuthors
    <3>3. Sound(entries[w])'
      BY <1>2, <3>1, <3>2 DEF Sound
    <3>4. Numbering(w)'
      <4>1. /\ \A c \in Owned(w, Elems(entries[w])) :
                  c.i[2] < Cardinality(Owned(w, Elems(entries[w])))
            /\ Cardinality(Owned(w, Elems(entries[w]))) <= Len(calls)
        BY <1>2 DEF Numbering
      <4>2. /\ entries[w] \in Seq(Edit) /\ OncePerId(entries[w])
            /\ Len(calls) \in Nat /\ Len(calls') \in Nat
        BY <1>2, OneReplica
      <4>3. Cardinality(Owned(w, Elems(entries[w]))) \in Nat
        BY <4>2, OwnedNumber
      <4>4. Cardinality(Owned(w, Elems(entries[w]))) <= Len(calls')
        BY <4>1, <4>2, <4>3
      <4> QED BY <3>1, <4>1, <4>4 DEF Numbering
    <3> QED BY <3>3, <3>4
  <2> QED BY <2>1, <2>2
<1>11. ASSUME NEW S \in broadcast' PROVE (Closed(Elems(S)) /\ AtAuthors(Elems(S)))'
  <2>1. S \in broadcast /\ Closed(Elems(S)) /\ AtAuthors(Elems(S)) /\ Elems(S) \subseteq Edit
    BY <1>2, <1>9
  <2>2. \A c \in Elems(S) : c \in Elems(entries'[c.i[1]])
    <3> DEFINE K == Elems(S)
    <3>1. AtAuthors(K) /\ K \subseteq Edit
      BY <2>1
    <3> HIDE DEF K
    <3>2. \A c \in K : c \in Elems(entries'[c.i[1]])
      BY <1>7, <3>1 DEF AtAuthors
    <3> QED BY <3>2 DEF K
  <2> QED BY <2>1, <2>2 DEF AtAuthors
<1> QED BY <1>3, <1>5, <1>10, <1>11 DEF ListInv

\* Sending the changes of a replica.
LEMMA SendKeeps ==
    ASSUME ListInv, NEW r \in Writer, Other!Send(r)
    PROVE  ListInv'
<1>1. /\ broadcast' = broadcast \cup {entries[r]}
      /\ entries' = entries /\ temp' = temp /\ updateSize' = updateSize /\ calls' = calls
  BY DEF Other!Send
<1>2. entries[r] \in Seq(Edit) /\ Closed(Elems(entries[r])) /\ AtAuthors(Elems(entries[r]))
  BY OneReplica
<1>3. ListTyped'
  BY <1>1, <1>2 DEF ListInv, ListTyped
<1>4. Shown'
  BY <1>1 DEF ListInv, Shown
<1>5. ASSUME NEW w \in Writer PROVE (Sound(entries[w]) /\ Numbering(w))'
  BY <1>1 DEF ListInv, Sound, Numbering, AtAuthors
<1>6. ASSUME NEW S \in broadcast' PROVE (Closed(Elems(S)) /\ AtAuthors(Elems(S)))'
  <2>1. Closed(Elems(S)) /\ AtAuthors(Elems(S))
    BY <1>1, <1>2 DEF ListInv
  <2> QED BY <1>1, <2>1 DEF AtAuthors
<1> QED BY <1>3, <1>4, <1>5, <1>6 DEF ListInv

\* Merging the changes of another replica: those of r's own are no news.
LEMMA ListMergeKeeps ==
    ASSUME ListInv, NEW r \in Writer, NEW S \in broadcast, Other!MergeChanges(r, S)
    PROVE  ListInv'
<1> DEFINE s == Other!Merged(entries[r], S)
           E == Elems(entries[r])
<1>1. /\ entries[r] \in Seq(Edit) /\ OncePerId(entries[r])
      /\ Closed(E) /\ AtAuthors(E)
  BY OneReplica
<1>2. S \in Seq(Edit) /\ Closed(Elems(S)) /\ AtAuthors(Elems(S)) /\ calls \in Seq(Edit)
  BY DEF ListInv, ListTyped
<1>3. E \subseteq Edit /\ Elems(S) \subseteq Edit
  BY <1>1, <1>2 DEF Elems
<1>4. OneForEach(E \cup Elems(S))
  <2> HIDE DEF E
  <2> QED BY <1>1, <1>2, <1>3, OneEachId
<1>5. /\ s \in Seq(Edit) /\ OncePerId(s) /\ Elems(s) = E \cup Elems(S)
      /\ Len(s) = Len(entries[r]) => s = entries[r]
  BY <1>1, <1>2, <1>4, MergeAll
<1>6. Other!Calculate(r, s) /\ broadcast' = broadcast /\ calls' = calls
  BY DEF Other!MergeChanges
<1> HIDE DEF s, E
<1>7. Closed(Elems(s))
  BY <1>1, <1>2, <1>5 DEF Closed
<1>8. PICK t : Sorting(r, s, t)
  BY <1>5, <1>6, <1>7, Recalculated DEF E
<1>9. \A c \in Elems(s) : c.i[1] = r \/ c \in Elems(entries[c.i[1]])
  BY <1>1, <1>2, <1>5 DEF AtAuthors
<1>10. Owned(r, Elems(s)) = Owned(r, E)
  BY <1>2, <1>5 DEF Owned, AtAuthors, E
<1>11. /\ \A c \in Owned(r, E) : c.i[2] < Cardinality(Owned(r, E))
       /\ Cardinality(Owned(r, E)) <= Len(calls)
  BY DEF ListInv, Numbering, E
<1>12. Len(calls) <= Len(calls') /\ calls' \in Seq(Edit)
  BY <1>2, <1>6
<1> QED BY <1>5, <1>6, <1>7, <1>8, <1>9, <1>10, <1>11, <1>12, ListKept DEF E

\* The id a writer gives next is a new one of its own.
LEMMA NextIdNew ==
    ASSUME ListInv, NEW r \in Writer
    PROVE  /\ Other!NextId(r) = <<r, Cardinality(Owned(r, Elems(entries[r])))>>
           /\ Cardinality(Owned(r, Elems(entries[r]))) \in Nat
           /\ Len(calls) < MaxEdits => Other!NextId(r) \in Other!Index
           /\ \A c \in Elems(entries[r]) : c.i[1] = r => c.i[2] < Cardinality(Owned(r, Elems(entries[r])))
<1>1. entries[r] \in Seq(Edit) /\ OncePerId(entries[r])
  BY OneReplica
<1> DEFINE n == Cardinality(Owned(r, Elems(entries[r])))
<1>2. Cardinality({j \in DOMAIN entries[r] : entries[r][j].i[1] = r}) = n /\ n \in Nat
  BY <1>1, OwnedNumber
<1>3. Other!NextId(r) = <<r, n>>
  BY <1>2, EditCardinality DEF Other!NextId
<1>4. n <= Len(calls) /\ Len(calls) \in Nat
  BY DEF ListInv, Numbering, ListTyped
<1>5. \A c \in Elems(entries[r]) : c.i[1] = r => c.i[2] < n
  BY DEF ListInv, Numbering, Owned
<1> HIDE DEF n
<1>6. Len(calls) < MaxEdits => Other!NextId(r) \in Other!Index
  BY <1>2, <1>3, <1>4, EditsAssumption DEF Other!Index
<1> QED BY <1>2, <1>3, <1>5, <1>6 DEF n

\* Whether a replica shows an element.
Shows(r, i) == \E a \in 1..Len(temp[r]) : temp[r][a].index = i

\* What a replica shows was inserted by a change it has.
LEMMA ShownInserted ==
    ASSUME ListInv, NEW r \in Writer, NEW i, Shows(r, i)
    PROVE  \E d \in Elems(entries[r]) : d.t = "INS" /\ d.i = i
<1>1. /\ entries[r] \in Seq(Edit)
      /\ \A a \in 1..Len(temp[r]) :
            \E j \in 1..Len(entries[r]) :
                entries[r][j].t = "INS" /\ entries[r][j].i = temp[r][a].index
  BY OneReplica DEF Computed, Holds
<1>2. PICK a \in 1..Len(temp[r]) : temp[r][a].index = i
  BY DEF Shows
<1>3. PICK j \in 1..Len(entries[r]) : entries[r][j].t = "INS" /\ entries[r][j].i = i
  BY <1>1, <1>2
<1>4. entries[r][j] \in Elems(entries[r])
  BY <1>1 DEF Elems
<1> QED BY <1>3, <1>4

\* A change with the next id, that refers to what is shown, keeps the invariant.
LEMMA EditKeeps ==
    ASSUME ListInv, DeletersLast, NEW r \in Writer, NEW c \in Edit, c.i = Other!NextId(r),
           c.t = "DEL" => r \in Deleter /\ Shows(r, c.v),
           c.t = "INS" => c.p = Nil \/ Shows(r, c.p),
           Other!Make(r, c)
    PROVE  ListInv'
<1> DEFINE s == Append(entries[r], c)
           E == Elems(entries[r])
           n == Cardinality(Owned(r, E))
<1>1. /\ entries[r] \in Seq(Edit) /\ OncePerId(entries[r]) /\ Closed(E) /\ AtAuthors(E)
  BY OneReplica
<1>2. c.i = <<r, n>> /\ n \in Nat /\ c.i[1] = r /\ c.i[2] = n
      /\ \A d \in E : d.i[1] = r => d.i[2] < n
  BY NextIdNew
<1>3. calls \in Seq(Edit) /\ n <= Len(calls) /\ Len(calls) \in Nat
  BY DEF ListInv, ListTyped, Numbering
<1>4. Other!Calculate(r, s) /\ calls' = Append(calls, c) /\ broadcast' = broadcast
  BY DEF Other!Make
<1>5. /\ s \in Seq(Edit) /\ Len(s) = Len(entries[r]) + 1 /\ DOMAIN s = 1..(Len(entries[r]) + 1)
      /\ Len(entries[r]) \in Nat
      /\ \A j \in 1..Len(entries[r]) : s[j] = entries[r][j]
      /\ s[Len(entries[r]) + 1] = c
  BY <1>1
<1> DEFINE k == Len(entries[r])
<1>6. DOMAIN entries[r] = 1..k /\ \A j \in 1..k : entries[r][j] \in E
  BY <1>1 DEF Elems
<1>7. E \subseteq Edit /\ \A d \in E : d.i # c.i
  <2>1. E \subseteq Edit
    BY <1>1 DEF Elems
  <2>2. \A d \in E : d.i[1] = r => d.i[2] # n
    <3> SUFFICES ASSUME NEW d \in E, d.i[1] = r PROVE d.i[2] # n
      OBVIOUS
    <3>1. d.i[2] \in Nat
      BY <2>1, IdType
    <3> HIDE DEF n, E
    <3> QED BY <1>2, <3>1
  <2> HIDE DEF n, E
  <2> QED BY <1>2, <2>1, <2>2
<1> HIDE DEF s, E, n, k
<1>8. Elems(s) = E \cup {c}
  <2>1. \A j \in 1..(k + 1) : j \in 1..k \/ j = k + 1
    BY <1>5 DEF k
  <2>2. \A j \in 1..k : j \in 1..(k + 1)
    BY <1>5 DEF k
  <2>3. k + 1 \in 1..(k + 1)
    BY <1>5 DEF k
  <2>4. Elems(s) = {s[j] : j \in 1..(k + 1)}
    BY <1>5 DEF Elems, k
  <2>5. E = {entries[r][j] : j \in 1..k}
    BY <1>6 DEF E, Elems
  <2>6. \A j \in 1..k : s[j] = entries[r][j]
    BY <1>5 DEF k
  <2>7. s[k + 1] = c
    BY <1>5 DEF k
  <2> QED BY <2>1, <2>2, <2>3, <2>4, <2>5, <2>6, <2>7
<1>9. OncePerId(s)
  <2> SUFFICES ASSUME NEW i \in 1..(k + 1), NEW j \in 1..(k + 1), s[i].i = s[j].i PROVE i = j
    BY <1>5 DEF OncePerId, k
  <2>1. i \in 1..k \/ i = k + 1
    BY <1>5 DEF k
  <2>2. j \in 1..k \/ j = k + 1
    BY <1>5 DEF k
  <2>3. \A x \in 1..k : s[x] = entries[r][x] /\ s[x].i # c.i
    BY <1>5, <1>6, <1>7 DEF k
  <2>4. \A x, y \in 1..k : s[x].i = s[y].i => x = y
    BY <1>1, <1>6, <2>3 DEF OncePerId
  <2>5. s[k + 1] = c
    BY <1>5 DEF k
  <2> QED BY <2>1, <2>2, <2>3, <2>4, <2>5
<1>10. \A d \in E : d.i[1] = r => Other!Before(d, c)
  BY <1>2 DEF Other!Before
<1>11. Closed(Elems(s))
  <2>1. c.t = "DEL" => \E d \in E : d.t = "INS" /\ d.i = c.v /\ Other!Before(d, c)
    <3> SUFFICES ASSUME c.t = "DEL"
                 PROVE  \E d \in E : d.t = "INS" /\ d.i = c.v /\ Other!Before(d, c)
      OBVIOUS
    <3>1. PICK d \in E : d.t = "INS" /\ d.i = c.v
      BY ShownInserted DEF E
    <3>2. d.i[1] \in Nat /\ d.i[1] \in Writer /\ r \in Nat
      BY <1>7, IdType, WritersAssumption
    <3>3. d.i[1] <= r
      BY <3>2 DEF DeletersLast
    <3>4. d.i[1] < r \/ d.i[1] = r
      BY <3>2, <3>3
    <3>5. Other!Before(d, c)
      BY <1>2, <1>10, <3>4 DEF Other!Before
    <3> QED BY <3>1, <3>5
  <2>2. Attached(c) => \E d \in E : d.t = "INS" /\ d.i = c.p /\ Other!Before(d, c)
    <3> SUFFICES ASSUME Attached(c)
                 PROVE  \E d \in E : d.t = "INS" /\ d.i = c.p /\ Other!Before(d, c)
      OBVIOUS
    <3>1. Shows(r, c.p) /\ c.p[1] = r
      BY <1>2 DEF Attached
    <3>2. PICK d \in E : d.t = "INS" /\ d.i = c.p
      BY <3>1, ShownInserted DEF E
    <3> QED BY <1>10, <3>1, <3>2
  <2> QED BY <1>1, <1>8, <2>1, <2>2 DEF Closed
<1>12. PICK t : Sorting(r, s, t)
  <2>1. Len(s) # Len(entries[r])
    BY <1>5
  <2> QED BY <1>4, <1>5, <1>9, <1>11, <2>1, Recalculated
<1>13. Owned(r, Elems(s)) = Owned(r, E) \cup {c} /\ c \notin Owned(r, E)
  BY <1>2, <1>7, <1>8 DEF Owned
<1>14. Cardinality(Owned(r, Elems(s))) = n + 1
  <2>1. IsFiniteSet(Owned(r, E))
    BY <1>1, OwnedNumber DEF E
  <2> QED BY <1>13, <2>1, FS_AddElement DEF n
<1>15. \A d \in Owned(r, Elems(s)) : d.i[2] < n + 1
  <2> SUFFICES ASSUME NEW d \in Owned(r, Elems(s)) PROVE d.i[2] < n + 1
    OBVIOUS
  <2>1. CASE d = c
    BY <1>2, <2>1
  <2>2. CASE d # c
    <3>1. d \in E /\ d.i[1] = r
      BY <1>13, <2>2 DEF Owned
    <3>2. d.i[2] < n /\ d.i[2] \in Nat
      BY <1>2, <1>7, <3>1, IdType
    <3> QED BY <1>2, <3>2
  <2> QED BY <2>1, <2>2
<1>16. calls' \in Seq(Edit) /\ Len(calls') = Len(calls) + 1
  BY <1>3, <1>4
<1>17. Len(calls) <= Len(calls') /\ n + 1 <= Len(calls')
  BY <1>2, <1>3, <1>16
<1>18. \A d \in Elems(s) : d.i[1] = r \/ d \in Elems(entries[d.i[1]])
  BY <1>1, <1>2, <1>8 DEF AtAuthors
<1>19. E \subseteq Elems(s)
  BY <1>8
<1> QED BY <1>4, <1>11, <1>12, <1>14, <1>15, <1>16, <1>17, <1>18, <1>19, ListKept DEF E

\* The live elements of a replica are shown, and have ids.
LEMMA LiveShown ==
    ASSUME ListInv, NEW r \in Writer
    PROVE  /\ Other!Live(temp[r]) \in Cursors
           /\ \A j \in 1..Len(Other!Live(temp[r])) : Shows(r, Other!Live(temp[r])[j].index)
           /\ \A a \in 1..Len(temp[r]) : Shows(r, temp[r][a].index)
           /\ \A i : Shows(r, i) => i \in Other!Index
<1>1. temp[r] \in Cursors
  BY OneReplica DEF Computed
<1> DEFINE l == temp[r]
           live == Other!Live(l)
<1>2. live \in Cursors /\ \A j \in DOMAIN live : \E i \in DOMAIN l : live[j] = l[i]
  <2> HIDE DEF l
  <2> QED BY <1>1, LiveOnes DEF l
<1>3. DOMAIN live = 1..Len(live) /\ DOMAIN l = 1..Len(l)
      /\ \A a \in 1..Len(l) : l[a] \in Other!Cursor
  BY <1>1, <1>2 DEF Cursors
<1> HIDE DEF live
<1>4. ASSUME NEW j \in 1..Len(live) PROVE Shows(r, live[j].index)
  BY <1>2, <1>3 DEF Shows
<1>5. \A a \in 1..Len(l) : Shows(r, l[a].index)
  BY DEF Shows
<1>6. ASSUME NEW i, Shows(r, i) PROVE i \in Other!Index
  BY <1>3, <1>6 DEF Shows, Other!Cursor
<1> QED BY <1>2, <1>4, <1>5, <1>6 DEF live

\* PUSH.
LEMMA PushKeeps ==
    ASSUME ListInv, DeletersLast, NEW r \in Writer, NEW v \in Element, Other!Push(r, v)
    PROVE  ListInv'
<1> DEFINE live == Other!Live(temp[r])
           p == IF live = <<>> THEN Nil ELSE Other!Last(live).index
           c == [t |-> "INS", i |-> Other!NextId(r), v |-> v, p |-> p, n |-> Nil]
<1>1. Other!Make(r, c)
  BY DEF Other!Push
<1>2. Len(calls) < MaxEdits
  BY <1>1 DEF Other!Make
<1>3. p = Nil \/ (Shows(r, p) /\ p \in Other!Index)
  <2> SUFFICES ASSUME live # <<>> PROVE Shows(r, p) /\ p \in Other!Index
    OBVIOUS
  <2>1. live \in Cursors /\ \A j \in 1..Len(live) : Shows(r, live[j].index)
    BY LiveShown
  <2> HIDE DEF live
  <2>2. Len(live) \in 1..Len(live)
    BY <2>1 DEF Cursors
  <2>3. p = live[Len(live)].index
    BY DEF Other!Last
  <2>4. Shows(r, p)
    BY <2>1, <2>2, <2>3
  <2> HIDE DEF p
  <2> QED BY <2>4, LiveShown
<1>4. Other!NextId(r) \in Other!Index
  BY <1>2, NextIdNew
<1>5. c \in Edit
  <2> HIDE DEF p
  <2> QED BY <1>3, <1>4 DEF Edit, Other!Change
<1>6. c.i = Other!NextId(r) /\ c.t = "INS" /\ c.p = p
  OBVIOUS
<1> HIDE DEF c, p
<1> QED BY <1>1, <1>3, <1>5, <1>6, EditKeeps

\* INS.
LEMMA InsKeeps ==
    ASSUME ListInv, DeletersLast, NEW r \in Writer, NEW v \in Element, NEW j \in Nat, Other!Ins(r, v, j)
    PROVE  ListInv'
<1> DEFINE live == Other!Live(temp[r])
           cur == IF live = <<>> THEN 0 ELSE Other!Find(temp[r], live[j].index)
           p == Other!At(temp[r], cur - 1)
           n == Other!At(temp[r], cur)
           c == [t |-> "INS", i |-> Other!NextId(r), v |-> v, p |-> p, n |-> n]
<1>1. Other!Make(r, c)
  BY DEF Other!Ins
<1>2. Len(calls) < MaxEdits
  BY <1>1 DEF Other!Make
<1>3. \A x : Other!At(temp[r], x) = Nil
             \/ (Shows(r, Other!At(temp[r], x)) /\ Other!At(temp[r], x) \in Other!Index)
  <2>1. temp[r] \in Cursors
    BY OneReplica DEF Computed
  <2>2. DOMAIN temp[r] = 1..Len(temp[r])
    BY <2>1 DEF Cursors
  <2> SUFFICES ASSUME NEW x, x \in 1..Len(temp[r])
               PROVE  Shows(r, temp[r][x].index) /\ temp[r][x].index \in Other!Index
    BY <2>2 DEF Other!At
  <2> QED BY LiveShown
<1>4. (p = Nil \/ (Shows(r, p) /\ p \in Other!Index)) /\ (n = Nil \/ n \in Other!Index)
  <2> HIDE DEF cur
  <2> QED BY <1>3
<1>5. Other!NextId(r) \in Other!Index
  BY <1>2, NextIdNew
<1>6. c \in Edit
  <2> HIDE DEF p, n
  <2> QED BY <1>4, <1>5 DEF Edit, Other!Change
<1>7. c.i = Other!NextId(r) /\ c.t = "INS" /\ c.p = p
  OBVIOUS
<1> HIDE DEF c, p, n
<1> QED BY <1>1, <1>4, <1>6, <1>7, EditKeeps

\* DEL.
LEMMA DelKeeps ==
    ASSUME ListInv, DeletersLast, NEW r \in Deleter, NEW j \in DOMAIN Other!Live(temp[r]),
           Other!Del(r, j)
    PROVE  ListInv'
<1> DEFINE live == Other!Live(temp[r])
           c == [t |-> "DEL", i |-> Other!NextId(r), v |-> live[j].index]
<1>0. r \in Writer
  BY WritersAssumption
<1>1. Other!Make(r, c)
  BY DEF Other!Del
<1>2. Len(calls) < MaxEdits
  BY <1>1 DEF Other!Make
<1>3. Shows(r, live[j].index) /\ live[j].index \in Other!Index
  <2>1. live \in Cursors /\ \A x \in 1..Len(live) : Shows(r, live[x].index)
    BY <1>0, LiveShown
  <2>2. j \in 1..Len(live)
    BY <2>1 DEF Cursors
  <2> HIDE DEF live
  <2> QED BY <1>0, <2>1, <2>2, LiveShown
<1>4. Other!NextId(r) \in Other!Index
  BY <1>0, <1>2, NextIdNew
<1>5. c \in Edit
  <2> HIDE DEF live
  <2> QED BY <1>3, <1>4 DEF Edit, Other!Change
<1>6. c.i = Other!NextId(r) /\ c.t = "DEL" /\ c.v = live[j].index
  OBVIOUS
<1> HIDE DEF c, live
<1> QED BY <1>0, <1>1, <1>3, <1>5, <1>6, EditKeeps

\* A list begins without changes.
LEMMA ListBegins == ASSUME Other!Init PROVE ListInv
<1>1. /\ entries = [r \in Writer |-> <<>>] /\ temp = [r \in Writer |-> <<>>]
      /\ updateSize = [r \in Writer |-> 0] /\ broadcast = {} /\ calls = <<>>
  BY DEF Other!Init
<1>2. <<>> \in Seq(Edit) /\ Len(<<>>) = 0 /\ Elems(<<>>) = {} /\ DOMAIN <<>> = {}
  BY DEF Elems
<1>3. Other!ListOf(<<>>) = <<>>
  <2>1. PICK g : Steps(g, Len(<<>>), Lists, <<>>, Listing(<<>>)) /\ g[Len(<<>>)] = Other!ListOf(<<>>)
    BY <1>2, ListFold
  <2> QED BY <1>2, <2>1 DEF Steps
<1>4. ListTyped
  BY <1>1, <1>2 DEF ListTyped
<1>5. Shown
  BY <1>1, <1>2, <1>3 DEF Shown
<1>6. ASSUME NEW r \in Writer PROVE Sound(entries[r]) /\ Numbering(r)
  <2>1. entries[r] = <<>>
    BY <1>1
  <2>2. Sound(<<>>)
    BY <1>2 DEF Sound, InOrder, Closed, AtAuthors
  <2>3. Owned(r, Elems(<<>>)) = {} /\ Cardinality({}) = 0 /\ Len(calls) = 0
    BY <1>1, <1>2, FS_EmptySet DEF Owned
  <2>4. Numbering(r)
    BY <2>1, <2>3 DEF Numbering
  <2> QED BY <2>1, <2>2, <2>4
<1> QED BY <1>1, <1>4, <1>5, <1>6 DEF ListInv

\* Every step of a list keeps the invariant.
LEMMA ListStep ==
    ASSUME ListInv, DeletersLast, Other!Next
    PROVE  ListInv'
<1>1. PICK r \in Writer :
        \/ \E v \in Element : Other!Push(r, v)
        \/ \E v \in Element, j \in 1..MaxEdits : Other!Ins(r, v, j)
        \/ \E j \in 1..MaxEdits :
            r \in Deleter /\ j \in DOMAIN Other!Live(temp[r]) /\ Other!Del(r, j)
        \/ Other!Send(r)
        \/ \E S \in broadcast : Other!MergeChanges(r, S)
  BY DEF Other!Next
<1>2. CASE \E v \in Element : Other!Push(r, v)
  BY <1>2, PushKeeps
<1>3. CASE \E v \in Element, j \in 1..MaxEdits : Other!Ins(r, v, j)
  <2>1. PICK v \in Element, j \in 1..MaxEdits : Other!Ins(r, v, j)
    BY <1>3
  <2>2. j \in Nat
    BY EditsAssumption
  <2> QED BY <2>1, <2>2, InsKeeps
<1>4. CASE \E j \in 1..MaxEdits :
              r \in Deleter /\ j \in DOMAIN Other!Live(temp[r]) /\ Other!Del(r, j)
  BY <1>4, DelKeeps
<1>5. CASE Other!Send(r)
  BY <1>5, SendKeeps
<1>6. CASE \E S \in broadcast : Other!MergeChanges(r, S)
  BY <1>6, ListMergeKeeps
<1> QED BY <1>1, <1>2, <1>3, <1>4, <1>5, <1>6

\* A step that does nothing to the list.
LEMMA ListStays ==
    ASSUME ListInv, UNCHANGED <<entries, temp, updateSize, broadcast, calls>>
    PROVE  ListInv'
BY DEF ListInv, ListTyped, Shown, Sound, Numbering, AtAuthors

(***************************************************************************)
(* Sorting always finds the INS of an element before its DEL, and before   *)
(* what its author put after it: calculate never throws, when no user who  *)
(* deletes sorts before another.                                           *)
(***************************************************************************)
THEOREM ListInvariant == ASSUME DeletersLast PROVE AllSpec => [](kind = "list" => ListInv)
<1> DEFINE Inv == kind = "list" => ListInv
<1>1. AllInit => Inv
  BY ListBegins DEF AllInit, Other!DocumentInit
<1>2. Inv /\ [AllNext]_allVars => Inv'
  <2> SUFFICES ASSUME Inv, [AllNext]_allVars, kind' = "list" PROVE ListInv'
    OBVIOUS
  <2>1. /\ kind = "list"
        /\ Other!Next \/ UNCHANGED <<entries, temp, updateSize, broadcast, calls>>
    BY DEF AllNext, allVars, otherVars, Other!DocumentNext
  <2> QED BY <2>1, ListStep, ListStays
<1> QED BY <1>1, <1>2, PTL DEF AllSpec

-----------------------------------------------------------------------------
\* What the instances call Range.
LEMMA RangeElems == ASSUME NEW r PROVE Other!Range(entries[r]) = Elems(entries[r])
BY DEF Other!Range, Elems

\* The changes of a replica are the same as those of another with their ids.
LEMMA SyncedSame ==
    ASSUME ListInv, NEW r \in Writer, NEW s \in Writer, Other!Synced(r, s)
    PROVE  entries[r] = entries[s]
<1>1. /\ entries[r] \in Seq(Edit) /\ InOrder(entries[r]) /\ AtAuthors(Elems(entries[r]))
      /\ entries[s] \in Seq(Edit) /\ InOrder(entries[s]) /\ AtAuthors(Elems(entries[s]))
  BY OneReplica
<1>2. Elems(entries[r]) \subseteq Edit /\ Elems(entries[s]) \subseteq Edit
  BY <1>1 DEF Elems
<1>3. OneForEach(Elems(entries[r]) \cup Elems(entries[s]))
  BY <1>1, <1>2, OneEachId
<1>4. {c.i : c \in Elems(entries[r])} = {c.i : c \in Elems(entries[s])}
  BY RangeElems DEF Other!Synced, Other!Ids
<1>5. Elems(entries[r]) = Elems(entries[s])
  <2> DEFINE K == Elems(entries[r])
             L == Elems(entries[s])
  <2> HIDE DEF K, L
  <2>1. {c.i : c \in K} = {c.i : c \in L} /\ OneForEach(K \cup L)
    BY <1>3, <1>4 DEF K, L
  <2>2. ASSUME NEW c \in K PROVE c \in L
    <3>1. c.i \in {d.i : d \in L}
      BY <2>1
    <3>2. PICK d \in L : c.i = d.i
      BY <3>1
    <3> QED BY <2>1, <3>2 DEF OneForEach
  <2>3. ASSUME NEW c \in L PROVE c \in K
    <3>1. c.i \in {d.i : d \in K}
      BY <2>1
    <3>2. PICK d \in K : c.i = d.i
      BY <3>1
    <3> QED BY <2>1, <3>2 DEF OneForEach
  <2>4. K = L
    BY <2>2, <2>3
  <2> QED BY <2>4 DEF K, L
<1> QED BY <1>1, <1>5, OneOrder

(***************************************************************************)
(* Replicas of a list that have received the same changes show the same    *)
(* list, whatever was done concurrently and in whatever order it came.     *)
(***************************************************************************)
THEOREM ListsAgree == ASSUME DeletersLast PROVE AllSpec => []ListsConverge
<1>1. (kind = "list" => ListInv) => ListsConverge
  <2> SUFFICES ASSUME ListInv, NEW r \in Writer, NEW s \in Writer, Other!Synced(r, s)
               PROVE  Other!Live(temp[r]) = Other!Live(temp[s])
    BY DEF ListsConverge, Other!ListsConverge, Other!Convergence
  <2>1. entries[r] = entries[s]
    BY SyncedSame
  <2>2. temp[r] = temp[s]
    BY <2>1, OneReplica
  <2> QED BY <2>2
<1> QED BY <1>1, ListInvariant, PTL

\* The parts of what a replica shows.
LEMMA ShownOnce ==
    ASSUME ListInv, NEW r \in Writer
    PROVE  LET l == temp[r]
               s == entries[r]
           IN  /\ l \in Cursors /\ s \in Seq(Edit)
               /\ DOMAIN l = 1..Len(l) /\ DOMAIN s = 1..Len(s) /\ Len(l) \in Nat
               /\ Holds(l, s, Len(s)) /\ Attaches(l, s, Len(s)) /\ Founded(s)
<1>1. temp[r] \in Cursors
  BY OneReplica DEF Computed
<1>2. DOMAIN temp[r] = 1..Len(temp[r]) /\ Len(temp[r]) \in Nat
  BY <1>1 DEF Cursors
<1>3. entries[r] \in Seq(Edit)
  BY OneReplica
<1>4. DOMAIN entries[r] = 1..Len(entries[r])
  BY <1>3
<1> QED BY <1>1, <1>2, <1>3, <1>4, OneReplica DEF Computed

(***************************************************************************)
(* Every element a replica has heard of is in its list once, and the       *)
(* deleted ones are tombs, wherever concurrent insertions put them.        *)
(***************************************************************************)
THEOREM ListsKeepElements == ASSUME DeletersLast PROVE AllSpec => []ElementsOnce
<1>1. ASSUME ListInv, NEW r \in Writer
      PROVE  /\ Len(temp[r]) = Cardinality({x.index : x \in Other!Range(temp[r])})
             /\ {x.index : x \in Other!Range(temp[r])} =
                   {c.i : c \in {d \in Other!Range(entries[r]) : d.t = "INS"}}
             /\ {x.index : x \in {y \in Other!Range(temp[r]) : y.tomb}} =
                   {c.v : c \in {d \in Other!Range(entries[r]) : d.t = "DEL"}}
  <2> DEFINE l == temp[r]
             s == entries[r]
             n == Len(l)
             k == Len(s)
             X == {x.index : x \in Other!Range(l)}
  <2>1. /\ DOMAIN l = 1..n /\ DOMAIN s = 1..k /\ n \in Nat /\ Holds(l, s, k)
    BY <1>1, ShownOnce
  <2>2. Other!Range(l) = {l[a] : a \in 1..n} /\ Other!Range(s) = {s[j] : j \in 1..k}
    BY <2>1 DEF Other!Range
  <2> HIDE DEF l, s, n, k
  <2>3. /\ \A x, y \in 1..n : l[x].index = l[y].index => x = y
        /\ \A x \in 1..n : \E j \in 1..k : s[j].t = "INS" /\ s[j].i = l[x].index
        /\ \A j \in 1..k : s[j].t = "INS" => \E x \in 1..n : l[x].index = s[j].i
        /\ \A x \in 1..n : l[x].tomb => \E j \in 1..k : s[j].t = "DEL" /\ s[j].v = l[x].index
        /\ \A j \in 1..k : s[j].t = "DEL" => \E x \in 1..n : l[x].tomb /\ l[x].index = s[j].v
    BY <2>1 DEF Holds, n
  <2>4. n = Cardinality(X)
    <3> DEFINE f == [a \in 1..n |-> l[a].index]
    <3>1. f \in Bijection(1..n, X)
      <4>1. f \in [1..n -> X] /\ \A i \in X : \E a \in 1..n : f[a] = i
        BY <2>2
      <4>2. \A a, b \in 1..n : f[a] = f[b] => a = b
        BY <2>3
      <4> HIDE DEF f, X
      <4> QED BY <4>1, <4>2 DEF Bijection, Injection, Surjection, IsInjective
    <3>2. IsFiniteSet(1..n) /\ Cardinality(1..n) = IF 1 > n THEN 0 ELSE n - 1 + 1
      BY <2>1, FS_Interval
    <3> DEFINE S == 1..n
    <3>3. IsFiniteSet(S) /\ Cardinality(S) = n /\ f \in Bijection(S, X)
      BY <2>1, <3>1, <3>2
    <3> HIDE DEF f, S, X
    <3> QED BY <3>3, FS_Bijection DEF ExistsBijection
  <2>5. X = {c.i : c \in {d \in Other!Range(s) : d.t = "INS"}}
    BY <2>2, <2>3
  <2>6. {x.index : x \in {y \in Other!Range(l) : y.tomb}} =
           {c.v : c \in {d \in Other!Range(s) : d.t = "DEL"}}
    BY <2>2, <2>3
  <2> QED BY <2>4, <2>5, <2>6 DEF l, s, n
<1>2. (kind = "list" => ListInv) => ElementsOnce
  BY <1>1, EditCardinality DEF ElementsOnce, Other!ElementsOnce, Other!EveryElementOnce
<1> QED BY <1>2, ListInvariant, PTL

(***************************************************************************)
(* An element stays after the one its author put it after, in every        *)
(* replica, when both have one author.                                     *)
(***************************************************************************)
THEOREM AuthorsOrdered == ASSUME DeletersLast PROVE AllSpec => []AuthorsOrder
<1>1. ASSUME ListInv, NEW r \in Writer, NEW c \in Other!Range(entries[r]), Attached(c)
      PROVE  Other!Find(temp[r], c.p) < Other!Find(temp[r], c.i)
  <2> DEFINE l == temp[r]
             s == entries[r]
             n == Len(l)
             f == Other!Find(l, c.p)
             g == Other!Find(l, c.i)
  <2>1. /\ l \in Cursors /\ DOMAIN s = 1..Len(s) /\ Len(s) \in Nat
        /\ Holds(l, s, Len(s)) /\ Attaches(l, s, Len(s)) /\ Founded(s)
    <3>1. s \in Seq(Edit)
      BY <1>1, OneReplica
    <3>2. Len(s) \in Nat
      BY <3>1
    <3> QED BY <1>1, <3>2, ShownOnce
  <2>2. FoundAt(l, c.p, f) /\ FoundAt(l, c.i, g)
    BY <2>1, Finds
  <2> HIDE DEF l, s, f, g
  <2>3. PICK j \in 1..Len(s) : c = s[j]
    <3>1. c \in Elems(s)
      BY RangeElems DEF s
    <3> QED BY <2>1, <3>1 DEF Elems
  <2>4. c.t = "INS"
    BY <1>1 DEF Attached
  <2>5. \A x \in 1..Len(s) : s[x].t = "INS" => \E a \in 1..n : l[a].index = s[x].i
    BY <2>1 DEF Holds
  <2>6. \E a \in 1..n : l[a].index = c.i
    BY <2>3, <2>4, <2>5
  <2>7. \E a \in 1..n : l[a].index = c.p
    <3>1. PICK i \in 1..(j - 1) : s[i].t = "INS" /\ s[i].i = s[j].p
      BY <1>1, <2>1, <2>3 DEF Founded
    <3>2. i \in 1..Len(s)
      BY <2>1
    <3> QED BY <2>3, <2>5, <3>1, <3>2
  <2>8. f \in 1..n /\ l[f].index = s[j].p /\ g \in 1..n /\ l[g].index = s[j].i
    BY <2>2, <2>3, <2>6, <2>7 DEF FoundAt
  <2>9. Attached(s[j])
    BY <1>1, <2>3
  <2>10. f < g
    BY <2>1, <2>3, <2>8, <2>9 DEF Attaches
  <2> QED BY <2>10 DEF f, g, l
<1>2. (kind = "list" => ListInv) => AuthorsOrder
  BY <1>1 DEF AuthorsOrder, Other!AuthorsOrder, Other!AuthorOrder, Attached
<1> QED BY <1>2, ListInvariant, PTL

-----------------------------------------------------------------------------
(***************************************************************************)
(* The three types of documents keep to their types, and a map to the      *)
(* invariant its theorems rest on.                                         *)
(***************************************************************************)
THEOREM DocumentsTyped == ASSUME OneAuthorEach, DeletersLast PROVE AllSpec => []DocumentTypeOK
<1> DEFINE Kinds == kind \in {"list", "counter"}
           Inv == MapInv /\ Kinds
<1>1. AllInit => Inv
  <2> SUFFICES ASSUME AllInit PROVE Inv
    OBVIOUS
  <2>1. ReplicaInv
    BY ReplicaBegins DEF AllInit
  <2>2. Homes
    BY DEF AllInit, Init, Docs, Homes
  <2>3. Kinds
    BY DEF AllInit, Other!DocumentInit
  <2> QED BY <2>1, <2>2, <2>3 DEF MapInv
<1>2. Inv /\ [AllNext]_allVars => Inv'
  <2> SUFFICES ASSUME Inv, [AllNext]_allVars PROVE Inv'
    OBVIOUS
  <2>1. [Next]_vars
    BY DEF AllNext, allVars
  <2>2. Kinds'
    BY DEF AllNext, allVars, otherVars, Other!DocumentNext
  <2> QED BY <2>1, <2>2, ReplicaInvStep, HomesStep DEF MapInv
<1>3. AllSpec => []Inv
  BY <1>1, <1>2, PTL DEF AllSpec
<1>4. ASSUME ListInv PROVE Other!TypeOK
  <2>1. ASSUME NEW r \in Writer
        PROVE  /\ Other!Range(entries[r]) \subseteq Edit
               /\ Other!Range(temp[r]) \subseteq Other!Cursor
               /\ updateSize[r] \in 0..Len(entries[r])
    <3>1. entries[r] \in Seq(Edit) /\ updateSize[r] = Len(entries[r]) /\ temp[r] \in Cursors
      BY <1>4, OneReplica DEF Computed
    <3>2. Other!Range(entries[r]) \subseteq Edit
      BY <3>1 DEF Other!Range
    <3>3. Other!Range(temp[r]) \subseteq Other!Cursor
      BY <3>1 DEF Other!Range, Cursors
    <3>4. updateSize[r] \in 0..Len(entries[r])
      BY <3>1
    <3> QED BY <3>2, <3>3, <3>4
  <2>2. ASSUME NEW S \in broadcast PROVE Other!Range(S) \subseteq Edit
    <3>1. S \in Seq(Edit)
      BY <1>4 DEF ListInv, ListTyped
    <3> QED BY <3>1 DEF Other!Range
  <2> QED BY <2>1, <2>2 DEF Other!TypeOK, Edit
<1>5. ASSUME CountInv PROVE Other!Counter!TypeOK
  <2>1. CounterTyped
    BY <1>5 DEF CountInv
  <2>2. ASSUME NEW n \in DOMAIN calls PROVE calls[n] \in Counted
    BY <2>1 DEF CounterTyped
  <2>3. /\ entries \in [Counting -> SUBSET Counted] /\ number \in [Counting -> Int]
        /\ updateSize \in [Counting -> Nat] /\ \A S \in broadcast : S \subseteq Counted
    BY <2>1 DEF CounterTyped
  <2> QED BY <2>2, <2>3 DEF Other!Counter!TypeOK, Counted
<1>6. Inv /\ (kind = "list" => ListInv) /\ (kind = "counter" => CountInv) => DocumentTypeOK
  <2> SUFFICES ASSUME Inv, kind = "list" => ListInv, kind = "counter" => CountInv
               PROVE  DocumentTypeOK
    OBVIOUS
  <2>1. Other!DocumentTypeOK
    BY <1>4, <1>5 DEF Other!DocumentTypeOK
  <2> QED BY <2>1 DEF DocumentTypeOK
<1> QED BY <1>3, <1>6, ListInvariant, CounterInvariant, PTL
=============================================================================
