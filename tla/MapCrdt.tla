------------------------------ MODULE MapCrdt ------------------------------
(***************************************************************************)
(* Replicas of one MapCrdt.  A user changes a replica with SET and DEL,    *)
(* sends getChanges() to others (putCrdt, getCrdt, or by hand as the tests *)
(* do) and merges what it gets.  What was sent may arrive late, in any     *)
(* order, more than once or never.                                         *)
(*                                                                         *)
(* A replica keeps what it computed from its changes (_value, _keyIndex)   *)
(* and recomputes it only when the number of changes differs from the one  *)
(* it computed it for (_lastUpdateSize).                                   *)
(***************************************************************************)
EXTENDS MapChanges, FiniteSets

CONSTANTS
    Replica,    \* the MapCrdt objects
    AuthorOf,   \* AuthorOf[r]: the author r was constructed with
    Forgetful,  \* replicas constructed anew without the changes they made
    MaxOps      \* bound: the number of calls of SET and DEL

ASSUME AuthorOfAssumption == AuthorOf \in [Replica -> Author]
ASSUME ForgetfulAssumption == Forgetful \subseteq Replica

VARIABLES
    changes,         \* changes[r]: _changes
    value,           \* value[r]: _value
    keyIndex,        \* keyIndex[r]: _keyIndex
    lastUpdateSize,  \* lastUpdateSize[r]: _lastUpdateSize
    sent,            \* every array of changes a replica has sent
    made             \* history: every change made and those of its key before it

vars == <<changes, value, keyIndex, lastUpdateSize, sent, made>>

TypeOK ==
    /\ changes \in [Replica -> SUBSET Change]
    /\ value \in [Replica -> [Field -> Datum \cup {NoDatum}]]
    /\ keyIndex \in [Replica -> [Field -> Nat]]
    /\ lastUpdateSize \in [Replica -> Nat]
    /\ sent \subseteq SUBSET Change
    /\ made \subseteq [change : Change, over : SUBSET Change]

Init ==
    /\ changes = [r \in Replica |-> {}]
    /\ value = [r \in Replica |-> [k \in Field |-> NoDatum]]
    /\ keyIndex = [r \in Replica |-> [k \in Field |-> 0]]
    /\ lastUpdateSize = [r \in Replica |-> 0]
    /\ sent = {}
    /\ made = {}

-----------------------------------------------------------------------------
\* Mutant of Calculate: the size remembered is one ahead.
CalculateAhead(r, S, index) ==
    /\ changes' = [changes EXCEPT ![r] = S]
    /\ IF Cardinality(S) # lastUpdateSize[r]
       THEN /\ value' = [value EXCEPT ![r] = ValueOf(S)]
            /\ keyIndex' = [keyIndex EXCEPT ![r] = KeyIndexOf(S, index)]
            /\ lastUpdateSize' = [lastUpdateSize EXCEPT ![r] = Cardinality(S) + 1]
       ELSE /\ keyIndex' = [keyIndex EXCEPT ![r] = index]
            /\ UNCHANGED <<value, lastUpdateSize>>

(***************************************************************************)
(* Replica r gets the changes S and calls calculate, which does nothing    *)
(* when there are as many as the last time.                                *)
(***************************************************************************)
Calculate(r, S, index) ==
    /\ changes' = [changes EXCEPT ![r] = S]
    /\ IF Cardinality(S) # lastUpdateSize[r]
       THEN /\ value' = [value EXCEPT ![r] = ValueOf(S)]
            /\ keyIndex' = [keyIndex EXCEPT ![r] = KeyIndexOf(S, index)]
            /\ lastUpdateSize' = [lastUpdateSize EXCEPT ![r] = Cardinality(S)]
       ELSE /\ keyIndex' = [keyIndex EXCEPT ![r] = index]
            /\ UNCHANGED <<value, lastUpdateSize>>

\* Mutant of NextIndex: an author counts its own changes of the key.
OwnIndex(r, k) ==
    Cardinality({c \in Of(changes[r], k) : c.a = AuthorOf[r]}) + 1

\* (this._keyIndex[key] || 0) + 1
NextIndex(r, k) == keyIndex[r][k] + 1

Make(r, c) ==
    /\ Cardinality(made) < MaxOps
    /\ Calculate(r, changes[r] \cup {c}, [keyIndex[r] EXCEPT ![c.k] = c.i])
    /\ made' = made \cup {[change |-> c, over |-> Of(changes[r], c.k)]}
    /\ UNCHANGED sent

Set(r, k, v) ==
    Make(r, [t |-> "SET", k |-> k, a |-> AuthorOf[r], i |-> NextIndex(r, k), v |-> v])

Del(r, k) ==
    Make(r, [t |-> "DEL", k |-> k, a |-> AuthorOf[r], i |-> NextIndex(r, k),
             v |-> NoDatum])

\* getChanges() leaves for other replicas.
Send(r) ==
    /\ sent' = sent \cup {changes[r]}
    /\ UNCHANGED <<changes, value, keyIndex, lastUpdateSize, made>>

MergeChanges(r, S) ==
    /\ Calculate(r, Merged(changes[r], S), keyIndex[r])
    /\ UNCHANGED <<sent, made>>

(***************************************************************************)
(* new MapCrdt(author, changes) takes the place of r: the user comes back  *)
(* in another session.  Only a forgetful one starts without the changes it *)
(* made before.                                                            *)
(***************************************************************************)
Own(r) == {c \in changes[r] : c.a = AuthorOf[r]}

Reopen(r, S) ==
    /\ r \in Forgetful \/ Own(r) \subseteq S
    /\ changes' = [changes EXCEPT ![r] = S]
    /\ value' = [value EXCEPT ![r] = ValueOf(S)]
    /\ keyIndex' = [keyIndex EXCEPT ![r] = KeyIndexOf(S, [k \in Field |-> 0])]
    /\ lastUpdateSize' = [lastUpdateSize EXCEPT ![r] = Cardinality(S)]
    /\ UNCHANGED <<sent, made>>

Next ==
    \E r \in Replica :
        \/ \E k \in Field, v \in Datum : Set(r, k, v)
        \/ \E k \in Field : Del(r, k)
        \/ Send(r)
        \/ \E S \in sent : MergeChanges(r, S)
        \/ \E S \in sent \cup {{}} : Reopen(r, S)

Spec == Init /\ [][Next]_vars

-----------------------------------------------------------------------------
\* r and s have the same changes, as mergeChanges tells changes apart.
Covers(S, T) == \A d \in T : \E c \in S : SameChange(c, d)
Synced(r, s) == Covers(changes[r], changes[s]) /\ Covers(changes[s], changes[r])

(***************************************************************************)
(* Convergence: two replicas that have received the same changes, in       *)
(* whatever order and through whomever, hold the same map.                 *)
(***************************************************************************)
Convergence == \A r, s \in Replica : Synced(r, s) => value[r] = value[s]

(***************************************************************************)
(* The value a replica keeps is the one its changes amount to: the         *)
(* shortcut of calculate, which compares numbers of changes and not        *)
(* changes, never keeps a stale one.                                       *)
(***************************************************************************)
NeverStale == \A r \in Replica : value[r] = ValueOf(changes[r])

(***************************************************************************)
(* What an author overwrites stays overwritten: no replica that has a      *)
(* change shows a value of that key its author had seen before.            *)
(***************************************************************************)
NeverResurrected ==
    \A m \in made : \A r \in Replica :
        m.change \in changes[r] =>
            \A d \in m.over : ~IsLast(d, changes[r], d.k)

(***************************************************************************)
(* mergeChanges loses nothing: each change of the array that is merged is  *)
(* among the changes of the replica then, with the value its author gave   *)
(* it.                                                                     *)
(***************************************************************************)
MergeKeepsAll ==
    [][\A r \in Replica : \A S \in sent :
          MergeChanges(r, S) => S \cup changes[r] \subseteq changes'[r]]_vars

-----------------------------------------------------------------------------
(***************************************************************************)
(* What holds of every replica, whoever its author: an inductive           *)
(* invariant.  Indices grow past what a replica has seen (Indexed), so a   *)
(* new change is none the replica has (Distinct) and applies after all of  *)
(* them (Overwritten), and the number of changes tells whether they        *)
(* changed (Sized).                                                        *)
(***************************************************************************)
Docs == {changes[r] : r \in Replica} \cup sent

DistinctIn(S) == \A c, d \in S : SameChange(c, d) => c = d
OrderedIn(S) == \A k \in Field : Of(S, k) # {} => \E c \in S : IsLast(c, S, k)

Distinct == \A S \in Docs : DistinctIn(S)

\* Every key that has changes has one that applies last.
Ordered == \A S \in Docs : OrderedIn(S)

\* A replica knows an index as great as any it has seen.
Indexed == \A r \in Replica : \A c \in changes[r] : c.i <= keyIndex[r][c.k]

Sized ==
    /\ \A S \in Docs : IsFiniteSet(S)
    /\ \A r \in Replica : lastUpdateSize[r] = Cardinality(changes[r])

Overwritten ==
    \A m \in made : \A d \in m.over : d.k = m.change.k /\ Before(d, m.change)

ReplicaInv ==
    /\ TypeOK
    /\ Distinct
    /\ Ordered
    /\ Indexed
    /\ Sized
    /\ NeverStale
    /\ Overwritten

(***************************************************************************)
(* Why replicas converge, when every one has an author of its own and none *)
(* forgets what it made: the replica of an author has every change of that *)
(* author that anybody has.  Two changes that mergeChanges takes for one   *)
(* are then both in a replica, and ReplicaInv says they are one.           *)
(***************************************************************************)
Homes ==
    \A S \in Docs : \A c \in S :
        /\ \E r \in Replica : AuthorOf[r] = c.a
        /\ \A r \in Replica : AuthorOf[r] = c.a => c \in changes[r]

MapInv == ReplicaInv /\ Homes

OneAuthorEach ==
    /\ Forgetful = {}
    /\ \A r, s \in Replica : AuthorOf[r] = AuthorOf[s] => r = s
=============================================================================
