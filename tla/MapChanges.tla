----------------------------- MODULE MapChanges -----------------------------
(***************************************************************************)
(* The changes of a MapCrdt: which two are the same one, in what order     *)
(* they apply, what a set of them amounts to.  A document is a set of      *)
(* changes: the array _changes is sorted before every use, and no two of   *)
(* its elements with one key compare as equal.                             *)
(*                                                                         *)
(* Authors are addresses, compared as strings; here they are naturals.     *)
(***************************************************************************)
EXTENDS Integers

CONSTANTS
    Author,   \* the authors of changes
    Field,    \* the keys of the map
    Datum,    \* the values SET gives to a key
    NoDatum   \* what a key the map does not have is said to hold

ASSUME AuthorAssumption == Author \subseteq Nat
ASSUME NoDatumAssumption == NoDatum \notin Datum

Change ==
    [t : {"SET"}, k : Field, a : Author, i : Nat, v : Datum] \cup
    [t : {"DEL"}, k : Field, a : Author, i : Nat, v : {NoDatum}]

\* Mutants of SameChange: the key, or the author, is not compared.
SameButKey(c, d) == c.i = d.i /\ c.a = d.a /\ c.t = d.t
SameButAuthor(c, d) == c.k = d.k /\ c.i = d.i /\ c.t = d.t

\* mergeChanges takes two changes for one that differ in nothing but the value.
SameChange(c, d) == c.k = d.k /\ c.i = d.i /\ c.a = d.a /\ c.t = d.t

\* mergeChanges adds the changes that match none it has.
Merged(S, T) == S \cup {c \in T : \A d \in S : ~SameChange(c, d)}

\* changesSort, for two changes of one key: index, then SET before DEL, then author.
Before(c, d) ==
    \/ c.i < d.i
    \/ /\ c.i = d.i
       /\ \/ c.t = "SET" /\ d.t = "DEL"
          \/ c.t = d.t /\ c.a < d.a

\* The changes of key k, and the one that applies last.
Of(S, k) == {c \in S : c.k = k}
IsLast(c, S, k) == c \in Of(S, k) /\ \A d \in Of(S, k) : d = c \/ Before(d, c)
LastOf(S, k) == CHOOSE c \in S : IsLast(c, S, k)

\* calculate applies the changes in order: the last one of a key decides.
ValueOf(S) ==
    [k \in Field |-> IF Of(S, k) = {} THEN NoDatum ELSE LastOf(S, k).v]

\* calculate leaves in _keyIndex the index of the last change of each key.
KeyIndexOf(S, keyIndex) ==
    [k \in Field |-> IF Of(S, k) = {} THEN keyIndex[k] ELSE LastOf(S, k).i]
=============================================================================
