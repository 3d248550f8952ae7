---------------------------- MODULE MCDocuments ----------------------------
(***************************************************************************)
(* Users on whom TLC checks the three types of documents: MapCrdt, or one  *)
(* of ListCrdt and CounterCrdt, while the other kind is left as it was     *)
(* constructed.                                                            *)
(***************************************************************************)
EXTENDS MCMapCrdt, Sequences

CONSTANTS
    Writer,     \* the replicas of the list
    Element,    \* the values of its elements
    Nil,        \* undefined
    Deleter,    \* bound: the writers that call DEL
    MaxEdits,   \* bound: the calls on the list
    MaxKnown,   \* bound: the changes of a writer
    Counting,   \* the replicas of the counter; each is its own author
    Amount,     \* the numbers added and subtracted
    MaxCounts   \* bound: the calls of ADD and SUB

ASSUME WritersAssumption == Writer \subseteq Nat /\ Deleter \subseteq Writer
ASSUME AmountAssumption == Amount \subseteq Int
VARIABLES isMap, kind, entries, number, temp, updateSize, broadcast, calls

Other == INSTANCE MCListCounter WITH
    Replica <- Writer, Value <- Element, Object <- {}, Inserter <- Writer,
    MaxOps <- MaxEdits, MaxChanges <- MaxKnown,
    changes <- entries, lastUpdateSize <- updateSize, sent <- broadcast, value <- number

ASSUME EditsAssumption == MaxEdits \in Nat /\ MaxKnown \in Nat
\* undefined is no id and no list.
ASSUME NilAssumption == Nil \notin Other!Index /\ Nil \notin Seq(Other!Cursor)

otherVars == <<kind, entries, number, temp, updateSize, broadcast, calls>>

allVars == <<vars, isMap, otherVars>>

AllInit ==
    /\ Init
    /\ Other!DocumentInit
    /\ isMap \in BOOLEAN
    /\ isMap => kind = "list"

AllNext ==
    /\ UNCHANGED isMap
    /\ \/ isMap /\ Next /\ UNCHANGED otherVars
       \/ ~isMap /\ Other!DocumentNext /\ UNCHANGED vars

AllSpec == AllInit /\ [][AllNext]_allVars

-----------------------------------------------------------------------------
\* The types of a list and a counter (TypeOK of ListCrdt and of CounterCrdt),
\* and the inductive invariant of the theorems about maps.
DocumentTypeOK == Other!DocumentTypeOK /\ MapInv

\* Replicas of a list that received the same changes show the same list.
ListsConverge == Other!ListsConverge

\* A list drops and doubles no element, wherever concurrent calls put it.
ElementsOnce == Other!ElementsOnce

\* The elements of one author stay in the order that author gave them.
AuthorsOrder == Other!AuthorsOrder

\* A counter that has heard of every call, by merges of counters, shows the sum
\* of them all.
EveryCallCounts == Other!EveryCallCounts
=============================================================================
