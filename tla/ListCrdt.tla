------------------------------ MODULE ListCrdt ------------------------------
(***************************************************************************)
(* Replicas of one ListCrdt.  INS and PUSH make a change that names its    *)
(* neighbours, DEL one that names the element it tombstones.  The list is  *)
(* computed by applying all changes in the order of their ids: author      *)
(* first, then the number of changes that author had made, so a change may *)
(* come before the ones it refers to.                                      *)
(***************************************************************************)
EXTENDS Integers, SequencesExt

CONSTANTS
    Replica,    \* the ListCrdt objects, naturals: each is its own author
    Value,      \* the values of elements
    Object,     \* the values that are objects: === tells every two copies apart
    Nil,        \* undefined
    Inserter,   \* bound: the replicas that call INS; all call PUSH
    Deleter,    \* bound: the replicas that call DEL
    MaxOps,     \* bound: the number of calls of PUSH, INS and DEL
    MaxChanges  \* bound: the number of changes of a replica

VARIABLES
    changes,         \* changes[r]: _changes
    temp,            \* temp[r]: _tempValues; _value is its live part
    lastUpdateSize,  \* lastUpdateSize[r]: _lastUpdateSize
    sent,            \* every array of changes a replica has sent
    calls            \* history: the changes made, each with the list its author saw

vars == <<changes, temp, lastUpdateSize, sent, calls>>

Index == Replica \X (0..MaxOps)
Change ==
    [t : {"INS"}, i : Index, v : Value, p : Index \cup {Nil}, n : Index \cup {Nil}] \cup
    [t : {"DEL"}, i : Index, v : Index]
Cursor == [index : Index, value : Value, tomb : BOOLEAN]

TypeOK ==
    /\ \A r \in Replica :
        /\ Range(changes[r]) \subseteq Change
        /\ Range(temp[r]) \subseteq Cursor
        /\ lastUpdateSize[r] \in 0..Len(changes[r])
    /\ \A S \in sent : Range(S) \subseteq Change

Init ==
    /\ changes = [r \in Replica |-> <<>>]
    /\ temp = [r \in Replica |-> <<>>]
    /\ lastUpdateSize = [r \in Replica |-> 0]
    /\ sent = {}
    /\ calls = <<>>

-----------------------------------------------------------------------------
\* changesSort: "author-00000003" compared as strings.
Before(c, d) == c.i[1] < d.i[1] \/ (c.i[1] = d.i[1] /\ c.i[2] < d.i[2])

\* _changes.sort(changesSort), which is stable: how many changes come before
\* the j-th, and the sequence of them.
Place(s, j) ==
    Cardinality({k \in DOMAIN s : Before(s[k], s[j]) \/ (k < j /\ ~Before(s[j], s[k]))})

Sorted(s) == [n \in DOMAIN s |-> s[CHOOSE j \in DOMAIN s : Place(s, j) = n - 1]]

\* mergeChanges compares the values with ===.
SameChange(c, d) == c.i = d.i /\ c.t = d.t /\ c.v = d.v /\ c.v \notin Object

\* Mutant of Merged: nothing is compared.
Concatenated(s, t) == s \o t

Merged(s, t) ==
    FoldLeft(LAMBDA u, c : IF \E d \in Range(u) : SameChange(c, d) THEN u ELSE Append(u, c),
             s, t)

\* Where an element is in a list of cursors; 0 when it is not there (findIndex + 1).
Find(l, i) == SelectInSeq(l, LAMBDA x : x.index = i)

\* Mutant of Position: the + 1 is lost, and the element comes before its previous one.
PositionOfPrevious(l, c) ==
    LET neighbour == IF c.p # Nil THEN c.p ELSE c.n
    IN  IF neighbour = Nil \/ l = <<>> THEN 0
        ELSE IF Find(l, neighbour) = 0 THEN Len(l) - 1
        ELSE Find(l, neighbour) - 1

(***************************************************************************)
(* How many cursors come before the inserted one.  An absent neighbour     *)
(* puts it first when it is the previous one, and before the last element  *)
(* when it is the next one: splice(-1, 0, ...).                            *)
(***************************************************************************)
Position(l, c) ==
    IF c.p # Nil THEN Find(l, c.p)
    ELSE IF c.n = Nil \/ l = <<>> THEN 0
    ELSE IF Find(l, c.n) = 0 THEN Len(l) - 1
    ELSE Find(l, c.n) - 1

\* Applying a change.  A DEL of an element that is not there throws.
Throws(l, c) == c.t = "DEL" /\ Find(l, c.v) = 0

Apply(l, c) ==
    IF c.t = "DEL" THEN [l EXCEPT ![Find(l, c.v)].tomb = TRUE]
    ELSE InsertAt(l, Position(l, c) + 1, [index |-> c.i, value |-> c.v, tomb |-> FALSE])

\* The list of a sequence of changes, and Nil when computing it throws.
ListOf(s) ==
    FoldLeft(LAMBDA l, c : IF l = Nil \/ Throws(l, c) THEN Nil ELSE Apply(l, c), <<>>, s)

\* Mutant of Calculate: the changes are not sorted.
CalculateUnsorted(r, s) ==
    /\ changes' = [changes EXCEPT ![r] = s]
    /\ IF Len(s) = lastUpdateSize[r] \/ ListOf(s) = Nil
       THEN UNCHANGED <<temp, lastUpdateSize>>
       ELSE /\ temp' = [temp EXCEPT ![r] = ListOf(s)]
            /\ lastUpdateSize' = [lastUpdateSize EXCEPT ![r] = Len(s)]

(***************************************************************************)
(* calculate sorts _changes in place; when it throws, the list and the     *)
(* size it was computed for stay as they were, and it will throw again.    *)
(***************************************************************************)
Calculate(r, s) ==
    IF Len(s) = lastUpdateSize[r]
    THEN /\ changes' = [changes EXCEPT ![r] = s]
         /\ UNCHANGED <<temp, lastUpdateSize>>
    ELSE LET sorted == Sorted(s)
             list == ListOf(sorted)
         IN  /\ changes' = [changes EXCEPT ![r] = sorted]
             /\ IF list = Nil
                THEN UNCHANGED <<temp, lastUpdateSize>>
                ELSE /\ temp' = [temp EXCEPT ![r] = list]
                     /\ lastUpdateSize' = [lastUpdateSize EXCEPT ![r] = Len(s)]

Live(l) == FoldLeft(LAMBDA live, x : IF x.tomb THEN live ELSE Append(live, x), <<>>, l)

\* The id of the next change of r: how many changes of its author it has.
NextId(r) == <<r, Cardinality({j \in DOMAIN changes[r] : changes[r][j].i[1] = r})>>

Make(r, c) ==
    /\ Len(calls) < MaxOps
    /\ Len(changes[r]) < MaxChanges
    /\ Calculate(r, Append(changes[r], c))
    /\ calls' = Append(calls, c)
    /\ UNCHANGED sent

\* The index of the cursor at place j, and undefined outside the array.
At(l, j) == IF j \in DOMAIN l THEN l[j].index ELSE Nil

\* PUSH: after the last live element.
Push(r, v) ==
    LET live == Live(temp[r])
        p == IF live = <<>> THEN Nil ELSE Last(live).index
    IN  Make(r, [t |-> "INS", i |-> NextId(r), v |-> v, p |-> p, n |-> Nil])

\* INS at place j of the live elements: between the cursor there and the one before.
Ins(r, v, j) ==
    LET live == Live(temp[r])
        cur == IF live = <<>> THEN 0 ELSE Find(temp[r], live[j].index)
    IN  Make(r, [t |-> "INS", i |-> NextId(r), v |-> v,
                 p |-> At(temp[r], cur - 1), n |-> At(temp[r], cur)])

\* Mutant of Del: the change names the value of the element, not its index.
DelByValue(r, j) == Make(r, [t |-> "DEL", i |-> NextId(r), v |-> Live(temp[r])[j].value])

\* DEL of the live element at place j.
Del(r, j) == Make(r, [t |-> "DEL", i |-> NextId(r), v |-> Live(temp[r])[j].index])

Send(r) ==
    /\ sent' = sent \cup {changes[r]}
    /\ UNCHANGED <<changes, temp, lastUpdateSize, calls>>

MergeChanges(r, s) ==
    /\ Len(Merged(changes[r], s)) <= MaxChanges
    /\ Calculate(r, Merged(changes[r], s))
    /\ UNCHANGED <<sent, calls>>

Next ==
    \E r \in Replica :
        \/ \E v \in Value : Push(r, v)
        \/ \E v \in Value, j \in 1..MaxOps :
            /\ r \in Inserter
            /\ j \in DOMAIN Live(temp[r]) \/ (j = 1 /\ Live(temp[r]) = <<>>)
            /\ Ins(r, v, j)
        \/ \E j \in 1..MaxOps :
            /\ r \in Deleter
            /\ j \in DOMAIN Live(temp[r])
            /\ Del(r, j)
        \/ Send(r)
        \/ \E s \in sent : MergeChanges(r, s)

Spec == Init /\ [][Next]_vars

-----------------------------------------------------------------------------
\* r and s have the same changes, as mergeChanges knows changes: by their ids.
Ids(r) == {c.i : c \in Range(changes[r])}
Synced(r, s) == Ids(r) = Ids(s)

ValueOf(r) == [j \in DOMAIN Live(temp[r]) |-> Live(temp[r])[j].value]

(***************************************************************************)
(* Convergence: two replicas that have received the same changes show the  *)
(* same list.                                                              *)
(***************************************************************************)
Convergence == \A r, s \in Replica : Synced(r, s) => Live(temp[r]) = Live(temp[s])

(***************************************************************************)
(* Every element a replica has heard of is in its list exactly once, and   *)
(* those deleted are tombs: a misplaced insertion drops nothing.           *)
(***************************************************************************)
EveryElementOnce ==
    \A r \in Replica :
        /\ Len(temp[r]) = Cardinality({x.index : x \in Range(temp[r])})
        /\ {x.index : x \in Range(temp[r])} =
              {c.i : c \in {d \in Range(changes[r]) : d.t = "INS"}}
        /\ {x.index : x \in {y \in Range(temp[r]) : y.tomb}} =
              {c.v : c \in {d \in Range(changes[r]) : d.t = "DEL"}}

(***************************************************************************)
(* An element stays after the one its author put it after, in every        *)
(* replica, when both have one author.                                     *)
(***************************************************************************)
AuthorOrder ==
    \A r \in Replica : \A c \in Range(changes[r]) :
        c.t = "INS" /\ c.p # Nil /\ c.p[1] = c.i[1] =>
            Find(temp[r], c.p) < Find(temp[r], c.i)
=============================================================================
