---------------------------- MODULE CounterCrdt ----------------------------
(***************************************************************************)
(* Replicas of one CounterCrdt, changed with ADD and SUB and merged as     *)
(* those of a MapCrdt are.  A change is known by its author, its operation *)
(* and the number of changes of that author its replica had; the value is  *)
(* the sum, whatever the order of the changes.                             *)
(***************************************************************************)
EXTENDS Integers, SequencesExt

CONSTANTS
    Replica,    \* the CounterCrdt objects
    AuthorOf,   \* AuthorOf[r]: the author r was constructed with
    Forgetful,  \* replicas constructed anew without the changes they made
    Amount,     \* the numbers added and subtracted
    MaxOps      \* bound: the number of calls of ADD and SUB

VARIABLES
    changes,         \* changes[r]: _changes
    value,           \* value[r]: _value
    lastUpdateSize,  \* lastUpdateSize[r]: _lastUpdateSize
    sent,            \* every array of changes a replica has sent
    calls            \* history: the calls of ADD and SUB, in order

vars == <<changes, value, lastUpdateSize, sent, calls>>

Authors == {AuthorOf[r] : r \in Replica}
Change == [t : {"ADD", "SUB"}, v : Amount, a : Authors, i : Nat]

TypeOK ==
    /\ changes \in [Replica -> SUBSET Change]
    /\ value \in [Replica -> Int]
    /\ lastUpdateSize \in [Replica -> Nat]
    /\ \A S \in sent : S \subseteq Change
    /\ \A n \in DOMAIN calls : calls[n] \in Change

Init ==
    /\ changes = [r \in Replica |-> {}]
    /\ value = [r \in Replica |-> 0]
    /\ lastUpdateSize = [r \in Replica |-> 0]
    /\ sent = {}
    /\ calls = <<>>

-----------------------------------------------------------------------------
\* Mutant of SameChange: the author is not compared.
SameIndex(c, d) == c.i = d.i /\ c.t = d.t

SameChange(c, d) == c.i = d.i /\ c.a = d.a /\ c.t = d.t

Merged(S, T) == S \cup {c \in T : \A d \in S : ~SameChange(c, d)}

\* What a change adds to the counter, and what a set of changes amounts to.
Delta(c) == IF c.t = "ADD" THEN c.v ELSE -c.v
ValueOf(S) == MapThenSumSet(Delta, S)

\* calculate does nothing when there are as many changes as the last time.
Calculate(r, S) ==
    /\ changes' = [changes EXCEPT ![r] = S]
    /\ IF Cardinality(S) # lastUpdateSize[r]
       THEN /\ value' = [value EXCEPT ![r] = ValueOf(S)]
            /\ lastUpdateSize' = [lastUpdateSize EXCEPT ![r] = Cardinality(S)]
       ELSE UNCHANGED <<value, lastUpdateSize>>

\* The changes of r's own author: their number is the index of the next one.
OurChanges(r, S) == {c \in S : c.a = AuthorOf[r]}

\* ADD and SUB.
Count(r, t, v) ==
    LET c == [t |-> t, v |-> v, a |-> AuthorOf[r],
              i |-> Cardinality(OurChanges(r, changes[r]))]
    IN  /\ Len(calls) < MaxOps
        /\ Calculate(r, changes[r] \cup {c})
        /\ calls' = Append(calls, c)
        /\ UNCHANGED sent

Send(r) ==
    /\ sent' = sent \cup {changes[r]}
    /\ UNCHANGED <<changes, value, lastUpdateSize, calls>>

MergeChanges(r, S) ==
    /\ Calculate(r, Merged(changes[r], S))
    /\ UNCHANGED <<sent, calls>>

\* new CounterCrdt(author, changes) takes the place of r.
Reopen(r, S) ==
    /\ r \in Forgetful \/ OurChanges(r, changes[r]) \subseteq S
    /\ changes' = [changes EXCEPT ![r] = S]
    /\ value' = [value EXCEPT ![r] = ValueOf(S)]
    /\ lastUpdateSize' = [lastUpdateSize EXCEPT ![r] = Cardinality(S)]
    /\ UNCHANGED <<sent, calls>>

Next ==
    \E r \in Replica :
        \/ \E t \in {"ADD", "SUB"}, v \in Amount : Count(r, t, v)
        \/ Send(r)
        \/ \E S \in sent : MergeChanges(r, S)
        \/ \E S \in sent \cup {{}} : Reopen(r, S)

Spec == Init /\ [][Next]_vars

-----------------------------------------------------------------------------
\* r has a change of each author for every call that was made with it.
Complete(r) == \A n \in DOMAIN calls : \E c \in changes[r] : SameChange(c, calls[n])

(***************************************************************************)
(* Every call counts once: a replica that has heard of every call shows    *)
(* the sum of them all, however often and through whomever it heard, if    *)
(* what it heard was merged by counters.  (handleCrdtPut merges them as    *)
(* lists: see CrdtReplication.)                                            *)
(***************************************************************************)
CountsEveryCall ==
    \A r \in Replica :
        Complete(r) => value[r] = FoldLeft(LAMBDA x, c : x + Delta(c), 0, calls)
=============================================================================
