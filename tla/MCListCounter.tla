--------------------------- MODULE MCListCounter ---------------------------
(***************************************************************************)
(* Users on whom TLC checks ListCrdt and CounterCrdt, which have most of   *)
(* their variables in common: a key holds a list or a counter.             *)
(***************************************************************************)
EXTENDS ListCrdt

CONSTANTS
    Counting,   \* the replicas of the counter; each is its own author
    Amount,     \* the numbers added and subtracted
    MaxCounts   \* bound: the calls of ADD and SUB

VARIABLES
    kind,       \* the type of the document, crdt.type
    value       \* of a counter

Counter ==
    INSTANCE CounterCrdt WITH
        Replica <- Counting, AuthorOf <- [r \in Counting |-> r],
        Forgetful <- {}, MaxOps <- MaxCounts

documentVars == <<vars, kind, value>>

DocumentInit ==
    \/ kind = "list" /\ Init /\ value = 0
    \/ kind = "counter" /\ Counter!Init /\ temp = <<>>

DocumentNext ==
    \/ kind = "list" /\ Next /\ kind' = kind /\ value' = value
    \/ kind = "counter" /\ Counter!Next /\ kind' = kind /\ temp' = temp

DocumentSpec == DocumentInit /\ [][DocumentNext]_documentVars

-----------------------------------------------------------------------------
\* The types of the two documents (TypeOK of ListCrdt and of CounterCrdt).
DocumentTypeOK == IF kind = "list" THEN TypeOK ELSE Counter!TypeOK

\* Replicas of a list that received the same changes show the same list.
ListsConverge == kind = "list" => Convergence

\* A list drops and doubles no element, wherever concurrent calls put it.
ElementsOnce == kind = "list" => EveryElementOnce

\* The elements of one author stay in the order that author gave them.
AuthorsOrder == kind = "list" => AuthorOrder

\* A counter that has heard of every call, by merges of counters, shows the sum
\* of them all.
EveryCallCounts == kind = "counter" => Counter!CountsEveryCall
=============================================================================
