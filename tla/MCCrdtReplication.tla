------------------------- MODULE MCCrdtReplication -------------------------
(***************************************************************************)
(* Networks, clocks and documents on which TLC checks CrdtReplication.     *)
(***************************************************************************)
EXTENDS CrdtReplication, TLC

Both(S) == S \cup {<<e[2], e[1]>> : e \in S}

\* client 1 - server 3 - server 4 - client 2
LineLink == Both({<<1, 3>>, <<3, 4>>, <<2, 4>>})
FragileLink == Both({<<3, 4>>})

NoSkew == [n \in Node |-> 0]
Nobody == {{}}

\* The users are compared as their addresses are.
Addresses == [n \in User |-> {m \in User : m < n}]

\* Both users add one thing; each may then delete what the other has added.
Additions == {[a |-> n, i |-> 0, t |-> "ADD", v |-> <<>>] : n \in User}
Deletions == {[a |-> 3 - n, i |-> 1, t |-> "DEL", v |-> <<n, 0>>] : n \in User}
Changes == Additions \cup Deletions
Documents == SUBSET Changes

\* Ids are compared with each other only.
Ids == Permutations(Id)
=============================================================================
