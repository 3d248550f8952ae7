-------------------------- MODULE MCPutReplication --------------------------
(***************************************************************************)
(* Networks and clocks on which TLC checks PutReplication.                 *)
(***************************************************************************)
EXTENDS PutReplication, TLC

Both(S) == S \cup {<<e[2], e[1]>> : e \in S}

\* client 1 - server 3 - server 4 - client 2
LineLink == Both({<<1, 3>>, <<3, 4>>, <<2, 4>>})

\* The servers 3, 4 and 5 in a cycle; client 1 on server 3, client 2 on 4.
CycleLink == Both({<<1, 3>>, <<2, 4>>, <<3, 4>>, <<4, 5>>, <<3, 5>>})

NoSkew == [n \in Node |-> 0]

\* The clock of client 2 is one instant ahead.
Ahead == [n \in Node |-> IF n = 2 THEN 1 ELSE 0]

IdSymmetry == Permutations(Id)

FragileLink == Both({<<3, 4>>})
CustomKeys == {<<4, CHOOSE k \in Key : TRUE>>}

Nobody == {{}}
MaybeServer == {{}, {4}}
=============================================================================
