----------------------------- MODULE MCRequests -----------------------------
(***************************************************************************)
(* Networks, clocks and stores on which TLC checks Requests.               *)
(***************************************************************************)
EXTENDS Requests

Both(S) == S \cup {<<e[2], e[1]>> : e \in S}

\* Client 1 on server 2, which is connected to server 3.
PathLink == Both({<<1, 2>>, <<2, 3>>})
FragileLink == Both({<<2, 3>>})

NoSkew == [n \in Node |-> 0]
Nobody == {{}}

\* A record that client 1 put before the peers started.
OldRecord == {[k |-> k, a |-> 1, t |-> -1, v |-> v] : k \in Key, v \in Value}
=============================================================================
