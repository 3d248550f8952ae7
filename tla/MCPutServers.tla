---------------------------- MODULE MCPutServers ----------------------------
(***************************************************************************)
(* The servers of PutReplication in a cycle, in two kinds of network: one  *)
(* in which no two handlers overlap in a peer, and one in which they do,   *)
(* of which one key and one instant are enough to see every message heard. *)
(* Ids are numbers, given out in order.                                    *)
(***************************************************************************)
EXTENDS MCPutReplication

VARIABLE serial  \* handlers do not overlap

serversVars == <<vars, serial>>

ServersInit == Init /\ serial \in BOOLEAN

ServersNext ==
    /\ UNCHANGED serial
    /\ IF serial THEN SerialNext
       ELSE /\ Next
            /\ UNCHANGED clock
            /\ \A p \in issued' : p.data.k \notin Frozen
    /\ \A p \in issued', i \in Id : i < p.id => \E q \in issued' : q.id = i

\* FairSpec, for the second kind of network.
ServersSpec ==
    /\ ServersInit
    /\ [][ServersNext]_serversVars
    /\ WF_serversVars(~serial /\ System /\ UNCHANGED serial)

\* With handlers that overlap, every server hears of every put all the same.
OverlappingAllHear == \A s \in Server, id \in Id :
    ~serial /\ id \in {p.id : p \in issued} ~> Heard(s, id) \/ worn # {}
=============================================================================
