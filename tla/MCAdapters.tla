----------------------------- MODULE MCAdapters -----------------------------
(***************************************************************************)
(* Peers on which TLC checks the network adapters that keep their state    *)
(* apart: a peer of the hybrid adapter, the sockets to trackers and relays *)
(* of one of the WebRTC adapter, or the connections of several of these.   *)
(***************************************************************************)
EXTENDS HybridNetwork, Signalling, WebrtcPeers, TLC

CONSTANTS s1, f1, f2, c1

Names == s1 :> "a"
TwoOffers == f1 :> s1 @@ f2 :> s1
OneVisit == {<<c1, 1>>}
RelayList == <<"r1", "r2">>

VARIABLE adapter  \* which of them it is

adapterVars == <<adapter, HybridVars, SignalVars, vars>>

AdaptersInit ==
    /\ HybridInit /\ SignalInit /\ Init
    /\ adapter \in {"hybrid", "signalling", "webrtc"}

AdaptersNext ==
    /\ UNCHANGED adapter
    /\ \/ adapter = "hybrid" /\ HybridNext /\ UNCHANGED <<SignalVars, vars>>
       \/ adapter = "signalling" /\ SignalNext /\ UNCHANGED <<HybridVars, vars>>
       \/ adapter = "webrtc" /\ Next /\ UNCHANGED <<HybridVars, SignalVars>>

AdaptersSpec == AdaptersInit /\ [][AdaptersNext]_adapterVars

\* The state of every adapter is well formed.
AdaptersTypeOK == HybridTypeOK /\ SignalTypeOK /\ TypeOK
=============================================================================
