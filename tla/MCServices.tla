---------------------------- MODULE MCServices ----------------------------
(***************************************************************************)
(* Instances of the services of a peer, which keep their state apart: its  *)
(* calls, its subscriptions, the servers it hears of, signing up and the   *)
(* accounts it signs with.  A behaviour is one of one of them.             *)
(***************************************************************************)
EXTENDS Calls, Subscriptions, PeerExchange, SignUp, Accounts

VARIABLE service  \* the service that runs, the others stay as they begin

servicesVars == <<CallVars, SubsVars, PeerVars, SignUpVars, AccountVars, service>>

\* Three peers in a line: what 3 has reaches 1 through 2.
LineWire == {<<1, 2>>, <<2, 1>>, <<2, 3>>, <<3, 2>>}
LineKeys == [n \in Peer |-> CASE n = 1 -> {"a"} [] n = 2 -> {"a", "b"} [] n = 3 -> {"c"}]
LineFunction == [n \in Peer |-> IF n = 2 THEN "OK" ELSE "NOT_FOUND"]
LineCalls == {<<"query", 1>>, <<"query", 2>>, <<"function", 1>>, <<"crdtGet", 1>>, <<"crdtGet", 2>>}

\* Two servers, of which 2 has an address and dials 1; 3 dials both, 4 is of
\* another topic.
Contacts == {<<3, 1>>, <<3, 2>>, <<2, 1>>, <<4, 1>>}

ServicesInit ==
    /\ CallsInit /\ SubsInit /\ PeersInit /\ SignUpInit /\ AccountsInit
    /\ service \in {"calls", "subscriptions", "peers", "signUp", "accounts"}

ServicesNext ==
    /\ UNCHANGED service
    /\ \/ /\ service = "calls" /\ CallsNext
          /\ UNCHANGED <<SubsVars, PeerVars, SignUpVars, AccountVars>>
       \/ /\ service = "subscriptions" /\ SubsNext
          /\ UNCHANGED <<CallVars, PeerVars, SignUpVars, AccountVars>>
       \/ /\ service = "peers" /\ PeersNext
          /\ UNCHANGED <<CallVars, SubsVars, SignUpVars, AccountVars>>
       \/ /\ service = "signUp" /\ SignUpNext
          /\ UNCHANGED <<CallVars, SubsVars, PeerVars, AccountVars>>
       \/ /\ service = "accounts" /\ AccountsNext
          /\ UNCHANGED <<CallVars, SubsVars, PeerVars, SignUpVars>>

\* The fairness of FairCallsSpec.
CallsProgress ==
    /\ service = "calls" /\ Progress
    /\ UNCHANGED <<SubsVars, PeerVars, SignUpVars, AccountVars, service>>

ServicesSpec ==
    ServicesInit /\ [][ServicesNext]_servicesVars /\ WF_servicesVars(CallsProgress)

\* The state of every service is well formed.
ServicesTypeOK ==
    /\ CallsTypeOK /\ SubsTypeOK /\ PeersTypeOK /\ SignUpTypeOK /\ AccountsTypeOK
=============================================================================
