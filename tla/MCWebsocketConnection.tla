----------------------- MODULE MCWebsocketConnection -----------------------
(* Peers on which TLC checks WebsocketConnection. *)
EXTENDS WebsocketConnection

\* Servers 1 and 2 dial each other.
Mutual == {<<1, 2>>, <<2, 1>>}
=============================================================================
