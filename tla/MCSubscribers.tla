---------------------------- MODULE MCSubscribers ----------------------------
(* A subscriber on whom TLC checks what toolDbSubscribe says of itself. *)
EXTENDS Subscriptions
=============================================================================
