--------------------------- MODULE MCBrokerProcess ---------------------------
(* An instance of the broker process for TLC.                              *)
EXTENDS BrokerProcess

CONSTANT rob

AllOfRob == [id \in CallId |-> rob]
=============================================================================
