--------------------------- MODULE MCBrokerServe ---------------------------
(* BrokerServe with two peers for TLC. *)
EXTENDS BrokerServe, TLC
CONSTANTS p1, p2
=============================================================================
