--------------------------- MODULE MCBrokerServer ---------------------------
(* Instances of BrokerServer for TLC. *)
EXTENDS BrokerServer

CONSTANTS c1, c2, c3

MCConns == {c1, c2, c3}

MCOneConn == {c1}
=============================================================================
