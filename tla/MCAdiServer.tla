---------------------------- MODULE MCAdiServer ----------------------------
(* Instances of AdiServer for TLC: GPU 0 and GPU 1 are peers. *)
EXTENDS AdiServer

CONSTANTS c1, c2

MCClients == {c1, c2}

MCOneClient == {c1}

MCPeer == [g \in 0..1 |-> 1 - g]
=============================================================================
