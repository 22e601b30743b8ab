--------------------------- MODULE MCBrokerSession ---------------------------
(* Instances of BrokerSession for TLC. *)
EXTENDS BrokerSession

CONSTANTS r1, r2, r3

MCRequests == {r1, r2, r3}

MCTwoRequests == {r1, r2}

AllKinds == {"request", "malformed", "oversize"}

OnlyRequests == {"request"}
=============================================================================
