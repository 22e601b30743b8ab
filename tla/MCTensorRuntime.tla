-------------------------- MODULE MCTensorRuntime --------------------------
(* Instances of TensorRuntime for TLC. *)
EXTENDS TensorRuntime

CONSTANTS c1, c2, c3

MCClients == {c1, c2, c3}

MCLoaders == {c1, c2}

MCRequests == [c \in MCClients |-> IF c = c1 THEN 2 ELSE 1]

(* Each has one buffer larger than the other's. *)
MCEngines == {[input |-> 1, output |-> 2], [input |-> 2, output |-> 1]}
=============================================================================
