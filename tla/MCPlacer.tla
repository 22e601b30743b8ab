------------------------------ MODULE MCPlacer ------------------------------
(* Instances of Placer for TLC. *)
EXTENDS Placer

MCClients == {1, 2}

(* best_peer reads one row of the matrix.  These topologies give each GPU  *)
(* every row detect can build: the answers for the next GPU round and for  *)
(* the one after it are any pair.                                          *)
AnyRows ==
    {detect([i \in Gpus |-> [j \in Gpus |-> IF j = (i + 1) % NumGpus THEN near ELSE far]]) :
        near, far \in CudaAnswers}

MCTopologies == AnyRows \cup {synthetic}
=============================================================================
