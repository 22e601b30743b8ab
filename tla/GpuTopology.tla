----------------------------- MODULE GpuTopology -----------------------------
(***************************************************************************)
(* The GPU interconnect (GpuTopology in nvlink_placement.cpp): how detect  *)
(* classifies each ordered pair of GPUs, and the peer searches over the    *)
(* result.  A topology is immutable once built, so it is a value here:     *)
(* topo[i][j] is the pair of matrices link_kind_ and link_bandwidth_.      *)
(***************************************************************************)
EXTENDS Integers

CONSTANT NumGpus   \* num_gpus_

ASSUME NumGpusAssumption == NumGpus \in Nat \ {0}

Gpus == 0..(NumGpus - 1)

LinkType == {"NONE", "PCIE", "NVLINK", "SELF"}

Link(kind, bandwidth) == [kind |-> kind, bandwidth |-> bandwidth]

Topology == [Gpus -> [Gpus -> [kind : LinkType, bandwidth : Nat]]]

(* What the CUDA runtime may answer about a pair: peer access refused (or  *)
(* the query failed), no performance rank, or a rank and native atomics.   *)
CudaAnswers == {"no_access", "rank_error", "rank0_atomics", "rank0", "rank1"}

Classify(answer) ==
    CASE answer = "no_access" -> Link("NONE", 0)
      [] answer = "rank0_atomics" -> Link("NVLINK", 100)
      [] answer = "rank0" -> Link("NVLINK", 90)
      [] answer \in {"rank_error", "rank1"} -> Link("PCIE", 10)

(* cuda[i][j] is the runtime's answer for the pair i, j. *)
detect(cuda) ==
    [i \in Gpus |-> [j \in Gpus |->
        IF i = j THEN Link("SELF", 1000) ELSE Classify(cuda[i][j])]]

synthetic ==
    [i \in Gpus |-> [j \in Gpus |-> IF i = j THEN Link("SELF", 1000) ELSE Link("PCIE", 10)]]

(* The loop shared by best_peer and best_nvlink_peer: scan[n] is the value *)
(* of (best, best_score) after n rounds.                                   *)
BestAmong(topo, gpu, kinds) ==
    LET scan[n \in 0..NumGpus] ==
          IF n = 0 THEN [best |-> -1, score |-> -1]
          ELSE LET prev == scan[n - 1]
                   j == n - 1
               IN  IF /\ j # gpu
                      /\ topo[gpu][j].kind \in kinds
                      /\ topo[gpu][j].bandwidth > prev.score
                   THEN [best |-> j, score |-> topo[gpu][j].bandwidth]
                   ELSE prev
    IN  scan[NumGpus].best

best_nvlink_peer(topo, gpu) == BestAmong(topo, gpu, {"NVLINK"})

Mutant_best_peer_ignores_kind(topo, gpu) == BestAmong(topo, gpu, LinkType)

best_peer(topo, gpu) == BestAmong(topo, gpu, LinkType \ {"NONE"})

(* Peers reachable by some link, and the reference definition of the best  *)
(* one: no other has more bandwidth, and ties go to the lowest index.      *)
Peers(topo, gpu) == {j \in Gpus \ {gpu} : topo[gpu][j].kind # "NONE"}

IsBestOf(topo, gpu, peers, p) ==
    IF peers = {} THEN p = -1
    ELSE /\ p \in peers
         /\ \A j \in peers : \/ topo[gpu][p].bandwidth > topo[gpu][j].bandwidth
                             \/ topo[gpu][p].bandwidth = topo[gpu][j].bandwidth /\ p <= j
=============================================================================
