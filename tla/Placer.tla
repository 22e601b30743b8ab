------------------------------- MODULE Placer -------------------------------
(***************************************************************************)
(* The placement policy (Placer in nvlink_placement.h/.cpp): sticky home   *)
(* GPUs handed out round-robin, and the three-tier choice of place.  Each  *)
(* operation holds affinity_mutex_; queue depths are read through the      *)
(* caller's callback and are taken here as one snapshot.  BrokerService    *)
(* models the same operations with depths that move while place reads.     *)
(***************************************************************************)
EXTENDS GpuTopology

CONSTANTS
    Clients,            \* client ids
    Topologies,         \* the topologies the placer may be built on
    backlog_threshold,  \* backlog_threshold_
    MaxDepth,           \* bound: the queue depths callers report
    MaxRounds           \* bound: values of rr_counter_

ASSUME PlacerAssumption ==
    /\ Topologies \subseteq Topology
    /\ backlog_threshold \in Nat
    /\ MaxDepth \in Nat
    /\ MaxRounds \in Nat

VARIABLES
    topo,        \* topo_
    affinity,    \* affinity_: client -> home GPU, -1 when absent
    rr_counter,  \* rr_counter_
    placed       \* the last result of place, with the inputs it was given

placerVars == <<topo, affinity, rr_counter, placed>>

NotPlaced == [home |-> -1, depth |-> [g \in Gpus |-> 0], gpu |-> -1]

PlacerInit ==
    /\ topo \in Topologies
    /\ affinity = [c \in Clients |-> -1]
    /\ rr_counter = 0
    /\ placed = NotPlaced

assign_home(c) ==
    /\ rr_counter < MaxRounds
    /\ affinity' = [affinity EXCEPT ![c] = rr_counter % NumGpus]
    /\ rr_counter' = rr_counter + 1
    /\ UNCHANGED <<topo, placed>>

release_client(c) ==
    /\ affinity' = [affinity EXCEPT ![c] = -1]
    /\ UNCHANGED <<topo, rr_counter, placed>>

(* Tier 3: least[n] is (best, best_depth) after n rounds of the scan. *)
Scan(home, depth) ==
    LET least[n \in 0..NumGpus] ==
          IF n = 0 THEN home
          ELSE IF depth[n - 1] < depth[least[n - 1]] THEN n - 1 ELSE least[n - 1]
    IN  least[NumGpus]

Mutant_peer_at_threshold(queued) == queued <= backlog_threshold

below(queued) == queued < backlog_threshold

Choice(home, depth) ==
    LET peer == best_peer(topo, home)
    IN  IF below(depth[home]) THEN home
        ELSE IF peer >= 0 /\ below(depth[peer]) THEN peer
        ELSE Scan(home, depth)

(* A client without a home gets the next GPU of the round, for this call   *)
(* only.                                                                   *)
place(c, depth) ==
    /\ affinity[c] = -1 => rr_counter < MaxRounds
    /\ LET home == IF affinity[c] = -1 THEN rr_counter % NumGpus ELSE affinity[c]
       IN  placed' = [home |-> home, depth |-> depth, gpu |-> Choice(home, depth)]
    /\ rr_counter' = IF affinity[c] = -1 THEN rr_counter + 1 ELSE rr_counter
    /\ UNCHANGED <<topo, affinity>>

PlacerNext ==
    \E c \in Clients :
        \/ assign_home(c)
        \/ release_client(c)
        \/ \E depth \in [Gpus -> 0..MaxDepth] : place(c, depth)

PlacerSpec == PlacerInit /\ [][PlacerNext]_placerVars
-----------------------------------------------------------------------------
(* On every topology detect can build, the loop of best_peer finds the     *)
(* reachable peer of greatest bandwidth, the lowest index on a tie, and -1 *)
(* exactly when no peer is reachable.                                      *)
BestPeerIsBest ==
    \A g \in Gpus : IsBestOf(topo, g, Peers(topo, g), best_peer(topo, g))

(* Work leaves its home GPU only for a queue that is strictly shorter; and *)
(* when home and its best peer are both backed up, the loop of tier 3      *)
(* finds a GPU of least depth: home if home is one, else the first.        *)
PlacedWell ==
    LET d == placed.depth
        home == placed.home
        peer == best_peer(topo, home)
        least == {g \in Gpus : \A h \in Gpus : d[g] <= d[h]}
    IN  placed # NotPlaced =>
          /\ placed.gpu \in Gpus
          /\ placed.gpu # home => d[placed.gpu] < d[home]
          /\ d[home] >= backlog_threshold /\ (peer >= 0 => d[peer] >= backlog_threshold) =>
               IF home \in least THEN placed.gpu = home
               ELSE placed.gpu \in least /\ \A g \in least : placed.gpu <= g
=============================================================================
