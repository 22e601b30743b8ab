----------------------------- MODULE HostProofs -----------------------------
(***************************************************************************)
(* Proofs about the parts that host the work of clients: the placer, for   *)
(* any number of GPUs, links and queue depths; the WASM module manager,    *)
(* for every set of identities and GPUs, every finite set of task threads  *)
(* and any number of leases; and a session of the broker, for any number   *)
(* of requests and any cap on the requests in processing.                  *)
(***************************************************************************)
EXTENDS Placer, WasmSandbox, BrokerSession, FiniteSetTheorems, WellFoundedInduction, TLAPS

(* Induction: a set with 0 that has n + 1 whenever it has n has every      *)
(* natural number.                                                         *)
LEMMA Induction ==
  \A S :
    /\ 0 \in S
    /\ (\A n \in Nat : n \in S => n + 1 \in S)
    =>
      Nat \subseteq S
  (* The natural numbers of a set that has any have a least one.             *)
  <1>LeastNatural.
      ASSUME NEW T, T \subseteq Nat, T # {}
      PROVE  \E n \in T : \A m \in T : n <= m
    <2>. USE <1>LeastNatural
    <2> DEFINE R == {p \in Nat \X Nat : p[1] < p[2]}
    <2>1. IsWellFoundedOn(R, Nat)
      BY NatLessThanWellFounded, Zenon DEF OpToRel
    <2>2. PICK n \in T : \A m \in T : <<m, n>> \notin R
      <3> HIDE DEF R
      <3>1. QED
        BY <2>1, WFMin, Zenon
    <2>3. ASSUME NEW m \in T, m < n PROVE FALSE
      <3>1. <<m, n>> \in Nat \X Nat /\ <<m, n>>[1] = m /\ <<m, n>>[2] = n
        OBVIOUS
      <3>2. <<m, n>> \in R
        BY <2>3, <3>1, Zenon
      <3>3. QED
        BY <2>2, <3>2, Zenon
    <2>4. QED
      BY <2>2, <2>3
  <1>. SUFFICES
    ASSUME NEW S, 0 \in S, \A n \in Nat : n \in S => n + 1 \in S
    PROVE  Nat \subseteq S
    BY Zenon
  <1>1. SUFFICES ASSUME Nat \ S # {} PROVE FALSE
    OBVIOUS
  <1>2. PICK n \in Nat \ S : \A m \in Nat \ S : n <= m
    BY <1>1, <1>LeastNatural, Zenon
  <1>3. n # 0 /\ n - 1 \in Nat
    BY <1>2
  <1>4. n - 1 \in S
    BY <1>2, <1>3
  <1>5. QED
    BY <1>2, <1>3, <1>4

(* f[n] is what a loop has after n rounds, if it starts with base and      *)
(* round n turns x into step[n][x].                                        *)
Unrolls(f, V, base, step, bound) ==
    /\ f \in [0..bound -> V] /\ f[0] = base
    /\ \A n \in 1..bound : f[n] = step[n][f[n - 1]]

(* Every such loop has a value after every round.                          *)
LEMMA Recursion ==
  ASSUME NEW V, NEW base \in V, NEW step \in [Nat -> [V -> V]], NEW bound \in Nat
  PROVE  \E f : Unrolls(f, V, base, step, bound)
  <1> DEFINE Value(m, f) == /\ f \in [0..m -> V] /\ f[0] = base
                            /\ \A n \in 1..m : f[n] = step[n][f[n - 1]]
             S == {m \in Nat : \E f : Value(m, f)}
  <1>1. 0 \in S
    <2> DEFINE f == [n \in 0..0 |-> base]
    <2>1. Value(0, f)
      OBVIOUS
    <2>2. \E g : Value(0, g)
      BY <2>1, Zenon
    <2>3. QED
      BY <2>2, Zenon
  <1>2. ASSUME NEW m \in Nat, m \in S PROVE m + 1 \in S
    <2>1. PICK f : Value(m, f)
      BY <1>2, Zenon
    <2> DEFINE g == [n \in 0..(m + 1) |-> IF n = m + 1 THEN step[m + 1][f[m]] ELSE f[n]]
    <2>2. f[m] \in V /\ step[m + 1][f[m]] \in V
      BY <2>1
    <2>3. g \in [0..(m + 1) -> V] /\ g[0] = base
      BY <2>1, <2>2
    <2>4. ASSUME NEW n \in 1..(m + 1) PROVE g[n] = step[n][g[n - 1]]
      <3>1. CASE n = m + 1
        <4>1. g[m + 1] = step[m + 1][f[m]] /\ g[m] = f[m] /\ n - 1 = m
          BY <3>1
        <4>2. QED
          BY <3>1, <4>1, Zenon
      <3>2. CASE n \in 1..m
        BY <2>1, <3>2
      <3>3. QED
        BY <3>1, <3>2
    <2>5. \E h : Value(m + 1, h)
      <3>1. Value(m + 1, g)
        BY <2>3, <2>4, Zenon
      <3> HIDE DEF g, Value
      <3>2. QED
        BY <3>1, Zenon
    <2>6. QED
      BY <2>5
  <1>3. Nat \subseteq S
    <2> HIDE DEF S
    <2>1. QED
      BY <1>1, <1>2, Induction, Zenon
  <1>4. QED
    BY <1>3, Zenon DEF Unrolls
-----------------------------------------------------------------------------
(* What the search of best_peer and best_nvlink_peer may hold. *)
Candidate == [best : Int, score : Int]

(* One round of the search, over the links of gpu. *)
Round(row, gpu, kinds, prev, j) ==
    IF j # gpu /\ row[j].kind \in kinds /\ row[j].bandwidth > prev.score
    THEN [best |-> j, score |-> row[j].bandwidth] ELSE prev

Start == [best |-> -1, score |-> -1]

(* The peers of gpu by a link of one of the kinds, among the first n GPUs. *)
Linked(t, gpu, kinds, n) == {j \in Gpus \ {gpu} : j < n /\ t[gpu][j].kind \in kinds}

-----------------------------------------------------------------------------
Shorter(depth, prev, j) == IF depth[j] < depth[prev] THEN j ELSE prev

(* Tier 3 stays at home unless a queue is shorter, and then takes the      *)
(* first of the shortest.                                                  *)
LEMMA ScanFindsLeast ==
  \A home \in Gpus, depth \in [Gpus -> Nat] :
    LET gpu == Scan(home, depth)
    IN  /\ gpu \in Gpus /\ \A h \in Gpus : depth[gpu] <= depth[h]
        /\ gpu # home => /\ depth[gpu] < depth[home]
                         /\ \A h \in Gpus : h < gpu => depth[gpu] < depth[h]
  (* The loop of tier 3, round by round.                                     *)
  <1>ScanUnfolds.
      ASSUME NEW home \in Gpus, NEW depth \in [Gpus -> Nat]
      PROVE  \E f : /\ f[0] = home
                    /\ \A n \in 1..NumGpus : f[n] = Shorter(depth, f[n - 1], n - 1)
                    /\ Scan(home, depth) = f[NumGpus]
    <2>. USE <1>ScanUnfolds
    <2> DEFINE Step(n, prev) == IF n \in 1..NumGpus THEN Shorter(depth, prev, n - 1) ELSE prev
               step == [n \in Nat |-> [prev \in Gpus |-> Step(n, prev)]]
    <2>1. NumGpus \in Nat
      BY NumGpusAssumption, Zenon
    <2>2. \A n \in Nat, prev \in Gpus : Step(n, prev) \in Gpus
      <3>1. ASSUME NEW n \in 1..NumGpus PROVE n - 1 \in Gpus
        BY NumGpusAssumption DEF Gpus
      <3>2. QED
        BY <3>1, Zenon DEF Shorter
    <2>3. /\ step \in [Nat -> [Gpus -> Gpus]]
          /\ \A n \in Nat, prev \in Gpus : step[n][prev] = Step(n, prev)
      <3> HIDE DEF Step
      <3>1. QED
        BY <2>2, Zenon
    <2> HIDE DEF step
    <2>4. PICK f : Unrolls(f, Gpus, home, step, NumGpus)
      BY <2>1, <2>3, Recursion, Zenon
    <2>5. ASSUME NEW n \in 1..NumGpus PROVE f[n] = Shorter(depth, f[n - 1], n - 1)
      <3>1. n \in Nat /\ n - 1 \in 0..NumGpus /\ f[n - 1] \in Gpus
        BY <2>1, <2>4 DEF Unrolls
      <3>2. QED
        BY <2>3, <2>4, <3>1, Zenon DEF Unrolls
    <2>6. f \in [0..NumGpus -> Gpus] /\ f[0] = home
      BY <2>4, Zenon DEF Unrolls
    <2>7. f = [n \in 0..NumGpus |-> IF n = 0 THEN home ELSE Shorter(depth, f[n - 1], n - 1)]
      <3>1. ASSUME NEW n \in 0..NumGpus
            PROVE  f[n] = IF n = 0 THEN home ELSE Shorter(depth, f[n - 1], n - 1)
        <4>1. n = 0 \/ n \in 1..NumGpus
          BY <2>1
        <4>2. QED
          BY <2>5, <2>6, <4>1, Zenon
      <3>2. QED
        BY <2>6, <3>1, Zenon
    <2> DEFINE least == CHOOSE g :
                 g = [n \in 0..NumGpus |-> IF n = 0 THEN home ELSE Shorter(depth, g[n - 1], n - 1)]
    <2>8. least = [n \in 0..NumGpus |->
                     IF n = 0 THEN home ELSE Shorter(depth, least[n - 1], n - 1)]
      BY <2>7, Zenon
    <2>9. Scan(home, depth) = least[NumGpus]
      BY Zenon DEF Scan, Shorter
    <2> HIDE DEF least
    <2>10. least[0] = home /\ \A n \in 1..NumGpus : least[n] = Shorter(depth, least[n - 1], n - 1)
      <3>1. 0 \in 0..NumGpus /\ \A n \in 1..NumGpus : n \in 0..NumGpus /\ n # 0
        BY <2>1
      <3>2. ASSUME NEW n \in 0..NumGpus
            PROVE  least[n] = IF n = 0 THEN home ELSE Shorter(depth, least[n - 1], n - 1)
        BY <2>8, Zenon
      <3>3. QED
        BY <3>1, <3>2, Zenon
    <2>11. QED
      BY <2>9, <2>10, Zenon
  <1>. SUFFICES
    ASSUME NEW home \in Gpus, NEW depth \in [Gpus -> Nat]
    PROVE  LET gpu == Scan(home, depth)
           IN  /\ gpu \in Gpus /\ \A h \in Gpus : depth[gpu] <= depth[h]
               /\ gpu # home => /\ depth[gpu] < depth[home]
                                /\ \A h \in Gpus : h < gpu => depth[gpu] < depth[h]
    BY Zenon
  <1>1. PICK f : /\ f[0] = home
                 /\ \A n \in 1..NumGpus : f[n] = Shorter(depth, f[n - 1], n - 1)
                 /\ Scan(home, depth) = f[NumGpus]
    BY <1>ScanUnfolds, Zenon
  <1> DEFINE Found(n) == /\ f[n] \in Gpus /\ \A h \in Gpus : h < n => depth[f[n]] <= depth[h]
                         /\ depth[f[n]] <= depth[home]
                         /\ f[n] # home =>
                              /\ depth[f[n]] < depth[home]
                              /\ \A h \in Gpus : h < f[n] => depth[f[n]] < depth[h]
             S == {n \in Nat : n <= NumGpus => Found(n)}
  <1>2. NumGpus \in Nat /\ Gpus = {j \in Nat : j < NumGpus} /\ \A j \in Gpus : depth[j] \in Nat
    BY NumGpusAssumption DEF Gpus
  <1>3. 0 \in S
    BY <1>1, <1>2
  <1>4. ASSUME NEW n \in Nat, n \in S PROVE n + 1 \in S
    <2>1. SUFFICES ASSUME n + 1 <= NumGpus PROVE Found(n + 1)
      OBVIOUS
    <2>2. Found(n) /\ n \in Gpus
      BY <1>2, <1>4, <2>1
    <2>3. f[n + 1] = IF depth[n] < depth[f[n]] THEN n ELSE f[n]
      BY <1>1, <1>2, <2>1 DEF Shorter
    <2>4. QED
      BY <1>2, <2>2, <2>3
  <1>5. Found(NumGpus)
    <2>1. Nat \subseteq S
      <3> HIDE DEF S
      <3>1. QED
        BY <1>3, <1>4, Induction, Zenon
    <2> HIDE DEF Found
    <2>2. QED
      BY <1>2, <2>1
  <1>6. QED
    BY <1>1, <1>2, <1>5, Zenon

(* best_peer is the search over the links there are.                       *)
LEMMA BestPeerFound ==
  \A t \in Topology, gpu \in Gpus :
    /\ IsBestOf(t, gpu, Peers(t, gpu), best_peer(t, gpu))
    /\ best_peer(t, gpu) \in Gpus \cup {-1}
  (* The loop of the search, round by round.                                 *)
  <1>SearchUnfolds.
      ASSUME NEW t \in Topology, NEW gpu \in Gpus, NEW kinds
      PROVE  \E f : /\ f[0] = Start
                    /\ \A n \in 1..NumGpus : f[n] = Round(t[gpu], gpu, kinds, f[n - 1], n - 1)
                    /\ BestAmong(t, gpu, kinds) = f[NumGpus].best
    <2>. USE <1>SearchUnfolds
    <2> DEFINE row == t[gpu]
               Step(n, prev) == IF n \in 1..NumGpus THEN Round(row, gpu, kinds, prev, n - 1) ELSE prev
               step == [n \in Nat |-> [prev \in Candidate |-> Step(n, prev)]]
    <2>1. Start \in Candidate /\ NumGpus \in Nat
      BY NumGpusAssumption DEF Start, Candidate
    <2>2. \A n \in Nat, prev \in Candidate : Step(n, prev) \in Candidate
      <3>1. ASSUME NEW j \in Gpus PROVE row[j].bandwidth \in Int
        BY DEF Topology
      <3>2. ASSUME NEW n \in 1..NumGpus PROVE n - 1 \in Gpus
        BY NumGpusAssumption DEF Gpus
      <3>3. QED
        BY <3>1, <3>2 DEF Round, Candidate, Gpus
    <2>3. /\ step \in [Nat -> [Candidate -> Candidate]]
          /\ \A n \in Nat, prev \in Candidate : step[n][prev] = Step(n, prev)
      <3> HIDE DEF Step
      <3>1. QED
        BY <2>2, Zenon
    <2> HIDE DEF step
    <2>4. PICK f : Unrolls(f, Candidate, Start, step, NumGpus)
      BY <2>1, <2>3, Recursion, Zenon
    <2>5. ASSUME NEW n \in 1..NumGpus
          PROVE  f[n] = Round(row, gpu, kinds, f[n - 1], n - 1) /\ n \in 0..NumGpus
      <3>1. n \in Nat /\ n - 1 \in 0..NumGpus /\ f[n - 1] \in Candidate
        BY <2>1, <2>4 DEF Unrolls
      <3>2. QED
        BY <2>3, <2>4, <3>1 DEF Unrolls
    <2>6. f \in [0..NumGpus -> Candidate] /\ f[0] = Start
      BY <2>4, Zenon DEF Unrolls
    <2>7. f = [n \in 0..NumGpus |->
                 IF n = 0 THEN Start ELSE Round(row, gpu, kinds, f[n - 1], n - 1)]
      <3>1. ASSUME NEW n \in 0..NumGpus
            PROVE  f[n] = IF n = 0 THEN Start ELSE Round(row, gpu, kinds, f[n - 1], n - 1)
        <4>1. n = 0 \/ n \in 1..NumGpus
          BY <2>1
        <4>2. QED
          BY <2>5, <2>6, <4>1, Zenon
      <3>2. QED
        BY <2>6, <3>1, Zenon
    <2> DEFINE scan == CHOOSE g : g = [n \in 0..NumGpus |->
                         IF n = 0 THEN Start ELSE Round(row, gpu, kinds, g[n - 1], n - 1)]
    <2>8. scan = [n \in 0..NumGpus |->
                    IF n = 0 THEN Start ELSE Round(row, gpu, kinds, scan[n - 1], n - 1)]
      BY <2>7, Zenon
    <2>9. BestAmong(t, gpu, kinds) = scan[NumGpus].best
      BY DEF BestAmong, Start, Round
    <2> HIDE DEF scan
    <2>10. scan[0] = Start /\ \A n \in 1..NumGpus : scan[n] = Round(row, gpu, kinds, scan[n - 1], n - 1)
      <3>1. 0 \in 0..NumGpus /\ \A n \in 1..NumGpus : n \in 0..NumGpus /\ n # 0
        BY <2>1
      <3>2. ASSUME NEW n \in 0..NumGpus
            PROVE  scan[n] = IF n = 0 THEN Start ELSE Round(row, gpu, kinds, scan[n - 1], n - 1)
        BY <2>8, Zenon
      <3>3. QED
        BY <3>1, <3>2, Zenon
    <2>11. QED
      BY <2>9, <2>10, Zenon
  (* The search finds the linked peer of greatest bandwidth, the first of    *)
  (* equal ones, and -1 when there is none.                                  *)
  <1>SearchFindsBest.
      ASSUME NEW t \in Topology, NEW gpu \in Gpus, NEW kinds
      PROVE  IsBestOf(t, gpu, Linked(t, gpu, kinds, NumGpus), BestAmong(t, gpu, kinds))
    <2>. USE <1>SearchFindsBest
    <2>1. PICK f : /\ f[0] = Start
                   /\ \A n \in 1..NumGpus : f[n] = Round(t[gpu], gpu, kinds, f[n - 1], n - 1)
                   /\ BestAmong(t, gpu, kinds) = f[NumGpus].best
      BY <1>SearchUnfolds
    <2> DEFINE peers(n) == Linked(t, gpu, kinds, n)
               bw(j) == t[gpu][j].bandwidth
               Found(n) == /\ f[n].best \in Int /\ f[n].score \in Int
                           /\ peers(n) = {} => f[n].best = -1 /\ f[n].score = -1
                           /\ peers(n) # {} =>
                                /\ f[n].best \in peers(n) /\ f[n].score = bw(f[n].best)
                                /\ \A j \in peers(n) : \/ f[n].score > bw(j)
                                                       \/ f[n].score = bw(j) /\ f[n].best <= j
               S == {n \in Nat : n <= NumGpus => Found(n)}
    <2>2. NumGpus \in Nat /\ Gpus = {j \in Nat : j < NumGpus} /\ \A j \in Gpus : bw(j) \in Nat
      <3>1. NumGpus \in Nat /\ Gpus = {j \in Nat : j < NumGpus}
        BY NumGpusAssumption DEF Gpus
      <3>2. QED
        BY <3>1, Zenon DEF Topology
    <2>3. 0 \in S
      <3>1. Start.best = -1 /\ Start.score = -1 /\ peers(0) = {}
        BY <2>2 DEF Start, Linked
      <3>2. Found(0)
        BY <2>1, <3>1
      <3>3. QED
        BY <3>2, Zenon
    <2>4. ASSUME NEW n \in Nat, n \in S PROVE n + 1 \in S
      <3>1. SUFFICES ASSUME n + 1 <= NumGpus PROVE Found(n + 1)
        OBVIOUS
      <3>2. Found(n) /\ n \in Gpus /\ bw(n) \in Nat
        BY <2>2, <2>4, <3>1
      <3>3. f[n + 1] = Round(t[gpu], gpu, kinds, f[n], n)
        BY <2>1, <2>2, <3>1
      <3>4. CASE n # gpu /\ t[gpu][n].kind \in kinds
        <4>1. peers(n + 1) = peers(n) \cup {n} /\ n \notin peers(n)
          BY <2>2, <3>2, <3>4 DEF Linked
        <4>2. \A j \in peers(n) : j < n /\ j \in Nat /\ bw(j) \in Nat
          BY <2>2, Zenon DEF Linked
        <4>3. CASE bw(n) > f[n].score
          <5>1. f[n + 1].best = n /\ f[n + 1].score = bw(n)
            BY <3>3, <3>4, <4>3 DEF Round
          <5> HIDE DEF bw, peers
          <5>2. QED
            BY <3>2, <4>1, <4>2, <4>3, <5>1
        <4>4. CASE ~(bw(n) > f[n].score)
          <5>1. f[n + 1] = f[n]
            BY <3>3, <4>4, Zenon DEF Round
          <5> HIDE DEF bw, peers
          <5>2. peers(n) # {}
            BY <3>2, <4>4
          <5>3. QED
            BY <3>2, <4>1, <4>2, <4>4, <5>1, <5>2
        <4>5. QED
          BY <4>3, <4>4, Zenon
      <3>5. CASE ~(n # gpu /\ t[gpu][n].kind \in kinds)
        <4>1. peers(n + 1) = peers(n)
          BY <2>2, <3>2, <3>5 DEF Linked
        <4>2. f[n + 1] = f[n]
          BY <3>3, <3>5, Zenon DEF Round
        <4> HIDE DEF peers, bw
        <4>3. QED
          BY <3>2, <4>1, <4>2, Zenon
      <3>6. QED
        BY <3>4, <3>5, Zenon
    <2>5. Found(NumGpus)
      <3>1. Nat \subseteq S
        <4> HIDE DEF S
        <4>1. QED
          BY <2>3, <2>4, Induction, Zenon
      <3> HIDE DEF Found
      <3>2. QED
        BY <2>2, <3>1
    <2>6. QED
      BY <2>1, <2>2, <2>5, Zenon DEF IsBestOf
  <1>. SUFFICES
    ASSUME NEW t \in Topology, NEW gpu \in Gpus
    PROVE  /\ IsBestOf(t, gpu, Peers(t, gpu), best_peer(t, gpu))
           /\ best_peer(t, gpu) \in Gpus \cup {-1}
    BY Zenon
  <1>1. Peers(t, gpu) = Linked(t, gpu, LinkType \ {"NONE"}, NumGpus)
    <2>1. \A j \in Gpus : t[gpu][j].kind \in LinkType
      BY Zenon DEF Topology
    <2>2. \A j \in Gpus : j < NumGpus
      BY NumGpusAssumption DEF Gpus
    <2>3. QED
      BY <2>1, <2>2, Zenon DEF Peers, Linked
  <1>2. IsBestOf(t, gpu, Peers(t, gpu), best_peer(t, gpu))
    BY <1>1, <1>SearchFindsBest, Zenon DEF best_peer
  <1>3. QED
    BY <1>2, Zenon DEF IsBestOf, Peers

(* detect and synthetic build topologies, whatever CUDA answers.           *)
LEMMA TopologiesBuilt ==
  /\ synthetic \in Topology
  /\ \A cuda \in [Gpus -> [Gpus -> CudaAnswers]] : detect(cuda) \in Topology
  <1>1. \A kind \in LinkType, n \in Nat : Link(kind, n) \in [kind : LinkType, bandwidth : Nat]
    BY Zenon DEF Link
  <1>2. \A a \in CudaAnswers : Classify(a) \in [kind : LinkType, bandwidth : Nat]
    BY <1>1 DEF CudaAnswers, Classify, LinkType
  <1> DEFINE links == [kind : LinkType, bandwidth : Nat]
  <1>3. Link("SELF", 1000) \in links /\ Link("PCIE", 10) \in links
    BY <1>1 DEF LinkType
  <1>4. Topology = [Gpus -> [Gpus -> links]] /\ \A a \in CudaAnswers : Classify(a) \in links
    BY <1>2, Zenon DEF Topology
  <1> HIDE DEF links
  <1>5. synthetic \in Topology
    BY <1>3, <1>4 DEF synthetic
  <1>6. ASSUME NEW cuda \in [Gpus -> [Gpus -> CudaAnswers]] PROVE detect(cuda) \in Topology
    BY <1>3, <1>4 DEF detect
  <1>7. QED
    BY <1>5, <1>6, Zenon

(* What place was last given, and that it answered with its Choice. *)
PlacedSo ==
    /\ placed.home \in Gpus /\ placed.depth \in [Gpus -> Nat]
    /\ placed.gpu = Choice(placed.home, placed.depth)

PlacerInv ==
    /\ topo \in Topology
    /\ affinity \in [Clients -> Gpus \cup {-1}]
    /\ rr_counter \in Nat
    /\ placed = NotPlaced \/ PlacedSo

(* The round names a GPU, and a client's home is one.                      *)
LEMMA StepPlacerInv == PlacerInv /\ [PlacerNext]_placerVars => PlacerInv'
  <1>1. SUFFICES ASSUME PlacerInv, [PlacerNext]_placerVars PROVE PlacerInv'
    OBVIOUS
  <1>2. rr_counter % NumGpus \in Gpus
    BY <1>1, NumGpusAssumption DEF PlacerInv, Gpus
  <1>3. CASE UNCHANGED placerVars
    BY <1>1, <1>3, Zenon DEF placerVars, PlacerInv, PlacedSo, Choice
  <1>4. ASSUME NEW c \in Clients, assign_home(c) \/ release_client(c) PROVE PlacerInv'
    BY <1>1, <1>2, <1>4 DEF assign_home, release_client, PlacerInv, PlacedSo, Choice
  <1>5. ASSUME NEW c \in Clients, NEW depth \in [Gpus -> 0..MaxDepth], place(c, depth)
        PROVE  PlacerInv'
    <2> DEFINE home == IF affinity[c] = -1 THEN rr_counter % NumGpus ELSE affinity[c]
    <2>1. home \in Gpus /\ depth \in [Gpus -> Nat]
      BY <1>1, <1>2, PlacerAssumption DEF PlacerInv
    <2>2. /\ placed' = [home |-> home, depth |-> depth, gpu |-> Choice(home, depth)]
          /\ rr_counter' \in Nat /\ UNCHANGED <<topo, affinity>>
      BY <1>1, <1>5 DEF place, PlacerInv
    <2> HIDE DEF home
    <2>3. PlacedSo'
      BY <2>1, <2>2, Zenon DEF PlacedSo, Choice
    <2>4. QED
      BY <1>1, <2>2, <2>3, Zenon DEF PlacerInv
  <1>6. QED
    BY <1>1, <1>3, <1>4, <1>5, Zenon DEF PlacerNext

(* The types, and that the last answer is the Choice of its inputs, hold.  *)
LEMMA PlacerInvariant == PlacerSpec => []PlacerInv
  <1>1. PlacerInit => PlacerInv
    BY PlacerAssumption DEF PlacerInit, PlacerInv
  <1>2. QED
    BY <1>1, StepPlacerInv, PTL DEF PlacerSpec

(* For any number of GPUs and any matrix of links, the loop of best_peer   *)
(* finds the reachable peer of greatest bandwidth, the lowest index on a   *)
(* tie, and -1 exactly when no peer is reachable.                          *)
THEOREM BestPeerFoundAlways == PlacerSpec => []BestPeerIsBest
  <1>1. PlacerInv => BestPeerIsBest
    BY BestPeerFound, Zenon DEF PlacerInv, BestPeerIsBest
  <1>2. QED
    BY <1>1, PlacerInvariant, PTL

(* For any number of GPUs, queue depths, threshold and order of calls,     *)
(* work leaves its home only for a shorter queue, and tier 3 finds a least *)
(* loaded GPU: home if it is one, else the first.                          *)
THEOREM PlacedWellAlways == PlacerSpec => []PlacedWell
  <1>1. ASSUME PlacerInv, placed # NotPlaced PROVE PlacedWell
    <2> DEFINE d == placed.depth
               home == placed.home
               gpu == placed.gpu
               peer == best_peer(topo, home)
               least == {g \in Gpus : \A h \in Gpus : d[g] <= d[h]}
    <2>1. home \in Gpus /\ d \in [Gpus -> Nat] /\ gpu = Choice(home, d) /\ topo \in Topology
      BY <1>1, Zenon DEF PlacerInv, PlacedSo
    <2>2. peer \in Gpus \cup {-1} /\ Gpus \subseteq Nat /\ backlog_threshold \in Nat
      BY <2>1, BestPeerFound, NumGpusAssumption, PlacerAssumption DEF Gpus
    <2>3. /\ Scan(home, d) \in Gpus /\ \A h \in Gpus : d[Scan(home, d)] <= d[h]
          /\ Scan(home, d) # home => /\ d[Scan(home, d)] < d[home]
                                     /\ \A h \in Gpus : h < Scan(home, d) => d[Scan(home, d)] < d[h]
      BY <2>1, ScanFindsLeast, Zenon
    <2>4. gpu = IF d[home] < backlog_threshold THEN home
                ELSE IF peer >= 0 /\ d[peer] < backlog_threshold THEN peer
                ELSE Scan(home, d)
      BY <2>1, Zenon DEF Choice, below
    <2> HIDE DEF d, home, gpu, peer
    <2>5. gpu \in Gpus /\ (gpu # home => d[gpu] < d[home])
      BY <2>1, <2>2, <2>3, <2>4
    <2>6. ASSUME d[home] >= backlog_threshold, peer >= 0 => d[peer] >= backlog_threshold
          PROVE  IF home \in least THEN gpu = home ELSE gpu \in least /\ \A g \in least : gpu <= g
      <3>1. gpu = Scan(home, d)
        BY <2>1, <2>2, <2>4, <2>6
      <3>2. gpu \in least /\ \A h \in Gpus : d[h] \in Nat /\ h \in Nat
        BY <2>1, <2>2, <2>3, <3>1, Zenon
      <3>3. CASE home \in least
        BY <2>1, <2>3, <3>1, <3>2, <3>3
      <3>4. CASE home \notin least
        <4>1. gpu # home
          BY <3>2, <3>4, Zenon
        <4>2. ASSUME NEW g \in least, g < gpu PROVE FALSE
          BY <2>3, <3>1, <3>2, <4>1, <4>2
        <4>3. QED
          BY <3>2, <3>4, <4>2
      <3>5. QED
        BY <3>3, <3>4, Zenon
    <2>7. QED
      BY <2>5, <2>6, Zenon DEF PlacedWell, d, home, gpu, peer
  <1>2. PlacerInv => PlacedWell
    BY <1>1, Zenon DEF PlacedWell
  <1>3. QED
    BY <1>2, PlacerInvariant, PTL

-----------------------------------------------------------------------------
(* The WASM module manager. *)

(* The inductive invariant: exact counters make a Stopped record quiet, and *)
(* a quiet record is what release may erase without orphaning a task.       *)
IInv == TypeOK /\ ActiveTasksExact /\ TaskKeepsItsLease /\ StoppedMeansQuiet

(* Every key a request forms is a key of the table. *)
LEMMA KeyOfIdentity == ASSUME NEW id \in Identities PROVE make_key(id) \in Keys
  BY Zenon DEF Keys

(* The tasks in flight on a key are finitely many; they are none exactly   *)
(* when their number is 0.                                                 *)
LEMMA InFlightFinite ==
  ASSUME NEW k
  PROVE  /\ IsFiniteSet(InFlight(k))
         /\ Cardinality(InFlight(k)) \in Nat
         /\ Cardinality(InFlight(k)) = 0 <=> InFlight(k) = {}
  <1>1. InFlight(k) \in SUBSET Threads
    BY Zenon DEF InFlight
  <1>2. IsFiniteSet(InFlight(k))
    BY <1>1, WasmAssumption, FS_Subset, Zenon
  <1>3. QED
    BY <1>2, FS_CardinalityType, FS_EmptySet, Zenon

(* An action that leaves the task threads alone leaves the sets of tasks   *)
(* in flight alone.                                                        *)
LEMMA InFlightStable ==
  ASSUME UNCHANGED <<task_pc, task>>, NEW k
  PROVE  InFlight(k)' = InFlight(k)
  BY Zenon DEF InFlight

(* Setting the two fields the handlers write keeps a record a record. *)
LEMMA RecordUpdate ==
  ASSUME NEW r \in ModuleRecord, NEW s \in ModuleStates, NEW n \in Nat
  PROVE  /\ [r EXCEPT !.state = s, !.active_tasks = n] \in ModuleRecord
         /\ [r EXCEPT !.active_tasks = n, !.state = s] \in ModuleRecord
  BY Zenon DEF ModuleRecord

(* So does setting the state alone. *)
LEMMA StateUpdate ==
  ASSUME NEW r \in ModuleRecord, NEW s \in ModuleStates
  PROVE  [r EXCEPT !.state = s] \in ModuleRecord
  BY Zenon DEF ModuleRecord

(* Init establishes the invariant. *)
LEMMA InitIInv == SandboxInit => IInv
  <1> SUFFICES ASSUME SandboxInit PROVE IInv
    OBVIOUS
  <1>1. \A k : InFlight(k) = {}
    BY Zenon DEF SandboxInit, InFlight
  <1>2. TypeOK
    BY DEF SandboxInit, TypeOK, NoModule, NoTask, ModuleRecord, ModuleStates
  <1>3. ActiveTasksExact
    BY <1>1, FS_EmptySet, Zenon DEF SandboxInit, ActiveTasksExact, NoModule
  <1>4. TaskKeepsItsLease /\ StoppedMeansQuiet
    BY <1>1, Zenon DEF SandboxInit, TaskKeepsItsLease, StoppedMeansQuiet, NoModule
  <1>5. QED
    BY <1>2, <1>3, <1>4, Zenon DEF IInv

(* A record that is erased or created anew had no task in flight. *)
LEMMA UnregisteredIsQuiet ==
  ASSUME IInv, NEW k \in Keys, ~Registered(k)
  PROVE  InFlight(k) = {} /\ modules[k].active_tasks = 0
  <1>1. InFlight(k) = {}
    BY Zenon DEF IInv, TaskKeepsItsLease, InFlight, Registered
  <1>2. QED
    BY <1>1, FS_EmptySet, Zenon DEF IInv, ActiveTasksExact

(* prepare_module keeps the invariant.                                     *)
LEMMA PreparePreserves ==
  ASSUME IInv, NEW id \in Identities, NEW target \in TargetGpus, prepare_module(id, target)
  PROVE  IInv'
  <1> DEFINE k == make_key(id)
  <1>0. k \in Keys
    BY KeyOfIdentity, Zenon
  <1>1. \A j : InFlight(j)' = InFlight(j)
    BY InFlightStable, Zenon DEF prepare_module
  <1>2. CASE modules' = modules /\ next_lease_id' = next_lease_id
    BY <1>1, <1>2, Zenon DEF prepare_module, IInv, TypeOK, ActiveTasksExact, TaskKeepsItsLease,
       StoppedMeansQuiet
  <1>3. CASE PrepareNew(id, target)
    <2>1. ~Registered(k) /\ InFlight(k) = {}
      BY <1>0, <1>3, UnregisteredIsQuiet, Zenon DEF PrepareNew
    <2>2. PICK gpu \in AssignedGpus(target) :
             modules' = [modules EXCEPT ![k] = [state |-> "Prepared", assigned_gpu |-> gpu,
                                                lease |-> next_lease_id, active_tasks |-> 0]]
      BY <1>3, Zenon DEF PrepareNew
    <2>3. gpu \in Int
      BY WasmAssumption DEF AssignedGpus
    <2>4. TypeOK'
      BY <1>0, <1>3, <2>2, <2>3 DEF PrepareNew, prepare_module, IInv, TypeOK, ModuleRecord,
         ModuleStates
    <2>5. ActiveTasksExact'
      BY <1>0, <1>1, <2>1, <2>2, FS_EmptySet, Zenon DEF IInv, TypeOK, ActiveTasksExact
    <2>6. TaskKeepsItsLease'
      BY <1>0, <2>1, <2>2, Zenon DEF prepare_module, IInv, TypeOK, TaskKeepsItsLease, InFlight
    <2>7. StoppedMeansQuiet'
      BY <1>0, <1>1, <2>2, Zenon DEF IInv, TypeOK, StoppedMeansQuiet
    <2>8. QED
      BY <2>4, <2>5, <2>6, <2>7, Zenon DEF IInv
  <1>4. QED
    BY <1>2, <1>3, Zenon DEF prepare_module, PrepareRejected, PrepareExisting, PrepareBusy

(* drain_module keeps the invariant.                                       *)
LEMMA DrainPreserves ==
  ASSUME IInv, NEW id \in Identities, drain_module(id)
  PROVE  IInv'
  <1> DEFINE k == make_key(id)
             rec == [modules[k] EXCEPT !.state = drained(modules[k])]
  <1>0. k \in Keys
    BY KeyOfIdentity, Zenon
  <1>1. \A j : InFlight(j)' = InFlight(j)
    BY InFlightStable, Zenon DEF drain_module
  <1>2. CASE modules' = modules
    BY <1>1, <1>2, Zenon DEF drain_module, IInv, TypeOK, ActiveTasksExact, TaskKeepsItsLease,
       StoppedMeansQuiet
  <1>3. CASE modules' = [modules EXCEPT ![k] = rec]
    <2>0. rec \in ModuleRecord
      <3>1. drained(modules[k]) \in ModuleStates
        BY Zenon DEF drained, ModuleStates
      <3>2. modules[k] \in ModuleRecord
        BY <1>0, Zenon DEF IInv, TypeOK
      <3>3. QED
        BY <3>1, <3>2, StateUpdate, Zenon
    <2>1. TypeOK'
      BY <1>0, <1>3, <2>0, Zenon DEF drain_module, IInv, TypeOK
    <2>2. ActiveTasksExact'
      BY <1>0, <1>1, <1>3, Zenon DEF IInv, TypeOK, ModuleRecord, ActiveTasksExact
    <2>3. modules[k].active_tasks = 0 <=> InFlight(k) = {}
      BY <1>0, InFlightFinite, Zenon DEF IInv, ActiveTasksExact
    <2>4. TaskKeepsItsLease'
      BY <1>0, <1>3, <2>3 DEF drain_module, IInv, TypeOK, ModuleRecord, TaskKeepsItsLease, InFlight,
         drained
    <2>5. StoppedMeansQuiet'
      BY <1>0, <1>1, <1>3, <2>3 DEF IInv, TypeOK, ModuleRecord, StoppedMeansQuiet, drained
    <2>6. QED
      BY <2>1, <2>2, <2>4, <2>5, Zenon DEF IInv
  <1>4. QED
    BY <1>2, <1>3, Zenon DEF drain_module, NotFound

(* release_module keeps the invariant: it refuses while a task runs.       *)
LEMMA ReleasePreserves ==
  ASSUME IInv, NEW id \in Identities, NEW token, release_module(id, token)
  PROVE  IInv'
  <1> DEFINE k == make_key(id)
  <1>0. k \in Keys
    BY KeyOfIdentity, Zenon
  <1>1. \A j : InFlight(j)' = InFlight(j)
    BY InFlightStable, Zenon DEF release_module
  <1>2. CASE modules' = modules
    BY <1>1, <1>2, Zenon DEF release_module, IInv, TypeOK, ActiveTasksExact, TaskKeepsItsLease,
       StoppedMeansQuiet
  <1>3. CASE modules[k].active_tasks = 0 /\ modules' = [modules EXCEPT ![k] = NoModule]
    <2>1. InFlight(k) = {}
      BY <1>0, <1>3, InFlightFinite, Zenon DEF IInv, ActiveTasksExact
    <2>2. TypeOK'
      BY <1>0, <1>3 DEF release_module, IInv, TypeOK, ModuleRecord, ModuleStates, NoModule
    <2>3. ActiveTasksExact'
      BY <1>0, <1>1, <1>3, <2>1, FS_EmptySet, Zenon DEF IInv, TypeOK, ActiveTasksExact, NoModule
    <2>4. TaskKeepsItsLease'
      BY <1>0, <1>3, <2>1, Zenon DEF release_module, IInv, TypeOK, TaskKeepsItsLease, InFlight
    <2>5. StoppedMeansQuiet'
      BY <1>0, <1>1, <1>3, Zenon DEF IInv, TypeOK, StoppedMeansQuiet, NoModule
    <2>6. QED
      BY <2>2, <2>3, <2>4, <2>5, Zenon DEF IInv
  <1>4. QED
    BY <1>2, <1>3, Zenon DEF release_module, may_release, NotFound

(* The first critical section of handle_task keeps the invariant.          *)
LEMMA AdmitPreserves ==
  ASSUME IInv, NEW t \in Threads, NEW id \in Identities, AdmitTask(t, id)
  PROVE  IInv'
  <1> DEFINE k == make_key(id)
  <1>0. k \in Keys
    BY KeyOfIdentity, Zenon
  <1>1. /\ modules[k] \in ModuleRecord
        /\ modules' = [modules EXCEPT ![k] = [modules[k] EXCEPT
                        !.state = "Active", !.active_tasks = @ + 1]]
    BY <1>0, Zenon DEF AdmitTask, IInv, TypeOK, ModuleRecord
  <1>2. t \notin InFlight(k) /\ InFlight(k)' = InFlight(k) \cup {t}
    BY Zenon DEF AdmitTask, IInv, TypeOK, InFlight
  <1>3. \A j \in Keys : j # k => InFlight(j)' = InFlight(j)
    BY Zenon DEF AdmitTask, IInv, TypeOK, InFlight
  <1>4. TypeOK'
    <2>1. [modules[k] EXCEPT !.state = "Active", !.active_tasks = @ + 1] \in ModuleRecord
      <3>1. "Active" \in ModuleStates /\ modules[k].active_tasks + 1 \in Nat
        BY <1>1 DEF ModuleRecord, ModuleStates
      <3>2. QED
        BY <1>1, <3>1, RecordUpdate, Zenon
    <2>2. modules' \in [Keys -> ModuleRecord]
      BY <1>0, <1>1, <2>1, Zenon DEF IInv, TypeOK
    <2>3. task' \in [Threads -> [key : Keys \cup {<<>>}, gpu : Int, lease : Nat]]
      BY <1>0, <1>1, Zenon DEF AdmitTask, IInv, TypeOK, ModuleRecord
    <2>4. QED
      BY <1>0, <1>1, <2>2, <2>3, Zenon DEF AdmitTask, IInv, TypeOK, ModuleRecord
  <1>5. ActiveTasksExact'
    <2>1. Cardinality(InFlight(k))' = Cardinality(InFlight(k)) + 1
      BY <1>2, InFlightFinite, FS_AddElement, Zenon
    <2>2. QED
      BY <1>0, <1>1, <1>3, <2>1, Zenon DEF IInv, TypeOK, ActiveTasksExact, ModuleRecord
  <1>6. TaskKeepsItsLease'
    BY <1>0, <1>1 DEF AdmitTask, IInv, TypeOK, TaskKeepsItsLease, ModuleRecord
  <1>7. StoppedMeansQuiet'
    BY <1>0, <1>1, <1>3, Zenon DEF IInv, TypeOK, StoppedMeansQuiet, ModuleRecord
  <1>8. QED
    BY <1>4, <1>5, <1>6, <1>7, Zenon DEF IInv

(* What the second critical section of handle_task does to its record:     *)
(* the counter falls by exactly one, and a drained version that loses its  *)
(* last task stops.                                                        *)
LEMMA FinishEffect ==
  ASSUME IInv, NEW t \in Threads, FinishTask(t), NEW k, k = task[t].key
  PROVE  LET rest == modules[k].active_tasks - 1
             state == IF modules[k].state = "Draining" /\ rest = 0
                      THEN "Stopped" ELSE modules[k].state
         IN  /\ k \in Keys
             /\ modules[k] \in ModuleRecord
             /\ modules[k].state \in {"Active", "Draining"}
             /\ t \in InFlight(k)
             /\ InFlight(k)' = InFlight(k) \ {t}
             /\ \A j \in Keys : j # k => InFlight(j)' = InFlight(j)
             /\ Cardinality(InFlight(k)') = rest
             /\ rest \in Nat
             /\ modules' = [modules EXCEPT ![k] =
                              [modules[k] EXCEPT !.active_tasks = rest, !.state = state]]
  <1> DEFINE rest == modules[k].active_tasks - 1
             state == IF modules[k].state = "Draining" /\ rest = 0
                      THEN "Stopped" ELSE modules[k].state
  <1>1. k \in Keys /\ modules[k] \in ModuleRecord
    BY Zenon DEF FinishTask, IInv, TypeOK
  <1>2. modules[k].state \in {"Active", "Draining"}
    BY Zenon DEF FinishTask, IInv, TaskKeepsItsLease
  <1>3. t \in InFlight(k)
    BY Zenon DEF FinishTask, InFlight
  <1>4. InFlight(k)' = InFlight(k) \ {t}
    BY Zenon DEF FinishTask, IInv, TypeOK, InFlight
  <1>5. \A j \in Keys : j # k => InFlight(j)' = InFlight(j)
    BY Zenon DEF FinishTask, IInv, TypeOK, InFlight
  <1>6. Cardinality(InFlight(k)') = Cardinality(InFlight(k)) - 1
    <2>1. IsFiniteSet(InFlight(k))
      BY InFlightFinite, Zenon
    <2>2. QED
      BY <1>3, <1>4, <2>1, FS_RemoveElement, ZenonT(60)
  <1>7. modules[k].active_tasks = Cardinality(InFlight(k)) /\ modules[k].active_tasks # 0
    BY <1>1, <1>3, InFlightFinite, Zenon DEF IInv, ActiveTasksExact
  <1>8. rest \in Nat /\ modules[k].active_tasks > 0
    BY <1>1, <1>7 DEF ModuleRecord
  <1>9. modules' = [modules EXCEPT ![k] =
                      [modules[k] EXCEPT !.active_tasks = rest, !.state = state]]
    BY <1>1, <1>2, <1>8, Zenon DEF FinishTask, finished, Registered, ModuleRecord
  <1>10. QED
    BY <1>1, <1>2, <1>3, <1>4, <1>5, <1>6, <1>7, <1>8, <1>9, Zenon

(* The second critical section of handle_task keeps the invariant.         *)
LEMMA FinishPreserves ==
  ASSUME IInv, NEW t \in Threads, FinishTask(t)
  PROVE  IInv'
  <1>0. PICK k : k = task[t].key
    OBVIOUS
  <1> DEFINE rest == modules[k].active_tasks - 1
             state == IF modules[k].state = "Draining" /\ rest = 0
                      THEN "Stopped" ELSE modules[k].state
             rec == [modules[k] EXCEPT !.active_tasks = rest, !.state = state]
  <1>1. /\ k \in Keys
        /\ modules[k] \in ModuleRecord
        /\ modules[k].state \in {"Active", "Draining"}
        /\ t \in InFlight(k)
        /\ InFlight(k)' = InFlight(k) \ {t}
        /\ \A j \in Keys : j # k => InFlight(j)' = InFlight(j)
        /\ Cardinality(InFlight(k)') = rest
        /\ rest \in Nat
        /\ modules' = [modules EXCEPT ![k] = rec]
    BY <1>0, FinishEffect, Zenon
  <1>2. state \in ModuleStates
    BY <1>1, Zenon DEF ModuleStates
  <1> HIDE DEF rest
  <1>3. rec \in ModuleRecord /\ rec.state = state /\ rec.active_tasks = rest
    BY <1>1, <1>2, RecordUpdate, Zenon DEF ModuleRecord
  <1>4. rec.lease = modules[k].lease /\ rec.assigned_gpu = modules[k].assigned_gpu
    BY <1>1, Zenon DEF ModuleRecord
  <1>5. rest = 0 <=> InFlight(k)' = {}
    BY <1>1, InFlightFinite, FS_EmptySet, FS_RemoveElement, Zenon
  <1> HIDE DEF rec
  <1>6. TypeOK'
    <2>1. modules' \in [Keys -> ModuleRecord]
      BY <1>1, <1>3, Zenon DEF IInv, TypeOK
    <2>2. task' \in [Threads -> [key : Keys \cup {<<>>}, gpu : Int, lease : Nat]]
      BY DEF FinishTask, IInv, TypeOK, NoTask
    <2>3. QED
      BY <2>1, <2>2, Zenon DEF FinishTask, IInv, TypeOK, NoTask
  <1>7. ActiveTasksExact'
    BY <1>1, <1>3, Zenon DEF IInv, TypeOK, ActiveTasksExact
  <1>8. TaskKeepsItsLease'
    <2> SUFFICES ASSUME NEW u \in Threads, task_pc'[u] = "compute"
                 PROVE  LET r == modules'[task'[u].key] IN
                        /\ r.state \in {"Active", "Draining"}
                        /\ r.lease = task'[u].lease
                        /\ r.assigned_gpu = task'[u].gpu
      BY Zenon DEF TaskKeepsItsLease
    <2>1. u # t /\ task'[u] = task[u] /\ task_pc[u] = "compute"
      BY Zenon DEF FinishTask, IInv, TypeOK
    <2>2. CASE task[u].key = k
      <3>1. u \in InFlight(k)'
        BY <1>1, <2>1, <2>2, Zenon DEF InFlight
      <3>2. rest # 0
        BY <1>5, <3>1, Zenon
      <3>3. QED
        BY <1>1, <1>3, <1>4, <2>1, <2>2, <3>2, Zenon DEF IInv, TypeOK, TaskKeepsItsLease
    <2>3. CASE task[u].key # k
      BY <1>1, <2>1, <2>3, Zenon DEF IInv, TypeOK, TaskKeepsItsLease
    <2>4. QED
      BY <2>2, <2>3, Zenon
  <1>9. StoppedMeansQuiet'
    BY <1>1, <1>3, <1>5, Zenon DEF IInv, TypeOK, StoppedMeansQuiet
  <1>10. QED
    BY <1>6, <1>7, <1>8, <1>9, Zenon DEF IInv

(* The invariant survives every step. *)
LEMMA NextIInv == IInv /\ [SandboxNext]_sandboxVars => IInv'
  <1> SUFFICES ASSUME IInv, [SandboxNext]_sandboxVars PROVE IInv'
    OBVIOUS
  <1>1. ASSUME UNCHANGED <<modules, next_lease_id, task_pc, task>>,
               force_cpu' \in BOOLEAN, has_selector' \in BOOLEAN
        PROVE  IInv'
    BY <1>1 DEF IInv, TypeOK, ActiveTasksExact, TaskKeepsItsLease, StoppedMeansQuiet, InFlight
  <1>2. CASE UNCHANGED sandboxVars
    BY <1>1, <1>2, Zenon DEF sandboxVars, IInv, TypeOK
  <1>3. CASE \E b \in BOOLEAN : SetForceCpu(b)
    BY <1>1, <1>3, Zenon DEF SetForceCpu, IInv, TypeOK
  <1>3a. CASE \E b \in BOOLEAN : SetGpuSelector(b)
    BY <1>1, <1>3a, Zenon DEF SetGpuSelector, IInv, TypeOK
  <1>4. CASE \E id \in Identities : query_module(id)
    BY <1>1, <1>4, Zenon DEF query_module, NotFound, IInv, TypeOK
  <1>5. CASE \E t \in Threads, id \in Identities : RefuseTask(t, id)
    BY <1>1, <1>5, Zenon DEF RefuseTask, NotFound, IInv, TypeOK
  <1>6. QED
    BY <1>2, <1>3, <1>3a, <1>4, <1>5, PreparePreserves, DrainPreserves, ReleasePreserves,
       AdmitPreserves, FinishPreserves, Zenon DEF SandboxNext

(* The manager's state is well typed, its counters are exact, a task keeps *)
(* its record and a stopped version is quiet, in every reachable state.    *)
THEOREM SandboxInvariant == SandboxSpec => []IInv
  BY InitIInv, NextIInv, PTL DEF SandboxSpec

(* handle_task's counters: exact for any number of threads. *)
THEOREM CountersExact == SandboxSpec => []ActiveTasksExact
  <1>1. IInv => ActiveTasksExact
    BY Zenon DEF IInv
  <1>2. QED
    BY <1>1, SandboxInvariant, PTL

(* handle_task's second lookup always finds the record that admitted it. *)
THEOREM LeaseKept == SandboxSpec => []TaskKeepsItsLease
  <1>1. IInv => TaskKeepsItsLease
    BY Zenon DEF IInv
  <1>2. QED
    BY <1>1, SandboxInvariant, PTL

(* drain_module and handle_task agree on when a version has stopped. *)
THEOREM QuietWhenStopped == SandboxSpec => []StoppedMeansQuiet
  <1>1. IInv => StoppedMeansQuiet
    BY Zenon DEF IInv
  <1>2. QED
    BY <1>1, SandboxInvariant, PTL

(* prepare_module and handle_task never take a drained version back.  The  *)
(* only step that leaves Draining or Stopped for another state is a        *)
(* release, which leaves no record at all.                                 *)
THEOREM NeverRevived == SandboxSpec => NoRevival
  <1> DEFINE Step == \A k \in Keys :
               modules[k].state \in {"Draining", "Stopped"} =>
               modules'[k].state \notin {"Prepared", "Active"}
  <1>1. IInv /\ [SandboxNext]_sandboxVars => Step
    <2> SUFFICES ASSUME IInv, [SandboxNext]_sandboxVars, NEW k \in Keys,
                        modules[k].state \in {"Draining", "Stopped"}
                 PROVE  modules'[k].state \notin {"Prepared", "Active"}
      OBVIOUS
    <2>0. modules \in [Keys -> ModuleRecord]
      BY Zenon DEF IInv, TypeOK
    <2>1. CASE modules' = modules
      BY <2>1, Zenon
    <2>2. ASSUME NEW id \in Identities, NEW target \in TargetGpus, PrepareNew(id, target)
          PROVE  modules'[k].state \notin {"Prepared", "Active"}
      BY <2>0, <2>2, KeyOfIdentity, Zenon DEF PrepareNew, Registered
    <2>3. ASSUME NEW id \in Identities, drain_module(id)
          PROVE  modules'[k].state \notin {"Prepared", "Active"}
      BY <2>0, <2>3, KeyOfIdentity, Zenon DEF drain_module, drained, NotFound, ModuleRecord
    <2>4. ASSUME NEW id \in Identities, NEW token, release_module(id, token)
          PROVE  modules'[k].state \notin {"Prepared", "Active"}
      BY <2>0, <2>4, KeyOfIdentity DEF release_module, NotFound, NoModule
    <2>5. ASSUME NEW t \in Threads, NEW id \in Identities, AdmitTask(t, id)
          PROVE  modules'[k].state \notin {"Prepared", "Active"}
      <3>1. k # make_key(id)
        BY <2>5, Zenon DEF AdmitTask, takes_tasks
      <3>2. QED
        BY <2>0, <2>5, <3>1, KeyOfIdentity, Zenon DEF AdmitTask
    <2>6. ASSUME NEW t \in Threads, FinishTask(t)
          PROVE  modules'[k].state \notin {"Prepared", "Active"}
      <3>1. PICK j : j = task[t].key
        OBVIOUS
      <3>2. CASE j = k
        <4>1. modules'[k].state \in {"Stopped", modules[k].state}
          <5> DEFINE rest == modules[k].active_tasks - 1
                     state == IF modules[k].state = "Draining" /\ rest = 0
                              THEN "Stopped" ELSE modules[k].state
          <5>0. k = task[t].key
            BY <3>1, <3>2, Zenon
          <5>1. modules' = [modules EXCEPT ![k] =
                              [modules[k] EXCEPT !.active_tasks = rest, !.state = state]]
            BY <2>6, <5>0, FinishEffect, ZenonT(60)
          <5>2. state \in {"Stopped", modules[k].state}
            OBVIOUS
          <5> HIDE DEF rest, state
          <5>3. QED
            BY <2>0, <5>1, <5>2, Zenon DEF ModuleRecord
        <4>2. QED
          BY <4>1, Zenon
      <3>3. CASE j # k
        BY <2>0, <2>6, <3>1, <3>3, FinishEffect, Zenon
      <3>4. QED
        BY <3>2, <3>3, Zenon
    <2>7. QED
      BY <2>1, <2>2, <2>3, <2>4, <2>5, <2>6, Zenon DEF SandboxNext, sandboxVars, SetForceCpu, SetGpuSelector,
         query_module, RefuseTask, NotFound, prepare_module, PrepareRejected, PrepareExisting, PrepareBusy
  <1>2. IInv /\ [SandboxNext]_sandboxVars =>
          [\A k \in Keys :
              /\ modules[k].state \in {"Draining", "Stopped"}
              /\ modules'[k].state \in {"Prepared", "Active"}
              => modules'[k].lease # modules[k].lease]_sandboxVars
    BY <1>1, Zenon
  <1>3. QED
    BY <1>2, SandboxInvariant, PTL DEF SandboxSpec, NoRevival

(* The refinement mapping, as functions of the key. *)
LEMMA MappedStable ==
  ASSUME \A k \in Keys : modules'[k].state = modules[k].state, UNCHANGED <<task_pc, task>>
  PROVE  UNCHANGED Lease!leaseVars
  <1>1. \A k \in Keys : InFlight(k)' = InFlight(k)
    BY InFlightStable, Zenon
  <1>2. QED
    BY <1>1, Zenon DEF Lease!leaseVars

(* Every step of the manager is a step of its contract, or changes nothing *)
(* the contract speaks of.                                                 *)
THEOREM ImplementsLease == SandboxSpec => LeaseContract
  <1>1. SandboxInit => Lease!LeaseInit
    <2> SUFFICES ASSUME SandboxInit PROVE Lease!LeaseInit
      OBVIOUS
    <2>1. \A k \in Keys : PhaseOf(modules[k].state) = "absent" /\ InFlight(k) = {}
      BY Zenon DEF SandboxInit, NoModule, PhaseOf, InFlight
    <2>2. QED
      BY <2>1, Zenon DEF Lease!LeaseInit
  <1>2. IInv /\ IInv' /\ [SandboxNext]_sandboxVars => [Lease!LeaseNext]_(Lease!leaseVars)
    <2> SUFFICES ASSUME IInv, IInv', [SandboxNext]_sandboxVars
                 PROVE  Lease!LeaseNext \/ UNCHANGED Lease!leaseVars
      OBVIOUS
    <2>0. modules \in [Keys -> ModuleRecord]
      BY Zenon DEF IInv, TypeOK
    <2>1. CASE UNCHANGED <<modules, task_pc, task>>
      BY <2>1, MappedStable, Zenon
    <2>2. ASSUME NEW id \in Identities, NEW target \in TargetGpus,
                 PrepareNew(id, target), UNCHANGED <<task_pc, task>>
          PROVE  Lease!LeaseNext
      <3>1. \A j : InFlight(j)' = InFlight(j)
        BY <2>2, InFlightStable, Zenon
      <3>2. Lease!Open(make_key(id))
        BY <2>0, <2>2, <3>1, KeyOfIdentity DEF Lease!Open, PrepareNew, Registered, PhaseOf
      <3>3. QED
        BY <3>2, KeyOfIdentity, Zenon DEF Lease!LeaseNext
    <2>3. ASSUME NEW id \in Identities, drain_module(id), Registered(make_key(id))
          PROVE  Lease!LeaseNext
      <3> DEFINE k == make_key(id)
      <3>1. \A j : InFlight(j)' = InFlight(j)
        BY <2>3, InFlightStable, Zenon DEF drain_module
      <3>2. modules[k].active_tasks = 0 <=> InFlight(k) = {}
        BY KeyOfIdentity, InFlightFinite, Zenon DEF IInv, ActiveTasksExact
      <3>3. /\ PhaseOf(modules[k].state) # "absent"
            /\ PhaseOf("Stopped") = "closed"
            /\ PhaseOf("Draining") = "closing"
        BY <2>0, <2>3, KeyOfIdentity, Zenon DEF PhaseOf, Registered, ModuleRecord, ModuleStates
      <3>4. modules' = [modules EXCEPT ![k] = [modules[k] EXCEPT
                          !.state = IF InFlight(k) = {} THEN "Stopped" ELSE "Draining"]]
        BY <2>3, <3>2, Zenon DEF drain_module, drained, NotFound
      <3>5. \A j \in Keys : PhaseOf(modules[j].state)' =
               IF j = k THEN IF InFlight(k) = {} THEN "closed" ELSE "closing"
                        ELSE PhaseOf(modules[j].state)
        BY <2>0, <3>3, <3>4, KeyOfIdentity, Zenon DEF ModuleRecord
      <3>6. Lease!Close(k)
        BY <3>1, <3>3, <3>5, KeyOfIdentity, Zenon DEF Lease!Close
      <3>7. QED
        BY <3>6, KeyOfIdentity, Zenon DEF Lease!LeaseNext
    <2>4. ASSUME NEW id \in Identities, NEW token, release_module(id, token)
          PROVE  Lease!LeaseNext \/ UNCHANGED Lease!leaseVars
      <3> DEFINE k == make_key(id)
      <3>1. \A j : InFlight(j)' = InFlight(j)
        BY <2>4, InFlightStable, Zenon DEF release_module
      <3>2. CASE modules' = modules
        BY <2>4, <3>2, MappedStable, Zenon DEF release_module
      <3>3. CASE /\ Registered(k) /\ modules[k].active_tasks = 0
                 /\ modules' = [modules EXCEPT ![k] = NoModule]
        <4>1. InFlight(k) = {}
          BY <3>3, KeyOfIdentity, InFlightFinite, Zenon DEF IInv, ActiveTasksExact
        <4>2. Lease!Remove(k)
          BY <2>0, <3>1, <3>3, <4>1, KeyOfIdentity, Zenon DEF Lease!Remove, Registered, PhaseOf,
             NoModule, ModuleRecord, ModuleStates
        <4>3. QED
          BY <4>2, KeyOfIdentity, Zenon DEF Lease!LeaseNext
      <3>4. QED
        BY <2>4, <3>2, <3>3, Zenon DEF release_module, may_release, NotFound
    <2>5. ASSUME NEW t \in Threads, NEW id \in Identities, AdmitTask(t, id)
          PROVE  Lease!LeaseNext
      <3> DEFINE k == make_key(id)
      <3>1. InFlight(k)' = InFlight(k) \cup {t}
        BY <2>5 DEF AdmitTask, IInv, TypeOK, InFlight
      <3>2. \A j \in Keys : j # k => InFlight(j)' = InFlight(j)
        BY <2>5, Zenon DEF AdmitTask, IInv, TypeOK, InFlight
      <3>3. \A j \in Keys : t \notin InFlight(j)
        BY <2>5, Zenon DEF AdmitTask, InFlight
      <3>4. PhaseOf(modules[k].state) = "open" /\ PhaseOf("Active") = "open"
        BY <2>5, Zenon DEF AdmitTask, takes_tasks, PhaseOf
      <3>5. \A j \in Keys : PhaseOf(modules[j].state)' = PhaseOf(modules[j].state)
        BY <2>0, <2>5, <3>4, KeyOfIdentity, Zenon DEF AdmitTask, ModuleRecord
      <3>6. Lease!Enter(k, t)
        BY <3>1, <3>2, <3>3, <3>4, <3>5, KeyOfIdentity, Zenon DEF Lease!Enter
      <3>7. QED
        BY <3>6, KeyOfIdentity, Zenon DEF Lease!LeaseNext
    <2>6. ASSUME NEW t \in Threads, FinishTask(t)
          PROVE  Lease!LeaseNext
      <3>0. PICK k : k = task[t].key
        OBVIOUS
      <3> DEFINE rest == modules[k].active_tasks - 1
                 state == IF modules[k].state = "Draining" /\ rest = 0
                          THEN "Stopped" ELSE modules[k].state
      <3>1. /\ k \in Keys
            /\ modules[k].state \in {"Active", "Draining"}
            /\ t \in InFlight(k)
            /\ InFlight(k)' = InFlight(k) \ {t}
            /\ \A j \in Keys : j # k => InFlight(j)' = InFlight(j)
            /\ Cardinality(InFlight(k)') = rest
            /\ modules' = [modules EXCEPT ![k] =
                             [modules[k] EXCEPT !.active_tasks = rest, !.state = state]]
        BY <2>6, <3>0, FinishEffect, Zenon
      <3>2. rest = 0 <=> InFlight(k) = {t}
        <4>1. IsFiniteSet(InFlight(k)')
          BY <3>1, InFlightFinite, FS_RemoveElement
        <4>2. QED
          BY <3>1, <4>1, FS_EmptySet, Zenon
      <3>3. PhaseOf(state) = IF PhaseOf(modules[k].state) = "closing" /\ InFlight(k) = {t}
                             THEN "closed" ELSE PhaseOf(modules[k].state)
        BY <3>1, <3>2, Zenon DEF PhaseOf
      <3> HIDE DEF rest, state
      <3>4. modules'[k].state = state
        BY <2>0, <3>1, Zenon DEF ModuleRecord
      <3>5. \A j \in Keys : j # k => modules'[j].state = modules[j].state
        BY <2>0, <3>1, Zenon
      <3>6. \A j \in Keys : PhaseOf(modules[j].state)' =
               IF j = k THEN IF PhaseOf(modules[k].state) = "closing" /\ InFlight(k) = {t}
                             THEN "closed" ELSE PhaseOf(modules[k].state)
                        ELSE PhaseOf(modules[j].state)
        BY <3>3, <3>4, <3>5, Zenon
      <3>7. Lease!Leave(k, t)
        BY <3>1, <3>6, Zenon DEF Lease!Leave
      <3>8. QED
        BY <3>1, <3>7, Zenon DEF Lease!LeaseNext
    <2>7. QED
      <3>1. CASE UNCHANGED sandboxVars \/ \E b \in BOOLEAN : SetForceCpu(b) \/ SetGpuSelector(b)
        BY <2>1, <3>1, Zenon DEF sandboxVars, SetForceCpu, SetGpuSelector
      <3>2. CASE \E id \in Identities, target \in TargetGpus : prepare_module(id, target)
        BY <2>1, <2>2, <3>2, Zenon DEF prepare_module, PrepareRejected, PrepareExisting,
           PrepareBusy
      <3>3. CASE \E id \in Identities : drain_module(id)
        BY <2>1, <2>3, <3>3, Zenon DEF drain_module, NotFound
      <3>4. CASE \E id \in Identities : query_module(id)
        BY <2>1, <3>4, Zenon DEF query_module, NotFound
      <3>5. CASE \E t \in Threads, id \in Identities : RefuseTask(t, id)
        BY <2>1, <3>5, Zenon DEF RefuseTask, NotFound
      <3>6. QED
        BY <2>4, <2>5, <2>6, <3>1, <3>2, <3>3, <3>4, <3>5, Zenon DEF SandboxNext
  <1>3. QED
    BY <1>1, <1>2, SandboxInvariant, PTL DEF SandboxSpec, LeaseContract, Lease!LeaseSpec
-----------------------------------------------------------------------------
(* A session of the broker. *)

Frame == [id : Requests, kind : FrameKinds]

Wire == [id : Requests, what : {"response", "reject", "error"}, part : {"whole", "partial"}]

ReaderLabels ==
    {"top", "read", "decode", "refuse", "refusing", "disable", "erase", "shutdown", "join",
     "close", "ended"}

ResponderLabels == {"none", "handling", "ready", "writing", "exiting", "done"}

(* The reader holds a frame it has read and not yet answered or passed on. *)
Busy == pc \in {"decode", "refuse", "refusing"}

SessionTypeOK ==
    /\ inbox \in Seq(Frame)
    /\ unsent \in SUBSET Requests
    /\ pc \in ReaderLabels
    /\ Busy => frame \in Frame
    /\ pending \in SUBSET Requests
    /\ responder \in [Requests -> ResponderLabels]
    /\ wire \in Seq(Wire)

(* Threads and the descriptor: a live responder is one the reader will     *)
(* join, the reader closes after it has joined them all, and the socket    *)
(* leaves client_sockets_ before that.                                     *)
Joined ==
    /\ \A r \in Requests : Alive(r) => r \in pending
    /\ Cardinality(pending) <= max_inflight_per_client
    /\ pc \in {"close", "ended"} => pending = {}
    /\ pc \in {"shutdown", "join", "close", "ended"} => ~registered
    /\ socket = "closed" => pc = "ended"

(* Who holds write_mutex is who writes. *)
Locked ==
    /\ \A r \in Requests : responder[r] = "writing" <=> write_mutex = r
    /\ pc = "refusing" <=> write_mutex = "reader"

(* A request is in one place: with the client, on its way, with the        *)
(* reader, or with its responder; and what has been written of it is       *)
(* written by the last of these to hold it, on its way out.                *)
OnePlace ==
    /\ \A i \in DOMAIN inbox :
         /\ inbox[i].id \notin unsent
         /\ responder[inbox[i].id] = "none"
         /\ Busy => inbox[i].id # frame.id
         /\ \A j \in DOMAIN inbox : inbox[i].id = inbox[j].id => i = j
    /\ Busy => frame.id \notin unsent /\ responder[frame.id] = "none"
    /\ \A r \in unsent : responder[r] = "none"
    /\ \A i \in DOMAIN wire :
         /\ wire[i].id \notin unsent
         /\ responder[wire[i].id] \in {"none", "exiting", "done"}
         /\ Busy => wire[i].id # frame.id
         /\ \A j \in DOMAIN inbox : inbox[j].id # wire[i].id

Inv == SessionTypeOK /\ Joined /\ Locked /\ OnePlace /\ OneReplyEach
-----------------------------------------------------------------------------
(* The responders of a session are finitely many.                          *)
LEMMA PendingFinite ==
  ASSUME SessionTypeOK
  PROVE  IsFiniteSet(pending) /\ Cardinality(pending) \in Nat
  BY SessionAssumption, FS_Subset, FS_CardinalityType, Zenon DEF SessionTypeOK

(* What a write leaves on the wire: nothing more, or one more frame. *)
LEMMA WireAfter ==
  ASSUME SessionTypeOK, NEW id \in Requests, NEW what \in {"response", "reject", "error"},
         WriteFrame(id, what)
  PROVE  \/ wire' = wire
         \/ /\ wire' \in Seq(Wire) /\ Len(wire') = Len(wire) + 1
            /\ \A i \in DOMAIN wire : i \in DOMAIN wire' /\ wire'[i] = wire[i]
            /\ \A i \in DOMAIN wire' : i \in DOMAIN wire \/ i = Len(wire) + 1
            /\ wire'[Len(wire) + 1].id = id
  <1>1. CASE wire' = wire
    BY <1>1, Zenon
  <1>2. ASSUME NEW part \in {"whole", "partial"}, wire' = Append(wire, Written(id, what, part))
        PROVE  /\ wire' \in Seq(Wire) /\ Len(wire') = Len(wire) + 1
               /\ \A i \in DOMAIN wire : i \in DOMAIN wire' /\ wire'[i] = wire[i]
               /\ \A i \in DOMAIN wire' : i \in DOMAIN wire \/ i = Len(wire) + 1
               /\ wire'[Len(wire) + 1].id = id
    <2>1. Written(id, what, part) \in Wire /\ Written(id, what, part).id = id
      BY Zenon DEF Written, Wire
    <2>2. wire \in Seq(Wire)
      BY Zenon DEF SessionTypeOK
    <2> HIDE DEF Wire
    <2>3. QED
      BY <1>2, <2>1, <2>2
  <1>3. QED
    BY <1>1, <1>2, Zenon DEF WriteFrame

(* A session that has just begun satisfies the invariant.                  *)
LEMMA InitInv == Init => Inv
  <1> SUFFICES ASSUME Init PROVE Inv
    OBVIOUS
  <1>1. SessionTypeOK
    <2>1. \A S : <<>> \in Seq(S)
      OBVIOUS
    <2>2. inbox \in Seq(Frame) /\ wire \in Seq(Wire)
      BY <2>1, Zenon DEF Init
    <2>3. QED
      BY <2>2, Zenon DEF Init, SessionTypeOK, Busy, ReaderLabels, ResponderLabels
  <1>2. Joined
    <2>1. Cardinality(pending) = 0
      BY FS_EmptySet, Zenon DEF Init
    <2>2. \A r \in Requests : ~Alive(r)
      BY Zenon DEF Init, Alive
    <2>3. pc = "top" /\ socket = "open"
      BY Zenon DEF Init
    <2>4. 0 <= max_inflight_per_client
      BY SessionAssumption
    <2>5. QED
      BY <2>1, <2>2, <2>3, <2>4, Zenon DEF Joined
  <1>3. Locked
    BY SessionAssumption, Zenon DEF Init, Locked
  <1>4. OnePlace /\ OneReplyEach
    <2>1. DOMAIN inbox = {} /\ DOMAIN wire = {}
      <3>1. inbox = <<>> /\ wire = <<>>
        BY Zenon DEF Init
      <3>2. QED
        BY <3>1
    <2>2. ~Busy /\ \A r \in unsent : responder[r] = "none"
      BY Zenon DEF Init, Busy
    <2>3. QED
      BY <2>1, <2>2, Zenon DEF OnePlace, OneReplyEach
  <1>5. QED
    BY <1>1, <1>2, <1>3, <1>4, Zenon DEF Inv

(* Every step keeps the types.                                             *)
LEMMA StepTypeOK == SessionTypeOK /\ [Next]_vars => SessionTypeOK'
  <1> SUFFICES ASSUME SessionTypeOK, [Next]_vars PROVE SessionTypeOK'
    OBVIOUS
  <1> USE DEF SessionTypeOK, Busy, ReaderLabels, ResponderLabels
  <1>1. CASE ClientSend
    BY <1>1 DEF ClientSend, Frame
  <1>2. CASE ClientClose \/ StopFlag \/ StopShutdown
    BY <1>2, Zenon DEF ClientClose, StopFlag, StopShutdown, net
  <1>3. CASE LoopTop \/ ReadEnds \/ ReadTimesOut
    BY <1>3, Zenon DEF LoopTop, ReadEnds, ReadTimesOut, net
  <1>4. CASE ReadFrame
    BY <1>4 DEF ReadFrame
  <1>5. CASE Decode
    BY <1>5 DEF Decode, net, Frame
  <1>6. CASE RefuseLock
    BY <1>6, Zenon DEF RefuseLock, net
  <1>7. CASE RefuseWrite
    <2>1. frame.id \in Requests
      BY <1>7, Zenon DEF RefuseWrite, Frame
    <2>2. wire' \in Seq(Wire)
      BY <1>7, <2>1, WireAfter, Zenon DEF RefuseWrite
    <2>3. QED
      BY <1>7, <2>2, Zenon DEF RefuseWrite, net
  <1>8. ASSUME NEW r \in Requests, Handled(r) \/ WriteLock(r) \/ SetDone(r) PROVE SessionTypeOK'
    BY <1>8, Zenon DEF Handled, WriteLock, SetDone, net
  <1>9. ASSUME NEW r \in Requests, Write(r) PROVE SessionTypeOK'
    <2>1. wire' \in Seq(Wire)
      BY <1>9, WireAfter, Zenon DEF Write
    <2>2. QED
      BY <1>9, <2>1, Zenon DEF Write, net, after_write
  <1>10. CASE Disable \/ Erase \/ Shutdown \/ Join \/ Close
    BY <1>10, Zenon DEF Disable, Erase, Shutdown, Join, Close, net
  <1>11. CASE UNCHANGED vars
    BY <1>11, Zenon DEF vars, net
  <1>12. QED
    BY <1>1, <1>2, <1>3, <1>4, <1>5, <1>6, <1>7, <1>8, <1>9, <1>10, <1>11, Zenon DEF Next,
       Reader, Respond, Ended
-----------------------------------------------------------------------------
(* The reader joins every live responder before it closes the socket.      *)
LEMMA StepJoined == SessionTypeOK /\ Joined /\ [Next]_vars => Joined'
  <1> SUFFICES ASSUME SessionTypeOK, Joined, [Next]_vars PROVE Joined'
    OBVIOUS
  <1> USE DEF SessionTypeOK, Joined, Alive
  <1>1. CASE ClientSend \/ ClientClose \/ StopFlag \/ StopShutdown
    BY <1>1 DEF ClientSend, ClientClose, StopFlag, StopShutdown, server
  <1>2. CASE LoopTop
    <2>1. pending' \subseteq pending /\ \A r \in pending : r \in pending' \/ responder[r] = "done"
      BY <1>2, Zenon DEF LoopTop
    <2>2. Cardinality(pending') <= max_inflight_per_client
      BY <2>1, PendingFinite, FS_Subset, FS_CardinalityType, SessionAssumption
    <2>3. QED
      BY <1>2, <2>1, <2>2, Zenon DEF LoopTop, server
  <1>3. CASE ReadFrame \/ ReadEnds \/ ReadTimesOut \/ RefuseLock \/ RefuseWrite
    BY <1>3, Zenon DEF ReadFrame, ReadEnds, ReadTimesOut, RefuseLock, RefuseWrite, server
  <1>4. CASE Decode
    <2>1. CASE frame.kind = "request" /\ below_cap
      <3>1. /\ pc = "decode" /\ pc' = "top" /\ UNCHANGED <<registered, socket>>
            /\ responder' = [responder EXCEPT ![frame.id] = "handling"]
            /\ pending' = pending \cup {frame.id}
        BY <1>4, <2>1, Zenon DEF Decode, server
      <3>2. Cardinality(pending) < max_inflight_per_client
        BY <2>1, Zenon DEF below_cap
      <3>3. \/ Cardinality(pending') = Cardinality(pending)
            \/ Cardinality(pending') = Cardinality(pending) + 1
        BY <3>1, PendingFinite, FS_AddElement, Zenon
      <3>4. Cardinality(pending') <= max_inflight_per_client
        BY <3>2, <3>3, PendingFinite, SessionAssumption
      <3>5. QED
        BY <3>1, <3>4, Zenon
    <2>2. CASE ~(frame.kind = "request" /\ below_cap)
      BY <1>4, <2>2, Zenon DEF Decode, server
    <2>3. QED
      BY <2>1, <2>2, Zenon
  <1>5. ASSUME NEW r \in Requests, Respond(r) PROVE Joined'
    BY <1>5 DEF Respond, Handled, WriteLock, Write, SetDone, server, after_write
  <1>6. CASE Disable \/ Erase \/ Shutdown \/ Close
    BY <1>6 DEF Disable, Erase, Shutdown, Close, server
  <1>7. CASE Join
    <2>1. Cardinality(pending') = 0 /\ pending' = {}
      BY <1>7, FS_EmptySet, Zenon DEF Join
    <2>2. \A r \in Requests : ~Alive(r)'
      BY <1>7, Zenon DEF Join, all_joined
    <2>3. 0 <= max_inflight_per_client
      BY SessionAssumption
    <2>4. QED
      BY <1>7, <2>1, <2>2, <2>3, Zenon DEF Join, server
  <1>8. CASE UNCHANGED vars
    BY <1>8, Zenon DEF vars, server
  <1>9. QED
    BY <1>1, <1>2, <1>3, <1>4, <1>5, <1>6, <1>7, <1>8, Zenon DEF Next, Reader, Ended

(* write_mutex is held by exactly the thread that writes.                  *)
LEMMA StepLocked == SessionTypeOK /\ Locked /\ OnePlace /\ [Next]_vars => Locked'
  <1> SUFFICES ASSUME SessionTypeOK, Locked, OnePlace, [Next]_vars PROVE Locked'
    OBVIOUS
  <1>0. NoOne \notin Requests /\ "reader" \notin Requests /\ NoOne # "reader"
    BY SessionAssumption, Zenon
  <1> USE DEF SessionTypeOK, Locked
  <1>1. CASE ClientSend \/ ClientClose \/ StopFlag \/ StopShutdown
    BY <1>1, Zenon DEF ClientSend, ClientClose, StopFlag, StopShutdown
  <1>2. CASE LoopTop \/ ReadFrame \/ ReadEnds \/ ReadTimesOut
    BY <1>2, Zenon DEF LoopTop, ReadFrame, ReadEnds, ReadTimesOut
  <1>3. CASE Decode
    <2>1. responder[frame.id] = "none"
      BY <1>3, Zenon DEF Decode, OnePlace, Busy
    <2>2. QED
      BY <1>3, <2>1, Zenon DEF Decode
  <1>4. CASE RefuseLock \/ RefuseWrite
    BY <1>0, <1>4, Zenon DEF RefuseLock, RefuseWrite
  <1>5. ASSUME NEW r \in Requests, Respond(r) PROVE Locked'
    BY <1>0, <1>5, Zenon DEF Respond, Handled, WriteLock, Write, SetDone, after_write
  <1>6. CASE Disable \/ Erase \/ Shutdown \/ Join \/ Close
    BY <1>6, Zenon DEF Disable, Erase, Shutdown, Join, Close
  <1>7. CASE UNCHANGED vars
    BY <1>7, Zenon DEF vars
  <1>8. QED
    BY <1>1, <1>2, <1>3, <1>4, <1>5, <1>6, <1>7, Zenon DEF Next, Reader, Ended
-----------------------------------------------------------------------------
(* A request moves from the client to the reader, its responder and the    *)
(* wire, and never back.                                                   *)
LEMMA StepOnePlace ==
  SessionTypeOK /\ OnePlace /\ OneReplyEach /\ [Next]_vars => OnePlace' /\ OneReplyEach'
  <1> SUFFICES ASSUME SessionTypeOK, OnePlace, OneReplyEach, [Next]_vars
               PROVE  OnePlace' /\ OneReplyEach'
    OBVIOUS
  <1> USE DEF OnePlace, OneReplyEach, Busy
  <1>t. /\ inbox \in Seq(Frame) /\ wire \in Seq(Wire)
        /\ responder \in [Requests -> ResponderLabels]
        /\ \A i \in DOMAIN inbox : inbox[i].id \in Requests
        /\ \A i \in DOMAIN wire : wire[i].id \in Requests
        /\ pc \in {"decode", "refuse", "refusing"} => frame.id \in Requests
        /\ unsent \subseteq Requests
    <2>1. (\A m \in Frame : m.id \in Requests) /\ (\A w \in Wire : w.id \in Requests)
      BY Zenon DEF Frame, Wire
    <2>2. /\ \A i \in DOMAIN inbox : inbox[i] \in Frame
          /\ \A i \in DOMAIN wire : wire[i] \in Wire
      BY DEF SessionTypeOK
    <2>3. QED
      BY <2>1, <2>2, Zenon DEF SessionTypeOK
  <1>1. CASE ClientSend
    <2>1. PICK r \in unsent, kind \in FrameKinds :
            /\ inbox' = Append(inbox, [id |-> r, kind |-> kind]) /\ unsent' = unsent \ {r}
      BY <1>1, Zenon DEF ClientSend
    <2>2. [id |-> r, kind |-> kind] \in Frame
      BY <1>t, Zenon DEF Frame
    <2>3. /\ DOMAIN inbox' = 1..(Len(inbox) + 1) /\ DOMAIN inbox = 1..Len(inbox)
          /\ \A i \in DOMAIN inbox : inbox'[i] = inbox[i]
          /\ inbox'[Len(inbox) + 1].id = r
          /\ Len(inbox) \in Nat
      BY <1>t, <2>1, <2>2
    <2>4. \A i \in DOMAIN inbox' : i \in DOMAIN inbox \/ (i = Len(inbox) + 1 /\ i \notin DOMAIN inbox)
      BY <2>3
    <2>5. UNCHANGED <<pc, frame, responder, wire>>
      BY <1>1, Zenon DEF ClientSend
    <2>6. QED
      BY <1>t, <2>1, <2>3, <2>4, <2>5
  <1>2. CASE ClientClose \/ StopFlag \/ StopShutdown
    <2>1. UNCHANGED <<inbox, unsent, pc, frame, responder, wire>>
      BY <1>2, Zenon DEF ClientClose, StopFlag, StopShutdown, net
    <2>2. QED
      BY <2>1, Zenon
  <1>3. CASE LoopTop \/ ReadEnds \/ ReadTimesOut \/ RefuseLock
    <2>1. UNCHANGED <<inbox, unsent, frame, responder, wire>>
      BY <1>3, Zenon DEF LoopTop, ReadEnds, ReadTimesOut, RefuseLock, net
    <2>2. Busy' => Busy
      BY <1>3 DEF LoopTop, ReadEnds, ReadTimesOut, RefuseLock
    <2>3. QED
      BY <2>1, <2>2, ZenonT(60)
  <1>4. CASE ReadFrame
    <2>1. /\ frame' = inbox[1] /\ 1 \in DOMAIN inbox /\ inbox' = Tail(inbox)
          /\ UNCHANGED <<unsent, responder, wire>>
      BY <1>4, <1>t DEF ReadFrame
    <2>2. \A i \in DOMAIN inbox' : /\ i + 1 \in DOMAIN inbox /\ inbox'[i] = inbox[i + 1]
                                   /\ i \in Int /\ i + 1 # 1
      BY <1>t, <2>1
    <2>3. QED
      BY <1>t, <2>1, <2>2, SMTT(30)
  <1>5. CASE Decode
    BY <1>5, <1>t DEF Decode, net
  <1>6. ASSUME NEW id \in Requests, NEW what \in {"response", "reject", "error"},
               WriteFrame(id, what), \A i \in DOMAIN wire : wire[i].id # id
        PROVE  /\ OneReplyEach'
               /\ \A i \in DOMAIN wire' :
                    wire'[i].id = id \/ (i \in DOMAIN wire /\ wire'[i].id = wire[i].id)
    <2>1. CASE wire' = wire
      BY <2>1, Zenon
    <2>2. CASE /\ Len(wire') = Len(wire) + 1
               /\ \A i \in DOMAIN wire : i \in DOMAIN wire' /\ wire'[i] = wire[i]
               /\ \A i \in DOMAIN wire' : i \in DOMAIN wire \/ i = Len(wire) + 1
               /\ wire'[Len(wire) + 1].id = id
      BY <1>6, <2>2, SMTT(30)
    <2>3. QED
      BY <1>6, <2>1, <2>2, WireAfter
  <1>7. CASE RefuseWrite
    <2> DEFINE what == IF frame.kind = "request" THEN "reject" ELSE "error"
    <2>1. /\ pc = "refusing" /\ pc' \in {"top", "disable"} /\ WriteFrame(frame.id, what)
          /\ UNCHANGED <<unsent, inbox, responder>>
      BY <1>7, Zenon DEF RefuseWrite, net
    <2>2. what \in {"response", "reject", "error"}
      OBVIOUS
    <2> HIDE DEF what
    <2>3. /\ OneReplyEach'
          /\ \A i \in DOMAIN wire' :
               wire'[i].id = frame.id \/ (i \in DOMAIN wire /\ wire'[i].id = wire[i].id)
      BY <1>6, <1>t, <2>1, <2>2
    <2>4. QED
      BY <1>t, <2>1, <2>3
  <1>8. ASSUME NEW r \in Requests, Handled(r) \/ WriteLock(r) \/ SetDone(r)
        PROVE  OnePlace' /\ OneReplyEach'
    BY <1>8, <1>t, SMTT(30) DEF Handled, WriteLock, SetDone, net
  <1>9. ASSUME NEW r \in Requests, Write(r) PROVE OnePlace' /\ OneReplyEach'
    <2>1. /\ responder[r] = "writing" /\ responder' = [responder EXCEPT ![r] = "exiting"]
          /\ WriteFrame(r, "response") /\ UNCHANGED <<unsent, inbox, pc, frame>>
      BY <1>9, Zenon DEF Write, net, after_write
    <2>2. /\ OneReplyEach'
          /\ \A i \in DOMAIN wire' :
               wire'[i].id = r \/ (i \in DOMAIN wire /\ wire'[i].id = wire[i].id)
      <3>1. \A i \in DOMAIN wire : wire[i].id # r
        BY <1>t, <2>1, Zenon
      <3>2. QED
        BY <1>6, <2>1, <3>1, Zenon
    <2>3. QED
      BY <1>t, <2>1, <2>2, SMTT(30)
  <1>10. CASE Disable \/ Erase \/ Shutdown \/ Join \/ Close
    BY <1>10 DEF Disable, Erase, Shutdown, Join, Close, net
  <1>11. CASE UNCHANGED vars
    BY <1>11 DEF vars, net
  <1>12. QED
    BY <1>1, <1>2, <1>3, <1>4, <1>5, <1>7, <1>8, <1>9, <1>10, <1>11, Zenon
       DEF Next, Reader, Respond, Ended

(* The inductive invariant of a session always holds.                      *)
LEMMA SessionInvariant == Spec => []Inv
  <1>1. Inv /\ [Next]_vars => Inv'
    BY StepTypeOK, StepJoined, StepLocked, StepOnePlace, Zenon DEF Inv
  <1>2. QED
    BY <1>1, InitInv, PTL DEF Spec

(* The reader closes the socket only when every responder thread has       *)
(* ended, and stop() cannot reach the descriptor by then: the order of the *)
(* cleanup in session_loop suffices, whatever the threads do meanwhile.    *)
THEOREM SocketOutlivesUsers == Spec => []NoUseAfterClose
  <1>1. Inv => NoUseAfterClose
    BY Zenon DEF Inv, Joined, NoUseAfterClose
  <1>2. QED
    BY <1>1, SessionInvariant, PTL

(* The cap on pending responses bounds the requests of a connection in     *)
(* processing, since a responder leaves pending only when it is done.      *)
THEOREM CapHolds == Spec => []InflightBounded
  <1>1. Inv => InflightBounded
    <2> SUFFICES ASSUME Inv
                 PROVE  Cardinality({r \in Requests : Alive(r)}) <= max_inflight_per_client
      BY Zenon DEF Inv, Joined, InflightBounded
    <2> DEFINE S == {r \in Requests : Alive(r)}
    <2>1. S \subseteq pending
      BY Zenon DEF Inv, Joined
    <2>2. Cardinality(S) <= Cardinality(pending) /\ Cardinality(S) \in Nat
      BY <2>1, PendingFinite, FS_Subset, FS_CardinalityType, Zenon DEF Inv
    <2> HIDE DEF S
    <2>3. Cardinality(S) <= max_inflight_per_client
      BY <2>2, PendingFinite, SessionAssumption DEF Inv, Joined
    <2>4. QED
      BY <2>3, Zenon DEF S
  <1>2. QED
    BY <1>1, SessionInvariant, PTL

(* No request is answered twice on one connection. *)
THEOREM AnsweredOnce == Spec => []OneReplyEach
  BY SessionInvariant, PTL DEF Inv

(* write_mutex keeps frames whole: whoever starts to write is alone, and   *)
(* has seen writes_enabled under the mutex.                                *)
THEOREM FramesKeptWhole == Spec => WritesOneAtATime
  <1> DEFINE Alone ==
        \A r \in Requests :
          responder[r] # "writing" /\ responder'[r] = "writing" =>
              /\ writes_enabled /\ pc # "refusing"
              /\ \A q \in Requests : responder[q] # "writing"
  <1>1. Inv /\ [Next]_vars => [Alone]_vars
    <2> SUFFICES ASSUME Inv, Next, NEW r \in Requests,
                        responder[r] # "writing", responder'[r] = "writing"
                 PROVE  /\ writes_enabled /\ pc # "refusing"
                        /\ \A q \in Requests : responder[q] # "writing"
      OBVIOUS
    <2>1. \/ WriteLock(r)
          \/ responder' = responder
          \/ \E q \in Requests : \E l \in ResponderLabels \ {"writing"} :
               responder' = [responder EXCEPT ![q] = l]
          \/ \E q \in Requests \ {r} : responder' = [responder EXCEPT ![q] = "writing"]
      <3>1. CASE ClientSend \/ ClientClose \/ StopFlag \/ StopShutdown \/ ReadTimesOut \/ Ended
        BY <3>1, Zenon DEF ClientSend, ClientClose, StopFlag, StopShutdown, ReadTimesOut, Ended,
           vars
      <3>2. CASE Reader
        BY <3>2, Zenon DEF Reader, LoopTop, ReadFrame, ReadEnds, Decode, RefuseLock, RefuseWrite,
           Disable, Erase, Shutdown, Join, Close, Inv, SessionTypeOK, Busy, Frame,
           ResponderLabels
      <3>3. ASSUME NEW q \in Requests, Respond(q), ~WriteLock(r)
            PROVE  \/ responder' = responder
                   \/ \E l \in ResponderLabels \ {"writing"} :
                        responder' = [responder EXCEPT ![q] = l]
                   \/ q # r /\ responder' = [responder EXCEPT ![q] = "writing"]
        BY <3>3, Zenon DEF Respond, Handled, WriteLock, Write, SetDone, after_write,
           ResponderLabels
      <3>4. QED
        BY <3>1, <3>2, <3>3, Zenon DEF Next
    <2>2. WriteLock(r)
      BY <2>1, Zenon DEF Inv, SessionTypeOK
    <2>3. /\ write_mutex = NoOne /\ NoOne \notin Requests /\ NoOne # "reader"
          /\ writes_enabled
      BY <2>2, SessionAssumption, Zenon DEF WriteLock, may_write, Inv, SessionTypeOK
    <2>4. QED
      BY <2>3, Zenon DEF Inv, Locked
  <1>2. QED
    BY <1>1, SessionInvariant, PTL DEF Spec, WritesOneAtATime
-----------------------------------------------------------------------------
(* What the mapping to the outline needs: the reader cuts the socket       *)
(* before it waits for its responders.                                     *)
Mapped == pc \in {"join", "close", "ended"} => socket # "open"

(* The reader shuts the socket down on its way to the join, and nothing    *)
(* opens it again.                                                         *)
LEMMA StepMapped == SessionTypeOK /\ Mapped /\ [Next]_vars => Mapped'
  <1> SUFFICES ASSUME SessionTypeOK, Mapped, [Next]_vars PROVE Mapped'
    OBVIOUS
  <1>1. CASE ClientSend \/ ClientClose \/ StopFlag \/ StopShutdown
    BY <1>1, Zenon DEF ClientSend, ClientClose, StopFlag, StopShutdown, Mapped
  <1>2. CASE LoopTop \/ ReadFrame \/ ReadEnds \/ ReadTimesOut \/ Decode \/ RefuseLock \/ RefuseWrite
    BY <1>2, Zenon DEF LoopTop, ReadFrame, ReadEnds, ReadTimesOut, Decode, RefuseLock,
       RefuseWrite, Mapped
  <1>3. CASE Disable \/ Erase \/ Shutdown \/ Join \/ Close
    BY <1>3, Zenon DEF Disable, Erase, Shutdown, Join, Close, Mapped
  <1>4. ASSUME NEW r \in Requests, Respond(r) PROVE Mapped'
    BY <1>4, Zenon DEF Respond, Handled, WriteLock, Write, SetDone, Mapped
  <1>5. CASE UNCHANGED vars
    BY <1>5, Zenon DEF vars, Mapped
  <1>6. QED
    BY <1>1, <1>2, <1>3, <1>4, <1>5, Zenon DEF Next, Reader, Ended

(* Every step of the session is a step of the outline or none.             *)
LEMMA StepOutlined ==
  SessionTypeOK /\ Mapped /\ [Next]_vars => [Outline!Next]_(Outline!outline)
  <1> SUFFICES ASSUME SessionTypeOK, Mapped, [Next]_vars
               PROVE  Outline!Next \/ UNCHANGED Outline!outline
    OBVIOUS
  <1>1. ASSUME UNCHANGED <<running, registered, socket>>, Phase' = Phase
        PROVE  UNCHANGED Outline!outline
    BY <1>1, Zenon DEF Outline!outline
  <1>2. CASE ClientSend \/ ClientClose
    BY <1>1, <1>2, Zenon DEF ClientSend, ClientClose, server, Phase
  <1>3. CASE StopFlag
    <2>1. Outline!Flag
      BY <1>3, Zenon DEF StopFlag, Outline!Flag, Phase
    <2>2. QED
      BY <2>1, Zenon DEF Outline!Next
  <1>4. CASE StopShutdown
    <2>1. Outline!Sweep
      BY <1>4, Zenon DEF StopShutdown, swept, server, Outline!Sweep, Phase
    <2>2. QED
      BY <2>1, Zenon DEF Outline!Next
  <1>5. CASE LoopTop
    <2>1. Outline!Test
      BY <1>5, Zenon DEF LoopTop, server, Outline!Test, Phase
    <2>2. QED
      BY <2>1, Zenon DEF Outline!Next, Outline!Steps
  <1>6. CASE ReadFrame \/ ReadEnds \/ ReadTimesOut
    <2>1. Outline!Read
      BY <1>6, Zenon DEF ReadFrame, ReadEnds, ReadTimesOut, server, Outline!Read, Phase
    <2>2. QED
      BY <2>1, Zenon DEF Outline!Next
  <1>7. CASE Decode \/ RefuseLock \/ RefuseWrite \/ Disable
    BY <1>1, <1>7, Zenon DEF Decode, RefuseLock, RefuseWrite, Disable, server, Phase, NoFrame
  <1>8. CASE Erase
    <2>1. Outline!Erase
      BY <1>8, Zenon DEF Erase, Outline!Erase, Phase
    <2>2. QED
      BY <2>1, Zenon DEF Outline!Next, Outline!Steps
  <1>9. CASE Shutdown
    <2>1. Outline!Join
      BY <1>9, Zenon DEF Shutdown, server, Outline!Join, Phase
    <2>2. QED
      BY <2>1, Zenon DEF Outline!Next, Outline!Steps
  <1>10. CASE Join
    BY <1>1, <1>10, Zenon DEF Join, server, Phase
  <1>11. CASE Close
    <2>1. Outline!Close
      BY <1>11, Zenon DEF Close, server, Outline!Close, Phase, Mapped
    <2>2. QED
      BY <2>1, Zenon DEF Outline!Next, Outline!Steps
  <1>12. ASSUME NEW r \in Requests, Respond(r) PROVE UNCHANGED Outline!outline
    BY <1>1, <1>12, Zenon DEF Respond, Handled, WriteLock, Write, SetDone, server, Phase
  <1>13. CASE UNCHANGED vars
    BY <1>1, <1>13, Zenon DEF vars, server, Phase
  <1>14. QED
    BY <1>2, <1>3, <1>4, <1>5, <1>6, <1>7, <1>8, <1>9, <1>10, <1>11, <1>12, <1>13, Zenon DEF
       Next, Reader, Ended

(* The safety half of ActsAsOutlined: with any number of requests, every   *)
(* step of a session is a step of the outline the listener relies on, or   *)
(* none of its concern.                                                    *)
THEOREM KeepsToOutline == Spec => Outline!Spec
  <1>1. Init => Mapped /\ Outline!Init
    BY Zenon DEF Init, Mapped, Phase, Outline!Init
  <1>2. Inv => SessionTypeOK
    BY Zenon DEF Inv
  <1>3. QED
    BY <1>1, <1>2, SessionInvariant, StepMapped, StepOutlined, PTL DEF Spec, Outline!Spec
=============================================================================
