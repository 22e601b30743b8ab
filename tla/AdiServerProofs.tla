--------------------------- MODULE AdiServerProofs ---------------------------
(***************************************************************************)
(* Proofs about AdiServer, for any clients, GPUs, peers and thresholds.    *)
(***************************************************************************)
EXTENDS AdiServer, FiniteSetTheorems, TLAPS

Labels ==
    {"none", "accepted", "assign", "top", "read", "place", "peer", "scan", "push", "get",
     "primary", "delta", "release", "erase", "done"}

(* The loop of run() has one connection in hand at most, the one Register  *)
(* starts a session for.                                                   *)
PcOK ==
    /\ pc \in [Clients -> Labels]
    /\ main_pc = "register" => incoming \in Clients /\ pc[incoming] = "accepted"

(* How many packets a client has been sent: one for its first exchange and *)
(* two for each later one, until a send fails.                             *)
Sent(c) ==
    /\ sequence_id[c] \in Nat
    /\ sent[c] \in Seq({"primary", "delta"} \X Nat)
    /\ pc[c] \in {"none", "accepted", "assign"} => sequence_id[c] = 0
    /\ pc[c] = "delta" => sequence_id[c] > 0 /\ Len(sent[c]) = 2 * sequence_id[c]
    /\ pc[c] \notin {"delta", "release", "erase", "done"} =>
         Len(sent[c]) = IF sequence_id[c] = 0 THEN 0 ELSE 2 * sequence_id[c] - 1

Stream ==
    /\ DOMAIN sequence_id = Clients /\ DOMAIN sent = Clients
    /\ \A c \in Clients : Sent(c)
-----------------------------------------------------------------------------
(* What a step of a session does to its own program counter, and what the  *)
(* steps of others do not.                                                 *)
LEMMA PcMoves ==
  ASSUME PcOK, [Next]_vars
  PROVE  /\ PcOK'
         /\ \/ pc' = pc /\ UNCHANGED <<affinity, sequence_id, sent>>
            \/ \E c \in Clients, l \in Labels : pc' = [pc EXCEPT ![c] = l]
  <1> USE DEF PcOK, Labels, Goto
  <1>1. CASE start_workers \/ AcceptEnds \/ Throw \/ ThrowStopped \/ JoinFlags \/ JoinSessions
             \/ JoinWorkers
    BY <1>1, Zenon DEF start_workers, AcceptEnds, Throw, ThrowStopped, JoinFlags, JoinSessions,
       JoinWorkers, placeVars, sessVars
  <1>2. CASE Accept \/ Register
    BY <1>2, Zenon DEF Accept, Register
  <1>3. CASE StopCall \/ StopBody
    BY <1>3, Zenon DEF StopCall, StopBody, StopSweep, StopWorkers, placeVars, sessVars
  <1>4. ASSUME NEW g \in Gpus, Worker(g)
        PROVE  PcOK' /\ pc' = pc /\ UNCHANGED <<affinity, sequence_id, sent>>
    BY <1>4, Zenon DEF Worker, WorkerExit, WorkerTake, WorkerFulfil, mainVars, placeVars,
       sessVars
  <1>5. ASSUME NEW c \in Clients, Session(c) \/ Client(c)
        PROVE  PcOK' /\ \E d \in Clients, l \in Labels : pc' = [pc EXCEPT ![d] = l]
    <2>1. UNCHANGED <<main_pc, incoming>> /\ pc[c] # "accepted"
      BY <1>5, Zenon DEF Session, Client, AssignHome, Top, ReadRequest, ReadFails, ReadCut,
         PlaceHome, PlacePeer, PlaceScan, Push, Get, SendPrimary, SendDelta, release_client,
         Erase, mainVars
    <2>2. \E l \in Labels : pc' = [pc EXCEPT ![c] = l]
      <3>1. CASE PlaceScan(c)
        BY <3>1, Zenon DEF PlaceScan
      <3>2. CASE AssignHome(c) \/ Top(c) \/ ReadCut(c) \/ PlaceHome(c) \/ PlacePeer(c) \/ Push(c)
                 \/ Get(c) \/ release_client(c) \/ Erase(c) \/ Client(c)
        BY <3>2, Zenon DEF Client, AssignHome, Top, ReadRequest, ReadFails, ReadCut, PlaceHome,
           PlacePeer, Push, Get, release_client, Erase
      <3>3. CASE SendPrimary(c) \/ SendDelta(c)
        BY <3>3, Zenon DEF SendPrimary, SendDelta, SendPacket, NextExchange
      <3>4. QED
        BY <1>5, <3>1, <3>2, <3>3, Zenon DEF Session
    <2>3. QED
      BY <2>1, <2>2, ZenonT(60)
  <1>6. CASE UNCHANGED vars
    BY <1>6, Zenon DEF vars, mainVars, placeVars, sessVars
  <1>7. QED
    BY <1>1, <1>2, <1>3, <1>4, <1>5, <1>6, Zenon DEF Next, Main, Returned

(* assign_client and remove_client keep the affinity map exact; no other   *)
(* step touches it.                                                        *)
LEMMA StepAffinity == PcOK /\ AffinityIsExact /\ [Next]_vars => AffinityIsExact'
  <1> SUFFICES ASSUME PcOK, AffinityIsExact, [Next]_vars PROVE AffinityIsExact'
    OBVIOUS
  <1> USE DEF PcOK, AffinityIsExact, InService, Goto
  <1>1. CASE pc' = pc /\ affinity' = affinity
    BY <1>1, Zenon
  <1>2. CASE Accept \/ Register
    BY <1>2, Zenon DEF Accept, Register, placeVars
  <1>3. ASSUME NEW c \in Clients, AssignHome(c) PROVE AffinityIsExact'
    BY <1>3, Zenon DEF AssignHome
  <1>4. ASSUME NEW c \in Clients, release_client(c) PROVE AffinityIsExact'
    BY <1>4, Zenon DEF release_client, without
  <1>5. ASSUME NEW c \in Clients, Erase(c) PROVE AffinityIsExact'
    BY <1>5, Zenon DEF Erase, placeVars
  <1>6. ASSUME NEW c \in Clients,
               \/ Top(c) \/ Client(c) \/ ReadCut(c) \/ PlaceHome(c) \/ PlacePeer(c)
               \/ PlaceScan(c) \/ Push(c) \/ Get(c)
        PROVE  AffinityIsExact'
    BY <1>6, Zenon DEF Client, Top, ReadRequest, ReadFails, ReadCut, PlaceHome, PlacePeer, PlaceScan,
                Push, Get, placeVars
  <1>7. ASSUME NEW c \in Clients, SendPrimary(c) \/ SendDelta(c) PROVE AffinityIsExact'
    BY <1>7, Zenon DEF SendPrimary, SendDelta, SendPacket, NextExchange, placeVars
  <1>8. CASE start_workers \/ AcceptEnds \/ Throw \/ ThrowStopped \/ JoinFlags \/ JoinSessions
             \/ JoinWorkers \/ StopCall \/ StopBody \/ \E g \in Gpus : Worker(g)
    BY <1>1, <1>8, Zenon DEF start_workers, AcceptEnds, Throw, ThrowStopped, JoinFlags,
       JoinSessions, JoinWorkers, StopCall, StopBody, StopSweep, StopWorkers, Worker, WorkerExit,
       WorkerTake, WorkerFulfil, placeVars, sessVars
  <1>9. CASE UNCHANGED vars
    BY <1>1, <1>9, Zenon DEF vars, placeVars, sessVars
  <1>10. QED
    BY <1>2, <1>3, <1>4, <1>5, <1>6, <1>7, <1>8, <1>9, Zenon DEF Next, Main, Session, Returned
-----------------------------------------------------------------------------
(* The k-th packet of a client. *)
PacketAt(k) ==
    IF k = 1 THEN <<"primary", 0>>
    ELSE IF k % 2 = 0 THEN <<"primary", k \div 2>> ELSE <<"delta", k \div 2>>

Ordered == \A c \in Clients : \A k \in DOMAIN sent[c] : sent[c][k] = PacketAt(k)

(* Arithmetic of packet numbers: which exchange a packet belongs to.       *)
LEMMA PacketNumbers ==
  /\ PacketAt(1) = <<"primary", 0>>
  /\ \A n \in Nat \ {0} : /\ PacketAt(2 * n) = <<"primary", n>>
                          /\ PacketAt(2 * n + 1) = <<"delta", n>>
  <1>1. PacketAt(1) = <<"primary", 0>>
    BY Zenon DEF PacketAt
  <1>2. ASSUME NEW n \in Nat \ {0}
        PROVE  PacketAt(2 * n) = <<"primary", n>> /\ PacketAt(2 * n + 1) = <<"delta", n>>
    <2>1. /\ 2 * n # 1 /\ (2 * n) % 2 = 0 /\ (2 * n) \div 2 = n
          /\ 2 * n + 1 # 1 /\ (2 * n + 1) % 2 = 1 /\ (2 * n + 1) \div 2 = n
      OBVIOUS
    <2>2. QED
      BY <2>1 DEF PacketAt
  <1>3. QED
    BY <1>1, <1>2, Zenon

(* A packet appended to a stream in order, in its place, keeps it so. *)
LEMMA AppendOrdered ==
  ASSUME Stream, Ordered, NEW c \in Clients, NEW p \in {"primary", "delta"} \X Nat,
         p = PacketAt(Len(sent[c]) + 1), sent' = [sent EXCEPT ![c] = Append(@, p)]
  PROVE  /\ Ordered' /\ DOMAIN sent' = Clients
         /\ sent'[c] \in Seq({"primary", "delta"} \X Nat) /\ Len(sent'[c]) = Len(sent[c]) + 1
  <1> DEFINE P == {"primary", "delta"} \X Nat
  <1>1. sent[c] \in Seq(P) /\ p \in P /\ sent'[c] = Append(sent[c], p)
    BY Zenon DEF Stream, Sent
  <1> HIDE DEF P
  <1>2. /\ sent'[c] \in Seq(P) /\ Len(sent'[c]) = Len(sent[c]) + 1
        /\ \A k \in DOMAIN sent'[c] :
             (k \in DOMAIN sent[c] /\ sent'[c][k] = sent[c][k])
             \/ (k = Len(sent[c]) + 1 /\ sent'[c][k] = p)
    BY <1>1
  <1>3. \A k \in DOMAIN sent'[c] : sent'[c][k] = PacketAt(k)
    BY <1>2, Zenon DEF Ordered
  <1>4. \A d \in Clients : d # c => sent'[d] = sent[d]
    BY Zenon DEF Stream
  <1>5. Ordered'
    BY <1>3, <1>4 DEF Ordered
  <1>6. DOMAIN sent' = Clients
    BY Zenon DEF Stream
  <1>7. QED
    BY <1>2, <1>5, <1>6, Zenon DEF P

(* Sending an exchange's packets keeps a client's stream in order,         *)
(* whatever else runs.                                                     *)
LEMMA StepStream == PcOK /\ Stream /\ Ordered /\ [Next]_vars => Stream' /\ Ordered'
  <1> SUFFICES ASSUME PcOK, Stream, Ordered, [Next]_vars PROVE Stream' /\ Ordered'
    OBVIOUS
  (* The steps that send nothing and leave a session where the count of    *)
  (* its packets is the same.                                              *)
  <1>0. ASSUME UNCHANGED <<sequence_id, sent>>, NEW c \in Clients, NEW l \in Labels,
               pc' = [pc EXCEPT ![c] = l], pc[c] # "delta", l # "delta",
               l \in {"none", "accepted", "assign"} => pc[c] \in {"none", "accepted", "assign"},
               pc[c] \in {"release", "erase", "done"} => l \in {"release", "erase", "done"}
        PROVE  Stream' /\ Ordered'
    BY <1>0, Zenon DEF PcOK, Stream, Sent, Ordered
  <1>1. CASE pc' = pc /\ UNCHANGED <<sequence_id, sent>>
    BY <1>1, Zenon DEF Stream, Sent, Ordered
  <1>2. CASE start_workers \/ AcceptEnds \/ Throw \/ ThrowStopped \/ JoinFlags \/ JoinSessions
             \/ JoinWorkers \/ StopCall \/ StopBody \/ \E g \in Gpus : Worker(g)
    BY <1>1, <1>2, Zenon DEF start_workers, AcceptEnds, Throw, ThrowStopped, JoinFlags,
       JoinSessions, JoinWorkers, StopCall, StopBody, StopSweep, StopWorkers, Worker, WorkerExit,
       WorkerTake, WorkerFulfil, sessVars
  <1>3. CASE Accept
    BY <1>0, <1>3, Zenon DEF Accept, Goto, Labels
  <1>4. CASE Register
    BY <1>0, <1>4, Zenon DEF Register, Goto, Labels, PcOK
  <1>5. ASSUME NEW c \in Clients,
               \/ AssignHome(c) \/ Top(c) \/ Client(c) \/ ReadCut(c) \/ PlaceHome(c)
               \/ PlacePeer(c) \/ Push(c) \/ Get(c) \/ release_client(c) \/ Erase(c)
        PROVE  Stream' /\ Ordered'
    <2>1. /\ UNCHANGED <<sequence_id, sent>> /\ pc[c] # "delta"
          /\ \E l \in Labels \ {"delta", "none", "accepted", "assign"} :
               /\ pc' = [pc EXCEPT ![c] = l]
               /\ pc[c] \in {"release", "erase", "done"} => l \in {"release", "erase", "done"}
      BY <1>5, Zenon DEF AssignHome, Top, Client, ReadRequest, ReadFails, ReadCut, PlaceHome, PlacePeer,
                  Push, Get, release_client, Erase, Goto, Labels
    <2>2. QED
      BY <1>0, <2>1, Zenon
  <1>6. ASSUME NEW c \in Clients, PlaceScan(c) PROVE Stream' /\ Ordered'
    <2>1. CASE pc' = pc
      BY <1>1, <1>6, <2>1, Zenon DEF PlaceScan
    <2>2. CASE pc' = [pc EXCEPT ![c] = "push"]
      BY <1>0, <1>6, <2>2, Zenon DEF PlaceScan, Labels
    <2>3. QED
      BY <1>6, <2>1, <2>2, Zenon DEF PlaceScan, Goto
  <1>7. ASSUME NEW c \in Clients, pc' = [pc EXCEPT ![c] = "release"],
               UNCHANGED <<sequence_id, sent>>
        PROVE  Stream' /\ Ordered'
    BY <1>7, Zenon DEF PcOK, Stream, Sent, Ordered
  <1>8. ASSUME NEW c \in Clients, SendPrimary(c) PROVE Stream' /\ Ordered'
    <2> DEFINE n == sequence_id[c]
    <2>0. pc[c] = "primary" /\ n \in Nat /\ Len(sent[c]) = IF n = 0 THEN 0 ELSE 2 * n - 1
      BY <1>8, Zenon DEF SendPrimary, Stream, Sent
    <2>1. CASE /\ sent' = [sent EXCEPT ![c] = Append(@, <<"primary", n>>)]
               /\ \/ /\ n = 0 /\ pc' = [pc EXCEPT ![c] = "top"]
                     /\ sequence_id' = [sequence_id EXCEPT ![c] = @ + 1]
                  \/ n # 0 /\ pc' = [pc EXCEPT ![c] = "delta"] /\ sequence_id' = sequence_id
      <3>1. <<"primary", n>> = PacketAt(Len(sent[c]) + 1)
        <4>1. CASE n = 0
          <5>1. Len(sent[c]) + 1 = 1
            BY <2>0, <4>1
          <5>2. QED
            BY <4>1, <5>1, PacketNumbers, Zenon
        <4>2. CASE n # 0
          <5>1. Len(sent[c]) + 1 = 2 * n /\ n \in Nat \ {0}
            BY <2>0, <4>2
          <5>2. QED
            BY <5>1, PacketNumbers, Zenon
        <4>3. QED
          BY <4>1, <4>2, Zenon
      <3>2. /\ Ordered' /\ DOMAIN sent' = Clients
            /\ sent'[c] \in Seq({"primary", "delta"} \X Nat) /\ Len(sent'[c]) = Len(sent[c]) + 1
        BY <2>0, <2>1, <3>1, AppendOrdered, Zenon
      <3>3. Sent(c)'
        BY <2>0, <2>1, <3>2 DEF Sent, PcOK, Stream
      <3>4. \A d \in Clients : d # c => Sent(d)'
        BY <2>1, Zenon DEF Sent, PcOK, Stream
      <3>5. DOMAIN sequence_id' = Clients
        BY <2>1, Zenon DEF Stream
      <3>6. QED
        BY <3>2, <3>3, <3>4, <3>5, Zenon DEF Stream
    <2>2. CASE pc' = [pc EXCEPT ![c] = "release"] /\ UNCHANGED <<sequence_id, sent>>
      BY <1>7, <2>2, Zenon
    <2>3. QED
      BY <1>8, <2>1, <2>2, Zenon DEF SendPrimary, SendPacket, NextExchange, first_exchange, Goto
  <1>9. ASSUME NEW c \in Clients, SendDelta(c) PROVE Stream' /\ Ordered'
    <2> DEFINE n == sequence_id[c]
    <2>0. pc[c] = "delta" /\ n \in Nat \ {0} /\ Len(sent[c]) = 2 * n
      BY <1>9 DEF SendDelta, Stream, Sent
    <2>1. CASE /\ sent' = [sent EXCEPT ![c] = Append(@, <<"delta", n>>)]
               /\ pc' = [pc EXCEPT ![c] = "top"]
               /\ sequence_id' = [sequence_id EXCEPT ![c] = @ + 1]
      <3>1. <<"delta", n>> = PacketAt(Len(sent[c]) + 1)
        BY <2>0, PacketNumbers, Zenon
      <3>2. /\ Ordered' /\ DOMAIN sent' = Clients
            /\ sent'[c] \in Seq({"primary", "delta"} \X Nat) /\ Len(sent'[c]) = Len(sent[c]) + 1
        BY <2>0, <2>1, <3>1, AppendOrdered, Zenon
      <3>3. Sent(c)'
        BY <2>0, <2>1, <3>2, SMTT(30) DEF Sent, PcOK, Stream
      <3>4. \A d \in Clients : d # c => Sent(d)'
        BY <2>1, Zenon DEF Sent, PcOK, Stream
      <3>5. QED
        BY <2>1, <3>2, <3>3, <3>4, Zenon DEF Stream
    <2>2. CASE pc' = [pc EXCEPT ![c] = "release"] /\ UNCHANGED <<sequence_id, sent>>
      BY <1>7, <2>2, Zenon
    <2>3. QED
      BY <1>9, <2>1, <2>2, Zenon DEF SendDelta, SendPacket, NextExchange, Goto
  <1>10. CASE UNCHANGED vars
    BY <1>1, <1>10, Zenon DEF vars, sessVars
  <1>11. QED
    BY <1>2, <1>3, <1>4, <1>5, <1>6, <1>8, <1>9, <1>10, Zenon DEF Next, Main, Session, Returned

(* Before run() there are no packets and no clients.                       *)
LEMMA InitStream == Init => PcOK /\ Stream /\ Ordered /\ AffinityIsExact
  <1> SUFFICES ASSUME Init PROVE PcOK /\ Stream /\ Ordered /\ AffinityIsExact
    OBVIOUS
  <1>1. PcOK
    BY Zenon DEF Init, PcOK, Labels
  <1>2. ASSUME NEW c \in Clients
        PROVE  pc[c] = "none" /\ sequence_id[c] = 0 /\ sent[c] = <<>>
    BY Zenon DEF Init
  <1>3. Stream
    <2>1. \A S : <<>> \in Seq(S) /\ Len(<<>>) = 0
      OBVIOUS
    <2>2. ASSUME NEW c \in Clients PROVE Sent(c)
      <3>1. sent[c] \in Seq({"primary", "delta"} \X Nat) /\ Len(sent[c]) = 0
        BY <1>2, <2>1, Zenon
      <3>2. QED
        BY <1>2, <3>1 DEF Sent
    <2>3. QED
      BY <2>2, Zenon DEF Init, Stream
  <1>4. Ordered
    BY <1>2 DEF Ordered
  <1>5. AffinityIsExact
    <2>1. affinity = <<>>
      BY Zenon DEF Init
    <2>2. DOMAIN affinity = {}
      BY <2>1
    <2>3. QED
      BY <1>2, <2>2, Zenon DEF AffinityIsExact, InService
  <1>6. QED
    BY <1>1, <1>3, <1>4, <1>5, Zenon

(* The placer knows exactly the clients in service, whatever ends their    *)
(* sessions: place never has to fall back on a home it does not record.    *)
THEOREM AffinityExact == Spec => []AffinityIsExact
  <1>1. PcOK /\ AffinityIsExact /\ [Next]_vars => (PcOK /\ AffinityIsExact)'
    BY PcMoves, StepAffinity, Zenon
  <1>2. QED
    BY <1>1, InitStream, PTL DEF Spec

(* Every client is sent its packets in order, each exchange's primary      *)
(* before its delta and no delta before there is a result to subtract, for *)
(* any number of exchanges and whatever other sessions, workers and stop() *)
(* do meanwhile.                                                           *)
THEOREM PacketsOrdered == Spec => []PacketsInOrder
  <1>1. PcOK /\ Stream /\ Ordered /\ [Next]_vars => (PcOK /\ Stream /\ Ordered)'
    BY PcMoves, StepStream, Zenon
  <1>2. Ordered => PacketsInOrder
    BY Zenon DEF Ordered, PacketAt, PacketsInOrder
  <1>3. QED
    BY <1>1, <1>2, InitStream, PTL DEF Spec
-----------------------------------------------------------------------------
(* place returns a GPU: homes and peers are GPUs, and the scan ends at the *)
(* last one.                                                               *)
Placing ==
    /\ rr_counter \in Nat
    /\ \A c \in DOMAIN affinity : affinity[c] \in Gpus
    /\ local \in [Clients -> [target : Int, best_depth : Int, i : Int]]
    /\ \A c \in Clients :
         /\ pc[c] \in {"peer", "scan", "push"} => local[c].target \in Gpus
         /\ pc[c] \in {"peer", "scan"} => local[c].i \in Gpus
         /\ pc[c] = "peer" => Peer[affinity[c]] \in Gpus

Waiting(c) == pc[c] = "get" /\ promise[c] = "none"

(* A task is in one queue, once, or with one worker, exactly while its     *)
(* session waits for it.                                                   *)
Tasks ==
    /\ queue \in [Gpus -> Seq(Clients)]
    /\ worker \in [Gpus -> Clients \cup {"wait", "exited"}]
    /\ DOMAIN promise = Clients
    /\ main_pc = "start" => \A g \in Gpus : worker[g] = "exited"
    /\ \A g \in Gpus : \A i \in DOMAIN queue[g] :
         /\ Waiting(queue[g][i])
         /\ \A h \in Gpus : worker[h] # queue[g][i]
         /\ \A h \in Gpus : \A j \in DOMAIN queue[h] :
              queue[h][j] = queue[g][i] => h = g /\ j = i
    /\ \A g \in Gpus : worker[g] \in Clients =>
         Waiting(worker[g]) /\ \A h \in Gpus : worker[h] = worker[g] => h = g
    /\ \A c \in Clients : Waiting(c) =>
         \E g \in Gpus : worker[g] = c \/ \E i \in DOMAIN queue[g] : queue[g][i] = c

Inv == PcOK /\ AffinityIsExact /\ Placing /\ Tasks
-----------------------------------------------------------------------------
(* GPU 0 exists, the round robin stays among the GPUs, and so does the     *)
(* scan of place.                                                          *)
LEMMA GpuBasics ==
  /\ 0 \in Gpus /\ Gpus \subseteq Nat
  /\ \A n \in Nat : n % NumGpus \in Gpus
  /\ \A i \in Gpus : i + 1 = NumGpus \/ i + 1 \in Gpus
  <1>1. NumGpus \in Nat \ {0}
    BY AdiAssumption, Zenon
  <1>2. \A n \in Nat : n % NumGpus \in 0..(NumGpus - 1)
    BY <1>1
  <1>3. QED
    BY <1>1, <1>2 DEF Gpus

(* Every step of assign_client and place leaves a GPU in the local it      *)
(* hands on.                                                               *)
LEMMA StepPlacing ==
  PcOK /\ AffinityIsExact /\ Placing /\ Tasks /\ [Next]_vars => Placing'
  <1> SUFFICES ASSUME PcOK, AffinityIsExact, Placing, Tasks, [Next]_vars PROVE Placing'
    OBVIOUS
  <1>d. /\ \A c \in Clients : InService(c) => c \in DOMAIN affinity
        /\ \A c \in Clients : pc[c] \in {"place", "peer", "scan", "push"} => InService(c)
    BY Zenon DEF AffinityIsExact, InService
  (* A step of another kind moves no session to a label Placing is about. *)
  <1>0. ASSUME UNCHANGED <<rr_counter, affinity, local>>, NEW c \in Clients, NEW l \in Labels,
               pc' = [pc EXCEPT ![c] = l], l \notin {"peer", "scan", "push"}
        PROVE  Placing'
    BY <1>0, Zenon DEF PcOK, Placing
  <1>1. CASE UNCHANGED <<pc, rr_counter, affinity, local>>
    BY <1>1, Zenon DEF Placing
  <1>2. CASE start_workers \/ AcceptEnds \/ Throw \/ ThrowStopped \/ JoinFlags \/ JoinSessions
             \/ JoinWorkers \/ StopCall \/ StopBody \/ \E g \in Gpus : Worker(g)
    BY <1>1, <1>2, Zenon DEF start_workers, AcceptEnds, Throw, ThrowStopped, JoinFlags,
       JoinSessions, JoinWorkers, StopCall, StopBody, StopSweep, StopWorkers, Worker, WorkerExit,
       WorkerTake, WorkerFulfil, sessVars, placeVars
  <1>3. CASE Accept
    BY <1>0, <1>3, Zenon DEF Accept, Goto, Labels, placeVars
  <1>4. CASE Register
    BY <1>0, <1>4, Zenon DEF Register, Goto, Labels, PcOK, placeVars
  <1>5. ASSUME NEW c \in Clients, Top(c) \/ Client(c) \/ ReadCut(c) \/ Get(c) \/ Erase(c)
        PROVE  Placing'
    <2>1. /\ UNCHANGED <<rr_counter, affinity, local>>
          /\ \E l \in Labels \ {"peer", "scan", "push"} : pc' = [pc EXCEPT ![c] = l]
      BY <1>5, Zenon DEF Top, Client, ReadRequest, ReadFails, ReadCut, Get, Erase, Goto, Labels,
         placeVars
    <2>2. QED
      BY <1>0, <2>1, ZenonT(60)
  <1>6. ASSUME NEW c \in Clients, SendPrimary(c) \/ SendDelta(c) PROVE Placing'
    <2>1. /\ UNCHANGED <<rr_counter, affinity, local>>
          /\ \E l \in Labels \ {"peer", "scan", "push"} : pc' = [pc EXCEPT ![c] = l]
      BY <1>6, Zenon DEF SendPrimary, SendDelta, SendPacket, NextExchange, Goto, Labels,
         placeVars
    <2>2. QED
      BY <1>0, <2>1, ZenonT(60)
  <1>7. ASSUME NEW c \in Clients, AssignHome(c) \/ release_client(c) PROVE Placing'
    <2>1. /\ local' = local /\ rr_counter' \in Nat
          /\ pc' = [pc EXCEPT ![c] = "top"] \/ pc' = [pc EXCEPT ![c] = "erase"]
      BY <1>7 DEF AssignHome, release_client, Goto, Placing
    <2>2. \A d \in Clients : d # c /\ d \in DOMAIN affinity => affinity'[d] = affinity[d]
      BY <1>7, Zenon DEF AssignHome, release_client, without
    <2>3. \A d \in DOMAIN affinity' : affinity'[d] \in Gpus
      BY <1>7, GpuBasics DEF AssignHome, release_client, without, Placing
    <2>4. QED
      BY <1>d, <2>1, <2>2, <2>3 DEF PcOK, Placing
  <1>8. ASSUME NEW c \in Clients, PlaceHome(c) PROVE Placing'
    <2> DEFINE home == affinity[c]
               depth == Len(queue[home])
    <2>1. home \in Gpus /\ depth \in Nat
      BY <1>8, <1>d DEF PlaceHome, Placing, Tasks
    <2>2. /\ UNCHANGED <<rr_counter, affinity>>
          /\ local' = [local EXCEPT ![c] = [target |-> home, best_depth |-> depth, i |-> 0]]
          /\ \/ pc' = [pc EXCEPT ![c] = "push"] \/ pc' = [pc EXCEPT ![c] = "scan"]
             \/ Peer[home] >= 0 /\ pc' = [pc EXCEPT ![c] = "peer"]
      BY <1>8, Zenon DEF PlaceHome, Goto
    <2>3. Peer[home] >= 0 => Peer[home] \in Gpus
      BY <2>1, AdiAssumption DEF Gpus
    <2> HIDE DEF home, depth
    <2>4. [target |-> home, best_depth |-> depth, i |-> 0] \in
            [target : Int, best_depth : Int, i : Int]
      BY <2>1, GpuBasics
    <2>5. QED
      BY <2>1, <2>2, <2>3, <2>4, GpuBasics, Zenon DEF PcOK, Placing, home
  <1>9. ASSUME NEW c \in Clients, PlacePeer(c) PROVE Placing'
    <2>1. pc[c] = "peer" /\ Peer[affinity[c]] \in Gpus /\ UNCHANGED <<rr_counter, affinity>>
      BY <1>9, Zenon DEF PlacePeer, Placing
    <2>2. CASE local' = [local EXCEPT ![c].target = Peer[affinity[c]]]
               /\ pc' = [pc EXCEPT ![c] = "push"]
      <3>1. Peer[affinity[c]] \in Int
        <4>1. \A g \in Gpus : g \in Int
          BY GpuBasics
        <4>2. QED
          BY <2>1, <4>1, Zenon
      <3>2. QED
        BY <2>1, <2>2, <3>1, Zenon DEF PcOK, Placing
    <2>3. CASE local' = local /\ pc' = [pc EXCEPT ![c] = "scan"]
      BY <2>1, <2>3, Zenon DEF PcOK, Placing
    <2>4. QED
      BY <1>9, <2>2, <2>3, Zenon DEF PlacePeer, Goto
  <1>10. ASSUME NEW c \in Clients, PlaceScan(c) PROVE Placing'
    <2>1. PICK target \in Gpus, best_depth \in Int :
            local' = [local EXCEPT ![c].i = local[c].i + 1, ![c].target = target,
                                   ![c].best_depth = best_depth]
      <3>1. /\ local[c].i \in Gpus /\ local[c].target \in Gpus /\ local[c].best_depth \in Int
            /\ Len(queue[local[c].i]) \in Int
        BY <1>10 DEF PlaceScan, Placing, Tasks
      <3>2. QED
        BY <1>10, <3>1, Zenon DEF PlaceScan, Placing
    <2>2. /\ pc[c] = "scan" /\ UNCHANGED <<rr_counter, affinity>>
          /\ IF local[c].i + 1 = NumGpus THEN pc' = [pc EXCEPT ![c] = "push"] ELSE pc' = pc
      BY <1>10, Zenon DEF PlaceScan, Goto
    <2>3. local[c].i + 1 \in Int /\ (local[c].i + 1 = NumGpus \/ local[c].i + 1 \in Gpus)
      BY <2>2, GpuBasics DEF Placing
    <2>4. target \in Int
      BY GpuBasics
    <2>5. QED
      BY <2>1, <2>2, <2>3, <2>4, ZenonT(60) DEF PcOK, Placing
  <1>11. ASSUME NEW c \in Clients, Push(c) PROVE Placing'
    <2>1. /\ UNCHANGED <<rr_counter, affinity>> /\ pc' = [pc EXCEPT ![c] = "get"]
          /\ local' = [local EXCEPT ![c] = NoLocal]
      BY <1>11, Zenon DEF Push, Goto, placeVars
    <2>2. NoLocal \in [target : Int, best_depth : Int, i : Int]
      BY DEF NoLocal
    <2>3. QED
      BY <2>1, <2>2, Zenon DEF PcOK, Placing
  <1>12. CASE UNCHANGED vars
    BY <1>1, <1>12, Zenon DEF vars, sessVars, placeVars
  <1>13. QED
    BY <1>2, <1>3, <1>4, <1>5, <1>6, <1>7, <1>8, <1>9, <1>10, <1>11, <1>12, Zenon DEF Next, Main,
       Session, Returned
-----------------------------------------------------------------------------
(* Pushing, popping and fulfilling a task keep it in one place.            *)
LEMMA StepTasks == PcOK /\ Placing /\ Tasks /\ [Next]_vars => Tasks'
  <1> SUFFICES ASSUME PcOK, Placing, Tasks, [Next]_vars PROVE Tasks'
    OBVIOUS
  <1>d. "wait" \notin Clients /\ "exited" \notin Clients
    BY AdiAssumption, Zenon
  (* Steps that touch no task, and no session that waits for one. *)
  <1>0. ASSUME UNCHANGED <<queue, worker, promise>>, main_pc' = "start" => main_pc = "start",
               \A c \in Clients : Waiting(c)' = Waiting(c)
        PROVE  Tasks'
    <2>1. \A g \in Gpus : \A i \in DOMAIN queue[g] : queue[g][i] \in Clients
      BY DEF Tasks
    <2>2. QED
      BY <1>0, <2>1 DEF Tasks
  <1>1. ASSUME UNCHANGED <<queue, worker, promise, main_pc>>, NEW c \in Clients, NEW l \in Labels,
               pc' = [pc EXCEPT ![c] = l], l # "get", pc[c] # "get" \/ promise[c] # "none"
        PROVE  Tasks'
    <2>1. \A d \in Clients : Waiting(d)' = Waiting(d)
      BY <1>1, Zenon DEF Waiting, PcOK
    <2>2. QED
      BY <1>0, <1>1, <2>1, Zenon
  <1>2. CASE AcceptEnds \/ Throw \/ ThrowStopped \/ JoinFlags \/ JoinSessions \/ JoinWorkers
             \/ StopCall \/ StopBody
    <2>1. UNCHANGED <<queue, worker, promise, pc>> /\ (main_pc' = "start" => main_pc = "start")
      BY <1>2, Zenon DEF AcceptEnds, Throw, ThrowStopped, JoinFlags, JoinSessions, JoinWorkers,
         StopCall, StopBody, StopSweep, StopWorkers, sessVars, gpuVars
    <2>2. QED
      BY <1>0, <2>1, Zenon DEF Waiting
  <1>3. CASE start_workers
    <2>1. /\ UNCHANGED <<queue, promise, pc>> /\ worker' = [g \in Gpus |-> "wait"]
          /\ main_pc' = "accept" /\ \A g \in Gpus : worker[g] = "exited"
      BY <1>3, Zenon DEF start_workers, sessVars, Tasks
    <2>2. \A g \in Gpus : \A i \in DOMAIN queue[g] : queue[g][i] \in Clients
      BY DEF Tasks
    <2>3. QED
      BY <1>d, <2>1, <2>2 DEF Tasks, Waiting
  <1>4. CASE Accept \/ Register
    <2>1. PICK c \in Clients, l \in {"accepted", "assign"} : pc' = [pc EXCEPT ![c] = l] /\ pc[c] # "get"
      BY <1>4, Zenon DEF Accept, Register, Goto, PcOK
    <2>2. \A d \in Clients : Waiting(d)' = Waiting(d)
      BY <1>4, <2>1, Zenon DEF Accept, Register, Waiting, PcOK
    <2>3. QED
      BY <1>0, <1>4, <2>2, Zenon DEF Accept, Register, gpuVars
  <1>5. ASSUME NEW c \in Clients,
               \/ AssignHome(c) \/ Top(c) \/ Client(c) \/ ReadCut(c) \/ PlaceHome(c)
               \/ PlacePeer(c) \/ Get(c) \/ release_client(c) \/ Erase(c)
        PROVE  Tasks'
    <2>1. /\ UNCHANGED <<queue, worker, promise, main_pc>>
          /\ \E l \in Labels \ {"get"} : pc' = [pc EXCEPT ![c] = l]
          /\ pc[c] # "get" \/ promise[c] # "none"
      BY <1>5, Zenon DEF AssignHome, Top, Client, ReadRequest, ReadFails, ReadCut, PlaceHome, PlacePeer,
                  Get, release_client, Erase, Goto, Labels, mainVars, gpuVars
    <2>2. QED
      BY <1>1, <2>1, Zenon
  <1>6. ASSUME NEW c \in Clients, SendPrimary(c) \/ SendDelta(c) PROVE Tasks'
    <2>1. /\ UNCHANGED <<queue, worker, promise, main_pc>> /\ pc[c] # "get"
          /\ \E l \in Labels \ {"get"} : pc' = [pc EXCEPT ![c] = l]
      BY <1>6, Zenon DEF SendPrimary, SendDelta, SendPacket, NextExchange, Goto, Labels,
         mainVars, gpuVars
    <2>2. QED
      BY <1>1, <2>1, Zenon
  <1>7. ASSUME NEW c \in Clients, PlaceScan(c) PROVE Tasks'
    <2>1. UNCHANGED <<queue, worker, promise, main_pc>> /\ pc[c] = "scan"
      BY <1>7, Zenon DEF PlaceScan, mainVars, gpuVars
    <2>2. \A d \in Clients : Waiting(d)' = Waiting(d)
      BY <1>7, <2>1, Zenon DEF PlaceScan, Goto, Waiting, PcOK
    <2>3. QED
      BY <1>0, <2>1, <2>2, Zenon
  <1>8. ASSUME NEW c \in Clients, Push(c) PROVE Tasks'
    <2> DEFINE t == local[c].target
               n == Len(queue[t]) + 1
    <2>1. /\ pc[c] = "push" /\ t \in Gpus /\ pc' = [pc EXCEPT ![c] = "get"]
          /\ queue' = [queue EXCEPT ![t] = Append(queue[t], c)]
          /\ promise' = [promise EXCEPT ![c] = "none"] /\ UNCHANGED <<worker, main_pc>>
      BY <1>8, Zenon DEF Push, Goto, Placing, mainVars
    <2>2. queue[t] \in Seq(Clients)
      BY <2>1, Zenon DEF Tasks
    <2>3. queue' \in [Gpus -> Seq(Clients)] /\ queue'[t] = Append(queue[t], c)
      BY <2>1, <2>2, SMTT(30) DEF Tasks
    <2>4. /\ \A g \in Gpus : \A i \in DOMAIN queue[g] :
               i \in DOMAIN queue'[g] /\ queue'[g][i] = queue[g][i]
          /\ \A g \in Gpus : \A i \in DOMAIN queue'[g] :
               \/ i \in DOMAIN queue[g] /\ queue'[g][i] = queue[g][i]
               \/ g = t /\ i = n /\ queue'[g][i] = c
          /\ n \in DOMAIN queue'[t] /\ queue'[t][n] = c
      BY <2>1, <2>2, <2>3 DEF Tasks
    <2>5. /\ Waiting(c)' /\ ~Waiting(c)
          /\ \A d \in Clients : d # c => Waiting(d)' = Waiting(d)
      BY <2>1, Zenon DEF Waiting, PcOK, Tasks
    <2>6. /\ \A g \in Gpus : \A i \in DOMAIN queue[g] : queue[g][i] \in Clients /\ queue[g][i] # c
          /\ \A g \in Gpus : worker[g] # c
      BY <2>5 DEF Tasks
    <2>7. DOMAIN promise' = Clients
      BY <2>1, Zenon DEF Tasks
    <2> HIDE DEF t, n
    <2>8. QED
      BY <2>1, <2>3, <2>4, <2>5, <2>6, <2>7 DEF Tasks
  <1>9. ASSUME NEW g \in Gpus, WorkerExit(g) PROVE Tasks'
    <2>1. /\ worker[g] = "wait" /\ worker' = [worker EXCEPT ![g] = "exited"]
          /\ UNCHANGED <<queue, promise, pc, main_pc>>
      BY <1>9, Zenon DEF WorkerExit, mainVars, sessVars
    <2>2. \A h \in Gpus : \A i \in DOMAIN queue[h] : queue[h][i] \in Clients
      BY DEF Tasks
    <2>3. QED
      BY <1>d, <2>1, <2>2 DEF Tasks, Waiting
  <1>10. ASSUME NEW g \in Gpus, WorkerTake(g) PROVE Tasks'
    <2> DEFINE c == queue[g][1]
    <2>0. queue[g] \in Seq(Clients) /\ queue[g] # <<>>
      BY <1>10, Zenon DEF WorkerTake, Tasks
    <2>1. /\ worker[g] = "wait" /\ c \in Clients /\ 1 \in DOMAIN queue[g]
          /\ worker' = [worker EXCEPT ![g] = c]
          /\ queue' = [queue EXCEPT ![g] = Tail(queue[g])] /\ UNCHANGED <<promise, pc, main_pc>>
      BY <1>10, <2>0 DEF WorkerTake, popped, mainVars, sessVars
    <2>2. queue' \in [Gpus -> Seq(Clients)] /\ queue'[g] = Tail(queue[g])
      BY <2>0, <2>1 DEF Tasks
    <2>3. /\ \A i \in DOMAIN queue'[g] :
               i + 1 \in DOMAIN queue[g] /\ i \in Int /\ i + 1 # 1 /\ queue'[g][i] = queue[g][i + 1]
          /\ \A i \in DOMAIN queue[g] :
               i = 1 \/ (i \in Int /\ i - 1 \in DOMAIN queue'[g] /\ queue'[g][i - 1] = queue[g][i])
          /\ \A h \in Gpus : h # g => queue'[h] = queue[h]
      BY <2>0, <2>1, <2>2 DEF Tasks
    <2>4. \A d \in Clients : Waiting(d)' = Waiting(d)
      BY <2>1, Zenon DEF Waiting
    <2>5. \A h \in Gpus : \A i \in DOMAIN queue[h] : queue[h][i] \in Clients
      BY DEF Tasks
    <2>6. /\ Waiting(c) /\ \A h \in Gpus : worker[h] # c
          /\ \A h \in Gpus : \A i \in DOMAIN queue[h] : queue[h][i] = c => h = g /\ i = 1
      BY <2>1, Zenon DEF Tasks
    <2>7. worker' \in [Gpus -> Clients \cup {"wait", "exited"}]
      BY <2>1, Zenon DEF Tasks
    <2> HIDE DEF c
    <2>8. \A h \in Gpus : \A i \in DOMAIN queue'[h] :
            /\ Waiting(queue'[h][i])
            /\ \A k \in Gpus : worker'[k] # queue'[h][i]
            /\ \A k \in Gpus : \A j \in DOMAIN queue'[k] :
                 queue'[k][j] = queue'[h][i] => k = h /\ j = i
      <3> SUFFICES ASSUME NEW h \in Gpus, NEW i \in DOMAIN queue'[h]
                   PROVE  /\ Waiting(queue'[h][i])
                          /\ \A k \in Gpus : worker'[k] # queue'[h][i]
                          /\ \A k \in Gpus : \A j \in DOMAIN queue'[k] :
                               queue'[k][j] = queue'[h][i] => k = h /\ j = i
        OBVIOUS
      <3>1. \A k \in Gpus : \A j \in DOMAIN queue'[k] :
              \E m \in DOMAIN queue[k] : /\ queue'[k][j] = queue[k][m]
                                         /\ m = (IF k = g THEN j + 1 ELSE j)
                                         /\ (k = g => j \in Int)
                                         /\ queue[k][m] # c
        BY <2>3, <2>6
      <3>2. PICK m \in DOMAIN queue[h] : /\ queue'[h][i] = queue[h][m] /\ queue[h][m] # c
                                         /\ m = (IF h = g THEN i + 1 ELSE i)
                                         /\ (h = g => i \in Int)
        BY <3>1, Zenon
      <3>3. Waiting(queue'[h][i])
        BY <3>2, Zenon DEF Tasks
      <3>4. \A k \in Gpus : worker'[k] # queue'[h][i]
        BY <2>1, <3>2 DEF Tasks
      <3>5. ASSUME NEW k \in Gpus, NEW j \in DOMAIN queue'[k], queue'[k][j] = queue'[h][i]
            PROVE  k = h /\ j = i
        <4>1. PICK q \in DOMAIN queue[k] : /\ queue'[k][j] = queue[k][q]
                                           /\ q = (IF k = g THEN j + 1 ELSE j)
                                           /\ (k = g => j \in Int)
          BY <3>1, Zenon
        <4>2. k = h /\ q = m
          BY <3>2, <3>5, <4>1 DEF Tasks
        <4>3. QED
          BY <3>2, <4>1, <4>2
      <3>6. QED
        BY <3>3, <3>4, <3>5, Zenon
    <2>9. \A h \in Gpus : worker'[h] \in Clients =>
            Waiting(worker'[h]) /\ \A k \in Gpus : worker'[k] = worker'[h] => k = h
      BY <2>1, <2>6 DEF Tasks
    <2>10. \A d \in Clients : Waiting(d)' =>
             \E h \in Gpus : worker'[h] = d \/ \E i \in DOMAIN queue'[h] : queue'[h][i] = d
      <3> SUFFICES ASSUME NEW d \in Clients, Waiting(d)
                   PROVE  \E h \in Gpus :
                            worker'[h] = d \/ \E i \in DOMAIN queue'[h] : queue'[h][i] = d
        BY <2>4, Zenon
      <3>1. PICK h \in Gpus : worker[h] = d \/ \E i \in DOMAIN queue[h] : queue[h][i] = d
        BY Zenon DEF Tasks
      <3>2. CASE worker[h] = d
        BY <1>d, <2>1, <3>2 DEF Tasks
      <3>3. ASSUME NEW i \in DOMAIN queue[h], queue[h][i] = d
            PROVE  worker'[g] = d \/ \E j \in DOMAIN queue'[h] : queue'[h][j] = d
        <4>1. CASE h = g /\ i = 1
          BY <2>1, <3>3, <4>1, Zenon DEF Tasks, c
        <4>2. CASE h = g /\ i # 1
          BY <2>3, <3>3, <4>2, Zenon
        <4>3. CASE h # g
          BY <2>3, <3>3, <4>3, Zenon
        <4>4. QED
          BY <4>1, <4>2, <4>3, Zenon
      <3>4. QED
        BY <3>1, <3>2, <3>3, Zenon
    <2>11. main_pc' = "start" => \A h \in Gpus : worker'[h] = "exited"
      BY <2>1, Zenon DEF Tasks
    <2>12. QED
      BY <2>1, <2>2, <2>7, <2>8, <2>9, <2>10, <2>11, SMTT(30) DEF Tasks, Waiting
  <1>11. ASSUME NEW g \in Gpus, WorkerFulfil(g) PROVE Tasks'
    <2>1. PICK c \in Clients, outcome \in {"value", "error"} :
            /\ worker[g] = c /\ worker' = [worker EXCEPT ![g] = "wait"]
            /\ promise' = [promise EXCEPT ![c] = outcome] /\ UNCHANGED <<queue, pc, main_pc>>
      BY <1>11, Zenon DEF WorkerFulfil, mainVars
    <2>2. /\ ~Waiting(c)' /\ DOMAIN promise' = Clients
          /\ \A d \in Clients : d # c => Waiting(d)' = Waiting(d)
      BY <2>1, Zenon DEF Waiting, Tasks
    <2>3. \A h \in Gpus : \A i \in DOMAIN queue[h] : queue[h][i] \in Clients /\ queue[h][i] # c
      BY <2>1 DEF Tasks
    <2>4. \A h \in Gpus : h # g => worker[h] # c
      BY <2>1, Zenon DEF Tasks
    <2>5. /\ worker' \in [Gpus -> Clients \cup {"wait", "exited"}] /\ main_pc' # "start"
          /\ \A h \in Gpus : worker'[h] = worker[h] \/ (h = g /\ worker'[h] = "wait")
          /\ \A h \in Gpus : h # g => worker'[h] = worker[h]
      BY <1>d, <2>1 DEF Tasks
    <2>6. \A d \in Clients : Waiting(d)' =>
            \E h \in Gpus : worker'[h] = d \/ \E i \in DOMAIN queue[h] : queue[h][i] = d
      <3> SUFFICES ASSUME NEW d \in Clients, d # c, Waiting(d)
                   PROVE  \E h \in Gpus :
                            worker'[h] = d \/ \E i \in DOMAIN queue[h] : queue[h][i] = d
        BY <2>2, Zenon
      <3>1. PICK h \in Gpus : worker[h] = d \/ \E i \in DOMAIN queue[h] : queue[h][i] = d
        BY Zenon DEF Tasks
      <3>2. QED
        BY <2>1, <2>5, <3>1, Zenon
    <2>7. \A h \in Gpus : worker'[h] \in Clients =>
            /\ pc'[worker'[h]] = "get" /\ promise'[worker'[h]] = "none"
            /\ \A k \in Gpus : worker'[k] = worker'[h] => k = h
      BY <1>d, <2>1, <2>4, <2>5 DEF Tasks, Waiting
    <2>8. \A h \in Gpus : \A i \in DOMAIN queue[h] :
            /\ pc'[queue[h][i]] = "get" /\ promise'[queue[h][i]] = "none"
            /\ \A k \in Gpus : worker'[k] # queue[h][i]
      BY <1>d, <2>1, <2>3, <2>5, SMTT(30) DEF Tasks, Waiting
    <2>9. QED
      BY <2>1, <2>2, <2>5, <2>6, <2>7, <2>8 DEF Tasks, Waiting
  <1>12. CASE UNCHANGED vars
    BY <1>0, <1>12, Zenon DEF vars, sessVars, gpuVars, mainVars, Waiting
  <1>13. QED
    BY <1>2, <1>3, <1>4, <1>5, <1>6, <1>7, <1>8, <1>9, <1>10, <1>11, <1>12, Zenon DEF Next, Main,
       Session, Worker, Returned
-----------------------------------------------------------------------------
(* Before run() every queue is empty and no worker has started.            *)
LEMMA InitTasks == Init => Placing /\ Tasks
  <1> SUFFICES ASSUME Init PROVE Placing /\ Tasks
    OBVIOUS
  <1>1. \A c \in Clients : pc[c] = "none" /\ promise[c] = "none"
    BY Zenon DEF Init
  <1>2. Placing
    <2>1. NoLocal \in [target : Int, best_depth : Int, i : Int]
      BY DEF NoLocal
    <2>2. affinity = <<>> /\ rr_counter = 0 /\ local = [c \in Clients |-> NoLocal]
      BY Zenon DEF Init
    <2>3. DOMAIN affinity = {}
      BY <2>2
    <2>4. QED
      BY <1>1, <2>1, <2>2, <2>3, Zenon DEF Placing
  <1>3. Tasks
    <2>1. queue = [g \in Gpus |-> <<>>] /\ worker = [g \in Gpus |-> "exited"]
      BY Zenon DEF Init
    <2>2. queue \in [Gpus -> Seq(Clients)] /\ \A g \in Gpus : DOMAIN queue[g] = {}
      BY <2>1
    <2>3. \A g \in Gpus : worker[g] \notin Clients
      BY <2>1, AdiAssumption, Zenon
    <2>4. DOMAIN promise = Clients
      BY Zenon DEF Init
    <2>5. QED
      BY <1>1, <2>1, <2>2, <2>3, <2>4, Zenon DEF Tasks, Waiting
  <1>4. QED
    BY <1>2, <1>3, Zenon

(* A queue holds no client twice, so it is no longer than there are        *)
(* clients: unbounded as the code leaves it, a queue cannot grow beyond    *)
(* the sessions.                                                           *)
LEMMA QueueBounded ==
  ASSUME Tasks, NEW g \in Gpus
  PROVE  DOMAIN queue[g] \subseteq 1..Cardinality(Clients)
  <1> DEFINE n == Len(queue[g])
             f == [i \in 1..n |-> queue[g][i]]
  <1>1. queue[g] \in Seq(Clients) /\ n \in Nat /\ DOMAIN queue[g] = 1..n
    BY DEF Tasks
  <1>2. \A i, j \in 1..n : f[i] = f[j] => i = j
    BY <1>1 DEF Tasks
  <1>3. f \in [1..n -> Clients]
    BY <1>1
  <1>4. f \in Injection(1..n, Clients)
    BY <1>2, <1>3, Zenon DEF Injection, IsInjective
  <1>5. Cardinality(1..n) <= Cardinality(Clients)
    BY <1>4, FS_Injection, AdiAssumption, Zenon
  <1>6. Cardinality(1..n) = n
    BY <1>1, FS_Interval
  <1>7. Cardinality(Clients) \in Nat
    BY FS_CardinalityType, AdiAssumption, Zenon
  <1> HIDE DEF n, f
  <1>8. QED
    BY <1>1, <1>5, <1>6, <1>7

(* No task is lost, duplicated or answered twice between a session and the *)
(* worker it waits for, whatever the queue depths place reads.             *)
THEOREM EachTaskOnce == Spec => []OneTaskEach
  <1>1. Inv /\ [Next]_vars => Inv'
    BY PcMoves, StepAffinity, StepPlacing, StepTasks, Zenon DEF Inv
  <1>2. Init => Inv
    BY InitStream, InitTasks, Zenon DEF Inv
  <1>3. Inv => OneTaskEach
    <2> SUFFICES ASSUME Inv, NEW c \in Clients
                 PROVE  LET queued == {p \in Gpus \X (1..Cardinality(Clients)) :
                                         p[2] \in DOMAIN queue[p[1]] /\ queue[p[1]][p[2]] = c}
                            held == {g \in Gpus : worker[g] = c}
                        IN  Cardinality(queued) + Cardinality(held)
                              = IF pc[c] = "get" /\ promise[c] = "none" THEN 1 ELSE 0
      BY Zenon DEF OneTaskEach
    <2> DEFINE queued == {p \in Gpus \X (1..Cardinality(Clients)) :
                            p[2] \in DOMAIN queue[p[1]] /\ queue[p[1]][p[2]] = c}
               held == {g \in Gpus : worker[g] = c}
    <2>0. Cardinality({}) = 0 /\ \A x : Cardinality({x}) = 1
      BY FS_EmptySet, FS_Singleton, Zenon
    <2>1. CASE ~Waiting(c)
      <3>1. queued = {} /\ held = {}
        BY <2>1 DEF Inv, Tasks
      <3> HIDE DEF queued, held
      <3>2. Cardinality(queued) = 0 /\ Cardinality(held) = 0
        BY <2>0, <3>1, Zenon
      <3>3. Cardinality(queued) + Cardinality(held) = 0
        BY <3>2
      <3>4. QED
        BY <2>1, <3>3, Zenon DEF Waiting, queued, held
    <2>2. ASSUME NEW g \in Gpus, worker[g] = c PROVE queued = {} /\ held = {g}
      BY <2>2 DEF Inv, Tasks
    <2>3. ASSUME NEW g \in Gpus, NEW i \in DOMAIN queue[g], queue[g][i] = c
          PROVE  queued = {<<g, i>>} /\ held = {}
      <3>1. held = {}
        BY <2>3 DEF Inv, Tasks
      <3>2. <<g, i>> \in queued
        BY <2>3, QueueBounded, Zenon DEF Inv
      <3>3. \A p \in queued : p = <<g, i>>
        BY <2>3 DEF Inv, Tasks
      <3>4. QED
        BY <3>1, <3>2, <3>3, Zenon
    <2>4. CASE Waiting(c)
      <3>1. PICK g \in Gpus : worker[g] = c \/ \E i \in DOMAIN queue[g] : queue[g][i] = c
        BY <2>4, Zenon DEF Inv, Tasks
      <3>2. \/ queued = {} /\ \E x : held = {x}
            \/ held = {} /\ \E x : queued = {x}
        BY <2>2, <2>3, <3>1, Zenon
      <3> HIDE DEF queued, held
      <3>3. \/ Cardinality(queued) = 0 /\ Cardinality(held) = 1
            \/ Cardinality(queued) = 1 /\ Cardinality(held) = 0
        BY <2>0, <3>2, Zenon
      <3>4. Cardinality(queued) + Cardinality(held) = 1
        BY <3>3
      <3>5. QED
        BY <2>4, <3>4, Zenon DEF Waiting, queued, held
    <2>5. QED
      BY <2>1, <2>4, Zenon
  <1>4. QED
    BY <1>1, <1>2, <1>3, PTL DEF Spec
==============================================================================
